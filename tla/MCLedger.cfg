SPECIFICATION FairPaySpec
CONSTANTS
    u1 = u1  u2 = u2
    p1 = p1  p2 = p2
    s1 = s1
    q1 = q1
    t1 = t1  t2 = t2  t3 = t3
    v1 = v1
    a1 = a1  a2 = a2
    h1 = h1  h2 = h2
    m1 = m1
    Users = {u1, u2}
    Properties = {p1, p2}
    SquadIds = {s1}
    ProposalIds = {}
    Inviters = {}
    Proposers = {}
    PaymentModels = {"leader_pays_all", "split_evenly"}
    MaxSize = 2
    NoProperty = NoProperty
    NoRow = NoRow
    Fragile = {a1}
    TxIds = {t1, t2}
    FeeIds = {}
    Deposit <- MCDeposit
    MinAmount = 0
    Payers = {a1}
    Hooks = {h1, h2}
    Movers = {m1}
    MaxDeliveries = 2
    Overlap = FALSE
INVARIANTS LockedCovered
PROPERTIES ImplementsEscrow PaidSettles CollectedLocks
CHECK_DEADLOCK FALSE
