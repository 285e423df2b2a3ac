SPECIFICATION Spec
CONSTANTS
    u1 = u1  u2 = u2  u3 = u3
    p1 = p1  p2 = p2
    w1 = w1  w2 = w2  v1 = v1
    s1 = s1  s2 = s2
    q1 = q1  q2 = q2
    Users = {u1, u2, u3}
    Properties = {p1}
    SquadIds = {s1}
    ProposalIds = {q1, q2}
    Inviters = {w1, w2}
    Proposers = {v1}
    PaymentModels = {"leader_pays_all"}
    MaxSize = 2
    NoProperty = NoProperty
    NoRow = NoRow
    Fragile = {w1, v1}
INVARIANT CountIsAccepted
CHECK_DEADLOCK FALSE
