SPECIFICATION FairSpec
CONSTANTS
    l1 = l1  t1 = t1
    p1 = p1
    v1 = v1  v2 = v2
    w1 = w1  w2 = w2  w3 = w3
    Users = {l1, t1}
    Landlords = {l1}
    Properties = {p1}
    Checks = {v1, v2}
    Kinds = {"ai_photo", "virtual_tour", "physical"}
    Workers = {w1, w2, w3}
    NoRow = NoRow
    CutOff = {"submit", "decide", "create", "move", "open"}
INVARIANTS TypeOK VerifiedBacked ListedVetted ChecksBegun
PROPERTIES DecisionStands ImplementsBadge PromotedInTheEnd
CHECK_DEADLOCK FALSE
