SPECIFICATION Spec
CONSTANTS
    u1 = u1  u2 = u2
    s1 = s1
    c1 = c1  c2 = c2
    r1 = r1
    m1 = m1  m2 = m2
    Users = {u1, u2}
    SquadIds = {s1}
    NoRow = NoRow
    Fragile = {c1}
    MessageIds = {m1, m2}
    Chatters = {c1, c2}
    Readers = {r1}
    Limits = {0, 1, 2, 3}
    DefaultLimit = 1
    MaxLimit = 2
    LastInstant = 1
SYMMETRY Sym
INVARIANTS TypeOK ChatOfMembers WalkComplete
PROPERTIES PagesDescend
CHECK_DEADLOCK FALSE
