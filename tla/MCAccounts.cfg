SPECIFICATION FairEmbedSpec
CONSTANTS
    a = a  u1 = u1
    ea = ea  e1 = e1
    l1 = l1  l2 = l2
    w1 = w1  w2 = w2
    Users = {a, u1}
    Emails = {ea, e1}
    Admin = a
    AdminEmail = ea
    LookupIds = {l1, l2}
    Seekers = {w1, w2}
    LastText = 2
    BatchSize = 2
    NoRow = NoRow
INVARIANTS EmbedTypeOK RolesHold OneActiveLookup ClearedHasVector
PROPERTIES VectorForward EmbeddedInTheEnd
CHECK_DEADLOCK FALSE
