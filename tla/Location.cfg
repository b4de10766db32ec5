SPECIFICATION Spec
CONSTANTS
    None = None
    Handler = handler
    Admins = {admin}
    Ids = {l1, l2, l3}
    Places = {p, q}
    Definition = definition
    MaxSaves = 5
    MaxCrashes = 1
INVARIANTS
    TypeOK
    OneActive
    CopyIsActive
PROPERTY
    SaveRepairs
