SPECIFICATION Spec
CONSTANTS
    Users = {u1, u2}
    First = u1
    Ops = {"stop", "start", "hard_reboot", "delete", "soft_delete", "pause", "unpause"}
    MaxMishaps = 1
    u1 = u1
    u2 = u2
INVARIANTS Released
PROPERTIES  PowerTaskEnds PowerSettles DeletedGuestGoes
CHECK_DEADLOCK FALSE
