CONSTANTS
    u1 = u1  u2 = u2  u3 = u3  h1 = h1  h2 = h2
    NoUser = NoUser
    Users = {u1, u2}
    Students = {u1, u2}
    Inbox = {u2}
    Handlers = {h1}
    MaxTickets = 2
    MayFail = FALSE
SPECIFICATION Spec
CHECK_DEADLOCK FALSE
INVARIANTS
    LimitsHold
    
