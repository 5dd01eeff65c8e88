CONSTANTS
    u1 = u1  u2 = u2  u3 = u3  h1 = h1  h2 = h2
    NoUser = NoUser
    Users = {u1, u2, u3}
    Students = {u1}
    Inbox = {u2, u3}
    Handlers = {h1, h2}
    MaxTickets = 1
    MayFail = FALSE
SPECIFICATION Spec
CHECK_DEADLOCK FALSE
SYMMETRY RaceSymmetry
INVARIANT ConnectedIsAssignee
