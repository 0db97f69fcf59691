SPECIFICATION Spec
CONSTANTS
    u1 = u1
    u2 = u2
    u3 = u3
    Users = {u1, u2, u3}
    SQLUsers = {u1}
    Capacity = 1
    Attempts = 3
INVARIANT
    EndedIsCancelled
