SPECIFICATION Spec
CONSTANTS
    a = a
    b = b
    c = c
    Requests = {a, b}
    Scenarios <- Throws
    Catcher = TRUE
INVARIANTS
    TrueMeansDumped
