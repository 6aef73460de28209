SPECIFICATION Spec
CONSTANTS
    a = a
    b = b
    c = c
    Requests = {a, b}
    Scenarios <- Names
    Catcher = TRUE
INVARIANTS
    StripRequestsStripped
