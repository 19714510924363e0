SPECIFICATION Spec
CONSTANTS
    c1 = c1
    c2 = c2
    c3 = c3
    c4 = c4
    t1 = t1
    Requests = {c1, c2, c3, c4, t1}
    a1 = a1
    a2 = a2
    Blank = Blank
    Addresses = {a1, a2, Blank}
    FormOf <- MCFormOf
    MaxPerAddress = 2
    MaxEntries = 1
SYMMETRY Interchangeable
INVARIANTS
    AcceptedBounded
    TableBounded
CHECK_DEADLOCK FALSE
