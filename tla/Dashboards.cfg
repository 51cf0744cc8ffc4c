\* A dashboard: each update counts the version up.
CONSTANTS
    e1 = e1  e2 = e2
    f1 = f1  f2 = f2
    a = a  b = b
    Editors = {e1, e2}
    Fields = {f1, f2}
    Values = {a, b}
    NoVersion = NoVersion
    Counts = TRUE
    MaxSaves = 3
SPECIFICATION Spec
PROPERTIES NoLostUpdate SavedAsSent ImplementsAtomicSaves
CHECK_DEADLOCK FALSE
