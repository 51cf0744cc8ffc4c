\* A query: the version is compared and stays what it is.
CONSTANTS
    e1 = e1  e2 = e2
    f1 = f1  f2 = f2
    a = a  b = b
    Editors = {e1, e2}
    Fields = {f1, f2}
    Values = {a, b}
    NoVersion = NoVersion
    Counts = FALSE
    MaxSaves = 3
SPECIFICATION Spec
PROPERTY NoLostUpdate
CHECK_DEADLOCK FALSE
