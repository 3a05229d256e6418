SPECIFICATION Spec
CONSTANTS
    Client = {c1, c2}
    Pid = {p1}
    Width = 3
    NameLen = 7
    None = None
SYMMETRY Symmetry
INVARIANTS MistakenOnlyLate
