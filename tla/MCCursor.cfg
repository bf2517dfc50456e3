CONSTANTS
    p1 = p1
    p2 = p2
    s1 = s1
    s2 = s2
    Slots = {slot}
    Pointers = {p1, p2}
    Shapes = {s1, s2}
    Positions = {here, there}
    Blank = blank
    Arrow = arrow
    None = none
    MaxCalls = 4
SYMMETRY PointerSymmetry
SPECIFICATION Spec
INVARIANTS TypeOK LastCallShown FlagMeansBlank
