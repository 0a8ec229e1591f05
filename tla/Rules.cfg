CONSTANTS
    r1 = r1  r2 = r2
    b1 = b1  b2 = b2
    c1 = c1
    n1 = n1  n2 = n2
    Hole = Hole
    Unset = Unset
    Requests = {r1, r2}
    Badges = {b1, b2}
    Fading = {b1}
    Names = {n1, n2}
    Scores = {c1}
    LastNow = 2
    Brought <- MCBrought
    Bodies <- MCBodies
SPECIFICATION Spec
INVARIANT TypeOK
INVARIANT UniqueNames
INVARIANT NoRuleLost
CONSTRAINT Bounded
SYMMETRY Alike
INVARIANT FadesHold
