SPECIFICATION Spec
CONSTANTS
    s1 = s1
    s2 = s2
    again = again
    o1 = o1
    o2 = o2
    Shop = {s1, s2, again}
    Origin = {o1, o2}
    Domain <- MCDomain
    Extra <- MCExtra
    Worker = {w1}
    Request = {r1, r2}
    TTL = 2
    MaxTime = 4
SYMMETRY CorsSymmetry
INVARIANTS
    TypeOK
    ListIsFresh
