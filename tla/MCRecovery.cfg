CONSTANTS
    p1 = p1
    p2 = p2
    Proc = {p1, p2}
    Crowds = {{p1, p2}, {p1}, {p2}}
    Preservers = {p1, p2}
    Failing = {p1, p2}
    MaxVer = 2
    MaxBak = 2
    MaxMail = 2
SYMMETRY Symmetry
SPECIFICATION Spec
INVARIANTS LiveSessionSafe PromisesKept NothingLeftBehind
