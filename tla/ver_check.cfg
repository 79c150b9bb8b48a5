SPECIFICATION Spec
CONSTANTS
    Images = {a, b}
    Conns = {c1, c2, c3}
    None = None
    LateErr = FALSE
INVARIANTS TypeOK OfferIsStable 
SYMMETRY Symmetry
PROPERTY RetryConnects
