SPECIFICATION Spec
CONSTANTS
    Address = {a1, a2, a3}
    Piece <- ThreePieces
    MaxBytes = 6
    Pool = {p1, p2}
    Block = {b1, b2, b3}
    SourceShared = FALSE
    Name = {"a", "b"}
    MaxSize = 4
    User = {u1, u2}
    MaxLength = 2
    Null = Null
SYMMETRY Symmetry
INVARIANTS
    LinksHold
    RoundTrips
    AgreesWithReference
PROPERTIES
    ActsAsDeque
