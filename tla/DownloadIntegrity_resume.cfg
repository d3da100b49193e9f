SPECIFICATION SpecOverlap
CONSTANTS
    b1 = b1
    b2 = b2
    p1 = p1
    w1 = w1
    w2 = w2
    None = None
    Blocks <- Blocks2
    Parts = {p1}
    PartOf <- OnePart
    Workers = {w1, w2}
    MaxLane = 2
    MaxSaves = 1
SYMMETRY Symmetry
INVARIANTS VerifiedIsGood
