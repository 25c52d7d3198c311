CONSTANTS
    Base = 2
    InitBufferSize = 8
    Apps = {a1, a2}
    Handles = {1, 2}
    Classes = 3
    DefaultSize = 4
    Scores <- MCScores
    Sizes = {0, 2, 4}
    WideSizes = {17}
    Rooms = {16, 64}
SPECIFICATION Spec
SYMMETRY Symmetry
INVARIANTS  SizeHonoured BestClasses
