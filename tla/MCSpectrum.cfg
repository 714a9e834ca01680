SPECIFICATION MCSpec
CONSTANTS
    DevBoard = TRUE
    ColBytes = 2
    Rows = 2
    Xs = {7, 16}
    Ys = {1, 2}
    Bytes <- MCBytes
    Size = 32
    Prime = 31
    Cos1 = 2
    Sin1 = 20
INVARIANTS
    TransformsRight
PROPERTIES
    DrawsPicture
    FormDrawsPicture
