\* One caller, as in a FileAgent: chunks of up to BufSize bytes over an
\* alphabet of a newline and two other bytes.
CONSTANTS
    Byte = {nl, x, y}
    NL = nl
    Caller = {c1}
    BufSize = 3
    MaxBytes = 6
SPECIFICATION Spec
INVARIANTS
    WholeLines
    NoLineLost
    PartLineIsRest
    LastTokenExists
    LinesInOrder
