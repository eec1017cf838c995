\* Squarings, random programs, string tables and format-1 derivations.
SPECIFICATION Spec
CONSTANTS
    AndOp <- BitAnd
    OrOp <- BitOr
    XorOp <- BitXor
    Workers = {w1, w2}
    Serialized <- Keypairs
    Counts = {1, 4, 6}
    Bases = {0, 9, 11, 50}
    Scalars = {0, 1, 6, 10, 15}
    MinBits = 8
    MaxPuzzles = 1
    MaxStarts = 2
    MaxResets = 1
    Half = 8
    Chain = 3
    SumModulus = 3
    Names = {1, 2, 3}
    InitVals = {2, 5}
    Keys = {3, 6}
    Steps = 3
    Salts = {5}
    Spread = 3
    Offset = 2
    Values = {1, 2, 3}
    MaxPieces = 4
    Width = 8
    OffsetBasis = 197
    Prime = 19
    Shifts <- SmallShifts
    Units = {46, 48, 49, 97, 255}
    UnitD = 100
    MaxLen = 3
    MaxIndex = 12
    MaxDigits = 5
SYMMETRY Symmetric
INVARIANTS
    TrapdoorAgrees
    MinterFitsOptions
    ScriptAgrees
    SameScript
    ServerMatchesWidget
    LongerIsHarder
