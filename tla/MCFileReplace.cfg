SPECIFICATION Spec
CONSTANTS
    Writers = {w1, w2}
    Readers = {r1}
    Temps = {t1, t2, t3}
    Contents = {a, b}
    Torn = Torn
    NoTemp = NoTemp
SYMMETRY Symmetry

INVARIANTS
    TypeOK
    TargetIsWhole
    ReadersSeeWholeFiles
    SuccessIsDurable
    TempsAreCleanedUp
PROPERTIES
    ImplementsAtomicFile
