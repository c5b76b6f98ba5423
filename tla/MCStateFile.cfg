SPECIFICATION Spec
CONSTANTS
    Writers = {w1, w2}
    MaxFiles = 4
INVARIANTS
    TypeOK
    NeverTorn
    AckedSurvives
PROPERTY
    ImplementsAtomicFile
