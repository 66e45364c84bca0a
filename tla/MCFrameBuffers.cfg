SPECIFICATION Spec
CONSTANTS
    Thread = {t1, t2}
    NoThread = NoThread
    DefaultSize = 2
    PayloadSizes = {1, 3}
    ImageSizes = {1, 2, 3}
INVARIANTS
    TypeOK
    OwnFreshFrame
