SPECIFICATION Spec
CONSTANTS
    Getter = {g}
    Lister = {l, m}
    Camera = {A, B, C}
    NoThread = NoThread
    NoCamera = NoCamera
INVARIANTS
    TypeOK
    MetasComplete
    RightDescriptor
PROPERTIES
    NothingMissed
