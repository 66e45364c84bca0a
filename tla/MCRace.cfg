SPECIFICATION Spec
CONSTANTS
    a = a  A = A  B = B
    NoThread = NoThread
    NoDevice = NoDevice
    NoCamera = NoCamera
    Thread = {t1, t2}
    Device = {d1, d2, d3}
    Name = {A}
    Upper <- MCOneUpper
    Faulty = {}
    Exclusive = {A}
    Unfit = {}
PROPERTIES
    HealthyGetsFrame
