SPECIFICATION FairSpec
CONSTANTS
    a = a  A = A  B = B
    NoThread = NoThread
    NoDevice = NoDevice
    NoCamera = NoCamera
    Thread = {t1}
    Device = {d1, d2, d3}
    Name = {A}
    Upper <- MCOneUpper
    Faulty = {A}
    Exclusive = {A}
    Unfit = {}
PROPERTIES
    Recovers
