-------------------------- MODULE CameraDeviceProofs --------------------------
(***************************************************************************)
(* Proofs about CameraDevice for any bound on the retries of StopGrabbing: *)
(* its invariants, and that it implements DeviceContract.                  *)
(***************************************************************************)
EXTENDS CameraDevice, TLAPS

\* Which method each step belongs to.
Methods ==
    /\ at = "idle" <=> call = "none"
    /\ at \in {"create", "open", "params", "stream"} <=> call = "start"
    /\ at \in {"connected", "frame", "convert"} => call = "take_picture"
    /\ call # "none" => alive /\ ~image
    /\ aborted => at \in {"idle", "convert"}

\* The flags in the middle of a method.
Flags ==
    /\ ~alive => ~camera
    /\ at \in {"create", "open", "params"} => camera /\ ~camera_open
    /\ call = "start" => camera /\ ~grapping /\ ~streaming
    /\ at = "create" => handle = "none"
    /\ at = "stream" => camera_open
    /\ at \in {"connected", "frame", "convert", "stop", "sleep"} =>
           Ready
    /\ at = "convert" => sized
    /\ at = "close" => /\ ~grapping
                       /\ camera_open = camera
                       /\ ~camera => call = "destroy" /\ handle = "none" /\ ~streaming

DeviceInv ==
    /\ TypeOK
    /\ Methods
    /\ Flags
    /\ RestingFlags
    /\ HandleGivenBack
    /\ CallOrder

LEMMA Retries ==
    /\ 0 \in 0..MaxRetries
    /\ \A n \in 0..MaxRetries : n < MaxRetries => n + 1 \in 0..MaxRetries
BY RetriesAssumption

LEMMA InitDevice == Init => DeviceInv
<1> SUFFICES ASSUME Init PROVE DeviceInv
  OBVIOUS
<1> USE DEF Init
<1>1. TypeOK
  BY Retries DEF TypeOK, Step
<1>2. Methods /\ Flags
  BY DEF Methods, Flags
<1>3. RestingFlags /\ HandleGivenBack /\ CallOrder
  BY DEF RestingFlags, HandleGivenBack, CallOrder
<1>4. QED
  BY <1>1, <1>2, <1>3 DEF DeviceInv

LEMMA NextDevice == DeviceInv /\ [Next]_vars => DeviceInv'
<1> SUFFICES ASSUME DeviceInv, [Next]_vars PROVE DeviceInv'
  OBVIOUS
<1> USE DEF DeviceInv, TypeOK, Step, Methods, Flags, RestingFlags, HandleGivenBack,
        CallOrder, Ready, device, sdk, Return, GoOn, OpenFailed, StopAndClose
<1>1. CASE Start
  BY <1>1 DEF Start
<1>2. CASE TakePicture
  BY <1>2 DEF TakePicture
<1>3. CASE TakePictureAborts
  BY <1>3 DEF TakePictureAborts
<1>4. CASE Destroy
  <2> USE <1>4 DEF Destroy
  <2>1. TypeOK'
    BY Retries
  <2>2. Methods' /\ Flags'
    OBVIOUS
  <2>3. RestingFlags' /\ HandleGivenBack' /\ CallOrder'
    OBVIOUS
  <2>4. QED
    BY <2>1, <2>2, <2>3
<1>5. CASE CreateHandle
  BY <1>5 DEF CreateHandle
<1>6. CASE OpenDevice
  BY <1>6 DEF OpenDevice
<1>7. CASE InitParams
  BY <1>7 DEF InitParams
<1>8. CASE StartGrabbing
  BY <1>8 DEF StartGrabbing
<1>9. CASE IsDeviceConnected
  BY Retries, <1>9 DEF IsDeviceConnected
<1>10. CASE GetOneFrame
  BY Retries, <1>10 DEF GetOneFrame
<1>11. CASE SaveImage \/ SaveImageFills
  <2>1. CASE SaveImage
    BY <2>1 DEF SaveImage
  <2>2. CASE SaveImageFills
    BY <2>2 DEF SaveImageFills
  <2>3. QED
    BY <1>11, <2>1, <2>2
<1>12. CASE StopGrabbing
  <2> USE <1>12 DEF StopGrabbing
  <2>1. times' \in 0..MaxRetries
    BY Retries
  <2>2. TypeOK'
    BY <2>1
  <2>3. Methods' /\ Flags'
    OBVIOUS
  <2>4. RestingFlags' /\ HandleGivenBack' /\ CallOrder'
    OBVIOUS
  <2>5. QED
    BY <2>2, <2>3, <2>4
<1>13. CASE Sleep
  BY <1>13 DEF Sleep
<1>14. CASE CloseCamera
  BY <1>14 DEF CloseCamera
<1>15. CASE UNCHANGED vars
  BY <1>15 DEF vars
<1>16. QED
  BY <1>1, <1>2, <1>3, <1>4, <1>5, <1>6, <1>7, <1>8, <1>9, <1>10, <1>11, <1>12,
     <1>13, <1>14, <1>15 DEF Next, Proceed, Halted

THEOREM DeviceInvariance == Spec => []DeviceInv
BY InitDevice, NextDevice, PTL DEF Spec

\* The types; above all, StopGrabbing is never repeated more often than it may be.
THEOREM DeviceTypeCorrect == Spec => []TypeOK
<1>1. DeviceInv => TypeOK
  BY DEF DeviceInv
<1>2. QED
  BY <1>1, DeviceInvariance, PTL

\* A CameraDevice that is shut or gone holds no SDK handle.
THEOREM NoHandleKept == Spec => []HandleGivenBack
<1>1. DeviceInv => HandleGivenBack
  BY DEF DeviceInv
<1>2. QED
  BY <1>1, DeviceInvariance, PTL

\* Between calls the flags of the device and the state of the SDK agree.
THEOREM FlagsAtRest == Spec => []RestingFlags
<1>1. DeviceInv => RestingFlags
  BY DEF DeviceInv
<1>2. QED
  BY <1>1, DeviceInvariance, PTL

\* The SDK is never called in an order it would refuse.
THEOREM SdkCallOrder == Spec => []CallOrder
<1>1. DeviceInv => CallOrder
  BY DEF DeviceInv
<1>2. QED
  BY <1>1, DeviceInvariance, PTL

-----------------------------------------------------------------------------
(* CameraDevice implements DeviceContract *)

LEMMA InitContract == Init => Contract!Init
BY DEF Init, Contract!Init

LEMMA NextContract ==
    DeviceInv /\ [Next]_vars => [Contract!Next]_Contract!vars
<1> SUFFICES ASSUME DeviceInv, [Next]_vars PROVE [Contract!Next]_Contract!vars
  OBVIOUS
<1> USE DEF DeviceInv, TypeOK, Methods, Flags, RestingFlags, Ready, device, sdk,
        Return, GoOn, Contract!Next, Contract!vars, Contract!Method
<1>1. CASE Start
  <2>1. Contract!Begin("start")
    BY <1>1 DEF Start, Contract!Begin
  <2>2. QED
    BY <2>1
<1>2. CASE TakePicture
  <2>1. Contract!Begin("take_picture")
    BY <1>2 DEF TakePicture, Contract!Begin
  <2>2. QED
    BY <2>1
<1>3. CASE TakePictureAborts
  <2>1. Contract!Abort
    BY <1>3 DEF TakePictureAborts, Contract!Abort
  <2>2. QED
    BY <2>1
<1>4. CASE Destroy
  <2>1. Contract!Begin("destroy")
    BY <1>4 DEF Destroy, Contract!Begin
  <2>2. QED
    BY <2>1
\* While start is in progress the object counts as free; its end is EndStart.
<1>5. CASE CreateHandle
  BY <1>5 DEF CreateHandle, OpenFailed, Contract!EndStart
<1>6. CASE OpenDevice
  BY <1>6 DEF OpenDevice, OpenFailed, Contract!EndStart
<1>7. CASE InitParams
  BY <1>7 DEF InitParams
<1>8. CASE StartGrabbing
  BY <1>8 DEF StartGrabbing, Contract!EndStart
<1>9. CASE IsDeviceConnected
  BY <1>9 DEF IsDeviceConnected, StopAndClose
<1>10. CASE GetOneFrame
  BY <1>10 DEF GetOneFrame, StopAndClose, Contract!EndTake
<1>11. CASE ~aborted /\ SaveImage
  BY <1>11 DEF SaveImage, Contract!EndTake
<1>12. CASE ~aborted /\ SaveImageFills
  <2>1. Contract!AbortOnImage
    BY <1>12 DEF SaveImageFills, Contract!AbortOnImage
  <2>2. QED
    BY <2>1
<1>13. CASE StopGrabbing
  BY <1>13 DEF StopGrabbing, Contract!Stop
<1>14. CASE Sleep
  BY <1>14 DEF Sleep
<1>15. CASE CloseCamera
  BY <1>15 DEF CloseCamera, CallOrder, Contract!Close, Contract!EndDestroy
<1>16. CASE UNCHANGED vars
  BY <1>16 DEF vars
<1>17. QED
  BY <1>1, <1>2, <1>3, <1>4, <1>5, <1>6, <1>7, <1>8, <1>9, <1>10, <1>11, <1>12,
     <1>13, <1>14, <1>15, <1>16 DEF Next, Proceed, Halted

\* Whatever the SDK answers, the provider sees only the lives of DeviceContract.
THEOREM DeviceImplementsContract == Spec => Implements
<1>1. QED
  BY InitContract, NextContract, DeviceInvariance, PTL
  DEF Spec, Implements, Contract!Spec

===============================================================================
