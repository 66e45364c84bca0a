----------------------------- MODULE CameraDevice -----------------------------
(***************************************************************************)
(* A CameraDevice of src/src/camera_service.cc, one SDK call at a time. Its *)
(* methods run under lock_, so one call is in progress; the SDK answers    *)
(* every call as it likes. CMvCamera is the wrapper in src/src/MvCamera.cc. *)
(* Two places take several SDK calls together: the parameters of a camera  *)
(* just opened, and CloseDevice with DestroyHandle. Nothing but the        *)
(* PayloadSize depends on how those calls turn out.                        *)
(***************************************************************************)
EXTENDS Naturals

CONSTANT MaxRetries     \* 5 in the code: repetitions of a failed StopGrabbing

ASSUME RetriesAssumption == MaxRetries \in Nat

VARIABLES
    at,                 \* the SDK call that comes next, or "idle"
    call,               \* the method in progress
    alive,              \* the object exists
    camera,             \* camera_ # NULL
    camera_open,        \* camera_open_
    grapping,           \* grapping_
    sized,              \* default_buff_size_ > 0
    times,              \* the local "times" of _stop_grapping
    image,              \* the call put a frame into the caller's buffer
    aborted,            \* an assertion of take_picture failed
    handle,             \* m_hDevHandle: NULL is "none", else "created" or "open"
    streaming           \* the SDK is acquiring frames on the handle

device == <<alive, camera, camera_open, grapping, sized>>
sdk    == <<handle, streaming>>
vars   == <<at, call, device, times, image, aborted, sdk>>

Step == {"idle", "create", "open", "params", "stream", "connected", "frame",
         "convert", "stop", "sleep", "close"}

Return == at' = "idle" /\ call' = "none"
GoOn(step) == at' = step /\ UNCHANGED call

-----------------------------------------------------------------------------
(* Mutations of the operations below, for testing the properties. *)

\* The handle of a camera that cannot be opened is not destroyed.
OpenFailedLeak == camera' = FALSE /\ Return /\ UNCHANGED handle

\* The failure of StartGrabbing is not noticed.
StartGrabbingBlind ==
    /\ at = "stream"
    /\ grapping' = TRUE
    /\ streaming' \in BOOLEAN
    /\ Return
    /\ UNCHANGED <<alive, camera, camera_open, sized, times, image, aborted,
                   handle>>

\* One retry more, or no closing after the last failure.
StopGrabbingOnceMore ==
    /\ at = "stop"
    /\ IF times <= MaxRetries THEN times' = times + 1 /\ GoOn("sleep")
                              ELSE GoOn("close") /\ UNCHANGED times
    /\ UNCHANGED <<device, image, aborted, sdk>>

StopGrabbingOnly ==
    /\ at = "stop"
    /\ grapping' = FALSE
    /\ streaming' = FALSE
    /\ Return
    /\ UNCHANGED <<alive, camera, camera_open, sized, times, image, aborted, handle>>

\* The label of the retry stands before "int times = 0".
SleepForgets ==
    /\ at = "sleep"
    /\ GoOn("stop")
    /\ times' = 0
    /\ UNCHANGED <<device, image, aborted, sdk>>

\* The flag of an open camera is not reset.
CloseCameraFlag ==
    /\ at = "close"
    /\ camera' = FALSE
    /\ handle' = "none"
    /\ streaming' = FALSE
    /\ alive' = (call # "destroy")
    /\ Return
    /\ UNCHANGED <<camera_open, sized, grapping, times, image, aborted>>

-----------------------------------------------------------------------------
Init ==
    /\ at = "idle"
    /\ call = "none"
    /\ alive = FALSE
    /\ camera = FALSE
    /\ camera_open = FALSE
    /\ grapping = FALSE
    /\ sized = FALSE
    /\ times = 0
    /\ image = FALSE
    /\ aborted = FALSE
    /\ handle = "none"
    /\ streaming = FALSE

\* find_or_create_camera_device makes an object and starts it.
Start ==
    /\ at = "idle" /\ ~aborted
    /\ ~alive
    /\ alive' = TRUE
    /\ camera' = TRUE               \* new CMvCamera
    /\ call' = "start"
    /\ at' = "create"
    /\ image' = FALSE
    /\ UNCHANGED <<camera_open, grapping, sized, times, aborted, sdk>>

\* _open_camera failed: DestroyHandle, whose result is ignored, m_hDevHandle becomes
\* NULL, and the CMvCamera is deleted.
OpenFailed ==
    /\ camera' = FALSE
    /\ handle' = "none"
    /\ Return

\* CMvCamera::Open is MV_CC_CreateHandle and MV_CC_OpenDevice; a handle that
\* cannot be opened is destroyed.
CreateHandle ==
    /\ at = "create"
    /\ \/ handle' = "created" /\ GoOn("open") /\ UNCHANGED camera
       \/ OpenFailed
    /\ UNCHANGED <<alive, camera_open, grapping, sized, times, image, aborted,
                   streaming>>

OpenDevice ==
    /\ at = "open"
    /\ \/ handle' = "open" /\ GoOn("params") /\ UNCHANGED camera
       \/ OpenFailed
    /\ UNCHANGED <<alive, camera_open, grapping, sized, times, image, aborted,
                   streaming>>

\* The packet size of a GigE camera and the calls of _init_cam_params, in one step:
\* their results are ignored, but the PayloadSize may remain unknown.
InitParams ==
    /\ at = "params"
    /\ sized' \in {sized, TRUE}
    /\ camera_open' = TRUE
    /\ GoOn("stream")
    /\ UNCHANGED <<alive, camera, grapping, times, image, aborted, sdk>>

\* _start_grapping; on failure start returns and the camera stays open.
StartGrabbing ==
    /\ at = "stream"
    /\ grapping' \in BOOLEAN
    /\ streaming' = grapping'
    /\ Return
    /\ UNCHANGED <<alive, camera, camera_open, sized, times, image, aborted,
                   handle>>

-----------------------------------------------------------------------------
\* The assertions at the head of take_picture.
Ready == camera /\ camera_open /\ grapping

TakePicture ==
    /\ at = "idle" /\ ~aborted
    /\ alive
    /\ Ready
    /\ call' = "take_picture"
    /\ at' = "connected"
    /\ image' = FALSE
    /\ UNCHANGED <<device, times, aborted, sdk>>

TakePictureAborts ==
    /\ at = "idle" /\ ~aborted
    /\ alive
    /\ ~Ready
    /\ aborted' = TRUE
    /\ image' = FALSE
    /\ UNCHANGED <<at, call, device, times, sdk>>

\* _stop_and_close begins; _stop_grapping does nothing unless grapping_.
StopAndClose ==
    /\ GoOn(IF grapping THEN "stop" ELSE "close")
    /\ times' = 0

IsDeviceConnected ==
    /\ at = "connected"
    /\ \/ GoOn("frame") /\ UNCHANGED times
       \/ StopAndClose
    /\ UNCHANGED <<device, image, aborted, sdk>>

\* cache_data_ has room for a frame if the PayloadSize is known.
GetOneFrame ==
    /\ at = "frame"
    /\ \/ sized /\ GoOn("convert") /\ UNCHANGED times
       \/ sized /\ StopAndClose                  \* MV_E_NODATA
       \/ Return /\ UNCHANGED times              \* any other error
    /\ UNCHANGED <<device, image, aborted, sdk>>

\* _to_jpg: SaveImage into the caller's buffer.
SaveImage ==
    /\ at = "convert"
    /\ image' \in BOOLEAN
    /\ Return
    /\ UNCHANGED <<device, times, aborted, sdk>>

\* set_data_size asserts that the image is shorter than the buffer it filled.
SaveImageFills ==
    /\ at = "convert"
    /\ aborted' = TRUE
    /\ UNCHANGED <<at, call, device, times, image, sdk>>

-----------------------------------------------------------------------------
\* _stop_grapping: MV_E_USB_WRITE, or one failure too many, counts as stopped.
StopGrabbing ==
    /\ at = "stop"
    /\ \/ streaming' = FALSE /\ grapping' = FALSE /\ GoOn("close")
          /\ UNCHANGED times
       \/ grapping' = FALSE /\ GoOn("close") /\ UNCHANGED <<times, streaming>>
       \/ times < MaxRetries /\ times' = times + 1 /\ GoOn("sleep")
          /\ UNCHANGED <<grapping, streaming>>
    /\ UNCHANGED <<alive, camera, camera_open, sized, image, aborted, handle>>

\* local_sleep(100), and the retry.
Sleep ==
    /\ at = "sleep"
    /\ GoOn("stop")
    /\ UNCHANGED <<device, times, image, aborted, sdk>>

\* _close_camera: CloseDevice and DestroyHandle in one step. Their results are
\* ignored and m_hDevHandle becomes NULL; what an SDK that refuses them keeps, the
\* program cannot give back any more.
CloseCamera ==
    /\ at = "close"
    /\ camera_open' = FALSE
    /\ camera' = FALSE
    /\ IF camera THEN handle' = "none" /\ streaming' = FALSE ELSE UNCHANGED sdk
    /\ alive' = (call # "destroy")
    /\ sized' = (sized /\ alive')
    /\ Return
    /\ UNCHANGED <<grapping, times, image, aborted>>

\* The last shared_ptr goes.
Destroy ==
    /\ at = "idle" /\ ~aborted
    /\ alive
    /\ call' = "destroy"
    /\ at' = IF grapping THEN "stop" ELSE "close"
    /\ times' = 0
    /\ image' = FALSE
    /\ UNCHANGED <<device, aborted, sdk>>

-----------------------------------------------------------------------------
\* A call in progress takes its next step.
Proceed ==
    /\ ~aborted
    /\ \/ CreateHandle \/ OpenDevice \/ InitParams \/ StartGrabbing
       \/ IsDeviceConnected \/ GetOneFrame \/ SaveImage \/ SaveImageFills
       \/ StopGrabbing \/ Sleep \/ CloseCamera

Halted == aborted /\ UNCHANGED vars

Next ==
    \/ Start \/ TakePicture \/ TakePictureAborts \/ Destroy
    \/ Proceed
    \/ Halted

Spec == Init /\ [][Next]_vars

\* A thread inside a method keeps running: the SDK calls have timeouts.
FairSpec == Spec /\ WF_vars(Proceed)

-----------------------------------------------------------------------------
TypeOK ==
    /\ at \in Step
    /\ call \in {"none", "start", "take_picture", "destroy"}
    /\ alive \in BOOLEAN /\ camera \in BOOLEAN /\ camera_open \in BOOLEAN
    /\ grapping \in BOOLEAN /\ sized \in BOOLEAN
    /\ times \in 0..MaxRetries
    /\ image \in BOOLEAN /\ aborted \in BOOLEAN
    /\ handle \in {"none", "created", "open"}
    /\ streaming \in BOOLEAN

\* Between calls the three flags agree with each other and with the SDK: camera_
\* is set exactly when the handle is open, and grapping_ when it delivers. The
\* flags are what is_shutdown and the assertions of take_picture go by.
RestingFlags ==
    at = "idle" =>
        /\ camera <=> handle = "open"
        /\ camera_open = camera
        /\ grapping = streaming
        /\ grapping => camera

\* Whatever failed while it was opened or used, a CameraDevice that is shut or gone
\* has handed its SDK handle to DestroyHandle and forgotten it: unless the SDK refuses
\* even that, the camera can be opened anew.
HandleGivenBack == at = "idle" /\ ~camera => handle = "none" /\ ~streaming

\* The SDK is called in an order it accepts: the calls on an open camera only
\* while it is open, those for a frame only after StartGrabbing has succeeded.
CallOrder ==
    /\ at = "open" => handle = "created"
    /\ at \in {"params", "stream", "connected", "frame", "convert", "stop", "sleep"}
           => handle = "open"
    /\ at \in {"connected", "frame", "convert", "stop", "sleep"} => streaming
    /\ at = "close" => (camera <=> handle = "open")

\* Every method returns, though StopGrabbing may fail for ever: the retries are
\* bounded, and lock_ is given back; unless an assertion ends the program.
Returns == at # "idle" ~> at = "idle" \/ aborted

\* The promise to the provider.
Contract == INSTANCE DeviceContract WITH
    life <- IF ~alive \/ call = "start" THEN "free"
            ELSE IF ~camera THEN "shut"
            ELSE IF ~grapping THEN "half"
            ELSE IF sized THEN "live" ELSE "unsized"

\* However its SDK calls turn out, a CameraDevice goes only through the lives
\* that CameraProvider gives it, and never back from "shut".
Implements == Contract!Spec

===============================================================================
