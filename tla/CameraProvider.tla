---------------------------- MODULE CameraProvider ----------------------------
(***************************************************************************)
(* The CameraServiceProvider of src/src/camera_service.cc under the worker *)
(* threads of the synchronous gRPC server: the map cameras_list_ from      *)
(* serial numbers to CameraDevice objects, its mutex, the mutex of every   *)
(* device, the reference counts of the shared_ptrs, and the steps of       *)
(* take_picture between which other threads run.                           *)
(*                                                                         *)
(* A CameraDevice is seen through what its locked methods leave behind;    *)
(* module CameraDevice has the SDK calls inside one of them.               *)
(***************************************************************************)
EXTENDS Naturals, FiniteSets

CONSTANTS
    Thread,     \* worker threads of the gRPC server
    Name,       \* spellings of serial numbers a client may send
    Upper,      \* Upper[n]: the spelling n through to_upper
    Device,     \* the CameraDevice objects make_shared may return
    Faulty,     \* the cameras whose link or SDK calls may fail
    Exclusive,  \* the cameras on which the SDK refuses a second handle
    Unfit,      \* the cameras whose image may not get into a request's buffer:
                \* SaveImage or malloc fails, or the image fills the buffer
    NoThread, NoDevice, NoCamera

\* The keys of cameras_list_; a camera is identified by its key.
Camera == {Upper[n] : n \in Name}

ASSUME NamesAssumption ==
    /\ Upper \in [Name -> Name]
    /\ \A n \in Name : Upper[Upper[n]] = Upper[n]

ASSUME ConstantsAssumption ==
    /\ Faulty \subseteq Camera
    /\ Exclusive \subseteq Camera
    /\ Unfit \subseteq Camera
    /\ NoThread \notin Thread
    /\ NoDevice \notin Device
    /\ NoCamera \notin Name

VARIABLES
    pc,         \* pc[t]: where thread t is in take_picture
    key,        \* key[t]: the upper-cased serial number of t's request
    ref,        \* ref[t]: the shared_ptr thread t holds
    image,      \* image[t]: the camera whose frame is in t's reply
    cameras,    \* cameras_list_
    listLock,   \* lock_cameras_list_: the thread that holds it
    devLock,    \* devLock[d]: the thread that holds d's lock_
    dev,        \* dev[d]: the object d, its life, the key it was made for and the
                \* camera it was started on
    listed,     \* the cameras camera_info_list_ describes
    overtaken,  \* the threads with a descriptor from find_camera_info_by_sn that
                \* an enumeration has rewritten since
    healthy,    \* the cameras that are reachable and whose SDK calls succeed
    lost,       \* the devices whose SDK handle lost its camera
    crashed     \* an assertion of take_picture failed: the process aborted

server == <<pc, key, ref, image, cameras, listLock, devLock, dev, listed, overtaken,
            crashed>>
vars   == <<server, healthy, lost>>

\* The program points of a request. "find" waits for lock_cameras_list_,
\* "isshut" holds it and waits for the device's lock_, in "replace" it is held
\* while a device is closed; "take" waits for the device's lock_, "grab" and
\* "close" hold it.
Point == {"idle", "find", "isshut", "info", "start", "add", "replace", "take",
          "grab", "close", "release"}

\* "free": no such object. "shut": camera_ is NULL. "half": camera_ is open
\* but grapping_ is false. "unsized" and "live" are started; in "unsized" the
\* PayloadSize query failed and default_buff_size_ is still 0.
Life == {"free", "shut", "half", "unsized", "live"}

Gone == [life |-> "free", key |-> NoCamera, cam |-> NoCamera]

Opened(d)  == dev[d].life \in {"half", "unsized", "live"}   \* camera_ != NULL
Started(d) == dev[d].life \in {"unsized", "live"}           \* and grapping_

\* d was started on another camera than the one it was made for.
Mixed(d) == dev[d].cam # dev[d].key

Goto(t, point) == pc' = [pc EXCEPT ![t] = point]

\* No rewritten descriptor is in use, and none has been.
Undisturbed == overtaken = {} /\ \A d \in Device : ~Mixed(d)

\* The shared_ptrs to d other than thread t's and the map entry of name n.
SharedBeyond(d, t, n) ==
    \/ \E u \in Thread \ {t} : ref[u] = d
    \/ \E m \in Camera \ {n} : cameras[m] = d

\* A mutation of Dropped: objects are never destroyed.
DroppedNever(d, stillShared) == dev

\* Dropping the last shared_ptr runs ~CameraDevice: stop_and_close, and the
\* object is gone.
Dropped(d, stillShared) ==
    IF stillShared THEN dev ELSE [dev EXCEPT ![d] = Gone]

-----------------------------------------------------------------------------
(* The SDK, as far as opening a camera goes. *)

Handles(c) == {d \in Device : Opened(d) /\ dev[d].cam = c}

MayOpen(c)  == c \in Exclusive => Handles(c) \subseteq lost
MustOpen(c) == c \in healthy /\ (Handles(c) = {} \/ c \notin Exclusive)

-----------------------------------------------------------------------------
(* Mutations of the operations below, for testing the properties. *)

\* find_or_create_camera_device without to_upper.
GetImageAsSpelt(t, n) ==
    /\ pc[t] = "idle"
    /\ key' = [key EXCEPT ![t] = n]
    /\ Goto(t, "find")
    /\ UNCHANGED <<ref, image, cameras, listLock, devLock, dev, listed, crashed>>

\* The device is erased whether or not it is closed.
FindShutAny(t) ==
    LET d == cameras[key[t]] IN
    /\ pc[t] = "isshut"
    /\ devLock[d] = NoThread
    /\ cameras' = [cameras EXCEPT ![key[t]] = NoDevice]
    /\ dev' = Dropped(d, SharedBeyond(d, t, key[t]))
    /\ listLock' = NoThread
    /\ Goto(t, "info")
    /\ UNCHANGED <<key, ref, image, devLock, listed, crashed>>

\* lock_cameras_list_ is not given back.
FindKeepsLock(t) ==
    LET d == cameras[key[t]] IN
    /\ pc[t] = "isshut"
    /\ devLock[d] = NoThread
    /\ Opened(d)
    /\ ref' = [ref EXCEPT ![t] = d]
    /\ Goto(t, "take")
    /\ UNCHANGED <<key, image, cameras, listLock, devLock, dev, listed, crashed>>

\* start does not report that StartGrabbing failed.
StartUnchecked(t, d) ==
    /\ pc[t] = "start"
    /\ dev[d] = Gone
    /\ ref' = [ref EXCEPT ![t] = d]
    /\ MayOpen(key[t])
    /\ \E life \in {"live", "half"} :
           dev' = [dev EXCEPT ![d] = [life |-> life, key |-> key[t], cam |-> key[t]]]
    /\ Goto(t, "add")
    /\ UNCHANGED <<key, image, cameras, listLock, devLock, listed, crashed>>

\* The connection is checked, and the camera closed, without lock_.
TakeDisconnectedUnlocked(t) ==
    /\ pc[t] = "take"
    /\ Started(ref[t])
    /\ ref[t] \in lost
    /\ dev' = [dev EXCEPT ![ref[t]].life = "shut"]
    /\ Goto(t, "release")
    /\ UNCHANGED <<key, ref, image, cameras, listLock, devLock, listed,
                   crashed>>

\* A camera that is gone is reported but not closed.
TakeDisconnectedOpen(t) ==
    /\ pc[t] = "take"
    /\ devLock[ref[t]] = NoThread
    /\ Started(ref[t])
    /\ ref[t] \in lost
    /\ Goto(t, "release")
    /\ UNCHANGED <<key, ref, image, cameras, listLock, devLock, dev, listed,
                   crashed>>

\* set_data_size compares with the data that the buffer holds so far, which is none.
GrabFillsShort(t) ==
    /\ pc[t] = "grab"
    /\ dev[ref[t]].life = "live" /\ ref[t] \notin lost
    /\ crashed' = TRUE
    /\ UNCHANGED <<pc, key, ref, image, cameras, listLock, devLock, dev, listed>>

\* The image buffer outlives the request.
ReleaseKeepsImage(t) ==
    /\ pc[t] = "release"
    /\ ref' = [ref EXCEPT ![t] = NoDevice]
    /\ dev' = IF ref[t] = NoDevice THEN dev
              ELSE Dropped(ref[t], SharedBeyond(ref[t], t, NoCamera))
    /\ key' = [key EXCEPT ![t] = NoCamera]
    /\ Goto(t, "idle")
    /\ UNCHANGED <<image, cameras, listLock, devLock, listed, crashed>>

-----------------------------------------------------------------------------
\* start_grpc_server enumerates once (dump_cameras) before it serves, and goes on
\* whatever that leaves in the list.
Init ==
    /\ pc = [t \in Thread |-> "idle"]
    /\ key = [t \in Thread |-> NoCamera]
    /\ ref = [t \in Thread |-> NoDevice]
    /\ image = [t \in Thread |-> NoCamera]
    /\ cameras = [c \in Camera |-> NoDevice]
    /\ listLock = NoThread
    /\ devLock = [d \in Device |-> NoThread]
    /\ dev = [d \in Device |-> Gone]
    /\ healthy \in {H \in SUBSET Camera : Camera \ Faulty \subseteq H}
    /\ listed \in SUBSET Camera
    /\ overtaken = {}
    /\ lost = {}
    /\ crashed = FALSE

\* The handler GetImage starts: it makes its own empty buffer and calls
\* take_picture, whose find_or_create_camera_device upper-cases the name.
GetImage(t, n) ==
    /\ pc[t] = "idle"
    /\ key' = [key EXCEPT ![t] = Upper[n]]
    /\ Goto(t, "find")
    /\ UNCHANGED <<ref, image, cameras, listLock, devLock, dev, listed, crashed>>

\* find_camera_device_by_sn takes lock_cameras_list_ and looks the key up;
\* without an entry it returns at once.
FindAbsent(t) ==
    /\ pc[t] = "find"
    /\ listLock = NoThread
    /\ cameras[key[t]] = NoDevice
    /\ Goto(t, "info")
    /\ UNCHANGED <<key, ref, image, cameras, listLock, devLock, dev, listed,
                   crashed>>

FindPresent(t) ==
    /\ pc[t] = "find"
    /\ listLock = NoThread
    /\ cameras[key[t]] # NoDevice
    /\ listLock' = t
    /\ Goto(t, "isshut")
    /\ UNCHANGED <<key, ref, image, cameras, devLock, dev, listed, crashed>>

\* is_shutdown takes the device's lock_ while lock_cameras_list_ is held. A
\* device that was closed is erased, another one is returned.
FindShut(t) ==
    LET d == cameras[key[t]] IN
    /\ pc[t] = "isshut"
    /\ devLock[d] = NoThread
    /\ ~Opened(d)
    /\ cameras' = [cameras EXCEPT ![key[t]] = NoDevice]
    /\ dev' = Dropped(d, SharedBeyond(d, t, key[t]))
    /\ listLock' = NoThread
    /\ Goto(t, "info")
    /\ UNCHANGED <<key, ref, image, devLock, listed, crashed>>

FindOpen(t) ==
    LET d == cameras[key[t]] IN
    /\ pc[t] = "isshut"
    /\ devLock[d] = NoThread
    /\ Opened(d)
    /\ ref' = [ref EXCEPT ![t] = d]
    /\ listLock' = NoThread
    /\ Goto(t, "take")
    /\ UNCHANGED <<key, image, cameras, devLock, dev, listed, crashed>>

\* find_camera_info_by_sn: a camera the last enumeration did not see cannot
\* be opened.
FindInfo(t) ==
    /\ pc[t] = "info"
    /\ Goto(t, IF key[t] \in listed THEN "start" ELSE "release")
    /\ UNCHANGED <<key, ref, image, cameras, listLock, devLock, dev, listed,
                   crashed>>

\* make_shared and start. The object is private to t, so its lock_ is free. The
\* descriptor is read after its mutex was released: one that was rewritten
\* meanwhile may describe any camera, or none. _open_camera may fail, and then
\* closes; _start_grapping may fail, and leaves the camera open for the destructor.
Start(t, d) ==
    /\ pc[t] = "start"
    /\ dev[d] = Gone
    /\ ref' = [ref EXCEPT ![t] = d]
    /\ \E c \in IF t \in overtaken THEN Camera \cup {NoCamera} ELSE {key[t]} :
           LET Becomes(life, point) ==
                   /\ dev' = [dev EXCEPT ![d] = [life |-> life, key |-> key[t], cam |-> c]]
                   /\ Goto(t, point)
               May == c \in Camera /\ MayOpen(c)
           IN  \/ May /\ Becomes("live", "add")
               \/ May /\ c \notin healthy /\ Becomes("unsized", "add")
               \/ May /\ c \notin healthy /\ Becomes("half", "release")
               \/ ~MustOpen(c) /\ Becomes("shut", "release")
    /\ UNCHANGED <<key, image, cameras, listLock, devLock, listed, crashed>>

\* The entry that t is about to replace is the last reference to an open device.
ClosesEntry(t) ==
    LET old == cameras[key[t]] IN
    old # NoDevice /\ Opened(old) /\ ~SharedBeyond(old, NoThread, key[t])

\* add_camera_device: the assignment drops the entry it replaces.
Add(t) ==
    LET old == cameras[key[t]] IN
    /\ pc[t] = "add"
    /\ listLock = NoThread
    /\ ~ClosesEntry(t)
    /\ cameras' = [cameras EXCEPT ![key[t]] = ref[t]]
    /\ dev' = IF old = NoDevice THEN dev
              ELSE Dropped(old, SharedBeyond(old, NoThread, key[t]))
    /\ Goto(t, "take")
    /\ UNCHANGED <<key, ref, image, listLock, devLock, listed, crashed>>

\* Where that runs ~CameraDevice of an open device, StopGrabbing with its retries
\* and sleeps and the closing of the handle come under lock_cameras_list_. Nobody
\* else reaches the device or the map meanwhile: what they do shows at the end.
AddClosing(t) ==
    /\ pc[t] = "add"
    /\ listLock = NoThread
    /\ ClosesEntry(t)
    /\ listLock' = t
    /\ Goto(t, "replace")
    /\ UNCHANGED <<key, ref, image, cameras, devLock, dev, listed, crashed>>

Replaced(t) ==
    /\ pc[t] = "replace"
    /\ cameras' = [cameras EXCEPT ![key[t]] = ref[t]]
    /\ dev' = [dev EXCEPT ![cameras[key[t]]] = Gone]
    /\ listLock' = NoThread
    /\ Goto(t, "take")
    /\ UNCHANGED <<key, ref, image, devLock, listed, crashed>>

\* CameraDevice::take_picture takes lock_ and asserts that the camera is
\* open and grabbing; the Makefile build keeps the assertions, a build with
\* NDEBUG dereferences the NULL camera_ on the next line.
TakeShut(t) ==
    /\ pc[t] = "take"
    /\ devLock[ref[t]] = NoThread
    /\ ~Started(ref[t])
    /\ crashed' = TRUE
    /\ UNCHANGED <<pc, key, ref, image, cameras, listLock, devLock, dev, listed>>

\* IsDeviceConnected says no.
TakeDisconnected(t) ==
    LET d == ref[t] IN
    /\ pc[t] = "take"
    /\ devLock[d] = NoThread
    /\ Started(d)
    /\ d \in lost
    /\ devLock' = [devLock EXCEPT ![d] = t]
    /\ Goto(t, "close")
    /\ UNCHANGED <<key, ref, image, cameras, listLock, dev, listed, crashed>>

\* _stop_and_close under lock_, with the retries and sleeps of StopGrabbing; then
\* take_picture returns an error.
Close(t) ==
    LET d == ref[t] IN
    /\ pc[t] = "close"
    /\ dev' = [dev EXCEPT ![d].life = "shut"]
    /\ devLock' = [devLock EXCEPT ![d] = NoThread]
    /\ Goto(t, "release")
    /\ UNCHANGED <<key, ref, image, cameras, listLock, listed, crashed>>

\* IsDeviceConnected says yes: wait for a frame, holding lock_.
TakeConnected(t) ==
    LET d == ref[t] IN
    /\ pc[t] = "take"
    /\ devLock[d] = NoThread
    /\ Started(d)
    /\ d \notin lost
    /\ devLock' = [devLock EXCEPT ![d] = t]
    /\ Goto(t, "grab")
    /\ UNCHANGED <<key, ref, image, cameras, listLock, dev, listed, crashed>>

\* The ends of take_picture after the wait. A frame is converted into the buffer
\* of the request, ...
GrabImage(t) ==
    LET d == ref[t] IN
    /\ pc[t] = "grab"
    /\ dev[d].life = "live" /\ d \notin lost
    /\ image' = [image EXCEPT ![t] = dev[d].cam]
    /\ devLock' = [devLock EXCEPT ![d] = NoThread]
    /\ Goto(t, "release")
    /\ UNCHANGED <<key, ref, cameras, listLock, dev, listed, crashed>>

\* ... or _to_jpg fails, in SaveImage or for want of memory, ...
GrabUnconverted(t) ==
    LET d == ref[t] IN
    /\ pc[t] = "grab"
    /\ dev[d].life = "live" /\ d \notin lost
    /\ dev[d].cam \in Unfit
    /\ devLock' = [devLock EXCEPT ![d] = NoThread]
    /\ Goto(t, "release")
    /\ UNCHANGED <<key, ref, image, cameras, listLock, dev, listed, crashed>>

\* ... or set_data_size asserts that the image is shorter than its buffer, and it
\* is exactly as long; module FrameBuffers has the sizes.
GrabFills(t) ==
    LET d == ref[t] IN
    /\ pc[t] = "grab"
    /\ dev[d].life = "live" /\ d \notin lost
    /\ dev[d].cam \in Unfit
    /\ crashed' = TRUE
    /\ UNCHANGED <<pc, key, ref, image, cameras, listLock, devLock, dev, listed>>

\* No frame: an error that keeps the camera open, or MV_E_NODATA, which closes it.
\* Without a sized buffer GetOneFrameTimeout can only fail.
Failing(d) == d \in lost \/ dev[d].cam \notin healthy

GrabError(t) ==
    LET d == ref[t] IN
    /\ pc[t] = "grab"
    /\ Failing(d) \/ dev[d].life = "unsized"
    /\ devLock' = [devLock EXCEPT ![d] = NoThread]
    /\ Goto(t, "release")
    /\ UNCHANGED <<key, ref, image, cameras, listLock, dev, listed, crashed>>

GrabNoData(t) ==
    /\ pc[t] = "grab"
    /\ Failing(ref[t])
    /\ Goto(t, "close")
    /\ UNCHANGED <<key, ref, image, cameras, listLock, devLock, dev, listed, crashed>>

\* take_picture of the provider returns: its shared_ptr goes, and the handler
\* replies OK with whatever the buffer holds.
Release(t) ==
    /\ pc[t] = "release"
    /\ ref' = [ref EXCEPT ![t] = NoDevice]
    /\ dev' = IF ref[t] = NoDevice THEN dev
              ELSE Dropped(ref[t], SharedBeyond(ref[t], t, NoCamera))
    /\ key' = [key EXCEPT ![t] = NoCamera]
    /\ image' = [image EXCEPT ![t] = NoCamera]
    /\ Goto(t, "idle")
    /\ UNCHANGED <<cameras, listLock, devLock, listed, crashed>>

\* The handler GetCameraMetas: enum_all_cameras_info lets the SDK rewrite
\* camera_info_list_ under its own mutex. The list may come out short, also where
\* EnumDevices fails, and the descriptors that were found in it are rewritten.
GetCameraMetas(t) ==
    /\ pc[t] = "idle"
    /\ listed' \in SUBSET Camera
    /\ overtaken' = overtaken \cup {u \in Thread : pc[u] = "start"}
    /\ UNCHANGED <<pc, key, ref, image, cameras, listLock, devLock, dev, crashed>>

-----------------------------------------------------------------------------
(* The cameras: one becomes unreachable or unreliable, and recovers. A      *)
(* handle that lost its camera never gets it back.                          *)

Fail(c) ==
    /\ c \in healthy \cap Faulty
    /\ healthy' = healthy \ {c}
    /\ lost' = lost \cup Handles(c)
    /\ UNCHANGED server

Recover(c) ==
    /\ c \notin healthy
    /\ healthy' = healthy \cup {c}
    /\ UNCHANGED <<server, lost>>

-----------------------------------------------------------------------------
\* A handle that is destroyed is no longer a lost one, and a thread that has moved
\* on from its descriptor no longer depends on it.
Forget == lost' = {d \in lost : Opened(d)'}

\* The steps a request takes by itself once it has begun.
Handle(t) ==
    /\ ~crashed
    /\ \/ FindAbsent(t) \/ FindPresent(t) \/ FindShut(t) \/ FindOpen(t)
       \/ FindInfo(t)
       \/ \E d \in Device : Start(t, d)
       \/ Add(t) \/ AddClosing(t) \/ Replaced(t)
       \/ TakeShut(t) \/ TakeDisconnected(t) \/ TakeConnected(t)
       \/ GrabImage(t) \/ GrabUnconverted(t) \/ GrabFills(t)
       \/ GrabError(t) \/ GrabNoData(t)
       \/ Close(t)
       \/ Release(t)
    /\ Forget
    /\ overtaken' = overtaken \ {t}
    /\ UNCHANGED healthy

Request(t) ==
    /\ ~crashed
    /\ \/ \E n \in Name : GetImage(t, n) /\ UNCHANGED overtaken
       \/ GetCameraMetas(t)
    /\ UNCHANGED <<healthy, lost>>

Environment == ~crashed /\ \E c \in Camera : Fail(c) \/ Recover(c)

\* After an abort nothing runs.
Halted == crashed /\ UNCHANGED vars

Next ==
    \/ \E t \in Thread : Request(t) \/ Handle(t)
    \/ Environment
    \/ Halted

Spec == Init /\ [][Next]_vars

\* The operating system runs every worker that can take a step; a mutex may be
\* taken by any of the waiting threads, so fairness is weak.
FairSpec == Spec /\ \A t \in Thread : WF_vars(Handle(t))

-----------------------------------------------------------------------------
TypeOK ==
    /\ pc \in [Thread -> Point]
    /\ key \in [Thread -> Camera \cup {NoCamera}]
    /\ ref \in [Thread -> Device \cup {NoDevice}]
    /\ image \in [Thread -> Camera \cup {NoCamera}]
    /\ cameras \in [Camera -> Device \cup {NoDevice}]
    /\ listLock \in Thread \cup {NoThread}
    /\ devLock \in [Device -> Thread \cup {NoThread}]
    /\ dev \in [Device -> [life : Life, key : Camera \cup {NoCamera},
                                        cam : Camera \cup {NoCamera}]]
    /\ listed \in SUBSET Camera
    /\ overtaken \subseteq {t \in Thread : pc[t] = "start"}
    /\ healthy \in SUBSET Camera
    /\ lost \in SUBSET Device
    /\ crashed \in BOOLEAN

Referenced(d) ==
    \/ \E t \in Thread : ref[t] = d
    \/ \E c \in Camera : cameras[c] = d

\* The shared_ptrs of the map and of the threads keep exactly the devices that
\* exist: no thread and no entry is left with a destroyed CameraDevice, and no
\* device survives, with its SDK handle, that nobody can reach any more.
ReferencesExact == \A d \in Device : Referenced(d) <=> dev[d] # Gone

\* A thread that waits for a frame has an open, grabbing camera under it until
\* it is done: neither take_picture of another thread, nor an erase from the
\* map, nor a destructor closes it meanwhile. The same while it closes the camera.
GrabStarted ==
    \A t \in Thread :
        pc[t] \in {"grab", "close"} => Started(ref[t]) /\ devLock[ref[t]] = t

\* A device that others can find was started, and made for the key it is filed
\* under; one whose StartGrabbing failed never gets into the map.
PublishedStarted ==
    \A c \in Camera :
        LET d == cameras[c] IN
        d # NoDevice => dev[d].life \in {"live", "unsized", "shut"} /\ dev[d].key = c

\* Whatever devices were closed, erased and made anew while a request was pending,
\* there is one way only in which its reply may hold a frame of another camera: an
\* enumeration rewrote the descriptor under the thread that made the device.
ImageOfRequestedCamera ==
    \A t \in Thread : image[t] # NoCamera =>
        /\ pc[t] = "release"
        /\ image[t] = key[t] \/ (Mixed(ref[t]) /\ dev[ref[t]].key = key[t])

\* When no request is pending, every handle belongs to a device that the map knows:
\* what two threads that raced to create the same camera opened in excess has been
\* closed. No camera is open twice, unless a rewritten descriptor has led to a
\* second device on it, under the key of another camera.
AtRestOneHandle ==
    (\A t \in Thread : pc[t] = "idle") =>
        \A c \in Camera : \A d \in Handles(c) :
            cameras[c] = d \/ (Mixed(d) /\ \E k \in Camera : cameras[k] = d)

\* Thread t waits for a mutex that u holds.
BlockedBy(t, u) ==
    \/ pc[t] \in {"find", "add"} /\ listLock = u
    \/ pc[t] = "isshut" /\ devLock[cameras[key[t]]] = u
    \/ pc[t] = "take" /\ devLock[ref[t]] = u

\* No circle of waiting, although is_shutdown takes a device's lock_ inside
\* lock_cameras_list_, take_picture keeps that lock_ while it waits for a frame or
\* closes the camera, and the map's mutex is held while a replaced device is closed:
\* whoever waits, for any camera, waits for one device to deliver or to be closed, or
\* for a lookup that itself waits for nothing else.
WaitsForOneDevice ==
    \A t, u \in Thread : BlockedBy(t, u) =>
        \/ pc[u] \in {"grab", "close", "replace"}
        \/ /\ pc[u] = "isshut" /\ pc[t] \in {"find", "add"}
           /\ \A v \in Thread : BlockedBy(u, v) => pc[v] \in {"grab", "close"}

\* Where the SDK lets nobody open a camera twice, the map's entry of an open
\* camera is neither erased nor replaced, although any number of threads may
\* have missed it in the map before it was added; unless some handle on the
\* camera was lost: a thread that comes late with a lost device may replace one
\* that works. So may one whose descriptor was rewritten, with another camera.
WorkingEntryStays ==
    [][\A c \in Exclusive :
           cameras[c] \in Handles(c) /\ Handles(c) \cap lost = {}
           => \/ cameras'[c] = cameras[c]
              \/ cameras'[c] # NoDevice /\ Mixed(cameras[c])']_vars

\* assert(camera_ != NULL) and the two assertions after it, at the head of
\* take_picture: the device is still open and grabbing when the thread that
\* looked it up, and let go of every lock since, gets its lock_.
NoAssertFailure == ~crashed

\* "input camera sn , return 1 frame , alive image" (comment above GetImage): a
\* request for a camera that never fails and whose images fit, that is listed when
\* the request is decided, ends with a frame of it, whatever the other cameras do
\* meanwhile, unless the descriptor was rewritten under it or under another request.
HealthyGetsFrame ==
    [][\A t \in Thread :
           /\ pc[t] # "release" /\ pc'[t] = "release"
           /\ key[t] \in listed \ (Faulty \cup Unfit)
           /\ Undisturbed
           => image'[t] = key[t]]_vars

-----------------------------------------------------------------------------
\* If requests stop coming, the pending ones are all answered (or the process
\* aborts): no order of lock_cameras_list_ and the devices' lock_ blocks.
Drains ==
    <>[][\A t \in Thread : pc[t] = "idle" => pc'[t] = "idle"]_vars
    => <>[](crashed \/ \A t \in Thread : pc[t] = "idle")

\* A camera that is reachable and listed for good, and asked for again and
\* again, is delivered again and again: a handle that lost the camera, a closed
\* device or a stale entry does not stand in the way for ever. Only a device that was
\* started on a rewritten descriptor, or images that do not fit, may.
Asked(c)     == \E t \in Thread : key[t] = c
Delivered(c) == \E t \in Thread : image[t] = c

Recovers ==
    \A c \in Camera \ Unfit :
        <>[](c \in healthy \cap listed /\ Undisturbed) /\ []<>Asked(c)
        => []<>(Delivered(c) \/ crashed)

\* The same, save for a device whose PayloadSize query failed when it was opened.
Stuck(c) == cameras[c] # NoDevice /\ dev[cameras[c]].life = "unsized"

RecoversUnlessUnsized ==
    \A c \in Camera \ Unfit :
        <>[](c \in healthy \cap listed /\ Undisturbed) /\ []<>Asked(c)
        => []<>(Delivered(c) \/ crashed) \/ <>[]Stuck(c)

=============================================================================
