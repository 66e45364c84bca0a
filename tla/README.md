# Verification of the camera service

The program (`src/src`) is a gRPC server that hands out frames of industrial
cameras. A client lists the cameras (`GetCameraMetas`) or asks for one frame of
the camera with a serial number (`GetImage`). This directory has TLA+ models of
the parts of the server that are hard to get right, TLC configurations that
check them on small instances, and TLAPS proofs for every size.

Paths below are relative to the repository; `CS` is `src/src/camera_service.cc`,
`GS` is `src/src/camera_grpc_server.cc`, `MV` is `src/src/MvCamera.cc`, `UT` is
`src/src/utils.cpp`.

## 1. The system

| Component | State | Operations | Interacts with |
|---|---|---|---|
| gRPC front end, `CameraServiceImpl` (GS) | none of its own; a buffer per request | `GetImage`, `GetCameraMetas`, `Reset`, `dump_cameras` | runs on the worker threads of the synchronous server, calls the provider |
| Camera provider, `CameraServiceProvider` (CS) | `cameras_list_` (serial number → `shared_ptr<CameraDevice>`) under `lock_cameras_list_`; `camera_info_list_` under `lock_camera_info_list_` | `take_picture`, `find_or_create_camera_device`, `find_camera_device_by_sn`, `add_camera_device`, `find_camera_info_by_sn`, `enum_all_cameras`, `close_camera` (unused) | owns the devices, shares them with the threads |
| Camera device, `CameraDevice` (CS) | `camera_`, `camera_open_`, `grapping_`, `default_buff_size_`, `cache_data_` under `lock_` | `start`, `take_picture`, `is_shutdown`, `stop_and_close`, destructor | calls the SDK through `CMvCamera` |
| SDK wrapper, `CMvCamera` (MV) | the SDK handle | `Open`, `Close`, one call each | camera SDK (not in the repository) |
| Frame buffers, `buff_t` (UT) | block, capacity, length | `ensure_size`, `set_data_size`, ... | one per request, one per device |
| Server lifecycle (GS, `src/src/main.cc`) | the `grpc::Server`, the watcher thread | build, wait, shut down, join | `status_t` |
| Stop flag, `status_t` and the SIGINT handler (UT) | `status_`, `mtx_` | `stop`, `loop` | the handler runs on any thread |
| Program start, configuration (`src/src/main.cc`, `camera_service_config.cc`, `src/3rd/cmdline`) | options, `CameraServiceConfig` | parse, `load_config`, `init_logs`, `set_log_level` | sequential; SIGINT may come at any point |
| Logging (`src/src/utils-logs.cpp`, `src/3rd/spdlog`) | a queue of 8192 records, the rotating files | log, worker, rotate, destructor of the pool | every thread logs, also with `lock_` held |
| Version, utilities without callers | constants | | |

What is hard here:

- **Concurrency.** Every request runs on a thread of its own. A request for a
  frame takes `lock_cameras_list_`, inside it a device's `lock_`, lets both go,
  creates a device without any lock, publishes it, and takes `lock_` again for
  up to four seconds. Each gap is a place where another request may create,
  close, replace or erase the same device.
- **Lifetime.** A device dies when the last of the map and the threads lets it
  go; its destructor stops and closes the camera.
- **Failure.** A camera may be unplugged at any moment and come back. Each SDK
  call may fail, and many results are ignored.
- **Start and shutdown.** SIGINT arrives on any thread at any time, with and
  without its handler; the server may be destroyed only when the watcher and the
  handlers have finished with it. Each step of the start may fail.
- **Logs.** Every thread may have to wait for room in the log queue, some with a
  mutex held. A crash may come between any two steps of a rotation, and each
  operation on a file may fail.

What makes each part correct: the provider keeps exactly the devices somebody can reach,
never closes one under a thread that waits for its frame, never publishes one that was
not started, never answers with a frame of another camera (unless the SDK's descriptor
was rewritten under it), keeps one handle per camera at rest, blocks nobody for ever,
and delivers again once a camera is back. A device gives its handle back on every path,
calls the SDK in order, and returns from every call. A buffer never claims more memory
than it has and never answers with an old frame. The list of cameras is complete when it
is searched and when it is sent, where the SDK has not failed. The server that runs is
the one the user asked for; it stops on SIGINT, only then, and is not used after it was
destroyed. Log records come out in order, none twice, and are lost only to a failure or
to age.

## 2. Modules

| Module | What it is |
|---|---|
| `CameraProvider` | the provider under any number of worker threads, cameras and devices (the core) |
| `MCCameraProvider` | instances and symmetry sets for TLC (symmetry only where no liveness is checked) |
| `CameraProviderProofs` | the inductive invariants of `CameraProvider` and its theorems |
| `ImageService` | what a client may expect of `GetImage`: an abstract specification |
| `ProviderService`, `MCProviderService` | `CameraProvider` with a history variable, and the mapping under which it implements `ImageService` |
| `ProviderServiceProofs` | the proof that it does |
| `CameraDevice` | one device, SDK call by SDK call |
| `DeviceContract` | what the provider relies on: the lives a device may have |
| `CameraDeviceProofs` | invariants of `CameraDevice`, and that it implements `DeviceContract` |
| `FrameBuffers`, `FrameBuffersProofs` | `cache_data_` and the buffers of the requests, with failing `malloc` |
| `CameraInfoList`, `CameraInfoListProofs` | enumeration, lookup, the copy into the reply, the use of a descriptor |
| `GrpcServer` | the server, the watcher, SIGINT, shutdown |
| `Program`, `MCProgram` | `main`: options, configuration, logs, and `GrpcServer` inside it |
| `ProgramProofs` | proofs about `GrpcServer` and `Program` |
| `LogStream` | what the program expects of its logger: an abstract specification |
| `LogQueue`, `LogQueueProofs` | the asynchronous logger, which implements `LogStream` |
| `RotatingFile`, `RotatingFileProofs` | the log files on a disk that fails, over crashes and restarts |

### CameraProvider

A thread in a request is at a program point `pc[t]` between two moments where
other threads can run: waiting for `lock_cameras_list_` ("find"), holding it and
waiting for the device's `lock_` ("isshut"), about to search the enumeration
list ("info"), to create ("start"), to publish ("add"), closing the device whose entry
it replaces, with `lock_cameras_list_` held ("replace"), to lock the device
("take"), waiting for a frame with `lock_` held ("grab"), closing the device with
`lock_` held ("close"), returning ("release").
What runs under one lock without waiting is one action: `FindShut` checks
`is_shutdown`, erases the entry, and destroys the object if the map had the last
reference (it is closed already). `ref[t]` and `cameras` are the `shared_ptr`s; a
device without any is `Gone` (`Dropped`).

Closing an open camera takes time: up to six calls of `StopGrabbing` with pauses of
100 ms. It happens with `lock_` held (`TakeDisconnected` or `GrabNoData`, then
`Close`), with `lock_cameras_list_` held (`AddClosing`, then `Replaced`: the
assignment at CS:547 drops the last reference to an open device), or with no mutex
held (`Release`). While `Replaced` is pending nobody else can reach the map or the
device, and in `Release` nobody else can reach the device, so that the effects may
show at the end.

`GetCameraMetas` leaves any list of cameras, since an enumeration may fail half way
or come before a camera is up. It also rewrites the descriptors that other threads
have found and not used yet: those threads are `overtaken`, and `Start` may then open
any camera, or none. `dev[d]` therefore has both the key the device was made for and
the camera it was started on; where they differ the device is `Mixed`. A thread that is
not overtaken starts the camera of its key.

A frame that was grabbed ends in the reply (`GrabImage`). For a camera in `Unfit` it
may also be lost, where `SaveImage` or `malloc` fails (`GrabUnconverted`), or abort
the process, where it fills the buffer (`GrabFills`, the assertion at UT:558).

A device is seen through what its locked methods leave behind: "shut"
(`camera_` is NULL), "half" (open, `StartGrabbing` failed), "unsized" (started,
but the PayloadSize query failed, so `default_buff_size_` is 0), "live". That
these are all, and how they follow each other, is `DeviceContract`, which
`CameraDevice` implements.

The environment: a camera in `Faulty` may leave `healthy` (it is unplugged, or its
calls start to fail) and come back; handles that were open are `lost` from then
on. `Exclusive` holds the cameras on which the SDK refuses a second handle; one of
each kind is checked. `Device` is the set of objects `make_shared` may return; an
object that is gone may be reused, as memory is.

### CameraDevice and DeviceContract

The SDK calls that `start`, `take_picture` and the destructor make are steps
with their successes and failures, including the five retries of `StopGrabbing`
with their pauses and the exception for `MV_E_USB_WRITE`, and the abort of
`set_data_size` where the image fills its buffer. Two simplifications: the queries of
`_init_cam_params`, of which only the result of PayloadSize is kept, are one step
(`InitParams`); and a `CloseDevice` or `DestroyHandle` that fails is not told from one
that succeeds, because `CMvCamera` forgets its handle either way (MV:69, MV:84). What
such a failure leaves behind inside the SDK is beyond the program's reach. `handle` and
`streaming` are what the SDK has for the camera (no handle, created, open; not
grabbing, grabbing). The SDK itself is external:
its headers are not in the repository, and the model lets each call fail.

### FrameBuffers

One device and the requests for it. `EnsureSize` gives the outcomes of
`ensure_size`: nothing to do, `malloc` fails and the buffer stays as it was, or a
new block without contents. A frame is identified by the request it was taken
for; what a finished request left in `cache_data_` is "old".

### ImageService and ProviderService

`ImageService` knows no devices, handles, maps or locks: a request for a camera is
asked, answered with a frame of it, of another camera, or with an empty body, and
returned. For an empty body it demands an excuse: the camera may fail, its images may
not fit (`Fitting`), the last enumeration did not list it, it is `confused`, or the
request was pending together with another one for the same camera (`met`). A frame of
another camera needs a confused one. An abort needs a meeting, a confused camera, or a
camera whose images may not fit: there a lone request may abort the process too. A
camera becomes confused only by an enumeration under a request that is pending, or as
the camera that a request opened by mistake for a confused one.

`ProviderService` adds the history variable `met` to `CameraProvider`, which records
the meetings and does not restrict any step. It maps the answer to the moment in which
`take_picture` of the provider is about to return; confused are the keys of the
overtaken threads, and the key and the camera of each `Mixed` device.

### CameraInfoList

`MV_CC_EnumDevices` rewrites the list in place, entry by entry, under the mutex. It
may fail at any point, and leaves what it has got so far: the code passes it
`camera_info_list_` itself (CS:596) and keeps no copy. `failed` is a history variable:
the last enumeration that ended was an error.
`ReadEntry` (`to_camera_meta_info_list`) and `OpenInfo` (`CreateHandle` on the
descriptor that `find_camera_info_by_sn` found) run without the mutex. The cameras
on the network do not change in this module, so that what goes wrong is the
program's doing or that of an enumeration that failed. `disturbed` is a history variable: the threads under whose unlocked
use somebody has started an enumeration.

### GrpcServer and Program

`GrpcServer` has the main thread, the watcher of `OnlyForShutdownGrpcServer`, the
workers, and the signal handler as a state of the thread it interrupts: that thread does
nothing else meanwhile. `Shutdown` of gRPC waits for the handlers (no deadline is
given); `Wait` returns when it has finished, possibly before `Shutdown` itself returns.
A handler returns (`Finish`) or fails an assertion (`Abort`), which ends the process
with whatever requests there are. `Program` puts it between the steps of `main`:
`ParseOptions`, `LoadConfig`, `InitLogs`, `SetLevel`, `InitLoopSignal`, then
`Serving(Next)`, then the exit status. Until `InitLoopSignal` a SIGINT is a `Kill`.

### LogStream, LogQueue and RotatingFile

The threads put records into a ring (`circular_q`) under a mutex and wait on a
condition variable while it is full; one worker takes them out. `LogQueue` makes
each critical section one step and each `notify_one` behind it another; waits may
end spuriously. At exit, `~thread_pool` sends the terminate message through the same
ring and joins the worker. `LogStream` is a line of records: accepted, written in
order, ended when empty. An abort may strike in any state; what it costs is the
line, which never has more than a full ring and one record.

The worker's `Write` is a call of the sinks. `RotatingFile` is the sink for files:
`sink_it_` compares the counted size with the limit, flushes, and rotates by
renaming file i to i + 1 from the top down. Removing a target, renaming, reopening
and writing are steps of their own; each file operation may fail, and a crash may
come before each. What `fwrite` took is in the buffer of stdio until `Drain`, since
nothing sets a flush level; a crash loses it.

## 3. What the runs show

Passing runs:

| Run | Shows | Instance |
|---|---|---|
| `shared_cameras` | types; `ReferencesExact`, `GrabStarted`, `PublishedStarted`, `ImageOfRequestedCamera`, `AtRestOneHandle`, `WaitsForOneDevice`, `WorkingEntryStays`; `Promise`, that the provider is an `ImageService` | 3 threads, 3 devices, 2 cameras: A, with two spellings, may fail, grants every handle and has images that may not fit; B works and grants one handle at a time. Enumerations rewrite one descriptor at a time |
| `provider_liveness` | `Drains`, `RecoversUnlessUnsized` | 2 threads, 1 camera that may fail and grants one handle |
| `device_sdk_calls` | all of `CameraDevice`, with `DeviceContract` as a property | one device, all failures |
| `frame_buffers` | `TypeOK` (the invariant of `buff_t`), `OwnFreshFrame` | 2 requests, frames smaller and larger than the default buffer |
| `lookup_while_listing` | types; `NothingMissed`, `MetasComplete`, `RightDescriptor` | 2 listers, 1 lookup, 3 cameras, enumerations that fail anywhere |
| `program` | types, with the exclusion in `stop`; `ServerOutlivesUse`, `OnlySignalStops`, `StopsOnSignal` of the server inside `main`; `RunsAsTold`, `ZeroIsSuccess` | up to 2 arguments, 4 files, 2 workers whose handlers may abort, 2 signals, the watcher or the server may not come up |
| `log_queue` | types; `NobodyForgotten`, `CallsReturn`, and `Promise`: the queue is a `LogStream` | 3 threads with 2 records each, a ring for 2 |
| `log_files` | types; `OldestFirst`, `SizeBounded`, `OldFilesFull`, `LosesOnlyEnds` | 3 old files, 6 records of which some fill half a file and some exceed it, 2 faults or crashes, any number of restarts |

Runs that TLC refutes, and what they show of the code:

| Run | The code says | The code does |
|---|---|---|
| `assertion_between_lookup_and_use` | `assert(camera_ != NULL)` (CS:361) | a request that looked a device up before another one closed it aborts the process |
| `lost_creation_race` | "return 1 frame" (GS:110) | of two first requests for a working camera, one may be answered OK without a frame, because the SDK refused the second handle |
| `never_sized_buffer` | "return 1 frame" (GS:110) | one failed PayloadSize query leaves a device that never delivers and is never replaced (CS:307) |
| `image_fills_buffer` | `assert(size < buff_max_size_)` (UT:558) | an image of exactly the buffer's size aborts the process |

Related observations that are no runs. A reply of `GetCameraMetas` may lack cameras
while another client lists them, because the copy is made without the mutex (CS:613),
although the proto file says "get all service meta info"
(`src/grpc/proto/camera-service.proto`:27); and where the SDK refills its descriptors in
place, a lookup that another client's enumeration overtakes may open another camera than
the one it found (CS:575). That device stays in the map under the key it was made for,
and every later request for that key gets frames of the other camera, until it is
closed. `MetasComplete`, `RightDescriptor`, `ImageOfRequestedCamera` and `Promise` show
that such an enumeration is the only way to any of this. An enumeration that fails may
leave a list that lacks cameras (CS:596), and a camera that has no device yet is then
not found until the next enumeration, that is until a client calls `GetCameraMetas`:
`NothingMissed` says that nothing else hides a camera. A request that replaces a map
entry may close the old device under `lock_cameras_list_` (CS:547), with all retries and
pauses, and every request for every camera waits behind that (`WaitsForOneDevice` names
the case).

`start_grpc_server` ignores that
`s.start()` may fail (GS:247); then no watcher exists and SIGINT does not end the
program, although "some other thread must be responsible for shutting down the
server" (GS:249): `StopsOnSignal` asks for the end only where there is a watcher.
`GetImage` fills an `ImageParameter`
from the request and passes NULL (GS:137), so a requested shape has no effect.
A log file that cannot be reopened after a rotation is never tried again: every
later record is dropped until the program is restarted
(`rotating_file_sink-inl.h`:130, `file_helper-inl.h`:101), and a crash loses not only
the queue but what stdio has buffered, since no flush level is set. `init_logs`
opens the log file twice; the logger "cs" that it registers is never written to.
`rand_int_r` (UT:440), which nothing calls, mixes up its bounds if they are
given in descending order.

**Bounds.** Two threads are enough for every pairwise race between lookup,
creation, publication, use, erasure and destruction; the third is the one that does
something else, or the same once more, meanwhile. The map has at most one device per
camera and a thread at most one, so that 5 devices would never limit `Start`; the run
has 3, so that a thread that finds none free waits until one is, which takes away some
behaviours and adds none. The proofs have any number.

`Bound` of `MCProviderService` limits what enumerations may do: where a descriptor is
overtaken or was, or the list is not complete, at most `MaxRewritten` (1) such
descriptor is in use or was used for a device that still exists, and at most
`MaxDisturbed` (2) requests are pending; where none is and the list is complete, all
three. That is enough for a `Mixed` device to be published, shared, replaced and closed
while another request for either camera runs. Since A is the camera that is both
`Faulty` and `Unfit`, everything about A is excused in `Promise`, and B carries the
promise of a frame while A does its worst; the theorem `ProviderKeepsPromise` covers
every other combination. TLC finds 588,000 states there.

Two cameras are enough to confuse them, two spellings for `to_upper`. A camera that
fails and grants one handle is in `provider_liveness` and in the theorems. In
`FrameBuffers` the sizes 1, 2 and 3 give a frame smaller and one larger than the
default buffer and images shorter than, as long as and longer than each. In
`CameraInfoList` three cameras give a middle of the list. In `Program` two arguments
give every pair that can override, contradict or follow each other, the files a whole
one, an empty one, one with empty and unknown texts and one with a bad number.
`MaxSignals` is 2: one signal to stop and one that arrives during the shutdown or
inside the handler of another thread. In `LogQueue` 6 records and the terminate
message go through 3 cells, so that the indices wrap at every alignment and up to
three threads wait for room. In `RotatingFile` records of 1 and 3 with a limit of
2 give files of several records, of one, and of one too long. Three old files are the
fewest among which a rotation can meet a gap that an earlier crash left; with 6
records the oldest file is thrown away in mid-run, and two faults give a failure after
another one or after a crash. TLC explores every interleaving of these; the theorems
of section 4 have no bounds.

`CHECK_DEADLOCK` is on everywhere; after an abort, or the end of `main`, the
models stutter explicitly (`Halted`, `Ended`).

**Fairness.** `CameraProvider` assumes weak fairness of each thread's steps once
a request has begun, and nothing about clients or cameras: a thread that can run
is run, and every SDK call has a timeout. It is not strong fairness: a
`std::mutex` is not fair, and a thread may be overtaken whenever the mutex is
taken by others. `Drains` therefore says that requests end if no new ones come,
and `Recovers` that a camera asked for again and again is delivered to someone.
`CameraDevice` assumes that the running method takes its next step. The server
assumes that threads run and that handlers return unless they abort (what `Drains` and
the SDK's timeouts give), and `Program` that `main` goes on; not that signals or requests
come. `LogQueue` assumes that a thread that can run does, the worker too, and that a
sink returns; not that a wait ends by itself, nor that the program exits.

**Mutants.** The modules contain, under "Mutations", variants of operations
with a plausible mistake (a lock kept or not taken, a check left out, a reset
forgotten). Each checked property is violated by one of them; they are not part
of any specification.

## 4. What is proved

For all values of the constants that satisfy the named assumptions
(`NamesAssumption`: `to_upper` is idempotent; `ConstantsAssumption`,
`ThreadsAssumption`, `ListAssumption`, `ItemAssumption`, `ProgramAssumption`,
`FileAssumption`: the "no such thing" values are none of the things, and bounds are
numbers; `SizesAssumption`, `QueueAssumption`, `FileAssumption`: sizes are positive;
`ListAssumption` also: there are finitely many cameras). `NoFile` has to differ from
every sequence of records, which is why `FileAssumption` speaks of `Seq(Records)`.

Every safety property of section 3 that the code satisfies is proved, every
invariant and every action property; liveness is not (see the end of this section).

**CameraProviderProofs.** `TypeCorrect`, `NoDanglingNoLeak` (`ReferencesExact`),
`NotClosedWhileGrabbing` (`GrabStarted`), `MapHoldsStarted`
(`PublishedStarted`), `RightCamera` (`ImageOfRequestedCamera`), `OneHandleAtRest`
(`AtRestOneHandle`), `NoCircleOfWaiting` (`WaitsForOneDevice`) and `WorkingEntryIsKept`
(`WorkingEntryStays`).
The inductive invariant `Inv` adds to these what they rest on:

- `LockOwners`: who holds a mutex is at a point of the code that holds it;
- `Pending`: what a thread at each point has (a key, a reference, or none yet);
- `RefOfKey`: a thread's device was made for the key of its request (which is all that
  holds: the camera it was started on may be another one);
- `FreeIsGone`: the memory of an object is free exactly when the object was made for no
  key, and an open device is open on some camera;
- `PrivateUntilAdded`: a device that was created and not yet published is known
  to its creator only. Without it, neither that `Start` may touch the object
  without its mutex nor that the map never holds a half-open device is inductive;
- `ReplacedAlone`: the device that is closed under `lock_cameras_list_` while its entry
  is replaced has no other reference, so that nobody uses it meanwhile.

`Inv` is shown to hold initially and to be kept by every action: one lemma
`<Action>Keeps` per action and in it one step per conjunct; the environment's steps
and stuttering have lemmas of their own.
`ReferencesExact` is the centre: `GrabStarted` needs that the device of a thread
is not destroyed by others' releases, and that in turn needs the exact count.
`OneHandleAtRest` follows without any assumption on how many handles the SDK grants: at
rest nobody but the map has references, every existing device is referenced, and an entry
is filed under its own camera unless it is `Mixed`. `RightCamera` says of replies what
`RefOfKey` leaves open: closing, erasing, replacing and sharing devices never lead a
request to a frame of another camera, and a device that was started on a rewritten
descriptor, made for the right key, is the only thing that does.

`NoCircleOfWaiting` is the part of `Drains` that is a safety property, for any number of
threads. From `ListOwner` (the mutex of the map is held at "isshut" and "replace" only, so
no path out of a lookup or a replacement keeps it) and `LockOwners` (that of a device at
"grab" and "close" only) it follows that chains of waiting threads have at most two links,
and end with a thread that waits for a frame, which the SDK bounds by its timeout, or that
closes a device, which the count of retries bounds. It also shows the price: a lookup of
any camera may wait for the frame of another one (CS:531), or for the closing of a device
whose entry is replaced (CS:547).

`WorkingEntryIsKept` needs `ExclusiveInv` on top: a lost handle is an open one, and of a
camera that grants one handle only one can work. A thread that comes late to `Add` with
a device of its own then shows that the entry it replaces had lost the camera, or that
its own device is `Mixed`. That the destructor of the provider, which runs only in an
orderly end, when no handler is left (`ServerOutlivesUse`), closes every camera is a
consequence of `ReferencesExact`: then nobody but the map has a reference. An abort
closes none, and cuts off what runs.

**ProviderServiceProofs.** `ProviderKeepsPromise`: under the mapping of
`ProviderService`, every step of `CameraProvider` is one of `ImageService` or none. The
invariant `ServiceInv` adds four parts to `Inv`: `MetExact` (what `met` says of two
pending requests for one camera), `AloneStarted` (the device that an undisturbed request
looked up is still started when it gets its lock), `AloneMissed` (an undisturbed request
that creates a device is the only one with a handle on that camera), and `SteadyWorks`
(a device that others can find under the key of a camera that never fails is live or
`Mixed`, and only a `Mixed` one is closed). The third is why the SDK may not refuse the
handle, the second why the assertions of `take_picture` hold. `HandleSpreads` shows that
only `Start` with a rewritten descriptor confuses a camera that was not confused, and
none but the one it opens; `MixedConfused`, that whoever has a `Mixed` device asked for
a confused camera. The frame is promised under four conditions, each of which the code
needs: the camera works, its images fit, nobody else asks for it meanwhile, and no
rewritten descriptor has been used for it.

**CameraDeviceProofs.** `DeviceTypeCorrect`, `NoHandleKept` (`HandleGivenBack`),
`FlagsAtRest`, `SdkCallOrder`, and `DeviceImplementsContract`: `Spec` of `CameraDevice`
implements `DeviceContract` under the mapping defined in `CameraDevice`. The invariant
relates the flags, the SDK's state and the program point of the running method.

**FrameBuffersProofs.** `BuffersKeepTheirInvariant` and `FreshFrameOnly`. The
invariant says who holds `lock_` (`Holder`), that `cache_data_` keeps the frame of
the thread that converts it (`Converting`), and that only a request about to
answer has an image (`Answered`).

**CameraInfoListProofs.** `ListTypeCorrect`, `NoCameraMissed` (`NothingMissed`),
`MetasCompleteUnlessDisturbed` and `DescriptorRightUnlessDisturbed`. The invariant says
that the list is complete except under the mutex and after an enumeration that failed,
that an undisturbed lister has copied a prefix of a complete list, and that an
undisturbed lookup points at its camera. `NoCameraMissed` rests on one assumption about
the SDK, that an enumeration which succeeds has listed every camera, and on none about
one that fails.

**ProgramProofs.** Of the server: `ServerTypeCorrect`, `NoUseAfterDestruction`
(`ServerOutlivesUse`), `StopsOnlyOnSignal` (`OnlySignalStops`), from how the
progress of main, watcher and server fit together (`Phases`). `ProgramRunsServer`:
`Program` does to the variables of `GrpcServer` only what `GrpcServer` allows, so that
these hold of the program. With that, `ZeroHasAReason` (`ZeroIsSuccess`). That no request
is cut off holds of orderly ends only: `ServerOutlivesUse` says that no handler is left
when the server and the service are destroyed. An assertion in a handler (CS:361, UT:558)
ends the process with every request that runs; nothing is claimed of those.

`ServesAsTold` (`RunsAsTold`): for every command line, the options in force are the
last ones given. `Parsed` walks through the arguments with a recursive function; that
such a function exists (`StepsExist`), and that its value for an option is that of the
last argument for it (`StepsLast`, `ParsedIsLast`), is shown by induction on the number
of arguments. `ToldInv` carries this from phase to phase: which of the options,
the configuration, the sinks and the level are settled by then.

**LogQueueProofs.** `QueueTypeCorrect`, `NoLostWakeup` (`NobodyForgotten`) and
`QueueKeepsPromise` (`Promise`). First the arithmetic of the ring, for any size: where
the i-th message is (`Place`), that `push_back` adds behind the last and moves no other
(`PushBack`), that `pop_front` takes the first and moves no other (`PopFront`). Then the
invariant `QueueInv`: every message in the ring is one (`Filled`), the program exits
after the last call (`ExitAlone`), and terminate is the last message (`TerminateLast`),
without which the worker could end before a record. Last the steps: `EnqueueAppends` and
`DequeueKeepsLine` carry the ring over to the line of `LogStream`.

**RotatingFileProofs.** `FileTypes` (`TypeOK`), `LogInOrder` (`OldestFirst`),
`FilesLimited` (`SizeBounded`), `OldFilesAreFull` (`OldFilesFull`) and `OnlyEndsLost`
(`LosesOnlyEnds`), for any number and size of files and any sequence of failures,
crashes and restarts. The proof looks at `Log`, the records of each file with those
that are still in the buffer: `LogSame`, `LogStore`, `LogNextFile`, `LogRename`,
`LogTruncate` and `LogCut` say what each operation does to it, most of them nothing.
The inductive invariant `IInv` adds to the properties:

- `NumbersBelow`: the record on its way is newer than all in the log;
- `Shape`: the file is closed during a rotation, and the place that is about to be
  filled is free unless it is the last. Without it a rename could overwrite;
- `Counted`: `current_size_` is the size of file 0 with its buffer, wherever it is
  compared with the limit, unless a write has failed;
- `NonEmpty`: only a file with something in it is ever renamed;
- `OneGap`: without a failed rename or a crash, the only gap in the numbers of the
  files is where the running rotation is. Hence the last file goes only when all places
  are taken;
- `NextDoesNotFit`: without trouble, a rotation runs only because the record does not
  fit, and file 0 is empty only where there is no old one.

After a crash in the middle of a rotation a gap remains, and the next rotations move it
down: a file number `MaxFiles` may then be thrown away although one place is free.
`LosesOnlyEnds` allows for that; what goes is still the oldest.

Sums of sizes are a recursive function too (`Bytes`): `SumsExist`, `BytesSum` and what
follows from them, up to `BytesAppend`.

**Induction.** The induction theorems of the library take a predicate as a parameter,
which the provers cannot instantiate. `Least` and `Induction`, in `ProgramProofs` and
`RotatingFileProofs`, say the same of a set: one that contains 0 and the successor of
each natural in it contains all naturals. They rest on the library's `WFMin` and
`NatLessThanWellFounded`, which need no instantiation beyond what is written out there.

**Only model-checked.** Liveness (`Drains`, `RecoversUnlessUnsized`, `Returns`,
`StopsOnSignal`, `CallsReturn`), which needs ENABLED and fairness, out of reach of the
prover; and `NoAssertFailure`, `HealthyGetsFrame`, `Recovers` and `ImageFits`, which are
refuted.

## 5. What is assumed and what is left out

- The SDK: opening a camera that nobody has open and that works succeeds; closing a
  device gives its camera back; a lost handle stays lost; a call with an empty buffer
  fails, with an error other than `MV_E_NODATA`; a working camera delivers a frame within
  the timeout. Its descriptors are blocks that it refills in place at each enumeration. An
  enumeration that succeeds lists every camera on the network (`CameraInfoList`); one that
  fails may leave anything, from the list as it was to an empty one. `CameraProvider`
  assumes nothing of what an enumeration lists.
- Images: those of a camera outside `Unfit` are converted and are shorter than their
  buffer, and memory suffices for them. Without that no request is sure of its frame, nor
  of the process.
- gRPC: handlers run on worker threads, `Shutdown` waits for them.
- `SIGINT` is blocked inside its own handler (glibc's `signal`).
- Assertions are compiled in (the Makefile has no `-DNDEBUG`); `USE_SPDLOG`,
  `USE_GET_BUFF`, `USE_EVENT_TS` and `LOCAL_DEBUG` are not defined.
- `CameraInfoList` reads one list entry at a time; that the unlocked read may tear
  within an entry is left out.
- POSIX: a wait on a condition variable may end by itself; `rename` is atomic; a file
  that was written without an error survives a crash of the process (not of the
  machine). A record that is torn by a crash, or by a write that fails, counts as
  lost or as whole, either way.
- An exception of spdlog in `init_logs` (the file cannot be opened) is caught by nobody
  and aborts the program; one in a sink is caught by the worker.
- `mkpath_if_not_exist` makes one directory (the Linux branch is not recursive), so
  `init_logs` may fail for a nested path; that it may fail is all `Program` needs.
- Left out: the encoding of replies, the formatting of records, timing statistics, the
  methods of `buff_t` and the utilities without callers, `close_camera`, which nothing
  calls, generated code, and of the vendored libraries everything but the queue, the
  file sink and the option parser. `PROJECT.json` lists every component with its status.

## 6. Plan

Done: everything of section 2.

What could follow, in this order:

1. The rest of `buff_t` (`copy_mem` with an offset, `set_byte`, `free_buff`, 32-bit
   lengths) as a module of its own, should the program come to use it.
2. An abstract log whose ends wear off, which `RotatingFile` implements under the mapping
   that puts the files one behind the other; the lemmas on `Log` are the steps of that
   proof.
3. `LogQueue` and `RotatingFile` composed, for the total that a crash costs.
