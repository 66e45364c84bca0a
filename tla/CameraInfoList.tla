---------------------------- MODULE CameraInfoList ----------------------------
(***************************************************************************)
(* camera_info_list_ of CameraServiceProvider: MV_CC_EnumDevices rewrites  *)
(* it under lock_camera_info_list_, find_camera_info_by_sn searches it     *)
(* under that mutex, and two uses come after the mutex was released: the   *)
(* copy of the list into the reply of GetCameraMetas, and CreateHandle on  *)
(* the descriptor that the search has returned a pointer to.               *)
(*                                                                         *)
(* The cameras on the network do not change here: what a client misses,    *)
(* sees twice or is given instead is then due to the program, or to an     *)
(* enumeration that failed. Of the SDK this assumes: an enumeration that   *)
(* succeeds has listed all of them; one that fails leaves any of them, or  *)
(* the list as it was; and it refills the same blocks each time.           *)
(***************************************************************************)
EXTENDS Naturals, FiniteSets, SequencesExt

CONSTANTS
    Getter,     \* worker threads that serve GetImage
    Lister,     \* worker threads that serve GetCameraMetas
    Camera,     \* the cameras on the network
    NoThread, NoCamera

Thread == Getter \cup Lister

ASSUME ListAssumption ==
    /\ Getter \cap Lister = {}
    /\ NoThread \notin Thread
    /\ NoCamera \notin Camera
    /\ IsFiniteSet(Camera)

VARIABLES
    pc,         \* pc[t]: where the request of thread t is
    lock,       \* lock_camera_info_list_: the thread that holds it
    list,       \* the cameras of the first nDeviceNum descriptors
    metas,      \* metas[t]: the cameras lister t has put into its reply
    sn,         \* sn[t]: the camera that getter t was asked for
    info,       \* info[t]: the block of the descriptor that getter t has found
    opened,     \* opened[t]: the camera getter t opened, if any
    disturbed,  \* the threads under whose unlocked use another thread has
                \* started an enumeration
    failed      \* the last enumeration returned an error

vars == <<pc, lock, list, metas, sn, info, opened, disturbed, failed>>

Listed == ToSet(list)

\* A complete list has every camera once.
Complete(s) == ToSet(s) = Camera /\ IsInjective(s)

Goto(t, point) == pc' = [pc EXCEPT ![t] = point]

\* Mutation: the search returns the last descriptor it looked at.
BlockOfLast(c) == Len(list)

\* The block of the first descriptor of camera c, as the search finds it.
BlockOf(c) == CHOOSE i \in 1..Len(list) : list[i] = c

-----------------------------------------------------------------------------
(* Mutations of the operations below, for testing the properties. *)

\* The list is searched without the mutex.
FindInfoUnlocked(t) ==
    /\ pc[t] = "find"
    /\ IF sn[t] \in Listed
       THEN info' = [info EXCEPT ![t] = BlockOf(sn[t])] /\ Goto(t, "found")
       ELSE Goto(t, "missed") /\ UNCHANGED info
    /\ disturbed' = disturbed \ {t}
    /\ UNCHANGED <<lock, list, metas, sn, opened, failed>>

\* A new enumeration adds to the old list.
EnumDevicesAdds(t) ==
    /\ pc[t] = "enum"
    /\ lock = NoThread
    /\ lock' = t
    /\ Goto(t, "fill")
    /\ \E c \in Camera : list' = Append(list, c)
    /\ disturbed' = disturbed \cup {u \in Thread : pc[u] \in {"read", "found"}}
    /\ UNCHANGED <<metas, sn, info, opened, failed>>

\* The copy stops before the last entry.
ReadEntryShort(t) ==
    /\ pc[t] = "read"
    /\ IF Len(metas[t]) + 1 < Len(list)
       THEN metas' = [metas EXCEPT ![t] = Append(@, list[Len(@) + 1])] /\ UNCHANGED pc
       ELSE Goto(t, "listed") /\ UNCHANGED metas
    /\ UNCHANGED <<lock, list, sn, info, opened, disturbed, failed>>

-----------------------------------------------------------------------------
\* dump_cameras has enumerated the cameras before the server starts, or has failed,
\* which changes nothing.
Init ==
    /\ pc = [t \in Thread |-> "idle"]
    /\ lock = NoThread
    /\ failed \in BOOLEAN
    /\ \E n \in 0..Cardinality(Camera) : list \in {s \in [1..n -> Camera] : IsInjective(s)}
    /\ ~failed => Complete(list)
    /\ metas = [t \in Lister |-> <<>>]
    /\ sn \in [Getter -> Camera]
    /\ info = [t \in Getter |-> 0]
    /\ opened = [t \in Getter |-> NoCamera]
    /\ disturbed = {}

\* GetCameraMetas calls enum_all_cameras.
GetCameraMetas(t) ==
    /\ pc[t] = "idle"
    /\ Goto(t, "enum")
    /\ UNCHANGED <<lock, list, metas, sn, info, opened, disturbed, failed>>

\* EnumDevices starts over with the list, ...
EnumDevices(t) ==
    /\ pc[t] = "enum"
    /\ lock = NoThread
    /\ lock' = t
    /\ list' = <<>>
    /\ Goto(t, "fill")
    /\ disturbed' = disturbed \cup {u \in Thread : pc[u] \in {"read", "found"}}
    /\ UNCHANGED <<metas, sn, info, opened, failed>>

\* ... adds the cameras in the order in which they answer, ...
FillEntry(t) ==
    /\ pc[t] = "fill"
    /\ \E c \in Camera \ Listed : list' = Append(list, c)
    /\ UNCHANGED <<pc, lock, metas, sn, info, opened, disturbed, failed>>

\* ... and returns; enum_all_cameras_info releases the mutex.
EnumReturns(t) ==
    /\ pc[t] = "fill"
    /\ Listed = Camera
    /\ lock' = NoThread
    /\ Goto(t, "read")
    /\ disturbed' = disturbed \ {t}
    /\ failed' = FALSE
    /\ UNCHANGED <<list, metas, sn, info, opened>>

\* EnumDevices returns an error, before it touches the list or wherever it has got to
\* with it: the mutex is released, and the reply is OK and has no cameras.
EnumFails(t) ==
    /\ pc[t] \in {"enum", "fill"}
    /\ pc[t] = "enum" => lock = NoThread
    /\ lock' = NoThread
    /\ Goto(t, "idle")
    /\ failed' = TRUE
    /\ UNCHANGED <<list, metas, sn, info, opened, disturbed>>

\* to_camera_meta_info_list copies the descriptors, without the mutex.
ReadEntry(t) ==
    /\ pc[t] = "read"
    /\ IF Len(metas[t]) < Len(list)
       THEN metas' = [metas EXCEPT ![t] = Append(@, list[Len(@) + 1])] /\ UNCHANGED pc
       ELSE Goto(t, "listed") /\ UNCHANGED metas
    /\ UNCHANGED <<lock, list, sn, info, opened, disturbed, failed>>

\* GetCameraMetas answers.
ReplyMetas(t) ==
    /\ pc[t] = "listed"
    /\ metas' = [metas EXCEPT ![t] = <<>>]
    /\ Goto(t, "idle")
    /\ UNCHANGED <<lock, list, sn, info, opened, disturbed, failed>>

-----------------------------------------------------------------------------
\* A request for a camera that has no device yet.
GetImage(t, c) ==
    /\ pc[t] = "idle"
    /\ sn' = [sn EXCEPT ![t] = c]
    /\ Goto(t, "find")
    /\ UNCHANGED <<lock, list, metas, info, opened, disturbed, failed>>

\* find_camera_info_by_sn returns a pointer into the memory of the SDK.
FindInfo(t) ==
    /\ pc[t] = "find"
    /\ lock = NoThread
    /\ IF sn[t] \in Listed
       THEN info' = [info EXCEPT ![t] = BlockOf(sn[t])] /\ Goto(t, "found")
       ELSE Goto(t, "missed") /\ UNCHANGED info
    /\ disturbed' = disturbed \ {t}
    /\ UNCHANGED <<lock, list, metas, sn, opened, failed>>

\* CameraDevice::start opens the camera that the block describes by now; one that
\* describes none cannot be opened.
OpenInfo(t) ==
    /\ pc[t] = "found"
    /\ opened' = [opened EXCEPT ![t] =
                     IF info[t] \in 1..Len(list) THEN list[info[t]] ELSE NoCamera]
    /\ Goto(t, "opened")
    /\ UNCHANGED <<lock, list, metas, sn, info, disturbed, failed>>

\* The request is answered.
ReplyImage(t) ==
    /\ pc[t] \in {"opened", "missed"}
    /\ opened' = [opened EXCEPT ![t] = NoCamera]
    /\ info' = [info EXCEPT ![t] = 0]
    /\ Goto(t, "idle")
    /\ UNCHANGED <<lock, list, metas, sn, disturbed, failed>>

ListerStep(t) ==
    \/ GetCameraMetas(t) \/ EnumDevices(t) \/ FillEntry(t) \/ EnumReturns(t)
    \/ EnumFails(t) \/ ReadEntry(t) \/ ReplyMetas(t)

GetterStep(t) ==
    \/ \E c \in Camera : GetImage(t, c)
    \/ FindInfo(t) \/ OpenInfo(t) \/ ReplyImage(t)

Next == (\E t \in Lister : ListerStep(t)) \/ (\E t \in Getter : GetterStep(t))

Spec == Init /\ [][Next]_vars

-----------------------------------------------------------------------------
\* The types; the list never describes a camera twice.
TypeOK ==
    /\ pc \in [Thread -> {"idle", "enum", "fill", "read", "listed", "find", "found",
                           "missed", "opened"}]
    /\ lock \in Lister \cup {NoThread}
    /\ list \in Seq(Camera) /\ IsInjective(list)
    /\ metas \in [Lister -> Seq(Camera)]
    /\ sn \in [Getter -> Camera]
    /\ info \in [Getter -> Nat]
    /\ opened \in [Getter -> Camera \cup {NoCamera}]
    /\ disturbed \subseteq Thread
    /\ failed \in BOOLEAN

\* A camera that never left the network is found, also while another client lists
\* the cameras and the list is being rewritten, unless the last enumeration that
\* ended returned an error: no lookup sees a list that is only being filled.
NothingMissed ==
    [][\A t \in Getter : pc[t] # "missed" /\ pc'[t] = "missed" => failed]_vars

\* "get all service meta info" (camera-service.proto): a reply of GetCameraMetas
\* that follows a complete enumeration has every camera once, unless another
\* request has started an enumeration since: nothing else makes it wrong.
MetasComplete ==
    \A t \in Lister : pc[t] = "listed" => Complete(metas[t]) \/ t \in disturbed

\* The camera that is opened is the one that was asked for, although its descriptor
\* is read without the mutex, unless an enumeration started in between.
RightDescriptor ==
    \A t \in Getter : pc[t] = "opened" => opened[t] = sn[t] \/ t \in disturbed

================================================================================
