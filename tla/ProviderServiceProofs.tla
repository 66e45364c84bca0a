------------------------- MODULE ProviderServiceProofs -------------------------
(***************************************************************************)
(* CameraProvider implements ImageService, for any number of requests,     *)
(* cameras and devices.                                                    *)
(***************************************************************************)
EXTENDS ProviderService, CameraProviderProofs

\* Cameras that never fail.
Steady == Camera \ Faulty

\* What met records.
MetExact ==
    /\ met \in [Thread -> BOOLEAN]
    /\ \A t \in Thread : pc[t] = "idle" => key[t] = NoCamera
    /\ \A t \in Thread : met[t] => key[t] # NoCamera
    /\ \A t, u \in Thread : t # u /\ key[t] # NoCamera /\ key[t] = key[u] => met[t]

\* A request that met no other one for its camera has a device that works, once
\* it has one, and has seen that there was none in the map before it made one.
AloneStarted ==
    \A t \in Thread : pc[t] = "take" /\ ~met[t] => Started(ref[t])

AloneMissed ==
    \A t \in Thread :
        pc[t] \in {"info", "start"} /\ ~met[t] => cameras[key[t]] = NoDevice

\* d works, or was started on another camera than the one it was made for.
Serves(d) == dev[d].life = "live" \/ Mixed(d)

\* A steady camera stays reachable, no handle loses it, and whatever device others can
\* see under its key serves; a request for it that closes its device has a mixed one.
SteadyWorks ==
    /\ Steady \subseteq healthy
    /\ \A d \in lost : dev[d].cam \notin Steady
    /\ \A c \in Steady : cameras[c] # NoDevice => Serves(cameras[c])
    /\ \A t \in Thread : key[t] \in Steady =>
           /\ pc[t] \in {"add", "replace", "take", "grab", "close"} => Serves(ref[t])
           /\ pc[t] = "close" => Mixed(ref[t])

ServiceInv ==
    /\ Inv
    /\ LostOpened
    /\ MetExact
    /\ AloneStarted
    /\ AloneMissed
    /\ SteadyWorks

-----------------------------------------------------------------------------
(* The history variable *)

\* A step that gives no request a key, and ends none, leaves it alone.
LEMMA MetUnchanged ==
    ASSUME MetExact, HistoryNext, key' = key
    PROVE  met' = met
BY DEF MetExact, HistoryNext

LEMMA MetExactKept ==
    ASSUME Inv, MetExact, HistoryNext
    PROVE  MetExact'
<1> USE Constants DEF Inv, TypeOK
<1>1. \A t \in Thread : pc'[t] = "idle" => key'[t] = NoCamera
  <2>1. ASSUME NEW t \in Thread, Handle(t)
        PROVE  \A u \in Thread : pc'[u] = "idle" => key'[u] = NoCamera
    BY <2>1
    DEF MetExact, Handle, FindAbsent, FindPresent, FindShut, FindOpen, FindInfo,
        Start, Add, AddClosing, Replaced, TakeShut, TakeDisconnected, TakeConnected,
        GrabImage, GrabUnconverted, GrabFills, GrabError, GrabNoData, Close, Release,
        Goto
  <2>2. ASSUME NEW t \in Thread, Request(t)
        PROVE  \A u \in Thread : pc'[u] = "idle" => key'[u] = NoCamera
    BY <2>2 DEF MetExact, Request, GetImage, GetCameraMetas, Goto
  <2>3. QED
    BY <2>1, <2>2
    DEF MetExact, HistoryNext, Next, Environment, Fail, Recover, Halted, vars,
        server
<1>2. QED
  BY <1>1 DEF MetExact, HistoryNext

-----------------------------------------------------------------------------
(* The steps of a request *)

\* Two requests that share a device have met.
LEMMA SharedHaveMet ==
    ASSUME Inv, MetExact, NEW t \in Thread, NEW u \in Thread, t # u,
           ref[t] = ref[u], ref[t] # NoDevice
    PROVE  met[t] /\ met[u]
<1>1. key[t] = key[u]
  BY DEF Inv, RefOfKey
<1>2. pc[t] # "idle"
  BY DEF Inv, TypeOK, Pending, Point
<1>3. key[t] # NoCamera
  BY <1>2, Constants DEF Inv, Pending
<1>4. QED
  BY <1>1, <1>3 DEF MetExact

\* What a step of t leaves of the other requests and their devices.
LEMMA OthersKept ==
    ASSUME Inv, NEW t \in Thread, Handle(t), NEW u \in Thread \ {t}
    PROVE  /\ pc'[u] = pc[u] /\ key'[u] = key[u] /\ ref'[u] = ref[u]
           /\ ref[u] # NoDevice /\ ref[u] # ref[t] => dev'[ref[u]] = dev[ref[u]]
<1> USE Constants DEF Inv, TypeOK
<1>1. pc'[u] = pc[u] /\ key'[u] = key[u] /\ ref'[u] = ref[u]
  BY DEF Handle, FindAbsent, FindPresent, FindShut, FindOpen, FindInfo, Start, Add,
         AddClosing, Replaced, TakeShut, TakeDisconnected, TakeConnected, GrabImage,
         GrabUnconverted, GrabFills, GrabError, GrabNoData, Close, Release, Goto
<1>2. ASSUME ref[u] # NoDevice, ref[u] # ref[t]
      PROVE  dev'[ref[u]] = dev[ref[u]]
  <2> USE <1>2
  <2>1. ref[u] \in Device /\ dev[ref[u]] # Gone
    BY DEF ReferencesExact, Referenced
  <2>2. ASSUME NEW d \in Device, NEW n, d = ref[u]
        PROVE  SharedBeyond(d, t, n) /\ SharedBeyond(d, NoThread, n)
    BY <2>2 DEF SharedBeyond
  <2>3. CASE FindShut(t) \/ Add(t) \/ Release(t)
    BY <2>1, <2>2, <2>3 DEF FindShut, Add, Release, Dropped
  <2>4. CASE Replaced(t)
    BY <2>1, <2>2, <2>4 DEF Replaced, ReplacedAlone
  <2>5. ASSUME NEW d \in Device, Start(t, d)
        PROVE  dev'[ref[u]] = dev[ref[u]]
    BY <2>1, <2>5 DEF Start
  <2>6. CASE Close(t)
    BY <2>1, <2>6 DEF Close
  <2>7. QED
    BY <2>3, <2>4, <2>5, <2>6
    DEF Handle, FindAbsent, FindPresent, FindOpen, FindInfo, AddClosing, TakeShut,
        TakeDisconnected, TakeConnected, GrabImage, GrabUnconverted, GrabFills,
        GrabError, GrabNoData
<1>3. QED
  BY <1>1, <1>2

\* t itself gets to take_picture with a device that is started.
LEMMA OwnStarted ==
    ASSUME Inv, NEW t \in Thread, Handle(t), pc'[t] = "take", ~TakeShut(t)
    PROVE  ref'[t] \in Device /\ Started(ref[t])'
<1> USE Constants DEF Inv, TypeOK
<1>1. CASE FindOpen(t)
  <2>1. key[t] \in Camera /\ cameras[key[t]] \in Device
    BY <1>1 DEF FindOpen, LockOwners, Pending
  <2>2. Started(cameras[key[t]])
    BY <1>1, <2>1 DEF FindOpen, Opened, PublishedStarted, Started
  <2>3. QED
    BY <1>1, <2>1, <2>2 DEF FindOpen, Started
<1>2. CASE Add(t) \/ Replaced(t)
  <2>1. Started(ref[t]) /\ ref[t] \in Device
    BY <1>2 DEF Add, Replaced, PrivateUntilAdded, Unpublished, Pending
  <2>2. cameras[key[t]] # ref[t]
    BY <1>2, <2>1 DEF Add, Replaced, PrivateUntilAdded, Unpublished, Pending
  <2>3. QED
    BY <1>2, <2>1, <2>2 DEF Add, Replaced, Dropped, Started
<1>3. QED
  BY <1>1, <1>2
  DEF Handle, FindAbsent, FindPresent, FindShut, FindInfo, Start, AddClosing,
      TakeDisconnected, TakeConnected, GrabImage, GrabUnconverted, GrabFills,
      GrabError, GrabNoData, Close, Release, Goto

\* A device that stays referenced is what it was, unless t closes it.
LEMMA DeviceKept ==
    ASSUME Inv, NEW t \in Thread, Handle(t), NEW d \in Device, dev[d] # Gone, Referenced(d)'
    PROVE  /\ dev'[d].key = dev[d].key /\ dev'[d].cam = dev[d].cam
           /\ dev'[d].life = dev[d].life \/ (Close(t) /\ ref[t] = d)
<1> USE Constants DEF Inv, TypeOK
<1>1. CASE FindShut(t)
  BY <1>1 DEF FindShut, Dropped, SharedBeyond, Referenced, LockOwners, Pending
<1>2. CASE Add(t)
  BY <1>2 DEF Add, Dropped, SharedBeyond, Referenced, LockOwners, Pending
<1>3. CASE Replaced(t)
  <2>1. key[t] \in Camera /\ ref[t] # cameras[key[t]]
    BY <1>3 DEF Replaced, Pending, PrivateUntilAdded, Unpublished
  <2>2. d # cameras[key[t]]
    BY <1>3, <2>1 DEF Replaced, ReplacedAlone, SharedBeyond, Referenced
  <2>3. QED
    BY <1>3, <2>2 DEF Replaced
<1>4. CASE Release(t)
  BY <1>4 DEF Release, Dropped, SharedBeyond, Referenced, LockOwners, Pending
<1>5. ASSUME NEW e \in Device, Start(t, e)
      PROVE  dev'[d] = dev[d]
  BY <1>5 DEF Start
<1>6. CASE Close(t)
  BY <1>6 DEF Close
<1>7. QED
  BY <1>1, <1>2, <1>3, <1>4, <1>5, <1>6
  DEF Handle, FindAbsent, FindPresent, FindOpen, FindInfo, AddClosing, TakeShut,
      TakeDisconnected, TakeConnected, GrabImage, GrabUnconverted, GrabFills,
      GrabError, GrabNoData

LEMMA HandleKeepsAlone ==
    ASSUME ServiceInv, HistoryNext, NEW t \in Thread, Handle(t)
    PROVE  AloneStarted' /\ AloneMissed'
<1> USE Constants DEF ServiceInv, Inv, TypeOK
<1>1. MetExact' /\ \A u \in Thread : met'[u] => key'[u] # NoCamera
  BY MetExactKept DEF MetExact
<1>2. ASSUME NEW u \in Thread, key'[u] # NoCamera, ~met'[u]
      PROVE  ~met[u] /\ key[u] = key'[u]
  <2>1. ~met[u]
    BY <1>2 DEF HistoryNext
  <2>2. CASE u = t
    BY <1>2, <2>1, <2>2
    DEF Handle, FindAbsent, FindPresent, FindShut, FindOpen, FindInfo, Start, Add,
        AddClosing, Replaced, TakeShut, TakeDisconnected, TakeConnected, GrabImage,
        GrabUnconverted, GrabFills, GrabError, GrabNoData, Close, Release, Goto
  <2>3. CASE u # t
    BY <2>1, <2>3, OthersKept
  <2>4. QED
    BY <2>1, <2>2, <2>3
<1>3. ASSUME NEW u \in Thread, pc'[u] = "take", ~met'[u]
      PROVE  Started(ref[u])'
  <2>1. key'[u] # NoCamera
    <3>1. Inv'
      BY NextInv DEF HistoryNext
    <3>2. QED
      BY <1>3, <3>1 DEF Pending
  <2>2. ~met[u]
    BY <1>2, <1>3, <2>1
  <2>3. CASE u = t
    <3>1. ~TakeShut(t)
      BY <2>2, <2>3 DEF TakeShut, AloneStarted
    <3>2. QED
      BY <1>3, <2>3, <3>1, OwnStarted
  <2>4. CASE u # t
    <3>1. pc[u] = "take" /\ ref'[u] = ref[u] /\ ref[u] # NoDevice /\ Started(ref[u])
      BY <1>3, <2>2, <2>4, OthersKept DEF Pending, AloneStarted
    <3>2. ref[u] # ref[t]
      BY <2>2, <2>4, <3>1, SharedHaveMet
    <3>3. dev'[ref[u]] = dev[ref[u]]
      BY <2>4, <3>1, <3>2, OthersKept
    <3>4. QED
      BY <3>1, <3>3 DEF Started
  <2>5. QED
    BY <2>3, <2>4
<1>4. ASSUME NEW u \in Thread, pc'[u] \in {"info", "start"}, ~met'[u]
      PROVE  cameras'[key'[u]] = NoDevice
  <2>1. key'[u] # NoCamera
    <3>1. Inv'
      BY NextInv DEF HistoryNext
    <3>2. QED
      BY <1>4, <3>1 DEF Pending
  <2>2. ~met[u] /\ key'[u] = key[u] /\ key[u] \in Camera
    BY <1>2, <1>4, <2>1
  <2>3. CASE u = t
    BY <1>4, <2>2, <2>3
    DEF AloneMissed, Handle, FindAbsent, FindPresent, FindShut, FindOpen, FindInfo,
        Start, Add, AddClosing, Replaced, TakeShut, TakeDisconnected, TakeConnected,
        GrabImage, GrabUnconverted, GrabFills, GrabError, GrabNoData, Close, Release,
        Goto
  <2>4. CASE u # t
    <3>1. cameras[key[u]] = NoDevice
      BY <1>4, <2>2, <2>4, OthersKept DEF AloneMissed
    <3>2. key[t] # key[u]
      BY <2>1, <2>2, <2>4 DEF MetExact
    <3>3. QED
      BY <2>2, <3>1, <3>2
      DEF Handle, FindAbsent, FindPresent, FindShut, FindOpen, FindInfo, Start, Add,
          AddClosing, Replaced, TakeShut, TakeDisconnected, TakeConnected, GrabImage,
          GrabUnconverted, GrabFills, GrabError, GrabNoData, Close, Release
  <2>5. QED
    BY <2>3, <2>4
<1>5. QED
  BY <1>3, <1>4 DEF AloneStarted, AloneMissed

\* The devices that steady cameras have in the map, and those of the requests for
\* them, are not lost, and no SDK call on them fails.
LEMMA HandleKeepsSteady ==
    ASSUME ServiceInv, NEW t \in Thread, Handle(t)
    PROVE  SteadyWorks'
<1>0. Inv'
  BY NextInv DEF ServiceInv, Next
<1> USE Constants DEF ServiceInv, Inv, TypeOK, Steady
<1>1. Steady \subseteq healthy' /\ lost' = {d \in lost : Opened(d)'}
  BY DEF Handle, Forget, SteadyWorks
<1>2. \A d \in lost' : dev'[d].cam \notin Steady
  <2>1. CASE \E d \in Device : Start(t, d)
    <3>1. PICK d \in Device : Start(t, d)
      BY <2>1
    <3>2. d \notin lost
      BY <3>1 DEF Start, LostOpened, Opened, Gone
    <3>3. QED
      BY <1>1, <3>1, <3>2 DEF Start, SteadyWorks
  <2>2. CASE \A d \in Device : ~Start(t, d)
    BY <1>1, <2>2, OpenedBefore DEF SteadyWorks
  <2>3. QED
    BY <2>1, <2>2
<1>3. ASSUME NEW d \in Device, NEW c \in Steady, dev[d].key = c, Serves(d),
             ref[t] = d => key[t] = c, Referenced(d)'
      PROVE  Serves(d)'
  <2>1. dev[d] # Gone
    BY <1>3 DEF Gone
  <2>2. CASE Mixed(d)
    BY <1>3, <2>1, <2>2, DeviceKept DEF Serves, Mixed
  <2>3. CASE ~Mixed(d)
    <3>1. ~(Close(t) /\ ref[t] = d)
      BY <1>3, <2>3 DEF Close, SteadyWorks
    <3>2. QED
      BY <1>3, <2>1, <2>3, <3>1, DeviceKept DEF Serves
  <2>4. QED
    BY <2>2, <2>3
<1>4. ASSUME NEW c \in Steady, NEW d \in Device, cameras'[c] = d
      PROVE  Serves(d)'
  <2>1. Referenced(d)'
    BY <1>4 DEF Referenced
  <2>2. CASE cameras'[c] = cameras[c]
    <3>1. Serves(d) /\ dev[d].key = c /\ (ref[t] = d => key[t] = c)
      BY <1>4, <2>2 DEF SteadyWorks, PublishedStarted, RefOfKey
    <3>2. QED
      BY <1>3, <2>1, <3>1
  <2>3. CASE cameras'[c] # cameras[c]
    <3>1. (Add(t) \/ Replaced(t)) /\ key[t] = c /\ d = ref[t]
      BY <1>4, <2>3
      DEF Handle, FindAbsent, FindPresent, FindShut, FindOpen, FindInfo, Start, Add,
          AddClosing, Replaced, TakeShut, TakeDisconnected, TakeConnected, GrabImage,
          GrabUnconverted, GrabFills, GrabError, GrabNoData, Close, Release
    <3>2. Serves(d) /\ dev[d].key = c
      BY <2>1, <3>1 DEF Add, Replaced, SteadyWorks, RefOfKey
    <3>3. QED
      BY <1>3, <2>1, <3>1, <3>2
  <2>4. QED
    BY <2>2, <2>3
<1> DEFINE AtWork == {"add", "replace", "take", "grab", "close"}
<1>5. ASSUME NEW u \in Thread, pc'[u] \in AtWork, key'[u] \in Steady
      PROVE  /\ key[u] = key'[u] /\ ref'[u] \in Device /\ Referenced(ref[u])'
             /\ ref'[u] = ref[u] => dev[ref[u]].key = key[u] /\ dev[ref[u]] # Gone
             /\ ref[t] = ref[u] /\ ref'[u] = ref[u] => key[t] = key[u]
  <2>1. key[u] = key'[u]
    BY <1>5, OthersKept
    DEF Handle, FindAbsent, FindPresent, FindShut, FindOpen, FindInfo, Start, Add,
        AddClosing, Replaced, TakeShut, TakeDisconnected, TakeConnected, GrabImage,
        GrabUnconverted, GrabFills, GrabError, GrabNoData, Close, Release, Goto
  <2>2. ref'[u] \in Device /\ Referenced(ref[u])'
    BY <1>0, <1>5 DEF Pending, Referenced
  <2>3. QED
    BY <1>5, <2>1, <2>2 DEF RefOfKey, Gone
<1>6. ASSUME NEW u \in Thread, pc'[u] \in AtWork, key'[u] \in Steady
      PROVE  Serves(ref[u])'
  <2>1. CASE ref'[u] = ref[u] /\ pc[u] \in AtWork
    <3>1. Serves(ref[u])
      BY <1>5, <1>6, <2>1 DEF SteadyWorks
    <3>2. QED
      BY <1>3, <1>5, <1>6, <2>1, <3>1
  <2>2. CASE ~(ref'[u] = ref[u] /\ pc[u] \in AtWork)
    <3>1. u = t
      BY <1>6, <2>2, OthersKept
    <3>2. FindOpen(t) \/ \E e \in Device : Start(t, e)
      BY <1>6, <2>2, <3>1
      DEF Handle, FindAbsent, FindPresent, FindShut, FindInfo, Add, AddClosing, Replaced,
          TakeShut, TakeDisconnected, TakeConnected, GrabImage, GrabUnconverted,
          GrabFills, GrabError, GrabNoData, Close, Release, Goto
    <3>3. CASE FindOpen(t)
      <4>1. dev' = dev /\ ref'[t] = cameras[key[t]] /\ cameras[key[t]] # NoDevice
        BY <3>3 DEF FindOpen, LockOwners
      <4>2. QED
        BY <1>5, <1>6, <3>1, <4>1 DEF SteadyWorks, Serves, Mixed
    <3>4. ASSUME NEW e \in Device, Start(t, e)
          PROVE  Serves(ref[u])'
      <4>1. key[t] \in healthy /\ ref'[t] = e /\ dev'[e].key = key[t]
        BY <1>5, <1>6, <3>1, <3>4 DEF Start, SteadyWorks
      <4>2. dev'[e].life = "live" \/ dev'[e].cam \notin healthy
        BY <1>6, <3>1, <3>4 DEF Start, Goto
      <4>3. QED
        BY <3>1, <4>1, <4>2 DEF Serves, Mixed
    <3>5. QED
      BY <3>2, <3>3, <3>4
  <2>3. QED
    BY <2>1, <2>2
<1>7. ASSUME NEW u \in Thread, pc'[u] = "close", key'[u] \in Steady
      PROVE  Mixed(ref[u])'
  <2>1. CASE pc[u] = "close" /\ ref'[u] = ref[u]
    <3>1. Mixed(ref[u])
      BY <1>5, <1>7, <2>1 DEF SteadyWorks
    <3>2. QED
      BY <1>5, <1>7, <2>1, <3>1, DeviceKept DEF Mixed
  <2>2. CASE ~(pc[u] = "close" /\ ref'[u] = ref[u])
    <3>1. u = t
      BY <1>7, <2>2, OthersKept
    <3>2. /\ TakeDisconnected(t) \/ GrabNoData(t)
          /\ dev' = dev /\ ref'[t] = ref[t] /\ key'[t] = key[t]
      BY <1>7, <2>2, <3>1
      DEF Handle, FindAbsent, FindPresent, FindShut, FindOpen, FindInfo, Start, Add,
          AddClosing, Replaced, TakeShut, TakeDisconnected, TakeConnected, GrabImage,
          GrabUnconverted, GrabFills, GrabError, GrabNoData, Close, Release, Goto
    <3>3. dev[ref[t]].cam \notin Steady /\ dev[ref[t]].key = key[t]
      BY <1>5, <1>7, <3>1, <3>2 DEF TakeDisconnected, GrabNoData, Failing, SteadyWorks
    <3>4. QED
      BY <1>7, <3>1, <3>2, <3>3 DEF Mixed
  <2>3. QED
    BY <2>1, <2>2
<1>8. QED
  BY <1>0, <1>1, <1>2, <1>4, <1>6, <1>7 DEF SteadyWorks

LEMMA RequestKeepsService ==
    ASSUME ServiceInv, HistoryNext, NEW t \in Thread, Request(t)
    PROVE  AloneStarted' /\ AloneMissed' /\ SteadyWorks'
<1> USE Constants DEF ServiceInv, Inv, TypeOK
<1>1. dev' = dev /\ cameras' = cameras /\ ref' = ref /\ UNCHANGED <<healthy, lost>>
  BY DEF Request, GetImage, GetCameraMetas
<1>2. ASSUME NEW u \in Thread, pc'[u] \notin {"idle", "find"}
      PROVE  pc'[u] = pc[u] /\ key'[u] = key[u] /\ (met[u] => met'[u])
  <2>1. pc'[u] = pc[u] /\ key'[u] = key[u]
    BY <1>2 DEF Request, GetImage, GetCameraMetas, Goto
  <2>2. key[u] # NoCamera
    BY <1>2, <2>1 DEF Pending, Point
  <2>3. QED
    BY <2>1, <2>2 DEF HistoryNext
<1>3. AloneStarted' /\ AloneMissed'
  BY <1>1, <1>2 DEF AloneStarted, AloneMissed, Started
<1>4. SteadyWorks'
  BY <1>1, <1>2 DEF SteadyWorks, Serves, Mixed, Steady
<1>5. QED
  BY <1>3, <1>4

LEMMA OtherwiseKept ==
    ASSUME ServiceInv, UNCHANGED server, met' = met,
           Environment \/ UNCHANGED <<healthy, lost>>
    PROVE  AloneStarted' /\ AloneMissed' /\ SteadyWorks'
<1> USE DEF ServiceInv, server
<1>1. AloneStarted' /\ AloneMissed'
  BY DEF AloneStarted, AloneMissed, Started
<1>2. SteadyWorks'
  BY DEF SteadyWorks, Serves, Mixed, Steady, Environment, Fail, Recover, Handles, server
<1>3. QED
  BY <1>1, <1>2

LEMMA ServiceInvKept ==
    ASSUME ServiceInv, [HistoryNext]_HistoryVars
    PROVE  ServiceInv'
<1>1. [Next]_vars
  BY DEF HistoryNext, HistoryVars
<1>2. Inv'
  BY <1>1, NextInv DEF ServiceInv
<1>3. CASE UNCHANGED HistoryVars
  <2>1. UNCHANGED server /\ UNCHANGED <<healthy, lost>> /\ met' = met
    BY <1>3 DEF HistoryVars, vars
  <2>2. MetExact' /\ LostOpened'
    BY <2>1 DEF ServiceInv, MetExact, LostOpened, Opened, server
  <2>3. QED
    BY <1>2, <2>1, <2>2, OtherwiseKept DEF ServiceInv
<1>4. CASE HistoryNext
  <2>1. MetExact'
    BY <1>4, MetExactKept DEF ServiceInv
  <2>2. ASSUME NEW t \in Thread, Handle(t)
        PROVE  AloneStarted' /\ AloneMissed' /\ SteadyWorks' /\ LostOpened'
    <3>1. AloneStarted' /\ AloneMissed' /\ SteadyWorks'
      BY <1>4, <2>2, HandleKeepsAlone, HandleKeepsSteady
    <3>2. LostOpened'
      BY <2>2 DEF Handle, Forget, LostOpened
    <3>3. QED
      BY <3>1, <3>2
  <2>3. ASSUME NEW t \in Thread, Request(t)
        PROVE  AloneStarted' /\ AloneMissed' /\ SteadyWorks' /\ LostOpened'
    <3>1. AloneStarted' /\ AloneMissed' /\ SteadyWorks'
      BY <1>4, <2>3, RequestKeepsService
    <3>2. LostOpened'
      BY <2>3 DEF Request, GetImage, GetCameraMetas, LostOpened, Opened, ServiceInv
    <3>3. QED
      BY <3>1, <3>2
  <2>4. CASE Environment \/ Halted
    <3>1. UNCHANGED server /\ (Environment \/ UNCHANGED <<healthy, lost>>)
      BY <2>4 DEF Environment, Fail, Recover, Halted, vars
    <3>2. met' = met
      BY <1>4, <3>1, MetUnchanged DEF ServiceInv, server
    <3>3. LostOpened'
      BY <2>4, <3>1
      DEF Environment, Fail, Recover, Handles, LostOpened, Opened, ServiceInv, server
    <3>4. QED
      BY <1>2, <2>1, <3>1, <3>2, <3>3, OtherwiseKept DEF ServiceInv
  <2>5. QED
    BY <1>2, <1>4, <2>1, <2>2, <2>3, <2>4 DEF HistoryNext, Next, ServiceInv
<1>5. QED
  BY <1>3, <1>4

LEMMA ServiceInvInit == HistoryInit => ServiceInv
<1> SUFFICES ASSUME HistoryInit PROVE ServiceInv
  OBVIOUS
<1>1. Inv
  BY InitInv DEF HistoryInit
<1>2. LostOpened /\ MetExact /\ AloneStarted /\ AloneMissed
  BY DEF HistoryInit, Init, LostOpened, MetExact, AloneStarted, AloneMissed
<1>3. SteadyWorks
  BY Constants DEF HistoryInit, Init, SteadyWorks, Steady
<1>4. QED
  BY <1>1, <1>2, <1>3 DEF ServiceInv

-----------------------------------------------------------------------------
(* Every step of the provider is one of the service, or none *)

\* A request whose device was started on another camera asks for a confused one.
LEMMA MixedConfused ==
    ASSUME Inv, NEW t \in Thread, pc[t] # "idle", ref[t] # NoDevice, Mixed(ref[t])
    PROVE  key[t] \in Confused
<1>1. ref[t] \in Device /\ dev[ref[t]].key = key[t] /\ key[t] \in Camera
  BY Constants DEF Inv, TypeOK, RefOfKey, Pending
<1>2. QED
  BY <1>1 DEF Confused

\* take_picture of the provider returns without a frame only with an excuse.
LEMMA EmptyExcused ==
    ASSUME ServiceInv, NEW t \in Thread, Handle(t),
           pc[t] # "release", pc'[t] = "release", ~GrabImage(t)
    PROVE  met[t] \/ key[t] \in Confused \/ key[t] \notin (Steady \ Unfit) \cap listed
<1> USE Constants DEF ServiceInv, Inv, TypeOK, Steady
<1> SUFFICES ASSUME ~met[t], key[t] \notin Confused,
                    key[t] \in Steady, key[t] \notin Unfit, key[t] \in listed
             PROVE  FALSE
  OBVIOUS
<1>1. ~FindInfo(t)
  BY DEF FindInfo, Goto
<1>2. ASSUME NEW d \in Device, Start(t, d)
      PROVE  FALSE
  <2>1. cameras[key[t]] = NoDevice /\ ref[t] = NoDevice
    BY <1>2 DEF Start, AloneMissed, Pending
  <2>2. t \notin overtaken
    BY DEF Confused
  <2>3. Handles(key[t]) = {}
    <3> SUFFICES ASSUME NEW e \in Handles(key[t]) PROVE FALSE
      OBVIOUS
    <3>1. e \in Device /\ dev[e] # Gone /\ dev[e].cam = key[t]
      BY DEF Handles, Opened, Gone
    <3>2. dev[e].key = key[t]
      BY <3>1 DEF Confused, Mixed
    <3>3. \A u \in Thread : ref[u] # e
      BY <2>1, <3>1, <3>2 DEF RefOfKey, MetExact
    <3>4. \A c \in Camera : cameras[c] # e
      BY <2>1, <3>1, <3>2 DEF PublishedStarted
    <3>5. QED
      BY <3>1, <3>3, <3>4 DEF ReferencesExact, Referenced
  <2>4. MustOpen(key[t])
    BY <2>3 DEF MustOpen, SteadyWorks
  <2>5. QED
    BY <1>2, <2>2, <2>4 DEF Start, Goto, SteadyWorks
<1>3. ASSUME GrabUnconverted(t) \/ GrabError(t) \/ Close(t)
      PROVE  FALSE
  <2>1. pc[t] \in {"grab", "close"}
    BY <1>3 DEF GrabUnconverted, GrabError, Close
  <2>2. ref[t] \in Device /\ ~Mixed(ref[t])
    BY <2>1, MixedConfused DEF Pending
  <2>3. dev[ref[t]].cam = key[t] /\ dev[ref[t]].life = "live" /\ pc[t] = "grab"
    BY <2>1, <2>2 DEF RefOfKey, SteadyWorks, Serves, Mixed
  <2>4. QED
    BY <1>3, <2>2, <2>3 DEF GrabUnconverted, GrabError, Close, Failing, SteadyWorks
<1>4. QED
  BY <1>1, <1>2, <1>3
  DEF Handle, FindAbsent, FindPresent, FindShut, FindOpen, Add, AddClosing, Replaced,
      TakeShut, TakeDisconnected, TakeConnected, GrabFills, GrabNoData, Release, Goto

\* Only start with a rewritten descriptor confuses a camera that was not, and none
\* but the one that it opens.
LEMMA HandleSpreads ==
    ASSUME ServiceInv, NEW t \in Thread, Handle(t)
    PROVE  /\ Service!Spreads
           /\ pc[t] # "start" => Confused' \subseteq Confused
<1> USE Constants DEF ServiceInv, Inv, TypeOK
<1>1. pc[t] # "idle" /\ key[t] \in Camera
  <2>1. pc[t] # "idle"
    BY DEF Handle, FindAbsent, FindPresent, FindShut, FindOpen, FindInfo, Start, Add,
           AddClosing, Replaced, TakeShut, TakeDisconnected, TakeConnected, GrabImage,
           GrabUnconverted, GrabFills, GrabError, GrabNoData, Close, Release
  <2>2. QED
    BY <2>1 DEF Pending
<1>2. /\ overtaken' = overtaken \ {t}
      /\ \A u \in overtaken' : key'[u] = key[u]
  BY OthersKept DEF Handle
<1>3. ASSUME \A d \in Device : ~Start(t, d)
      PROVE  Confused' \subseteq Confused
  <2>1. ASSUME NEW d \in Device, Mixed(d)'
        PROVE  dev'[d].key = dev[d].key /\ dev'[d].cam = dev[d].cam
    <3>1. CASE FindShut(t) \/ Add(t) \/ Replaced(t) \/ Release(t)
      BY <2>1, <3>1 DEF FindShut, Add, Replaced, Release, Dropped, Mixed, Gone
    <3>2. CASE Close(t)
      BY <3>2 DEF Close
    <3>3. QED
      BY <1>3, <3>1, <3>2
      DEF Handle, FindAbsent, FindPresent, FindOpen, FindInfo, AddClosing, TakeShut,
          TakeDisconnected, TakeConnected, GrabImage, GrabUnconverted, GrabFills,
          GrabError, GrabNoData
  <2>2. QED
    BY <1>2, <2>1 DEF Confused, Mixed
<1>4. ASSUME NEW d \in Device, Start(t, d)
      PROVE  Service!Spreads
  <2>1. \A e \in Device \ {d} : dev'[e] = dev[e]
    BY <1>4 DEF Start
  <2>2. dev'[d].key = key[t] /\ (t \notin overtaken => dev'[d].cam = key[t])
    BY <1>1, <1>4 DEF Start
  <2>3. t \in overtaken => key[t] \in Confused
    BY DEF Confused
  <2>4. \A c \in Confused' : c \in Confused \/ (c = dev'[d].cam /\ t \in overtaken)
    BY <1>2, <2>1, <2>2, <2>3 DEF Confused, Mixed
  <2>5. \E c \in Camera : Confused' \subseteq Confused \cup {c}
    <3>1. CASE dev'[d].cam \in Camera
      BY <2>4, <3>1
    <3>2. CASE dev'[d].cam \notin Camera
      <4>1. Confused' \subseteq Camera
        BY <1>2 DEF Confused, Pending
      <4>2. QED
        BY <1>1, <2>4, <3>2, <4>1
    <3>3. QED
      BY <3>1, <3>2
  <2>6. QED
    BY <2>3, <2>4, <2>5 DEF Service!Spreads
<1>5. QED
  BY <1>1, <1>3, <1>4 DEF Service!Spreads, Start

\* The variables of the service under the mapping.
ReplyMap == [t \in Thread |-> Decided(t)]

LEMMA HandleIsService ==
    ASSUME ServiceInv, HistoryNext, NEW t \in Thread, Handle(t)
    PROVE  [Service!Next]_(Service!vars)
<1> USE Constants
<1>0. TypeOK
  BY DEF ServiceInv, Inv
<1>1. \A u \in Thread \ {t} : Decided(u)' = Decided(u)
  BY <1>0
  DEF Decided, TypeOK, Handle, FindAbsent, FindPresent, FindShut, FindOpen, FindInfo,
      Start, Add, AddClosing, Replaced, TakeShut, TakeDisconnected, TakeConnected,
      GrabImage, GrabUnconverted, GrabFills, GrabError, GrabNoData, Close, Release,
      Goto
<1>2. CASE pc[t] # "release" /\ pc'[t] # "release" /\ ~TakeShut(t) /\ ~GrabFills(t)
  <2>1. UNCHANGED <<key, listed, crashed>>
    BY <1>2
    DEF Handle, FindAbsent, FindPresent, FindShut, FindOpen, FindInfo, Start, Add,
        AddClosing, Replaced, TakeDisconnected, TakeConnected, GrabImage,
        GrabUnconverted, GrabError, GrabNoData, Close, Release
  <2>2. Decided(t)' = Decided(t)
    BY <1>2 DEF Decided
  <2>3. met' = met
    BY <2>1, MetUnchanged DEF ServiceInv
  <2>4. Service!Confuse
    BY <1>1, <2>1, <2>2, <2>3, HandleSpreads DEF Service!Confuse
  <2>5. QED
    BY <2>4 DEF Service!Next, Handle
<1>3. CASE TakeShut(t) \/ GrabFills(t)
  <2>1. Decided(t) = "pending" /\ key[t] # NoCamera
    BY <1>3 DEF TakeShut, GrabFills, Decided, ServiceInv, Inv, Pending
  <2>2. \A u \in Thread : Decided(u)' = Decided(u)
    BY <1>3 DEF TakeShut, GrabFills, Decided
  <2>3. met' = met
    BY <1>3, MetUnchanged DEF TakeShut, GrabFills, ServiceInv
  <2>4. Confused' = Confused
    <3>1. overtaken' = overtaken
      BY <1>0, <1>3 DEF Handle, TakeShut, GrabFills, TypeOK
    <3>2. QED
      BY <1>3, <3>1 DEF TakeShut, GrabFills, Confused, Mixed
  <2>5. met[t] \/ key[t] \in Confused \/ key[t] \in Unfit
    <3>1. CASE TakeShut(t)
      BY <3>1 DEF TakeShut, ServiceInv, AloneStarted
    <3>2. CASE GrabFills(t)
      <4>1. dev[ref[t]].cam \in Unfit /\ pc[t] # "idle" /\ ref[t] # NoDevice
        BY <3>2 DEF GrabFills, ServiceInv, Inv, Pending
      <4>2. dev[ref[t]].key = key[t]
        BY <4>1 DEF ServiceInv, Inv, RefOfKey
      <4>3. QED
        BY <4>1, <4>2, MixedConfused DEF Mixed, ServiceInv
    <3>3. QED
      BY <1>3, <3>1, <3>2
  <2>6. Service!Abort(t)
    BY <1>3, <2>1, <2>2, <2>3, <2>4, <2>5
    DEF TakeShut, GrabFills, Service!Abort, Service!Pending, Steady
  <2>7. QED
    BY <2>6 DEF Service!Next, Handle
<1>4. CASE pc[t] # "release" /\ pc'[t] = "release"
  <2> DEFINE r == Decided(t)'
  <2>1. UNCHANGED <<key, listed, crashed>>
    BY <1>4
    DEF Handle, FindAbsent, FindPresent, FindShut, FindOpen, FindInfo, Start, Add,
        AddClosing, Replaced, TakeShut, TakeDisconnected, TakeConnected, GrabImage,
        GrabUnconverted, GrabFills, GrabError, GrabNoData, Close, Release
  <2>2. met' = met
    BY <2>1, MetUnchanged DEF ServiceInv
  <2>3. key[t] # NoCamera /\ Decided(t) = "pending"
    <3>1. pc[t] # "idle"
      BY <1>4
      DEF Handle, FindAbsent, FindPresent, FindShut, FindOpen, FindInfo, Start, Add,
          AddClosing, Replaced, TakeShut, TakeDisconnected, TakeConnected, GrabImage,
          GrabUnconverted, GrabFills, GrabError, GrabNoData, Close, Release
    <3>2. QED
      BY <1>4, <3>1 DEF Decided, ServiceInv, Inv, Pending
  <2>4. /\ r = "empty" =>
               met[t] \/ key[t] \in Confused \/ key[t] \notin (Steady \ Unfit) \cap listed
        /\ r = "other" => key[t] \in Confused
    <3>1. CASE GrabImage(t)
      <4>1. image'[t] = dev[ref[t]].cam /\ pc[t] # "idle" /\ ref[t] # NoDevice
        BY <1>0, <3>1 DEF GrabImage, TypeOK, ServiceInv, Inv, Pending
      <4>2. dev[ref[t]].key = key[t] /\ dev[ref[t]].cam # NoCamera
        BY <1>0, <3>1, <4>1
        DEF GrabImage, ServiceInv, Inv, RefOfKey, FreeIsGone, Opened, TypeOK
      <4>3. r = "image" \/ (r = "other" /\ Mixed(ref[t]))
        BY <1>4, <2>1, <4>1, <4>2 DEF Decided, Mixed
      <4>4. QED
        BY <4>1, <4>3, MixedConfused DEF ServiceInv
    <3>2. CASE ~GrabImage(t)
      <4>1. image'[t] = NoCamera
        <5>1. image'[t] = image[t]
          BY <1>4, <3>2
          DEF Handle, FindAbsent, FindPresent, FindShut, FindOpen, FindInfo, Start, Add,
              AddClosing, Replaced, TakeShut, TakeDisconnected, TakeConnected,
              GrabUnconverted, GrabFills, GrabError, GrabNoData, Close, Release
        <5>2. QED
          BY <1>4, <5>1 DEF ServiceInv, Inv, ImageOfRequestedCamera
      <4>2. r = "empty"
        BY <1>4, <4>1 DEF Decided
      <4>3. QED
        BY <1>4, <3>2, <4>2, EmptyExcused
    <3>3. QED
      BY <3>1, <3>2
  <2>5. r \in {"image", "other", "empty"}
    BY <1>4 DEF Decided
  <2>6. ReplyMap' = [ReplyMap EXCEPT ![t] = r]
    BY <1>1 DEF ReplyMap
  <2>7. Service!Answer(t, r)
    BY <2>1, <2>2, <2>3, <2>4, <2>6, HandleSpreads
    DEF Service!Answer, Service!Pending, Service!Excused, ReplyMap, Steady
  <2>8. QED
    BY <2>5, <2>7 DEF Service!Next, Handle
<1>5. CASE pc[t] = "release"
  <2>1. Release(t)
    BY <1>5
    DEF Handle, FindAbsent, FindPresent, FindShut, FindOpen, FindInfo, Start, Add,
        AddClosing, Replaced, TakeShut, TakeDisconnected, TakeConnected, GrabImage,
        GrabUnconverted, GrabFills, GrabError, GrabNoData, Close
  <2>2. key' = [key EXCEPT ![t] = NoCamera] /\ UNCHANGED <<listed, crashed>>
    BY <2>1 DEF Release
  <2>3. met' = [met EXCEPT ![t] = FALSE]
    BY <1>0, <2>2 DEF HistoryNext, ServiceInv, MetExact, TypeOK
  <2>4. Decided(t) # "pending" /\ Decided(t)' = "pending"
    BY <1>0, <1>5, <2>1 DEF Decided, Release, Goto, TypeOK
  <2>5. ReplyMap' = [ReplyMap EXCEPT ![t] = "pending"]
    BY <1>1, <2>4 DEF ReplyMap
  <2>6. Service!Return(t)
    BY <1>5, <2>2, <2>3, <2>4, <2>5, HandleSpreads DEF Service!Return, ReplyMap
  <2>7. QED
    BY <2>6 DEF Service!Next, Handle
<1>6. QED
  BY <1>2, <1>3, <1>4, <1>5

LEMMA RequestIsService ==
    ASSUME ServiceInv, HistoryNext, NEW t \in Thread, Request(t)
    PROVE  [Service!Next]_(Service!vars)
<1> USE Constants
<1>0. TypeOK
  BY DEF ServiceInv, Inv
<1>1. \A u \in Thread : Decided(u)' = Decided(u)
  BY <1>0 DEF Decided, TypeOK, Request, GetImage, GetCameraMetas, Goto
<1>2. ASSUME NEW n \in Name, GetImage(t, n), UNCHANGED overtaken
      PROVE  [Service!Next]_(Service!vars)
  <2> DEFINE c == Upper[n]
  <2>1. c \in Camera /\ key[t] = NoCamera
    BY <1>2 DEF GetImage, ServiceInv, MetExact
  <2>2. key' = [key EXCEPT ![t] = c] /\ UNCHANGED <<listed, crashed>>
    BY <1>2 DEF GetImage
  <2>3. met' = [u \in Thread |-> IF u = t THEN \E v \in Thread \ {t} : key[v] = c
                                          ELSE met[u] \/ key[u] = c]
    <3>1. ~met[t]
      BY <2>1 DEF ServiceInv, MetExact
    <3>2. met'[t] = \E v \in Thread \ {t} : key[v] = c
      BY <1>0, <2>1, <2>2, <3>1 DEF HistoryNext, TypeOK
    <3>3. \A u \in Thread \ {t} : met'[u] = (met[u] \/ key[u] = c)
      BY <1>0, <2>1, <2>2 DEF HistoryNext, ServiceInv, MetExact, TypeOK
    <3>4. QED
      BY <3>2, <3>3 DEF HistoryNext
  <2>4. Confused' = Confused
    <3>1. \A u \in overtaken : key'[u] = key[u]
      BY <1>0, <1>2, <2>2 DEF GetImage, TypeOK
    <3>2. QED
      BY <1>2, <3>1 DEF GetImage, Confused, Mixed
  <2>5. Service!Ask(t, c)
    BY <1>1, <2>1, <2>2, <2>3, <2>4 DEF Service!Ask
  <2>6. QED
    BY <2>1, <2>5 DEF Service!Next, Request
<1>3. CASE GetCameraMetas(t)
  <2>1. met' = met
    BY <1>3, MetUnchanged DEF GetCameraMetas, ServiceInv
  <2> DEFINE T == {u \in Thread : pc[u] = "start"}
  <2>2. Confused' = Confused \cup {key[u] : u \in T}
    BY <1>3 DEF GetCameraMetas, Confused, Mixed
  <2>3. T \in SUBSET {u \in Thread : key[u] # NoCamera /\ Decided(u) = "pending"}
    BY DEF Decided, ServiceInv, Inv, Pending
  <2>4. Service!List
    BY <1>1, <1>3, <2>1, <2>2, <2>3 DEF Service!List, Service!Pending, GetCameraMetas
  <2>5. QED
    BY <2>4 DEF Service!Next, Request
<1>4. QED
  BY <1>2, <1>3 DEF Request

LEMMA NextIsService ==
    ASSUME ServiceInv, [HistoryNext]_HistoryVars
    PROVE  [Service!Next]_(Service!vars)
<1>1. CASE UNCHANGED <<server, met>>
  BY <1>1 DEF server, Service!vars, Decided, Confused, Mixed
<1>2. CASE HistoryNext
  <2>1. CASE Environment \/ Halted
    <3>1. UNCHANGED server
      BY <2>1 DEF Environment, Fail, Recover, Halted, vars
    <3>2. met' = met
      BY <1>2, <3>1, MetUnchanged DEF ServiceInv, server
    <3>3. QED
      BY <1>1, <3>1, <3>2
  <2>2. QED
    BY <1>2, <2>1, HandleIsService, RequestIsService DEF HistoryNext, Next
<1>3. QED
  BY <1>1, <1>2 DEF HistoryVars, vars

\* Whatever the devices, handles, locks and other cameras do meanwhile: a request that
\* is alone on a camera that never fails, whose images fit and that is listed, is
\* answered with a frame of that camera, unless a rewritten descriptor has confused it
\* with another one; and without one of these excuses no request aborts the process.
THEOREM ProviderKeepsPromise == HistorySpec => Promise
<1>1. HistoryInit => Service!Init
  <2> SUFFICES ASSUME HistoryInit PROVE Service!Init
    OBVIOUS
  <2>1. listed \in SUBSET Camera
    BY DEF HistoryInit, Init
  <2>2. Confused = {}
    BY Constants DEF HistoryInit, Init, Confused, Mixed, Gone
  <2>3. QED
    BY <2>1, <2>2 DEF HistoryInit, Init, Service!Init, Decided
<1>2. ServiceInv /\ [HistoryNext]_HistoryVars => ServiceInv'
  BY ServiceInvKept
<1>3. ServiceInv /\ [HistoryNext]_HistoryVars => [Service!Next]_(Service!vars)
  BY NextIsService
<1>4. QED
  BY <1>1, <1>2, <1>3, ServiceInvInit, PTL DEF HistorySpec, Promise, Service!Spec
================================================================================
