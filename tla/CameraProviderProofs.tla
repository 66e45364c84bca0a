------------------------- MODULE CameraProviderProofs -------------------------
(***************************************************************************)
(* Proofs about CameraProvider, for any number of threads, cameras and     *)
(* devices, any faults and either behaviour of the SDK.                    *)
(***************************************************************************)
EXTENDS CameraProvider, TLAPS

\* Who holds a mutex is where the mutex says, and conversely.
LockOwners ==
    /\ \A t \in Thread : pc[t] \in {"isshut", "replace"} =>
           listLock = t /\ cameras[key[t]] # NoDevice
    /\ \A d \in Device : devLock[d] # NoThread =>
           pc[devLock[d]] \in {"grab", "close"} /\ ref[devLock[d]] = d

\* A request has a key while it is pending, and a shared_ptr from the moment it
\* has found or made a device.
Pending ==
    \A t \in Thread :
        /\ pc[t] # "idle" => key[t] \in Camera
        /\ pc[t] \in {"idle", "find", "isshut", "info", "start"} => ref[t] = NoDevice
        /\ pc[t] \in {"add", "replace", "take", "grab", "close"} => ref[t] # NoDevice
        /\ image[t] # NoCamera => ref[t] # NoDevice

\* A thread's device was made for the camera of its request.
RefOfKey == \A t \in Thread : ref[t] # NoDevice => dev[ref[t]].key = key[t]

\* What "free" means, that every other object was made for a key, and that what is
\* open is a camera.
FreeIsGone ==
    \A d \in Device :
        /\ dev[d].life = "free" <=> dev[d].key = NoCamera
        /\ dev[d].life = "free" <=> dev[d] = Gone
        /\ Opened(d) => dev[d].cam \in Camera

\* A device that is not yet in the map, or will never be, is one thread's alone.
Unpublished(d) ==
    \/ dev[d].life = "half"
    \/ \E t \in Thread : pc[t] \in {"add", "replace"} /\ ref[t] = d

PrivateUntilAdded ==
    \A d \in Device : Unpublished(d) =>
        /\ \A c \in Camera : cameras[c] # d
        /\ \A t, u \in Thread : ref[t] = d /\ ref[u] = d => t = u
        /\ \A t \in Thread : ref[t] = d /\ pc[t] \in {"add", "replace"} => Started(d)
        /\ \A t \in Thread : ref[t] = d => pc[t] \in {"add", "replace", "release"}

\* The device that is closed while its entry is replaced is nobody else's.
ReplacedAlone ==
    \A t \in Thread : pc[t] = "replace" =>
        ~SharedBeyond(cameras[key[t]], NoThread, key[t])

Inv ==
    /\ TypeOK
    /\ LockOwners
    /\ Pending
    /\ RefOfKey
    /\ FreeIsGone
    /\ ReferencesExact
    /\ GrabStarted
    /\ PrivateUntilAdded
    /\ ReplacedAlone
    /\ PublishedStarted
    /\ ImageOfRequestedCamera

\* What every step of a request does beside its own.
Beside(t) == Forget /\ overtaken' = overtaken \ {t} /\ UNCHANGED healthy

-----------------------------------------------------------------------------
(* Proof that Inv is inductive *)

LEMMA Constants ==
    /\ Camera \subseteq Name
    /\ NoCamera \notin Camera
    /\ NoDevice \notin Device
    /\ NoThread \notin Thread
    /\ Upper \in [Name -> Camera]
BY NamesAssumption, ConstantsAssumption DEF Camera

LEMMA FindAbsentKeeps ==
    ASSUME Inv, NEW t \in Thread, FindAbsent(t), Beside(t)
    PROVE  Inv'
<1> USE Constants DEF Inv, FindAbsent, Goto
<1>1. TypeOK'
  BY DEF TypeOK, Beside, Forget, Point
<1>2. LockOwners'
  BY DEF LockOwners
<1>3. Pending'
  BY DEF Pending
<1>4. RefOfKey'
  BY DEF RefOfKey
<1>5. FreeIsGone'
  BY DEF FreeIsGone, Opened
<1>6. ReferencesExact'
  BY DEF ReferencesExact, Referenced
<1>7. GrabStarted'
  BY DEF GrabStarted, Started
<1>8. PrivateUntilAdded'
  BY DEF PrivateUntilAdded, Unpublished, Started
<1>9. PublishedStarted'
  BY DEF PublishedStarted
<1>10. ImageOfRequestedCamera'
  BY DEF ImageOfRequestedCamera, Mixed
<1>11. ReplacedAlone'
  BY DEF ReplacedAlone, SharedBeyond
<1>12. QED
  BY <1>1, <1>2, <1>3, <1>4, <1>5, <1>6, <1>7, <1>8, <1>9, <1>10, <1>11

LEMMA FindPresentKeeps ==
    ASSUME Inv, NEW t \in Thread, FindPresent(t), Beside(t)
    PROVE  Inv'
<1> USE Constants DEF Inv, FindPresent, Goto
<1>1. TypeOK'
  BY DEF TypeOK, Beside, Forget, Point
<1>2. LockOwners'
  BY DEF LockOwners
<1>3. Pending'
  BY DEF Pending
<1>4. RefOfKey'
  BY DEF RefOfKey
<1>5. FreeIsGone'
  BY DEF FreeIsGone, Opened
<1>6. ReferencesExact'
  BY DEF ReferencesExact, Referenced
<1>7. GrabStarted'
  BY DEF GrabStarted, Started
<1>8. PrivateUntilAdded'
  BY DEF PrivateUntilAdded, Unpublished, Started
<1>9. PublishedStarted'
  BY DEF PublishedStarted
<1>10. ImageOfRequestedCamera'
  BY DEF ImageOfRequestedCamera, Mixed
<1>11. ReplacedAlone'
  BY DEF ReplacedAlone, SharedBeyond
<1>12. QED
  BY <1>1, <1>2, <1>3, <1>4, <1>5, <1>6, <1>7, <1>8, <1>9, <1>10, <1>11

LEMMA FindShutKeeps ==
    ASSUME Inv, NEW t \in Thread, FindShut(t), Beside(t)
    PROVE  Inv'
<1> USE Constants DEF Inv, FindShut, Goto
<1>1. TypeOK'
  BY DEF TypeOK, Beside, Forget, Point, Life, Dropped, Gone
<1>2. LockOwners'
  BY DEF LockOwners, TypeOK
<1>3. Pending'
  BY DEF Pending
<1>4. RefOfKey'
  BY DEF RefOfKey, Pending, Dropped, SharedBeyond
<1>5. FreeIsGone'
  BY DEF FreeIsGone, Opened, Dropped, Gone, TypeOK
<1>6. ReferencesExact'
  BY DEF ReferencesExact, TypeOK, Pending, FreeIsGone, PrivateUntilAdded,
         Referenced, Dropped, SharedBeyond, Unpublished
<1>7. GrabStarted'
  BY DEF GrabStarted, Started, Dropped
<1>8. PrivateUntilAdded'
  BY DEF PrivateUntilAdded, Unpublished, Started, Dropped, SharedBeyond, Gone
<1>9. PublishedStarted'
  BY DEF PublishedStarted, TypeOK, Dropped, SharedBeyond
<1>10. ImageOfRequestedCamera'
  BY DEF ImageOfRequestedCamera, Mixed, Pending, TypeOK, Dropped, SharedBeyond
<1>11. ReplacedAlone'
  BY DEF ReplacedAlone, SharedBeyond, LockOwners, TypeOK
<1>12. QED
  BY <1>1, <1>2, <1>3, <1>4, <1>5, <1>6, <1>7, <1>8, <1>9, <1>10, <1>11

LEMMA FindOpenKeeps ==
    ASSUME Inv, NEW t \in Thread, FindOpen(t), Beside(t)
    PROVE  Inv'
<1> USE Constants DEF Inv, FindOpen, Goto
<1>1. TypeOK'
  BY DEF TypeOK, Pending, Beside, Forget, Point
<1>2. LockOwners'
  BY DEF LockOwners, TypeOK
<1>3. Pending'
  BY DEF Pending, TypeOK, LockOwners
<1>4. RefOfKey'
  BY DEF RefOfKey, Pending, PublishedStarted
<1>5. FreeIsGone'
  BY DEF FreeIsGone, Opened
<1>6. ReferencesExact'
  BY DEF ReferencesExact, Pending, Referenced
<1>7. GrabStarted'
  BY DEF GrabStarted, Started
<1>8. PrivateUntilAdded'
  BY DEF PrivateUntilAdded, Pending, Unpublished, Started
<1>9. PublishedStarted'
  BY DEF PublishedStarted
<1>10. ImageOfRequestedCamera'
  BY DEF ImageOfRequestedCamera, Mixed
<1>11. ReplacedAlone'
  BY DEF ReplacedAlone, SharedBeyond, LockOwners, TypeOK
<1>12. QED
  BY <1>1, <1>2, <1>3, <1>4, <1>5, <1>6, <1>7, <1>8, <1>9, <1>10, <1>11

LEMMA FindInfoKeeps ==
    ASSUME Inv, NEW t \in Thread, FindInfo(t), Beside(t)
    PROVE  Inv'
<1> USE Constants DEF Inv, FindInfo, Goto
<1>1. TypeOK'
  BY DEF TypeOK, Beside, Forget, Point
<1>2. LockOwners'
  BY DEF LockOwners
<1>3. Pending'
  BY DEF Pending
<1>4. RefOfKey'
  BY DEF RefOfKey
<1>5. FreeIsGone'
  BY DEF FreeIsGone, Opened
<1>6. ReferencesExact'
  BY DEF ReferencesExact, Referenced
<1>7. GrabStarted'
  BY DEF GrabStarted, Started
<1>8. PrivateUntilAdded'
  BY DEF PrivateUntilAdded, Unpublished, Started
<1>9. PublishedStarted'
  BY DEF PublishedStarted
<1>10. ImageOfRequestedCamera'
  BY DEF ImageOfRequestedCamera, Mixed
<1>11. ReplacedAlone'
  BY DEF ReplacedAlone, SharedBeyond
<1>12. QED
  BY <1>1, <1>2, <1>3, <1>4, <1>5, <1>6, <1>7, <1>8, <1>9, <1>10, <1>11

LEMMA StartKeeps ==
    ASSUME Inv, NEW t \in Thread, NEW d \in Device, Start(t, d), Beside(t)
    PROVE  Inv'
<1> USE Constants DEF Inv, Start, Goto
<1>1. TypeOK'
  <2>1. key[t] \in Camera
    BY DEF Pending
  <2>2. PICK life \in {"live", "unsized", "half", "shut"}, c \in Camera \cup {NoCamera} :
            /\ dev' = [dev EXCEPT ![d] = [life |-> life, key |-> key[t], cam |-> c]]
            /\ pc' = [pc EXCEPT ![t] = IF life \in {"live", "unsized"} THEN "add" ELSE "release"]
    BY <2>1
  <2>3. dev' \in [Device -> [life : Life, key : Camera \cup {NoCamera},
                                        cam : Camera \cup {NoCamera}]]
    BY <2>1, <2>2 DEF TypeOK, Life
  <2>4. pc' \in [Thread -> Point] /\ overtaken' \subseteq {u \in Thread : pc'[u] = "start"}
    BY <2>2 DEF TypeOK, Beside, Point
  <2>5. QED
    BY <2>3, <2>4 DEF TypeOK, Beside, Forget
<1>2. LockOwners'
  BY DEF LockOwners, TypeOK
<1>3. Pending'
  BY DEF Pending, TypeOK
<1>4. RefOfKey'
  BY DEF RefOfKey, TypeOK, Pending, Gone
<1>5. FreeIsGone'
  BY DEF FreeIsGone, Opened, Gone, TypeOK, Pending
<1>6. ReferencesExact'
  BY DEF ReferencesExact, TypeOK, Pending, Referenced, Gone
<1>7. GrabStarted'
  BY DEF GrabStarted, TypeOK, Pending, ReferencesExact, Started, Gone
<1>8. PrivateUntilAdded'
  BY DEF PrivateUntilAdded, TypeOK, ReferencesExact, Unpublished, Started,
         Referenced
<1>9. PublishedStarted'
  BY DEF PublishedStarted, TypeOK, ReferencesExact, Gone
<1>10. ImageOfRequestedCamera'
  BY DEF ImageOfRequestedCamera, Mixed, Pending, ReferencesExact, Referenced, TypeOK
<1>11. ReplacedAlone'
  BY DEF ReplacedAlone, SharedBeyond, ReferencesExact, Referenced, LockOwners, Pending,
         TypeOK
<1>12. QED
  BY <1>1, <1>2, <1>3, <1>4, <1>5, <1>6, <1>7, <1>8, <1>9, <1>10, <1>11

LEMMA AddKeeps ==
    ASSUME Inv, NEW t \in Thread, Add(t), Beside(t)
    PROVE  Inv'
<1> USE Constants DEF Inv, Add, Goto
<1>1. TypeOK'
  BY DEF TypeOK, Beside, Forget, Point, Life, Dropped, Gone
<1>2. LockOwners'
  BY DEF LockOwners
<1>3. Pending'
  BY DEF Pending
<1>4. RefOfKey'
  BY DEF RefOfKey, Dropped, SharedBeyond
<1>5. FreeIsGone'
  BY DEF FreeIsGone, Opened, Dropped, Gone, TypeOK
<1>6. ReferencesExact'
  BY DEF ReferencesExact, TypeOK, LockOwners, FreeIsGone, Referenced, Dropped,
         SharedBeyond
<1>7. GrabStarted'
  BY DEF GrabStarted, Started, Dropped, SharedBeyond
<1>8. PrivateUntilAdded'
  BY DEF PrivateUntilAdded, TypeOK, Unpublished, Started, Dropped,
         SharedBeyond, Pending, Gone
<1>9. PublishedStarted'
  BY DEF PublishedStarted, TypeOK, RefOfKey, PrivateUntilAdded, Started,
         Unpublished, Dropped, SharedBeyond
<1>10. ImageOfRequestedCamera'
  BY DEF ImageOfRequestedCamera, Mixed, Pending, TypeOK, Dropped, SharedBeyond
<1>11. ReplacedAlone'
  BY DEF ReplacedAlone, SharedBeyond, LockOwners, TypeOK
<1>12. QED
  BY <1>1, <1>2, <1>3, <1>4, <1>5, <1>6, <1>7, <1>8, <1>9, <1>10, <1>11

LEMMA AddClosingKeeps ==
    ASSUME Inv, NEW t \in Thread, AddClosing(t), Beside(t)
    PROVE  Inv'
<1> USE Constants DEF Inv, AddClosing, ClosesEntry, Goto
<1>1. TypeOK'
  BY DEF TypeOK, Beside, Forget, Point
<1>2. LockOwners'
  BY DEF LockOwners
<1>3. Pending'
  BY DEF Pending
<1>4. RefOfKey'
  BY DEF RefOfKey
<1>5. FreeIsGone'
  BY DEF FreeIsGone, Opened
<1>6. ReferencesExact'
  BY DEF ReferencesExact, Referenced
<1>7. GrabStarted'
  BY DEF GrabStarted, Started
<1>8. PrivateUntilAdded'
  BY DEF PrivateUntilAdded, Unpublished, Started
<1>9. PublishedStarted'
  BY DEF PublishedStarted
<1>10. ImageOfRequestedCamera'
  BY DEF ImageOfRequestedCamera, Mixed
<1>11. ReplacedAlone'
  BY DEF ReplacedAlone, SharedBeyond
<1>12. QED
  BY <1>1, <1>2, <1>3, <1>4, <1>5, <1>6, <1>7, <1>8, <1>9, <1>10, <1>11

LEMMA ReplacedKeeps ==
    ASSUME Inv, NEW t \in Thread, Replaced(t), Beside(t)
    PROVE  Inv'
<1> USE Constants DEF Inv, Replaced, Goto
<1>1. TypeOK'
  BY DEF TypeOK, Beside, Forget, Point, Life, Dropped, Gone
<1>2. LockOwners'
  BY DEF LockOwners, TypeOK
<1>3. Pending'
  BY DEF Pending
<1>4. RefOfKey'
  BY DEF RefOfKey, ReplacedAlone, SharedBeyond, TypeOK
<1>5. FreeIsGone'
  BY DEF FreeIsGone, Opened, Dropped, Gone, TypeOK
<1>6. ReferencesExact'
  BY DEF ReferencesExact, TypeOK, LockOwners, Pending, FreeIsGone, Referenced,
         ReplacedAlone, SharedBeyond
<1>7. GrabStarted'
  BY DEF GrabStarted, Started, Pending, TypeOK, ReplacedAlone, SharedBeyond
<1>8. PrivateUntilAdded'
  BY DEF PrivateUntilAdded, TypeOK, Unpublished, Started, LockOwners, Pending,
         ReplacedAlone, SharedBeyond, Gone
<1>9. PublishedStarted'
  BY DEF PublishedStarted, TypeOK, RefOfKey, PrivateUntilAdded, Started,
         Unpublished, LockOwners, Pending, ReplacedAlone, SharedBeyond
<1>10. ImageOfRequestedCamera'
  BY DEF ImageOfRequestedCamera, Mixed, Pending, TypeOK, ReplacedAlone, SharedBeyond
<1>11. ReplacedAlone'
  BY DEF ReplacedAlone, LockOwners, TypeOK
<1>12. QED
  BY <1>1, <1>2, <1>3, <1>4, <1>5, <1>6, <1>7, <1>8, <1>9, <1>10, <1>11

LEMMA TakeShutKeeps ==
    ASSUME Inv, NEW t \in Thread, TakeShut(t), Beside(t)
    PROVE  Inv'
<1> USE Constants DEF Inv, TakeShut, Goto
<1>1. TypeOK'
  BY DEF TypeOK, Beside, Forget
<1>2. LockOwners'
  BY DEF LockOwners
<1>3. Pending'
  BY DEF Pending
<1>4. RefOfKey'
  BY DEF RefOfKey
<1>5. FreeIsGone'
  BY DEF FreeIsGone, Opened
<1>6. ReferencesExact'
  BY DEF ReferencesExact, Referenced
<1>7. GrabStarted'
  BY DEF GrabStarted, Started
<1>8. PrivateUntilAdded'
  BY DEF PrivateUntilAdded, Unpublished, Started
<1>9. PublishedStarted'
  BY DEF PublishedStarted
<1>10. ImageOfRequestedCamera'
  BY DEF ImageOfRequestedCamera, Mixed
<1>11. ReplacedAlone'
  BY DEF ReplacedAlone, SharedBeyond
<1>12. QED
  BY <1>1, <1>2, <1>3, <1>4, <1>5, <1>6, <1>7, <1>8, <1>9, <1>10, <1>11

LEMMA TakeDisconnectedKeeps ==
    ASSUME Inv, NEW t \in Thread, TakeDisconnected(t), Beside(t)
    PROVE  Inv'
<1> USE Constants DEF Inv, TakeDisconnected, Goto
<1>1. TypeOK'
  BY DEF TypeOK, Beside, Forget, Point
<1>2. LockOwners'
  BY DEF LockOwners, TypeOK
<1>3. Pending'
  BY DEF Pending
<1>4. RefOfKey'
  BY DEF RefOfKey
<1>5. FreeIsGone'
  BY DEF FreeIsGone, Opened
<1>6. ReferencesExact'
  BY DEF ReferencesExact, Referenced
<1>7. GrabStarted'
  BY DEF GrabStarted, TypeOK, Pending, Started
<1>8. PrivateUntilAdded'
  BY DEF PrivateUntilAdded, Unpublished, Started
<1>9. PublishedStarted'
  BY DEF PublishedStarted
<1>10. ImageOfRequestedCamera'
  BY DEF ImageOfRequestedCamera, Mixed
<1>11. ReplacedAlone'
  BY DEF ReplacedAlone, SharedBeyond
<1>12. QED
  BY <1>1, <1>2, <1>3, <1>4, <1>5, <1>6, <1>7, <1>8, <1>9, <1>10, <1>11

LEMMA CloseKeeps ==
    ASSUME Inv, NEW t \in Thread, Close(t), Beside(t)
    PROVE  Inv'
<1> USE Constants DEF Inv, Close, Goto
<1>1. TypeOK'
  BY DEF TypeOK, Beside, Forget, Point, Life
<1>2. LockOwners'
  BY DEF LockOwners, TypeOK
<1>3. Pending'
  BY DEF Pending
<1>4. RefOfKey'
  BY DEF RefOfKey
<1>5. FreeIsGone'
  BY DEF FreeIsGone, Opened, Gone, Pending, TypeOK, GrabStarted, Started
<1>6. ReferencesExact'
  BY DEF ReferencesExact, Referenced, Gone
<1>7. GrabStarted'
  BY DEF GrabStarted, TypeOK, Started
<1>8. PrivateUntilAdded'
  BY DEF PrivateUntilAdded, Unpublished, Started
<1>9. PublishedStarted'
  BY DEF PublishedStarted
<1>10. ImageOfRequestedCamera'
  BY DEF ImageOfRequestedCamera, Mixed
<1>11. ReplacedAlone'
  BY DEF ReplacedAlone, SharedBeyond
<1>12. QED
  BY <1>1, <1>2, <1>3, <1>4, <1>5, <1>6, <1>7, <1>8, <1>9, <1>10, <1>11

LEMMA TakeConnectedKeeps ==
    ASSUME Inv, NEW t \in Thread, TakeConnected(t), Beside(t)
    PROVE  Inv'
<1> USE Constants DEF Inv, TakeConnected, Goto
<1>1. TypeOK'
  BY DEF TypeOK, Beside, Forget, Point
<1>2. LockOwners'
  BY DEF LockOwners, TypeOK
<1>3. Pending'
  BY DEF Pending
<1>4. RefOfKey'
  BY DEF RefOfKey
<1>5. FreeIsGone'
  BY DEF FreeIsGone, Opened
<1>6. ReferencesExact'
  BY DEF ReferencesExact, Referenced
<1>7. GrabStarted'
  BY DEF GrabStarted, TypeOK, Pending, Started
<1>8. PrivateUntilAdded'
  BY DEF PrivateUntilAdded, Unpublished, Started
<1>9. PublishedStarted'
  BY DEF PublishedStarted
<1>10. ImageOfRequestedCamera'
  BY DEF ImageOfRequestedCamera, Mixed
<1>11. ReplacedAlone'
  BY DEF ReplacedAlone, SharedBeyond
<1>12. QED
  BY <1>1, <1>2, <1>3, <1>4, <1>5, <1>6, <1>7, <1>8, <1>9, <1>10, <1>11

LEMMA GrabImageKeeps ==
    ASSUME Inv, NEW t \in Thread, GrabImage(t), Beside(t)
    PROVE  Inv'
<1> USE Constants DEF Inv, GrabImage, Goto
<1>1. TypeOK'
  BY DEF TypeOK, Pending, Beside, Forget, Point
<1>2. LockOwners'
  BY DEF LockOwners, TypeOK
<1>3. Pending'
  BY DEF Pending
<1>4. RefOfKey'
  BY DEF RefOfKey
<1>5. FreeIsGone'
  BY DEF FreeIsGone, Opened
<1>6. ReferencesExact'
  BY DEF ReferencesExact, Referenced
<1>7. GrabStarted'
  BY DEF GrabStarted, TypeOK, Started
<1>8. PrivateUntilAdded'
  BY DEF PrivateUntilAdded, Unpublished, Started
<1>9. PublishedStarted'
  BY DEF PublishedStarted
<1>10. ImageOfRequestedCamera'
  BY DEF ImageOfRequestedCamera, Mixed, TypeOK, RefOfKey, Pending
<1>11. ReplacedAlone'
  BY DEF ReplacedAlone, SharedBeyond
<1>12. QED
  BY <1>1, <1>2, <1>3, <1>4, <1>5, <1>6, <1>7, <1>8, <1>9, <1>10, <1>11

LEMMA GrabUnconvertedKeeps ==
    ASSUME Inv, NEW t \in Thread, GrabUnconverted(t), Beside(t)
    PROVE  Inv'
<1> USE Constants DEF Inv, GrabUnconverted, Goto
<1>1. TypeOK'
  BY DEF TypeOK, Beside, Forget, Point
<1>2. LockOwners'
  BY DEF LockOwners, TypeOK
<1>3. Pending'
  BY DEF Pending
<1>4. RefOfKey'
  BY DEF RefOfKey
<1>5. FreeIsGone'
  BY DEF FreeIsGone, Opened
<1>6. ReferencesExact'
  BY DEF ReferencesExact, Referenced
<1>7. GrabStarted'
  BY DEF GrabStarted, TypeOK, Started
<1>8. PrivateUntilAdded'
  BY DEF PrivateUntilAdded, Unpublished, Started
<1>9. PublishedStarted'
  BY DEF PublishedStarted
<1>10. ImageOfRequestedCamera'
  BY DEF ImageOfRequestedCamera, Mixed
<1>11. ReplacedAlone'
  BY DEF ReplacedAlone, SharedBeyond
<1>12. QED
  BY <1>1, <1>2, <1>3, <1>4, <1>5, <1>6, <1>7, <1>8, <1>9, <1>10, <1>11

LEMMA GrabFillsKeeps ==
    ASSUME Inv, NEW t \in Thread, GrabFills(t), Beside(t)
    PROVE  Inv'
<1> USE Constants DEF Inv, GrabFills, Goto
<1>1. TypeOK'
  BY DEF TypeOK, Beside, Forget
<1>2. LockOwners'
  BY DEF LockOwners
<1>3. Pending'
  BY DEF Pending
<1>4. RefOfKey'
  BY DEF RefOfKey
<1>5. FreeIsGone'
  BY DEF FreeIsGone, Opened
<1>6. ReferencesExact'
  BY DEF ReferencesExact, Referenced
<1>7. GrabStarted'
  BY DEF GrabStarted, Started
<1>8. PrivateUntilAdded'
  BY DEF PrivateUntilAdded, Unpublished, Started
<1>9. PublishedStarted'
  BY DEF PublishedStarted
<1>10. ImageOfRequestedCamera'
  BY DEF ImageOfRequestedCamera, Mixed
<1>11. ReplacedAlone'
  BY DEF ReplacedAlone, SharedBeyond
<1>12. QED
  BY <1>1, <1>2, <1>3, <1>4, <1>5, <1>6, <1>7, <1>8, <1>9, <1>10, <1>11

LEMMA GrabErrorKeeps ==
    ASSUME Inv, NEW t \in Thread, GrabError(t), Beside(t)
    PROVE  Inv'
<1> USE Constants DEF Inv, GrabError, Goto
<1>1. TypeOK'
  BY DEF TypeOK, Beside, Forget, Point
<1>2. LockOwners'
  BY DEF LockOwners, TypeOK
<1>3. Pending'
  BY DEF Pending
<1>4. RefOfKey'
  BY DEF RefOfKey
<1>5. FreeIsGone'
  BY DEF FreeIsGone, Opened
<1>6. ReferencesExact'
  BY DEF ReferencesExact, Referenced
<1>7. GrabStarted'
  BY DEF GrabStarted, TypeOK, Started
<1>8. PrivateUntilAdded'
  BY DEF PrivateUntilAdded, Unpublished, Started
<1>9. PublishedStarted'
  BY DEF PublishedStarted
<1>10. ImageOfRequestedCamera'
  BY DEF ImageOfRequestedCamera, Mixed
<1>11. ReplacedAlone'
  BY DEF ReplacedAlone, SharedBeyond
<1>12. QED
  BY <1>1, <1>2, <1>3, <1>4, <1>5, <1>6, <1>7, <1>8, <1>9, <1>10, <1>11

LEMMA GrabNoDataKeeps ==
    ASSUME Inv, NEW t \in Thread, GrabNoData(t), Beside(t)
    PROVE  Inv'
<1> USE Constants DEF Inv, GrabNoData, Goto
<1>1. TypeOK'
  BY DEF TypeOK, Beside, Forget, Point
<1>2. LockOwners'
  BY DEF LockOwners, TypeOK
<1>3. Pending'
  BY DEF Pending
<1>4. RefOfKey'
  BY DEF RefOfKey
<1>5. FreeIsGone'
  BY DEF FreeIsGone, Opened
<1>6. ReferencesExact'
  BY DEF ReferencesExact, Referenced
<1>7. GrabStarted'
  BY DEF GrabStarted, TypeOK, Started
<1>8. PrivateUntilAdded'
  BY DEF PrivateUntilAdded, Unpublished, Started
<1>9. PublishedStarted'
  BY DEF PublishedStarted
<1>10. ImageOfRequestedCamera'
  BY DEF ImageOfRequestedCamera, Mixed
<1>11. ReplacedAlone'
  BY DEF ReplacedAlone, SharedBeyond
<1>12. QED
  BY <1>1, <1>2, <1>3, <1>4, <1>5, <1>6, <1>7, <1>8, <1>9, <1>10, <1>11

LEMMA ReleaseKeeps ==
    ASSUME Inv, NEW t \in Thread, Release(t), Beside(t)
    PROVE  Inv'
<1> USE Constants DEF Inv, Release, Goto
<1>1. TypeOK'
  BY DEF TypeOK, Beside, Forget, Point, Life, Dropped, Gone
<1>2. LockOwners'
  BY DEF LockOwners
<1>3. Pending'
  BY DEF Pending, TypeOK
<1>4. RefOfKey'
  BY DEF RefOfKey, TypeOK, Dropped, SharedBeyond
<1>5. FreeIsGone'
  BY DEF FreeIsGone, Opened, Dropped, Gone, TypeOK
<1>6. ReferencesExact'
  BY DEF ReferencesExact, TypeOK, Referenced, Dropped, SharedBeyond
<1>7. GrabStarted'
  BY DEF GrabStarted, Started, Dropped, SharedBeyond
<1>8. PrivateUntilAdded'
  BY DEF PrivateUntilAdded, TypeOK, Unpublished, Started, Dropped, Gone
<1>9. PublishedStarted'
  BY DEF PublishedStarted, Dropped, SharedBeyond
<1>10. ImageOfRequestedCamera'
  BY DEF ImageOfRequestedCamera, Mixed, Pending, TypeOK, Dropped, SharedBeyond
<1>11. ReplacedAlone'
  BY DEF ReplacedAlone, SharedBeyond, LockOwners, Pending, TypeOK, Dropped
<1>12. QED
  BY <1>1, <1>2, <1>3, <1>4, <1>5, <1>6, <1>7, <1>8, <1>9, <1>10, <1>11

\* The steps of requests that begin and of the environment.
LEMMA RequestKeeps ==
    ASSUME Inv, NEW t \in Thread, Request(t)
    PROVE  Inv'
<1> USE Constants DEF Inv
<1>1. ASSUME NEW n \in Name, GetImage(t, n), UNCHANGED overtaken
      PROVE  Inv'
  <2>1. n \in Name /\ Upper[n] \in Camera
    BY NamesAssumption, <1>1 DEF Camera
  <2> USE <1>1, <2>1 DEF GetImage, Goto
  <2>2. TypeOK'
    BY DEF Request, TypeOK, Point
  <2>3. LockOwners'
    BY DEF LockOwners, TypeOK
  <2>4. Pending' /\ RefOfKey'
    BY DEF Pending, RefOfKey, TypeOK
  <2>5. FreeIsGone' /\ ReferencesExact' /\ PublishedStarted'
    BY DEF FreeIsGone, Opened, ReferencesExact, Referenced, PublishedStarted
  <2>6. GrabStarted' /\ ImageOfRequestedCamera'
    BY DEF GrabStarted, Started, ImageOfRequestedCamera, Mixed, TypeOK
  <2>7. PrivateUntilAdded' /\ ReplacedAlone'
    BY DEF PrivateUntilAdded, Unpublished, Started, TypeOK, Pending, ReplacedAlone,
           SharedBeyond
  <2>8. QED
    BY <2>2, <2>3, <2>4, <2>5, <2>6, <2>7
<1>2. CASE GetCameraMetas(t)
  <2> USE <1>2 DEF GetCameraMetas
  <2>1. TypeOK'
    BY DEF TypeOK, Request
  <2>2. LockOwners' /\ Pending' /\ RefOfKey' /\ FreeIsGone'
    BY DEF LockOwners, Pending, RefOfKey, FreeIsGone, Opened
  <2>3. ReferencesExact' /\ PublishedStarted' /\ ImageOfRequestedCamera'
    BY DEF ReferencesExact, Referenced, PublishedStarted, ImageOfRequestedCamera, Mixed
  <2>4. GrabStarted' /\ PrivateUntilAdded' /\ ReplacedAlone'
    BY DEF GrabStarted, PrivateUntilAdded, Unpublished, Started, ReplacedAlone,
           SharedBeyond
  <2>5. QED
    BY <2>1, <2>2, <2>3, <2>4
<1>3. QED
  BY <1>1, <1>2 DEF Request

LEMMA UnchangedKeeps ==
    ASSUME Inv, UNCHANGED server, healthy' \in SUBSET Camera, lost' \in SUBSET Device
    PROVE  Inv'
<1> USE DEF Inv, server
<1>1. TypeOK'
  BY DEF TypeOK
<1>2. LockOwners' /\ Pending' /\ RefOfKey' /\ FreeIsGone'
  BY DEF LockOwners, Pending, RefOfKey, FreeIsGone, Opened
<1>3. ReferencesExact' /\ PublishedStarted' /\ ImageOfRequestedCamera'
  BY DEF ReferencesExact, Referenced, PublishedStarted, ImageOfRequestedCamera, Mixed
<1>4. GrabStarted' /\ PrivateUntilAdded' /\ ReplacedAlone'
  BY DEF GrabStarted, PrivateUntilAdded, Unpublished, Started, ReplacedAlone,
         SharedBeyond
<1>5. QED
  BY <1>1, <1>2, <1>3, <1>4

LEMMA EnvironmentKeeps ==
    ASSUME Inv, Environment
    PROVE  Inv'
<1>1. UNCHANGED server
  BY DEF Environment, Fail, Recover
<1>2. healthy' \in SUBSET Camera /\ lost' \in SUBSET Device
  BY DEF Environment, Fail, Recover, Handles, Inv, TypeOK
<1>3. QED
  BY <1>1, <1>2, UnchangedKeeps

-----------------------------------------------------------------------------
(* Inv is inductive *)

LEMMA InitInv == Init => Inv
<1> SUFFICES ASSUME Init PROVE Inv
  OBVIOUS
<1> USE Constants DEF Init, Inv
<1>1. TypeOK
  BY DEF TypeOK, Point, Life, Gone
<1>2. LockOwners /\ Pending /\ RefOfKey
  BY DEF LockOwners, Pending, RefOfKey
<1>3. FreeIsGone /\ ReferencesExact /\ PublishedStarted
  BY DEF FreeIsGone, Opened, ReferencesExact, Referenced, PublishedStarted, Gone
<1>4. GrabStarted /\ PrivateUntilAdded /\ ReplacedAlone /\ ImageOfRequestedCamera
  BY DEF GrabStarted, PrivateUntilAdded, Unpublished, Gone, ReplacedAlone,
         ImageOfRequestedCamera
<1>5. QED
  BY <1>1, <1>2, <1>3, <1>4

LEMMA NextInv == Inv /\ [Next]_vars => Inv'
<1> SUFFICES ASSUME Inv, [Next]_vars PROVE Inv'
  OBVIOUS
<1>1. ASSUME NEW t \in Thread, Handle(t)
      PROVE  Inv'
  <2> Beside(t)
    BY <1>1 DEF Handle, Beside
  <2>1. CASE FindAbsent(t)
    BY <2>1, FindAbsentKeeps
  <2>2. CASE FindPresent(t)
    BY <2>2, FindPresentKeeps
  <2>3. CASE FindShut(t)
    BY <2>3, FindShutKeeps
  <2>4. CASE FindOpen(t)
    BY <2>4, FindOpenKeeps
  <2>5. CASE FindInfo(t)
    BY <2>5, FindInfoKeeps
  <2>6. ASSUME NEW d \in Device, Start(t, d)
        PROVE  Inv'
    BY <2>6, StartKeeps
  <2>7. CASE Add(t)
    BY <2>7, AddKeeps
  <2>8. CASE AddClosing(t)
    BY <2>8, AddClosingKeeps
  <2>9. CASE Replaced(t)
    BY <2>9, ReplacedKeeps
  <2>10. CASE TakeShut(t)
    BY <2>10, TakeShutKeeps
  <2>11. CASE TakeDisconnected(t)
    BY <2>11, TakeDisconnectedKeeps
  <2>12. CASE TakeConnected(t)
    BY <2>12, TakeConnectedKeeps
  <2>13. CASE GrabImage(t)
    BY <2>13, GrabImageKeeps
  <2>14. CASE GrabUnconverted(t)
    BY <2>14, GrabUnconvertedKeeps
  <2>15. CASE GrabFills(t)
    BY <2>15, GrabFillsKeeps
  <2>16. CASE GrabError(t)
    BY <2>16, GrabErrorKeeps
  <2>17. CASE GrabNoData(t)
    BY <2>17, GrabNoDataKeeps
  <2>18. CASE Close(t)
    BY <2>18, CloseKeeps
  <2>19. CASE Release(t)
    BY <2>19, ReleaseKeeps
  <2>20. QED
    BY <1>1, <2>1, <2>2, <2>3, <2>4, <2>5, <2>6, <2>7, <2>8, <2>9, <2>10,
       <2>11, <2>12, <2>13, <2>14, <2>15, <2>16, <2>17, <2>18, <2>19 DEF Handle
<1>2. ASSUME NEW t \in Thread, Request(t)
      PROVE  Inv'
  BY <1>2, RequestKeeps
<1>3. CASE Environment
  BY <1>3, EnvironmentKeeps
<1>4. CASE UNCHANGED vars
  BY <1>4, UnchangedKeeps DEF vars, Inv, TypeOK
<1>5. QED
  BY <1>1, <1>2, <1>3, <1>4 DEF Next, Halted

\* Inv is an invariant of every behaviour.
THEOREM Invariance == Spec => []Inv
BY InitInv, NextInv, PTL DEF Spec

-----------------------------------------------------------------------------
(* What follows from it *)

\* Every variable of the provider keeps its type.
THEOREM TypeCorrect == Spec => []TypeOK
<1>1. Inv => TypeOK
  BY DEF Inv
<1>2. QED
  BY <1>1, Invariance, PTL

\* No CameraDevice is used after its destruction and none is leaked, with the
\* handle of its camera, however many threads create, erase and drop devices.
THEOREM NoDanglingNoLeak == Spec => []ReferencesExact
<1>1. Inv => ReferencesExact
  BY DEF Inv
<1>2. QED
  BY <1>1, Invariance, PTL

\* A camera is not closed under a thread that waits for its frame.
THEOREM NotClosedWhileGrabbing == Spec => []GrabStarted
<1>1. Inv => GrabStarted
  BY DEF Inv
<1>2. QED
  BY <1>1, Invariance, PTL

\* The map holds only devices that were started, each made for the key it is under.
THEOREM MapHoldsStarted == Spec => []PublishedStarted
<1>1. Inv => PublishedStarted
  BY DEF Inv
<1>2. QED
  BY <1>1, Invariance, PTL

\* A reply holds no other camera's frame, except from a device that was started on a
\* descriptor that an enumeration had rewritten.
THEOREM RightCamera == Spec => []ImageOfRequestedCamera
<1>1. Inv => ImageOfRequestedCamera
  BY DEF Inv
<1>2. QED
  BY <1>1, Invariance, PTL

\* Between requests a camera is open at most once, by the device in the map, also
\* where the SDK would allow any number of handles; any other handle on it is that of
\* a device that a rewritten descriptor led to it, filed under another key.
THEOREM OneHandleAtRest == Spec => []AtRestOneHandle
<1>1. Inv => AtRestOneHandle
  <2> SUFFICES ASSUME Inv,
                      \A t \in Thread : pc[t] = "idle",
                      NEW c \in Camera, NEW d \in Handles(c)
               PROVE  \/ cameras[c] = d
                      \/ Mixed(d) /\ \E k \in Camera : cameras[k] = d
    BY DEF AtRestOneHandle
  <2>1. d \in Device /\ dev[d] # Gone /\ dev[d].cam = c
    BY DEF Handles, Opened, Gone
  <2>2. \A t \in Thread : ref[t] # d
    BY <2>1, Constants DEF Inv, Pending
  <2>3. PICK m \in Camera : cameras[m] = d
    BY <2>1, <2>2 DEF Inv, ReferencesExact, Referenced
  <2>4. dev[d].key = m
    BY <2>1, <2>3, Constants DEF Inv, PublishedStarted
  <2>5. QED
    BY <2>1, <2>3, <2>4 DEF Mixed
<1>2. QED
  BY <1>1, Invariance, PTL

\* lock_cameras_list_ is held by nobody but the thread that looks at an entry in it, or
\* that closes the device of one it replaces: no path out of the map's methods keeps it.
ListOwner == listLock # NoThread => pc[listLock] \in {"isshut", "replace"}

LEMMA NextListOwner ==
    ASSUME Inv, ListOwner, [Next]_vars
    PROVE  ListOwner'
<1> USE Constants DEF Inv, TypeOK, ListOwner
<1>1. ASSUME NEW t \in Thread, FindPresent(t) \/ FindShut(t) \/ FindOpen(t)
      PROVE  ListOwner'
  BY <1>1 DEF FindPresent, FindShut, FindOpen, Goto
<1>2. ASSUME NEW t \in Thread, FindAbsent(t) \/ FindInfo(t)
      PROVE  ListOwner'
  BY <1>2 DEF FindAbsent, FindInfo, Goto
<1>3. ASSUME NEW t \in Thread, NEW d \in Device, Start(t, d)
      PROVE  ListOwner'
  BY <1>3 DEF Start, Goto
<1>4. ASSUME NEW t \in Thread,
             Add(t) \/ AddClosing(t) \/ Replaced(t) \/ TakeDisconnected(t) \/ TakeConnected(t)
      PROVE  ListOwner'
  BY <1>4 DEF Add, AddClosing, Replaced, TakeDisconnected, TakeConnected, Goto
<1>5. ASSUME NEW t \in Thread,
             \/ GrabImage(t) \/ GrabUnconverted(t) \/ GrabError(t) \/ GrabNoData(t)
             \/ Close(t) \/ Release(t)
      PROVE  ListOwner'
  BY <1>5 DEF GrabImage, GrabUnconverted, GrabError, GrabNoData, Close, Release, Goto
<1>6. ASSUME NEW t \in Thread, Request(t)
      PROVE  ListOwner'
  BY <1>6 DEF Request, GetImage, GetCameraMetas, Goto
<1>7. ASSUME NEW t \in Thread, TakeShut(t) \/ GrabFills(t)
      PROVE  ListOwner'
  BY <1>7 DEF TakeShut, GrabFills
<1>8. CASE Environment \/ UNCHANGED vars
  BY <1>8 DEF Environment, Fail, Recover, vars, server
<1>9. QED
  BY <1>1, <1>2, <1>3, <1>4, <1>5, <1>6, <1>7, <1>8 DEF Next, Handle, Halted

\* No number of threads, cameras and devices makes a circle of threads that wait for
\* each other's mutexes, or a chain of them with more than one device at its end.
THEOREM NoCircleOfWaiting == Spec => []WaitsForOneDevice
<1>1. Init => ListOwner
  BY DEF Init, ListOwner
<1>2. Inv /\ ListOwner /\ [Next]_vars => ListOwner'
  BY NextListOwner
<1>3. Inv /\ ListOwner => WaitsForOneDevice
  <2> SUFFICES ASSUME Inv, ListOwner,
                      NEW t \in Thread, NEW u \in Thread, BlockedBy(t, u),
                      pc[u] \notin {"grab", "close", "replace"}
               PROVE  /\ pc[u] = "isshut" /\ pc[t] \in {"find", "add"}
                      /\ \A v \in Thread : BlockedBy(u, v) => pc[v] \in {"grab", "close"}
    BY DEF WaitsForOneDevice
  <2> USE Constants DEF Inv, TypeOK
  <2>1. ASSUME NEW d \in Device, NEW v \in Thread, devLock[d] = v
        PROVE  pc[v] \in {"grab", "close"}
    BY <2>1 DEF LockOwners
  <2>2. ASSUME NEW v \in Thread, pc[v] = "isshut"
        PROVE  cameras[key[v]] \in Device
    BY <2>2 DEF LockOwners, Pending
  <2>3. ASSUME NEW v \in Thread, pc[v] = "take"
        PROVE  ref[v] \in Device
    BY <2>3 DEF Pending
  <2>4. pc[t] \in {"find", "add"} /\ listLock = u
    BY <2>1, <2>2, <2>3 DEF BlockedBy
  <2>5. pc[u] = "isshut"
    BY <2>4 DEF ListOwner
  <2>6. \A v \in Thread : BlockedBy(u, v) => pc[v] \in {"grab", "close"}
    BY <2>1, <2>2, <2>5 DEF BlockedBy
  <2>7. QED
    BY <2>4, <2>5, <2>6
<1>4. QED
  BY <1>1, <1>2, <1>3, Invariance, PTL DEF Spec

-----------------------------------------------------------------------------
(* Exclusive cameras *)

\* Only an open handle can have lost its camera; of two handles on an exclusive
\* camera, one has.
LostOpened == \A d \in lost : Opened(d)

OneWorkingHandle ==
    \A c \in Exclusive : \A d, e \in Handles(c) : d # e => d \in lost \/ e \in lost

ExclusiveInv == LostOpened /\ OneWorkingHandle

\* Only start opens a camera.
LEMMA OpenedBefore ==
    ASSUME Inv, NEW t \in Thread, Handle(t), \A d \in Device : ~Start(t, d),
           NEW e \in Device, Opened(e)'
    PROVE  Opened(e) /\ dev'[e].key = dev[e].key /\ dev'[e].cam = dev[e].cam
<1> USE Constants DEF Inv, Opened
<1>1. CASE FindShut(t) \/ Add(t) \/ Replaced(t) \/ Release(t)
  BY <1>1 DEF FindShut, Add, Replaced, Release, Dropped, Gone, TypeOK
<1>2. CASE Close(t)
  <2>1. ref[t] \in Device
    BY <1>2 DEF Close, Pending, TypeOK
  <2>2. QED
    BY <1>2, <2>1 DEF Close, TypeOK
<1>3. QED
  BY <1>1, <1>2
  DEF Handle, FindAbsent, FindPresent, FindOpen, FindInfo, AddClosing, TakeShut,
      TakeDisconnected, TakeConnected, GrabImage, GrabUnconverted, GrabFills, GrabError,
      GrabNoData

LEMMA NextExclusive ==
    ASSUME Inv, ExclusiveInv, [Next]_vars
    PROVE  ExclusiveInv'
<1> USE Constants DEF Inv, ExclusiveInv, LostOpened, OneWorkingHandle, Handles
<1>1. ASSUME NEW t \in Thread, Handle(t), \A d \in Device : ~Start(t, d)
      PROVE  ExclusiveInv'
  <2>1. lost' = {d \in lost : Opened(d)'} /\ lost \subseteq Device
    BY <1>1 DEF Handle, Forget, TypeOK
  <2>2. \A e \in Device : Opened(e)' => Opened(e) /\ dev'[e].cam = dev[e].cam
    BY <1>1, OpenedBefore
  <2>3. QED
    BY <2>1, <2>2
<1>2. ASSUME NEW t \in Thread, Handle(t), NEW d \in Device, Start(t, d)
      PROVE  ExclusiveInv'
  <2>1. lost' = {e \in lost : Opened(e)'} /\ lost \subseteq Device
    BY <1>2 DEF Handle, Forget, TypeOK
  <2>2. \A e \in Device \ {d} : dev'[e] = dev[e]
    BY <1>2 DEF Start, TypeOK
  <2>3. ASSUME Opened(d)'
        PROVE  MayOpen(dev'[d].cam)
    BY <1>2, <2>3 DEF Start, Opened, TypeOK
  <2>4. \A e \in Device \ {d} : Opened(e)' <=> Opened(e)
    BY <2>2 DEF Opened
  <2>5. ASSUME NEW c \in Exclusive, NEW e \in Handles(c)', NEW f \in Handles(c)', e # f
        PROVE  e \in lost' \/ f \in lost'
    <3>1. CASE e = d
      <4>1. f \in Handles(c)
        BY <2>2, <2>4, <2>5, <3>1
      <4>2. f \in lost
        BY <2>3, <2>5, <3>1, <4>1 DEF MayOpen
      <4>3. QED
        BY <2>1, <2>5, <4>2
    <3>2. CASE f = d
      <4>1. e \in Handles(c)
        BY <2>2, <2>4, <2>5, <3>2
      <4>2. e \in lost
        BY <2>3, <2>5, <3>2, <4>1 DEF MayOpen
      <4>3. QED
        BY <2>1, <2>5, <4>2
    <3>3. CASE e # d /\ f # d
      <4>1. e \in Handles(c) /\ f \in Handles(c)
        BY <2>2, <2>4, <2>5, <3>3
      <4>2. QED
        BY <2>1, <2>5, <4>1
    <3>4. QED
      BY <3>1, <3>2, <3>3
  <2>6. QED
    BY <2>1, <2>5
<1>3. ASSUME NEW t \in Thread, Request(t)
      PROVE  ExclusiveInv'
  BY <1>3 DEF Request, GetImage, GetCameraMetas, Opened
<1>4. CASE Environment
  BY <1>4 DEF Environment, Fail, Recover, server, Opened
<1>5. CASE UNCHANGED vars
  BY <1>5 DEF vars, server, Opened
<1>6. QED
  BY <1>1, <1>2, <1>3, <1>4, <1>5 DEF Next, Halted

\* An entry is replaced by Add or Replaced only, with a device that nobody else knows; if
\* the entry works, the new device does not, or it is on another camera.
LEMMA EntryKept ==
    ASSUME Inv, ExclusiveInv, [Next]_vars, NEW c \in Exclusive,
           cameras[c] \in Handles(c), Handles(c) \cap lost = {}
    PROVE  \/ cameras'[c] = cameras[c]
           \/ cameras'[c] # NoDevice /\ Mixed(cameras[c])'
<1> USE Constants DEF Inv
<1> c \in Camera
  BY ConstantsAssumption
<1>1. ASSUME NEW t \in Thread, FindShut(t)
      PROVE  cameras'[c] = cameras[c]
  BY <1>1 DEF FindShut, Handles, TypeOK
<1>2. ASSUME NEW t \in Thread, Add(t) \/ Replaced(t)
      PROVE  \/ cameras'[c] = cameras[c]
             \/ cameras'[c] # NoDevice /\ Mixed(cameras[c])'
  <2>1. CASE key[t] = c
    <3>1. /\ ref[t] \in Device /\ cameras[c] # ref[t] /\ Started(ref[t])
          /\ dev[ref[t]].key = c
      BY <1>2, <2>1 DEF Add, Replaced, Pending, TypeOK, PrivateUntilAdded, Unpublished,
                        RefOfKey
    <3>2. dev[ref[t]].cam # c
      <4>1. ASSUME ref[t] \in Handles(c)
            PROVE  FALSE
        BY <3>1, <4>1 DEF ExclusiveInv, OneWorkingHandle
      <4>2. QED
        BY <3>1, <4>1 DEF Handles, Opened, Started
    <3>3. cameras'[c] = ref[t] /\ dev'[ref[t]] = dev[ref[t]]
      BY <1>2, <2>1, <3>1 DEF Add, Replaced, TypeOK, Dropped
    <3>4. QED
      BY <3>1, <3>2, <3>3 DEF Mixed
  <2>2. CASE key[t] # c
    BY <1>2, <2>2 DEF Add, Replaced, TypeOK
  <2>3. QED
    BY <2>1, <2>2
<1>3. QED
  BY <1>1, <1>2
  DEF Next, Handle, Request, Environment, Fail, Recover, Halted, vars, server,
      GetImage, GetCameraMetas, FindAbsent, FindPresent, FindOpen, FindInfo, Start,
      AddClosing, TakeShut, TakeDisconnected, TakeConnected, GrabImage, GrabUnconverted,
      GrabFills, GrabError, GrabNoData, Close, Release

\* Of any number of threads that race to create an exclusive camera, none takes
\* the entry of a device that works out of the map, unless with a device that was
\* started on a rewritten descriptor.
THEOREM WorkingEntryIsKept == Spec => WorkingEntryStays
<1>1. Init => ExclusiveInv
  BY DEF Init, ExclusiveInv, LostOpened, OneWorkingHandle, Handles, Opened, Gone
<1>2. Inv /\ ExclusiveInv /\ [Next]_vars => ExclusiveInv'
  BY NextExclusive
<1>3. Inv /\ ExclusiveInv /\ [Next]_vars =>
          [\A c \in Exclusive :
               cameras[c] \in Handles(c) /\ Handles(c) \cap lost = {}
               => \/ cameras'[c] = cameras[c]
                  \/ cameras'[c] # NoDevice /\ Mixed(cameras[c])']_vars
  BY EntryKept
<1>4. QED
  BY <1>1, <1>2, <1>3, Invariance, PTL DEF Spec, WorkingEntryStays

=============================================================================
