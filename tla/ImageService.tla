----------------------------- MODULE ImageService -----------------------------
(***************************************************************************)
(* What a client may expect of GetImage, without devices, handles, maps    *)
(* and locks: a request for a camera is answered with a frame of it or     *)
(* with an empty body, and for an empty body, for a frame of another       *)
(* camera, or for the end of the process, there is an excuse. Module       *)
(* ProviderService shows that CameraProvider keeps to it.                  *)
(***************************************************************************)

CONSTANTS
    Thread,     \* requests that can be pending at a time
    Camera,
    Reliable,   \* the cameras that never fail
    Fitting,    \* the cameras whose images get into every reply
    NoCamera

VARIABLES
    asked,      \* asked[t]: the camera of the pending request t
    met,        \* met[t]: another request for that camera was pending meanwhile
    reply,      \* reply[t]: how t will be answered, once that is decided
    known,      \* the cameras that the last enumeration has left in the list
    confused,   \* the cameras that may be mistaken for another, or for which
                \* another may be mistaken
    aborted     \* the process is gone

vars == <<asked, met, reply, known, confused, aborted>>

Reply == {"pending", "image", "other", "empty"}

Init ==
    /\ asked = [t \in Thread |-> NoCamera]
    /\ met = [t \in Thread |-> FALSE]
    /\ reply = [t \in Thread |-> "pending"]
    /\ known \in SUBSET Camera
    /\ confused = {}
    /\ aborted = FALSE

Pending(t) == asked[t] # NoCamera /\ reply[t] = "pending"

\* A request for camera c; it meets the pending ones for the same camera.
Ask(t, c) ==
    /\ asked[t] = NoCamera
    /\ asked' = [asked EXCEPT ![t] = c]
    /\ met' = [u \in Thread |-> IF u = t THEN \E v \in Thread \ {t} : asked[v] = c
                                         ELSE met[u] \/ asked[u] = c]
    /\ UNCHANGED <<reply, known, confused, aborted>>

\* Where some camera is confused another one may become so; otherwise none.
Spreads ==
    /\ \E c \in Camera : confused' \subseteq confused \cup {c}
    /\ confused = {} => confused' = {}

Confuse ==
    /\ Spreads
    /\ UNCHANGED <<asked, met, reply, known, aborted>>

\* A camera that never fails, that was found and whose images fit owes a frame of its
\* own to a request that no other one for the same camera has met, unless it is confused.
Excused(t) ==
    met[t] \/ asked[t] \in confused \/ asked[t] \notin Reliable \cap Fitting \cap known

Answer(t, r) ==
    /\ Pending(t)
    /\ r = "empty" => Excused(t)
    /\ r = "other" => asked[t] \in confused
    /\ reply' = [reply EXCEPT ![t] = r]
    /\ Spreads
    /\ UNCHANGED <<asked, met, known, aborted>>

Return(t) ==
    /\ reply[t] # "pending"
    /\ asked' = [asked EXCEPT ![t] = NoCamera]
    /\ met' = [met EXCEPT ![t] = FALSE]
    /\ reply' = [reply EXCEPT ![t] = "pending"]
    /\ confused' \subseteq confused
    /\ UNCHANGED <<known, aborted>>

\* An enumeration under pending requests may confuse the cameras they ask for.
List ==
    /\ known' \in SUBSET Camera
    /\ \E T \in SUBSET {t \in Thread : Pending(t)} :
           confused' = confused \cup {asked[t] : t \in T}
    /\ UNCHANGED <<asked, met, reply, aborted>>

\* The server goes down only where requests meet on one camera, where a camera is
\* confused, or under a camera whose images are not sure to fit.
Abort(t) ==
    /\ Pending(t)
    /\ met[t] \/ asked[t] \in confused \/ asked[t] \notin Fitting
    /\ aborted' = TRUE
    /\ UNCHANGED <<asked, met, reply, known, confused>>

Next ==
    /\ ~aborted
    /\ \/ \E t \in Thread :
              \/ \E c \in Camera : Ask(t, c)
              \/ \E r \in {"image", "other", "empty"} : Answer(t, r)
              \/ Return(t)
              \/ Abort(t)
       \/ List
       \/ Confuse

Spec == Init /\ [][Next]_vars
===============================================================================
