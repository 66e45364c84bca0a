---------------------------- MODULE DeviceContract ----------------------------
(***************************************************************************)
(* What a CameraDevice promises the CameraServiceProvider that owns it,    *)
(* whatever the camera SDK answers: where its life can be when one of its  *)
(* locked methods returns. Module CameraProvider is written against this.  *)
(***************************************************************************)

VARIABLES
    life,       \* as in CameraProvider
    call,       \* the method that holds lock_
    image,      \* the last call put a frame into the caller's buffer
    aborted     \* an assertion failed

vars == <<life, call, image, aborted>>

Method == {"start", "take_picture", "destroy"}

Init ==
    /\ life = "free"
    /\ call = "none"
    /\ image = FALSE
    /\ aborted = FALSE

\* A method is entered. An object is started first, and once.
Begin(m) ==
    /\ call = "none" /\ ~aborted
    /\ (m = "start") <=> (life = "free")
    /\ call' = m
    /\ image' = FALSE
    /\ UNCHANGED <<life, aborted>>

\* take_picture insists on a camera that is open and grabbing.
Abort ==
    /\ call = "none" /\ ~aborted
    /\ life \in {"half", "shut"}
    /\ aborted' = TRUE
    /\ image' = FALSE
    /\ UNCHANGED <<life, call>>

\* An image that fills the caller's buffer fails an assertion, too.
AbortOnImage ==
    /\ call = "take_picture" /\ ~aborted
    /\ life = "live"
    /\ aborted' = TRUE
    /\ UNCHANGED <<life, call, image>>

\* A started device stops grabbing, to be closed in the same call.
Stop ==
    /\ call \in {"take_picture", "destroy"}
    /\ life \in {"live", "unsized"}
    /\ life' = "half"
    /\ UNCHANGED <<call, image, aborted>>

\* take_picture returns an error from a device that it has closed for good.
Close ==
    /\ call = "take_picture"
    /\ life = "half"
    /\ life' = "shut"
    /\ call' = "none"
    /\ UNCHANGED <<image, aborted>>

\* start is done: the device works, or its camera is still closed, or open but
\* not grabbing.
EndStart ==
    /\ call = "start"
    /\ life' \in {"live", "unsized", "half", "shut"}
    /\ call' = "none"
    /\ UNCHANGED <<image, aborted>>

\* take_picture returns from a device that is still started; only a live one
\* can have delivered a frame.
EndTake ==
    /\ call = "take_picture"
    /\ life \in {"live", "unsized"}
    /\ image' \in {FALSE, life = "live"}
    /\ call' = "none"
    /\ UNCHANGED <<life, aborted>>

\* The object is gone, and the SDK handle with it.
EndDestroy ==
    /\ call = "destroy"
    /\ life \in {"half", "shut"}
    /\ life' = "free"
    /\ call' = "none"
    /\ UNCHANGED <<image, aborted>>

Next ==
    \/ \E m \in Method : Begin(m)
    \/ Abort \/ AbortOnImage \/ Stop \/ Close
    \/ EndStart \/ EndTake \/ EndDestroy

Spec == Init /\ [][Next]_vars
===============================================================================
