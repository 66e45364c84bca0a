---------------------------- MODULE ProviderService ----------------------------
(***************************************************************************)
(* CameraProvider with a history variable, and the mapping under which it  *)
(* is an ImageService.                                                     *)
(***************************************************************************)
EXTENDS CameraProvider

VARIABLE met    \* met[t]: t's request was pending together with another one
                \* for its camera

HistoryVars == <<vars, met>>

HistoryInit == Init /\ met = [t \in Thread |-> FALSE]

HistoryNext ==
    /\ Next
    /\ met' = [t \in Thread |->
                  /\ key'[t] # NoCamera
                  /\ met[t] \/ \E u \in Thread \ {t} : key'[u] = key'[t]]

HistorySpec == HistoryInit /\ [][HistoryNext]_HistoryVars

\* A reply is decided when take_picture of the provider returns.
Decided(t) ==
    IF pc[t] # "release" THEN "pending"
    ELSE IF image[t] = NoCamera THEN "empty"
    ELSE IF image[t] = key[t] THEN "image" ELSE "other"

\* The cameras that are asked for with a rewritten descriptor in hand, and those of a
\* device that was started with one: its key, and the camera whose handle it has.
Confused ==
    {key[t] : t \in overtaken}
    \cup {c \in Camera : \E d \in Device : Mixed(d) /\ c \in {dev[d].key, dev[d].cam}}

Service == INSTANCE ImageService WITH
    Reliable <- Camera \ Faulty,
    Fitting  <- Camera \ Unfit,
    asked    <- key,
    reply    <- [t \in Thread |-> Decided(t)],
    known    <- listed,
    confused <- Confused,
    aborted  <- crashed

\* Whatever the other requests and cameras do, a request that is alone on a camera
\* that never fails, whose images fit and which the last enumeration has listed gets
\* a frame of it, unless a device was started, or is about to be, on a descriptor that
\* an enumeration has rewritten and that camera is one of the two confused; and
\* without one of these excuses the process is not aborted (comment above GetImage,
\* "input camera sn , return 1 frame , alive image"; the assertions of take_picture
\* and of set_data_size).
Promise == Service!Spec

================================================================================
