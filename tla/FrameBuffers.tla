----------------------------- MODULE FrameBuffers -----------------------------
(***************************************************************************)
(* The way of a frame through the buffers of one started CameraDevice. The *)
(* SDK writes it to cache_data_ of the device, SaveImage encodes it into   *)
(* the buff_t of the request (src/src/utils.cpp), and GetImage answers     *)
(* with that buffer. Every malloc may fail; nobody looks at the results of *)
(* ensure_size. cache_data_ lives as long as the device and is protected   *)
(* only by its lock_.                                                      *)
(***************************************************************************)
EXTENDS Naturals

CONSTANTS
    Thread,         \* worker threads
    DefaultSize,    \* DEFAULT_IMAGE_SIZE
    PayloadSizes,   \* what GetIntValue("PayloadSize") may answer
    ImageSizes,     \* lengths an encoded image may have
    NoThread

ASSUME SizesAssumption ==
    /\ DefaultSize \in Nat \ {0}
    /\ PayloadSizes \subseteq Nat \ {0}
    /\ ImageSizes \subseteq Nat \ {0}
    /\ NoThread \notin Thread

VARIABLES
    pc,         \* pc[t]: where the request of thread t is
    lock,       \* lock_ of the device: the thread that holds it
    payload,    \* default_buff_size_: 0 if PayloadSize was not read
    cache,      \* cache_data_
    data,       \* data[t]: the buff_t in GetImage of thread t
    open,       \* whether camera_ is open and grabbing
    aborted     \* the assertion that failed: of take_picture or set_data_size

vars == <<pc, lock, payload, cache, data, open, aborted>>

Sizes == {0, DefaultSize} \cup PayloadSizes

\* Whose frame a buffer holds: that of a thread's current request, an older one.
NoFrame  == "none"
OldFrame == "old"
Frame    == Thread \cup {NoFrame, OldFrame}

\* A buff_t: the length of the block behind buff_ (0: NULL), buff_max_size_,
\* data_size_t_ and the frame in the block.
\* The sizes handed to the SDK and to set_content are those of the real block.
Buff == {b \in [block : Sizes, size : Sizes, len : {0} \cup ImageSizes, frame : Frame] :
             b.size = b.block /\ b.len <= b.size}

\* A buff_t that was just given a block of n bytes, and one without a block.
Blank(n) == [block |-> n, size |-> n, len |-> 0, frame |-> NoFrame]

EmptyBuff == Blank(0)

\* The buff_t b once n bytes of an image of frame f are in it.
Filled(b, n, f) == [block |-> b.block, size |-> b.size, len |-> n, frame |-> f]

-----------------------------------------------------------------------------
(* Mutations, for testing the properties. *)

\* ensure_size frees the old block and notes the new size before malloc fails.
EnsureSizeEarly(b, n) ==
    IF n = 0 \/ n <= b.size
    THEN {b}
    ELSE {[EmptyBuff EXCEPT !.size = n], Blank(n)}

\* The lock is released before the frame is converted.
GrabFrameUnlocks(t) ==
    /\ pc[t] = "grab"
    /\ cache.size >= payload /\ payload > 0
    /\ cache' = [cache EXCEPT !.frame = t]
    /\ lock' = NoThread
    /\ pc' = [pc EXCEPT ![t] = "convert"]
    /\ UNCHANGED <<payload, data, open, aborted>>

\* A frame that did not come is not an error: cache_data_ is converted.
GrabFailsConverts(t) ==
    /\ pc[t] = "grab"
    /\ pc' = [pc EXCEPT ![t] = "convert"]
    /\ UNCHANGED <<lock, payload, cache, data, open, aborted>>

-----------------------------------------------------------------------------
\* The outcomes of ensure_size(n): malloc may fail, which leaves b as it was; a
\* block that is replaced loses its contents.
EnsureSize(b, n) ==
    IF n = 0 \/ n <= b.size
    THEN {b}
    ELSE {b, Blank(n)}

Init ==
    /\ pc = [t \in Thread |-> "idle"]
    /\ lock = NoThread
    /\ payload \in {0} \cup PayloadSizes
    /\ cache = EmptyBuff
    /\ data = [t \in Thread |-> EmptyBuff]
    /\ open = TRUE
    /\ aborted = "no"

\* GetImage makes its buffer and asks for DEFAULT_IMAGE_SIZE; the lookup returns
\* the device if it is not shut.
GetImage(t) ==
    /\ pc[t] = "idle"
    /\ open
    /\ \E b \in EnsureSize(EmptyBuff, DefaultSize) : data' = [data EXCEPT ![t] = b]
    /\ pc' = [pc EXCEPT ![t] = "take"]
    /\ UNCHANGED <<lock, payload, cache, open, aborted>>

\* CameraDevice::take_picture locks the device, makes room for a frame and
\* waits for it.
TakePicture(t) ==
    /\ pc[t] = "take"
    /\ lock = NoThread
    /\ open
    /\ lock' = t
    /\ cache' \in EnsureSize(cache, payload)
    /\ pc' = [pc EXCEPT ![t] = "grab"]
    /\ UNCHANGED <<payload, data, open, aborted>>

\* The camera is not connected: the device is closed. The next lookup drops it,
\* but its assertions fail for a request that has it already.
TakeDisconnected(t) ==
    /\ pc[t] = "take"
    /\ lock = NoThread
    /\ open
    /\ open' = FALSE
    /\ pc' = [pc EXCEPT ![t] = "reply"]
    /\ UNCHANGED <<lock, payload, cache, data, aborted>>

TakeShut(t) ==
    /\ pc[t] = "take"
    /\ lock = NoThread
    /\ ~open
    /\ aborted' = "shut"
    /\ UNCHANGED <<pc, lock, payload, cache, data, open>>

\* GetOneFrameTimeout fills the buffer, which must have room for a frame ...
GrabFrame(t) ==
    /\ pc[t] = "grab"
    /\ cache.size >= payload /\ payload > 0
    /\ cache' = [cache EXCEPT !.frame = t]
    /\ pc' = [pc EXCEPT ![t] = "convert"]
    /\ UNCHANGED <<lock, payload, data, open, aborted>>

\* ... or reports an error, which take_picture returns; it closes the device
\* after MV_E_NODATA.
GrabFails(t) ==
    /\ pc[t] = "grab"
    /\ lock' = NoThread
    /\ open' \in BOOLEAN
    /\ pc' = [pc EXCEPT ![t] = "reply"]
    /\ UNCHANGED <<payload, cache, data, aborted>>

\* _to_jpg makes room for an image as large as a frame.
Convert(t) ==
    /\ pc[t] = "convert"
    /\ \E b \in EnsureSize(data[t], payload) : data' = [data EXCEPT ![t] = b]
    /\ pc' = [pc EXCEPT ![t] = "save"]
    /\ UNCHANGED <<lock, payload, cache, open, aborted>>

\* SaveImage encodes cache_data_ into at most nBufferSize bytes; set_data_size
\* asserts that the image leaves at least one byte free.
SaveImage(t) ==
    /\ pc[t] = "save"
    /\ \E n \in ImageSizes :
           /\ n < data[t].size
           /\ data' = [data EXCEPT ![t] = Filled(@, n, cache.frame)]
    /\ lock' = NoThread
    /\ pc' = [pc EXCEPT ![t] = "reply"]
    /\ UNCHANGED <<payload, cache, open, aborted>>

SaveAborts(t) ==
    /\ pc[t] = "save"
    /\ data[t].size \in ImageSizes
    /\ aborted' = "size"
    /\ UNCHANGED <<pc, lock, payload, cache, data, open>>

\* SaveImage fails, for want of room or otherwise.
SaveFails(t) ==
    /\ pc[t] = "save"
    /\ lock' = NoThread
    /\ pc' = [pc EXCEPT ![t] = "reply"]
    /\ UNCHANGED <<payload, cache, data, open, aborted>>

\* set_content copies the image, the buff_t is destroyed. What the request left
\* in cache_data_ is an old frame from now on.
Reply(t) ==
    /\ pc[t] = "reply"
    /\ data' = [data EXCEPT ![t] = EmptyBuff]
    /\ cache' = IF cache.frame = t THEN [cache EXCEPT !.frame = OldFrame] ELSE cache
    /\ pc' = [pc EXCEPT ![t] = "idle"]
    /\ UNCHANGED <<lock, payload, open, aborted>>

\* Nothing happens to a device that is shut and that no request has any more.
Over == aborted # "no" \/ (~open /\ \A t \in Thread : pc[t] = "idle")

Next ==
    \/ /\ aborted = "no"
       /\ \E t \in Thread :
              \/ GetImage(t) \/ TakePicture(t) \/ TakeDisconnected(t) \/ TakeShut(t)
              \/ GrabFrame(t) \/ GrabFails(t)
              \/ Convert(t) \/ SaveImage(t) \/ SaveAborts(t) \/ SaveFails(t)
              \/ Reply(t)
    \/ Over /\ UNCHANGED vars

Spec == Init /\ [][Next]_vars

-----------------------------------------------------------------------------
\* The types; every buff_t keeps the invariant of Buff, whichever mallocs failed.
TypeOK ==
    /\ pc \in [Thread -> {"idle", "take", "grab", "convert", "save", "reply"}]
    /\ lock \in Thread \cup {NoThread}
    /\ payload \in {0} \cup PayloadSizes
    /\ cache \in Buff
    /\ data \in [Thread -> Buff]
    /\ open \in BOOLEAN
    /\ aborted \in {"no", "shut", "size"}

\* The image in a reply is of a frame that was taken for this very request, not
\* of another request's and not of one left in cache_data_.
OwnFreshFrame ==
    \A t \in Thread : pc[t] = "reply" /\ data[t].len > 0 => data[t].frame = t

\* An image that fits into its buffer is answered: the assertion
\* size < buff_max_size_ of set_data_size never fails.
ImageFits == aborted # "size"

===============================================================================
