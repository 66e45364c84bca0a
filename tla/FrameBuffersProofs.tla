-------------------------- MODULE FrameBuffersProofs --------------------------
(***************************************************************************)
(* Proofs about FrameBuffers, for any number of threads and any sizes.     *)
(***************************************************************************)
EXTENDS FrameBuffers, TLAPS

\* lock_ is held from the preparation of cache_data_ to the encoded image.
Holder ==
    \A t \in Thread : pc[t] \in {"grab", "convert", "save"} <=> lock = t

\* cache_data_ keeps the frame of the thread that converts it.
Converting ==
    \A t \in Thread : pc[t] \in {"convert", "save"} => cache.frame = t

\* A request has an image only once it is about to answer, and its own.
Answered ==
    \A t \in Thread : data[t].len > 0 => pc[t] = "reply" /\ data[t].frame = t

BufferInv == TypeOK /\ Holder /\ Converting /\ Answered

LEMMA SizesAreNumbers ==
    Sizes \subseteq Nat /\ {0} \cup ImageSizes \subseteq Nat
BY SizesAssumption DEF Sizes

\* ensure_size keeps the invariant of a buffer, whether or not malloc fails, and
\* never keeps an image in a block that it replaced.
LEMMA EnsureSizeKeepsBuff ==
    ASSUME NEW b \in Buff, NEW n \in Sizes, NEW r \in EnsureSize(b, n)
    PROVE  r \in Buff /\ (r = b \/ r.len = 0)
<1>1. n \in Nat
  BY SizesAreNumbers
<1>2. Blank(n) \in Buff /\ Blank(n).len = 0
  BY <1>1 DEF Blank, Buff, Frame
<1>3. r = b \/ r = Blank(n)
  BY DEF EnsureSize
<1>4. QED
  BY <1>2, <1>3

LEMMA EmptyIsBuff == EmptyBuff \in Buff /\ EmptyBuff.len = 0
BY DEF EmptyBuff, Blank, Buff, Sizes, Frame

LEMMA LengthsAreNumbers ==
    ASSUME NEW b \in Buff
    PROVE  b.len \in Nat /\ b.size \in Nat
<1>1. b.len \in {0} \cup ImageSizes
  BY DEF Buff
<1>2. b.size \in Sizes
  BY DEF Buff
<1>3. QED
  BY <1>1, <1>2, SizesAreNumbers

LEMMA InitBuffers == Init => BufferInv
<1> SUFFICES ASSUME Init PROVE BufferInv
  OBVIOUS
<1>1. TypeOK
  BY EmptyIsBuff DEF Init, TypeOK
<1>2. Holder /\ Converting
  BY SizesAssumption DEF Init, Holder, Converting
<1>3. Answered
  BY EmptyIsBuff DEF Init, Answered
<1>4. QED
  BY <1>1, <1>2, <1>3 DEF BufferInv

LEMMA StepKeepsBuffers ==
    ASSUME BufferInv, NEW t \in Thread,
           \/ GetImage(t) \/ TakePicture(t) \/ TakeDisconnected(t) \/ TakeShut(t)
           \/ GrabFrame(t) \/ GrabFails(t)
           \/ Convert(t) \/ SaveImage(t) \/ SaveAborts(t) \/ SaveFails(t)
           \/ Reply(t)
    PROVE  BufferInv'
<1> USE SizesAssumption DEF BufferInv
<1>1. CASE GetImage(t)
  <2>1. PICK b \in EnsureSize(EmptyBuff, DefaultSize) : data' = [data EXCEPT ![t] = b]
    BY <1>1 DEF GetImage
  <2>2. b \in Buff /\ b.len = 0
    BY <2>1, EmptyIsBuff, EnsureSizeKeepsBuff DEF Sizes
  <2>3. TypeOK'
    BY <1>1, <2>1, <2>2 DEF GetImage, TypeOK
  <2>4. Holder' /\ Converting'
    BY <1>1 DEF GetImage, TypeOK, Holder, Converting
  <2>5. Answered'
    BY <1>1, <2>1, <2>2 DEF GetImage, TypeOK, Answered
  <2>6. QED
    BY <2>3, <2>4, <2>5
<1>2. CASE TakePicture(t)
  <2>1. cache' \in Buff
    BY <1>2, EnsureSizeKeepsBuff DEF TakePicture, TypeOK, Sizes
  <2>2. TypeOK'
    BY <1>2, <2>1 DEF TakePicture, TypeOK
  <2>3. Holder' /\ Converting'
    BY <1>2 DEF TakePicture, TypeOK, Holder, Converting
  <2>4. Answered'
    BY <1>2 DEF TakePicture, TypeOK, Answered
  <2>5. QED
    BY <2>2, <2>3, <2>4
<1>3. CASE TakeDisconnected(t) \/ TakeShut(t) \/ SaveAborts(t)
  <2>1. TypeOK'
    BY <1>3 DEF TakeDisconnected, TakeShut, SaveAborts, TypeOK
  <2>2. Holder' /\ Converting' /\ Answered'
    BY <1>3 DEF TakeDisconnected, TakeShut, SaveAborts, TypeOK, Holder, Converting, Answered
  <2>3. QED
    BY <2>1, <2>2
<1>4. CASE GrabFrame(t)
  <2>1. cache' \in Buff
    BY <1>4 DEF GrabFrame, TypeOK, Buff, Frame
  <2>2. TypeOK'
    BY <1>4, <2>1 DEF GrabFrame, TypeOK
  <2>3. Holder' /\ Converting' /\ Answered'
    BY <1>4 DEF GrabFrame, TypeOK, Buff, Holder, Converting, Answered
  <2>4. QED
    BY <2>2, <2>3
<1>5. CASE GrabFails(t) \/ SaveFails(t)
  <2>1. TypeOK'
    BY <1>5 DEF GrabFails, SaveFails, TypeOK
  <2>2. Holder' /\ Converting' /\ Answered'
    BY <1>5 DEF GrabFails, SaveFails, TypeOK, Holder, Converting, Answered
  <2>3. QED
    BY <2>1, <2>2
<1>6. CASE Convert(t)
  <2>1. PICK b \in EnsureSize(data[t], payload) : data' = [data EXCEPT ![t] = b]
    BY <1>6 DEF Convert
  <2>2. b \in Buff /\ (b = data[t] \/ b.len = 0)
    BY <2>1, EnsureSizeKeepsBuff DEF TypeOK, Sizes
  <2>3. b.len = 0
    BY <1>6, <2>2, LengthsAreNumbers DEF Convert, TypeOK, Answered
  <2>4. TypeOK'
    BY <1>6, <2>1, <2>2 DEF Convert, TypeOK
  <2>5. Holder' /\ Converting'
    BY <1>6 DEF Convert, TypeOK, Holder, Converting
  <2>6. Answered'
    BY <1>6, <2>1, <2>3 DEF Convert, TypeOK, Answered
  <2>7. QED
    BY <2>4, <2>5, <2>6
<1>7. CASE SaveImage(t)
  <2>1. PICK n \in ImageSizes :
            /\ n < data[t].size
            /\ data' = [data EXCEPT ![t] = Filled(data[t], n, cache.frame)]
    BY <1>7 DEF SaveImage
  <2>2. Filled(data[t], n, cache.frame) \in Buff
    <3>1. data[t].size \in Nat /\ n \in Nat
      BY SizesAreNumbers, LengthsAreNumbers DEF TypeOK
    <3>2. QED
      BY <2>1, <3>1 DEF Filled, TypeOK, Buff
  <2>3. TypeOK'
    BY <1>7, <2>1, <2>2 DEF SaveImage, TypeOK
  <2>4. Holder' /\ Converting'
    BY <1>7 DEF SaveImage, TypeOK, Holder, Converting
  <2>5. Answered'
    BY <1>7, <2>1 DEF SaveImage, Filled, TypeOK, Converting, Answered
  <2>6. QED
    BY <2>3, <2>4, <2>5
<1>8. CASE Reply(t)
  <2>1. cache' \in Buff /\ (cache.frame # t => cache' = cache)
    BY <1>8 DEF Reply, TypeOK, Buff, Frame
  <2>2. TypeOK'
    BY <1>8, <2>1, EmptyIsBuff DEF Reply, TypeOK
  <2>3. Holder'
    BY <1>8 DEF Reply, TypeOK, Holder
  <2>4. Converting'
    BY <1>8, <2>1 DEF Reply, TypeOK, Converting
  <2>5. Answered'
    BY <1>8, EmptyIsBuff DEF Reply, TypeOK, Answered
  <2>6. QED
    BY <2>2, <2>3, <2>4, <2>5
<1>9. QED
  BY <1>1, <1>2, <1>3, <1>4, <1>5, <1>6, <1>7, <1>8

LEMMA NextBuffers == BufferInv /\ [Next]_vars => BufferInv'
<1> SUFFICES ASSUME BufferInv, [Next]_vars PROVE BufferInv'
  OBVIOUS
<1>1. CASE UNCHANGED vars
  BY <1>1 DEF vars, BufferInv, TypeOK, Holder, Converting, Answered
<1>2. CASE Next
  BY <1>1, <1>2, StepKeepsBuffers DEF Next
<1>3. QED
  BY <1>1, <1>2

THEOREM BufferInvariance == Spec => []BufferInv
BY InitBuffers, NextBuffers, PTL DEF Spec

\* The sizes of every buff_t are those of its block, whichever mallocs fail.
THEOREM BuffersKeepTheirInvariant == Spec => []TypeOK
<1>1. BufferInv => TypeOK
  BY DEF BufferInv
<1>2. QED
  BY <1>1, BufferInvariance, PTL

\* The image in a reply is of a frame that was taken for this very request.
THEOREM FreshFrameOnly == Spec => []OwnFreshFrame
<1>1. BufferInv => OwnFreshFrame
  BY DEF BufferInv, Answered, OwnFreshFrame
<1>2. QED
  BY <1>1, BufferInvariance, PTL

===============================================================================
