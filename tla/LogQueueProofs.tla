----------------------------- MODULE LogQueueProofs -----------------------------
(***************************************************************************)
(* Proofs about LogQueue, for any number of threads and records and any    *)
(* size of the queue.                                                      *)
(***************************************************************************)
EXTENDS LogQueue, Integers, SequenceTheorems, TLAPS

-----------------------------------------------------------------------------
(* The ring *)

Indices == head \in 0..Slots /\ tail \in 0..Slots

LEMMA Wrap ==
    ASSUME NEW s \in Nat, NEW m \in Nat, m = s + 1, NEW h \in 0..s, NEW i \in 0..s
    PROVE  (h + i) % m = IF h + i <= s THEN h + i ELSE h + i - s - 1
OBVIOUS

\* Where the i-th message of the ring is, without the remainder.
LEMMA Place ==
    ASSUME NEW h \in 0..Slots, NEW i \in 0..Slots
    PROVE  (h + i) % Cells = IF h + i <= Slots THEN h + i ELSE h + i - Slots - 1
<1>1. Slots \in Nat /\ Cells \in Nat /\ Cells = Slots + 1
  BY QueueAssumption DEF Cells
<1>2. PICK m \in Nat, s \in Nat : m = Cells /\ s = Slots
  BY <1>1
<1>3. (h + i) % m = IF h + i <= s THEN h + i ELSE h + i - s - 1
  BY <1>1, <1>2, Wrap
<1>4. QED
  BY <1>2, <1>3

LEMMA CellsNat == Cells = Slots + 1 /\ Cells \in Nat \ {0}
BY QueueAssumption DEF Cells

LEMMA AfterInRing ==
    ASSUME NEW i \in 0..Slots
    PROVE  After(i) = (IF i = Slots THEN 0 ELSE i + 1) /\ After(i) \in 0..Slots
<1>1. (i + 1) % Cells = IF i + 1 <= Slots THEN i + 1 ELSE i + 1 - Slots - 1
  BY Place, QueueAssumption
<1>2. QED
  BY <1>1, QueueAssumption DEF After

LEMMA SizeBound ==
    ASSUME Indices
    PROVE  /\ Size \in 0..Slots
           /\ IsEmpty <=> Size = 0
           /\ IsFull <=> Size = Slots
BY AfterInRing, QueueAssumption DEF Indices, Size, Cells, IsEmpty, IsFull

\* push_back adds behind the last message and moves no other.
LEMMA PushBack ==
    ASSUME Indices, ~IsFull, NEW item, ring \in [0..Slots -> Items \cup {NoItem}],
           ring' = [ring EXCEPT ![tail] = item], tail' = After(tail), head' = head
    PROVE  /\ Indices' /\ Size' = Size + 1
           /\ \A i \in 0..Size : At(i)' = IF i = Size THEN item ELSE At(i)
<1>1. Size \in 0..(Slots - 1)
  BY SizeBound, QueueAssumption
<1>2. tail' = (IF tail = Slots THEN 0 ELSE tail + 1) /\ Indices'
  BY AfterInRing DEF Indices
<1>3. Size' = Size + 1
  BY <1>1, <1>2, QueueAssumption DEF Size, Cells, Indices
<1>4. (head + Size) % Cells = tail
  <2>1. (head + Size) % Cells =
            IF head + Size <= Slots THEN head + Size ELSE head + Size - Slots - 1
    BY <1>1, Place, QueueAssumption DEF Indices
  <2>2. QED
    BY <1>1, <2>1, CellsNat, QueueAssumption DEF Size, Indices
<1>5. ASSUME NEW i \in 0..(Size - 1)
      PROVE  (head + i) % Cells # tail /\ (head + i) % Cells \in 0..Slots
  <2>1. (head + i) % Cells = IF head + i <= Slots THEN head + i ELSE head + i - Slots - 1
    BY <1>1, Place, QueueAssumption DEF Indices
  <2>2. QED
    BY <1>1, <2>1, CellsNat, QueueAssumption DEF Size, Indices
<1>6. ASSUME NEW i \in 0..Size
      PROVE  At(i)' = IF i = Size THEN item ELSE At(i)
  <2>1. At(i)' = ring'[(head + i) % Cells]
    BY DEF At, Cells
  <2>2. CASE i = Size
    BY <1>4, <2>1, <2>2 DEF Indices
  <2>3. CASE i # Size
    <3>1. i \in 0..(Size - 1)
      BY <1>1, <2>3
    <3>2. QED
      BY <1>5, <2>1, <2>3, <3>1 DEF At
  <2>4. QED
    BY <2>2, <2>3
<1>7. QED
  BY <1>2, <1>3, <1>6

\* pop_front takes the first message away and moves no other.
LEMMA PopFront ==
    ASSUME Indices, ~IsEmpty, head' = After(head), UNCHANGED <<ring, tail>>
    PROVE  /\ Indices' /\ Size' = Size - 1
           /\ ring[head] = At(0)
           /\ \A i \in 0..(Size - 2) : At(i)' = At(i + 1)
<1>1. Size \in 1..Slots
  BY SizeBound, QueueAssumption
<1>2. head' = (IF head = Slots THEN 0 ELSE head + 1) /\ Indices'
  BY AfterInRing DEF Indices
<1>3. Size' = Size - 1
  BY <1>1, <1>2, QueueAssumption DEF Size, Cells, Indices
<1>4. (head + 0) % Cells = head
  BY Place, QueueAssumption DEF Indices
<1>5. ASSUME NEW i \in 0..(Size - 2)
      PROVE  (head' + i) % Cells = (head + (i + 1)) % Cells
  <2>1. i \in 0..Slots /\ i + 1 \in 0..Slots
    BY <1>1, QueueAssumption
  <2>2. (head' + i) % Cells = IF head' + i <= Slots THEN head' + i ELSE head' + i - Slots - 1
    BY <1>2, <2>1, Place DEF Indices
  <2>3. (head + (i + 1)) % Cells =
            IF head + (i + 1) <= Slots THEN head + (i + 1) ELSE head + (i + 1) - Slots - 1
    BY <2>1, Place DEF Indices
  <2>4. QED
    BY <1>2, <2>1, <2>2, <2>3, QueueAssumption DEF Indices
<1>6. QED
  BY <1>2, <1>3, <1>4, <1>5 DEF At, Cells

-----------------------------------------------------------------------------
(* The invariant *)

\* Every message of the ring is one, and so is what the worker has in hand.
Filled ==
    /\ \A i \in 0..(Size - 1) : At(i) \in Items
    /\ worker \in {"notify", "write"} => popped \in Items
    /\ worker = "write" => popped # Terminate

\* The program exits after the last call of every thread.
ExitAlone ==
    /\ \A p \in Producer : pc[p] \notin {"join", "joined"}
    /\ pc[Exit] # "idle" => \A p \in Producer : pc[p] = "idle"

\* Terminate is under way only after Exit has put it into the ring, and nothing is
\* behind it.
TerminateLast ==
    /\ pc[Exit] \in {"idle", "enqueue", "blocked"} =>
          /\ worker # "done"
          /\ worker = "notify" => popped # Terminate
          /\ \A i \in 0..(Size - 1) : At(i) # Terminate
    /\ \A i \in 0..(Size - 1) : At(i) = Terminate => i = Size - 1
    /\ worker = "notify" /\ popped = Terminate => Size = 0

QueueInv ==
    /\ TypeOK
    /\ Filled
    /\ ExitAlone
    /\ TerminateLast
    /\ NobodyForgotten

LEMMA InitQueue == Init => QueueInv
<1> SUFFICES ASSUME Init PROVE QueueInv
  OBVIOUS
<1> USE QueueAssumption DEF Init
<1>1. TypeOK
  BY DEF TypeOK
<1>2. Size = 0
  BY DEF Size
<1>3. Filled /\ ExitAlone /\ TerminateLast /\ NobodyForgotten
  BY <1>2 DEF Filled, ExitAlone, TerminateLast, NobodyForgotten, IsEmpty, Threads
<1>4. QED
  BY <1>1, <1>3 DEF QueueInv

\* The steps that leave the ring alone.
LEMMA RingUntouched ==
    ASSUME UNCHANGED queue
    PROVE  Size' = Size /\ (\A i : At(i)' = At(i)) /\ IsEmpty' = IsEmpty /\ IsFull' = IsFull
BY DEF queue, Size, At, Cells, IsEmpty, IsFull, After

LEMMA CallerKeeps ==
    ASSUME QueueInv, UNCHANGED queue,
           \/ \E p \in Producer : Log(p)
           \/ BeginExit \/ Join
           \/ \E t \in Threads : NotifyWorker(t) \/ Spurious(t)
    PROVE  QueueInv'
<1> USE QueueAssumption, RingUntouched DEF QueueInv, Threads, Goto
<1>1. ASSUME NEW p \in Producer, Log(p)
      PROVE  QueueInv'
  <2> USE <1>1 DEF Log
  <2>1. TypeOK'
    BY DEF TypeOK, queue
  <2>2. Filled' /\ ExitAlone' /\ TerminateLast'
    BY DEF TypeOK, Filled, ExitAlone, TerminateLast
  <2>3. NobodyForgotten'
    BY DEF TypeOK, NobodyForgotten
  <2>4. QED
    BY <2>1, <2>2, <2>3
<1>2. CASE BeginExit
  <2> USE <1>2 DEF BeginExit
  <2>1. TypeOK'
    BY DEF TypeOK, queue
  <2>2. Filled' /\ ExitAlone' /\ TerminateLast'
    BY DEF TypeOK, Filled, ExitAlone, TerminateLast
  <2>3. NobodyForgotten'
    BY DEF TypeOK, NobodyForgotten
  <2>4. QED
    BY <2>1, <2>2, <2>3
<1>3. CASE Join
  <2> USE <1>3 DEF Join
  <2>1. TypeOK'
    BY DEF TypeOK, queue
  <2>2. Filled' /\ ExitAlone' /\ TerminateLast'
    BY DEF TypeOK, Filled, ExitAlone, TerminateLast
  <2>3. NobodyForgotten'
    BY DEF TypeOK, NobodyForgotten
  <2>4. QED
    BY <2>1, <2>2, <2>3
<1>4. ASSUME NEW t \in Threads, NotifyWorker(t)
      PROVE  QueueInv'
  <2> USE <1>4 DEF NotifyWorker
  <2>1. TypeOK'
    BY DEF TypeOK, queue
  <2>2. Filled' /\ ExitAlone' /\ TerminateLast'
    BY DEF TypeOK, Filled, ExitAlone, TerminateLast
  <2>3. NobodyForgotten'
    BY DEF TypeOK, NobodyForgotten
  <2>4. QED
    BY <2>1, <2>2, <2>3
<1>5. ASSUME NEW t \in Threads, Spurious(t)
      PROVE  QueueInv'
  <2> USE <1>5 DEF Spurious
  <2>1. TypeOK'
    BY DEF TypeOK, queue
  <2>2. Filled' /\ ExitAlone' /\ TerminateLast'
    BY DEF TypeOK, Filled, ExitAlone, TerminateLast
  <2>3. NobodyForgotten'
    BY DEF TypeOK, NobodyForgotten
  <2>4. QED
    BY <2>1, <2>2, <2>3
<1>6. QED
  BY <1>1, <1>2, <1>3, <1>4, <1>5

LEMMA EnqueueKeeps ==
    ASSUME QueueInv, NEW t \in Threads, Enqueue(t)
    PROVE  QueueInv'
<1> USE QueueAssumption DEF QueueInv, Threads, Goto
<1>1. Item(t) \in Items /\ (Item(t) = Terminate <=> t = Exit)
  BY ItemAssumption DEF Item, Items, Records, TypeOK
<1>2. Indices
  BY DEF Indices, TypeOK
<1>3. CASE IsFull
  <2>1. UNCHANGED <<queue, made, worker, popped, written>> /\ pc' = [pc EXCEPT ![t] = "blocked"]
    BY <1>3 DEF Enqueue, queue
  <2>2. ~IsEmpty
    BY <1>2, <1>3, SizeBound
  <2>3. TypeOK'
    BY <2>1 DEF TypeOK, queue
  <2>4. Filled' /\ ExitAlone' /\ TerminateLast'
    BY <2>1, RingUntouched DEF Enqueue, TypeOK, Filled, ExitAlone, TerminateLast
  <2>5. NobodyForgotten'
    BY <2>1, <2>2, RingUntouched DEF Enqueue, TypeOK, NobodyForgotten
  <2>6. QED
    BY <2>3, <2>4, <2>5
<1>4. CASE ~IsFull
  <2>1. /\ UNCHANGED <<made, worker, popped, written, head>>
        /\ pc' = [pc EXCEPT ![t] = "notify"] /\ pc[t] = "enqueue"
        /\ ring' = [ring EXCEPT ![tail] = Item(t)] /\ tail' = After(tail)
    BY <1>4 DEF Enqueue
  <2>2. /\ Indices' /\ Size' = Size + 1
        /\ \A i \in 0..Size : At(i)' = IF i = Size THEN Item(t) ELSE At(i)
    BY <1>2, <1>4, <2>1, PushBack DEF TypeOK
  <2>3. Size \in 0..Slots /\ ~IsEmpty'
    <3>1. Size \in 0..Slots
      BY <1>2, SizeBound
    <3>2. tail' # head'
      BY <2>2, <3>1, CellsNat DEF Indices, Size
    <3>3. QED
      BY <3>1, <3>2 DEF IsEmpty
  <2>4. TypeOK'
    BY <1>1, <2>1, <2>2 DEF TypeOK, Indices
  <2>5. ASSUME NEW i \in 0..(Size' - 1)
        PROVE  i \in 0..Size /\ At(i)' = IF i = Size THEN Item(t) ELSE At(i)
    BY <2>2, <2>3
  <2>6. Filled'
    BY <1>1, <2>1, <2>3, <2>5 DEF Filled
  <2>7. ExitAlone'
    BY <2>1 DEF ExitAlone, TypeOK
  <2>8. pc[Exit] \in {"idle", "enqueue", "blocked"}
    BY <2>1 DEF ExitAlone, TypeOK
  <2>9. worker = "notify" => popped # Terminate
    BY <2>8 DEF TerminateLast
  <2>10. \A i \in 0..(Size - 1) : At(i) # Terminate
    BY <2>8 DEF TerminateLast
  <2>11. TerminateLast'
    <3>1. pc'[Exit] \in {"idle", "enqueue", "blocked"} => t # Exit
      BY <2>1 DEF TypeOK
    <3>2. \A i \in 0..(Size' - 1) : At(i)' = Terminate => i = Size /\ t = Exit
      BY <1>1, <2>3, <2>5, <2>10
    <3>3. QED
      BY <2>1, <2>2, <2>3, <2>8, <2>9, <3>1, <3>2 DEF TerminateLast
  <2>12. NobodyForgotten'
    BY <2>1, <2>3 DEF NobodyForgotten, TypeOK
  <2>13. QED
    BY <2>4, <2>6, <2>7, <2>11, <2>12
<1>5. QED
  BY <1>3, <1>4

LEMMA DequeueKeeps ==
    ASSUME QueueInv, Dequeue
    PROVE  QueueInv'
<1> USE QueueAssumption DEF QueueInv, Threads
<1>1. Indices
  BY DEF Indices, TypeOK
<1>2. CASE IsEmpty
  <2>1. UNCHANGED <<queue, pc, made, popped, written>> /\ worker' = "asleep"
    BY <1>2 DEF Dequeue, queue
  <2>2. TypeOK'
    BY <2>1 DEF TypeOK, queue
  <2>3. Filled' /\ ExitAlone' /\ TerminateLast' /\ NobodyForgotten'
    BY <1>2, <2>1, RingUntouched
    DEF Dequeue, Filled, ExitAlone, TerminateLast, NobodyForgotten
  <2>4. QED
    BY <2>2, <2>3
<1>3. CASE ~IsEmpty
  <2>1. /\ UNCHANGED <<ring, tail, pc, made, written>> /\ worker' = "notify"
        /\ popped' = ring[head] /\ head' = After(head) /\ worker = "dequeue"
    BY <1>3 DEF Dequeue
  <2>2. /\ Indices' /\ Size' = Size - 1 /\ popped' = At(0)
        /\ \A i \in 0..(Size - 2) : At(i)' = At(i + 1)
    BY <1>1, <1>3, <2>1, PopFront
  <2>3. Size \in 1..Slots
    BY <1>1, <1>3, SizeBound
  <2>4. popped' \in Items
    BY <2>2, <2>3 DEF Filled
  <2>5. TypeOK'
    BY <2>1, <2>2, <2>4 DEF TypeOK, Indices
  <2>6. \A i \in 0..(Size' - 1) : At(i)' = At(i + 1) /\ i + 1 \in 0..(Size - 1)
    BY <2>2, <2>3
  <2>7. Filled' /\ ExitAlone'
    BY <2>1, <2>4, <2>6 DEF Filled, ExitAlone
  <2>8. TerminateLast'
    <3>1. popped' = Terminate => Size = 1
      BY <2>2, <2>3 DEF TerminateLast
    <3>2. \A i \in 0..(Size' - 1) : At(i)' = Terminate => i = Size' - 1
      BY <2>2, <2>3, <2>6 DEF TerminateLast
    <3>3. pc[Exit] \in {"idle", "enqueue", "blocked"} =>
             popped' # Terminate /\ \A i \in 0..(Size' - 1) : At(i)' # Terminate
      BY <2>2, <2>3, <2>6 DEF TerminateLast
    <3>4. QED
      BY <2>1, <2>2, <2>3, <3>1, <3>2, <3>3 DEF TerminateLast
  <2>9. NobodyForgotten'
    BY <2>1 DEF NobodyForgotten
  <2>10. QED
    BY <2>5, <2>7, <2>8, <2>9
<1>4. QED
  BY <1>2, <1>3

LEMMA WorkerKeeps ==
    ASSUME QueueInv, NotifyProducer \/ Write \/ SpuriousWorker
    PROVE  QueueInv'
<1> USE QueueAssumption, RingUntouched DEF QueueInv, Threads, Goto
<1>1. CASE NotifyProducer
  <2> USE <1>1 DEF NotifyProducer
  <2>1. TypeOK'
    BY DEF TypeOK, queue
  <2>2. Filled' /\ ExitAlone' /\ TerminateLast'
    BY DEF TypeOK, Filled, ExitAlone, TerminateLast
  <2>3. NobodyForgotten'
    BY DEF TypeOK, NobodyForgotten
  <2>4. QED
    BY <2>1, <2>2, <2>3
<1>2. CASE Write
  <2> USE <1>2 DEF Write
  <2>1. popped \in Records
    BY DEF Filled, Items
  <2>2. TypeOK'
    BY <2>1 DEF TypeOK, queue
  <2>3. Filled' /\ ExitAlone' /\ TerminateLast' /\ NobodyForgotten'
    BY DEF Filled, ExitAlone, TerminateLast, NobodyForgotten
  <2>4. QED
    BY <2>2, <2>3
<1>3. CASE SpuriousWorker
  <2> USE <1>3 DEF SpuriousWorker
  <2>1. TypeOK'
    BY DEF TypeOK, queue
  <2>2. Filled' /\ ExitAlone' /\ TerminateLast' /\ NobodyForgotten'
    BY DEF Filled, ExitAlone, TerminateLast, NobodyForgotten
  <2>3. QED
    BY <2>1, <2>2
<1>4. QED
  BY <1>1, <1>2, <1>3

LEMMA NextQueue == QueueInv /\ [Next]_vars => QueueInv'
<1> SUFFICES ASSUME QueueInv, [Next]_vars PROVE QueueInv'
  OBVIOUS
<1>1. CASE \/ \E p \in Producer : Log(p)
           \/ BeginExit \/ Join
           \/ \E t \in Threads : NotifyWorker(t) \/ Spurious(t)
  <2>1. UNCHANGED queue
    BY <1>1 DEF Log, BeginExit, Join, NotifyWorker, Spurious
  <2>2. QED
    BY <1>1, <2>1, CallerKeeps
<1>2. ASSUME NEW t \in Threads, Enqueue(t)
      PROVE  QueueInv'
  BY <1>2, EnqueueKeeps
<1>3. CASE Dequeue
  BY <1>3, DequeueKeeps
<1>4. CASE NotifyProducer \/ Write \/ SpuriousWorker
  BY <1>4, WorkerKeeps
<1>5. CASE UNCHANGED vars
  <2>1. UNCHANGED <<queue, pc, made, worker, popped, written>>
    BY <1>5 DEF vars
  <2>2. TypeOK'
    BY <2>1 DEF QueueInv, TypeOK, queue
  <2>3. Filled' /\ ExitAlone' /\ TerminateLast' /\ NobodyForgotten'
    BY <2>1, RingUntouched
    DEF QueueInv, Filled, ExitAlone, TerminateLast, NobodyForgotten
  <2>4. QED
    BY <2>2, <2>3 DEF QueueInv
<1>6. QED
  BY <1>1, <1>2, <1>3, <1>4, <1>5 DEF Next, Call, WorkerStep, Ended

THEOREM QueueInvariance == Spec => []QueueInv
BY InitQueue, NextQueue, PTL DEF Spec

\* The types; the indices stay inside the ring.
THEOREM QueueTypeCorrect == Spec => []TypeOK
<1>1. QueueInv => TypeOK
  BY DEF QueueInv
<1>2. QED
  BY <1>1, QueueInvariance, PTL

\* However many threads wait for room, one that can go on was told so.
THEOREM NoLostWakeup == Spec => []NobodyForgotten
<1>1. QueueInv => NobodyForgotten
  BY DEF QueueInv
<1>2. QED
  BY <1>1, QueueInvariance, PTL

-----------------------------------------------------------------------------
(* The refinement *)

LEMMA ContentsShape ==
    ASSUME QueueInv
    PROVE  /\ Contents \in Seq(Items) /\ Len(Contents) = Size
           /\ \A i \in 1..Size : Contents[i] = At(i - 1)
<1>1. Size \in Nat
  BY SizeBound, QueueAssumption DEF QueueInv, TypeOK, Indices
<1>2. \A i \in 1..Size : At(i - 1) \in Items
  BY <1>1 DEF QueueInv, Filled
<1>3. QED
  BY <1>1, <1>2 DEF Contents

LEMMA WaitingShape ==
    ASSUME QueueInv
    PROVE  /\ Hand \in Seq(Items) /\ Waiting = Hand \o Contents
           /\ Waiting \in Seq(Items) /\ Len(Waiting) = Len(Hand) + Size
<1>1. Hand \in Seq(Items)
  BY DEF Hand, QueueInv, Filled
<1>2. QED
  BY <1>1, ContentsShape DEF Waiting, Hand

\* A message that is put into the ring comes to the end of what is waiting.
LEMMA EnqueueAppends ==
    ASSUME QueueInv, QueueInv', NEW item \in Items, ~IsFull, UNCHANGED <<worker, popped>>,
           ring' = [ring EXCEPT ![tail] = item], tail' = After(tail), head' = head
    PROVE  Waiting' = Append(Waiting, item)
<1>1. /\ Size \in Nat /\ Size' = Size + 1
      /\ \A i \in 0..Size : At(i)' = IF i = Size THEN item ELSE At(i)
  <2>1. Indices /\ ring \in [0..Slots -> Items \cup {NoItem}]
    BY DEF QueueInv, TypeOK, Indices
  <2>2. Size \in Nat
    BY <2>1, SizeBound, QueueAssumption
  <2>3. QED
    BY <2>1, <2>2, PushBack
<1>2. Contents' = [i \in 1..(Size + 1) |-> At(i - 1)']
  BY <1>1 DEF Contents
<1>3. Contents' = Append(Contents, item)
  <2>1. /\ Append(Contents, item) \in Seq(Items)
        /\ Len(Append(Contents, item)) = Size + 1
        /\ \A i \in 1..(Size + 1) : Append(Contents, item)[i] = At(i - 1)'
    BY <1>1, ContentsShape
  <2>2. Contents' \in Seq(Items) /\ Len(Contents') = Size + 1
    <3>1. \A i \in 1..(Size + 1) : At(i - 1)' \in Items
      BY <2>1, ElementOfSeq
    <3>2. QED
      BY <1>1, <1>2, <3>1
  <2>3. \A i \in 1..Len(Contents') : Contents'[i] = Append(Contents, item)[i]
    BY <1>2, <2>1, <2>2
  <2>4. QED
    BY <2>1, <2>2, <2>3, SeqEqual
<1>4. Waiting' = Hand \o Contents'
  BY DEF Waiting, Hand
<1>5. QED
  BY <1>3, <1>4, ContentsShape, WaitingShape

\* A message that the worker takes out stays the first of what is waiting.
LEMMA DequeueKeepsLine ==
    ASSUME QueueInv, QueueInv', Dequeue
    PROVE  Waiting' = Waiting
<1>1. Hand = <<>> /\ Waiting = Contents
  <2>1. Hand = <<>>
    BY DEF Dequeue, Hand
  <2>2. QED
    BY <2>1, ContentsShape, WaitingShape
<1>2. CASE IsEmpty
  <2>1. UNCHANGED <<ring, head, tail>> /\ worker' = "asleep"
    BY <1>2 DEF Dequeue
  <2>2. Contents' = Contents /\ Hand' = <<>>
    BY <2>1 DEF Contents, At, Size, Cells, Hand
  <2>3. Waiting' = Hand' \o Contents'
    BY DEF Waiting, Hand
  <2>4. QED
    BY <1>1, <2>2, <2>3, ContentsShape
<1>3. CASE ~IsEmpty
  <2>1. /\ UNCHANGED <<ring, tail>> /\ worker' = "notify"
        /\ popped' = ring[head] /\ head' = After(head)
    BY <1>3 DEF Dequeue
  <2>2. /\ Size \in Nat \ {0} /\ Size' = Size - 1 /\ popped' = At(0)
        /\ \A i \in 0..(Size - 2) : At(i)' = At(i + 1)
    BY <1>3, <2>1, PopFront, SizeBound, QueueAssumption DEF QueueInv, TypeOK, Indices
  <2>3. Contents' = [i \in 1..(Size - 1) |-> At(i - 1)']
    BY <2>2 DEF Contents
  <2>4. \A i \in 1..(Size - 1) : At(i - 1)' = Contents[i + 1]
    BY <2>2, ContentsShape
  <2>5. Contents' = Tail(Contents)
    <3>1. Contents \in Seq(Items) /\ Contents # <<>> /\ Len(Contents) = Size
      BY <2>2, ContentsShape
    <3>2. /\ Tail(Contents) \in Seq(Items) /\ Len(Tail(Contents)) = Size - 1
          /\ \A i \in 1..(Size - 1) : Tail(Contents)[i] = Contents[i + 1]
      BY <3>1, HeadTailProperties
    <3>3. Contents' \in Seq(Items) /\ Len(Contents') = Size - 1
      <4>1. \A i \in 1..(Size - 1) : At(i - 1)' \in Items
        BY <2>2, <2>4, <3>1
      <4>2. QED
        BY <2>2, <2>3, <4>1
    <3>4. \A i \in 1..Len(Contents') : Contents'[i] = Tail(Contents)[i]
      BY <2>3, <2>4, <3>2, <3>3
    <3>5. QED
      BY <3>2, <3>3, <3>4, SeqEqual
  <2>6. popped' = Head(Contents) /\ Contents # <<>>
    BY <2>2, ContentsShape
  <2>7. Waiting' = <<popped'>> \o Contents'
    BY <2>1 DEF Waiting, Hand
  <2>8. <<Head(Contents)>> \o Tail(Contents) = Contents
    BY <2>6, ContentsShape
  <2>9. QED
    BY <1>1, <2>5, <2>6, <2>7, <2>8
<1>4. QED
  BY <1>2, <1>3

\* A thread's step that leaves the ring and the worker's hand alone is none of the
\* stream.
LEMMA CallerStutters ==
    ASSUME QueueInv,
           \/ \E p \in Producer : Log(p)
           \/ BeginExit \/ Join \/ SpuriousWorker
           \/ \E t \in Threads : NotifyWorker(t) \/ Spurious(t) \/ (Enqueue(t) /\ IsFull)
    PROVE  UNCHANGED Stream!vars
<1>1. UNCHANGED <<queue, popped, written>> /\ Hand' = Hand /\ (worker = "done")' = (worker = "done")
  BY DEF Log, BeginExit, Join, SpuriousWorker, NotifyWorker, Spurious, Enqueue, Hand
<1>2. Waiting' = Waiting
  BY <1>1 DEF queue, Waiting, Contents, At, Size, Cells
<1>3. ASSUME NEW p \in Producer
      PROVE  Accepted'[p] = Accepted[p]
  <2> USE QueueAssumption DEF QueueInv, TypeOK, Threads, Goto, Accepted
  <2>1. ASSUME NEW q \in Producer, Log(q)
        PROVE  Accepted'[p] = Accepted[p]
    BY <2>1 DEF Log
  <2>2. CASE BeginExit \/ Join \/ SpuriousWorker
    BY <2>2 DEF BeginExit, Join, SpuriousWorker
  <2>3. ASSUME NEW t \in Threads, NotifyWorker(t) \/ Spurious(t)
        PROVE  Accepted'[p] = Accepted[p]
    BY <2>3 DEF NotifyWorker, Spurious
  <2>4. ASSUME NEW t \in Threads, Enqueue(t), IsFull
        PROVE  Accepted'[p] = Accepted[p]
    BY <2>4 DEF Enqueue
  <2>5. QED
    BY <2>1, <2>2, <2>3, <2>4
<1>4. Accepted' = Accepted
  BY <1>3 DEF Accepted
<1>5. QED
  BY <1>1, <1>2, <1>4 DEF Stream!vars

\* The step that puts a message into the ring accepts it.
LEMMA EnqueueAccepts ==
    ASSUME QueueInv, QueueInv', NEW t \in Threads, Enqueue(t), ~IsFull
    PROVE  (\E p \in Producer : Stream!Accept(p)) \/ Stream!Close
<1>1. /\ UNCHANGED <<made, worker, popped, written, head>>
      /\ pc' = [pc EXCEPT ![t] = "notify"] /\ pc[t] = "enqueue"
      /\ ring' = [ring EXCEPT ![tail] = Item(t)] /\ tail' = After(tail)
  BY DEF Enqueue, Goto
<1>2. Item(t) \in Items
  BY QueueAssumption DEF QueueInv, TypeOK, Item, Items, Records, Threads
<1>3. Waiting' = Append(Waiting, Item(t))
  BY <1>1, <1>2, EnqueueAppends
<1>4. Len(Waiting) <= Slots
  <2>1. Size \in 0..(Slots - 1)
    BY SizeBound, QueueAssumption DEF QueueInv, TypeOK, Indices
  <2>2. Len(Hand) \in 0..1
    BY DEF Hand
  <2>3. QED
    BY <2>1, <2>2, WaitingShape, QueueAssumption
<1>5. ~Stream!Closed
  <2>1. pc[Exit] \in {"idle", "enqueue", "blocked"}
    BY <1>1 DEF QueueInv, TypeOK, ExitAlone, Threads
  <2>2. /\ worker # "done"
        /\ worker \in {"notify", "write"} => popped # Terminate
        /\ \A i \in 0..(Size - 1) : At(i) # Terminate
    BY <2>1 DEF QueueInv, Filled, TerminateLast
  <2>3. \A i \in 1..Len(Contents) : Contents[i] # Terminate
    <3>1. Size \in Nat
      BY SizeBound, QueueAssumption DEF QueueInv, TypeOK, Indices
    <3>2. QED
      BY <2>2, <3>1, ContentsShape
  <2>4. Hand \in Seq(Items) /\ \A i \in 1..Len(Hand) : Hand[i] # Terminate
    BY <2>2, WaitingShape DEF Hand
  <2>5. \A i \in 1..Len(Waiting) : Waiting[i] # Terminate
    <3>1. Contents \in Seq(Items) /\ Waiting = Hand \o Contents
      BY ContentsShape, WaitingShape
    <3>2. /\ Len(Waiting) = Len(Hand) + Len(Contents)
          /\ \A i \in 1..(Len(Hand) + Len(Contents)) :
                Waiting[i] = IF i <= Len(Hand) THEN Hand[i] ELSE Contents[i - Len(Hand)]
      BY <2>4, <3>1, ConcatProperties
    <3>3. Len(Hand) \in Nat /\ Len(Contents) \in Nat
      BY <2>4, <3>1, LenProperties
    <3>4. QED
      BY <2>3, <2>4, <3>2, <3>3
  <2>6. DOMAIN Waiting = 1..Len(Waiting)
    BY WaitingShape
  <2>7. QED
    BY <2>2, <2>5, <2>6 DEF Stream!Closed
<1>6. CASE t = Exit
  <2>1. Accepted' = Accepted
    BY <1>1, <1>6, QueueAssumption DEF Accepted, QueueInv, TypeOK, Threads
  <2>2. Item(t) = Terminate
    BY <1>6 DEF Item
  <2>3. (worker = "done")' = (worker = "done")
    BY <1>1
  <2>4. QED
    BY <1>1, <1>3, <1>4, <1>5, <2>1, <2>2, <2>3 DEF Stream!Close, Stream!Room
<1>7. CASE t # Exit
  <2>1. t \in Producer /\ made[t] \in Nat
    BY <1>7 DEF Threads, QueueInv, TypeOK
  <2>2. Accepted[t] = made[t] - 1 /\ Item(t) = <<t, Accepted[t] + 1>>
    BY <1>1, <1>7, <2>1 DEF Accepted, Item
  <2>3. Accepted' = [Accepted EXCEPT ![t] = @ + 1]
    <3>1. ASSUME NEW p \in Producer
          PROVE  Accepted'[p] = [Accepted EXCEPT ![t] = @ + 1][p]
      BY <1>1, <2>1, <2>2 DEF Accepted, QueueInv, TypeOK, Threads
    <3>2. QED
      BY <3>1 DEF Accepted
  <2>4. (worker = "done")' = (worker = "done")
    BY <1>1
  <2>5. Stream!Accept(t)
    BY <1>1, <1>3, <1>4, <1>5, <2>2, <2>3, <2>4 DEF Stream!Accept, Stream!Room
  <2>6. QED
    BY <2>1, <2>5
<1>8. QED
  BY <1>6, <1>7

\* The notification of a thread that waits is no step of the stream, unless the
\* worker ends with it.
LEMMA WorkerEnds ==
    ASSUME QueueInv, NotifyProducer
    PROVE  Stream!End \/ UNCHANGED Stream!vars
<1>1. /\ worker = "notify" /\ UNCHANGED <<queue, made, popped, written>>
      /\ worker' = (IF popped = Terminate THEN "done" ELSE "write")
      /\ pc' = pc \/ \E t \in Threads : pc[t] = "blocked" /\ pc' = [pc EXCEPT ![t] = "enqueue"]
  BY DEF NotifyProducer, Goto
<1>2. Contents' = Contents
  BY <1>1 DEF queue, Contents, At, Size, Cells
<1>3. Accepted' = Accepted
  <2>1. CASE pc' = pc
    BY <1>1, <2>1 DEF Accepted
  <2>2. ASSUME NEW t \in Threads, pc[t] = "blocked", pc' = [pc EXCEPT ![t] = "enqueue"]
        PROVE  Accepted' = Accepted
    <3>1. ASSUME NEW p \in Producer
          PROVE  Accepted'[p] = Accepted[p]
      BY <1>1, <2>2 DEF Accepted, QueueInv, TypeOK, Threads
    <3>2. QED
      BY <3>1 DEF Accepted
  <2>3. QED
    BY <1>1, <2>1, <2>2
<1>4. Waiting = <<popped>> \o Contents /\ popped \in Items
  BY <1>1 DEF Waiting, Hand, QueueInv, Filled
<1>5. CASE popped # Terminate
  <2>1. worker' = "write" /\ (worker = "done")' = (worker = "done")
    BY <1>1, <1>5
  <2>2. Waiting' = Waiting
    BY <1>1, <1>2, <2>1 DEF Waiting, Hand
  <2>3. QED
    BY <1>1, <1>3, <2>1, <2>2 DEF Stream!vars
<1>6. CASE popped = Terminate
  <2>1. worker' = "done" /\ (worker = "done")' = TRUE
    BY <1>1, <1>6
  <2>2. Size = 0
    BY <1>1, <1>6 DEF QueueInv, TerminateLast
  <2>3. Contents = <<>>
    BY <2>2, ContentsShape, EmptySeq
  <2>4. Waiting = <<Terminate>>
    BY <1>4, <1>6, <2>3, ConcatEmptySeq
  <2>5. Waiting' = <<>>
    <3>1. Hand' = <<>>
      BY <2>1 DEF Hand
    <3>2. QED
      BY <1>2, <2>3, <3>1, EmptySeq, ConcatEmptySeq DEF Waiting
  <2>6. QED
    BY <1>1, <1>3, <2>1, <2>4, <2>5 DEF Stream!End
<1>7. QED
  BY <1>5, <1>6

\* What the worker writes is the first of what is waiting.
LEMMA WriteWrites ==
    ASSUME QueueInv, Write
    PROVE  Stream!Write
<1>1. /\ worker = "write" /\ worker' = "dequeue" /\ UNCHANGED <<queue, pc, made, popped>>
      /\ written' = Append(written, popped)
  BY DEF Write
<1>2. popped \in Items /\ popped # Terminate
  BY <1>1 DEF QueueInv, Filled
<1>3. Contents' = Contents /\ Accepted' = Accepted /\ Hand' = <<>> /\ Hand = <<popped>>
  BY <1>1 DEF queue, Contents, At, Size, Cells, Accepted, Hand
<1>4. Waiting = <<popped>> \o Contents /\ Contents \in Seq(Items)
  BY <1>3, ContentsShape DEF Waiting
<1>5. Waiting # <<>> /\ Head(Waiting) = popped /\ Tail(Waiting) = Contents
  BY <1>2, <1>4
<1>6. Waiting' = Contents
  BY <1>3, <1>4, ConcatEmptySeq DEF Waiting
<1>7. (worker = "done")' = (worker = "done")
  BY <1>1
<1>8. QED
  BY <1>1, <1>2, <1>3, <1>5, <1>6, <1>7 DEF Stream!Write

LEMMA StreamInit == Init => Stream!Init
<1> SUFFICES ASSUME Init PROVE Stream!Init
  OBVIOUS
<1>1. Size = 0 /\ Hand = <<>> /\ (worker = "done") = FALSE /\ written = <<>>
  BY DEF Init, Size, Hand
<1>2. QueueInv
  BY InitQueue
<1>3. Waiting = <<>>
  <2>1. Contents = <<>>
    BY <1>1, <1>2, ContentsShape, EmptySeq
  <2>2. QED
    BY <1>1, <2>1, EmptySeq, ConcatEmptySeq DEF Waiting
<1>4. Accepted = [p \in Producer |-> 0]
  <2>1. \A p \in Producer : Accepted[p] = 0
    BY DEF Init, Accepted, Threads
  <2>2. QED
    BY <2>1 DEF Accepted
<1>5. QED
  BY <1>1, <1>3, <1>4 DEF Stream!Init

LEMMA StreamNext == QueueInv /\ QueueInv' /\ [Next]_vars => [Stream!Next]_Stream!vars
<1> SUFFICES ASSUME QueueInv, QueueInv', [Next]_vars PROVE [Stream!Next]_Stream!vars
  OBVIOUS
<1>1. CASE \/ \E p \in Producer : Log(p)
           \/ BeginExit \/ Join \/ SpuriousWorker
           \/ \E t \in Threads : NotifyWorker(t) \/ Spurious(t) \/ (Enqueue(t) /\ IsFull)
  BY <1>1, CallerStutters
<1>2. ASSUME NEW t \in Threads, Enqueue(t), ~IsFull
      PROVE  Stream!Next
  BY <1>2, EnqueueAccepts DEF Stream!Next
<1>3. CASE Dequeue
  <2>1. Waiting' = Waiting
    BY <1>3, DequeueKeepsLine
  <2>2. Accepted' = Accepted /\ written' = written /\ (worker = "done")' = (worker = "done")
    BY <1>3 DEF Dequeue, Accepted
  <2>3. QED
    BY <2>1, <2>2 DEF Stream!vars
<1>4. CASE NotifyProducer
  BY <1>4, WorkerEnds DEF Stream!Next
<1>5. CASE Write
  BY <1>5, WriteWrites DEF Stream!Next
<1>6. CASE UNCHANGED vars
  <2>1. UNCHANGED <<queue, pc, made, worker, popped, written>>
    BY <1>6 DEF vars
  <2>2. UNCHANGED Stream!vars
    BY <2>1 DEF queue, Stream!vars, Accepted, Waiting, Hand, Contents, At, Size, Cells
  <2>3. QED
    BY <2>2
<1>7. QED
  BY <1>1, <1>2, <1>3, <1>4, <1>5, <1>6 DEF Next, Call, WorkerStep, Ended

\* The queue with its worker is the logger that LogStream describes: in order, none
\* lost, none twice, and never more than the queue and one record at stake.
THEOREM QueueKeepsPromise == Spec => Promise
<1>1. Init => Stream!Init
  BY StreamInit
<1>2. QueueInv /\ QueueInv' /\ [Next]_vars => [Stream!Next]_Stream!vars
  BY StreamNext
<1>3. QED
  BY <1>1, <1>2, QueueInvariance, PTL DEF Spec, Promise, Stream!Spec

=================================================================================
