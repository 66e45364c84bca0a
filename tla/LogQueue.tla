-------------------------------- MODULE LogQueue --------------------------------
(***************************************************************************)
(* The asynchronous logger that init_logs of src/src/utils-logs.cpp makes  *)
(* with spdlog: the threads of the program put their records into a ring   *)
(* of a fixed size and wait while it is full (async_overflow_policy::      *)
(* block), one worker takes them out and gives them to the sinks, and the  *)
(* destructor of the pool, when the program exits, has the worker end      *)
(* behind the last record and joins it.                                    *)
(*                                                                         *)
(* queue_mutex_ is never held across a wait: what is done under it is one  *)
(* step. The notify_one after it is a step of its own, since the other     *)
(* side may come in between. An abort may stop the program at any state.   *)
(***************************************************************************)
EXTENDS Naturals, Sequences

CONSTANTS
    Producer,       \* the threads that log: main, the handlers, the watcher
    Exit,           \* the thread that runs the destructor of the pool
    Slots,          \* the size given to init_thread_pool (8192)
    MaxRecords,     \* bound on the records of each thread
    Terminate,      \* the message that ends the worker
    NoItem          \* a cell that was never used

Threads == Producer \cup {Exit}

ASSUME QueueAssumption ==
    /\ Exit \notin Producer
    /\ Slots \in Nat \ {0}
    /\ MaxRecords \in Nat

Records == Producer \X Nat
Items   == Records \cup {Terminate}

ASSUME ItemAssumption == Terminate \notin Records

VARIABLES
    ring,       \* v_ of circular_q
    head, tail, \* head_ and tail_
    pc,         \* pc[t]: where thread t is in its call of the logger
    made,       \* made[p]: the records of thread p so far
    worker,     \* where the worker is
    popped,     \* the message that the worker has taken out last
    written     \* the records given to the sinks

queue == <<ring, head, tail>>
vars  == <<queue, pc, made, worker, popped, written>>

\* One cell stays free, to tell a full ring from an empty one.
Cells  == Slots + 1
AfterFlat(i) == i + 1      \* a mutation
After(i) == (i + 1) % Cells
IsEmpty == tail = head
IsFullNever == FALSE        \* a mutation: no cell is reserved
IsFull  == After(tail) = head

\* What thread t puts into the queue.
Item(t) == IF t = Exit THEN Terminate ELSE <<t, made[t]>>

Goto(t, point) == pc' = [pc EXCEPT ![t] = point]

-----------------------------------------------------------------------------
(* Mutations of the operations below, for testing the properties. *)

\* dequeue does not notify.
NotifyProducerForgotten ==
    /\ worker = "notify"
    /\ UNCHANGED pc
    /\ worker' = IF popped = Terminate THEN "done" ELSE "write"
    /\ UNCHANGED <<queue, made, popped, written>>

\* enqueue does not notify.
EnqueueSilent(t) ==
    /\ pc[t] = "enqueue"
    /\ IF IsFull
       THEN Goto(t, "blocked") /\ UNCHANGED queue
       ELSE /\ ring' = [ring EXCEPT ![tail] = Item(t)]
            /\ tail' = After(tail)
            /\ Goto(t, IF t = Exit THEN "join" ELSE "idle")
            /\ UNCHANGED head
    /\ UNCHANGED <<made, worker, popped, written>>

-----------------------------------------------------------------------------
Init ==
    /\ ring = [i \in 0..Slots |-> NoItem]
    /\ head = 0 /\ tail = 0
    /\ pc = [t \in Threads |-> "idle"]
    /\ made = [p \in Producer |-> 0]
    /\ worker = "dequeue"
    /\ popped = NoItem
    /\ written = <<>>

\* A call of the logger whose level is enabled.
Log(p) ==
    /\ pc[p] = "idle" /\ pc[Exit] = "idle"
    /\ made[p] < MaxRecords
    /\ made' = [made EXCEPT ![p] = @ + 1]
    /\ Goto(p, "enqueue")
    /\ UNCHANGED <<queue, worker, popped, written>>

\* The program exits: the server is gone and with it every thread that logs.
BeginExit ==
    /\ \A t \in Threads : pc[t] = "idle"
    /\ Goto(Exit, "enqueue")
    /\ UNCHANGED <<queue, made, worker, popped, written>>

\* enqueue: wait while the ring is full, else push_back.
Enqueue(t) ==
    /\ pc[t] = "enqueue"
    /\ IF IsFull
       THEN Goto(t, "blocked") /\ UNCHANGED queue
       ELSE /\ ring' = [ring EXCEPT ![tail] = Item(t)]
            /\ tail' = After(tail)
            /\ Goto(t, "notify")
            /\ UNCHANGED head
    /\ UNCHANGED <<made, worker, popped, written>>

\* push_cv_.notify_one, for which only the worker can wait.
NotifyWorker(t) ==
    /\ pc[t] = "notify"
    /\ worker' = IF worker = "asleep" THEN "dequeue" ELSE worker
    /\ Goto(t, IF t = Exit THEN "join" ELSE "idle")
    /\ UNCHANGED <<queue, made, popped, written>>

\* ~thread_pool joins the worker.
Join ==
    /\ pc[Exit] = "join"
    /\ worker = "done"
    /\ Goto(Exit, "joined")
    /\ UNCHANGED <<queue, made, worker, popped, written>>

\* A wait may return without a notification.
Spurious(t) ==
    /\ pc[t] = "blocked"
    /\ Goto(t, "enqueue")
    /\ UNCHANGED <<queue, made, worker, popped, written>>

-----------------------------------------------------------------------------
\* dequeue: wait while the ring is empty, else take the front.
Dequeue ==
    /\ worker = "dequeue"
    /\ IF IsEmpty
       THEN worker' = "asleep" /\ UNCHANGED <<head, popped>>
       ELSE /\ popped' = ring[head]
            /\ head' = After(head)
            /\ worker' = "notify"
    /\ UNCHANGED <<ring, tail, pc, made, written>>

SpuriousWorker ==
    /\ worker = "asleep"
    /\ worker' = "dequeue"
    /\ UNCHANGED <<queue, pc, made, popped, written>>

\* pop_cv_.notify_one wakes one of the threads that wait, if any.
NotifyProducer ==
    /\ worker = "notify"
    /\ \/ \E t \in Threads : pc[t] = "blocked" /\ Goto(t, "enqueue")
       \/ (\A t \in Threads : pc[t] # "blocked") /\ UNCHANGED pc
    /\ worker' = IF popped = Terminate THEN "done" ELSE "write"
    /\ UNCHANGED <<queue, made, popped, written>>

\* backend_sink_it_; what a sink throws is caught there.
Write ==
    /\ worker = "write"
    /\ written' = Append(written, popped)
    /\ worker' = "dequeue"
    /\ UNCHANGED <<queue, pc, made, popped>>

WorkerStep == Dequeue \/ NotifyProducer \/ Write
Call(t)    == Enqueue(t) \/ NotifyWorker(t)
Ended      == pc[Exit] = "joined" /\ UNCHANGED vars

Next ==
    \/ \E p \in Producer : Log(p)
    \/ BeginExit \/ Join
    \/ \E t \in Threads : Call(t) \/ Spurious(t)
    \/ WorkerStep \/ SpuriousWorker
    \/ Ended

Spec == Init /\ [][Next]_vars

\* Threads that can run do; nobody relies on a wait that ends by itself.
FairSpec ==
    /\ Spec
    /\ WF_vars(WorkerStep)
    /\ WF_vars(Join)
    /\ \A t \in Threads : WF_vars(Call(t))

-----------------------------------------------------------------------------
\* The types of the variables; the indices stay inside the ring.
TypeOK ==
    /\ ring \in [0..Slots -> Items \cup {NoItem}]
    /\ head \in 0..Slots /\ tail \in 0..Slots
    /\ pc \in [Threads -> {"idle", "enqueue", "blocked", "notify", "join", "joined"}]
    /\ made \in [Producer -> 0..MaxRecords]
    /\ worker \in {"dequeue", "asleep", "notify", "write", "done"}
    /\ popped \in Items \cup {NoItem}
    /\ written \in Seq(Records)

\* size() and at(i) of circular_q.
Size  == IF tail >= head THEN tail - head ELSE Cells - (head - tail)
At(i) == ring[(head + i) % Cells]

Contents == [i \in 1..Size |-> At(i - 1)]

\* What the worker has in hand, then the ring from its front.
Hand    == IF worker \in {"notify", "write"} THEN <<popped>> ELSE <<>>
Waiting == Hand \o Contents

\* The records that have a place in the ring or had one.
Accepted ==
    [p \in Producer |-> IF pc[p] \in {"enqueue", "blocked"} THEN made[p] - 1 ELSE made[p]]

Stream == INSTANCE LogStream WITH
    Last  <- Terminate,
    count <- Accepted,
    line  <- Waiting,
    ended <- worker = "done"

\* The ring, the two condition variables and the worker are together a LogStream:
\* whatever the threads do at whichever moment, also where the ring is full or its
\* indices wrap, records keep their order, and none is lost, doubled or still there
\* when the worker ends.
Promise == Stream!Spec

\* No wakeup is lost. Where the worker sleeps and the ring is not empty, somebody is
\* about to notify it; where a thread waits for room, there is something the worker
\* has yet to take out, or it is about to notify, or another thread is awake.
NobodyForgotten ==
    /\ worker = "asleep" /\ ~IsEmpty => \E t \in Threads : pc[t] = "notify"
    /\ (\E t \in Threads : pc[t] = "blocked") =>
          ~IsEmpty \/ worker = "notify" \/ \E t \in Threads : pc[t] = "enqueue"

\* A handler that logs, perhaps with lock_ of its device held, gets on although the
\* queue is full, and the exit of the program waits for the worker but not for ever.
CallsReturn ==
    /\ \A p \in Producer : pc[p] # "idle" ~> pc[p] = "idle"
    /\ pc[Exit] # "idle" ~> pc[Exit] = "joined"

================================================================================
