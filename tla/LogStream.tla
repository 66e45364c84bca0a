------------------------------- MODULE LogStream -------------------------------
(***************************************************************************)
(* What the program expects of its logger: the records reach the sinks in  *)
(* the order in which they were accepted, none is lost and none comes      *)
(* twice, and the logger ends only when the last one is written. So much   *)
(* may be under way at any time as a crash can cost: a full queue and the  *)
(* record that the logger works on.                                        *)
(***************************************************************************)
EXTENDS Naturals, Sequences

CONSTANTS
    Producer,   \* the threads that log
    Slots,      \* the records that may wait
    Last        \* what follows the last record

VARIABLES
    count,      \* count[p]: the records of p that were accepted
    line,       \* what was accepted and is not written yet
    written,    \* the records that the sinks got
    ended       \* the logger has ended

vars == <<count, line, written, ended>>

Room == Len(line) <= Slots

Closed == ended \/ \E i \in DOMAIN line : line[i] = Last

Init ==
    /\ count = [p \in Producer |-> 0]
    /\ line = <<>>
    /\ written = <<>>
    /\ ended = FALSE

\* The next record of thread p.
Accept(p) ==
    /\ Room /\ ~Closed
    /\ count' = [count EXCEPT ![p] = @ + 1]
    /\ line' = Append(line, <<p, count[p] + 1>>)
    /\ UNCHANGED <<written, ended>>

\* The program ends.
Close ==
    /\ Room /\ ~Closed
    /\ line' = Append(line, Last)
    /\ UNCHANGED <<count, written, ended>>

Write ==
    /\ line # <<>> /\ Head(line) # Last
    /\ written' = Append(written, Head(line))
    /\ line' = Tail(line)
    /\ UNCHANGED <<count, ended>>

End ==
    /\ line = <<Last>>
    /\ line' = <<>>
    /\ ended' = TRUE
    /\ UNCHANGED <<count, written>>

Next == (\E p \in Producer : Accept(p)) \/ Close \/ Write \/ End

Spec == Init /\ [][Next]_vars

================================================================================
