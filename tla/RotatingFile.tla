------------------------------ MODULE RotatingFile ------------------------------
(***************************************************************************)
(* The log files: rotating_file_sink of spdlog as init_logs makes it (up   *)
(* to 20 old files), on a disk whose operations may fail, in a program     *)
(* that may crash at any moment and is started again.                      *)
(*                                                                         *)
(* The worker of LogQueue is the only thread that writes. File 0 is the    *)
(* one that is written, file i + 1 is older than file i. What fwrite took  *)
(* is in the buffer of stdio until that is full; nothing asks for a flush, *)
(* so its end reaches the disk only when the file is rotated or closed.    *)
(* A record that a crash tears counts as lost.                             *)
(***************************************************************************)
EXTENDS Naturals, Sequences

CONSTANTS
    MaxFiles,       \* max_files_ (20)
    MaxSize,        \* max_size_ (20 MiB)
    RecordSizes,    \* the sizes of formatted records
    MaxRecords,     \* bound on the records
    MaxFaults,      \* bound on failing operations and crashes
    NoFile

\* A record is its number and its size.
Records == (1..MaxRecords) \X RecordSizes

ASSUME FileAssumption ==
    /\ MaxFiles \in Nat \ {0} /\ MaxSize \in Nat \ {0}
    /\ RecordSizes \subseteq Nat \ {0}
    /\ MaxRecords \in Nat /\ MaxFaults \in Nat
    /\ NoFile \notin Seq(Records)

VARIABLES
    files,      \* files[i]: the records in file i, or NoFile
    buffer,     \* the records that only the buffer of stdio has
    open,       \* fd_ is not null
    current,    \* current_size_
    pc,         \* where sink_it_ is; "down" if the program does not run
    call,       \* the locals of sink_it_ and rotate_, while they run
    made,       \* the records so far
    faults,     \* failing operations and crashes so far
    trouble     \* their kinds

history == <<faults, trouble>>
vars == <<files, buffer, open, current, pc, call, made, history>>

Bytes(f) ==
    LET sum[k \in 0..Len(f)] == IF k = 0 THEN 0 ELSE sum[k - 1] + f[k][2]
    IN  sum[Len(f)]

Exists(i) == files[i] # NoFile

\* formatted.size(), new_size, and i of the loop in rotate_.
NoCall == [length |-> 0, new |-> 0, i |-> 0]

\* The record of the running call.
Record == <<made, call.length>>

Return == pc' = "idle" /\ call' = NoCall

Fault(kind) ==
    /\ faults < MaxFaults
    /\ faults' = faults + 1
    /\ trouble' = trouble \cup {kind}

-----------------------------------------------------------------------------
(* Mutations of the operations below, for testing the properties. *)

\* The size before the rotation goes on counting.
ReopenCounting ==
    /\ pc = "rotate" /\ call.i = 0
    /\ \/ /\ open' = TRUE
          /\ files' = [files EXCEPT ![0] = <<>>]
          /\ pc' = "store"
          /\ UNCHANGED <<call, history>>
       \/ /\ Fault("open")
          /\ files' \in {files, [files EXCEPT ![0] = <<>>]}
          /\ Return
          /\ UNCHANGED open
    /\ UNCHANGED <<buffer, current, made>>

\* The sink takes the file for empty when it opens it.
StartAtZero ==
    /\ pc = "down"
    /\ files' = IF Exists(0) THEN files ELSE [files EXCEPT ![0] = <<>>]
    /\ open' = TRUE
    /\ current' = 0
    /\ pc' = "idle"
    /\ UNCHANGED <<buffer, call, made, history>>

\* write does not ask whether the file is open.
StoreUnchecked ==
    /\ pc = "store"
    /\ \/ /\ buffer' = Append(buffer, Record)
          /\ current' = call.new
          /\ UNCHANGED history
       \/ /\ open /\ Fault("write")
          /\ buffer' \in {buffer, Append(buffer, Record)}
          /\ UNCHANGED current
    /\ Return
    /\ UNCHANGED <<files, open, made>>

\* A write that failed is tried once more.
StoreTwice ==
    /\ pc = "store"
    /\ \/ /\ buffer' = IF open THEN Append(buffer, Record) ELSE buffer
          /\ current' = call.new
          /\ UNCHANGED history
       \/ /\ open /\ Fault("write")
          /\ buffer' \in {Append(buffer, Record), buffer \o <<Record, Record>>}
          /\ current' = call.new
    /\ Return
    /\ UNCHANGED <<files, open, made>>

\* The target goes whether there is something to rename or not.
NextFileAlways ==
    /\ pc = "rotate" /\ call.i > 0
    /\ files' = [files EXCEPT ![call.i] = NoFile]
    /\ IF Exists(call.i - 1)
       THEN pc' = "rename" /\ UNCHANGED call
       ELSE call' = [call EXCEPT !.i = @ - 1] /\ UNCHANGED pc
    /\ UNCHANGED <<buffer, open, current, made, history>>

-----------------------------------------------------------------------------
Init ==
    /\ files = [i \in 0..MaxFiles |-> NoFile]
    /\ buffer = <<>> /\ open = FALSE /\ current = 0
    /\ pc = "down" /\ call = NoCall
    /\ made = 0
    /\ faults = 0 /\ trouble = {}

\* The constructor opens file 0 to append to it and asks for its size.
Start ==
    /\ pc = "down"
    /\ files' = IF Exists(0) THEN files ELSE [files EXCEPT ![0] = <<>>]
    /\ open' = TRUE
    /\ current' = Bytes(files'[0])
    /\ pc' = "idle"
    /\ UNCHANGED <<buffer, call, made, history>>

\* sink_it_ is called with a record of n bytes.
Sink(n) ==
    /\ pc = "idle"
    /\ made < MaxRecords
    /\ made' = made + 1
    /\ call' = [NoCall EXCEPT !.length = n, !.new = current + n]
    /\ pc' = IF current + n > MaxSize THEN "flush" ELSE "store"
    /\ UNCHANGED <<files, buffer, open, current, history>>

\* flush and size(), which throws where the file is not open; rotate_ closes the file.
Flush ==
    /\ pc = "flush"
    /\ \/ /\ ~open
          /\ Return
          /\ UNCHANGED <<files, buffer, open, history>>
       \/ /\ open
          /\ files' = [files EXCEPT ![0] = @ \o buffer]
          /\ buffer' = <<>>
          /\ IF files'[0] = <<>>
             THEN pc' = "store" /\ UNCHANGED <<open, call>>
             ELSE pc' = "rotate" /\ open' = FALSE /\ call' = [call EXCEPT !.i = MaxFiles]
          /\ UNCHANGED history
       \/ /\ open /\ Fault("flush")
          /\ Return
          /\ UNCHANGED <<files, buffer, open>>
    /\ UNCHANGED <<current, made>>

\* write, which does nothing where the file is not open. One that fails throws, and
\* may leave something of the record behind.
Store ==
    /\ pc = "store"
    /\ \/ /\ buffer' = IF open THEN Append(buffer, Record) ELSE buffer
          /\ current' = call.new
          /\ UNCHANGED history
       \/ /\ open /\ Fault("write")
          /\ buffer' \in {buffer, Append(buffer, Record)}
          /\ UNCHANGED current
    /\ Return
    /\ UNCHANGED <<files, open, made>>

-----------------------------------------------------------------------------
(* rotate_ *)

\* One round of the loop: what a file that is there will replace is removed.
NextFile ==
    /\ pc = "rotate" /\ call.i > 0
    /\ IF Exists(call.i - 1)
       THEN /\ files' = [files EXCEPT ![call.i] = NoFile]
            /\ pc' = "rename"
            /\ UNCHANGED call
       ELSE call' = [call EXCEPT !.i = @ - 1] /\ UNCHANGED <<files, pc>>
    /\ UNCHANGED <<buffer, open, current, made, history>>

\* rename; one that failed is tried once more.
Rename ==
    /\ pc = "rename"
    /\ \/ /\ files' = [files EXCEPT ![call.i] = files[call.i - 1], ![call.i - 1] = NoFile]
          /\ pc' = "rotate" /\ call' = [call EXCEPT !.i = @ - 1]
          /\ UNCHANGED history
       \/ /\ Fault("rename")
          /\ pc' = "truncate"
          /\ UNCHANGED <<files, call>>
    /\ UNCHANGED <<buffer, open, current, made>>

\* reopen at the end of rotate_; the new size is then that of the record.
Reopen ==
    /\ pc = "rotate" /\ call.i = 0
    /\ \/ /\ open' = TRUE
          /\ files' = [files EXCEPT ![0] = <<>>]
          /\ pc' = "store" /\ call' = [call EXCEPT !.new = call.length]
          /\ UNCHANGED history
       \/ /\ Fault("open")
          /\ files' \in {files, [files EXCEPT ![0] = <<>>]}
          /\ Return
          /\ UNCHANGED open
    /\ UNCHANGED <<buffer, current, made>>

\* reopen after a rename that failed, which also costs the record.
Truncate ==
    /\ pc = "truncate"
    /\ \/ /\ open' = TRUE
          /\ files' = [files EXCEPT ![0] = <<>>]
          /\ current' = 0
          /\ UNCHANGED history
       \/ /\ Fault("open")
          /\ files' \in {files, [files EXCEPT ![0] = <<>>]}
          /\ UNCHANGED <<open, current>>
    /\ Return
    /\ UNCHANGED <<buffer, made>>

-----------------------------------------------------------------------------
(* stdio, the end of the program and crashes *)

\* The buffer is full and a part of it is written.
Drain ==
    /\ buffer # <<>>
    /\ files' = [files EXCEPT ![0] = Append(@, Head(buffer))]
    /\ buffer' = Tail(buffer)
    /\ UNCHANGED <<open, current, pc, call, made, history>>

\* Nothing of the process is left.
Down == buffer' = <<>> /\ open' = FALSE /\ current' = 0 /\ pc' = "down" /\ call' = NoCall

\* The sink is destroyed: fclose, whose failure is ignored.
Close ==
    /\ pc = "idle"
    /\ \/ /\ files' = IF open THEN [files EXCEPT ![0] = @ \o buffer] ELSE files
          /\ UNCHANGED history
       \/ open /\ Fault("close") /\ UNCHANGED files
    /\ Down
    /\ UNCHANGED made

Crash ==
    /\ pc # "down"
    /\ Fault("crash")
    /\ Down
    /\ UNCHANGED <<files, made>>

Rotate == NextFile \/ Rename \/ Reopen \/ Truncate

Next ==
    \/ Start \/ Close \/ Crash
    \/ \E n \in RecordSizes : Sink(n)
    \/ Flush \/ Store \/ Drain
    \/ Rotate

Spec == Init /\ [][Next]_vars

-----------------------------------------------------------------------------
Content(i) == IF Exists(i) THEN files[i] ELSE <<>>

\* The records of each file, with those that are on the way to file 0.
Log == [i \in 0..MaxFiles |-> IF i = 0 THEN Content(0) \o buffer ELSE Content(i)]

KeptNumbers ==
    {n \in 1..MaxRecords : \E i \in 0..MaxFiles : \E p \in DOMAIN Log[i] : Log[i][p][1] = n}

\* The types; only a file that is open has something in its buffer.
TypeOK ==
    /\ files \in [0..MaxFiles -> Seq(Records) \cup {NoFile}]
    /\ buffer \in Seq(Records)
    /\ buffer # <<>> => open /\ Exists(0)
    /\ open \in BOOLEAN /\ current \in Nat
    /\ pc \in {"down", "idle", "flush", "store", "rotate", "rename", "truncate"}
    /\ call \in [length : Nat, new : Nat, i : 0..MaxFiles]
    /\ made \in 0..MaxRecords /\ faults \in 0..MaxFaults
    /\ trouble \subseteq {"open", "write", "flush", "rename", "close", "crash"}

\* Read from the highest file to file 0, the log is in order and has nothing twice,
\* also after a crash in the middle of a rotation and after renames that failed.
OldestFirst ==
    \A i, j \in 0..MaxFiles : \A p \in DOMAIN Log[i], q \in DOMAIN Log[j] :
        i > j \/ (i = j /\ p < q) => Log[i][p][1] < Log[j][q][1]

\* No file grows beyond its limit, unless it is one record that is longer ("truncate
\* the log file anyway to prevent it to grow beyond its limit!"): not by restarts,
\* nor by rotations that fail. A write that fails may leave more than is counted.
SizeBounded ==
    "write" \notin trouble =>
        \A i \in 0..MaxFiles : Bytes(Log[i]) <= MaxSize \/ Len(Log[i]) = 1

\* Where nothing has failed, an old file is full: the record that comes after it, in
\* the next file that has one or in the call that rotates, did not fit into it. So the
\* log goes back at least half of what its files may hold.
OldFilesFull ==
    trouble = {} =>
        \A i \in 1..MaxFiles : Exists(i) =>
            /\ \A j \in 0..(i - 1) :
                  Log[j] # <<>> /\ (\A k \in (j + 1)..(i - 1) : Log[k] = <<>>)
                      => Bytes(Log[i]) + Log[j][1][2] > MaxSize
            /\ (\A j \in 0..(i - 1) : Log[j] = <<>>)
                  => Bytes(Log[i]) + call.length > MaxSize

\* The log loses records at its ends only, never in the middle: the newest when
\* something fails or the program crashes, and the oldest when the last file makes
\* room for the one before it. Then all files are there, unless a crash or a failure
\* in the middle of a rotation has left a gap.
LosesOnlyEnds ==
    [][ LET gone == KeptNumbers \ KeptNumbers' IN
        gone # {} =>
           \/ /\ Exists(MaxFiles) /\ Exists(MaxFiles - 1)
              /\ trouble \cap {"rename", "crash"} = {} => \A i \in 0..MaxFiles : Exists(i)
              /\ \A n \in gone, m \in KeptNumbers' : n < m
           \/ /\ faults' # faults \/ pc = "truncate"
              /\ \A n \in gone, m \in KeptNumbers' : n > m
      ]_vars

================================================================================
