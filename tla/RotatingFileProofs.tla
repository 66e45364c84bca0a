--------------------------- MODULE RotatingFileProofs ---------------------------
(***************************************************************************)
(* Proofs about RotatingFile, for any number and size of old files, any    *)
(* records and any sequence of failures, crashes and restarts.             *)
(***************************************************************************)
EXTENDS RotatingFile, SequenceTheorems, WellFoundedInduction, TLAPS

-----------------------------------------------------------------------------
(* Induction over the naturals, without a predicate as a parameter: a set with 0 and *)
(* the successors of its members has them all. *)

\* A set of naturals has a least member, for < is well-founded.
LEMMA Least ==
    ASSUME NEW T, T \subseteq Nat, T # {}
    PROVE  \E m \in T : \A n \in T : m <= n
<1> DEFINE less == {ss \in Nat \X Nat : ss[1] < ss[2]}
<1>1. IsWellFoundedOn(less, Nat)
  BY NatLessThanWellFounded, Zenon DEF OpToRel
<1>2. \E m \in T : \A n \in T : <<n, m>> \notin less
  <2> HIDE DEF less
  <2>1. QED
    BY <1>1, WFMin
<1>3. PICK m \in T : \A n \in T : <<n, m>> \notin less
  BY <1>2
<1>4. ASSUME NEW n \in T, n < m
      PROVE  <<n, m>> \in less
  BY <1>4
<1>5. ASSUME NEW n \in T
      PROVE  m <= n
  <2> HIDE DEF less
  <2>1. ~(n < m)
    BY <1>3, <1>4, Zenon
  <2>2. m \in Nat /\ n \in Nat
    OBVIOUS
  <2>3. QED
    BY <2>1, <2>2
<1>6. QED
  BY <1>5

LEMMA Induction ==
    ASSUME NEW S, 0 \in S, \A n \in Nat : n \in S => n + 1 \in S
    PROVE  Nat \subseteq S
<1> SUFFICES ASSUME Nat \ S # {} PROVE FALSE
  OBVIOUS
<1>1. PICK m \in Nat \ S : \A n \in Nat \ S : m <= n
  BY Least
<1>2. m - 1 \in Nat /\ m - 1 \in S
  BY <1>1
<1>3. QED
  BY <1>1, <1>2

-----------------------------------------------------------------------------
(* The sizes of sequences of records *)

\* s has the partial sums of the sizes in f, up to n.
Sums(s, f, n) ==
    s = [k \in 0..n |-> IF k = 0 THEN 0 ELSE s[k - 1] + f[k][2]]

\* Bytes chooses such a function, so there must be one.
LEMMA SumsExist ==
    ASSUME NEW f
    PROVE  \A n \in Nat : \E s : Sums(s, f, n)
<1> DEFINE S == {n \in Nat : \E s : Sums(s, f, n)}
<1>1. 0 \in S
  <2>1. Sums([k \in 0..0 |-> 0], f, 0)
    BY DEF Sums
  <2>2. QED
    BY <2>1
<1>2. ASSUME NEW n \in Nat, n \in S
      PROVE  n + 1 \in S
  <2>1. PICK s : Sums(s, f, n)
    BY <1>2
  <2> DEFINE t == [k \in 0..(n + 1) |-> IF k = n + 1 THEN s[n] + f[n + 1][2] ELSE s[k]]
  <2>2. ASSUME NEW k \in 0..(n + 1)
        PROVE  t[k] = IF k = 0 THEN 0 ELSE t[k - 1] + f[k][2]
    BY <2>1 DEF Sums
  <2>3. Sums(t, f, n + 1)
    BY <2>2 DEF Sums
  <2>4. QED
    BY <2>3
<1> HIDE DEF S
<1>3. Nat \subseteq S
  BY <1>1, <1>2, Induction
<1>4. QED
  BY <1>3 DEF S

LEMMA BytesSum ==
    ASSUME NEW S, NEW f \in Seq(S)
    PROVE  \E s : Sums(s, f, Len(f)) /\ Bytes(f) = s[Len(f)]
<1> DEFINE s == CHOOSE s : Sums(s, f, Len(f))
<1>1. Len(f) \in Nat
  OBVIOUS
<1>2. Sums(s, f, Len(f))
  BY <1>1, SumsExist
<1>3. Bytes(f) = s[Len(f)]
  BY DEF Bytes, Sums
<1>4. QED
  BY <1>2, <1>3

\* The sums of a sequence are those of its extensions, as far as it goes.
LEMMA SumsAgree ==
    ASSUME NEW f, NEW g, NEW s, NEW t, NEW m \in Nat, NEW n \in Nat,
           Sums(s, f, m), Sums(t, g, n), m <= n,
           \A k \in 1..m : f[k] = g[k]
    PROVE  \A k \in 0..m : s[k] = t[k]
<1> DEFINE S == {k \in Nat : k <= m => s[k] = t[k]}
<1>1. 0 \in S
  BY DEF Sums
<1>2. ASSUME NEW k \in Nat, k \in S
      PROVE  k + 1 \in S
  BY <1>2 DEF Sums
<1> HIDE DEF S
<1>3. Nat \subseteq S
  BY <1>1, <1>2, Induction
<1>4. QED
  BY <1>3 DEF S

LEMMA SumsType ==
    ASSUME NEW f \in Seq(Records), NEW s, Sums(s, f, Len(f))
    PROVE  \A k \in 0..Len(f) : s[k] \in Nat
<1> DEFINE S == {k \in Nat : k <= Len(f) => s[k] \in Nat}
<1>1. 0 \in S
  BY DEF Sums
<1>2. ASSUME NEW k \in Nat, k \in S
      PROVE  k + 1 \in S
  <2>1. CASE k + 1 <= Len(f)
    <3>1. f[k + 1] \in Records
      BY <2>1
    <3>2. f[k + 1][2] \in Nat
      BY <3>1, FileAssumption DEF Records
    <3>3. s[k + 1] = s[k] + f[k + 1][2]
      BY <2>1 DEF Sums
    <3>4. QED
      BY <1>2, <2>1, <3>2, <3>3
  <2>2. QED
    BY <2>1
<1> HIDE DEF S
<1>3. Nat \subseteq S
  BY <1>1, <1>2, Induction
<1>4. QED
  BY <1>3 DEF S

LEMMA BytesType ==
    ASSUME NEW f \in Seq(Records)
    PROVE  Bytes(f) \in Nat
<1>1. PICK s : Sums(s, f, Len(f)) /\ Bytes(f) = s[Len(f)]
  BY BytesSum
<1>2. QED
  BY <1>1, SumsType

LEMMA BytesEmpty == Bytes(<<>>) = 0
<1>1. <<>> \in Seq(Records) /\ Len(<<>>) = 0
  OBVIOUS
<1>2. PICK s : Sums(s, <<>>, Len(<<>>)) /\ Bytes(<<>>) = s[Len(<<>>)]
  BY <1>1, BytesSum
<1>3. QED
  BY <1>1, <1>2 DEF Sums

LEMMA BytesAppend ==
    ASSUME NEW f \in Seq(Records), NEW r \in Records
    PROVE  Bytes(Append(f, r)) = Bytes(f) + r[2]
<1> DEFINE g == Append(f, r)
<1>1. /\ g \in Seq(Records) /\ Len(g) = Len(f) + 1
      /\ \A k \in 1..Len(f) : f[k] = g[k]
      /\ g[Len(f) + 1] = r
  BY AppendProperties
<1> HIDE DEF g
<1>2. PICK s : Sums(s, f, Len(f)) /\ Bytes(f) = s[Len(f)]
  BY BytesSum
<1>3. PICK t : Sums(t, g, Len(g)) /\ Bytes(g) = t[Len(g)]
  BY <1>1, BytesSum
<1>4. s[Len(f)] = t[Len(f)]
  BY <1>1, <1>2, <1>3, SumsAgree
<1>5. t[Len(g)] = t[Len(f)] + r[2]
  BY <1>1, <1>3 DEF Sums
<1>6. QED
  BY <1>2, <1>3, <1>4, <1>5 DEF g

-----------------------------------------------------------------------------
(* A log, as a function from the numbers of the files to sequences of records. *)

Logs == [0..MaxFiles -> Seq(Records)]

Ordered(l) ==
    \A i, j \in 0..MaxFiles : \A p \in DOMAIN l[i], q \in DOMAIN l[j] :
        i > j \/ (i = j /\ p < q) => l[i][p][1] < l[j][q][1]

Below(l, n) == \A i \in 0..MaxFiles : \A p \in DOMAIN l[i] : l[i][p][1] < n

\* f is the beginning of g.
Begins(f, g) == Len(f) <= Len(g) /\ \A p \in 1..Len(f) : f[p] = g[p]

-----------------------------------------------------------------------------
(* The invariant *)

\* The number of the next record to enter the log: that of the running call.
NextNumber == IF pc \in {"down", "idle"} THEN made + 1 ELSE made

NumbersBelow == Below(Log, NextNumber)

\* Where the call is: the file is open only where file 0 is there, and never during a
\* rotation, which is about to fill a place that is free, unless it is the last.
Shape ==
    /\ pc = "down" => ~open
    /\ open => Exists(0)
    /\ pc \in {"rotate", "rename", "truncate"} => ~open
    /\ pc = "rename" => call.i > 0 /\ Exists(call.i - 1) /\ ~Exists(call.i)
    /\ pc = "rotate" /\ call.i < MaxFiles => ~Exists(call.i)
    /\ pc \notin {"rotate", "rename", "truncate"} => call.i = 0
    /\ IF pc \in {"down", "idle"} THEN call = NoCall
       ELSE made > 0 /\ call.length \in RecordSizes
    /\ pc = "truncate" => "rename" \in trouble

\* What the sink counts is what the log has.
Counted ==
    "write" \notin trouble =>
        /\ open /\ pc \in {"idle", "flush"} => current = Bytes(Log[0])
        /\ pc = "flush" => call.new = current + call.length /\ call.new > MaxSize
        /\ pc = "store" /\ open =>
              /\ call.new = Bytes(Log[0]) + call.length
              /\ call.new <= MaxSize \/ Log[0] = <<>>

\* Only files with something in them are renamed.
NonEmpty ==
    /\ \A i \in 1..MaxFiles : Exists(i) => files[i] # <<>>
    /\ pc \in {"rotate", "rename"} /\ Exists(0) => files[0] # <<>>

\* Below a file that is there, a rotation leaves no gap but the place it works on.
OneGap ==
    trouble \cap {"rename", "crash"} = {} =>
        \A j, k \in 0..MaxFiles :
            j < k /\ Exists(k) => Exists(j) \/ (j = call.i /\ ~open)

\* Without trouble the file is open between the calls and is rotated only because the
\* record does not fit; the log is empty only where nothing was ever rotated.
NextDoesNotFit ==
    trouble = {} =>
        /\ pc \in {"idle", "flush", "store"} => open
        /\ pc \in {"rotate", "rename"} /\ Exists(0) => Bytes(Log[0]) + call.length > MaxSize
        /\ pc \in {"down", "idle", "flush"} /\ Log[0] = <<>> =>
              \A i \in 1..MaxFiles : ~Exists(i)

IInv ==
    /\ TypeOK /\ Shape
    /\ OldestFirst /\ NumbersBelow
    /\ SizeBounded /\ Counted
    /\ NonEmpty /\ OneGap /\ NextDoesNotFit /\ OldFilesFull

-----------------------------------------------------------------------------
(* The order of the records in a log. *)

\* Store: a record with the next number keeps the order.
LEMMA OrderedAppend ==
    ASSUME NEW l \in Logs, NEW r \in Records, Ordered(l), Below(l, r[1])
    PROVE  LET m == [l EXCEPT ![0] = Append(@, r)]
           IN  m \in Logs /\ Ordered(m) /\ Below(m, r[1] + 1)
<1> DEFINE m == [l EXCEPT ![0] = Append(@, r)]
           g == Append(l[0], r)
<1>0. 0 \in 0..MaxFiles /\ r[1] \in Nat
  BY FileAssumption DEF Records
<1>1. l[0] \in Seq(Records)
  BY <1>0 DEF Logs
<1>2. /\ g \in Seq(Records) /\ Len(g) = Len(l[0]) + 1
      /\ \A k \in 1..Len(l[0]) : l[0][k] = g[k]
      /\ g[Len(l[0]) + 1] = r
  BY <1>1, AppendProperties
<1> HIDE DEF g
<1>3. m = [l EXCEPT ![0] = g] /\ m \in Logs
  BY <1>0, <1>2 DEF Logs, g
<1>4. \A i \in 0..MaxFiles : m[i] \in Seq(Records) /\ m[i] = IF i = 0 THEN g ELSE l[i]
  BY <1>3, <1>0 DEF Logs
<1> HIDE DEF m
<1>5. ASSUME NEW i \in 0..MaxFiles, NEW p \in DOMAIN m[i]
      PROVE  \/ p \in DOMAIN l[i] /\ m[i][p] = l[i][p]
             \/ i = 0 /\ p = Len(l[0]) + 1 /\ m[i][p] = r
  BY <1>1, <1>2, <1>4
<1>6. \A i \in 0..MaxFiles : \A p \in DOMAIN l[i] : l[i][p][1] \in Nat /\ l[i][p][1] < r[1]
  BY FileAssumption DEF Logs, Records, Below
<1>7. ASSUME NEW i \in 0..MaxFiles, NEW j \in 0..MaxFiles,
             NEW x \in DOMAIN m[i], NEW y \in DOMAIN m[j],
             i > j \/ (i = j /\ x < y)
      PROVE  m[i][x][1] < m[j][y][1]
  <2>1. CASE x \in DOMAIN l[i] /\ m[i][x] = l[i][x]
    <3>1. CASE y \in DOMAIN l[j] /\ m[j][y] = l[j][y]
      BY <1>7, <2>1, <3>1 DEF Ordered
    <3>2. CASE m[j][y] = r
      BY <1>6, <2>1, <3>2
    <3>3. QED
      BY <3>1, <3>2, <1>5
  <2>2. CASE i = 0 /\ x = Len(l[0]) + 1 /\ m[i][x] = r
    <3>1. j = 0 /\ y \in 1..Len(g)
      BY <2>2, <1>2, <1>4, <1>7
    <3>2. QED
      BY <2>2, <3>1, <1>1, <1>2, <1>7
  <2>3. QED
    BY <2>1, <2>2, <1>5
<1>8. Below(m, r[1] + 1)
  BY <1>0, <1>5, <1>6 DEF Below
<1>9. QED
  BY <1>3, <1>7, <1>8 DEF Ordered, m

\* A file that keeps only its beginning, or nothing, keeps the order.
LEMMA OrderedCut ==
    ASSUME NEW l \in Logs, NEW k \in 0..MaxFiles, NEW f \in Seq(Records), Begins(f, l[k]),
           Ordered(l), NEW n \in Nat, Below(l, n)
    PROVE  LET m == [l EXCEPT ![k] = f] IN m \in Logs /\ Ordered(m) /\ Below(m, n)
<1> DEFINE m == [l EXCEPT ![k] = f]
<1>1. m \in Logs
  BY DEF Logs
<1>2. \A i \in 0..MaxFiles : m[i] = IF i = k THEN f ELSE l[i]
  BY DEF Logs
<1> HIDE DEF m
<1>3. \A i \in 0..MaxFiles : \A p \in DOMAIN m[i] : p \in DOMAIN l[i] /\ m[i][p] = l[i][p]
  <2>1. l[k] \in Seq(Records)
    BY DEF Logs
  <2>2. \A p \in DOMAIN f : p \in DOMAIN l[k] /\ f[p] = l[k][p]
    BY <2>1 DEF Begins
  <2>3. QED
    BY <1>2, <2>2
<1>4. Ordered(m)
  BY <1>3 DEF Ordered
<1>5. Below(m, n)
  BY <1>3 DEF Below
<1>6. QED
  BY <1>1, <1>4, <1>5 DEF m

\* Rename: a file may move to the next place if that is empty.
LEMMA OrderedMove ==
    ASSUME NEW l \in Logs, NEW k \in 1..MaxFiles, l[k] = <<>>,
           Ordered(l), NEW n \in Nat, Below(l, n)
    PROVE  LET m == [l EXCEPT ![k] = l[k - 1], ![k - 1] = <<>>]
           IN  m \in Logs /\ Ordered(m) /\ Below(m, n)
<1> DEFINE m == [l EXCEPT ![k] = l[k - 1], ![k - 1] = <<>>]
           from(i) == IF i = k THEN k - 1 ELSE i
<1>0. k - 1 \in 0..MaxFiles /\ k \in 0..MaxFiles /\ k - 1 # k
  BY FileAssumption
<1>1. m \in Logs
  BY <1>0 DEF Logs
<1>2. \A i \in 0..MaxFiles : m[i] = IF i = k - 1 THEN <<>> ELSE l[from(i)]
  BY <1>0 DEF Logs
<1> HIDE DEF m
<1>3. \A i \in 0..MaxFiles : \A p \in DOMAIN m[i] :
         i # k - 1 /\ from(i) \in 0..MaxFiles /\ p \in DOMAIN l[from(i)] /\ m[i][p] = l[from(i)][p]
  BY <1>0, <1>2
<1>4. ASSUME NEW i \in 0..MaxFiles, NEW j \in 0..MaxFiles,
             NEW x \in DOMAIN m[i], NEW y \in DOMAIN m[j],
             i > j \/ (i = j /\ x < y)
      PROVE  m[i][x][1] < m[j][y][1]
  <2>1. from(i) > from(j) \/ (from(i) = from(j) /\ x < y)
    BY <1>3, <1>4
  <2> HIDE DEF from
  <2>2. QED
    BY <1>3, <2>1 DEF Ordered
<1>5. Below(m, n)
  <2> HIDE DEF from
  <2>1. QED
    BY <1>3 DEF Below
<1>6. QED
  BY <1>1, <1>4, <1>5 DEF m, Ordered

-----------------------------------------------------------------------------
(* Types and shapes. *)

LEMMA LogType ==
    ASSUME TypeOK
    PROVE  /\ Log \in Logs
           /\ Log[0] = Content(0) \o buffer
           /\ \A i \in 0..MaxFiles : Content(i) \in Seq(Records)
           /\ \A i \in 1..MaxFiles : Log[i] = Content(i)
<1>1. \A i \in 0..MaxFiles : Content(i) \in Seq(Records)
  BY DEF TypeOK, Content, Exists
<1>2. 0 \in 0..MaxFiles
  BY FileAssumption
<1>3. buffer \in Seq(Records)
  BY DEF TypeOK
<1>4. Content(0) \o buffer \in Seq(Records)
  BY <1>1, <1>2, <1>3
<1>5. \A i \in 0..MaxFiles : (IF i = 0 THEN Content(0) \o buffer ELSE Content(i)) \in Seq(Records)
  BY <1>1, <1>4
<1>6. Log \in Logs
  BY <1>5 DEF Log, Logs
<1>7. \A i \in 0..MaxFiles : Log[i] = IF i = 0 THEN Content(0) \o buffer ELSE Content(i)
  BY DEF Log
<1>8. Log[0] = Content(0) \o buffer
  BY <1>2, <1>7
<1>9. ASSUME NEW i \in 1..MaxFiles
      PROVE  Log[i] = Content(i)
  <2>1. i \in 0..MaxFiles /\ i # 0
    OBVIOUS
  <2>2. QED
    BY <1>7, <2>1
<1>10. QED
  BY <1>1, <1>6, <1>8, <1>9

LEMMA RecordType ==
    ASSUME TypeOK, Shape, pc \notin {"down", "idle"}
    PROVE  Record \in Records /\ Record[1] = made /\ Record[2] = call.length
BY FileAssumption DEF TypeOK, Shape, Record, Records

\* What is written to a file and what is left of the buffer are what there was.
LEMMA DrainSame ==
    ASSUME NEW f \in Seq(Records), NEW b \in Seq(Records), b # <<>>
    PROVE  Append(f, Head(b)) \o Tail(b) = f \o b
<1>1. /\ Head(b) \in Records /\ Tail(b) \in Seq(Records) /\ Len(Tail(b)) = Len(b) - 1
      /\ \A i \in 1..Len(Tail(b)) : Tail(b)[i] = b[i + 1]
      /\ Head(b) = b[1] /\ Len(b) > 0
  BY HeadTailProperties
<1>2. /\ Append(f, Head(b)) \in Seq(Records) /\ Len(Append(f, Head(b))) = Len(f) + 1
      /\ \A i \in 1..Len(f) : Append(f, Head(b))[i] = f[i]
      /\ Append(f, Head(b))[Len(f) + 1] = b[1]
  BY <1>1, AppendProperties
<1> DEFINE a == Append(f, Head(b))
           t == Tail(b)
<1> HIDE DEF a, t
<1>3. Len(a \o t) = Len(f \o b) /\ a \o t \in Seq(Records) /\ f \o b \in Seq(Records)
  BY <1>1, <1>2, ConcatProperties DEF a, t
<1>4. ASSUME NEW i \in 1..Len(f \o b)
      PROVE  (a \o t)[i] = (f \o b)[i]
  <2>1. Len(f \o b) = Len(f) + Len(b) /\ Len(f) \in Nat /\ Len(b) \in Nat
    OBVIOUS
  <2>2. (f \o b)[i] = IF i <= Len(f) THEN f[i] ELSE b[i - Len(f)]
    BY <2>1
  <2>3. (a \o t)[i] = IF i <= Len(a) THEN a[i] ELSE t[i - Len(a)]
    BY <2>1, <1>1, <1>2 DEF a, t
  <2>4. CASE i <= Len(f)
    BY <2>1, <2>2, <2>3, <2>4, <1>2 DEF a
  <2>5. CASE i = Len(f) + 1
    BY <2>1, <2>2, <2>3, <2>5, <1>2 DEF a
  <2>6. CASE i > Len(f) + 1
    <3>1. i - Len(a) \in 1..Len(t)
      BY <2>1, <2>6, <1>1, <1>2 DEF a, t
    <3>2. t[i - Len(a)] = b[i - Len(a) + 1] /\ i - Len(a) + 1 = i - Len(f)
      BY <3>1, <2>1, <1>1, <1>2 DEF a, t
    <3>3. (f \o b)[i] = b[i - Len(f)]
      BY <2>1, <2>2, <2>6
    <3>4. (a \o t)[i] = t[i - Len(a)]
      <4>1. Len(a) = Len(f) + 1
        BY <1>2 DEF a
      <4>2. ~(i <= Len(a))
        BY <2>1, <2>6, <4>1
      <4>3. QED
        BY <2>3, <4>2
    <3>5. QED
      BY <3>2, <3>3, <3>4
  <2>7. i <= Len(f) \/ i = Len(f) + 1 \/ i > Len(f) + 1
    BY <2>1
  <2>8. QED
    BY <2>4, <2>5, <2>6, <2>7
<1>5. QED
  BY <1>3, <1>4, SeqEqual DEF a, t

LEMMA StoreSame ==
    ASSUME NEW f \in Seq(Records), NEW b \in Seq(Records), NEW r \in Records
    PROVE  f \o Append(b, r) = Append(f \o b, r)
<1>1. /\ Append(b, r) = b \o <<r>> /\ Append(f \o b, r) = (f \o b) \o <<r>>
      /\ <<r>> \in Seq(Records)
  BY AppendIsConcat, ConcatProperties
<1>2. QED
  BY <1>1, ConcatAssociative

LEMMA TypeKept ==
    ASSUME TypeOK, Shape, Next
    PROVE  TypeOK'
<1> USE FileAssumption DEF history, NoCall, Return, Down, Fault
<1>0. <<>> \in Seq(Records) /\ 0 \in 0..MaxFiles
  OBVIOUS
<1>1. ASSUME NEW f \in Seq(Records), files' \in {files, [files EXCEPT ![0] = f]}
      PROVE  files' \in [0..MaxFiles -> Seq(Records) \cup {NoFile}]
  BY <1>1 DEF TypeOK
<1>2. open => files[0] \in Seq(Records) /\ files[0] \o buffer \in Seq(Records)
  BY DEF TypeOK, Shape, Exists
<1>3. files' \in [0..MaxFiles -> Seq(Records) \cup {NoFile}] /\ buffer' \in Seq(Records)
  <2>1. CASE Start
    BY <1>1, <2>1 DEF Start, TypeOK
  <2>2. CASE Flush
    BY <1>0, <1>1, <1>2, <2>2 DEF Flush, TypeOK
  <2>3. CASE Close
    BY <1>0, <1>1, <1>2, <2>3 DEF Close, TypeOK
  <2>4. CASE Store
    <3>1. Append(buffer, Record) \in Seq(Records)
      BY <2>4, RecordType DEF Store, TypeOK
    <3>2. QED
      BY <2>4, <3>1 DEF Store, TypeOK
  <2>5. CASE Drain
    <3>1. Head(buffer) \in Records /\ Tail(buffer) \in Seq(Records)
      BY <2>5, HeadTailProperties DEF Drain, TypeOK
    <3>2. Append(files[0], Head(buffer)) \in Seq(Records)
      BY <1>2, <2>5, <3>1 DEF Drain, TypeOK
    <3>3. QED
      BY <1>1, <2>5, <3>1, <3>2 DEF Drain
  <2>6. CASE NextFile
    BY <2>6 DEF NextFile, TypeOK
  <2>7. CASE Rename
    <3>1. call.i > 0 => files[call.i - 1] \in Seq(Records) \cup {NoFile}
      BY DEF TypeOK
    <3>2. QED
      BY <2>7, <3>1 DEF Rename, TypeOK, Shape
  <2>8. CASE Reopen \/ Truncate
    <3>1. files' \in {files, [files EXCEPT ![0] = <<>>]} /\ buffer' = buffer
      BY <2>8 DEF Reopen, Truncate
    <3>2. QED
      BY <1>0, <1>1, <3>1 DEF TypeOK
  <2>9. CASE Crash
    BY <1>0, <2>9 DEF Crash, TypeOK
  <2>10. CASE \E n \in RecordSizes : Sink(n)
    BY <2>10 DEF Sink, TypeOK
  <2>11. QED
    BY <2>1, <2>2, <2>3, <2>4, <2>5, <2>6, <2>7, <2>8, <2>9, <2>10 DEF Next, Rotate
<1>4. buffer' # <<>> => open' /\ Exists(0)'
  <2>1. CASE Start \/ Crash \/ Close \/ \E n \in RecordSizes : Sink(n)
    BY <2>1 DEF Start, Crash, Close, Sink, TypeOK, Exists
  <2>2. CASE Flush \/ Store
    BY <2>2 DEF Flush, Store, TypeOK, Exists, Shape
  <2>3. CASE Drain
    <3>1. files'[0] = Append(files[0], Head(buffer)) /\ files'[0] \in Seq(Records) \cup {NoFile}
      BY <2>3, <1>3 DEF Drain, TypeOK
    <3>2. files[0] \in Seq(Records) /\ Head(buffer) \in Records
      BY <1>2, <2>3, HeadTailProperties DEF Drain, TypeOK
    <3>3. Append(files[0], Head(buffer)) \in Seq(Records)
      BY <3>2
    <3>4. QED
      BY <2>3, <3>1, <3>3 DEF Drain, TypeOK, Exists
  <2>4. CASE Rotate
    BY <2>4 DEF Rotate, NextFile, Rename, Reopen, Truncate, TypeOK, Shape
  <2>5. QED
    BY <2>1, <2>2, <2>3, <2>4 DEF Next
<1>5. made' \in 0..MaxRecords /\ faults' \in 0..MaxFaults
  <2>1. made' \in {made, made + 1} /\ (made' # made => made < MaxRecords)
    BY DEF Next, Rotate, Start, Sink, Flush, Store, Drain, Close, Crash,
           NextFile, Rename, Reopen, Truncate
  <2>2. faults' \in {faults, faults + 1} /\ (faults' # faults => faults < MaxFaults)
    BY DEF Next, Rotate, Start, Sink, Flush, Store, Drain, Close, Crash,
           NextFile, Rename, Reopen, Truncate
  <2>3. QED
    BY <2>1, <2>2 DEF TypeOK
<1>6. trouble' \subseteq {"open", "write", "flush", "rename", "close", "crash"}
  BY DEF TypeOK, Next, Rotate, Start, Sink, Flush, Store, Drain, Close, Crash,
         NextFile, Rename, Reopen, Truncate
<1>7. /\ pc' \in {"down", "idle", "flush", "store", "rotate", "rename", "truncate"}
      /\ open' \in BOOLEAN
  BY DEF TypeOK, Next, Rotate, Start, Sink, Flush, Store, Drain, Close, Crash,
         NextFile, Rename, Reopen, Truncate
<1>8. call' \in [length : Nat, new : Nat, i : 0..MaxFiles]
  <2>1. NoCall \in [length : Nat, new : Nat, i : 0..MaxFiles]
    BY <1>0
  <2>2. /\ call \in [length : Nat, new : Nat, i : 0..MaxFiles]
        /\ MaxFiles \in 0..MaxFiles
        /\ call.i > 0 => call.i - 1 \in 0..MaxFiles
    BY DEF TypeOK
  <2>3. CASE call' \in {call, NoCall}
    BY <2>1, <2>2, <2>3
  <2>4. ASSUME NEW n \in RecordSizes, Sink(n)
        PROVE  call' \in [length : Nat, new : Nat, i : 0..MaxFiles]
    <3>1. n \in Nat /\ current + n \in Nat
      BY DEF TypeOK
    <3>2. QED
      BY <1>0, <3>1, <2>4 DEF Sink
  <2>5. CASE call' \in {[call EXCEPT !.i = MaxFiles], [call EXCEPT !.new = call.length]}
    BY <2>2, <2>5
  <2>6. CASE call.i > 0 /\ call' = [call EXCEPT !.i = @ - 1]
    BY <2>2, <2>6
  <2>7. QED
    BY <2>3, <2>4, <2>5, <2>6 DEF Next, Rotate, Start, Flush, Store, Drain, Close, Crash,
       NextFile, Rename, Reopen, Truncate, Shape
<1>9. current' \in Nat
  <2>1. CASE Start
    <3>1. files'[0] \in Seq(Records)
      BY <2>1 DEF Start, TypeOK, Exists
    <3>2. QED
      BY <2>1, <3>1, BytesType DEF Start
  <2>2. CASE Flush \/ Store \/ Drain \/ Close \/ Crash \/ Rotate
    BY <2>2 DEF TypeOK, Flush, Store, Drain, Close, Crash,
                Rotate, NextFile, Rename, Reopen, Truncate
  <2>3. CASE \E n \in RecordSizes : Sink(n)
    BY <2>3 DEF TypeOK, Sink
  <2>4. QED
    BY <2>1, <2>2, <2>3 DEF Next
<1>10. QED
  BY <1>3, <1>4, <1>5, <1>6, <1>7, <1>8, <1>9 DEF TypeOK

LEMMA ShapeKept ==
    ASSUME TypeOK, Shape, Next
    PROVE  Shape'
<1> USE FileAssumption DEF history, NoCall, Return, Down, Fault
<1>0. <<>> \in Seq(Records) /\ 0 \in 0..MaxFiles
  OBVIOUS
<1>1. NoFile # <<>> /\ TypeOK'
  BY <1>0, TypeKept
<1>2. /\ pc' = "down" => ~open'
      /\ pc' \in {"rotate", "rename", "truncate"} => ~open'
      /\ pc' = "truncate" => "rename" \in trouble'
  <2>1. CASE Start \/ Flush \/ Store \/ Drain
    BY <2>1 DEF Start, Flush, Store, Drain, Shape
  <2>2. CASE Rotate \/ Close \/ Crash
    BY <2>2 DEF Rotate, NextFile, Rename, Reopen, Truncate, Close, Crash, Shape
  <2>3. ASSUME NEW n \in RecordSizes, Sink(n)
        PROVE  pc' \in {"flush", "store"}
    BY <2>3 DEF Sink
  <2>4. QED
    BY <2>1, <2>2, <2>3 DEF Next
<1>3. open' => Exists(0)'
  <2>1. CASE Start
    BY <1>0, <1>1, <2>1 DEF Start, TypeOK, Exists
  <2>2. CASE Flush
    <3>1. open => files[0] \in Seq(Records) /\ files[0] \o buffer \in Seq(Records)
      BY <1>0 DEF TypeOK, Shape, Exists
    <3>2. QED
      BY <1>0, <2>2, <3>1 DEF Flush, TypeOK, Shape, Exists
  <2>3. CASE Drain
    <3>1. buffer' # <<>> => Exists(0)'
      BY <1>1 DEF TypeOK
    <3>2. files[0] \in Seq(Records) /\ Head(buffer) \in Records
      BY <1>0, <2>3, HeadTailProperties DEF Drain, TypeOK, Exists
    <3>3. Append(files[0], Head(buffer)) \in Seq(Records)
      BY <3>2
    <3>4. QED
      BY <1>0, <2>3, <3>3 DEF Drain, TypeOK, Exists
  <2>4. CASE Reopen \/ Truncate
    BY <1>0, <1>1, <2>4 DEF Reopen, Truncate, TypeOK, Shape, Exists
  <2>5. CASE Close \/ Crash \/ NextFile \/ Rename \/ Store \/ \E n \in RecordSizes : Sink(n)
    BY <2>5 DEF Close, Crash, NextFile, Rename, Store, Sink, Shape, Exists
  <2>6. QED
    BY <2>1, <2>2, <2>3, <2>4, <2>5 DEF Next, Rotate
<1>4. pc' = "rename" => call'.i > 0 /\ Exists(call.i - 1)' /\ ~Exists(call.i)'
  <2>1. CASE NextFile
    BY <2>1 DEF NextFile, TypeOK, Exists
  <2>2. CASE Drain
    BY <2>2 DEF Drain, TypeOK, Shape
  <2>3. QED
    BY <2>1, <2>2 DEF Next, Rotate, Start, Sink, Flush, Store, Close, Crash,
       Rename, Reopen, Truncate
<1>5. pc' = "rotate" /\ call'.i < MaxFiles => ~Exists(call.i)'
  <2>1. CASE NextFile
    BY <2>1 DEF NextFile, TypeOK, Exists
  <2>2. CASE Rename
    BY <2>2 DEF Rename, TypeOK, Exists, Shape
  <2>3. CASE Drain
    BY <2>3 DEF Drain, TypeOK, Shape
  <2>4. CASE Flush
    BY <2>4 DEF Flush, TypeOK, Shape
  <2>5. QED
    BY <2>1, <2>2, <2>3, <2>4 DEF Next, Rotate, Start, Sink, Store, Close, Crash,
       Reopen, Truncate
<1>6. pc' \notin {"rotate", "rename", "truncate"} => call'.i = 0
  <2>1. CASE Flush \/ Reopen \/ Truncate \/ Drain
    BY <2>1 DEF Flush, Reopen, Truncate, Drain, Shape, TypeOK
  <2>2. CASE Start \/ Store \/ Close \/ Crash
    BY <2>2 DEF Start, Store, Close, Crash, Shape
  <2>3. CASE NextFile \/ Rename
    BY <2>3 DEF NextFile, Rename
  <2>4. ASSUME NEW n \in RecordSizes, Sink(n)
        PROVE  call'.i = 0
    BY <2>4 DEF Sink
  <2>5. QED
    BY <2>1, <2>2, <2>3, <2>4 DEF Next, Rotate
<1>7. IF pc' \in {"down", "idle"} THEN call' = NoCall
      ELSE made' > 0 /\ call'.length \in RecordSizes
  <2>1. CASE \E n \in RecordSizes : Sink(n)
    BY <2>1 DEF Sink, TypeOK
  <2>2. CASE Start \/ Close \/ Crash \/ Store
    BY <2>2 DEF Start, Close, Crash, Store, Shape
  <2>3. CASE Drain \/ Rotate \/ Flush
    BY <2>3 DEF Drain, Rotate, Flush, NextFile, Rename, Reopen, Truncate, Shape, TypeOK
  <2>4. QED
    BY <2>1, <2>2, <2>3 DEF Next
<1>8. QED
  BY <1>2, <1>3, <1>4, <1>5, <1>6, <1>7 DEF Shape

-----------------------------------------------------------------------------
(* What each operation does to the log. *)

\* Where only file 0 and the buffer change, the rest of the log does not.
LEMMA LogOfFirst ==
    ASSUME TypeOK, TypeOK', \A i \in 1..MaxFiles : files'[i] = files[i]
    PROVE  /\ Log' = [Log EXCEPT ![0] = Content(0)' \o buffer']
           /\ Log = [Log EXCEPT ![0] = Content(0) \o buffer]
<1>1. ASSUME NEW i \in 0..MaxFiles, i # 0
      PROVE  Content(i)' = Content(i)
  BY <1>1 DEF TypeOK, Content, Exists
<1>2. \A i \in 0..MaxFiles : Log'[i] = IF i = 0 THEN Content(0)' \o buffer' ELSE Log[i]
  BY <1>1 DEF Log
<1>3. DOMAIN Log' = 0..MaxFiles /\ DOMAIN Log = 0..MaxFiles
  BY DEF Log
<1>4. \A i \in 0..MaxFiles : Log[i] = IF i = 0 THEN Content(0) \o buffer ELSE Log[i]
  BY DEF Log
<1>5. QED
  BY <1>2, <1>3, <1>4 DEF Log

\* Opening, closing, flushing and draining only move records to the disk; rotate_ opens
\* a file 0 that is not there.
LEMMA LogSame ==
    ASSUME TypeOK, Shape, TypeOK',
           \/ Start \/ Flush \/ Drain \/ Reopen \/ (Close /\ faults' = faults)
           \/ \E n \in RecordSizes : Sink(n)
    PROVE  Log' = Log
<1> USE FileAssumption
<1>0. <<>> \in Seq(Records) /\ 0 \in 0..MaxFiles
  OBVIOUS
<1>1. NoFile # <<>>
  BY <1>0
<1>2. Content(0) \in Seq(Records) /\ buffer \in Seq(Records)
  BY <1>0, LogType DEF TypeOK
<1>3. (Exists(0) => files[0] = Content(0)) /\ (open \/ buffer # <<>> => Exists(0))
  BY DEF Content, TypeOK, Shape
<1>4. SUFFICES /\ \A i \in 1..MaxFiles : files'[i] = files[i]
               /\ Content(0)' \o buffer' = Content(0) \o buffer
  BY LogOfFirst
<1>5. ASSUME NEW f, files' = [files EXCEPT ![0] = f], NEW i \in 1..MaxFiles
       PROVE  files'[i] = files[i]
  <2>1. i \in 0..MaxFiles /\ i # 0
    OBVIOUS
  <2>2. QED
    BY <1>5, <2>1 DEF TypeOK
<1>6. CASE Start
  <2>1. Content(0)' = Content(0) /\ buffer' = buffer
    BY <1>0, <1>1, <1>6 DEF Start, Content, Exists, TypeOK
  <2>2. QED
    BY <1>6, <2>1 DEF Start, TypeOK
<1>7. ASSUME open, files' = [files EXCEPT ![0] = @ \o buffer], buffer' = <<>>
      PROVE  /\ \A i \in 1..MaxFiles : files'[i] = files[i]
             /\ Content(0)' \o buffer' = Content(0) \o buffer
  <2>1. files'[0] = Content(0) \o buffer
    BY <1>0, <1>3, <1>7 DEF TypeOK
  <2>2. Content(0) \o buffer \in Seq(Records)
    BY <1>2
  <2>3. Content(0)' = Content(0) \o buffer
    BY <2>1, <2>2 DEF Content, Exists
  <2>4. Content(0)' \o buffer' = Content(0) \o buffer
    BY <1>7, <2>2, <2>3
  <2>5. QED
    BY <1>7, <1>5, <2>4
<1>8. CASE UNCHANGED <<files, buffer>>
  BY <1>8 DEF Content, Exists
<1>9. CASE Flush
  BY <1>7, <1>8, <1>9 DEF Flush
<1>10. CASE Close /\ faults' = faults
  <2>1. open \/ buffer = <<>>
    BY DEF TypeOK
  <2>2. ~Fault("close")
    BY <1>10 DEF Fault, TypeOK
  <2>3. QED
    BY <1>7, <1>8, <1>10, <2>1, <2>2 DEF Close, Down
<1>11. CASE Drain
  <2>1. Head(buffer) \in Records /\ Exists(0)
    BY <1>2, <1>3, <1>11, HeadTailProperties DEF Drain
  <2>2. files'[0] = Append(Content(0), Head(buffer)) /\ Append(Content(0), Head(buffer)) \in Seq(Records)
    BY <1>0, <1>2, <1>3, <1>11, <2>1 DEF Drain, TypeOK
  <2>3. Content(0)' = Append(Content(0), Head(buffer))
    BY <2>2 DEF Content, Exists
  <2>4. Content(0)' \o buffer' = Content(0) \o buffer
    BY <1>2, <1>11, <2>3, DrainSame DEF Drain
  <2>5. QED
    BY <1>11, <1>5, <2>4 DEF Drain
<1>12. CASE Reopen
  <2>1. ~Exists(0)
    BY <1>12 DEF Reopen, Shape
  <2>2. Content(0)' = Content(0)
    BY <1>0, <1>1, <1>12, <2>1 DEF Reopen, Content, Exists, TypeOK
  <2>3. QED
    BY <1>8, <1>12, <1>5, <2>2 DEF Reopen
<1>13. CASE \E n \in RecordSizes : Sink(n)
  BY <1>8, <1>13 DEF Sink
<1>14. QED
  BY <1>6, <1>9, <1>10, <1>11, <1>12, <1>13

\* write appends the record, if it leaves anything.
LEMMA LogStore ==
    ASSUME TypeOK, Shape, TypeOK', Store
    PROVE  /\ pc = "store" /\ Record \in Records
           /\ \/ UNCHANGED Log /\ (open => Fault("write"))
              \/ open /\ Log' = [Log EXCEPT ![0] = Append(@, Record)]
<1> USE FileAssumption
<1>0. 0 \in 0..MaxFiles /\ pc = "store" /\ Record \in Records
  BY RecordType DEF Store
<1>1. Content(0) \in Seq(Records) /\ buffer \in Seq(Records)
  BY <1>0, LogType DEF TypeOK
<1>2. files' = files /\ Content(0)' = Content(0)
  BY DEF Store, Content, Exists
<1>3. Log' = [Log EXCEPT ![0] = Content(0) \o buffer'] /\ Log = [Log EXCEPT ![0] = Content(0) \o buffer]
  BY <1>2, LogOfFirst
<1>4. CASE buffer' = buffer /\ (open => Fault("write"))
  BY <1>0, <1>3, <1>4
<1>5. CASE open /\ buffer' = Append(buffer, Record)
  <2>1. Content(0) \o buffer' = Append(Content(0) \o buffer, Record)
    BY <1>0, <1>1, <1>5, StoreSame
  <2>2. Log[0] = Content(0) \o buffer
    BY LogType
  <2>3. QED
    BY <1>0, <1>3, <1>5, <2>1, <2>2
<1>6. QED
  BY <1>4, <1>5 DEF Store

\* A file is removed only where another will take its place.
LEMMA LogNextFile ==
    ASSUME TypeOK, Shape, TypeOK', NextFile
    PROVE  /\ call.i \in 1..MaxFiles /\ buffer' = buffer
           /\ \/ UNCHANGED <<files, Log>> /\ ~Exists(call.i - 1)
              \/ /\ Exists(call.i - 1)
                 /\ Log' = [Log EXCEPT ![call.i] = <<>>]
<1> USE FileAssumption
<1>1. call.i \in 1..MaxFiles /\ buffer' = buffer
  BY DEF NextFile, TypeOK
<1>2. CASE ~Exists(call.i - 1)
  <2>1. files' = files
    BY <1>2 DEF NextFile
  <2>2. Log' = Log
    BY <1>1, <2>1 DEF Log, Content, Exists
  <2>3. QED
    BY <1>1, <1>2, <2>1, <2>2
<1>3. CASE Exists(call.i - 1)
  <2>1. files' = [files EXCEPT ![call.i] = NoFile]
    BY <1>3 DEF NextFile
  <2>2. \A i \in 0..MaxFiles : Content(i)' = IF i = call.i THEN <<>> ELSE Content(i)
    BY <1>1, <2>1 DEF Content, Exists, TypeOK
  <2>3. \A i \in 0..MaxFiles : Log'[i] = IF i = call.i THEN <<>> ELSE Log[i]
    BY <1>1, <2>2, 0 # call.i DEF Log
  <2>4. Log' = [Log EXCEPT ![call.i] = <<>>]
    BY <2>3 DEF Log
  <2>5. QED
    BY <1>1, <1>3, <2>4
<1>4. QED
  BY <1>2, <1>3

\* rename moves the records of a file to the next.
LEMMA LogRename ==
    ASSUME TypeOK, Shape, TypeOK', Rename
    PROVE  /\ call.i \in 1..MaxFiles /\ buffer = <<>> /\ Log[call.i] = <<>>
           /\ \/ UNCHANGED <<files, Log>> /\ Fault("rename") /\ pc' = "truncate"
              \/ /\ Log' = [Log EXCEPT ![call.i] = Log[call.i - 1], ![call.i - 1] = <<>>]
                 /\ UNCHANGED history
<1> USE FileAssumption
<1>1. call.i \in 1..MaxFiles /\ buffer' = buffer
  BY DEF Rename, TypeOK, Shape
<1>2. buffer = <<>> /\ ~Exists(call.i) /\ Exists(call.i - 1)
  BY DEF Rename, TypeOK, Shape
<1>3. Log[call.i] = <<>>
  BY <1>1, <1>2, LogType DEF Content
<1>4. CASE files' = files
  <2>1. Log' = Log
    BY <1>1, <1>4 DEF Log, Content, Exists
  <2>2. files' # [files EXCEPT ![call.i] = files[call.i - 1], ![call.i - 1] = NoFile]
    BY <1>1, <1>2, <1>4 DEF TypeOK, Exists
  <2>3. QED
    BY <1>1, <1>2, <1>3, <1>4, <2>1, <2>2 DEF Rename
<1>5. CASE files' = [files EXCEPT ![call.i] = files[call.i - 1], ![call.i - 1] = NoFile]
  <2>0. call.i \in 0..MaxFiles /\ call.i - 1 \in 0..MaxFiles /\ call.i # call.i - 1
    BY <1>1
  <2>1. \A i \in 0..MaxFiles : files'[i] = IF i = call.i - 1 THEN NoFile
                                 ELSE IF i = call.i THEN files[call.i - 1] ELSE files[i]
    BY <1>5, <2>0 DEF TypeOK
  <2>2. \A i \in 0..MaxFiles : Content(i)' = IF i = call.i - 1 THEN <<>>
                                 ELSE IF i = call.i THEN Content(call.i - 1) ELSE Content(i)
    BY <1>2, <2>0, <2>1 DEF Content, Exists
  <2>3. \A i \in 0..MaxFiles : Log[i] = Content(i) /\ Log'[i] = Content(i)'
    <3>1. \A i \in 0..MaxFiles : Content(i) \in Seq(Records) /\ Content(i)' \in Seq(Records)
      BY LogType DEF TypeOK, Content, Exists
    <3>2. 0 \in 0..MaxFiles
      OBVIOUS
    <3>3. Content(0) \o <<>> = Content(0) /\ Content(0)' \o <<>> = Content(0)'
      BY <3>1, <3>2
    <3>4. QED
      BY <1>1, <1>2, <3>3 DEF Log
  <2> DEFINE m == [Log EXCEPT ![call.i] = Log[call.i - 1], ![call.i - 1] = <<>>]
  <2>4. \A i \in 0..MaxFiles : m[i] = Log'[i]
    BY <2>0, <2>2, <2>3 DEF Log
  <2>5. Log' = m
    BY <2>4 DEF Log
  <2>6. files' # files
    BY <1>2, <1>5, <2>0 DEF TypeOK, Exists
  <2>7. UNCHANGED history
    BY <2>6 DEF Rename
  <2>8. QED
    BY <1>1, <1>2, <1>3, <2>5, <2>7
<1>6. QED
  BY <1>4, <1>5 DEF Rename

\* The reopening after a failed rename loses what file 0 has, if it does not fail early.
LEMMA LogTruncate ==
    ASSUME TypeOK, Shape, TypeOK', Truncate
    PROVE  buffer = <<>> /\ buffer' = <<>> /\ Log' \in {Log, [Log EXCEPT ![0] = <<>>]}
<1> USE FileAssumption
<1>1. buffer = <<>> /\ buffer' = <<>>
  BY DEF Truncate, TypeOK, Shape
<1>2. CASE files' = files
  <2>1. Log' = Log
    BY <1>1, <1>2 DEF Log, Content, Exists
  <2>2. QED
    BY <1>1, <2>1
<1>3. CASE files' = [files EXCEPT ![0] = <<>>]
  <2>1. 0 \in 0..MaxFiles /\ \A i \in 1..MaxFiles : i \in 0..MaxFiles /\ i # 0
    OBVIOUS
  <2>2. \A i \in 1..MaxFiles : files'[i] = files[i]
    BY <1>3, <2>1 DEF TypeOK
  <2>3. Content(0)' = <<>>
    BY <1>3, <2>1 DEF Content, TypeOK
  <2>4. QED
    BY <1>1, <2>2, <2>3, LogOfFirst
<1>4. QED
  BY <1>2, <1>3 DEF Truncate

\* A crash, or fclose that fails, loses what only the buffer has.
LEMMA LogCut ==
    ASSUME TypeOK, Shape, TypeOK', Crash \/ (Close /\ faults' # faults)
    PROVE  Begins(Content(0), Log[0]) /\ Log' = [Log EXCEPT ![0] = Content(0)]
<1> USE FileAssumption
<1>1. files' = files /\ buffer' = <<>>
  BY DEF Crash, Close, Down, history
<1>2. Content(0)' = Content(0)
  BY <1>1 DEF Content, Exists
<1>3. Content(0) \in Seq(Records) /\ buffer \in Seq(Records)
  BY LogType, 0 \in 0..MaxFiles DEF TypeOK
<1>4. Log[0] = Content(0) \o buffer
  BY LogType
<1>5. Begins(Content(0), Log[0])
  BY <1>3, <1>4, ConcatProperties DEF Begins
<1>6. QED
  BY <1>1, <1>2, <1>3, <1>5, LogOfFirst

-----------------------------------------------------------------------------
(* The records are in order. *)

LEMMA BelowMore ==
    ASSUME NEW l \in Logs, NEW m \in Nat, NEW n \in Nat, m <= n, Below(l, m)
    PROVE  Below(l, n)
<1>1. \A i \in 0..MaxFiles : \A p \in DOMAIN l[i] : l[i][p][1] \in Nat
  BY FileAssumption DEF Logs, Records
<1>2. QED
  BY <1>1 DEF Below

LEMMA LogTypedNext ==
    ASSUME TypeOK'
    PROVE  Log' \in Logs
<1>1. \A i \in 0..MaxFiles : Content(i)' \in Seq(Records)
  BY DEF TypeOK, Content, Exists
<1>2. 0 \in 0..MaxFiles /\ buffer' \in Seq(Records)
  BY FileAssumption DEF TypeOK
<1>3. Content(0)' \o buffer' \in Seq(Records)
  BY <1>1, <1>2
<1>4. \A i \in 0..MaxFiles : (IF i = 0 THEN Content(0)' \o buffer' ELSE Content(i)') \in Seq(Records)
  BY <1>1, <1>3
<1>5. QED
  BY <1>4 DEF Log, Logs

LEMMA OrderKept ==
    ASSUME TypeOK, Shape, OldestFirst, NumbersBelow, Next
    PROVE  OldestFirst' /\ NumbersBelow'
<1>1. TypeOK' /\ Log \in Logs /\ Log' \in Logs
  BY TypeKept, LogType, LogTypedNext
<1>2. Ordered(Log) /\ Below(Log, NextNumber)
  BY DEF OldestFirst, Ordered, NumbersBelow
<1>3. NextNumber \in Nat /\ NextNumber' \in Nat
  <2>1. made \in 0..MaxRecords /\ made' \in 0..MaxRecords
    BY <1>1 DEF TypeOK
  <2>2. made \in Nat /\ made' \in Nat
    BY <2>1, FileAssumption
  <2>3. NextNumber \in {made, made + 1} /\ NextNumber' \in {made', made' + 1}
    BY DEF NextNumber
  <2>4. \A m \in Nat : {m, m + 1} \subseteq Nat
    OBVIOUS
  <2>5. QED
    BY <2>2, <2>3, <2>4
<1>4. NextNumber <= NextNumber'
  <2>0. made \in Nat
    BY FileAssumption DEF TypeOK
  <2>1. CASE Start \/ Close \/ Crash \/ Drain \/ Flush \/ Store
    BY <2>0, <2>1 DEF Start, Close, Crash, Drain, Flush, Store, Return, Down, NextNumber
  <2>2. CASE \E n \in RecordSizes : Sink(n)
    BY <2>0, <2>2 DEF Sink, NextNumber
  <2>3. CASE Rotate
    BY <2>0, <2>3 DEF Rotate, NextFile, Rename, Reopen, Truncate, Return, NextNumber
  <2>4. QED
    BY <2>1, <2>2, <2>3 DEF Next
<1>5. SUFFICES Ordered(Log') /\ Below(Log', NextNumber')
  BY DEF OldestFirst, Ordered, NumbersBelow
<1>6. CASE Log' = Log
  BY <1>1, <1>2, <1>3, <1>4, <1>6, BelowMore
<1>7. ASSUME NEW k \in 0..MaxFiles, NEW f \in Seq(Records), Begins(f, Log[k]),
             Log' = [Log EXCEPT ![k] = f]
      PROVE  Ordered(Log') /\ Below(Log', NextNumber')
  <2>1. Ordered(Log') /\ Below(Log', NextNumber)
    BY <1>1, <1>2, <1>3, <1>7, OrderedCut
  <2>2. QED
    BY <1>1, <1>3, <1>4, <2>1, BelowMore
<1>8. ASSUME NEW k \in 0..MaxFiles, Log' = [Log EXCEPT ![k] = <<>>]
      PROVE  Ordered(Log') /\ Below(Log', NextNumber')
  <2>1. Begins(<<>>, Log[k]) /\ <<>> \in Seq(Records)
    BY <1>1 DEF Begins, Logs
  <2>2. QED
    BY <1>7, <1>8, <2>1
<1>9. CASE \/ Start \/ Flush \/ Drain \/ Reopen \/ (Close /\ faults' = faults)
           \/ \E n \in RecordSizes : Sink(n)
  BY <1>1, <1>6, <1>9, LogSame
<1>10. CASE Store
  <2>1. CASE UNCHANGED Log
    BY <1>6, <2>1
  <2>2. CASE Log' = [Log EXCEPT ![0] = Append(@, Record)]
    <3>1. Record \in Records /\ Record[1] = made /\ NextNumber = made /\ NextNumber' = made + 1
      BY <1>10, RecordType DEF Store, Return, NextNumber
    <3>2. QED
      BY <1>1, <1>2, <2>2, <3>1, OrderedAppend
  <2>3. QED
    BY <1>1, <1>10, <2>1, <2>2, LogStore
<1>11. CASE NextFile
  <2>1. \/ Log' = Log
        \/ call.i \in 0..MaxFiles /\ Log' = [Log EXCEPT ![call.i] = <<>>]
    BY <1>1, <1>11, LogNextFile
  <2>2. QED
    BY <1>6, <1>8, <2>1
<1>12. CASE Rename
  <2>1. \/ Log' = Log
        \/ /\ call.i \in 1..MaxFiles /\ Log[call.i] = <<>>
           /\ Log' = [Log EXCEPT ![call.i] = Log[call.i - 1], ![call.i - 1] = <<>>]
    BY <1>1, <1>12, LogRename
  <2>2. CASE call.i \in 1..MaxFiles /\ Log[call.i] = <<>>
             /\ Log' = [Log EXCEPT ![call.i] = Log[call.i - 1], ![call.i - 1] = <<>>]
    <3>1. Ordered(Log') /\ Below(Log', NextNumber)
      BY <1>1, <1>2, <1>3, <2>2, OrderedMove
    <3>2. QED
      BY <1>1, <1>3, <1>4, <3>1, BelowMore
  <2>3. QED
    BY <1>6, <2>1, <2>2
<1>13. CASE Truncate
  <2>1. 0 \in 0..MaxFiles
    BY FileAssumption
  <2>2. QED
    BY <1>1, <1>6, <1>8, <1>13, <2>1, LogTruncate
<1>14. CASE Crash \/ (Close /\ faults' # faults)
  <2>1. Content(0) \in Seq(Records) /\ 0 \in 0..MaxFiles
    BY LogType, FileAssumption
  <2>2. QED
    BY <1>1, <1>7, <1>14, <2>1, LogCut
<1>15. QED
  BY <1>9, <1>10, <1>11, <1>12, <1>13, <1>14 DEF Next, Rotate

-----------------------------------------------------------------------------
(* The files keep to their limit. *)

\* The beginning of a sequence is not larger than all of it.
LEMMA SumsGrow ==
    ASSUME NEW f \in Seq(Records), NEW s, Sums(s, f, Len(f)), NEW m \in 0..Len(f)
    PROVE  \A k \in m..Len(f) : s[m] <= s[k]
<1> DEFINE S == {k \in Nat : m + k <= Len(f) => s[m] <= s[m + k]}
<1>0. \A k \in 0..Len(f) : s[k] \in Nat
  BY SumsType
<1>1. 0 \in S
  BY <1>0
<1>2. ASSUME NEW k \in Nat, k \in S
      PROVE  k + 1 \in S
  <2>1. CASE m + k + 1 <= Len(f)
    <3>1. f[m + k + 1] \in Records /\ m + k \in 0..Len(f) /\ m + k + 1 \in 0..Len(f)
      BY <2>1
    <3>2. f[m + k + 1][2] \in Nat
      BY <3>1, FileAssumption DEF Records
    <3>3. s[m + k + 1] = s[m + k] + f[m + k + 1][2]
      BY <2>1 DEF Sums
    <3>4. s[m] <= s[m + k]
      BY <1>2, <2>1
    <3>5. s[m + k] \in Nat /\ s[m] \in Nat
      BY <1>0, <3>1
    <3>6. QED
      BY <3>2, <3>3, <3>4, <3>5
  <2>2. QED
    BY <2>1
<1> HIDE DEF S
<1>3. Nat \subseteq S
  BY <1>1, <1>2, Induction
<1>4. ASSUME NEW k \in m..Len(f)
      PROVE  s[m] <= s[k]
  <2>1. k - m \in Nat /\ m + (k - m) = k
    OBVIOUS
  <2>2. k - m \in S
    BY <1>3, <2>1
  <2>3. QED
    BY <2>1, <2>2 DEF S
<1>5. QED
  BY <1>4

LEMMA BytesBegins ==
    ASSUME NEW f \in Seq(Records), NEW g \in Seq(Records), Begins(f, g)
    PROVE  Bytes(f) <= Bytes(g)
<1>1. PICK s : Sums(s, f, Len(f)) /\ Bytes(f) = s[Len(f)]
  BY BytesSum
<1>2. PICK t : Sums(t, g, Len(g)) /\ Bytes(g) = t[Len(g)]
  BY BytesSum
<1>3. Len(f) \in Nat /\ Len(g) \in Nat /\ Len(f) <= Len(g)
  BY DEF Begins
<1>4. s[Len(f)] = t[Len(f)]
  BY <1>1, <1>2, <1>3, SumsAgree DEF Begins
<1>5. t[Len(f)] <= t[Len(g)]
  BY <1>2, <1>3, SumsGrow
<1>6. QED
  BY <1>1, <1>2, <1>4, <1>5

Small(f) == Bytes(f) <= MaxSize \/ Len(f) = 1

LEMMA SmallBegins ==
    ASSUME NEW f \in Seq(Records), NEW g \in Seq(Records), Begins(f, g), Small(g)
    PROVE  Small(f)
<1>1. Bytes(f) \in Nat /\ Bytes(g) \in Nat /\ Bytes(f) <= Bytes(g) /\ MaxSize \in Nat
  BY BytesType, BytesBegins, FileAssumption
<1>2. CASE Bytes(g) <= MaxSize
  BY <1>1, <1>2 DEF Small
<1>3. CASE Len(g) = 1
  <2>1. Len(f) = 1 \/ f = <<>>
    BY <1>3 DEF Begins
  <2>2. QED
    BY <1>1, <2>1, BytesEmpty, FileAssumption DEF Small
<1>4. QED
  BY <1>2, <1>3 DEF Small

LEMMA TroubleGrows ==
    ASSUME Next
    PROVE  trouble \subseteq trouble'
BY DEF Next, Rotate, Start, Sink, Flush, Store, Drain, Close, Crash,
       NextFile, Rename, Reopen, Truncate, Fault, history

LEMMA SizeKept ==
    ASSUME TypeOK, Shape, SizeBounded, Counted, Next
    PROVE  SizeBounded'
<1>1. /\ TypeOK' /\ Log \in Logs /\ Log' \in Logs /\ 0 \in 0..MaxFiles
      /\ MaxSize \in Nat \ {0}
  BY TypeKept, LogType, LogTypedNext, FileAssumption
<1>2. SUFFICES ASSUME "write" \notin trouble'
               PROVE  \A i \in 0..MaxFiles : Small(Log'[i])
  BY DEF SizeBounded, Small
<1>3. "write" \notin trouble
  BY <1>2, TroubleGrows
<1>4. \A i \in 0..MaxFiles : Small(Log[i])
  BY <1>3 DEF SizeBounded, Small
<1>5. Small(<<>>)
  BY <1>1, BytesEmpty DEF Small
<1>6. CASE Log' = Log
  BY <1>4, <1>6
<1>7. ASSUME NEW k \in 0..MaxFiles, NEW f, Small(f), Log' = [Log EXCEPT ![k] = f]
      PROVE  \A i \in 0..MaxFiles : Small(Log'[i])
  BY <1>1, <1>4, <1>7 DEF Logs
<1>8. CASE \/ Start \/ Flush \/ Drain \/ Reopen \/ (Close /\ faults' = faults)
           \/ \E n \in RecordSizes : Sink(n)
  BY <1>1, <1>6, <1>8, LogSame
<1>9. CASE Store
  <2>1. CASE UNCHANGED Log
    BY <1>6, <2>1
  <2>2. CASE open /\ Log' = [Log EXCEPT ![0] = Append(@, Record)]
    <3>1. pc = "store" /\ Record \in Records /\ Record[2] = call.length
      BY <1>9, RecordType DEF Store
    <3>2. Log[0] \in Seq(Records)
      BY <1>1 DEF Logs
    <3>3. Bytes(Append(Log[0], Record)) = Bytes(Log[0]) + call.length
      BY <3>1, <3>2, BytesAppend
    <3>4. CASE Log[0] = <<>>
      <4>1. Small(Append(Log[0], Record))
        BY <3>1, <3>4 DEF Small
      <4>2. QED
        BY <1>1, <1>7, <2>2, <4>1
    <3>5. CASE call.new <= MaxSize
      <4>1. Small(Append(Log[0], Record))
        BY <1>3, <2>2, <3>1, <3>3, <3>5 DEF Small, Counted
      <4>2. QED
        BY <1>1, <1>7, <2>2, <4>1
    <3>6. QED
      BY <1>3, <2>2, <3>1, <3>4, <3>5 DEF Counted
  <2>3. QED
    BY <1>1, <1>9, <2>1, <2>2, LogStore
<1>10. CASE NextFile
  <2>1. Log' = Log \/ (call.i \in 0..MaxFiles /\ Log' = [Log EXCEPT ![call.i] = <<>>])
    BY <1>1, <1>10, LogNextFile
  <2>2. QED
    BY <1>5, <1>6, <1>7, <2>1
<1>11. CASE Rename
  <2>1. \/ Log' = Log
        \/ /\ call.i \in 1..MaxFiles
           /\ Log' = [Log EXCEPT ![call.i] = Log[call.i - 1], ![call.i - 1] = <<>>]
    BY <1>1, <1>11, LogRename
  <2>2. CASE call.i \in 1..MaxFiles
             /\ Log' = [Log EXCEPT ![call.i] = Log[call.i - 1], ![call.i - 1] = <<>>]
    <3>1. \A i \in 0..MaxFiles : Log'[i] \in {<<>>, Log[call.i - 1], Log[i]}
      BY <1>1, <2>2 DEF Logs
    <3>2. call.i - 1 \in 0..MaxFiles
      BY <2>2, FileAssumption
    <3>3. QED
      BY <1>4, <1>5, <3>1, <3>2
  <2>3. QED
    BY <1>6, <2>1, <2>2
<1>12. CASE Truncate
  BY <1>1, <1>5, <1>6, <1>7, <1>12, LogTruncate
<1>13. CASE Crash \/ (Close /\ faults' # faults)
  <2>1. Content(0) \in Seq(Records) /\ Log[0] \in Seq(Records)
    BY <1>1, LogType DEF Logs
  <2>2. Small(Content(0)) /\ Log' = [Log EXCEPT ![0] = Content(0)]
    BY <1>1, <1>4, <1>13, <2>1, LogCut, SmallBegins
  <2>3. QED
    BY <1>1, <1>7, <2>2
<1>14. QED
  BY <1>8, <1>9, <1>10, <1>11, <1>12, <1>13 DEF Next, Rotate

LEMMA CountedKept ==
    ASSUME TypeOK, Shape, Counted, Next
    PROVE  Counted'
<1> USE FileAssumption
<1>0. /\ TypeOK' /\ Log \in Logs /\ Log' \in Logs /\ 0 \in 0..MaxFiles
      /\ <<>> \in Seq(Records) /\ Bytes(<<>>) = 0
  BY TypeKept, LogType, LogTypedNext, BytesEmpty
<1>1. SUFFICES ASSUME "write" \notin trouble'
               PROVE  /\ open' /\ pc' \in {"idle", "flush"} => current' = Bytes(Log'[0])
                      /\ pc' = "flush" => call'.new = current' + call'.length /\ call'.new > MaxSize
                      /\ pc' = "store" /\ open' =>
                            /\ call'.new = Bytes(Log'[0]) + call'.length
                            /\ call'.new <= MaxSize \/ Log'[0] = <<>>
  BY DEF Counted
<1>2. "write" \notin trouble
  BY <1>1, TroubleGrows
<1>3. /\ open /\ pc \in {"idle", "flush"} => current = Bytes(Log[0])
      /\ pc = "flush" => call.new = current + call.length /\ call.new > MaxSize
      /\ pc = "store" /\ open =>
            /\ call.new = Bytes(Log[0]) + call.length
            /\ call.new <= MaxSize \/ Log[0] = <<>>
  BY <1>2 DEF Counted
<1>4. CASE Start
  <2>1. buffer' = <<>>
    BY <1>4 DEF Start, TypeOK, Shape
  <2>2. files'[0] \in Seq(Records)
    BY <1>0, <1>4 DEF Start, TypeOK, Exists
  <2>3. Log'[0] = files'[0]
    BY <1>0, <2>1, <2>2 DEF Log, Content, Exists
  <2>4. QED
    BY <1>4, <2>3 DEF Start
<1>5. CASE \E n \in RecordSizes : Sink(n)
  <2>1. PICK n \in RecordSizes : Sink(n)
    BY <1>5
  <2>2. Log' = Log
    BY <1>0, <1>5, LogSame
  <2>3. /\ pc = "idle" /\ current' = current /\ open' = open
        /\ call'.new = current + n /\ call'.length = n
        /\ pc' = IF current + n > MaxSize THEN "flush" ELSE "store"
    BY <2>1 DEF Sink, NoCall
  <2>4. current + n \in Nat /\ MaxSize \in Nat
    BY DEF TypeOK
  <2>5. QED
    BY <1>3, <2>2, <2>3, <2>4
<1>6. CASE Flush
  <2>1. Log' = Log
    BY <1>0, <1>6, LogSame
  <2>2. pc = "flush" /\ current' = current /\ pc' \in {"idle", "store", "rotate"}
    BY <1>6 DEF Flush, Return
  <2>3. pc' = "idle" => open' = open
    BY <1>6 DEF Flush, Return
  <2>4. pc' = "store" => open' = open /\ open /\ call' = call /\ files'[0] = <<>> /\ buffer' = <<>>
    BY <1>6 DEF Flush, Return
  <2>5. files'[0] = <<>> /\ buffer' = <<>> => Log'[0] = <<>>
    BY <1>0 DEF Log, Content, Exists
  <2>6. QED
    BY <1>0, <1>3, <2>1, <2>2, <2>3, <2>4, <2>5 DEF TypeOK
<1>7. CASE Drain
  <2>1. Log' = Log
    BY <1>0, <1>7, LogSame
  <2>2. QED
    BY <1>3, <1>7, <2>1 DEF Drain
<1>8. CASE Store
  <2>1. pc = "store" /\ pc' = "idle" /\ open' = open
    BY <1>8 DEF Store, Return
  <2>2. ASSUME open
        PROVE  current' = Bytes(Log'[0])
    <3>1. ~Fault("write")
      BY <1>1 DEF Fault
    <3>2. buffer' = Append(buffer, Record) /\ current' = call.new
      BY <1>8, <2>2, <3>1 DEF Store
    <3>3. Record \in Records /\ Record[2] = call.length
      BY <2>1, RecordType
    <3>4. Content(0)' = Content(0) /\ Content(0) \in Seq(Records) /\ buffer \in Seq(Records)
      BY <1>0, <1>8, LogType DEF Store, Content, Exists, TypeOK
    <3>5. Log'[0] = Append(Log[0], Record)
      BY <1>0, <3>2, <3>3, <3>4, StoreSame DEF Log
    <3>6. Log[0] \in Seq(Records)
      BY <1>0 DEF Logs
    <3>7. QED
      BY <1>3, <2>1, <2>2, <3>2, <3>3, <3>5, <3>6, BytesAppend
  <2>3. QED
    BY <2>1, <2>2
<1>9. CASE Close \/ Crash \/ NextFile \/ Rename
  <2>1. ~open' /\ pc' \notin {"idle", "flush", "store"}
    BY <1>9 DEF Close, Crash, Down, NextFile, Rename, Shape
  <2>2. QED
    BY <2>1
<1>10. CASE Reopen \/ Truncate
  <2>1. ~open /\ buffer' = <<>> /\ pc' # "flush"
    BY <1>10 DEF Reopen, Truncate, Return, TypeOK, Shape
  <2>2. open' => files' = [files EXCEPT ![0] = <<>>]
    BY <1>10, <2>1 DEF Reopen, Truncate
  <2>3. open' => Log'[0] = <<>>
    BY <1>0, <2>1, <2>2 DEF Log, Content, Exists, TypeOK
  <2>4. open' /\ pc' = "store" => call'.new = call'.length
    BY <1>10, <2>1 DEF Reopen, Truncate, Return, TypeOK
  <2>5. open' /\ pc' = "idle" => current' = 0
    BY <1>10, <2>1 DEF Reopen, Truncate
  <2>6. QED
    BY <1>0, <2>1, <2>3, <2>4, <2>5 DEF TypeOK
<1>11. QED
  BY <1>4, <1>5, <1>6, <1>7, <1>8, <1>9, <1>10 DEF Next, Rotate

-----------------------------------------------------------------------------
(* Which files there are. *)

\* Only the loop of rotate_ touches the old files.
LEMMA OnlyFirst ==
    ASSUME TypeOK, Next, ~NextFile, ~Rename
    PROVE  \A i \in 1..MaxFiles : files'[i] = files[i]
<1>1. ASSUME NEW f, files' \in {files, [files EXCEPT ![0] = f]}, NEW i \in 1..MaxFiles
      PROVE  files'[i] = files[i]
  <2>1. i \in 0..MaxFiles /\ i # 0
    OBVIOUS
  <2>2. QED
    BY <1>1, <2>1 DEF TypeOK
<1>2. CASE Start \/ Reopen \/ Truncate
  BY <1>1, <1>2 DEF Start, Reopen, Truncate
<1>3. CASE Flush \/ Close
  BY <1>1, <1>3 DEF Flush, Close
<1>4. CASE Drain
  BY <1>1, <1>4 DEF Drain
<1>5. CASE Store \/ Crash \/ \E n \in RecordSizes : Sink(n)
  BY <1>5 DEF Store, Crash, Sink
<1>6. QED
  BY <1>2, <1>3, <1>4, <1>5 DEF Next, Rotate

\* And only it takes file 0 away.
LEMMA FirstStays ==
    ASSUME TypeOK, Shape, Shape', TypeOK', Next, ~NextFile, ~Rename, Exists(0)
    PROVE  Exists(0)'
<1>0. 0 \in 0..MaxFiles /\ NoFile # <<>>
  <2>1. <<>> \in Seq(Records) /\ 0 \in 0..MaxFiles
    BY FileAssumption
  <2>2. QED
    BY <2>1, FileAssumption
<1>1. files[0] \in Seq(Records) /\ buffer \in Seq(Records)
  BY <1>0 DEF TypeOK, Exists
<1>2. CASE files' = files
  BY <1>2 DEF Exists
<1>3. CASE files' = [files EXCEPT ![0] = <<>>]
  BY <1>0, <1>3 DEF Exists, TypeOK
<1>4. CASE files' = [files EXCEPT ![0] = @ \o buffer]
  <2>1. files'[0] = files[0] \o buffer
    BY <1>0, <1>4 DEF TypeOK
  <2>2. files[0] \o buffer \in Seq(Records)
    BY <1>1
  <2>3. QED
    BY <2>1, <2>2, FileAssumption DEF Exists
<1>5. CASE Drain
  <2>1. open'
    BY <1>5 DEF Drain, TypeOK
  <2>2. QED
    BY <2>1 DEF Shape
<1>6. QED
  BY <1>2, <1>3, <1>4, <1>5 DEF Next, Rotate, Start, Close, Crash, Sink, Flush, Store, Reopen, Truncate

LEMMA NonEmptyKept ==
    ASSUME TypeOK, Shape, NonEmpty, Next
    PROVE  NonEmpty'
<1> USE FileAssumption
<1>1. CASE \/ Start \/ Store \/ Crash \/ Close \/ Drain \/ Truncate \/ Reopen
           \/ \E n \in RecordSizes : Sink(n)
  <2>1. pc' \notin {"rotate", "rename", "truncate"}
    BY <1>1 DEF Start, Store, Crash, Close, Drain, Truncate, Reopen, Sink, Return, Down,
                Shape, TypeOK
  <2>2. ~NextFile /\ ~Rename
    BY <2>1 DEF NextFile, Rename, Fault
  <2>3. QED
    BY <2>1, <2>2, OnlyFirst DEF NonEmpty, Exists
<1>2. CASE Flush
  <2>1. \A i \in 1..MaxFiles : files'[i] = files[i]
    BY <1>2, OnlyFirst DEF Flush, NextFile, Rename
  <2>2. pc' \in {"rotate", "rename"} => files'[0] # <<>>
    BY <1>2 DEF Flush, Return
  <2>3. QED
    BY <2>1, <2>2 DEF NonEmpty, Exists
<1>3. CASE NextFile
  <2>1. \A i \in 0..MaxFiles : files'[i] \in {files[i], NoFile} /\ pc = "rotate"
    BY <1>3 DEF NextFile, TypeOK
  <2>2. QED
    BY <2>1 DEF NonEmpty, Exists
<1>4. CASE Rename
  <2>1. /\ pc = "rename" /\ call.i \in 1..MaxFiles /\ call.i - 1 \in 0..MaxFiles
        /\ call.i \in 0..MaxFiles
    BY <1>4 DEF Rename, TypeOK, Shape
  <2>2. Exists(call.i - 1) => files[call.i - 1] # <<>>
    BY <2>1 DEF NonEmpty
  <2>3. \A i \in 0..MaxFiles : \/ files'[i] \in {files[i], NoFile}
                               \/ i = call.i /\ files'[i] = files[call.i - 1]
    BY <1>4, <2>1 DEF Rename, TypeOK
  <2>4. \A i \in 1..MaxFiles : i \in 0..MaxFiles
    OBVIOUS
  <2>5. QED
    BY <2>1, <2>2, <2>3, <2>4 DEF NonEmpty, Exists
<1>5. QED
  BY <1>1, <1>2, <1>3, <1>4 DEF Next, Rotate

LEMMA OneGapKept ==
    ASSUME TypeOK, Shape, OneGap, Next
    PROVE  OneGap'
<1> USE FileAssumption
<1>0. TypeOK' /\ Shape'
  BY TypeKept, ShapeKept
<1>1. SUFFICES ASSUME trouble' \cap {"rename", "crash"} = {},
                      NEW j \in 0..MaxFiles, NEW k \in 0..MaxFiles, j < k, Exists(k)', ~Exists(j)'
               PROVE  j = call'.i /\ ~open'
  BY DEF OneGap
<1>2. \A m, n \in 0..MaxFiles : m < n /\ Exists(n) => Exists(m) \/ (m = call.i /\ ~open)
  BY <1>1, TroubleGrows DEF OneGap
<1>3. CASE NextFile
  <2>1. /\ pc = "rotate" /\ ~open /\ open' = open
        /\ call.i \in 0..MaxFiles /\ call.i > 0
    BY <1>3 DEF NextFile, TypeOK, Shape
  <2>0. call.i - 1 \in 0..MaxFiles
    BY <2>1
  <2>2. CASE Exists(call.i - 1)
    <3>1. files' = [files EXCEPT ![call.i] = NoFile] /\ call' = call
      BY <1>3, <2>2 DEF NextFile
    <3>2. Exists(k) /\ (Exists(j) => j = call.i)
      BY <1>1, <2>1, <3>1 DEF Exists, TypeOK
    <3>3. QED
      BY <1>1, <1>2, <2>1, <3>1, <3>2
  <2>3. CASE ~Exists(call.i - 1)
    <3>1. files' = files /\ call'.i = call.i - 1
      BY <1>3, <2>3 DEF NextFile, TypeOK
    <3>2. Exists(k) /\ ~Exists(j)
      BY <1>1, <3>1 DEF Exists
    <3>3. j = call.i
      BY <1>1, <1>2, <3>2
    <3>4. call.i - 1 < k
      BY <1>1, <2>1, <3>3
    <3>5. FALSE
      BY <1>2, <2>0, <2>1, <2>3, <3>2, <3>4
    <3>6. QED
      BY <3>5
  <2>4. QED
    BY <2>2, <2>3
<1>4. CASE Rename
  <2>1. ~Fault("rename")
    BY <1>1 DEF Fault
  <2>2. /\ call.i \in 0..MaxFiles /\ call.i - 1 \in 0..MaxFiles /\ call'.i = call.i - 1
        /\ files' = [files EXCEPT ![call.i] = files[call.i - 1], ![call.i - 1] = NoFile]
        /\ Exists(call.i - 1) /\ ~Exists(call.i) /\ ~open /\ open' = open
    BY <1>4, <2>1 DEF Rename, TypeOK, Shape
  <2>3. /\ k # call.i => Exists(k)
        /\ k # call.i - 1 /\ j # call.i
        /\ j # call.i - 1 => ~Exists(j)
    BY <1>1, <2>2 DEF Exists, TypeOK
  <2>4. SUFFICES ASSUME j # call.i - 1 PROVE FALSE
    BY <2>2
  <2>5. CASE k = call.i
    <3>1. j < call.i - 1
      BY <1>1, <2>2, <2>4, <2>5
    <3>2. QED
      BY <1>2, <2>2, <2>3, <2>4, <3>1
  <2>6. CASE k # call.i
    BY <1>1, <1>2, <2>3, <2>4, <2>6
  <2>7. QED
    BY <2>5, <2>6
<1>5. CASE ~NextFile /\ ~Rename
  <2>1. Exists(k)
    BY <1>1, <1>5, OnlyFirst DEF Exists
  <2>2. ~Exists(j)
    <3>1. CASE j = 0
      BY <1>0, <1>1, <1>5, <3>1, FirstStays
    <3>2. CASE j \in 1..MaxFiles
      BY <1>1, <1>5, <3>2, OnlyFirst DEF Exists
    <3>3. QED
      BY <3>1, <3>2
  <2>3. j = call.i /\ ~open
    BY <1>1, <1>2, <2>1, <2>2
  <2>4. ~Truncate /\ ~Crash /\ ~Drain
    BY <1>1, <2>3, TroubleGrows DEF Truncate, Crash, Drain, Fault, Shape, TypeOK
  <2>5. call'.i = 0 /\ call.i = 0
    <3>1. CASE Start \/ Flush \/ Store \/ Close \/ Reopen
      BY <2>3, <3>1 DEF Start, Flush, Store, Close, Reopen, Down, Return, NoCall, Shape, TypeOK
    <3>2. ASSUME NEW n \in RecordSizes, Sink(n)
          PROVE  call'.i = 0 /\ call.i = 0
      BY <3>2 DEF Sink, NoCall, Shape
    <3>3. QED
      BY <1>5, <2>4, <3>1, <3>2 DEF Next, Rotate
  <2>6. ~open'
    BY <1>0, <1>1, <2>3, <2>5 DEF Shape
  <2>7. QED
    BY <2>3, <2>5, <2>6
<1>6. QED
  BY <1>3, <1>4, <1>5

-----------------------------------------------------------------------------
(* Old files are full. *)

\* In the log l, each file of E is full, given the file or the record of n bytes after it.
Full(l, E, n) ==
    \A i \in E :
        /\ \A j \in 0..(i - 1) :
              l[j] # <<>> /\ (\A k \in (j + 1)..(i - 1) : l[k] = <<>>)
                  => Bytes(l[i]) + l[j][1][2] > MaxSize
        /\ (\A j \in 0..(i - 1) : l[j] = <<>>) => Bytes(l[i]) + n > MaxSize

OldFiles == {i \in 1..MaxFiles : Exists(i)}

\* The record that did not fit into file i becomes the first of file 0.
LEMMA FullAppend ==
    ASSUME NEW l \in Logs, NEW E \in SUBSET (1..MaxFiles), NEW r \in Records, NEW n \in Nat,
           Full(l, E, r[2])
    PROVE  Full([l EXCEPT ![0] = Append(@, r)], E, n)
<1> DEFINE m == [l EXCEPT ![0] = Append(@, r)]
           g == Append(l[0], r)
<1>0. MaxFiles \in Nat /\ 0 \in 0..MaxFiles
  BY FileAssumption
<1> USE <1>0
<1>1. l[0] \in Seq(Records)
  BY <1>0 DEF Logs
<1>2. /\ g \in Seq(Records) /\ Len(g) = Len(l[0]) + 1
      /\ \A k \in 1..Len(l[0]) : l[0][k] = g[k]
      /\ g[Len(l[0]) + 1] = r
  BY <1>1, AppendProperties
<1>3. g # <<>> /\ (l[0] # <<>> => g[1] = l[0][1]) /\ (l[0] = <<>> => g[1] = r)
  <2>1. l[0] # <<>> => 1 \in 1..Len(l[0])
    BY <1>1
  <2>2. l[0] = <<>> => Len(l[0]) + 1 = 1
    OBVIOUS
  <2>3. Len(g) # 0
    BY <1>1, <1>2
  <2> HIDE DEF g
  <2>4. QED
    BY <1>1, <1>2, <2>1, <2>2, <2>3
<1> HIDE DEF g
<1>4. m = [l EXCEPT ![0] = g]
  BY DEF g
<1>5. m[0] = g /\ \A i \in 1..MaxFiles : m[i] = l[i]
  BY <1>0, <1>4 DEF Logs
<1> HIDE DEF m
<1>6. ASSUME NEW i \in E, NEW j \in 0..(i - 1),
             m[j] # <<>>, \A k \in (j + 1)..(i - 1) : m[k] = <<>>
      PROVE  Bytes(m[i]) + m[j][1][2] > MaxSize
  <2>1. i \in 1..MaxFiles /\ m[i] = l[i] /\ \A k \in 1..(i - 1) : m[k] = l[k]
    BY <1>5
  <2>2. \A k \in (j + 1)..(i - 1) : l[k] = <<>>
    BY <1>6, <2>1
  <2>3. CASE j # 0 \/ l[0] # <<>>
    <3>1. l[j] # <<>> /\ m[j][1] = l[j][1]
      BY <1>3, <1>5, <1>6, <2>1, <2>3
    <3>2. QED
      BY <2>1, <2>2, <3>1 DEF Full
  <2>4. CASE j = 0 /\ l[0] = <<>>
    <3>1. \A k \in 0..(i - 1) : l[k] = <<>>
      BY <2>2, <2>4
    <3>2. m[j][1] = r
      BY <1>3, <1>5, <2>4
    <3>3. QED
      BY <2>1, <3>1, <3>2 DEF Full
  <2>5. QED
    BY <2>3, <2>4
<1>7. ASSUME NEW i \in E, \A j \in 0..(i - 1) : m[j] = <<>>
      PROVE  FALSE
  <2>1. 0 \in 0..(i - 1)
    OBVIOUS
  <2>2. QED
    BY <1>3, <1>5, <1>7, <2>1
<1>8. QED
  BY <1>6, <1>7 DEF Full, m

\* The last file is no file's next.
LEMMA FullDrop ==
    ASSUME NEW l \in Logs, NEW E \in SUBSET (1..MaxFiles), NEW n, NEW c \in 1..MaxFiles,
           c = MaxFiles \/ l[c] = <<>>, Full(l, E, n)
    PROVE  Full([l EXCEPT ![c] = <<>>], E \ {c}, n)
<1> DEFINE m == [l EXCEPT ![c] = <<>>]
<1>1. \A i \in 0..MaxFiles : m[i] = IF i = c THEN <<>> ELSE l[i]
  BY DEF Logs
<1> HIDE DEF m
<1>2. ASSUME NEW i \in E \ {c}
      PROVE  m[i] = l[i] /\ \A j \in 0..(i - 1) : m[j] = l[j]
  BY <1>1, FileAssumption
<1>3. QED
  BY <1>2 DEF Full, m

\* The file that is renamed is full for the one that was after it, or for the record.
LEMMA FullMove ==
    ASSUME NEW l \in Logs, NEW E \in SUBSET (1..MaxFiles), NEW n, NEW c \in 1..MaxFiles,
           l[c] = <<>>, l[c - 1] # <<>>, c # 1 => c - 1 \in E,
           c = 1 => Bytes(l[0]) + n > MaxSize,
           Full(l, E, n)
    PROVE  Full([l EXCEPT ![c] = l[c - 1], ![c - 1] = <<>>], (E \ {c - 1}) \cup {c}, n)
<1> DEFINE m == [l EXCEPT ![c] = l[c - 1], ![c - 1] = <<>>]
<1>0. MaxFiles \in Nat /\ c \in 0..MaxFiles /\ c - 1 \in 0..MaxFiles /\ c # c - 1
  BY FileAssumption
<1> USE <1>0
<1>1. \A i \in 0..MaxFiles : m[i] = IF i = c - 1 THEN <<>> ELSE IF i = c THEN l[c - 1] ELSE l[i]
  BY <1>0 DEF Logs
<1> HIDE DEF m
<1>2. ASSUME NEW i \in (E \ {c - 1}) \cup {c}, NEW j \in 0..(i - 1),
             m[j] # <<>>, \A k \in (j + 1)..(i - 1) : m[k] = <<>>
      PROVE  Bytes(m[i]) + m[j][1][2] > MaxSize
  <2>0. i \in 1..MaxFiles /\ i \in 0..MaxFiles /\ j \in 0..MaxFiles /\ j # c - 1
    BY <1>0, <1>1, <1>2
  <2>1. CASE i = c
    <3>1. c # 1 /\ j \in 0..(c - 2) /\ m[i] = l[c - 1] /\ m[j] = l[j] /\ c - 1 \in E
      BY <1>0, <1>1, <2>0, <2>1
    <3>2. \A k \in (j + 1)..(c - 2) : l[k] = m[k]
      BY <1>1, <2>0
    <3>3. QED
      BY <1>2, <2>1, <3>1, <3>2 DEF Full
  <2>2. CASE i < c
    <3>1. i < c - 1 /\ i \in E
      BY <2>2, <1>0
    <3>2. m[i] = l[i] /\ \A k \in 0..(i - 1) : m[k] = l[k]
      BY <1>1, <2>0, <3>1
    <3>3. QED
      BY <1>2, <2>0, <3>1, <3>2 DEF Full
  <2>3. CASE i > c
    <3>1. i \in E /\ m[i] = l[i]
      BY <1>1, <2>0, <2>3
    <3>2. j >= c
      BY <1>0, <1>1, <1>2, <2>0, <2>3
    <3>3. CASE j = c
      <4>1. m[j] = l[c - 1]
        BY <1>0, <1>1, <3>3
      <4>2. \A k \in c..(i - 1) : l[k] = <<>>
        BY <1>1, <1>2, <2>0, <3>3
      <4>3. c - 1 \in 0..(i - 1)
        BY <1>0, <2>0, <2>3
      <4>4. QED
        BY <1>2, <3>1, <4>1, <4>2, <4>3 DEF Full
    <3>4. CASE j > c
      <4>1. m[j] = l[j] /\ \A k \in (j + 1)..(i - 1) : m[k] = l[k]
        BY <1>1, <2>0, <3>4
      <4>2. QED
        BY <1>2, <3>1, <4>1 DEF Full
    <3>5. QED
      BY <2>0, <3>2, <3>3, <3>4
  <2>4. QED
    BY <2>0, <2>1, <2>2, <2>3
<1>3. ASSUME NEW i \in (E \ {c - 1}) \cup {c}, \A j \in 0..(i - 1) : m[j] = <<>>
      PROVE  Bytes(m[i]) + n > MaxSize
  <2>0. i \in 1..MaxFiles /\ i \in 0..MaxFiles
    OBVIOUS
  <2>1. CASE i = c
    <3>1. m[i] = l[c - 1]
      BY <1>0, <1>1, <2>1
    <3>2. CASE c = 1
      BY <3>1, <3>2
    <3>3. CASE c # 1
      <4>1. \A j \in 0..(c - 2) : l[j] = m[j]
        BY <1>1, <2>0, <2>1
      <4>2. QED
        BY <1>3, <2>1, <3>1, <3>3, <4>1 DEF Full
    <3>4. QED
      BY <3>2, <3>3
  <2>2. CASE i < c
    <3>1. i < c - 1 /\ i \in E
      BY <2>2, <1>0
    <3>2. m[i] = l[i] /\ \A k \in 0..(i - 1) : m[k] = l[k]
      BY <1>1, <2>0, <3>1
    <3>3. QED
      BY <1>3, <3>1, <3>2 DEF Full
  <2>3. CASE i > c
    BY <1>0, <1>1, <1>3, <2>0, <2>3
  <2>4. QED
    BY <2>0, <2>1, <2>2, <2>3
<1>4. QED
  BY <1>2, <1>3 DEF Full, m

\* As long as nothing fails the file is open between the calls, and rotates only when
\* the record does not fit.
LEMMA NextDoesNotFitKept ==
    ASSUME TypeOK, Shape, Counted, NextDoesNotFit, Next
    PROVE  NextDoesNotFit'
<1> USE FileAssumption
<1>0. TypeOK' /\ Shape' /\ 0 \in 0..MaxFiles /\ Log \in Logs /\ Log' \in Logs
  BY TypeKept, ShapeKept, LogType, LogTypedNext
<1>1. SUFFICES ASSUME trouble' = {}
               PROVE  /\ pc' \in {"idle", "flush", "store"} => open'
                      /\ pc' \in {"rotate", "rename"} /\ Exists(0)'
                            => Bytes(Log'[0]) + call'.length > MaxSize
                      /\ pc' \in {"down", "idle", "flush"} /\ Log'[0] = <<>>
                            => \A i \in 1..MaxFiles : ~Exists(i)'
  BY DEF NextDoesNotFit
<1>2. /\ trouble = {}
      /\ \A kind : ~Fault(kind)
  BY <1>1, TroubleGrows DEF Fault
<1>3. /\ pc \in {"idle", "flush", "store"} => open
      /\ pc \in {"rotate", "rename"} /\ Exists(0) => Bytes(Log[0]) + call.length > MaxSize
      /\ pc \in {"down", "idle", "flush"} /\ Log[0] = <<>> => \A i \in 1..MaxFiles : ~Exists(i)
  BY <1>2 DEF NextDoesNotFit
<1>4. ~Crash /\ ~Truncate
  BY <1>2 DEF Crash, Truncate, Shape
<1>5. ASSUME ~NextFile, ~Rename, NEW i \in 1..MaxFiles, ~Exists(i)
      PROVE  ~Exists(i)'
  BY <1>5, OnlyFirst DEF Exists
<1>6. CASE Start \/ Drain \/ Close \/ \E n \in RecordSizes : Sink(n)
  <2>1. ~NextFile /\ ~Rename
    <3>1. pc' \notin {"rotate", "rename", "truncate"}
      BY <1>6 DEF Start, Drain, Close, Sink, Down, Shape, TypeOK
    <3>2. QED
      BY <3>1 DEF NextFile, Rename
  <2>2. Log' = Log
    <3>1. Close => faults' = faults
      BY <1>2 DEF Close, history
    <3>2. QED
      BY <1>0, <1>6, <3>1, LogSame
  <2>3. /\ pc' \in {"idle", "flush", "store"} => open'
        /\ pc' \notin {"rotate", "rename"}
    BY <1>3, <1>6 DEF Start, Drain, Close, Sink, Down, Shape, TypeOK
  <2>4. pc' \in {"down", "idle", "flush"} => pc \in {"down", "idle", "flush"}
    BY <1>6 DEF Start, Drain, Close, Sink
  <2>5. QED
    BY <1>3, <1>5, <2>1, <2>2, <2>3, <2>4
<1>7. CASE Flush
  <2>1. /\ pc = "flush" /\ open
        /\ \/ pc' = "store" /\ open' = open
           \/ pc' = "rotate" /\ call'.length = call.length
    BY <1>2, <1>3, <1>7 DEF Flush, TypeOK
  <2>2. Log' = Log
    BY <1>0, <1>7, LogSame
  <2>3. "write" \notin trouble
    BY <1>2
  <2>4. Bytes(Log[0]) + call.length > MaxSize
    BY <2>1, <2>3 DEF Counted
  <2>5. QED
    BY <2>1, <2>2, <2>4
<1>8. CASE Store
  <2>1. /\ pc = "store" /\ pc' = "idle" /\ open /\ open' = open
        /\ buffer' = Append(buffer, Record)
    BY <1>2, <1>3, <1>8 DEF Store, Return
  <2>2. Record \in Records /\ buffer \in Seq(Records)
    BY <2>1, RecordType DEF TypeOK
  <2>3. Content(0)' \in Seq(Records)
    BY <1>0 DEF TypeOK, Content, Exists
  <2>4. Content(0)' \o buffer' # <<>>
    BY <2>1, <2>2, <2>3
  <2>5. Log'[0] # <<>>
    BY <1>0, <2>4 DEF Log
  <2>6. QED
    BY <2>1, <2>5
<1>9. CASE NextFile
  <2>1. /\ pc = "rotate" /\ pc' \in {"rotate", "rename"} /\ call'.length = call.length
        /\ call.i \in 0..MaxFiles /\ call.i # 0
    BY <1>9 DEF NextFile, TypeOK
  <2>2. files'[0] = files[0] /\ buffer' = buffer
    BY <1>0, <1>9, <2>1 DEF NextFile, TypeOK
  <2>3. Log'[0] = Log[0] /\ (Exists(0)' <=> Exists(0))
    BY <1>0, <2>2 DEF Log, Content, Exists
  <2>4. QED
    BY <1>3, <2>1, <2>3
<1>10. CASE Rename
  <2>1. /\ pc = "rename" /\ pc' = "rotate" /\ call'.length = call.length
        /\ call.i \in 0..MaxFiles /\ call.i - 1 \in 0..MaxFiles
        /\ files' = [files EXCEPT ![call.i] = files[call.i - 1], ![call.i - 1] = NoFile]
        /\ buffer' = buffer
    BY <1>2, <1>10 DEF Rename, TypeOK, Shape
  <2>2. call.i # 0
    BY <1>10 DEF Rename, Shape
  <2>3. CASE call.i = 1
    <3>1. ~Exists(0)'
      BY <1>0, <2>1, <2>3 DEF Exists, TypeOK
    <3>2. QED
      BY <2>1, <3>1
  <2>4. CASE call.i # 1
    <3>1. files'[0] = files[0]
      BY <1>0, <2>1, <2>2, <2>4 DEF TypeOK
    <3>2. buffer' = buffer
      BY <2>1
    <3>3. Log'[0] = Log[0] /\ (Exists(0)' <=> Exists(0))
      BY <1>0, <3>1, <3>2 DEF Log, Content, Exists
    <3>4. QED
      BY <1>3, <2>1, <3>3
  <2>5. QED
    BY <2>3, <2>4
<1>11. CASE Reopen
  BY <1>2, <1>11 DEF Reopen
<1>12. QED
  BY <1>4, <1>6, <1>7, <1>8, <1>9, <1>10, <1>11 DEF Next, Rotate

LEMMA OldFilesFullKept ==
    ASSUME TypeOK, Shape, NonEmpty, NextDoesNotFit, OldFilesFull, Next
    PROVE  OldFilesFull'
<1> USE FileAssumption
<1>0. TypeOK' /\ 0 \in 0..MaxFiles /\ Log \in Logs /\ Log' \in Logs
  BY TypeKept, LogType, LogTypedNext
<1>1. SUFFICES ASSUME trouble' = {}
               PROVE  Full(Log', OldFiles', call'.length)
  BY DEF OldFilesFull, Full, OldFiles
<1>2. /\ trouble = {}
      /\ \A kind : ~Fault(kind)
  BY <1>1, TroubleGrows DEF Fault
<1>3. Full(Log, OldFiles, call.length) /\ OldFiles \in SUBSET (1..MaxFiles)
  BY <1>2 DEF OldFilesFull, Full, OldFiles
<1>4. ~Crash /\ ~Truncate
  BY <1>2 DEF Crash, Truncate, Shape
<1>5. ~NextFile /\ ~Rename => OldFiles' = OldFiles
  BY OnlyFirst DEF OldFiles, Exists
<1>6. CASE Start \/ Flush \/ Drain \/ Reopen \/ Close
  <2>1. Log' = Log
    <3>1. Close => faults' = faults
      BY <1>2 DEF Close, history
    <3>2. QED
      BY <1>0, <1>6, <3>1, LogSame
  <2>2. call'.length = call.length
    BY <1>2, <1>6 DEF Start, Flush, Drain, Reopen, Close, Down, TypeOK, Shape, NextDoesNotFit
  <2>3. ~NextFile /\ ~Rename
    BY <1>6 DEF Start, Flush, Drain, Reopen, Close, NextFile, Rename, TypeOK, Shape
  <2>4. QED
    BY <1>3, <1>5, <2>1, <2>2, <2>3
<1>7. CASE \E n \in RecordSizes : Sink(n)
  <2>1. Log' = Log
    BY <1>0, <1>7, LogSame
  <2>2. pc = "idle" /\ ~NextFile /\ ~Rename
    BY <1>7 DEF Sink, NextFile, Rename
  <2>3. Log[0] = <<>> => OldFiles = {}
    BY <1>2, <2>2 DEF NextDoesNotFit, OldFiles
  <2>4. Log[0] # <<>> => \A i \in 1..MaxFiles : ~ \A j \in 0..(i - 1) : Log[j] = <<>>
    OBVIOUS
  <2>5. QED
    BY <1>3, <1>5, <2>1, <2>2, <2>3, <2>4 DEF Full
<1>8. CASE Store
  <2>1. pc = "store" /\ call' = NoCall /\ ~NextFile /\ ~Rename
    BY <1>8 DEF Store, Return, NextFile, Rename
  <2>2. Record \in Records /\ Record[2] = call.length
    BY <2>1, RecordType
  <2>3. Log' = [Log EXCEPT ![0] = Append(@, Record)]
    BY <1>0, <1>2, <1>8, <2>1, LogStore DEF NextDoesNotFit
  <2>4. QED
    BY <1>0, <1>3, <1>5, <2>1, <2>2, <2>3, FullAppend DEF NoCall
<1>9. CASE NextFile
  <2>1. call'.length = call.length /\ pc = "rotate"
    BY <1>9 DEF NextFile, TypeOK
  <2>2. CASE UNCHANGED <<files, Log>>
    BY <1>3, <2>1, <2>2 DEF OldFiles, Exists
  <2>3. CASE /\ call.i \in 1..MaxFiles /\ Exists(call.i - 1)
             /\ Log' = [Log EXCEPT ![call.i] = <<>>]
    <3>1. files' = [files EXCEPT ![call.i] = NoFile]
      BY <1>9, <2>3 DEF NextFile
    <3>2. OldFiles' = OldFiles \ {call.i}
      BY <2>3, <3>1 DEF OldFiles, Exists, TypeOK
    <3>3. call.i = MaxFiles \/ Log[call.i] = <<>>
      <4>1. call.i < MaxFiles => ~Exists(call.i)
        BY <2>1 DEF Shape
      <4>2. ~Exists(call.i) => Log[call.i] = <<>>
        BY <2>3, LogType DEF Content
      <4>3. QED
        BY <2>3, <4>1, <4>2
    <3>4. QED
      BY <1>0, <1>3, <2>1, <2>3, <3>2, <3>3, FullDrop
  <2>4. QED
    BY <1>0, <1>9, <2>2, <2>3, LogNextFile
<1>10. CASE Rename
  <2>1. /\ call.i \in 1..MaxFiles /\ Log[call.i] = <<>> /\ buffer = <<>>
        /\ Log' = [Log EXCEPT ![call.i] = Log[call.i - 1], ![call.i - 1] = <<>>]
    BY <1>0, <1>2, <1>10, LogRename
  <2>2. /\ files' = [files EXCEPT ![call.i] = files[call.i - 1], ![call.i - 1] = NoFile]
        /\ Exists(call.i - 1) /\ call'.length = call.length /\ pc = "rename"
    BY <1>2, <1>10 DEF Rename, TypeOK, Shape
  <2>3. OldFiles' = (OldFiles \ {call.i - 1}) \cup {call.i}
    <3>1. \A i \in 1..MaxFiles : files'[i] = IF i = call.i - 1 THEN NoFile
                            ELSE IF i = call.i THEN files[call.i - 1] ELSE files[i]
      BY <2>1, <2>2 DEF TypeOK
    <3>2. \A i \in 1..MaxFiles : Exists(i)' <=> i # call.i - 1 /\ (i = call.i \/ Exists(i))
      BY <2>1, <2>2, <3>1 DEF Exists
    <3>3. call.i # call.i - 1
      BY <2>1
    <3>4. QED
      BY <2>1, <3>2, <3>3 DEF OldFiles
  <2>4. Log[call.i - 1] # <<>>
    <3>1. call.i - 1 \in 0..MaxFiles /\ (call.i # 1 => call.i - 1 \in 1..MaxFiles)
      BY <2>1
    <3>2. files[call.i - 1] # <<>>
      BY <2>2, <3>1 DEF NonEmpty
    <3>3. Content(call.i - 1) \in Seq(Records) \ {<<>>}
      BY <2>2, <3>1, <3>2, LogType DEF Content
    <3>4. QED
      BY <2>1, <3>1, <3>3 DEF Log
  <2>5. call.i = 1 => Bytes(Log[0]) + call.length > MaxSize
    BY <1>2, <2>2 DEF NextDoesNotFit
  <2>6. call.i # 1 => call.i - 1 \in OldFiles
    BY <2>1, <2>2 DEF OldFiles
  <2>7. QED
    BY <1>0, <1>3, <2>1, <2>2, <2>3, <2>4, <2>5, <2>6, FullMove
<1>11. QED
  BY <1>4, <1>6, <1>7, <1>8, <1>9, <1>10 DEF Next, Rotate

-----------------------------------------------------------------------------
(* What a step removes from the log. *)

Numbers(l) ==
    {n \in 1..MaxRecords : \E i \in 0..MaxFiles : \E p \in DOMAIN l[i] : l[i][p][1] = n}

\* What file k loses when it is cut to f comes after all of f.
LEMMA CutNumbers ==
    ASSUME NEW l \in Logs, NEW k \in 0..MaxFiles, NEW f \in Seq(Records), Begins(f, l[k]),
           NEW n \in Numbers(l), n \notin Numbers([l EXCEPT ![k] = f])
    PROVE  \E q \in DOMAIN l[k] : q > Len(f) /\ l[k][q][1] = n
<1> DEFINE m == [l EXCEPT ![k] = f]
<1>1. \A i \in 0..MaxFiles : m[i] = IF i = k THEN f ELSE l[i]
  BY DEF Logs
<1> HIDE DEF m
<1>2. PICK i \in 0..MaxFiles : \E p \in DOMAIN l[i] : l[i][p][1] = n
  BY DEF Numbers
<1>3. PICK p \in DOMAIN l[i] : l[i][p][1] = n
  BY <1>2
<1>4. n \in 1..MaxRecords /\ \A j \in 0..MaxFiles : \A q \in DOMAIN m[j] : m[j][q][1] # n
  BY DEF Numbers, m
<1>5. i = k
  BY <1>1, <1>3, <1>4
<1>6. p \in 1..Len(l[k])
  BY <1>3, <1>5 DEF Logs
<1>7. ~(p \in 1..Len(f))
  <2>1. SUFFICES ASSUME p \in 1..Len(f) PROVE FALSE
    OBVIOUS
  <2>2. p \in DOMAIN m[k] /\ m[k][p] = l[k][p]
    BY <1>1, <2>1 DEF Begins
  <2>3. QED
    BY <1>3, <1>4, <1>5, <2>2
<1>8. QED
  BY <1>3, <1>5, <1>6, <1>7

\* So what the newest file loses is newer than all that stays.
LEMMA CutNewest ==
    ASSUME NEW l \in Logs, Ordered(l), NEW f \in Seq(Records), Begins(f, l[0]),
           NEW n \in Numbers(l) \ Numbers([l EXCEPT ![0] = f]),
           NEW x \in Numbers([l EXCEPT ![0] = f])
    PROVE  n > x
<1> DEFINE m == [l EXCEPT ![0] = f]
<1>0. 0 \in 0..MaxFiles /\ MaxFiles \in Nat
  BY FileAssumption
<1>1. PICK q \in DOMAIN l[0] : q > Len(f) /\ l[0][q][1] = n
  BY <1>0, CutNumbers
<1>2. PICK i \in 0..MaxFiles : \E p \in DOMAIN m[i] : m[i][p][1] = x
  BY DEF Numbers
<1>3. PICK p \in DOMAIN m[i] : m[i][p][1] = x
  BY <1>2
<1>4. \A j \in 0..MaxFiles : m[j] = IF j = 0 THEN f ELSE l[j]
  BY DEF Logs
<1> HIDE DEF m
<1>5. CASE i = 0
  <2>1. p \in DOMAIN l[0] /\ l[0][p][1] = x /\ p < q
    <3>1. l[0] \in Seq(Records) /\ m[0] = f
      BY <1>0, <1>4 DEF Logs
    <3>2. QED
      BY <1>1, <1>3, <1>5, <3>1 DEF Begins
  <2>2. x < n
    BY <1>0, <1>1, <2>1 DEF Ordered
  <2>3. QED
    BY <2>2 DEF Numbers
<1>6. CASE i # 0
  <2>1. i > 0 /\ p \in DOMAIN l[i] /\ l[i][p][1] = x
    BY <1>0, <1>3, <1>4, <1>6
  <2>2. x < n
    BY <1>0, <1>1, <2>1 DEF Ordered
  <2>3. QED
    BY <2>2 DEF Numbers
<1>7. QED
  BY <1>5, <1>6

\* And what the last file loses is older than all that stays.
LEMMA CutOldest ==
    ASSUME NEW l \in Logs, Ordered(l),
           NEW n \in Numbers(l) \ Numbers([l EXCEPT ![MaxFiles] = <<>>]),
           NEW x \in Numbers([l EXCEPT ![MaxFiles] = <<>>])
    PROVE  n < x /\ l[MaxFiles] # <<>>
<1> DEFINE m == [l EXCEPT ![MaxFiles] = <<>>]
<1>0. MaxFiles \in Nat /\ MaxFiles \in 0..MaxFiles /\ <<>> \in Seq(Records)
  BY FileAssumption
<1>1. Begins(<<>>, l[MaxFiles])
  BY <1>0 DEF Begins, Logs
<1>2. PICK q \in DOMAIN l[MaxFiles] : l[MaxFiles][q][1] = n
  <2>1. n \in Numbers(l) /\ n \notin Numbers(m)
    OBVIOUS
  <2>2. PICK f \in Seq(Records) : f = <<>>
    BY <1>0
  <2>3. Begins(f, l[MaxFiles]) /\ n \notin Numbers([l EXCEPT ![MaxFiles] = f])
    BY <1>1, <2>1, <2>2
  <2>4. QED
    BY <1>0, <2>1, <2>3, CutNumbers
<1>3. PICK i \in 0..MaxFiles : \E p \in DOMAIN m[i] : m[i][p][1] = x
  BY DEF Numbers
<1>4. PICK p \in DOMAIN m[i] : m[i][p][1] = x
  BY <1>3
<1>5. \A j \in 0..MaxFiles : m[j] = IF j = MaxFiles THEN <<>> ELSE l[j]
  BY DEF Logs
<1> HIDE DEF m
<1>6. i < MaxFiles /\ p \in DOMAIN l[i] /\ l[i][p][1] = x
  BY <1>0, <1>4, <1>5
<1>7. n < x
  BY <1>0, <1>2, <1>6 DEF Ordered
<1>8. QED
  BY <1>2, <1>7

LEMMA LosesStep ==
    ASSUME TypeOK, Shape, OldestFirst, NonEmpty, OneGap, Next,
           KeptNumbers \ KeptNumbers' # {}
    PROVE  \/ /\ Exists(MaxFiles) /\ Exists(MaxFiles - 1)
              /\ trouble \cap {"rename", "crash"} = {} => \A i \in 0..MaxFiles : Exists(i)
              /\ \A n \in KeptNumbers \ KeptNumbers', m \in KeptNumbers' : n < m
           \/ /\ faults' # faults \/ pc = "truncate"
              /\ \A n \in KeptNumbers \ KeptNumbers', m \in KeptNumbers' : n > m
<1>1. /\ TypeOK' /\ 0 \in 0..MaxFiles /\ Log \in Logs /\ Log' \in Logs
      /\ MaxFiles \in Nat /\ <<>> \in Seq(Records)
  BY TypeKept, LogType, LogTypedNext, FileAssumption
<1>2. Ordered(Log)
  BY DEF OldestFirst, Ordered
<1>3. KeptNumbers = Numbers(Log) /\ KeptNumbers' = Numbers(Log')
  BY DEF KeptNumbers, Numbers
<1>4. Log' # Log
  BY <1>3
<1>5. ASSUME NEW f \in Seq(Records), Begins(f, Log[0]), Log' = [Log EXCEPT ![0] = f]
      PROVE  \A n \in KeptNumbers \ KeptNumbers', m \in KeptNumbers' : n > m
  BY <1>1, <1>2, <1>3, <1>5, CutNewest
<1>6. CASE Store
  <2>1. /\ Log' = [Log EXCEPT ![0] = Append(@, Record)]
        /\ Record \in Records
    BY <1>1, <1>4, <1>6, LogStore
  <2>2. \A i \in 0..MaxFiles : \A p \in DOMAIN Log[i] : p \in DOMAIN Log'[i] /\ Log'[i][p] = Log[i][p]
    <3>1. Log[0] \in Seq(Records)
      BY <1>1 DEF Logs
    <3>2. /\ Append(Log[0], Record) \in Seq(Records)
          /\ Len(Append(Log[0], Record)) = Len(Log[0]) + 1
          /\ \A p \in 1..Len(Log[0]) : Append(Log[0], Record)[p] = Log[0][p]
      BY <2>1, <3>1, AppendProperties
    <3>3. Log'[0] = Append(Log[0], Record) /\ \A i \in 0..MaxFiles : i # 0 => Log'[i] = Log[i]
      BY <1>1, <2>1 DEF Logs
    <3>4. \A p \in DOMAIN Log[0] : p \in DOMAIN Log'[0] /\ Log'[0][p] = Log[0][p]
      BY <3>1, <3>2, <3>3
    <3>5. QED
      BY <3>3, <3>4
  <2>3. Numbers(Log) \subseteq Numbers(Log')
    BY <2>2 DEF Numbers
  <2>4. QED
    BY <1>3, <2>3
<1>7. CASE NextFile
  <2>1. /\ call.i \in 1..MaxFiles /\ Exists(call.i - 1) /\ pc = "rotate"
        /\ Log' = [Log EXCEPT ![call.i] = <<>>]
    BY <1>1, <1>4, <1>7, LogNextFile DEF NextFile
  <2>2. Log[call.i] # <<>>
    BY <1>1, <1>4, <2>1 DEF Logs
  <2>3. Exists(call.i)
    BY <2>1, <2>2, LogType DEF Content
  <2>4. call.i = MaxFiles
    BY <1>1, <2>1, <2>3 DEF Shape
  <2>5. trouble \cap {"rename", "crash"} = {} => \A i \in 0..MaxFiles : Exists(i)
    <3>1. \A i \in 0..MaxFiles : i = MaxFiles \/ i < MaxFiles
      BY <1>1
    <3>2. MaxFiles \in 0..MaxFiles
      BY <1>1
    <3>3. QED
      BY <2>3, <2>4, <3>1, <3>2 DEF OneGap
  <2>6. \A n \in KeptNumbers \ KeptNumbers', m \in KeptNumbers' : n < m
    BY <1>1, <1>2, <1>3, <2>1, <2>4, CutOldest
  <2>7. QED
    BY <2>1, <2>3, <2>4, <2>5, <2>6
<1>8. CASE Rename
  <2>1. /\ call.i \in 1..MaxFiles /\ Log[call.i] = <<>>
        /\ Log' = [Log EXCEPT ![call.i] = Log[call.i - 1], ![call.i - 1] = <<>>]
    BY <1>1, <1>4, <1>8, LogRename
  <2>2. /\ call.i \in 0..MaxFiles /\ call.i - 1 \in 0..MaxFiles /\ call.i # call.i - 1
    BY <1>1, <2>1
  <2>3. /\ Log'[call.i] = Log[call.i - 1]
        /\ \A i \in 0..MaxFiles : i # call.i - 1 => i = call.i \/ Log'[i] = Log[i]
    BY <1>1, <2>1, <2>2 DEF Logs
  <2>4. \A i \in 0..MaxFiles : Log[i] = <<>> \/ \E j \in 0..MaxFiles : Log'[j] = Log[i]
    BY <2>1, <2>2, <2>3
  <2>5. Numbers(Log) \subseteq Numbers(Log')
    BY <2>4 DEF Numbers
  <2>6. QED
    BY <1>3, <2>5
<1>9. CASE Truncate
  <2>1. pc = "truncate" /\ Log' = [Log EXCEPT ![0] = <<>>]
    BY <1>1, <1>4, <1>9, LogTruncate DEF Truncate
  <2>2. Begins(<<>>, Log[0])
    BY <1>1 DEF Begins, Logs
  <2>3. QED
    BY <1>1, <1>5, <2>1, <2>2
<1>10. CASE Crash \/ (Close /\ faults' # faults)
  <2>1. faults' # faults
    BY <1>10, FileAssumption DEF Crash, Fault, TypeOK
  <2>2. Content(0) \in Seq(Records)
    BY <1>1, LogType
  <2>3. QED
    BY <1>1, <1>5, <1>10, <2>1, <2>2, LogCut
<1>11. CASE \/ Start \/ Flush \/ Drain \/ Reopen \/ (Close /\ faults' = faults)
            \/ \E n \in RecordSizes : Sink(n)
  BY <1>1, <1>4, <1>11, LogSame
<1>12. QED
  BY <1>6, <1>7, <1>8, <1>9, <1>10, <1>11 DEF Next, Rotate

-----------------------------------------------------------------------------
LEMMA InitInvariant ==
    ASSUME Init
    PROVE  IInv
<1> USE FileAssumption
<1>1. 0 \in 0..MaxFiles /\ <<>> \in Seq(Records) /\ MaxSize \in Nat
  OBVIOUS
<1>2. TypeOK
  <2>1. files \in [0..MaxFiles -> Seq(Records) \cup {NoFile}]
    BY DEF Init
  <2>2. call \in [length : Nat, new : Nat, i : 0..MaxFiles]
    BY <1>1 DEF Init, NoCall
  <2>3. 0 \in 0..MaxRecords /\ 0 \in 0..MaxFaults /\ 0 \in Nat
    OBVIOUS
  <2>4. QED
    BY <1>1, <2>1, <2>2, <2>3 DEF Init, TypeOK
<1>3. Shape
  BY DEF Init, Shape, NoCall
<1>4. \A i \in 0..MaxFiles : ~Exists(i) /\ Log[i] = <<>>
  BY DEF Init, Log, Content, Exists
<1>5. OldestFirst /\ NumbersBelow
  BY <1>4 DEF OldestFirst, NumbersBelow, Below
<1>6. SizeBounded
  BY <1>1, <1>4, BytesEmpty DEF SizeBounded
<1>7. Counted
  BY DEF Init, Counted
<1>8. NonEmpty /\ OneGap /\ OldFilesFull
  BY <1>4 DEF NonEmpty, OneGap, OldFilesFull, Init
<1>9. NextDoesNotFit
  BY <1>4 DEF NextDoesNotFit, Init
<1>10. QED
  BY <1>2, <1>3, <1>5, <1>6, <1>7, <1>8, <1>9 DEF IInv

LEMMA StepInvariant ==
    ASSUME IInv, [Next]_vars
    PROVE  IInv'
<1>1. CASE Next
  <2>1. TypeOK' /\ Shape'
    BY <1>1, TypeKept, ShapeKept DEF IInv
  <2>2. OldestFirst' /\ NumbersBelow'
    BY <1>1, OrderKept DEF IInv
  <2>3. SizeBounded' /\ Counted'
    BY <1>1, SizeKept, CountedKept DEF IInv
  <2>4. NonEmpty' /\ OneGap' /\ NextDoesNotFit' /\ OldFilesFull'
    BY <1>1, NonEmptyKept, OneGapKept, NextDoesNotFitKept, OldFilesFullKept DEF IInv
  <2>5. QED
    BY <2>1, <2>2, <2>3, <2>4 DEF IInv
<1>2. CASE UNCHANGED vars
  <2>1. Log' = Log
    BY <1>2 DEF vars, Log, Content, Exists
  <2>2. TypeOK' /\ Shape'
    BY <1>2 DEF IInv, vars, history, TypeOK, Shape, Exists
  <2>3. OldestFirst' /\ NumbersBelow'
    BY <1>2, <2>1 DEF IInv, vars, OldestFirst, NumbersBelow, NextNumber
  <2>4. SizeBounded' /\ Counted'
    BY <1>2, <2>1 DEF IInv, vars, history, SizeBounded, Counted
  <2>5. NonEmpty' /\ OneGap'
    BY <1>2 DEF IInv, vars, history, NonEmpty, OneGap, Exists
  <2>6. NextDoesNotFit' /\ OldFilesFull'
    BY <1>2, <2>1 DEF IInv, vars, history, NextDoesNotFit, OldFilesFull, Exists
  <2>7. QED
    BY <2>2, <2>3, <2>4, <2>5, <2>6 DEF IInv
<1>3. QED
  BY <1>1, <1>2

LEMMA FileInvariant == Spec => []IInv
BY InitInvariant, StepInvariant, PTL DEF Spec

\* The types of the state; only an open file has something in its buffer.
THEOREM FileTypes == Spec => []TypeOK
BY FileInvariant, PTL DEF IInv

\* rotate_ keeps the records of all files in order, whatever fails or crashes.
THEOREM LogInOrder == Spec => []OldestFirst
BY FileInvariant, PTL DEF IInv

\* sink_it_ lets no file grow beyond its limit, unless it is one long record.
THEOREM FilesLimited == Spec => []SizeBounded
BY FileInvariant, PTL DEF IInv

\* Where nothing fails, sink_it_ rotates only a file the next record does not fit into.
THEOREM OldFilesAreFull == Spec => []OldFilesFull
BY FileInvariant, PTL DEF IInv

\* No step loses a record from the middle of the log, nor the oldest ones but for the
\* last file of a rotation.
THEOREM OnlyEndsLost == Spec => LosesOnlyEnds
<1>1. ASSUME IInv, [Next]_vars
      PROVE  LET gone == KeptNumbers \ KeptNumbers' IN
             gone # {} =>
               \/ /\ Exists(MaxFiles) /\ Exists(MaxFiles - 1)
                  /\ trouble \cap {"rename", "crash"} = {} => \A i \in 0..MaxFiles : Exists(i)
                  /\ \A n \in gone, m \in KeptNumbers' : n < m
               \/ /\ faults' # faults \/ pc = "truncate"
                  /\ \A n \in gone, m \in KeptNumbers' : n > m
  <2>1. CASE Next
    BY <1>1, <2>1, LosesStep DEF IInv
  <2>2. CASE UNCHANGED vars
    BY <2>2 DEF vars, KeptNumbers, Log, Content, Exists
  <2>3. QED
    BY <1>1, <2>1, <2>2
<1>2. QED
  BY <1>1, FileInvariant, PTL DEF Spec, LosesOnlyEnds

================================================================================
