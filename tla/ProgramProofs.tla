----------------------------- MODULE ProgramProofs -----------------------------
(***************************************************************************)
(* Proofs about GrpcServer, for any number of workers and signals, whether *)
(* or not the watcher could be started, and about Program, for every       *)
(* command line and configuration file. What is proved of GrpcServer alone *)
(* holds of the server that main starts.                                   *)
(***************************************************************************)
EXTENDS Program, WellFoundedInduction, TLAPS

-----------------------------------------------------------------------------
(* The server *)

\* The watcher passes its loop, and the server stops, only after stop() ran.
StopFollowsSignal ==
    /\ watcher \in {"stopping", "shutting"} => status
    /\ OnlySignalStops

\* How the progress of main, watcher and server fit together.
Phases ==
    /\ main \in {"building", "spawning"} => watcher = "none"
    /\ main = "building" => server = "none"
    /\ main = "spawning" => server \in {"serving", "null"}
    /\ main \in {"joining", "leaving"} => server = "down"
    /\ main \in {"leaving", "exited"} => watcher = "done"
    /\ server = "destroyed" <=> main = "exited"
    /\ watcher = "shutting" => server \in {"draining", "down"}
    /\ server = "draining" => watcher = "shutting"
    /\ server \in {"none", "null", "down", "destroyed"} => busy = {}
    /\ watcher \in {"check", "asleep", "stopping"} => server \in {"serving", "null"}

ServerInv ==
    /\ TypeOK
    /\ StopFollowsSignal
    /\ Phases

LEMMA NoSignalYet == 0 \in 0..MaxSignals
BY ThreadsAssumption

LEMMA InitServer == Init => ServerInv
<1> SUFFICES ASSUME Init PROVE ServerInv
  OBVIOUS
<1> USE ThreadsAssumption DEF Init
<1>1. TypeOK
  BY NoSignalYet DEF TypeOK, HandlerExclusion
<1>2. StopFollowsSignal /\ Phases
  BY DEF StopFollowsSignal, OnlySignalStops, Phases
<1>3. QED
  BY <1>1, <1>2 DEF ServerInv

\* The signal handlers touch only the flag, which they set.
LEMMA SignalKeeps ==
    ASSUME ServerInv, NEW t \in Threads, Interrupt(t) \/ HandlerStep(t)
    PROVE  ServerInv'
<1> USE DEF ServerInv, threads
<1>1. CASE Interrupt(t)
  <2> USE <1>1 DEF Interrupt
  <2>1. signals' \in 0..MaxSignals
    BY ThreadsAssumption DEF TypeOK
  <2>2. HandlerExclusion'
    BY DEF HandlerExclusion, TypeOK, Runs
  <2>3. TypeOK'
    BY <2>1, <2>2 DEF TypeOK
  <2>4. StopFollowsSignal' /\ Phases'
    BY DEF StopFollowsSignal, OnlySignalStops, Phases
  <2>5. QED
    BY <2>2, <2>3, <2>4
<1>2. CASE Lock(t)
  <2> USE <1>2 DEF Lock
  <2>1. TypeOK'
    BY ThreadsAssumption DEF TypeOK, HandlerExclusion
  <2>2. StopFollowsSignal' /\ Phases'
    BY DEF StopFollowsSignal, OnlySignalStops, Phases
  <2>3. QED
    BY <2>1, <2>2
<1>3. CASE Stop(t)
  <2> USE <1>3 DEF Stop
  <2>1. TypeOK'
    BY ThreadsAssumption DEF TypeOK, HandlerExclusion
  <2>2. StopFollowsSignal' /\ Phases'
    BY DEF StopFollowsSignal, OnlySignalStops, Phases
  <2>3. QED
    BY <2>1, <2>2
<1>4. QED
  BY <1>1, <1>2, <1>3 DEF HandlerStep

\* The other steps leave the flag and the handlers alone.
LEMMA ThreadKeeps ==
    ASSUME ServerInv, UNCHANGED signal,
           \/ MainStep
           \/ WatcherStep
           \/ \E w \in Worker : Accept(w) \/ Finish(w) \/ Abort(w)
    PROVE  ServerInv'
<1> USE DEF ServerInv, signal
<1>1. HandlerExclusion'
  BY DEF TypeOK, HandlerExclusion
<1> USE DEF TypeOK, StopFollowsSignal, OnlySignalStops, Phases
<1>2. CASE MainStep
  <2>1. TypeOK'
    BY <1>1, <1>2 DEF MainStep, Build, Spawn, WaitNull, Wait, Join, Leave
  <2>2. StopFollowsSignal'
    BY <1>2 DEF MainStep, Build, Spawn, WaitNull, Wait, Join, Leave
  <2>3. Phases'
    <3>1. CASE Build \/ Spawn
      BY <3>1 DEF Build, Spawn
    <3>2. CASE WaitNull \/ Wait
      BY <3>2 DEF WaitNull, Wait
    <3>3. CASE Join \/ Leave
      BY <3>3 DEF Join, Leave
    <3>4. QED
      BY <1>2, <3>1, <3>2, <3>3 DEF MainStep
  <2>4. QED
    BY <2>1, <2>2, <2>3
<1>3. CASE WatcherStep
  <2>1. TypeOK' /\ StopFollowsSignal'
    BY <1>1, <1>3 DEF WatcherStep, Check, Wake, Shutdown, Drained, ShutdownReturns
  <2>2. Phases'
    <3>1. CASE Check \/ Wake
      BY <3>1 DEF Check, Wake
    <3>2. CASE Shutdown
      BY <3>2 DEF Shutdown
    <3>3. CASE Drained \/ ShutdownReturns
      BY <3>3 DEF Drained, ShutdownReturns
    <3>4. QED
      BY <1>3, <3>1, <3>2, <3>3 DEF WatcherStep
  <2>3. QED
    BY <2>1, <2>2
<1>4. ASSUME NEW w \in Worker, Accept(w) \/ Finish(w) \/ Abort(w)
      PROVE  ServerInv'
  <2>1. TypeOK' /\ StopFollowsSignal' /\ Phases'
    BY <1>1, <1>4 DEF Accept, Finish, Abort
  <2>2. QED
    BY <2>1
<1>5. QED
  BY <1>2, <1>3, <1>4

LEMMA NextServer == ServerInv /\ [Next]_vars => ServerInv'
<1> SUFFICES ASSUME ServerInv, [Next]_vars PROVE ServerInv'
  OBVIOUS
<1>1. CASE MainStep \/ WatcherStep \/ \E w \in Worker : Accept(w) \/ Finish(w) \/ Abort(w)
  <2>1. UNCHANGED signal
    BY <1>1
    DEF MainStep, Build, Spawn, WaitNull, Wait, Join, Leave, WatcherStep, Check,
        Wake, Shutdown, Drained, ShutdownReturns, Accept, Finish, Abort
  <2>2. QED
    BY <1>1, <2>1, ThreadKeeps
<1>2. ASSUME NEW t \in Threads, Interrupt(t) \/ HandlerStep(t)
      PROVE  ServerInv'
  BY <1>2, SignalKeeps
<1>3. CASE UNCHANGED vars
  BY <1>3
  DEF vars, threads, signal, ServerInv, TypeOK, HandlerExclusion,
      StopFollowsSignal, OnlySignalStops, Phases
<1>4. QED
  BY <1>1, <1>2, <1>3 DEF Next, Halted

THEOREM ServerInvariance == Spec => []ServerInv
BY InitServer, NextServer, PTL DEF Spec

\* The types, and that mtx_ belongs to the thread inside status_t::stop.
THEOREM ServerTypeCorrect == Spec => []TypeOK
<1>1. ServerInv => TypeOK
  BY DEF ServerInv
<1>2. QED
  BY <1>1, ServerInvariance, PTL

\* When start_grpc_server destroys the server and the service, no handler runs
\* and the watcher has returned from Shutdown.
THEOREM NoUseAfterDestruction == Spec => []ServerOutlivesUse
<1>1. ServerInv => ServerOutlivesUse
  BY DEF ServerInv, Phases, ServerOutlivesUse
<1>2. QED
  BY <1>1, ServerInvariance, PTL

\* Nothing but SIGINT stops the server.
THEOREM StopsOnlyOnSignal == Spec => []OnlySignalStops
<1>1. ServerInv => OnlySignalStops
  BY DEF ServerInv, StopFollowsSignal
<1>2. QED
  BY <1>1, ServerInvariance, PTL

-----------------------------------------------------------------------------
(* The server within the program *)

LEMMA StartsServer == ProgramInit => Init
BY DEF ProgramInit

LEMMA StepsServer == [ProgramNext]_all => [Next]_vars
BY DEF ProgramNext, Serving, Ended, all

\* main does to the server what GrpcServer says, or leaves it alone.
THEOREM ProgramRunsServer == ProgramSpec => Spec
BY StartsServer, StepsServer, PTL DEF ProgramSpec, Spec

-----------------------------------------------------------------------------
Phase == {"parse", "load", "logs", "level", "signal", "serving", "exited", "killed", "aborted"}

\* The phases, and the reason of the exit status.
EndInv ==
    /\ phase \in Phase
    /\ ZeroIsSuccess

LEMMA InitEnd == ProgramInit => EndInv
BY DEF ProgramInit, Init, EndInv, Phase, ZeroIsSuccess

\* A server that has come to its end was stopped.
LEMMA EndedByStop ==
    ASSUME ServerInv, main = "exited"
    PROVE  status
BY DEF ServerInv, Phases, StopFollowsSignal, OnlySignalStops

LEMMA StartKeeps ==
    ASSUME ServerInv, EndInv, StartStep \/ Kill, UNCHANGED vars
    PROVE  EndInv'
<1> USE DEF EndInv, Phase, vars, threads, signal
<1>1. CASE ParseOptions
  <2>1. UNCHANGED cmd
    BY <1>1 DEF ParseOptions
  <2>2. phase' = "exited" /\ code' = 0 => Has("help") \/ Has("version")
    BY <1>1 DEF ParseOptions, Exit
  <2>3. phase' \in {"load", "exited"} /\ phase = "parse"
    BY <1>1 DEF ParseOptions, Exit
  <2>4. QED
    BY <2>1, <2>2, <2>3 DEF ZeroIsSuccess, Has
<1>2. CASE LoadConfig
  BY <1>2 DEF LoadConfig, Exit, ZeroIsSuccess
<1>3. CASE InitLogs \/ SetLevel \/ InitLoopSignal \/ Kill
  BY <1>3 DEF InitLogs, SetLevel, InitLoopSignal, Kill, ZeroIsSuccess
<1>4. CASE ReturnFromMain
  BY <1>4, EndedByStop DEF ReturnFromMain, Exit, ZeroIsSuccess
<1>5. QED
  BY <1>1, <1>2, <1>3, <1>4 DEF StartStep

LEMMA NextEnd == ServerInv /\ EndInv /\ [ProgramNext]_all => EndInv'
<1> SUFFICES ASSUME ServerInv, EndInv, [ProgramNext]_all PROVE EndInv'
  OBVIOUS
<1>1. CASE (StartStep \/ Kill) /\ UNCHANGED vars
  BY <1>1, StartKeeps
<1>2. CASE Serving(Next)
  BY <1>2 DEF Serving, start, EndInv, Phase, ZeroIsSuccess
<1>3. CASE UNCHANGED all
  BY <1>3 DEF all, start, vars, threads, signal, EndInv, Phase, ZeroIsSuccess, Has
<1>4. QED
  BY <1>1, <1>2, <1>3 DEF ProgramNext, Ended

LEMMA ProgramInvariance == ProgramSpec => [](ServerInv /\ EndInv)
<1>1. ProgramSpec => []ServerInv
  BY ProgramRunsServer, ServerInvariance, PTL
<1>2. QED
  BY <1>1, InitEnd, NextEnd, PTL DEF ProgramSpec

\* Status 0 after the usage, the version or a SIGINT, and never else.
THEOREM ZeroHasAReason == ProgramSpec => []ZeroIsSuccess
<1>1. EndInv => ZeroIsSuccess
  BY DEF EndInv
<1>2. QED
  BY <1>1, ProgramInvariance, PTL

-----------------------------------------------------------------------------
(* Induction over the naturals, without a predicate as a parameter: a set with 0 and *)
(* the successors of its members has them all. *)

\* A set of naturals has a least member, for < is well-founded.
LEMMA Least ==
    ASSUME NEW T, T \subseteq Nat, T # {}
    PROVE  \E m \in T : \A n \in T : m <= n
<1> DEFINE less == {ss \in Nat \X Nat : ss[1] < ss[2]}
<1>1. IsWellFoundedOn(less, Nat)
  BY NatLessThanWellFounded, Zenon DEF OpToRel
<1>2. \E m \in T : \A n \in T : <<n, m>> \notin less
  <2> HIDE DEF less
  <2>1. QED
    BY <1>1, WFMin
<1>3. PICK m \in T : \A n \in T : <<n, m>> \notin less
  BY <1>2
<1>4. ASSUME NEW n \in T, n < m
      PROVE  <<n, m>> \in less
  BY <1>4
<1>5. ASSUME NEW n \in T
      PROVE  m <= n
  <2> HIDE DEF less
  <2>1. ~(n < m)
    BY <1>3, <1>4, Zenon
  <2>2. m \in Nat /\ n \in Nat
    OBVIOUS
  <2>3. QED
    BY <2>1, <2>2
<1>6. QED
  BY <1>5

LEMMA Induction ==
    ASSUME NEW S, 0 \in S, \A n \in Nat : n \in S => n + 1 \in S
    PROVE  Nat \subseteq S
<1> SUFFICES ASSUME Nat \ S # {} PROVE FALSE
  OBVIOUS
<1>1. PICK m \in Nat \ S : \A n \in Nat \ S : m <= n
  BY Least
<1>2. m - 1 \in Nat /\ m - 1 \in S
  BY <1>1
<1>3. QED
  BY <1>1, <1>2

-----------------------------------------------------------------------------
(* The options *)

\* s has the options after each of the first n arguments.
Steps(s, n) ==
    s = [k \in 0..n |-> IF k = 0 THEN NoOptions ELSE Assign(s[k - 1], cmd[k])]

LEMMA StepsExist == \A n \in Nat : \E s : Steps(s, n)
<1> DEFINE S == {n \in Nat : \E s : Steps(s, n)}
<1>1. 0 \in S
  <2>1. Steps([k \in 0..0 |-> NoOptions], 0)
    BY DEF Steps
  <2>2. QED
    BY <2>1
<1>2. ASSUME NEW n \in Nat, n \in S
      PROVE  n + 1 \in S
  <2>1. PICK s : Steps(s, n)
    BY <1>2
  <2> DEFINE t == [k \in 0..(n + 1) |-> IF k = n + 1 THEN Assign(s[n], cmd[k]) ELSE s[k]]
  <2>2. ASSUME NEW k \in 0..(n + 1)
        PROVE  t[k] = IF k = 0 THEN NoOptions ELSE Assign(t[k - 1], cmd[k])
    BY <2>1 DEF Steps
  <2>3. Steps(t, n + 1)
    BY <2>2 DEF Steps
  <2>4. QED
    BY <2>3
<1> HIDE DEF S
<1>3. Nat \subseteq S
  BY <1>1, <1>2, Induction
<1>4. QED
  BY <1>3 DEF S

LEMMA ParsedSteps ==
    ASSUME Len(cmd) \in Nat
    PROVE  \E s : Steps(s, Len(cmd)) /\ Parsed = s[Len(cmd)]
<1> DEFINE s == CHOOSE s : Steps(s, Len(cmd))
<1>1. Steps(s, Len(cmd))
  BY StepsExist
<1>2. Parsed = s[Len(cmd)]
  BY DEF Parsed, Steps
<1>3. QED
  BY <1>1, <1>2

\* Among the first n arguments, i is the last that sets option o.
Sets(i, o, n) ==
    /\ i \in 1..n /\ cmd[i][1] = o
    /\ \A j \in (i + 1)..n : cmd[j][1] # o

LEMMA StepsLast ==
    ASSUME NEW n \in Nat, NEW s, Steps(s, n)
    PROVE  \A k \in 0..n : \A o \in Options :
               /\ \A i \in 1..k : Sets(i, o, k) => s[k][o] = cmd[i][2]
               /\ (\A i \in 1..k : cmd[i][1] # o) => s[k][o] = NoOptions[o]
<1> DEFINE Good(k) ==
        /\ DOMAIN s[k] = Options
        /\ \A o \in Options :
               /\ \A i \in 1..k : Sets(i, o, k) => s[k][o] = cmd[i][2]
               /\ (\A i \in 1..k : cmd[i][1] # o) => s[k][o] = NoOptions[o]
           S == {k \in Nat : k <= n => Good(k)}
<1>1. 0 \in S
  BY DEF Steps, NoOptions
<1>2. ASSUME NEW k \in Nat, k \in S
      PROVE  k + 1 \in S
  <2>1. SUFFICES ASSUME k + 1 <= n PROVE Good(k + 1)
    OBVIOUS
  <2>2. Good(k) /\ k + 1 \in 0..n
    BY <1>2, <2>1
  <2>0. s[k + 1] = Assign(s[k], cmd[k + 1])
    BY <2>2 DEF Steps
  <2>3. s[k + 1] = IF cmd[k + 1][1] \in Options
                   THEN [s[k] EXCEPT ![cmd[k + 1][1]] = cmd[k + 1][2]] ELSE s[k]
    BY <2>0 DEF Assign
  <2>4. DOMAIN s[k + 1] = Options
    BY <2>2, <2>3
  <2>5. ASSUME NEW o \in Options
        PROVE  /\ \A i \in 1..(k + 1) : Sets(i, o, k + 1) => s[k + 1][o] = cmd[i][2]
               /\ (\A i \in 1..(k + 1) : cmd[i][1] # o) => s[k + 1][o] = NoOptions[o]
    <3>1. CASE cmd[k + 1][1] = o
      <4>1. s[k + 1][o] = cmd[k + 1][2]
        BY <2>2, <2>3, <3>1
      <4>2. ASSUME NEW i \in 1..(k + 1), Sets(i, o, k + 1)
            PROVE  i = k + 1
        BY <3>1, <4>2 DEF Sets
      <4>3. QED
        BY <3>1, <4>1, <4>2
    <3>2. CASE cmd[k + 1][1] # o
      <4>1. s[k + 1][o] = s[k][o]
        BY <2>2, <2>3, <3>2
      <4>2. ASSUME NEW i \in 1..(k + 1), Sets(i, o, k + 1)
            PROVE  i \in 1..k /\ Sets(i, o, k)
        BY <3>2, <4>2 DEF Sets
      <4>3. QED
        BY <2>2, <4>1, <4>2
    <3>3. QED
      BY <3>1, <3>2
  <2>6. QED
    BY <2>4, <2>5
<1> HIDE DEF S
<1>3. Nat \subseteq S
  BY <1>1, <1>2, Induction
<1>4. QED
  BY <1>3 DEF S

\* A set of places among the arguments that is not empty has a last one.
LEMMA LastPlace ==
    ASSUME NEW n \in Nat, NEW P, P \subseteq 1..n, P # {}
    PROVE  \E i \in P : \A j \in P : j <= i
<1> DEFINE D == {d \in Nat : \E i \in P : d = n - i}
<1>1. D # {}
  <2>1. PICK i \in P : TRUE
    OBVIOUS
  <2>2. n - i \in D
    BY <2>1
  <2>3. QED
    BY <2>2
<1>2. PICK d \in D : \A e \in D : d <= e
  BY <1>1, Least
<1>3. PICK i \in P : d = n - i
  BY <1>2
<1>4. ASSUME NEW j \in P
      PROVE  j <= i
  <2>1. n - j \in D
    OBVIOUS
  <2>2. QED
    BY <1>2, <1>3, <2>1
<1>5. QED
  BY <1>3, <1>4

\* The options are what the last argument for each of them says.
LEMMA ParsedIsLast ==
    ASSUME Len(cmd) \in Nat, DOMAIN cmd = 1..Len(cmd), NEW o \in Options
    PROVE  Parsed[o] = LastArgument(o)
<1> DEFINE P == {i \in DOMAIN cmd : cmd[i][1] = o}
           n == Len(cmd)
<1>1. PICK s : Steps(s, n) /\ Parsed = s[n]
  BY ParsedSteps
<1>2. /\ \A i \in 1..n : Sets(i, o, n) => Parsed[o] = cmd[i][2]
      /\ (\A i \in 1..n : cmd[i][1] # o) => Parsed[o] = NoOptions[o]
  <2>1. n \in 0..n
    OBVIOUS
  <2>2. QED
    BY <1>1, <2>1, StepsLast
<1>3. CASE P = {}
  BY <1>2, <1>3 DEF LastArgument
<1>4. CASE P # {}
  <2> DEFINE i == CHOOSE i \in P : \A j \in P : j <= i
  <2>1. i \in P /\ \A j \in P : j <= i
    BY <1>4, LastPlace
  <2>2. LastArgument(o) = cmd[i][2]
    BY <1>4 DEF LastArgument
  <2> HIDE DEF i
  <2>3. Sets(i, o, n)
    BY <2>1 DEF Sets
  <2>4. i \in 1..n
    BY <2>1
  <2>5. QED
    BY <1>2, <2>2, <2>3, <2>4
<1>5. QED
  BY <1>3, <1>4

-----------------------------------------------------------------------------
(* What main has done with the options and the file, phase by phase. *)

ToldInv ==
    /\ Len(cmd) \in Nat /\ DOMAIN cmd = 1..Len(cmd)
    /\ phase \in {"load", "logs", "level", "signal", "serving"} =>
          opt = Parsed /\ ~Has("help") /\ ~Has("version") /\ ~Has("faulty")
    /\ phase \in {"logs", "level", "signal", "serving"} => config = Read(file)
    /\ sinks \subseteq
           {"console"} \cup IF phase \in {"parse", "load", "logs"} THEN {}
                            ELSE {FirstText(opt["log-path"], config["base"], DefaultLogs)}
    /\ phase \in {"signal", "serving"} =>
          level = LevelOf(FirstText(opt["log-level"], config["level"], Empty))

LEMMA InitTold == ProgramInit => ToldInv
<1> SUFFICES ASSUME ProgramInit PROVE ToldInv
  OBVIOUS
<1>1. PICK m \in 0..MaxArgs : cmd \in [1..m -> Arguments]
  BY ProgramAssumption DEF ProgramInit, BoundedSeq, SeqOf
<1>2. Len(cmd) = m /\ m \in Nat /\ DOMAIN cmd = 1..m
  BY <1>1, ProgramAssumption
<1>3. QED
  BY <1>2 DEF ProgramInit, ToldInv

LEMMA NextTold == ToldInv /\ [ProgramNext]_all => ToldInv'
<1> SUFFICES ASSUME ToldInv, [ProgramNext]_all PROVE ToldInv'
  OBVIOUS
<1> USE DEF ToldInv
<1>1. cmd' = cmd /\ Parsed' = Parsed /\ \A what : Has(what)' = Has(what)
  <2>1. cmd' = cmd
    BY DEF ProgramNext, StartStep, ParseOptions, LoadConfig, InitLogs, SetLevel, InitLoopSignal,
           ReturnFromMain, Kill, Serving, Ended, all, start
  <2>2. QED
    BY <2>1 DEF Parsed, Has
<1>2. CASE ParseOptions
  BY <1>1, <1>2 DEF ParseOptions, Exit
<1>3. CASE LoadConfig
  BY <1>1, <1>3 DEF LoadConfig, Exit
<1>4. CASE InitLogs
  BY <1>1, <1>4 DEF InitLogs
<1>5. CASE SetLevel
  BY <1>1, <1>5 DEF SetLevel
<1>6. CASE InitLoopSignal
  BY <1>1, <1>6 DEF InitLoopSignal
<1>7. CASE ReturnFromMain \/ Kill
  BY <1>1, <1>7 DEF ReturnFromMain, Kill, Exit
<1>8. CASE UNCHANGED start
  BY <1>1, <1>8 DEF start
<1>9. QED
  BY <1>2, <1>3, <1>4, <1>5, <1>6, <1>7, <1>8 DEF ProgramNext, StartStep, Serving, Ended, all

\* Whoever gets a server gets the one that the options and the file asked for.
THEOREM ServesAsTold == ProgramSpec => []RunsAsTold
<1>1. ToldInv => RunsAsTold
  <2> SUFFICES ASSUME ToldInv, phase = "serving" PROVE RunsAsTold
    BY DEF RunsAsTold
  <2>1. \A o \in Options : opt[o] = LastArgument(o)
    BY ParsedIsLast DEF ToldInv
  <2>2. \A f \in Fields : config[f] = InFile(f)
    BY DEF ToldInv, Read, InFile
  <2>3. QED
    BY <2>1, <2>2 DEF ToldInv, RunsAsTold, Options, Fields
<1>2. QED
  BY <1>1, InitTold, NextTold, PTL DEF ProgramSpec

================================================================================
