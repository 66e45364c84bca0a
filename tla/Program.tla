-------------------------------- MODULE Program --------------------------------
(***************************************************************************)
(* main of src/src/main.cc: the options, the configuration file and the    *)
(* logs are read in this order, then SIGINT gets its handler and the       *)
(* server of GrpcServer runs. Until then SIGINT has its default action,    *)
(* which ends the process wherever it is.                                  *)
(*                                                                         *)
(* Names and texts are model values, an empty string is the value Empty;   *)
(* an argument is an option with its value, a flag, or one of two others:  *)
(* a faulty one (unknown, a value missing or given to a flag) and a word.  *)
(***************************************************************************)
EXTENDS GrpcServer, Integers, SequencesExt

CONSTANTS
    Empty,          \* the empty string
    Unread,         \* the file cannot be read or is no YAML
    Missing, Bad,   \* a field is not there, or is no text or number
    DefaultConfig,  \* "config.yaml"
    DefaultLogs,    \* "./logs"
    Defaults,       \* the values of load_default_config
    Values,         \* Values[o]: the values that option o may have
    Contents,       \* what a configuration file may hold
    MaxArgs         \* bound on the arguments

Options == {"conf", "log-path", "log-level"}
Flags   == {"version", "console", "help"}
Fields  == {"base", "level", "port", "host"}

Arguments == UNION {{o} \X Values[o] : o \in Options}
             \cup (Flags \cup {"faulty", "word"}) \X {Empty}

ASSUME ProgramAssumption ==
    /\ MaxArgs \in Nat
    /\ Unread \notin Contents

VARIABLES
    phase,      \* where main is; what ended it
    cmd,        \* the arguments
    file,       \* what the file that --conf names holds; Unread before it is read
    opt,        \* the options after parse_check
    config,     \* CameraServiceConfig
    sinks,      \* where spdlog writes to: the console and the directory of the file
    level,      \* the level that spdlog is set to
    code        \* the exit status

start == <<phase, cmd, file, opt, config, sinks, level, code>>
all   == <<start, vars>>

NoOptions == [o \in Options |-> IF o = "conf" THEN DefaultConfig ELSE Empty]

\* The levels that set_log_level knows; any other text means info.
Known == {"trace", "debug", "info", "warn", "error", "fatal", "none"}
LevelOf(text) == IF text \in Known THEN text ELSE "info"

Exit(status_) == phase' = "exited" /\ code' = status_

\* The fields that the file has override the defaults.
Read(content) == [f \in Fields |-> IF content[f] = Missing THEN Defaults[f] ELSE content[f]]

-----------------------------------------------------------------------------
(* Mutations of the operations below, for testing the properties. *)

\* set_log_level is called before init_logs, which sets the level to info.
SetLevelLost ==
    /\ phase = "level"
    /\ phase' = "signal"
    /\ level' = "info"
    /\ UNCHANGED <<cmd, file, opt, config, sinks, code>>

\* A file that cannot be read ends the program as if all were well.
LoadConfigSilent ==
    /\ phase = "load"
    /\ file' \in Contents \cup {Unread}
    /\ IF file' = Unread \/ \E f \in Fields : file'[f] = Bad
       THEN Exit(0) /\ UNCHANGED config
       ELSE config' = Read(file') /\ phase' = "logs" /\ UNCHANGED code
    /\ UNCHANGED <<cmd, opt, sinks, level>>

-----------------------------------------------------------------------------
ProgramInit ==
    /\ Init
    /\ phase = "parse"
    /\ cmd \in BoundedSeq(Arguments, MaxArgs)
    /\ file = Unread
    /\ opt = NoOptions
    /\ config = Defaults
    /\ sinks = {"console"}
    /\ level = "info"
    /\ code = 0

Has(what) == \E i \in DOMAIN cmd : cmd[i][1] = what

\* Each argument sets its option; a later one overrides an earlier one.
Assign(o, a) == IF a[1] \in Options THEN [o EXCEPT ![a[1]] = a[2]] ELSE o

Parsed ==
    LET upTo[n \in 0..Len(cmd)] == IF n = 0 THEN NoOptions ELSE Assign(upTo[n - 1], cmd[n])
    IN  upTo[Len(cmd)]

\* parse_check prints the usage or the first error and exits; main ends after the
\* version was printed, or without a name of a file.
ParseOptions ==
    /\ phase = "parse"
    /\ opt' = Parsed
    /\ \/ Has("help") /\ Exit(0)
       \/ ~Has("help") /\ Has("faulty") /\ Exit(1)
       \/ ~Has("help") /\ ~Has("faulty") /\ Has("version") /\ Exit(0)
       \/ /\ ~Has("help") /\ ~Has("faulty") /\ ~Has("version")
          /\ IF Parsed["conf"] = Empty THEN Exit(-1)
             ELSE phase' = "load" /\ UNCHANGED code
    /\ UNCHANGED <<cmd, file, config, sinks, level>>

\* load_config; YAML throws where the file or a field is no good.
LoadConfig ==
    /\ phase = "load"
    /\ file' \in Contents \cup {Unread}
    /\ IF file' = Unread \/ \E f \in Fields : file'[f] = Bad
       THEN Exit(-1) /\ UNCHANGED config
       ELSE config' = Read(file') /\ phase' = "logs" /\ UNCHANGED code
    /\ UNCHANGED <<cmd, opt, sinks, level>>

\* The first text of three that is not empty: the option, the file, the default.
FirstText(a, b, c) == IF a # Empty THEN a ELSE IF b # Empty THEN b ELSE c

\* init_logs returns where the directory cannot be made: the records stay on the
\* console. Where the file in it cannot be opened spdlog throws, and nothing
\* catches that.
InitLogs ==
    /\ phase = "logs"
    /\ \/ /\ phase' = "level"
          /\ sinks' = {FirstText(opt["log-path"], config["base"], DefaultLogs)}
                        \cup IF Has("console") THEN {"console"} ELSE {}
       \/ phase' = "level" /\ UNCHANGED sinks
       \/ phase' = "aborted" /\ UNCHANGED sinks
    /\ level' = "info"
    /\ UNCHANGED <<cmd, file, opt, config, code>>

\* The option goes before the file.
SetLevel ==
    /\ phase = "level"
    /\ level' = LevelOf(FirstText(opt["log-level"], config["level"], Empty))
    /\ phase' = "signal"
    /\ UNCHANGED <<cmd, file, opt, config, sinks, code>>

\* From now on SIGINT is what GrpcServer says.
InitLoopSignal ==
    /\ phase = "signal"
    /\ phase' = "serving"
    /\ UNCHANGED <<cmd, file, opt, config, sinks, level, code>>

\* SIGINT without a handler.
Kill ==
    /\ phase \in {"parse", "load", "logs", "level", "signal"}
    /\ phase' = "killed"
    /\ UNCHANGED <<cmd, file, opt, config, sinks, level, code>>

\* start_grpc_server has returned, or never will.
ReturnFromMain ==
    /\ phase = "serving"
    /\ \/ main = "exited" /\ Exit(0)
       \/ main = "crashed" /\ phase' = "aborted" /\ UNCHANGED code
    /\ UNCHANGED <<cmd, file, opt, config, sinks, level>>

StartStep == ParseOptions \/ LoadConfig \/ InitLogs \/ SetLevel \/ InitLoopSignal \/ ReturnFromMain

\* The server runs; main's settings stay as they are.
Serving(step) == phase = "serving" /\ step /\ UNCHANGED start

Ended == phase \in {"exited", "killed", "aborted"} /\ UNCHANGED all

ProgramNext ==
    \/ StartStep /\ UNCHANGED vars
    \/ Kill /\ UNCHANGED vars
    \/ Serving(Next)
    \/ Ended

ProgramSpec == ProgramInit /\ [][ProgramNext]_all

\* Threads are scheduled and handlers return; requests and signals may stop.
ProgramFairSpec ==
    /\ ProgramSpec
    /\ WF_all(StartStep /\ UNCHANGED vars)
    /\ WF_all(Serving(MainStep))
    /\ WF_all(Serving(WatcherStep))
    /\ \A w \in Worker : WF_all(Serving(Finish(w)))
    /\ \A t \in Threads : WF_all(Serving(HandlerStep(t)))

-----------------------------------------------------------------------------
(* What the arguments and the file ask for. *)

LastArgument(o) ==
    LET places == {i \in DOMAIN cmd : cmd[i][1] = o}
    IN  IF places = {} THEN NoOptions[o]
        ELSE cmd[CHOOSE i \in places : \A j \in places : j <= i][2]

InFile(f) == IF file[f] = Missing THEN Defaults[f] ELSE file[f]

\* Whatever becomes of the logs, the server that runs is the one the user has asked
\* for: the address of the file, and the directory and the level of the last option,
\* else of the file; not even the reset of the level in init_logs is left of the
\* steps in between. A user who asked for something else gets no server.
RunsAsTold ==
    phase = "serving" =>
        /\ ~Has("help") /\ ~Has("version") /\ ~Has("faulty")
        /\ \A f \in {"port", "host"} : config[f] = InFile(f)
        /\ level = LevelOf(FirstText(LastArgument("log-level"), InFile("level"), Empty))
        /\ sinks \subseteq
               {"console", FirstText(LastArgument("log-path"), InFile("base"), DefaultLogs)}

\* A shell or a supervisor that sees status 0 knows that the program has done what
\* it was asked for: it showed the usage or the version, or served until SIGINT.
ZeroIsSuccess ==
    phase = "exited" /\ code = 0 => Has("help") \/ Has("version") \/ status

================================================================================
