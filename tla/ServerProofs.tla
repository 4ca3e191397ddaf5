----------------------------- MODULE ServerProofs -----------------------------
(***************************************************************************)
(* Proofs about the server in the background, its connections, the browser *)
(* that watches and the requests under the rules: for any processes, ports *)
(* and shells, and commands without bound, the daemon is one and known;    *)
(* for any addresses, connections and hosts, and bytes without bound, what *)
(* connections carry is kept and in order; for any exchanges, and toggles  *)
(* and lost connections without bound, the browser shows what happened;    *)
(* for any rules, requests, answers and frames, the rules decide and what  *)
(* is delivered is described, paced and whole. The four share no state:    *)
(* Daemon is extended, ProxyServer is the instance Proxy, UiStream the     *)
(* instance Ui, its variable given called handed, and RequestProcessing    *)
(* the instance Req.                                                       *)
(***************************************************************************)
EXTENDS Daemon, FiniteSetTheorems, SequenceTheorems, WellFoundedInduction, TLAPS

CONSTANTS
  Addrs, Conns, Hosts, Filters, ClientSettings, SystemProxy, Requests, Nobody, Ttl, MaxBytes,
  MaxChanges, MaxTime
VARIABLES clientProxy, filter, changes, acceptor, conns, certs, time

Proxy == INSTANCE ProxyServer

CONSTANTS TraceIds, Chunks, Capacity, MaxLogSize, Nothing, WireCapacity, MaxToggles, MaxBreaks
VARIABLES log, stored, handed, session, requests, wire, listening, records, order, uses, doubtful

Ui == INSTANCE UiStream WITH given <- handed

-----------------------------------------------------------------------------
(***************************************************************************)
(* The daemon.                                                             *)
(***************************************************************************)

Phases == {"idle", "look", "alive", "spawn", "wait", "truncate", "write", "pid file", "stop", "kill",
           "restart"}
Kinds == {"free", "booting", "serving", "dying", "foreground", "other"}
Command == [phase : Phases, restart : BOOLEAN, port : Ports \cup {NoOne},
            seen : DaemonStatus \cup {NoOne}, pid : Pids \cup {NoOne},
            save : DaemonStatus \cup {NoOne}]

(***************************************************************************)
(* What a command holds in each phase: a status that parses once it has    *)
(* one to compare or to write, the pid and the port of what it spawns.     *)
(***************************************************************************)
Holds(k) ==
  /\ k.phase \in {"alive", "kill"} => k.seen \in DaemonStatus
  /\ k.phase \in {"look", "alive", "spawn", "wait"} => k.port \in Ports
  /\ k.restart /\ k.phase \in {"stop", "kill", "truncate", "write", "pid file"} => k.port \in Ports
  /\ k.phase = "wait" => k.pid \in Pids
  /\ k.phase \in {"truncate", "write", "pid file"} =>
       k.save \in DaemonStatus /\ (k.save.running => k.pid = k.save.pid)

Typed ==
  /\ procs \in [Pids -> [kind : Kinds, port : Ports \cup {NoOne}]]
  /\ dstatus \in DaemonStatus \cup {NoOne, Garbage}
  /\ pidFile \in Pids \cup {NoOne}
  /\ cmd \in [Shells -> Command]
  /\ lostTrack \in BOOLEAN
  /\ \A c \in Shells : Holds(cmd[c])

Known == \A p \in Daemons : Readable /\ dstatus.pid = p /\ dstatus.running

(***************************************************************************)
(* Between its first step that may make the status file wrong and its      *)
(* last, a command answers for the daemon: none runs when it spawns or has *)
(* killed, only the one it spawned when it saves a start.                  *)
(***************************************************************************)
AnswersFor(k) ==
  /\ k.phase \in {"alive", "kill"} => k.seen = dstatus
  /\ k.phase = "kill" => dstatus.running
  /\ k.phase = "spawn" => Daemons = {}
  /\ k.phase = "wait" => Daemons \subseteq {k.pid}
  /\ k.phase \in {"truncate", "write"} =>
       Daemons \subseteq (IF k.save.running THEN {k.save.pid} ELSE {})
  /\ k.phase = "pid file" => k.save = dstatus

At(k, phases) == k.phase \in phases
Busy == {"spawn", "wait", "truncate", "write"}

Tracked ==
  ~lostTrack =>
    /\ \A c, d \in Shells : cmd[c].phase # "idle" /\ cmd[d].phase # "idle" => c = d
    /\ (\A c \in Shells : cmd[c].phase \notin Busy) => Known
    /\ \A c \in Shells : AnswersFor(cmd[c])

Inv == Typed /\ Tracked

-----------------------------------------------------------------------------
(* Lemmas about the operators. *)

\* A set within a singleton has one element at most.
LEMMA AtMostOne ==
  ASSUME NEW x, Daemons \subseteq {x}
  PROVE  Cardinality(Daemons) <= 1
<1>1. CASE Daemons = {}
  BY <1>1, FS_EmptySet
<1>2. CASE Daemons = {x}
  BY <1>2, FS_Singleton
<1> QED
  BY <1>1, <1>2

\* What the status file names is one process, so a known daemon is alone.
LEMMA KnownIsOne ==
  ASSUME Known
  PROVE  Cardinality(Daemons) <= 1
BY AtMostOne DEF Known

\* At most one daemon runs in every phase of every command.
LEMMA TrackedIsOne ==
  ASSUME Inv
  PROVE  OneDaemon
<1> SUFFICES ASSUME ~lostTrack
             PROVE  Cardinality(Daemons) <= 1
  BY DEF OneDaemon
<1>1. CASE \A c \in Shells : cmd[c].phase \notin Busy
  BY <1>1, KnownIsOne DEF Inv, Tracked
<1>2. ASSUME NEW c \in Shells, cmd[c].phase \in Busy
      PROVE  \E x : Daemons \subseteq {x}
  BY <1>2 DEF Inv, Tracked, AnswersFor, Busy
<1> QED
  BY <1>1, <1>2, AtMostOne

\* With all commands at rest, the daemon is the one the status file names.
LEMMA TrackedIsKnown ==
  ASSUME Inv
  PROVE  RunningDaemonIsKnown
BY DEF Inv, Tracked, RunningDaemonIsKnown, Known, Busy

-----------------------------------------------------------------------------
(* The steps of processes start no daemon. *)

\* A step that only ends processes, or lets them serve, disturbs no command.
LEMMA FewerDaemons ==
  ASSUME Inv, UNCHANGED <<dstatus, pidFile, cmd, lostTrack>>,
         procs' \in [Pids -> [kind : Kinds, port : Ports \cup {NoOne}]],
         Daemons' \subseteq Daemons
  PROVE  Inv'
<1>1. Typed'
  BY DEF Inv, Typed, Holds, DaemonStatus, Command
<1>2. Known => Known'
  BY DEF Known, Readable, DaemonStatus
<1>3. \A k : AnswersFor(k) => AnswersFor(k)'
  BY DEF AnswersFor
<1>4. Tracked'
  <2> SUFFICES ASSUME ~lostTrack
               PROVE  /\ \A c, d \in Shells : cmd[c].phase # "idle" /\ cmd[d].phase # "idle" => c = d
                      /\ (\A c \in Shells : cmd[c].phase \notin Busy) => Known'
                      /\ \A c \in Shells : AnswersFor(cmd[c])'
    BY DEF Tracked, Busy
  <2> QED
    BY <1>2, <1>3 DEF Inv, Tracked
<1> QED
  BY <1>1, <1>4 DEF Inv

\* The processes by themselves: a daemon starts to serve, one dies, another program takes
\* a pid.
LEMMA ProcessStep ==
  ASSUME Inv, NEW p \in Pids, StartServer(p) \/ Exit(p) \/ Stranger(p)
  PROVE  Inv'
<1> USE DEF Inv, Typed
<1>1. CASE StartServer(p)
  BY <1>1, FewerDaemons DEF StartServer, Daemons, Free, Kinds
<1>2. CASE Exit(p)
  BY <1>2, FewerDaemons DEF Exit, Daemons, Free, Kinds
<1>3. CASE Stranger(p)
  BY <1>3, FewerDaemons DEF Stranger, Daemons, Kinds
<1> QED
  BY <1>1, <1>2, <1>3

-----------------------------------------------------------------------------
(* The steps of commands. *)

(***************************************************************************)
(* While no daemon is lost a command works alone: what it leaves is        *)
(* tracked when its own answers are right and, if it is not in the middle  *)
(* of a change, the daemon is known.                                       *)
(***************************************************************************)
LEMMA AloneAtWork ==
  ASSUME Inv, NEW c \in Shells,
         ~lostTrack' => ~lostTrack /\ \A d \in Shells \ {c} : cmd[d].phase = "idle",
         \A d \in Shells \ {c} : cmd'[d] = cmd[d],
         ~lostTrack' => AnswersFor(cmd[c])',
         ~lostTrack' /\ cmd'[c].phase \notin Busy => Known'
  PROVE  Tracked'
<1> SUFFICES ASSUME ~lostTrack'
             PROVE  /\ \A d, e \in Shells : cmd'[d].phase # "idle" /\ cmd'[e].phase # "idle" => d = e
                    /\ (\A d \in Shells : cmd'[d].phase \notin Busy) => Known'
                    /\ \A d \in Shells : AnswersFor(cmd[d])'
  BY DEF Tracked, Busy
<1>1. \A d \in Shells \ {c} : cmd'[d].phase = "idle"
  OBVIOUS
<1>2. \A d \in Shells \ {c} : AnswersFor(cmd[d])'
  BY <1>1 DEF AnswersFor
<1> QED
  BY <1>1, <1>2

\* The other commands are at rest while one works and none has overlapped.
LEMMA OthersRest ==
  ASSUME Inv, NEW c \in Shells, cmd[c].phase # "idle", ~lostTrack
  PROVE  \A d \in Shells \ {c} : cmd[d].phase = "idle"
BY DEF Inv, Tracked

\* What a step must leave of its own command for the state to stay well typed.
LEMMA TypedStep ==
  ASSUME Inv, NEW c \in Shells, NEW k \in Command, Holds(k), cmd' = [cmd EXCEPT ![c] = k],
         procs' \in [Pids -> [kind : Kinds, port : Ports \cup {NoOne}]],
         dstatus' \in DaemonStatus \cup {NoOne, Garbage}, pidFile' \in Pids \cup {NoOne},
         lostTrack' \in BOOLEAN
  PROVE  /\ Typed'
         /\ cmd'[c] = k
         /\ \A d \in Shells \ {c} : cmd'[d] = cmd[d]
BY DEF Inv, Typed, Holds

\* A command that ends leaves nothing behind.
LEMMA IdleHolds == NoCommand \in Command /\ Holds(NoCommand) /\ NoCommand.phase = "idle"
BY DEF NoCommand, Command, Phases, Holds

\* A command can be given while others work; then the daemon may be lost.
LEMMA GiveStep ==
  ASSUME Inv, NEW c \in Shells, NEW k \in Command, Holds(k), k.phase \in {"look", "stop", "restart"},
         Give(c, k)
  PROVE  Inv'
<1>1. /\ Typed'
      /\ cmd'[c] = k
      /\ \A d \in Shells \ {c} : cmd'[d] = cmd[d]
  BY TypedStep DEF Give, Inv, Typed
<1>2. Daemons' = Daemons /\ (Known => Known')
  BY DEF Give, Daemons, Known, Readable
<1>3. ASSUME ~lostTrack'
      PROVE  ~lostTrack /\ \A d \in Shells : cmd[d].phase = "idle"
  BY <1>3 DEF Give
<1>4. AnswersFor(cmd[c])'
  BY <1>1 DEF AnswersFor
<1>5. ~lostTrack' => Known'
  BY <1>2, <1>3 DEF Inv, Tracked, Busy
<1> QED
  BY <1>1, <1>3, <1>4, <1>5, AloneAtWork DEF Inv

\* The three commands begin with empty hands.
LEMMA StartStep ==
  ASSUME Inv, NEW c \in Shells, Start(c)
  PROVE  Inv'
<1>1. PICK port \in Ports : Give(c, [NoCommand EXCEPT !.phase = "look", !.port = port])
  BY DEF Start
<1>2. /\ [NoCommand EXCEPT !.phase = "look", !.port = port] \in Command
      /\ Holds([NoCommand EXCEPT !.phase = "look", !.port = port])
      /\ [NoCommand EXCEPT !.phase = "look", !.port = port].phase = "look"
  BY DEF NoCommand, Command, Phases, Holds
<1> QED
  BY <1>1, <1>2, GiveStep

\* Likewise stop_daemon.
LEMMA StopStep ==
  ASSUME Inv, NEW c \in Shells, Stop(c)
  PROVE  Inv'
<1>1. /\ [NoCommand EXCEPT !.phase = "stop"] \in Command
      /\ Holds([NoCommand EXCEPT !.phase = "stop"])
      /\ [NoCommand EXCEPT !.phase = "stop"].phase = "stop"
  BY DEF NoCommand, Command, Phases, Holds
<1> QED
  BY <1>1, GiveStep DEF Stop

\* Likewise restart_daemon.
LEMMA RestartStep ==
  ASSUME Inv, NEW c \in Shells, Restart(c)
  PROVE  Inv'
<1>1. PICK port \in Ports \cup {NoOne} :
        Give(c, [NoCommand EXCEPT !.phase = "restart", !.restart = TRUE, !.port = port])
  BY DEF Restart
<1> DEFINE k == [NoCommand EXCEPT !.phase = "restart", !.restart = TRUE, !.port = port]
<1>2. k \in Command /\ Holds(k) /\ k.phase = "restart"
  BY DEF NoCommand, Command, Phases, Holds
<1> HIDE DEF k
<1> QED
  BY <1>1, <1>2, GiveStep DEF k

-----------------------------------------------------------------------------
(***************************************************************************)
(* The step of a command that works, and of none of the others, from what  *)
(* it leaves of its own command and of the daemons.                        *)
(***************************************************************************)
LEMMA WorkStep ==
  ASSUME Inv, NEW c \in Shells, cmd[c].phase # "idle",
         cmd' = [cmd EXCEPT ![c] = cmd'[c]], cmd'[c] \in Command, Holds(cmd'[c]),
         procs' \in [Pids -> [kind : Kinds, port : Ports \cup {NoOne}]],
         dstatus' \in DaemonStatus \cup {NoOne, Garbage}, pidFile' \in Pids \cup {NoOne},
         lostTrack' \in BOOLEAN, ~lostTrack' => ~lostTrack,
         ~lostTrack' => AnswersFor(cmd[c])',
         ~lostTrack' /\ cmd'[c].phase \notin Busy => Known'
  PROVE  Inv'
<1>1. cmd' \in [Shells -> Command] /\ \A d \in Shells \ {c} : cmd'[d] = cmd[d]
  BY DEF Inv, Typed
<1>2. Typed'
  BY <1>1 DEF Inv, Typed
<1> QED
  BY <1>1, <1>2, OthersRest, AloneAtWork DEF Inv

\* What a command knows.
LEMMA CommandTyped ==
  ASSUME Inv, NEW c \in Shells
  PROVE  cmd[c] \in Command /\ Holds(cmd[c])
BY DEF Inv, Typed

\* start_daemon finds no daemon, or one to ask about.
LEMMA GetStatusStep ==
  ASSUME Inv, NEW c \in Shells, GetStatus(c)
  PROVE  Inv'
<1> DEFINE Alive == Readable /\ cmd'[c] = [cmd[c] EXCEPT !.phase = "alive", !.seen = dstatus]
           None == ~Readable /\ cmd'[c] = [cmd[c] EXCEPT !.phase = "spawn", !.seen = NoOne]
<1>1. cmd' = [cmd EXCEPT ![c] = cmd'[c]] /\ (Alive \/ None) /\ cmd[c].phase = "look"
  BY DEF GetStatus, Inv, Typed
<1>2. Daemons' = Daemons /\ (Known => Known')
  BY DEF GetStatus, Daemons, Known, Readable
<1>3. ~lostTrack => Known
  BY <1>1, OthersRest DEF Inv, Tracked, Busy
<1>4. CASE Alive
  <2>1. /\ cmd'[c] \in Command /\ cmd'[c].phase = "alive" /\ cmd'[c].seen = dstatus
        /\ cmd'[c].port = cmd[c].port
    BY <1>4, CommandTyped DEF Command, Phases, Readable
  <2>2. Holds(cmd'[c])
    BY <1>1, <1>4, <2>1, CommandTyped DEF Holds, Readable
  <2>3. AnswersFor(cmd[c])'
    BY <2>1 DEF GetStatus, AnswersFor
  <2> QED
    BY <1>1, <1>2, <1>3, <2>1, <2>2, <2>3, WorkStep DEF GetStatus, Inv, Typed
<1>5. CASE None
  <2>1. cmd'[c] \in Command /\ cmd'[c].phase = "spawn" /\ cmd'[c].port = cmd[c].port
    BY <1>5, CommandTyped DEF Command, Phases
  <2>2. Holds(cmd'[c])
    BY <1>1, <2>1, CommandTyped DEF Holds
  <2>3. ~lostTrack => AnswersFor(cmd[c])'
    BY <1>2, <1>3, <1>5, <2>1 DEF AnswersFor, Known
  <2> QED
    BY <1>1, <2>1, <2>2, <2>3, WorkStep DEF GetStatus, Inv, Typed, Busy
<1> QED
  BY <1>1, <1>4, <1>5

\* kill -0 finds no process: the daemon that was known has ended.
LEMMA CheckRunningStep ==
  ASSUME Inv, NEW c \in Shells, CheckRunning(c)
  PROVE  Inv'
<1>1. /\ cmd' = [cmd EXCEPT ![c] = cmd'[c]]
      /\ \/ cmd'[c] = NoCommand
         \/ cmd'[c] = [cmd[c] EXCEPT !.phase = "spawn"] /\ ~IsProcessRunning(cmd[c].seen.pid)
  BY DEF CheckRunning, Goto, End, Inv, Typed
<1>2. Daemons' = Daemons /\ (Known => Known')
  BY DEF CheckRunning, Daemons, Known, Readable
<1>3. ~lostTrack => Known /\ cmd[c].seen = dstatus
  BY OthersRest DEF CheckRunning, Inv, Tracked, Busy, AnswersFor
<1>4. CASE cmd'[c] = NoCommand
  BY <1>1, <1>2, <1>3, <1>4, WorkStep, IdleHolds DEF CheckRunning, Inv, Typed, AnswersFor, NoCommand
<1>5. CASE cmd'[c] = [cmd[c] EXCEPT !.phase = "spawn"] /\ ~IsProcessRunning(cmd[c].seen.pid)
  <2>1. ~lostTrack => Daemons = {}
    BY <1>3, <1>5 DEF Known, Daemons, IsProcessRunning
  <2>2. cmd'[c] \in Command /\ Holds(cmd'[c]) /\ cmd'[c].phase = "spawn"
    BY <1>5, CommandTyped DEF CheckRunning, Command, Phases, Holds
  <2>3. ~lostTrack => AnswersFor(cmd[c])'
    BY <2>1, <2>2, <1>2 DEF AnswersFor
  <2> QED
    BY <1>1, <2>2, <2>3, WorkStep DEF CheckRunning, Inv, Typed, Busy
<1> QED
  BY <1>1, <1>4, <1>5

\* The process spawned is the only daemon.
LEMMA SpawnStep ==
  ASSUME Inv, NEW c \in Shells, SpawnDaemonProcess(c)
  PROVE  Inv'
<1>1. PICK p \in Pids :
        /\ procs' = [procs EXCEPT ![p] = [kind |-> "booting", port |-> cmd[c].port]]
        /\ cmd' = [cmd EXCEPT ![c].phase = "wait", ![c].pid = p]
  BY DEF SpawnDaemonProcess
<1>2. cmd' = [cmd EXCEPT ![c] = cmd'[c]] /\ cmd'[c] = [cmd[c] EXCEPT !.phase = "wait", !.pid = p]
  BY <1>1 DEF Inv, Typed
<1>3. cmd'[c] \in Command /\ Holds(cmd'[c]) /\ cmd'[c].phase = "wait" /\ cmd'[c].pid = p
  BY <1>2, CommandTyped DEF SpawnDaemonProcess, Command, Phases, Holds
<1>4. procs' \in [Pids -> [kind : Kinds, port : Ports \cup {NoOne}]]
  BY <1>1, CommandTyped DEF SpawnDaemonProcess, Inv, Typed, Command, Kinds
<1>5. Daemons' \subseteq Daemons \cup {p}
  BY <1>1 DEF Daemons, Inv, Typed
<1>6. ~lostTrack => Daemons = {}
  BY DEF SpawnDaemonProcess, Inv, Tracked, AnswersFor
<1>7. ~lostTrack => AnswersFor(cmd[c])'
  BY <1>3, <1>5, <1>6 DEF AnswersFor
<1> QED
  BY <1>2, <1>3, <1>4, <1>7, WorkStep DEF SpawnDaemonProcess, Inv, Typed, Busy

\* Either someone answers, or the daemon spawned is lost unless it has exited.
LEMMA WaitStep ==
  ASSUME Inv, NEW c \in Shells, WaitForConnectionInfo(c)
  PROVE  Inv'
<1> DEFINE Saves == /\ cmd'[c] = [cmd[c] EXCEPT !.phase = "truncate", !.save = Running(cmd[c].pid, cmd[c].port)]
                    /\ UNCHANGED lostTrack
           GivesUp == cmd'[c] = NoCommand /\ lostTrack' = (lostTrack \/ cmd[c].pid \in Daemons)
<1>1. cmd' = [cmd EXCEPT ![c] = cmd'[c]] /\ (Saves \/ GivesUp)
  BY DEF WaitForConnectionInfo, End, Inv, Typed
<1>2. Daemons' = Daemons
  BY DEF WaitForConnectionInfo, Daemons
<1>3. ~lostTrack => Daemons \subseteq {cmd[c].pid}
  BY DEF WaitForConnectionInfo, Inv, Tracked, AnswersFor
<1>4. CASE Saves
  <2>1. Running(cmd[c].pid, cmd[c].port) \in DaemonStatus
    BY CommandTyped DEF WaitForConnectionInfo, Holds, Running, DaemonStatus
  <2>2. /\ cmd'[c] \in Command
        /\ cmd'[c].phase = "truncate" /\ cmd'[c].save = Running(cmd[c].pid, cmd[c].port)
        /\ cmd'[c].pid = cmd[c].pid /\ cmd'[c].port = cmd[c].port
    BY <1>4, <2>1, CommandTyped DEF Command, Phases
  <2>3. Holds(cmd'[c])
    <3>1. cmd[c].phase = "wait"
      BY DEF WaitForConnectionInfo
    <3>2. cmd[c].port \in Ports /\ Running(cmd[c].pid, cmd[c].port).pid = cmd[c].pid
      BY <3>1, CommandTyped DEF Holds, Running
    <3> QED
      BY <2>1, <2>2, <3>2 DEF Holds
  <2>4. ~lostTrack => AnswersFor(cmd[c])'
    BY <1>2, <1>3, <2>2 DEF AnswersFor, Running
  <2> QED
    BY <1>1, <1>4, <2>2, <2>3, <2>4, WorkStep DEF WaitForConnectionInfo, Inv, Typed, Busy
<1>5. CASE GivesUp
  <2>1. ~lostTrack' => ~lostTrack /\ Known'
    BY <1>2, <1>3, <1>5 DEF Known
  <2>2. AnswersFor(cmd[c])'
    BY <1>5 DEF NoCommand, AnswersFor
  <2> QED
    BY <1>1, <1>5, <2>1, <2>2, WorkStep, IdleHolds DEF WaitForConnectionInfo, Inv, Typed, NoCommand
<1> QED
  BY <1>1, <1>4, <1>5

\* The two writes of save_status: nothing is known of the file in between.
LEMMA SaveStatusStep ==
  ASSUME Inv, NEW c \in Shells, SaveStatus(c)
  PROVE  Inv'
<1>1. cmd' = [cmd EXCEPT ![c] = cmd'[c]]
  BY DEF SaveStatus, Goto, Inv, Typed
<1>2. Daemons' = Daemons
  BY DEF SaveStatus, Daemons
<1>3. CASE cmd[c].phase = "truncate" /\ dstatus' = Garbage /\ Goto(c, "write")
  <2>1. cmd'[c] = [cmd[c] EXCEPT !.phase = "write"]
    BY <1>3 DEF Goto, Inv, Typed
  <2>2. /\ cmd'[c] \in Command /\ cmd'[c].phase = "write" /\ cmd'[c].save = cmd[c].save
        /\ cmd'[c].pid = cmd[c].pid /\ cmd'[c].port = cmd[c].port /\ cmd'[c].restart = cmd[c].restart
    BY <2>1, CommandTyped DEF Command, Phases
  <2>3. Holds(cmd'[c])
    BY <1>3, <2>2, CommandTyped DEF Holds
  <2>4. ~lostTrack => AnswersFor(cmd[c])'
    BY <1>2, <1>3, <2>2 DEF AnswersFor, Inv, Tracked
  <2> QED
    BY <1>1, <1>3, <2>2, <2>3, <2>4, WorkStep DEF SaveStatus, Inv, Typed, Busy
<1>4. CASE cmd[c].phase = "write" /\ dstatus' = cmd[c].save /\ Goto(c, "pid file")
  <2>1. cmd'[c] = [cmd[c] EXCEPT !.phase = "pid file"]
    BY <1>4 DEF Goto, Inv, Typed
  <2>2. /\ cmd'[c] \in Command /\ cmd'[c].phase = "pid file" /\ cmd'[c].save = cmd[c].save
        /\ cmd'[c].pid = cmd[c].pid /\ cmd'[c].port = cmd[c].port /\ cmd'[c].restart = cmd[c].restart
    BY <2>1, CommandTyped DEF Command, Phases
  <2>3. Holds(cmd'[c]) /\ dstatus' \in DaemonStatus
    BY <1>4, <2>2, CommandTyped DEF Holds
  <2>4. AnswersFor(cmd[c])'
    BY <1>4, <2>2 DEF AnswersFor
  <2>5. ~lostTrack => Daemons \subseteq (IF cmd[c].save.running THEN {cmd[c].save.pid} ELSE {})
    BY <1>4 DEF AnswersFor, Inv, Tracked
  <2>6. ~lostTrack => Known'
    BY <1>2, <1>4, <2>3, <2>5 DEF Known, Readable
  <2> QED
    BY <1>1, <1>4, <2>2, <2>3, <2>4, <2>6, WorkStep DEF SaveStatus, Inv, Typed
<1> QED
  BY <1>3, <1>4 DEF SaveStatus

\* A step that ends the command, or takes restart_daemon on to the start, while all is known.
LEMMA KnownStep ==
  ASSUME Inv, NEW c \in Shells, StopEnds(c) \/ End(c), cmd[c].phase \in {"stop", "kill", "pid file", "restart"},
         cmd[c].phase = "restart" => End(c),
         UNCHANGED <<procs, dstatus, lostTrack>>, pidFile' \in Pids \cup {NoOne}
  PROVE  Inv'
<1>1. /\ cmd' = [cmd EXCEPT ![c] = cmd'[c]]
      /\ \/ cmd'[c] = NoCommand
         \/ cmd'[c] = [cmd[c] EXCEPT !.phase = "look"]
      /\ cmd'[c] # NoCommand => cmd[c].restart /\ cmd[c].phase # "restart"
  BY DEF StopEnds, Goto, End, Inv, Typed, NoCommand
<1>2. ~lostTrack => Known'
  BY OthersRest DEF Inv, Tracked, Busy, Known, Daemons, Readable
<1>3. CASE cmd'[c] = NoCommand
  <2>1. cmd'[c].phase = "idle"
    BY <1>3, IdleHolds
  <2>2. AnswersFor(cmd[c])'
    BY <2>1 DEF AnswersFor
  <2> QED
    BY <1>1, <1>2, <1>3, <2>2, WorkStep, IdleHolds DEF Inv, Typed
<1>4. CASE cmd'[c] # NoCommand /\ cmd'[c] = [cmd[c] EXCEPT !.phase = "look"]
  <2>1. cmd'[c] \in Command /\ cmd'[c].phase = "look" /\ cmd'[c].port = cmd[c].port
    BY <1>4, CommandTyped DEF Command, Phases
  <2>2. Holds(cmd'[c])
    BY <1>1, <1>4, <2>1, CommandTyped DEF Holds
  <2>3. AnswersFor(cmd[c])'
    BY <2>1 DEF AnswersFor
  <2> QED
    BY <1>1, <1>2, <2>1, <2>2, <2>3, WorkStep DEF Inv, Typed
<1> QED
  BY <1>1, <1>3, <1>4

\* The pid file, written and removed.
LEMMA PidFileStep ==
  ASSUME Inv, NEW c \in Shells, WritePidFile(c) \/ RemovePidFile(c)
  PROVE  Inv'
<1>1. CASE WritePidFile(c)
  <2>1. pidFile' \in Pids
    BY <1>1, CommandTyped DEF WritePidFile, Holds, DaemonStatus
  <2> QED
    BY <1>1, <2>1, KnownStep DEF WritePidFile
<1>2. CASE RemovePidFile(c)
  BY <1>2, KnownStep DEF RemovePidFile
<1> QED
  BY <1>1, <1>2

\* stop_daemon takes the process to kill from the status file.
LEMMA StopReadsStep ==
  ASSUME Inv, NEW c \in Shells, StopReads(c)
  PROVE  Inv'
<1>1. CASE StopEnds(c)
  BY <1>1, KnownStep DEF StopReads, Inv, Typed
<1>2. CASE Readable /\ dstatus.running /\ cmd' = [cmd EXCEPT ![c].phase = "kill", ![c].seen = dstatus]
  <2>1. cmd' = [cmd EXCEPT ![c] = cmd'[c]] /\ cmd'[c] = [cmd[c] EXCEPT !.phase = "kill", !.seen = dstatus]
    BY <1>2 DEF Inv, Typed
  <2>2. /\ cmd'[c] \in Command /\ cmd'[c].phase = "kill" /\ cmd'[c].seen = dstatus
        /\ cmd'[c].port = cmd[c].port /\ cmd'[c].restart = cmd[c].restart
    <3>1. dstatus \in DaemonStatus
      BY <1>2 DEF Readable
    <3> QED
      BY <2>1, <3>1, CommandTyped DEF Command, Phases
  <2>3. Holds(cmd'[c])
    BY <1>2, <2>2, CommandTyped DEF StopReads, Holds, Readable
  <2>4. AnswersFor(cmd[c])'
    BY <1>2, <2>2 DEF StopReads, AnswersFor
  <2>5. ~lostTrack => Known'
    BY OthersRest DEF StopReads, Inv, Tracked, Busy, Known, Daemons, Readable
  <2> QED
    BY <2>1, <2>2, <2>3, <2>4, <2>5, WorkStep DEF StopReads, Inv, Typed
<1> QED
  BY <1>1, <1>2 DEF StopReads

\* The daemon that was known is killed, whatever runs under its id now.
LEMMA KillStep ==
  ASSUME Inv, NEW c \in Shells, KillProcess(c)
  PROVE  Inv'
<1> DEFINE pid == cmd[c].seen.pid
           save == [cmd[c].seen EXCEPT !.running = FALSE]
<1>1. CASE StopEnds(c) /\ UNCHANGED procs
  BY <1>1, KnownStep DEF KillProcess, Inv, Typed
<1>2. CASE /\ procs' = [procs EXCEPT ![pid].kind = "dying"]
           /\ cmd' = [cmd EXCEPT ![c].phase = "truncate", ![c].save = save]
  <2>1. cmd' = [cmd EXCEPT ![c] = cmd'[c]] /\ cmd'[c] = [cmd[c] EXCEPT !.phase = "truncate", !.save = save]
    BY <1>2 DEF Inv, Typed
  <2>2. cmd[c].phase = "kill" /\ cmd[c].seen \in DaemonStatus
    BY CommandTyped DEF KillProcess, Holds
  <2>3. save \in DaemonStatus /\ ~save.running /\ pid \in Pids
    BY <2>2 DEF DaemonStatus
  <2>4. /\ cmd'[c] \in Command /\ cmd'[c].phase = "truncate" /\ cmd'[c].save = save
        /\ cmd'[c].port = cmd[c].port /\ cmd'[c].restart = cmd[c].restart
    BY <2>1, <2>3, CommandTyped DEF Command, Phases
  <2>5. Holds(cmd'[c])
    BY <2>2, <2>3, <2>4, CommandTyped DEF Holds
  <2>6. procs' \in [Pids -> [kind : Kinds, port : Ports \cup {NoOne}]] /\ Daemons' \subseteq Daemons \ {pid}
    BY <1>2, <2>3 DEF Inv, Typed, Kinds, Daemons
  <2>7. ~lostTrack => Daemons \subseteq {pid}
    BY <2>2, OthersRest DEF Inv, Tracked, Busy, Known, AnswersFor
  <2>8. ~lostTrack => AnswersFor(cmd[c])'
    BY <2>3, <2>4, <2>6, <2>7 DEF AnswersFor
  <2> QED
    BY <2>1, <2>4, <2>5, <2>6, <2>8, WorkStep DEF KillProcess, Inv, Typed, Busy
<1> QED
  BY <1>1, <1>2 DEF KillProcess

\* restart_daemon keeps the port of the status it can read, or does nothing.
LEMMA ResolveStep ==
  ASSUME Inv, NEW c \in Shells, ResolveRestartParams(c)
  PROVE  Inv'
<1> DEFINE port == IF cmd[c].port = NoOne THEN dstatus.port ELSE cmd[c].port
<1>1. CASE End(c)
  BY <1>1, KnownStep DEF ResolveRestartParams, Inv, Typed
<1>2. CASE Readable /\ cmd' = [cmd EXCEPT ![c].phase = "stop", ![c].port = IF @ = NoOne THEN dstatus.port ELSE @]
  <2>1. cmd' = [cmd EXCEPT ![c] = cmd'[c]] /\ cmd'[c] = [cmd[c] EXCEPT !.phase = "stop", !.port = port]
    BY <1>2 DEF Inv, Typed
  <2>2. port \in Ports
    BY <1>2, CommandTyped DEF Readable, DaemonStatus, Command
  <2>3. cmd'[c] \in Command /\ cmd'[c].phase = "stop" /\ cmd'[c].port = port
    BY <2>1, <2>2, CommandTyped DEF Command, Phases
  <2>4. Holds(cmd'[c]) /\ AnswersFor(cmd[c])'
    BY <2>2, <2>3 DEF Holds, AnswersFor
  <2>5. ~lostTrack => Known'
    BY OthersRest DEF ResolveRestartParams, Inv, Tracked, Busy, Known, Daemons, Readable
  <2> QED
    BY <2>1, <2>3, <2>4, <2>5, WorkStep DEF ResolveRestartParams, Inv, Typed
<1> QED
  BY <1>1, <1>2 DEF ResolveRestartParams

\* An interrupted command loses the daemon it spawned before it has saved the status, and no other.
LEMMA InterruptStep ==
  ASSUME Inv, NEW c \in Shells, Interrupt(c)
  PROVE  Inv'
<1>1. cmd' = [cmd EXCEPT ![c] = cmd'[c]] /\ cmd'[c] = NoCommand
  BY DEF Interrupt, End, Inv, Typed
<1>2. Daemons' = Daemons /\ (Known => Known')
  BY DEF Interrupt, Daemons, Known, Readable
<1>3. ASSUME ~lostTrack'
      PROVE  ~lostTrack /\ Known'
  <2>1. ~lostTrack /\ (cmd[c].pid \in Daemons => cmd[c].phase = "pid file")
    BY <1>3 DEF Interrupt
  <2>2. CASE cmd[c].phase \notin Busy
    BY <2>1, <2>2, <1>2, OthersRest DEF Interrupt, Inv, Tracked, Busy
  <2>3. CASE cmd[c].phase \in {"spawn", "wait"}
    BY <2>1, <2>3, <1>2 DEF Inv, Tracked, AnswersFor, Known
  <2>4. CASE cmd[c].phase \in {"truncate", "write"}
    BY <2>1, <2>4, <1>2, CommandTyped DEF Inv, Tracked, AnswersFor, Known, Holds
  <2> QED
    BY <2>1, <2>2, <2>3, <2>4 DEF Busy
<1>4. AnswersFor(cmd[c])'
  BY <1>1 DEF AnswersFor, NoCommand
<1> QED
  BY <1>1, <1>3, <1>4, WorkStep, IdleHolds DEF Interrupt, Inv, Typed

-----------------------------------------------------------------------------
(* The invariant. *)

\* There is no daemon, and no command runs.
LEMMA InitInv == Init => Inv
<1> SUFFICES ASSUME Init PROVE Inv
  OBVIOUS
<1>1. Daemons = {}
  BY DEF Init, Daemons, Free
<1>2. Typed
  BY IdleHolds DEF Init, Typed, Free, Kinds
<1>3. \A c \in Shells : cmd[c].phase = "idle"
  BY DEF Init, NoCommand
<1>4. Tracked
  BY <1>1, <1>3 DEF Tracked, AnswersFor, Known
<1> QED
  BY <1>2, <1>4 DEF Inv

\* Every step preserves the invariant.
LEMMA NextInv ==
  ASSUME Inv, [Next]_vars
  PROVE  Inv'
<1>1. ASSUME NEW c \in Shells, Start(c) \/ Stop(c) \/ Restart(c)
      PROVE  Inv'
  BY <1>1, StartStep, StopStep, RestartStep
<1>2. ASSUME NEW c \in Shells, CommandStep(c)
      PROVE  Inv'
  BY <1>2, GetStatusStep, CheckRunningStep, SpawnStep, WaitStep, SaveStatusStep, PidFileStep,
     StopReadsStep, KillStep, ResolveStep DEF CommandStep
<1>3. ASSUME NEW c \in Shells, Interrupt(c)
      PROVE  Inv'
  BY <1>3, InterruptStep
<1>4. ASSUME NEW p \in Pids, StartServer(p) \/ Exit(p) \/ Stranger(p)
      PROVE  Inv'
  BY <1>4, ProcessStep
<1>5. CASE UNCHANGED vars
  <2>1. Daemons' = Daemons
    BY <1>5 DEF vars, Daemons
  <2> QED
    BY <1>5, <2>1, FewerDaemons DEF vars, Inv, Typed
<1> QED
  BY <1>1, <1>2, <1>3, <1>4, <1>5 DEF Next

\* So it holds of every reachable state.
LEMMA Invariance == Spec => []Inv
<1> QED
  BY InitInv, NextInv, PTL DEF Spec

(***************************************************************************)
(* The status file is absent, parses or is half written, and a command     *)
(* that writes or kills has a process to name: manager.rs never saves a    *)
(* status it did not read or make.                                         *)
(***************************************************************************)
THEOREM TypeCorrect == Spec => []TypeOK
<1>1. Inv => TypeOK
  <2> SUFFICES ASSUME Inv PROVE TypeOK
    OBVIOUS
  <2>1. \A c \in Shells : cmd[c].phase \in Phases
    BY CommandTyped DEF Command
  <2> QED
    BY <2>1 DEF TypeOK, Inv, Typed, Kinds, Phases
<1> QED
  BY <1>1, Invariance, PTL

\* A command that takes an answer for the daemon's takes the one of the process it spawned.
LEMMA AnswerIsOwn ==
  ASSUME Inv, Next
  PROVE  StartedIsServing
<1> SUFFICES ASSUME NEW c \in Shells, cmd[c].phase = "wait", cmd'[c].phase = "truncate", ~lostTrack
             PROVE  \E p \in Listening(cmd[c].port) : p = cmd[c].pid \/ procs[p].kind \in {"foreground", "dying"}
  BY DEF StartedIsServing
<1>1. Listening(cmd[c].port) # {}
  <2>1. CASE WaitForConnectionInfo(c)
    BY <2>1, CommandTyped DEF WaitForConnectionInfo, End, NoCommand, Inv, Typed
  <2>2. CASE cmd'[c] = cmd[c] \/ cmd'[c] = NoCommand
    BY <2>2 DEF NoCommand
  <2>3. ASSUME NEW d \in Shells, Start(d) \/ Stop(d) \/ Restart(d) \/ CommandStep(d) \/ Interrupt(d),
               ~WaitForConnectionInfo(c)
        PROVE  cmd'[c] = cmd[c] \/ cmd'[c] = NoCommand
    <3>1. CASE d = c
      BY <2>3, <3>1 DEF Start, Stop, Restart, Give, CommandStep, GetStatus, CheckRunning,
         SpawnDaemonProcess, SaveStatus, WritePidFile, StopReads, KillProcess, RemovePidFile,
         ResolveRestartParams, Interrupt, End, Inv, Typed
    <3>2. CASE d # c
      BY <2>3, <3>2 DEF Start, Stop, Restart, Give, CommandStep, GetStatus, CheckRunning,
         SpawnDaemonProcess, WaitForConnectionInfo, SaveStatus, WritePidFile, StopReads, StopEnds,
         KillProcess, RemovePidFile, ResolveRestartParams, Interrupt, Goto, End, Inv, Typed
    <3> QED
      BY <3>1, <3>2
  <2>4. ASSUME NEW p \in Pids, StartServer(p) \/ Exit(p) \/ Stranger(p)
        PROVE  cmd'[c] = cmd[c]
    BY <2>4 DEF StartServer, Exit, Stranger
  <2> QED
    BY <2>1, <2>2, <2>3, <2>4 DEF Next
<1>2. PICK p \in Listening(cmd[c].port) : TRUE
  BY <1>1
<1>3. Daemons \subseteq {cmd[c].pid}
  BY DEF Inv, Tracked, AnswersFor
<1> QED
  BY <1>2, <1>3 DEF Listening, Daemons

(***************************************************************************)
(* start_daemon, stop_daemon and restart_daemon keep one daemon and know   *)
(* it, however many shells give commands, whatever else runs under the ids *)
(* and wherever a command is cut off, unless one of them loses it.         *)
(***************************************************************************)
THEOREM DaemonStaysKnown == Spec => DaemonIsKnown
<1>1. Inv => RunningDaemonIsKnown /\ OneDaemon
  BY TrackedIsKnown, TrackedIsOne
<1>2. Inv /\ [Next]_vars => [StartedIsServing]_vars
  BY AnswerIsOwn
<1> QED
  BY <1>1, <1>2, Invariance, PTL DEF Spec, DaemonIsKnown

-----------------------------------------------------------------------------
(***************************************************************************)
(* Connections. The invariant follows the bytes of each: those that are    *)
(* read are relayed or kept to be, numbered without a gap from the first   *)
(* (Whole), unless the client closed before its fourth, which is then lost *)
(* (Lost). A connection an accept loop is at is that loop's alone          *)
(* (Accepting), and its setting is one since it was accepted; a cache      *)
(* entry of a certificate does not outlive it (ConnectionsSound).          *)
(***************************************************************************)
ProxyConstants ==
  /\ Ttl \in Nat \ {0} /\ MaxBytes \in Nat
  /\ "waiting" \notin Conns /\ "panicked" \notin Conns

ConnPhases == Proxy!Serving \cup Proxy!Upgraded \cup {"accepted", "closed", "panicked"}
Routes == {"selfService", "connect", "websocket", "http", "tunnel"}
Connection ==
  [phase : ConnPhases, since : Nat, via : [route : {"direct", "proxy"}, version : Nat] \cup {Nobody},
   request : [asked : Requests, route : Routes] \cup {Nobody}, host : Hosts \cup {Nobody},
   speaks : {"tls", "get", "other"}, sent : 0 .. MaxBytes, eof : BOOLEAN, taken : Nat,
   pre : Seq(Nat), relayed : Seq(Nat), cert : [until : Nat, shown : Nat] \cup {Nobody}]

ProxyTyped ==
  /\ acceptor \in [Addrs -> Conns \cup {"waiting", "panicked"}]
  /\ conns \in [Conns -> Connection]
  /\ certs \in [Hosts -> [until : Nat, cachedUntil : Nat] \cup {Nobody}]
  /\ clientProxy.version \in Nat /\ time \in Nat

\* The bytes that are read have been relayed or are kept to be, in order.
Counts(s, from) == \A i \in 1 .. Len(s) : s[i] = from + i
Whole(r) ==
  /\ Len(r.relayed) + Len(r.pre) = r.taken
  /\ Counts(r.relayed, 0) /\ Counts(r.pre, Len(r.relayed))
Lost(r) == r.eof /\ r.sent < Proxy!SniffLength

ConnectionSound(r) ==
  /\ r.phase \in {"accepted", "open", "upgraded"} => r.taken = 0 /\ r.pre = << >> /\ r.relayed = << >>
  /\ r.phase \in {"upgraded", "deciding", "handshake"} => r.host \in Hosts
  /\ r.request # Nobody =>
       r.phase \in Proxy!Serving /\ (r.request.route = "connect" => r.phase = "open")
  /\ r.taken <= r.sent /\ (Whole(r) \/ Lost(r))
  /\ r.via # Nobody => r.via.version >= r.since
  /\ r.cert # Nobody => r.cert.shown < r.cert.until

Accepting ==
  /\ \A a \in Addrs : acceptor[a] \in Conns => conns[acceptor[a]].phase = "accepted"
  /\ \A a, b \in Addrs : acceptor[a] \in Conns /\ acceptor[a] = acceptor[b] => a = b

ConnectionsSound ==
  /\ \A c \in Conns : ConnectionSound(conns[c]) /\ conns[c].since <= clientProxy.version
  /\ \A h \in Hosts : certs[h] # Nobody => certs[h].cachedUntil <= certs[h].until

ProxyInv == ProxyTyped /\ Accepting /\ ConnectionsSound

\* A connection nobody uses is sound.
LEMMA UnusedFits ==
  ASSUME ProxyConstants
  PROVE  /\ Proxy!Unused \in Connection /\ ConnectionSound(Proxy!Unused) /\ Proxy!Unused.since = 0
         /\ Proxy!Unused.phase = "closed" /\ Proxy!Unused.via = Nobody
         /\ Proxy!Panicked \in Connection /\ ConnectionSound(Proxy!Panicked) /\ Proxy!Panicked.since = 0
         /\ Proxy!Panicked.phase = "panicked"
<1>1. Proxy!Unused \in Connection /\ Proxy!Panicked \in Connection
  <2>1. Proxy!Unused \in Connection
    BY DEF Proxy!Unused, Connection, ConnPhases, ProxyConstants
  <2> QED BY <2>1 DEF Proxy!Panicked, Connection, ConnPhases
<1>2. Whole(Proxy!Unused) /\ Whole(Proxy!Panicked)
  BY DEF Proxy!Unused, Proxy!Panicked, Whole, Counts
<1> QED BY <1>1, <1>2 DEF Proxy!Unused, Proxy!Panicked, ConnectionSound

\* A step of a connection no accept loop is at.
LEMMA ConnectionMoves ==
  ASSUME ProxyInv, NEW c \in Conns, conns[c].phase # "accepted",
         NEW r \in Connection, conns' = [conns EXCEPT ![c] = r], ConnectionSound(r),
         r.since <= clientProxy.version, UNCHANGED <<clientProxy, acceptor, time>>,
         certs' \in [Hosts -> [until : Nat, cachedUntil : Nat] \cup {Nobody}],
         \A h \in Hosts : certs'[h] # Nobody => certs'[h].cachedUntil <= certs'[h].until
  PROVE  ProxyInv'
<1> USE DEF ProxyInv
<1>1. ProxyTyped'
  BY DEF ProxyTyped
<1>2. \A d \in Conns : conns'[d] = IF d = c THEN r ELSE conns[d]
  BY DEF ProxyTyped
<1>3. Accepting'
  BY <1>2 DEF Accepting
<1>4. \A d \in Conns : ConnectionSound(conns'[d]) /\ conns'[d].since <= clientProxy.version
  BY <1>2 DEF ConnectionsSound
<1>5. ConnectionsSound'
  BY <1>4 DEF ConnectionsSound
<1> QED BY <1>1, <1>3, <1>5

\* Bytes that count on from the others' end count as a whole.
LEMMA CountsOn ==
  ASSUME NEW s \in Seq(Nat), NEW t \in Seq(Nat), Counts(s, 0), Counts(t, Len(s))
  PROVE  s \o t \in Seq(Nat) /\ Len(s \o t) = Len(s) + Len(t) /\ Counts(s \o t, 0)
<1>1. /\ s \o t \in Seq(Nat) /\ Len(s \o t) = Len(s) + Len(t)
      /\ \A i \in 1 .. Len(s) + Len(t) : (s \o t)[i] = IF i <= Len(s) THEN s[i] ELSE t[i - Len(s)]
  BY ConcatProperties
<1>2. Len(s) \in Nat /\ Len(t) \in Nat
  OBVIOUS
<1>3. ASSUME NEW i \in 1 .. Len(s) + Len(t) PROVE (s \o t)[i] = i
  <2>1. CASE i <= Len(s)
    BY <1>1, <1>2, <2>1 DEF Counts
  <2>2. CASE i > Len(s)
    <3>1. i - Len(s) \in 1 .. Len(t) /\ Len(s) + (i - Len(s)) = i /\ ~(i <= Len(s))
      BY <1>2, <2>2
    <3>2. (s \o t)[i] = t[i - Len(s)]
      BY <1>1, <3>1
    <3> QED BY <3>1, <3>2 DEF Counts
  <2> QED BY <1>2, <2>1, <2>2
<1> QED BY <1>1, <1>3 DEF Counts

\* The parts of bytes in order are in order.
LEMMA CountsParts ==
  ASSUME NEW s \in Seq(Nat), NEW n \in 0 .. Len(s), NEW from \in Nat, Counts(s, from)
  PROVE  /\ SubSeq(s, 1, n) \in Seq(Nat) /\ Len(SubSeq(s, 1, n)) = n /\ Counts(SubSeq(s, 1, n), from)
         /\ SubSeq(s, n + 1, Len(s)) \in Seq(Nat) /\ Len(SubSeq(s, n + 1, Len(s))) = Len(s) - n
         /\ Counts(SubSeq(s, n + 1, Len(s)), from + n)
<1>1. Len(s) \in Nat /\ \A i \in 1 .. Len(s) : s[i] \in Nat
  OBVIOUS
<1>2. /\ SubSeq(s, 1, n) \in Seq(Nat) /\ Len(SubSeq(s, 1, n)) = n
      /\ \A i \in 1 .. n : SubSeq(s, 1, n)[i] = s[i]
  BY <1>1, SMT
<1>3. /\ SubSeq(s, n + 1, Len(s)) \in Seq(Nat) /\ Len(SubSeq(s, n + 1, Len(s))) = Len(s) - n
      /\ \A i \in 1 .. Len(s) - n : SubSeq(s, n + 1, Len(s))[i] = s[n + i]
  BY <1>1, SMT
<1>4. Counts(SubSeq(s, 1, n), from)
  BY <1>1, <1>2 DEF Counts
<1>5. ASSUME NEW i \in 1 .. Len(s) - n PROVE SubSeq(s, n + 1, Len(s))[i] = from + n + i
  <2>1. n + i \in 1 .. Len(s)
    BY <1>1
  <2>2. s[n + i] = from + (n + i)
    BY <2>1 DEF Counts
  <2> QED BY <1>1, <1>3, <2>2
<1> QED BY <1>2, <1>3, <1>4, <1>5 DEF Counts

\* What is left of the sniffed bytes is a sequence.
LEMMA PrefixTyped ==
  ASSUME NEW r \in Connection, NEW size \in Nat \ {0}
  PROVE  Proxy!FromPrefix(r, size) \in Connection
<1> DEFINE n == IF Len(r.pre) < size THEN Len(r.pre) ELSE size
           first == SubSeq(r.pre, 1, n)
           rest == SubSeq(r.pre, n + 1, Len(r.pre))
<1>1. r.pre \in Seq(Nat) /\ r.relayed \in Seq(Nat) /\ Len(r.pre) \in Nat /\ n \in 0 .. Len(r.pre)
  BY DEF Connection
<1>2. Proxy!FromPrefix(r, size) = [r EXCEPT !.relayed = r.relayed \o first, !.pre = rest]
  BY DEF Proxy!FromPrefix
<1> HIDE DEF n
<1>3. first \in Seq(Nat) /\ rest \in Seq(Nat)
  BY <1>1, SMT
<1> HIDE DEF first, rest
<1>4. r.relayed \o first \in Seq(Nat)
  BY <1>1, <1>3, ConcatProperties
<1> QED BY <1>2, <1>3, <1>4 DEF Connection

\* What is sniffed is relayed first, and stays in order.
LEMMA PrefixRelayed ==
  ASSUME NEW r \in Connection, Whole(r), NEW size \in Nat \ {0}
  PROVE  Proxy!FromPrefix(r, size) \in Connection /\ Whole(Proxy!FromPrefix(r, size))
<1> DEFINE n == IF Len(r.pre) < size THEN Len(r.pre) ELSE size
           first == SubSeq(r.pre, 1, n)
           rest == SubSeq(r.pre, n + 1, Len(r.pre))
<1>1. r.pre \in Seq(Nat) /\ r.relayed \in Seq(Nat) /\ Len(r.pre) \in Nat /\ Len(r.relayed) \in Nat
  BY DEF Connection
<1>2. n \in 0 .. Len(r.pre)
  BY <1>1
<1>3. Proxy!FromPrefix(r, size) = [r EXCEPT !.relayed = r.relayed \o first, !.pre = rest]
  BY DEF Proxy!FromPrefix
<1> HIDE DEF n
<1>4. /\ first \in Seq(Nat) /\ Len(first) = n /\ Counts(first, Len(r.relayed))
      /\ rest \in Seq(Nat) /\ Len(rest) = Len(r.pre) - n /\ Counts(rest, Len(r.relayed) + n)
  BY <1>1, <1>2, CountsParts DEF Whole
<1> HIDE DEF first, rest
<1>5. /\ r.relayed \o first \in Seq(Nat) /\ Len(r.relayed \o first) = Len(r.relayed) + n
      /\ Counts(r.relayed \o first, 0)
  BY <1>1, <1>4, CountsOn DEF Whole
<1>7. Proxy!FromPrefix(r, size) \in Connection
  BY <1>3, <1>4, <1>5 DEF Connection
<1>8. /\ Proxy!FromPrefix(r, size).relayed = r.relayed \o first /\ Proxy!FromPrefix(r, size).pre = rest
      /\ Proxy!FromPrefix(r, size).taken = r.taken
  BY <1>3 DEF Connection
<1>9. (Len(r.relayed) + n) + (Len(r.pre) - n) = Len(r.relayed) + Len(r.pre)
  <2>1. n \in Int /\ Len(r.pre) \in Int /\ Len(r.relayed) \in Int
    BY <1>1, <1>2
  <2>2. \A a, b, d \in Int : (a + d) + (b - d) = a + b
    OBVIOUS
  <2> QED BY <2>1, <2>2, Zenon
<1> QED BY <1>4, <1>5, <1>7, <1>8, <1>9 DEF Whole

\* What comes after is relayed from where the reading is.
LEMMA RestRelayed ==
  ASSUME NEW r \in Connection, r.pre = << >>, r.taken <= r.sent, NEW size \in Nat \ {0}
  PROVE  /\ Proxy!FromClient(r, size) \in Connection
         /\ Proxy!FromClient(r, size).taken <= r.sent
         /\ Whole(r) => Whole(Proxy!FromClient(r, size))
<1> DEFINE n == IF r.sent - r.taken < size THEN r.sent - r.taken ELSE size
           more == [i \in 1 .. n |-> r.taken + i]
<1>1. /\ r.relayed \in Seq(Nat) /\ Len(r.relayed) \in Nat /\ r.taken \in Nat /\ r.sent \in Int
      /\ Len(r.pre) = 0
  BY DEF Connection
<1>2. n \in Nat /\ r.taken + n <= r.sent
  BY <1>1
<1>3. Proxy!FromClient(r, size) = [r EXCEPT !.relayed = r.relayed \o more, !.taken = r.taken + n]
  BY DEF Proxy!FromClient
<1> HIDE DEF n
<1>4. more \in Seq(Nat) /\ Len(more) = n /\ Counts(more, r.taken)
  <2>1. \A i \in 1 .. n : r.taken + i \in Nat
    BY <1>1, <1>2
  <2>2. more \in Seq(Nat) /\ Len(more) = n
    BY <1>2, <2>1, SMT
  <2> QED BY <2>2 DEF Counts
<1> HIDE DEF more
<1>5. r.relayed \o more \in Seq(Nat)
  BY <1>1, <1>4, ConcatProperties
<1>6. Proxy!FromClient(r, size) \in Connection
  <2>1. r.taken + n \in Nat
    BY <1>1, <1>2
  <2> QED BY <1>3, <1>5, <2>1 DEF Connection
<1>7. /\ Proxy!FromClient(r, size).relayed = r.relayed \o more /\ Proxy!FromClient(r, size).pre = r.pre
      /\ Proxy!FromClient(r, size).taken = r.taken + n
  BY <1>3 DEF Connection
<1>8. ASSUME Whole(r) PROVE Whole(Proxy!FromClient(r, size))
  <2>1. Len(r.relayed) = r.taken /\ Counts(r.relayed, 0)
    BY <1>1, <1>8 DEF Whole
  <2>2. Len(r.relayed \o more) = r.taken + n /\ Counts(r.relayed \o more, 0)
    BY <1>1, <1>4, <2>1, CountsOn
  <2>3. Counts(r.pre, r.taken + n) /\ r.taken + n + 0 = r.taken + n
    BY <1>1, <1>2 DEF Counts
  <2> QED BY <1>1, <1>7, <2>2, <2>3 DEF Whole
<1> QED BY <1>2, <1>6, <1>7, <1>8

\* The proxy begins without connections.
LEMMA ProxyInvStarts == ASSUME ProxyConstants, Proxy!Init PROVE ProxyInv
<1>1. ProxyTyped
  BY UnusedFits DEF Proxy!Init, ProxyTyped
<1>2. Accepting
  BY DEF Proxy!Init, Accepting, ProxyConstants
<1>3. ConnectionsSound
  BY UnusedFits DEF Proxy!Init, ConnectionsSound
<1> QED BY <1>1, <1>2, <1>3 DEF ProxyInv

\* The accept loops and the settings.
LEMMA AcceptLoopsSound ==
  ASSUME ProxyConstants, ProxyInv,
         \/ Proxy!ChangeSettings \/ Proxy!Tick
         \/ \E a \in Addrs : Proxy!Accept(a) \/ Proxy!AcceptFails(a) \/ Proxy!BuildClient(a)
  PROVE  ProxyInv'
<1> USE DEF ProxyInv
<1>t. clientProxy.version \in Nat /\ time \in Nat /\ \A c \in Conns : conns[c] \in Connection
  BY DEF ProxyTyped
<1>1. CASE Proxy!ChangeSettings
  <2>1. UNCHANGED <<acceptor, conns, certs, time>>
    BY <1>1 DEF Proxy!ChangeSettings
  <2>2. clientProxy'.version \in {clientProxy.version, clientProxy.version + 1}
    BY <1>1 DEF Proxy!ChangeSettings
  <2>3. \A c \in Conns : conns[c].since \in Nat
    BY <1>t DEF Connection
  <2>4. clientProxy'.version \in Nat /\ \A c \in Conns : conns[c].since <= clientProxy'.version
    BY <1>t, <2>2, <2>3 DEF ConnectionsSound
  <2> QED BY <2>1, <2>4 DEF ProxyTyped, Accepting, ConnectionsSound
<1>2. CASE Proxy!Tick
  BY <1>2 DEF Proxy!Tick, Proxy!settings, ProxyTyped, Accepting, ConnectionsSound
<1>3. ASSUME NEW a \in Addrs, Proxy!Accept(a) PROVE ProxyInv'
  <2>1. PICK c \in Conns :
          /\ conns[c].phase = "closed" /\ acceptor' = [acceptor EXCEPT ![a] = c]
          /\ conns' = [conns EXCEPT ![c] =
                         [Proxy!Unused EXCEPT !.phase = "accepted", !.since = clientProxy.version]]
    BY <1>3 DEF Proxy!Accept
  <2>2. PICK r : r = [Proxy!Unused EXCEPT !.phase = "accepted", !.since = clientProxy.version]
    OBVIOUS
  <2>3. r \in Connection /\ r.phase = "accepted" /\ r.since = clientProxy.version
    BY <1>t, <2>2, UnusedFits DEF Connection, ConnPhases
  <2>4. ConnectionSound(r)
    BY <2>2, UnusedFits DEF ConnectionSound, Proxy!Unused, Whole, Counts
  <2>5. UNCHANGED <<clientProxy, certs, time>>
    BY <1>3 DEF Proxy!Accept, Proxy!settings
  <2>6. conns' \in [Conns -> Connection] /\ \A d \in Conns : conns'[d] = IF d = c THEN r ELSE conns[d]
    BY <2>1, <2>2, <2>3 DEF ProxyTyped
  <2>7. /\ acceptor' \in [Addrs -> Conns \cup {"waiting", "panicked"}]
        /\ \A b \in Addrs : acceptor'[b] = IF b = a THEN c ELSE acceptor[b]
    BY <2>1 DEF ProxyTyped
  <2>8. \A b \in Addrs : acceptor[b] \in Conns => acceptor[b] # c
    BY <2>1 DEF Accepting
  <2>9. Accepting'
    BY <2>3, <2>6, <2>7, <2>8 DEF Accepting
  <2>10. ConnectionsSound'
    BY <1>t, <2>3, <2>4, <2>5, <2>6 DEF ConnectionsSound
  <2> QED BY <2>5, <2>6, <2>7, <2>9, <2>10 DEF ProxyTyped
<1>4. ASSUME NEW a \in Addrs, Proxy!AcceptFails(a) PROVE ProxyInv'
  BY <1>4 DEF Proxy!AcceptFails, Proxy!settings, ProxyTyped, Accepting, ConnectionsSound,
    ProxyConstants
<1>5. ASSUME NEW a \in Addrs, Proxy!BuildClient(a) PROVE ProxyInv'
  <2> DEFINE c == acceptor[a]
             via == Proxy!Build(clientProxy.setting)
  <2>1. c \in Conns /\ conns[c].phase = "accepted"
    BY <1>5 DEF Proxy!BuildClient, Accepting
  <2>2. PICK r : r = IF via = "error" THEN Proxy!Unused
                     ELSE [conns[c] EXCEPT !.phase = "open",
                                           !.via = [route |-> via, version |-> clientProxy.version]]
    OBVIOUS
  <2>3. conns' = [conns EXCEPT ![c] = r] /\ UNCHANGED <<clientProxy, certs, time>>
    BY <1>5, <2>2 DEF Proxy!BuildClient, Proxy!settings
  <2>4. PICK w \in {"waiting", "panicked"} : acceptor' = [acceptor EXCEPT ![a] = w]
    BY <1>5 DEF Proxy!BuildClient
  <2>5. r \in Connection /\ ConnectionSound(r) /\ r.since <= clientProxy.version
    <3>1. CASE via = "error"
      BY <1>t, <2>2, <3>1, UnusedFits
    <3>2. CASE via # "error"
      <4>1. via \in {"direct", "proxy"}
        BY <3>2 DEF Proxy!Build
      <4>2. r = [conns[c] EXCEPT !.phase = "open",
                                 !.via = [route |-> via, version |-> clientProxy.version]]
        BY <2>2, <3>2
      <4>3. r \in Connection
        <5>1. PICK v : v = [route |-> via, version |-> clientProxy.version]
          OBVIOUS
        <5>2. v \in [route : {"direct", "proxy"}, version : Nat]
          BY <1>t, <4>1, <5>1
        <5>3. r = [conns[c] EXCEPT !.phase = "open", !.via = v]
          BY <4>2, <5>1
        <5>4. "open" \in ConnPhases /\ conns[c] \in Connection
          BY <1>t, <2>1 DEF ConnPhases, Proxy!Serving
        <5> QED BY <5>2, <5>3, <5>4 DEF Connection
      <4>4. ConnectionSound(conns[c]) /\ conns[c].since <= clientProxy.version
        BY <2>1 DEF ConnectionsSound
      <4>5. /\ r.phase = "open" /\ r.via.version = clientProxy.version
            /\ r.since = conns[c].since /\ r.request = conns[c].request /\ r.taken = conns[c].taken
            /\ r.sent = conns[c].sent /\ r.eof = conns[c].eof /\ r.pre = conns[c].pre
            /\ r.relayed = conns[c].relayed /\ r.cert = conns[c].cert
        BY <1>t, <2>1, <4>2 DEF Connection
      <4>6. ConnectionSound(r)
        <5>1. conns[c].request = Nobody
          BY <2>1, <4>4 DEF ConnectionSound, Proxy!Serving
        <5>2. clientProxy.version >= conns[c].since
          BY <1>t, <2>1, <4>4 DEF Connection
        <5>3. Whole(r) \/ Lost(r)
          BY <4>4, <4>5 DEF ConnectionSound, Whole, Lost
        <5> QED BY <2>1, <4>4, <4>5, <5>1, <5>2, <5>3 DEF ConnectionSound
      <4> QED BY <4>3, <4>4, <4>5, <4>6
    <3> QED BY <3>1, <3>2
  <2>6. conns' \in [Conns -> Connection] /\ \A d \in Conns : conns'[d] = IF d = c THEN r ELSE conns[d]
    BY <2>1, <2>3, <2>5 DEF ProxyTyped
  <2>7. /\ acceptor' \in [Addrs -> Conns \cup {"waiting", "panicked"}]
        /\ \A b \in Addrs : acceptor'[b] = IF b = a THEN w ELSE acceptor[b]
    BY <2>4 DEF ProxyTyped
  <2>8. \A b \in Addrs : acceptor'[b] \in Conns => b # a /\ acceptor[b] \in Conns /\ acceptor[b] # c
    BY <2>1, <2>7 DEF Accepting, ProxyConstants
  <2>9. Accepting'
    BY <2>6, <2>7, <2>8 DEF Accepting
  <2>10. ConnectionsSound'
    BY <2>3, <2>5, <2>6 DEF ConnectionsSound
  <2> QED BY <2>3, <2>6, <2>7, <2>9, <2>10 DEF ProxyTyped
<1> QED BY <1>1, <1>2, <1>3, <1>4, <1>5

\* A connection keeps what it was, but for the parts named.
SameBytes(r, s) ==
  /\ r.since = s.since /\ r.via = s.via /\ r.cert = s.cert /\ r.taken = s.taken
  /\ r.pre = s.pre /\ r.relayed = s.relayed

\* A connection none of whose bytes is read stays sound.
LEMMA SoundMoves ==
  ASSUME ProxyConstants, NEW s \in Connection, ConnectionSound(s),
         NEW r \in Connection, SameBytes(r, s),
         \/ r.sent = s.sent /\ (s.eof => r.eof)
         \/ ~s.eof /\ r.sent >= s.sent,
         r.phase \in {"accepted", "open", "upgraded"} => s.phase \in {"open", "upgraded"},
         r.phase \in {"upgraded", "deciding", "handshake"} => r.host \in Hosts,
         r.request # Nobody =>
           r.phase \in Proxy!Serving /\ (r.request.route = "connect" => r.phase = "open")
  PROVE  ConnectionSound(r)
<1>1. s.sent \in Int /\ r.sent \in Int /\ s.taken \in Nat
  BY DEF Connection, ProxyConstants
<1>2. r.taken <= r.sent
  BY <1>1 DEF ConnectionSound, SameBytes
<1>3. Whole(r) \/ Lost(r)
  BY <1>1 DEF ConnectionSound, SameBytes, Whole, Lost
<1> QED BY <1>2, <1>3 DEF ConnectionSound, SameBytes

\* What connections do.
LEMMA ConnectionsStaySound ==
  ASSUME ProxyConstants, ProxyInv, NEW c \in Conns,
         \/ Proxy!Ask(c) \/ Proxy!ServeSelf(c) \/ Proxy!UpstreamAnswers(c)
         \/ Proxy!HeadersTimeout(c) \/ Proxy!ServeWebSocket(c) \/ Proxy!ServeTunnel(c)
         \/ Proxy!ServeConnect(c) \/ Proxy!ClientSends(c) \/ Proxy!Sniff(c) \/ Proxy!Decide(c)
         \/ Proxy!Handshake(c) \/ Proxy!Dial(c) \/ Proxy!PollRead(c) \/ Proxy!Hangup(c)
  PROVE  ProxyInv'
<1> DEFINE s == conns[c]
<1>t. s \in Connection /\ clientProxy.version \in Nat /\ time \in Nat
  BY DEF ProxyInv, ProxyTyped
<1>s. ConnectionSound(s) /\ s.since <= clientProxy.version
  BY DEF ProxyInv, ConnectionsSound
<1>a. s.request # Nobody => s.phase \in Proxy!Serving /\ s.phase # "accepted"
  BY <1>s DEF ConnectionSound, Proxy!Serving
<1>1. ASSUME NEW r \in Connection, conns' = [conns EXCEPT ![c] = r], s.phase # "accepted",
             ConnectionSound(r), r.since <= clientProxy.version,
             UNCHANGED <<Proxy!settings, acceptor, certs, time>>
      PROVE  ProxyInv'
  <2>1. /\ UNCHANGED <<clientProxy, acceptor, time>>
        /\ certs' \in [Hosts -> [until : Nat, cachedUntil : Nat] \cup {Nobody}]
        /\ \A h \in Hosts : certs'[h] # Nobody => certs'[h].cachedUntil <= certs'[h].until
    BY <1>1 DEF Proxy!settings, ProxyInv, ProxyTyped, ConnectionsSound
  <2> QED BY <1>1, <2>1, ConnectionMoves
<1>2. CASE Proxy!Ask(c)
  <2>1. PICK q \in Requests :
          conns' = [conns EXCEPT ![c].request = [asked |-> q, route |-> Proxy!Route(q, s.phase)]]
    BY <1>2 DEF Proxy!Ask
  <2>2. PICK v : v = [asked |-> q, route |-> Proxy!Route(q, s.phase)]
    OBVIOUS
  <2>3. PICK r : r = [s EXCEPT !.request = v]
    OBVIOUS
  <2>4. v \in [asked : Requests, route : Routes] /\ (v.route = "connect" => s.phase = "open")
    BY <2>2 DEF Proxy!Route, Routes
  <2>5. r \in Connection /\ r.request = v /\ r.phase = s.phase /\ r.host = s.host /\ SameBytes(r, s)
        /\ r.sent = s.sent /\ r.eof = s.eof
    BY <1>t, <2>3, <2>4 DEF Connection, SameBytes
  <2>6. s.phase \in Proxy!Serving /\ UNCHANGED <<Proxy!settings, acceptor, certs, time>>
    BY <1>2 DEF Proxy!Ask
  <2>7. ConnectionSound(r)
    BY <1>t, <1>s, <2>4, <2>5, <2>6, SoundMoves DEF Proxy!Serving
  <2>8. conns' = [conns EXCEPT ![c] = r]
    BY <2>1, <2>2, <2>3
  <2> QED BY <1>1, <1>s, <2>5, <2>6, <2>7, <2>8 DEF Proxy!Serving, SameBytes
<1>3. CASE Proxy!ServeSelf(c) \/ Proxy!UpstreamAnswers(c) \/ Proxy!HeadersTimeout(c)
  <2>1. PICK r : r = [s EXCEPT !.request = Nobody]
    OBVIOUS
  <2>2. /\ conns' = [conns EXCEPT ![c] = r] /\ s.request # Nobody
        /\ UNCHANGED <<Proxy!settings, acceptor, certs, time>>
    BY <1>3, <2>1 DEF Proxy!ServeSelf, Proxy!UpstreamAnswers, Proxy!HeadersTimeout, Proxy!Routed
  <2>3. r \in Connection /\ r.request = Nobody /\ r.phase = s.phase
        /\ r.host = s.host /\ SameBytes(r, s)
        /\ r.sent = s.sent /\ r.eof = s.eof
    BY <1>t, <2>1 DEF Connection, SameBytes
  <2>4. ConnectionSound(r)
    BY <1>t, <1>s, <1>a, <2>2, <2>3, SoundMoves DEF Proxy!Serving
  <2> QED BY <1>1, <1>s, <1>a, <2>2, <2>3, <2>4 DEF SameBytes
<1>4. CASE Proxy!ServeWebSocket(c) \/ Proxy!Hangup(c)
  <2>1. \E r \in {Proxy!Unused, Proxy!Panicked} : conns' = [conns EXCEPT ![c] = r]
    BY <1>4 DEF Proxy!ServeWebSocket, Proxy!Hangup
  <2>2. s.phase # "accepted" /\ UNCHANGED <<Proxy!settings, acceptor, certs, time>>
    BY <1>4, <1>a DEF Proxy!ServeWebSocket, Proxy!Hangup, Proxy!Routed
  <2>3. \A r \in {Proxy!Unused, Proxy!Panicked} :
          r \in Connection /\ ConnectionSound(r) /\ r.since <= clientProxy.version
    BY <1>t, UnusedFits
  <2>4. PICK r : r \in {Proxy!Unused, Proxy!Panicked} /\ conns' = [conns EXCEPT ![c] = r]
    BY <2>1
  <2>5. r \in Connection /\ ConnectionSound(r) /\ r.since <= clientProxy.version
    BY <2>3, <2>4
  <2>6. conns' = [conns EXCEPT ![c] = r]
    BY <2>4
  <2> HIDE DEF s
  <2> QED BY <1>1, <2>2, <2>5, <2>6
<1>5. CASE Proxy!ServeTunnel(c)
  <2>1. s.request # Nobody /\ UNCHANGED <<Proxy!settings, acceptor, certs, time>>
    BY <1>5 DEF Proxy!ServeTunnel, Proxy!Routed
  <2>2. CASE s.request.asked.method = "CONNECT"
    <3>1. PICK r : r = [s EXCEPT !.request = Nobody, !.phase = "dialling"]
      OBVIOUS
    <3>2. conns' = [conns EXCEPT ![c] = r]
      BY <1>5, <2>2, <3>1 DEF Proxy!ServeTunnel
    <3>3. r \in Connection /\ r.request = Nobody /\ r.phase = "dialling" /\ SameBytes(r, s)
          /\ r.sent = s.sent /\ r.eof = s.eof
      BY <1>t, <3>1 DEF Connection, SameBytes, ConnPhases, Proxy!Upgraded
    <3>4. ConnectionSound(r)
      BY <1>t, <1>s, <3>3, SoundMoves
    <3> QED BY <1>1, <1>s, <1>a, <2>1, <3>2, <3>3, <3>4 DEF SameBytes
  <2>3. CASE s.request.asked.method # "CONNECT"
    <3>1. conns' = [conns EXCEPT ![c] = Proxy!Panicked]
      BY <1>5, <2>3 DEF Proxy!ServeTunnel
    <3>2. /\ Proxy!Panicked \in Connection /\ ConnectionSound(Proxy!Panicked)
          /\ Proxy!Panicked.since <= clientProxy.version
      BY <1>t, UnusedFits
    <3>3. s.phase # "accepted"
      BY <1>a, <2>1
    <3> HIDE DEF s
    <3> QED BY <1>1, <2>1, <3>1, <3>2, <3>3
  <2> QED BY <2>2, <2>3
<1>6. CASE Proxy!ServeConnect(c)
  <2>1. PICK h \in Hosts, k \in {"tls", "get", "other"} :
          conns' = [conns EXCEPT ![c] = [s EXCEPT !.request = Nobody, !.phase = "upgraded",
                                                  !.host = h, !.speaks = k]]
    BY <1>6 DEF Proxy!ServeConnect
  <2>2. PICK r : r = [s EXCEPT !.request = Nobody, !.phase = "upgraded", !.host = h, !.speaks = k]
    OBVIOUS
  <2>3. s.phase = "open" /\ UNCHANGED <<Proxy!settings, acceptor, certs, time>>
    BY <1>6, <1>s DEF Proxy!ServeConnect, Proxy!Routed, ConnectionSound
  <2>4. r \in Connection /\ r.request = Nobody /\ r.phase = "upgraded" /\ r.host = h /\ SameBytes(r, s)
        /\ r.sent = s.sent /\ r.eof = s.eof
    BY <1>t, <2>2 DEF Connection, SameBytes, ConnPhases, Proxy!Upgraded
  <2>5. ConnectionSound(r)
    BY <1>t, <1>s, <2>3, <2>4, SoundMoves
  <2>6. conns' = [conns EXCEPT ![c] = r]
    BY <2>1, <2>2
  <2> QED BY <1>1, <1>s, <2>3, <2>4, <2>5, <2>6 DEF SameBytes
<1>7. CASE Proxy!ClientSends(c)
  <2>1. /\ s.phase \in Proxy!Upgraded \ {"decrypted", "websockets"} /\ ~s.eof
        /\ UNCHANGED <<Proxy!settings, acceptor, certs, time>>
    BY <1>7 DEF Proxy!ClientSends
  <2>2. PICK r : /\ conns' = [conns EXCEPT ![c] = r]
                 /\ \/ s.sent < MaxBytes /\ r = [s EXCEPT !.sent = s.sent + 1]
                    \/ r = [s EXCEPT !.eof = TRUE]
    BY <1>7 DEF Proxy!ClientSends
  <2>3. s.sent \in 0 .. MaxBytes
    BY <1>t DEF Connection
  <2>4. r \in Connection /\ r.sent >= s.sent
    <3>1. CASE s.sent < MaxBytes /\ r = [s EXCEPT !.sent = s.sent + 1]
      <4>1. s.sent + 1 \in 0 .. MaxBytes /\ s.sent + 1 >= s.sent
        BY <2>3, <3>1 DEF ProxyConstants
      <4>2. PICK n \in 0 .. MaxBytes : n = s.sent + 1
        BY <4>1
      <4>3. r = [s EXCEPT !.sent = n]
        BY <3>1, <4>2
      <4>4. r \in Connection /\ r.sent = n
        BY <1>t, <4>3 DEF Connection
      <4> QED BY <4>1, <4>2, <4>4
    <3>2. CASE r = [s EXCEPT !.eof = TRUE]
      <4>1. r \in Connection /\ r.sent = s.sent
        BY <1>t, <3>2 DEF Connection
      <4> QED BY <2>3, <4>1 DEF ProxyConstants
    <3> QED BY <2>2, <3>1, <3>2
  <2>5. r.request = s.request /\ r.phase = s.phase /\ r.host = s.host /\ SameBytes(r, s)
    BY <1>t, <2>2 DEF Connection, SameBytes
  <2>6. s.phase \notin Proxy!Serving \cup {"accepted", "open"}
    BY <2>1 DEF Proxy!Upgraded, Proxy!Serving
  <2>7. s.request = Nobody
    BY <1>s, <2>6 DEF ConnectionSound
  <2>8. ConnectionSound(r)
    <3>1. r.phase \in {"upgraded", "deciding", "handshake"} => r.host \in Hosts
      BY <1>s, <2>5 DEF ConnectionSound
    <3>2. r.phase \in {"accepted", "open", "upgraded"} => s.phase \in {"open", "upgraded"}
      BY <2>5, <2>6
    <3> QED BY <1>t, <1>s, <2>1, <2>4, <2>5, <2>7, <3>1, <3>2, SoundMoves
  <2> QED BY <1>1, <1>s, <2>1, <2>2, <2>4, <2>5, <2>6, <2>8 DEF SameBytes
<1>8. CASE Proxy!Sniff(c)
  <2> DEFINE n == IF s.sent < Proxy!SniffLength THEN s.sent ELSE Proxy!SniffLength
             pre == IF n = Proxy!SniffLength THEN [i \in 1 .. n |-> i] ELSE << >>
             phase == CASE s.speaks = "get" /\ n = Proxy!SniffLength -> "websockets"
                        [] s.speaks = "tls" /\ n >= 2 -> "deciding"
                        [] OTHER -> "dialling"
  <2>1. /\ s.phase = "upgraded" /\ (n = Proxy!SniffLength \/ s.eof)
        /\ conns' = [conns EXCEPT ![c] = [s EXCEPT !.taken = n, !.pre = pre, !.phase = phase]]
        /\ UNCHANGED <<Proxy!settings, acceptor, certs, time>>
    BY <1>8 DEF Proxy!Sniff
  <2>2. s.sent \in Nat
    BY <1>t DEF Connection, ProxyConstants
  <2>3. n \in Nat /\ n <= s.sent
    BY <2>2 DEF Proxy!SniffLength
  <2>4. pre \in Seq(Nat) /\ (n = Proxy!SniffLength => Len(pre) = n /\ Counts(pre, 0))
    <3>1. CASE n = Proxy!SniffLength
      <4>1. [i \in 1 .. n |-> i] \in Seq(Nat) /\ Len([i \in 1 .. n |-> i]) = n
        BY <2>3, SMT
      <4>2. pre = [i \in 1 .. n |-> i]
        BY <3>1
      <4> HIDE DEF n, pre
      <4>3. Len(pre) = n /\ \A i \in 1 .. n : pre[i] = i
        BY <4>1, <4>2
      <4>4. \A i \in 1 .. Len(pre) : pre[i] = 0 + i
        BY <2>3, <4>3
      <4> QED BY <4>1, <4>2, <4>3, <4>4 DEF Counts
    <3>2. CASE n # Proxy!SniffLength
      BY <3>2
    <3> QED BY <3>1, <3>2
  <2>5. phase \in {"websockets", "deciding", "dialling"}
    OBVIOUS
  <2>6. n # Proxy!SniffLength => s.eof /\ s.sent < Proxy!SniffLength
    BY <2>1, <2>2 DEF Proxy!SniffLength
  <2>7. /\ s.taken = 0 /\ s.relayed = << >> /\ s.host \in Hosts
        /\ s.request = Nobody
    BY <1>s, <2>1 DEF ConnectionSound, Proxy!Serving
  <2> HIDE DEF n, pre, phase
  <2>8. PICK r : r = [s EXCEPT !.taken = n, !.pre = pre, !.phase = phase]
    OBVIOUS
  <2>9. r \in Connection
    BY <1>t, <2>3, <2>4, <2>5, <2>8 DEF Connection, ConnPhases, Proxy!Upgraded
  <2>10. /\ r.taken = n /\ r.pre = pre /\ r.phase = phase /\ r.relayed = << >> /\ r.since = s.since
         /\ r.via = s.via /\ r.cert = s.cert /\ r.sent = s.sent /\ r.eof = s.eof
         /\ r.host = s.host /\ r.request = Nobody
    BY <1>t, <2>7, <2>8 DEF Connection
  <2>11. Whole(r) \/ Lost(r)
    <3>1. CASE n = Proxy!SniffLength
      <4>1. Len(r.relayed) = 0 /\ Counts(r.relayed, 0)
        BY <2>10 DEF Counts
      <4> QED BY <2>3, <2>4, <2>10, <3>1, <4>1 DEF Whole
    <3>2. CASE n # Proxy!SniffLength
      BY <2>6, <2>10, <3>2 DEF Lost
    <3> QED BY <3>1, <3>2
  <2>12. ConnectionSound(r)
    BY <1>s, <2>3, <2>5, <2>7, <2>10, <2>11 DEF ConnectionSound
  <2> QED BY <1>1, <1>s, <2>1, <2>8, <2>9, <2>10, <2>12
<1>9. CASE Proxy!Decide(c)
  <2>1. PICK p \in {"handshake", "dialling"} : conns' = [conns EXCEPT ![c].phase = p]
    BY <1>9 DEF Proxy!Decide
  <2>2. s.phase = "deciding" /\ UNCHANGED <<Proxy!settings, acceptor, certs, time>>
    BY <1>9 DEF Proxy!Decide
  <2>3. PICK r : r = [s EXCEPT !.phase = p]
    OBVIOUS
  <2>4. r \in Connection /\ r.request = s.request /\ r.phase = p /\ r.host = s.host /\ SameBytes(r, s)
        /\ r.sent = s.sent /\ r.eof = s.eof
    BY <1>t, <2>3 DEF Connection, SameBytes, ConnPhases, Proxy!Upgraded
  <2>5. s.host \in Hosts /\ s.request = Nobody
    BY <1>s, <2>2 DEF ConnectionSound, Proxy!Serving
  <2>6. ConnectionSound(r)
    BY <1>t, <1>s, <2>4, <2>5, SoundMoves
  <2>7. conns' = [conns EXCEPT ![c] = r]
    BY <2>1, <2>3
  <2> QED BY <1>1, <1>s, <2>2, <2>4, <2>6, <2>7 DEF SameBytes
<1>10. CASE Proxy!Handshake(c)
  <2> DEFINE crt == Proxy!Certificate(s.host)
  <2>1. s.phase = "handshake" /\ s.host \in Hosts /\ s.request = Nobody
    BY <1>10, <1>s DEF Proxy!Handshake, ConnectionSound, Proxy!Serving
  <2>2. certs' = [certs EXCEPT ![s.host] = crt] /\ UNCHANGED <<clientProxy, acceptor, time>>
    BY <1>10 DEF Proxy!Handshake, Proxy!settings
  <2>3. crt \in [until : Nat, cachedUntil : Nat] /\ crt.cachedUntil <= crt.until /\ time < crt.until
    <3>1. CASE Proxy!Cached(s.host)
      <4>1. crt = certs[s.host] /\ crt # Nobody /\ time < crt.cachedUntil
        BY <3>1 DEF Proxy!Certificate, Proxy!Cached
      <4>2. crt \in [until : Nat, cachedUntil : Nat] /\ crt.cachedUntil <= crt.until
        BY <2>1, <4>1 DEF ProxyInv, ProxyTyped, ConnectionsSound
      <4> QED BY <1>t, <4>1, <4>2
    <3>2. CASE ~Proxy!Cached(s.host)
      <4>1. crt = [until |-> time + Ttl, cachedUntil |-> time + Proxy!CacheTtl]
        BY <3>2 DEF Proxy!Certificate, Proxy!Generated
      <4>2. Proxy!CacheTtl \in Nat /\ Proxy!CacheTtl <= Ttl /\ Ttl \in Nat \ {0}
        BY DEF Proxy!CacheTtl, ProxyConstants
      <4>3. /\ time + Ttl \in Nat /\ time + Proxy!CacheTtl \in Nat
            /\ time + Proxy!CacheTtl <= time + Ttl /\ time < time + Ttl
        BY <1>t, <4>2
      <4> QED BY <4>1, <4>3
    <3> QED BY <3>1, <3>2
  <2> HIDE DEF crt
  <2>4. certs' \in [Hosts -> [until : Nat, cachedUntil : Nat] \cup {Nobody}] /\ certs'[s.host] = crt
    BY <2>1, <2>2, <2>3 DEF ProxyInv, ProxyTyped
  <2>5. \A h \in Hosts : certs'[h] # Nobody => certs'[h].cachedUntil <= certs'[h].until
    BY <2>1, <2>2, <2>3 DEF ProxyInv, ProxyTyped, ConnectionsSound
  <2>6. PICK r : r = IF s.pre = << >> THEN Proxy!Unused
                     ELSE [s EXCEPT !.phase = "decrypted",
                                    !.cert = [until |-> crt.until, shown |-> time]]
    OBVIOUS
  <2>7. conns' = [conns EXCEPT ![c] = r]
    BY <1>10, <2>4, <2>6 DEF Proxy!Handshake
  <2>8. r \in Connection /\ ConnectionSound(r) /\ r.since <= clientProxy.version
    <3>1. CASE s.pre = << >>
      BY <1>t, <2>6, <3>1, UnusedFits
    <3>2. CASE s.pre # << >>
      <4>1. PICK v : v = [until |-> crt.until, shown |-> time]
        OBVIOUS
      <4>2. v \in [until : Nat, shown : Nat] /\ v.shown < v.until
        BY <1>t, <2>3, <4>1
      <4>3. r = [s EXCEPT !.phase = "decrypted", !.cert = v]
        BY <2>6, <3>2, <4>1
      <4>4. r \in Connection
        BY <1>t, <4>2, <4>3 DEF Connection, ConnPhases, Proxy!Serving
      <4>5. /\ r.taken = s.taken /\ r.pre = s.pre /\ r.relayed = s.relayed /\ r.since = s.since
            /\ r.via = s.via /\ r.cert = v /\ r.sent = s.sent /\ r.eof = s.eof
            /\ r.phase = "decrypted" /\ r.request = s.request
        BY <1>t, <4>3 DEF Connection
      <4>6. ConnectionSound(r)
        BY <1>s, <2>1, <4>2, <4>5 DEF ConnectionSound, Whole, Lost
      <4> QED BY <1>s, <4>4, <4>5, <4>6
    <3> QED BY <3>1, <3>2
  <2> QED BY <2>1, <2>2, <2>4, <2>5, <2>7, <2>8, ConnectionMoves
<1>11. CASE Proxy!Dial(c)
  <2>1. s.phase = "dialling" /\ UNCHANGED <<Proxy!settings, acceptor, certs, time>>
    BY <1>11 DEF Proxy!Dial
  <2>2. PICK r \in {[s EXCEPT !.phase = "tunnel"], Proxy!Unused} : conns' = [conns EXCEPT ![c] = r]
    BY <1>11 DEF Proxy!Dial
  <2>3. CASE r = Proxy!Unused
    <3>1. r \in Connection /\ ConnectionSound(r) /\ r.since <= clientProxy.version
      BY <1>t, <2>3, UnusedFits
    <3> QED BY <1>1, <2>1, <2>2, <3>1
  <2>4. CASE r = [s EXCEPT !.phase = "tunnel"]
    <3>1. r \in Connection /\ r.request = s.request /\ r.phase = "tunnel" /\ SameBytes(r, s)
          /\ r.sent = s.sent /\ r.eof = s.eof
      BY <1>t, <2>4 DEF Connection, SameBytes, ConnPhases, Proxy!Upgraded
    <3>2. s.request = Nobody
      BY <1>s, <2>1 DEF ConnectionSound, Proxy!Serving
    <3>3. ConnectionSound(r)
      BY <1>t, <1>s, <3>1, <3>2, SoundMoves
    <3> QED BY <1>1, <1>s, <2>1, <2>2, <3>1, <3>3 DEF SameBytes
  <2> QED BY <2>2, <2>3, <2>4
<1>12. CASE Proxy!PollRead(c)
  <2>1. /\ s.phase \in {"tunnel", "decrypted", "websockets"}
        /\ UNCHANGED <<Proxy!settings, acceptor, certs, time>>
    BY <1>12 DEF Proxy!PollRead
  <2>2. PICK size \in {1, 3} :
          conns' = [conns EXCEPT ![c] = IF s.pre # << >> THEN Proxy!FromPrefix(s, size)
                                        ELSE Proxy!FromClient(s, size)]
    BY <1>12 DEF Proxy!PollRead
  <2>3. PICK r : r = IF s.pre # << >> THEN Proxy!FromPrefix(s, size) ELSE Proxy!FromClient(s, size)
    OBVIOUS
  <2>4. /\ r.phase = s.phase /\ r.since = s.since /\ r.via = s.via /\ r.cert = s.cert /\ r.sent = s.sent
        /\ r.eof = s.eof /\ r.request = s.request
        /\ s.pre # << >> => r.taken = s.taken
    BY <1>t, <2>3 DEF Proxy!FromPrefix, Proxy!FromClient, Connection
  <2>5. /\ r \in Connection /\ r.taken <= r.sent
        /\ Whole(s) => Whole(r)
    <3>1. CASE s.pre = << >>
      BY <1>t, <1>s, <2>3, <2>4, <3>1, RestRelayed DEF ConnectionSound
    <3>2. CASE s.pre # << >>
      <4>1. s.taken <= s.sent /\ r = Proxy!FromPrefix(s, size)
        BY <1>s, <2>3, <3>2 DEF ConnectionSound
      <4>2. r \in Connection /\ (Whole(s) => Whole(r))
        BY <1>t, <4>1, PrefixRelayed, PrefixTyped
      <4> QED BY <2>4, <3>2, <4>1, <4>2
    <3> QED BY <3>1, <3>2
  <2>6. ConnectionSound(r)
    BY <1>s, <2>1, <2>4, <2>5 DEF ConnectionSound, Lost, Proxy!Serving
  <2>7. conns' = [conns EXCEPT ![c] = r]
    BY <2>2, <2>3
  <2> QED BY <1>1, <1>s, <2>1, <2>4, <2>5, <2>6, <2>7
<1> QED BY <1>2, <1>3, <1>4, <1>5, <1>6, <1>7, <1>8, <1>9, <1>10, <1>11, <1>12

\* Whatever the proxy is at, its connections are well formed and sound.
LEMMA ProxyInvHolds == ASSUME ProxyConstants PROVE Proxy!Spec => []ProxyInv
<1>1. Proxy!Init => ProxyInv
  BY ProxyInvStarts
<1>2. ProxyInv /\ [Proxy!Next]_(Proxy!vars) => ProxyInv'
  <2> SUFFICES ASSUME ProxyInv, [Proxy!Next]_(Proxy!vars) PROVE ProxyInv'
    OBVIOUS
  <2>1. CASE UNCHANGED Proxy!vars
    BY <2>1 DEF Proxy!vars, ProxyInv, ProxyTyped, Accepting, ConnectionsSound
  <2>2. ASSUME \/ Proxy!ChangeSettings \/ Proxy!Tick
               \/ \E a \in Addrs : Proxy!Accept(a) \/ Proxy!AcceptFails(a) \/ Proxy!BuildClient(a)
        PROVE  ProxyInv'
    BY <2>2, AcceptLoopsSound
  <2>3. ASSUME NEW c \in Conns,
               \/ Proxy!Ask(c) \/ Proxy!ServeSelf(c) \/ Proxy!UpstreamAnswers(c)
               \/ Proxy!HeadersTimeout(c) \/ Proxy!ServeWebSocket(c) \/ Proxy!ServeTunnel(c)
               \/ Proxy!ServeConnect(c) \/ Proxy!ClientSends(c) \/ Proxy!Sniff(c) \/ Proxy!Decide(c)
               \/ Proxy!Handshake(c) \/ Proxy!Dial(c) \/ Proxy!PollRead(c) \/ Proxy!Hangup(c)
        PROVE  ProxyInv'
    BY <2>3, ConnectionsStaySound
  <2> QED BY <2>1, <2>2, <2>3 DEF Proxy!Next
<1> QED BY <1>1, <1>2, PTL DEF Proxy!Spec

\* Accept loops and connections are in the states of the code, for any addresses,
\* connections, hosts and filters.
THEOREM ProxyTypeCorrect == ASSUME ProxyConstants PROVE Proxy!Spec => []Proxy!TypeOK
<1>1. ProxyInv => Proxy!TypeOK
  <2> SUFFICES ASSUME ProxyInv PROVE Proxy!TypeOK
    OBVIOUS
  <2>1. ASSUME NEW c \in Conns
        PROVE  /\ conns[c].taken <= conns[c].sent /\ conns[c].sent <= MaxBytes
               /\ conns[c].phase \in
                    Proxy!Serving \cup Proxy!Upgraded \cup {"accepted", "closed", "panicked"}
    <3>1. conns[c] \in Connection /\ ConnectionSound(conns[c])
      BY DEF ProxyInv, ProxyTyped, ConnectionsSound
    <3> QED BY <3>1 DEF Connection, ConnectionSound, ConnPhases, ProxyConstants
  <2> QED BY <2>1 DEF Proxy!TypeOK, ProxyInv, ProxyTyped
<1> QED BY <1>1, ProxyInvHolds, PTL

\* The bytes sniffed after a CONNECT are relayed first and in order, whatever reads them; a
\* connection forwards with no setting older than itself, and shows no certificate after its
\* end (ConnectUpgraded, bind_hyper, ServerCaManager), for any validity of certificates.
THEOREM ConnectionsAreKept == ASSUME ProxyConstants PROVE Proxy!Spec => []Proxy!ConnectionsKept
<1>1. ProxyInv => Proxy!ConnectionsKept
  <2> SUFFICES ASSUME ProxyInv PROVE Proxy!ConnectionsKept
    OBVIOUS
  <2>1. Proxy!SettingIsCurrent /\ Proxy!CertificateValid
    BY DEF ProxyInv, ConnectionsSound, ConnectionSound, Proxy!SettingIsCurrent,
      Proxy!CertificateValid
  <2>2. ASSUME NEW c \in Conns, conns[c].taken >= Proxy!SniffLength \/ ~conns[c].eof
        PROVE  conns[c].relayed \o conns[c].pre = [i \in 1 .. conns[c].taken |-> i]
    <3> DEFINE r == conns[c]
    <3>1. r \in Connection /\ ConnectionSound(r)
      BY DEF ProxyInv, ProxyTyped, ConnectionsSound
    <3>2. /\ r.relayed \in Seq(Nat) /\ r.pre \in Seq(Nat) /\ r.taken \in Nat /\ r.sent \in Int
      BY <3>1 DEF Connection
    <3>3. Whole(r)
      BY <2>2, <3>1, <3>2 DEF ConnectionSound, Lost, Proxy!SniffLength
    <3> HIDE DEF r
    <3>4. /\ Counts(r.relayed \o r.pre, 0) /\ Len(r.relayed \o r.pre) = r.taken
          /\ r.relayed \o r.pre \in Seq(Nat)
      BY <3>2, <3>3, CountsOn DEF Whole
    <3>5. r.relayed \o r.pre = [i \in 1 .. r.taken |-> i]
      <4>1. PICK q \in Seq(Nat) : q = r.relayed \o r.pre
        BY <3>4
      <4>2. q = [i \in 1 .. Len(q) |-> q[i]]
        OBVIOUS
      <4>3. Len(q) = r.taken /\ \A i \in 1 .. r.taken : q[i] = i
        <5>1. Len(q) = r.taken /\ Counts(q, 0)
          BY <3>4, <4>1
        <5>2. \A i \in 1 .. Len(q) : q[i] = 0 + i
          BY <5>1 DEF Counts
        <5> QED BY <3>2, <5>1, <5>2
      <4>4. q = [i \in 1 .. r.taken |-> i]
        BY <4>2, <4>3
      <4> QED BY <4>1, <4>4
    <3> QED BY <3>5 DEF r
  <2>3. Proxy!TunnelKeepsBytes
    BY <2>2 DEF Proxy!TunnelKeepsBytes
  <2> QED BY <2>1, <2>3 DEF Proxy!ConnectionsKept
<1> QED BY <1>1, ProxyInvHolds, PTL

-----------------------------------------------------------------------------
(***************************************************************************)
(* The UI event stream. What the constants stand for: chunks, capacity and *)
(* length of the list are numbers, Nothing is no record.                   *)
(***************************************************************************)
Record == [url : BOOLEAN, status : {"pending", "success"}, coded : BOOLEAN, chunks : Seq(Nat)]

UiConstants == Chunks \in Nat /\ Capacity \in Nat /\ MaxLogSize \in Nat /\ Nothing \notin Record

-----------------------------------------------------------------------------
(***************************************************************************)
(* Counting the events of an exchange.                                     *)
(***************************************************************************)
Numbers == 1 .. Ui!LastEvent
Event == [id : TraceIds, n : Numbers]

LEMMA UiSizes == \A S : Ui!Cardinality(S) = Cardinality(S)
BY DEF Ui!Cardinality, Cardinality

LEMMA HappenedCounts ==
  ASSUME log \in Seq(Event), NEW id, NEW u \in 0 .. Len(log)
  PROVE  /\ Ui!Happened(id, u) \in Nat
         /\ \A t \in 0 .. u : Ui!Happened(id, t) <= Ui!Happened(id, u)
         /\ \A t \in 0 .. u : id \notin Ui!Between(t + 1, u) => Ui!Happened(id, t) =
              Ui!Happened(id, u)
         /\ u > 0 /\ log[u].id # id => Ui!Happened(id, u) = Ui!Happened(id, u - 1)
         /\ u > 0 /\ log[u].id = id => Ui!Happened(id, u) = Ui!Happened(id, u - 1) + 1
         /\ Ui!Happened(id, u) = 0 <=> id \notin Ui!Between(1, u)
<1> DEFINE those(t) == {i \in 1 .. t : log[i].id = id}
<1>1. Len(log) \in Nat /\ u \in Nat
  OBVIOUS
<1>2. \A t \in 0 .. u : IsFiniteSet(those(t)) /\ those(t) \subseteq those(u)
  <2> TAKE t \in 0 .. u
  <2>1. IsFiniteSet(1 .. t)
    BY <1>1, FS_Interval
  <2> QED BY <1>1, <2>1, FS_Subset
<1>3. \A t \in 0 .. u :
        Cardinality(those(t)) \in Nat /\ Cardinality(those(t)) <= Cardinality(those(u))
  <2> TAKE t \in 0 .. u
  <2>1. IsFiniteSet(those(t)) /\ those(t) \in SUBSET those(u) /\ IsFiniteSet(those(u))
    BY <1>1, <1>2
  <2> HIDE DEF those
  <2> QED BY <2>1, FS_Subset, FS_CardinalityType
<1>4. ASSUME NEW t \in 0 .. u, id \notin Ui!Between(t + 1, u) PROVE those(t) = those(u)
  BY <1>1, <1>4 DEF Ui!Between
<1>5. ASSUME u > 0, log[u].id # id PROVE those(u) = those(u - 1)
  BY <1>1, <1>5
<1>6. ASSUME u > 0, log[u].id = id PROVE Cardinality(those(u)) = Cardinality(those(u - 1)) + 1
  <2>1. those(u) = those(u - 1) \cup {u} /\ u \notin those(u - 1) /\ u - 1 \in 0 .. u
    BY <1>1, <1>6
  <2>2. IsFiniteSet(those(u - 1))
    BY <1>2, <2>1
  <2> HIDE DEF those
  <2> QED BY <2>1, <2>2, FS_AddElement
<1>7. Cardinality(those(u)) = 0 <=> those(u) = {}
  <2>1. IsFiniteSet(those(u))
    BY <1>1, <1>2
  <2> HIDE DEF those
  <2> QED BY <2>1, FS_EmptySet
<1>8. those(u) = {} <=> id \notin Ui!Between(1, u)
  BY <1>1 DEF Ui!Between
<1>9. \A t : Ui!Happened(id, t) = Cardinality(those(t))
  BY UiSizes DEF Ui!Happened
<1> HIDE DEF those
<1> QED BY <1>1, <1>3, <1>4, <1>5, <1>6, <1>7, <1>8, <1>9

LEMMA HappenedStays ==
  ASSUME log \in Seq(Event), NEW id, NEW u \in 0 .. Len(log), NEW e, log' = Append(log, e)
  PROVE  Ui!Happened(id, u)' = Ui!Happened(id, u)
<1>1. \A i \in 1 .. u : log'[i] = log[i]
  OBVIOUS
<1> QED BY <1>1 DEF Ui!Happened

-----------------------------------------------------------------------------
(***************************************************************************)
(* The list of the browser.                                                *)
(***************************************************************************)
Lists == [order : Seq(TraceIds), records : [TraceIds -> Record \cup {Nothing}], gone :
  SUBSET TraceIds]

Listable(l, id) == l.records[id] # Nothing /\ l.records[id].url

\* No request twice, and only requests that can be shown.
Distinct(l) ==
  /\ l \in Lists
  /\ \A i, j \in 1 .. Len(l.order) : l.order[i] = l.order[j] => i = j
  /\ \A i \in 1 .. Len(l.order) : Listable(l, l.order[i])

Listed(l) == Distinct(l) /\ Len(l.order) <= MaxLogSize

\* But for what was removed, m has the records of l.
Keeps(l, m) == l.gone \subseteq m.gone /\ \A id \in TraceIds \ m.gone : m.records[id] =
  l.records[id]

LEMMA TrimLists ==
  ASSUME UiConstants, NEW l, Distinct(l)
  PROVE  Listed(Ui!Trim(l)) /\ Keeps(l, Ui!Trim(l))
<1> DEFINE e == Ui!Excess(l.order)
           kept == SubSeq(l.order, e + 1, Len(l.order))
           dropped == Ui!Range(l.order) \ Ui!Range(kept)
           rs == [id \in TraceIds |-> IF id \in dropped THEN Nothing ELSE l.records[id]]
           m == Ui!Trim(l)
<1>1. /\ l.order \in Seq(TraceIds) /\ l.records \in [TraceIds -> Record \cup {Nothing}]
      /\ l.gone \subseteq TraceIds /\ MaxLogSize \in Nat
  BY DEF Distinct, Lists, UiConstants
<1>2. e \in 0 .. Len(l.order) /\ Len(l.order) - e <= MaxLogSize
  BY <1>1 DEF Ui!Excess
<1>3. m = [order |-> kept, records |-> rs, gone |-> l.gone \cup dropped]
  BY DEF Ui!Trim
<1> HIDE DEF e
<1>4. /\ kept \in Seq(TraceIds) /\ Len(kept) = Len(l.order) - e
      /\ \A i \in 1 .. Len(kept) : kept[i] = l.order[i + e] /\ i + e \in 1 .. Len(l.order)
  <2>1. PICK o \in Seq(TraceIds) : o = l.order
    BY <1>1
  <2>2. PICK a \in Nat : a = e + 1 /\ 1 <= a /\ a <= Len(o) + 1
    BY <1>2, <2>1
  <2>3. /\ SubSeq(o, a, Len(o)) \in Seq(TraceIds) /\ Len(SubSeq(o, a, Len(o))) = Len(o) - a + 1
        /\ \A i \in 1 .. Len(o) - a + 1 : SubSeq(o, a, Len(o))[i] = o[a + i - 1]
    <3>1. PICK n \in Nat : n = Len(o)
      OBVIOUS
    <3>2. a \in Int /\ n \in Int /\ \A i \in a .. n : o[i] \in TraceIds
      <4>1. \A i \in 1 .. n : o[i] \in TraceIds
        BY <3>1
      <4>2. a >= 1
        BY <2>2
      <4> QED BY <3>1, <4>1, <4>2
    <3>3. /\ SubSeq(o, a, n) \in Seq(TraceIds)
          /\ Len(SubSeq(o, a, n)) = IF a <= n THEN n - a + 1 ELSE 0
          /\ \A i \in 1 .. n - a + 1 : SubSeq(o, a, n)[i] = o[a + i - 1]
      BY <3>2, SubSeqProperties
    <3>4. (IF a <= n THEN n - a + 1 ELSE 0) = n - a + 1
      BY <2>2, <3>1
    <3> QED BY <3>1, <3>3, <3>4
  <2>4. kept = SubSeq(o, a, Len(o)) /\ Len(o) - a + 1 = Len(o) - e /\ e \in Nat
    BY <1>2, <2>1, <2>2
  <2>5. \A i \in 1 .. Len(o) - e : a + i - 1 = i + e /\ i + e \in 1 .. Len(o)
    BY <1>2, <2>1, <2>2
  <2> HIDE DEF kept
  <2> QED BY <2>1, <2>3, <2>4, <2>5
<1> HIDE DEF kept
<1>5. dropped \subseteq TraceIds /\ \A i \in 1 .. Len(kept) : kept[i] \notin dropped
  <2>1. \A i \in 1 .. Len(l.order) : l.order[i] \in TraceIds
    BY <1>1
  <2> QED BY <1>1, <1>4, <2>1 DEF Ui!Range
<1> HIDE DEF dropped
<1>6. rs \in [TraceIds -> Record \cup {Nothing}]
  BY <1>1
<1>7. m \in Lists
  BY <1>1, <1>3, <1>4, <1>5, <1>6 DEF Lists
<1>8. \A i, j \in 1 .. Len(kept) : kept[i] = kept[j] => i = j
  <2> SUFFICES ASSUME NEW i \in 1 .. Len(kept), NEW j \in 1 .. Len(kept), kept[i] = kept[j]
               PROVE  i = j
    OBVIOUS
  <2>1. i + e = j + e
    BY <1>4 DEF Distinct
  <2> QED BY <1>1, <1>2, <1>4, <2>1
<1>9. \A i \in 1 .. Len(kept) : Listable(m, kept[i])
  <2> TAKE i \in 1 .. Len(kept)
  <2>1. kept[i] \in TraceIds /\ rs[kept[i]] = l.records[kept[i]]
    BY <1>4, <1>5
  <2>2. Listable(l, kept[i])
    BY <1>4 DEF Distinct
  <2> QED BY <1>3, <2>1, <2>2 DEF Listable
<1>10. Keeps(l, m)
  BY <1>3, <1>5 DEF Keeps
<1>11. m.order = kept
  BY <1>3
<1> HIDE DEF m
<1>12. Listed(m)
  BY <1>1, <1>2, <1>4, <1>7, <1>8, <1>9, <1>11 DEF Listed, Distinct
<1> QED BY <1>10, <1>12 DEF m

LEMMA PromoteLists ==
  ASSUME UiConstants, NEW l, Distinct(l), NEW id \in TraceIds, Listable(l, id)
  PROVE  Listed(Ui!PromoteToList(l, id)) /\ Keeps(l, Ui!PromoteToList(l, id))
<1>1. CASE id \in Ui!Range(l.order)
  BY <1>1, TrimLists DEF Ui!PromoteToList
<1>2. CASE id \notin Ui!Range(l.order)
  <2> DEFINE m == [l EXCEPT !.order = Append(@, id)]
  <2>1. /\ l \in Lists /\ l.order \in Seq(TraceIds)
        /\ l = [order |-> l.order, records |-> l.records, gone |-> l.gone]
    BY DEF Distinct, Lists
  <2>2. m = [order |-> Append(l.order, id), records |-> l.records, gone |-> l.gone]
    BY <2>1
  <2>3. m \in Lists
    <3>1. PICK o \in Seq(TraceIds) : o = l.order
      BY <2>1
    <3>2. Append(o, id) \in Seq(TraceIds)
      OBVIOUS
    <3>3. l.records \in [TraceIds -> Record \cup {Nothing}] /\ l.gone \in SUBSET TraceIds
      BY <2>1 DEF Lists
    <3> QED BY <2>2, <3>1, <3>2, <3>3 DEF Lists
  <2>4. \A i \in 1 .. Len(l.order) : l.order[i] # id
    BY <1>2, <2>1 DEF Ui!Range
  <2>5. Distinct(m)
    BY <2>1, <2>2, <2>3, <2>4 DEF Distinct, Listable
  <2>6. Ui!PromoteToList(l, id) = Ui!Trim(m) /\ m.gone = l.gone /\ m.records = l.records
    BY <1>2, <2>2 DEF Ui!PromoteToList
  <2> HIDE DEF m
  <2>7. Listed(Ui!Trim(m)) /\ Keeps(m, Ui!Trim(m))
    BY <2>5, TrimLists
  <2> QED BY <2>6, <2>7 DEF Keeps
<1> QED BY <1>1, <1>2

-----------------------------------------------------------------------------
(***************************************************************************)
(* Records. Of an exchange of which k events have been seen, without gap   *)
(* or repetition, the record is the one Shown.                             *)
(***************************************************************************)
Shown(k) ==
  IF k = 0 THEN Nothing
  ELSE [url |-> TRUE, status |-> IF k >= 2 THEN "success" ELSE "pending", coded |-> k >= 2,
        chunks |-> Ui!CachedChunks(k)]

LEMMA ChunksAreNumbers ==
  ASSUME UiConstants, NEW n \in Numbers
  PROVE  /\ Ui!CachedChunks(n) \in Seq(Nat)
         /\ Ui!CachedChunks(n) = [i \in 1 .. Len(Ui!CachedChunks(n)) |-> i + 2]
         /\ n < 3 => Ui!CachedChunks(n) = << >>
         /\ n >= 3 /\ n # Ui!LastEvent => Len(Ui!CachedChunks(n)) = n - 2
         /\ n = Ui!LastEvent => Len(Ui!CachedChunks(n)) = Chunks
         /\ Ui!LastEvent = Chunks + 3 /\ Chunks \in Nat
<1>1. Ui!LastEvent = Chunks + 3 /\ Chunks \in Nat
  BY DEF UiConstants, Ui!LastEvent
<1>2. PICK m \in Nat : m = IF n < 3 THEN 0 ELSE IF n = Ui!LastEvent THEN Chunks ELSE n - 2
  BY <1>1 DEF Numbers
<1>3. Ui!CachedChunks(n) = [i \in 1 .. m |-> i + 2]
  BY <1>2 DEF Ui!CachedChunks
<1>4. [i \in 1 .. m |-> i + 2] \in Seq(Nat) /\ Len([i \in 1 .. m |-> i + 2]) = m
  OBVIOUS
<1>5. m = 0 => [i \in 1 .. m |-> i + 2] = << >>
  OBVIOUS
<1> QED BY <1>1, <1>2, <1>3, <1>4, <1>5 DEF Numbers

LEMMA EventsInOrder ==
  ASSUME UiConstants, NEW n \in Numbers
  PROVE  /\ n = 1 => Ui!EventOf(n) = "request/start"
         /\ n = 2 => Ui!EventOf(n) = "response/start"
         /\ n > 2 /\ n # Ui!LastEvent => Ui!EventOf(n) = "response/body"
         /\ n > 2 /\ n = Ui!LastEvent => Ui!EventOf(n) = "response/end"
         /\ n \in Nat /\ n >= 1 /\ Ui!LastEvent = Chunks + 3 /\ Chunks \in Nat
<1>1. Ui!LastEvent = Chunks + 3 /\ Chunks \in Nat /\ n \in Nat /\ n >= 1
  BY DEF UiConstants, Ui!LastEvent, Numbers
<1>2. n = 1 \/ n = 2 => n # Ui!LastEvent
  BY <1>1
<1> QED BY <1>1, <1>2 DEF Ui!EventOf

LEMMA RecordsEqual ==
  ASSUME NEW r \in Record, NEW q \in Record, r.url <=> q.url, r.status = q.status,
         r.coded <=> q.coded, r.chunks = q.chunks
  PROVE  r = q
<1>1. r.url \in BOOLEAN /\ q.url \in BOOLEAN /\ r.coded \in BOOLEAN /\ q.coded \in BOOLEAN
  BY DEF Record
<1>2. r.url = q.url /\ r.coded = q.coded
  BY <1>1
<1>3. r = [url |-> r.url, status |-> r.status, coded |-> r.coded, chunks |-> r.chunks]
  BY DEF Record
<1>4. q = [url |-> q.url, status |-> q.status, coded |-> q.coded, chunks |-> q.chunks]
  BY DEF Record
<1> QED BY <1>2, <1>3, <1>4

\* One event of a record, q, that is there.
LEMMA EventFields ==
  ASSUME NEW q \in Record, NEW p
  PROVE  /\ p = [q EXCEPT !.url = TRUE, !.status = "pending"] =>
              p \in Record /\ p.url /\ p.status =
                "pending" /\ (p.coded <=> q.coded) /\ p.chunks = q.chunks
         /\ p = [q EXCEPT !.status = "success", !.coded = TRUE] =>
              p \in Record /\ (p.url <=> q.url) /\ p.status = "success" /\ p.coded /\ p.chunks =
                q.chunks
         /\ p = [q EXCEPT !.status = IF q.coded THEN "success" ELSE @] =>
              /\ p \in Record /\ (p.url <=> q.url)
              /\ p.status = (IF q.coded THEN "success" ELSE q.status)
              /\ (p.coded <=> q.coded) /\ p.chunks = q.chunks
<1>1. p = [q EXCEPT !.url = TRUE, !.status = "pending"] =>
        p \in Record /\ p.url /\ p.status = "pending" /\ (p.coded <=> q.coded) /\ p.chunks =
          q.chunks
  BY DEF Record
<1>2. p = [q EXCEPT !.status = "success", !.coded = TRUE] =>
        p \in Record /\ (p.url <=> q.url) /\ p.status = "success" /\ p.coded /\ p.chunks = q.chunks
  BY DEF Record
<1>3. p = [q EXCEPT !.status = IF q.coded THEN "success" ELSE @] =>
        /\ p \in Record /\ (p.url <=> q.url) /\ p.status = (IF q.coded THEN "success" ELSE q.status)
        /\ (p.coded <=> q.coded) /\ p.chunks = q.chunks
  BY DEF Record
<1> QED BY <1>1, <1>2, <1>3

LEMMA ChunkFields ==
  ASSUME NEW q \in Record, NEW n \in Nat, NEW p, p = [q EXCEPT !.chunks = Append(@, n)]
  PROVE  /\ p \in Record /\ (p.url <=> q.url) /\ p.status = q.status /\ (p.coded <=> q.coded)
         /\ p.chunks = Append(q.chunks, n)
<1>1. PICK h \in Seq(Nat) : h = q.chunks
  BY DEF Record
<1>2. PICK c \in Seq(Nat) : c = Append(h, n)
  <2>1. Append(h, n) \in Seq(Nat)
    OBVIOUS
  <2> QED BY <2>1
<1>3. c = Append(q.chunks, n)
  BY <1>1, <1>2
<1> QED BY <1>3 DEF Record

LEMMA RecordOfs ==
  ASSUME NEW r \in Record \cup {Nothing}
  PROVE  Ui!RecordOf(r) \in Record /\ (r # Nothing => Ui!RecordOf(r) = r) /\ Ui!Blank \in Record
<1>1. Ui!Blank \in Record
  BY DEF Ui!Blank, Record
<1> QED BY <1>1 DEF Ui!RecordOf

LEMMA PatchedFields ==
  ASSUME UiConstants, NEW n \in Numbers, NEW r \in Record \cup {Nothing}, NEW q, q = Ui!RecordOf(r),
         NEW p, p = Ui!Patched(r, n)
  PROVE  /\ p \in Record /\ q \in Record
         /\ n = 1 => p.url /\ p.status = "pending" /\ (p.coded <=> q.coded) /\ p.chunks = q.chunks
         /\ n = 2 => (p.url <=> q.url) /\ p.status = "success" /\ p.coded /\ p.chunks = q.chunks
         /\ n > 2 /\ n # Ui!LastEvent =>
              /\ (p.url <=> q.url) /\ p.status = q.status /\ (p.coded <=> q.coded)
              /\ p.chunks = Append(q.chunks, n)
         /\ n > 2 /\ n = Ui!LastEvent =>
              /\ (p.url <=> q.url) /\ p.status = (IF q.coded THEN "success" ELSE q.status)
              /\ (p.coded <=> q.coded) /\ p.chunks = q.chunks
<1>1. q \in Record /\ n \in Nat
  BY RecordOfs, EventsInOrder
<1>2. CASE n = 1
  <2>1. p = [q EXCEPT !.url = TRUE, !.status = "pending"]
    BY <1>2, EventsInOrder DEF Ui!Patched
  <2>2. /\ p \in Record /\ p.url /\ p.status = "pending" /\ (p.coded <=> q.coded)
        /\ p.chunks = q.chunks
    BY <1>1, <2>1, EventFields
  <2>3. ~(n = 2) /\ ~(n > 2 /\ n # Ui!LastEvent) /\ ~(n > 2 /\ n = Ui!LastEvent)
    BY <1>1, <1>2
  <2> QED BY <1>1, <1>2, <2>2, <2>3
<1>3. CASE n = 2
  <2>1. p = [q EXCEPT !.status = "success", !.coded = TRUE]
    BY <1>3, EventsInOrder DEF Ui!Patched
  <2>2. p \in Record /\ (p.url <=> q.url) /\ p.status = "success" /\ p.coded /\ p.chunks = q.chunks
    BY <1>1, <2>1, EventFields
  <2>3. ~(n = 1) /\ ~(n > 2 /\ n # Ui!LastEvent) /\ ~(n > 2 /\ n = Ui!LastEvent)
    BY <1>1, <1>3
  <2> QED BY <1>1, <1>3, <2>2, <2>3
<1>4. CASE n > 2 /\ n # Ui!LastEvent
  <2>1. p = [q EXCEPT !.chunks = Append(@, n)]
    BY <1>4, EventsInOrder DEF Ui!Patched
  <2>2. /\ p \in Record /\ (p.url <=> q.url) /\ p.status = q.status /\ (p.coded <=> q.coded)
        /\ p.chunks = Append(q.chunks, n)
    BY <1>1, <2>1, ChunkFields
  <2>3. ~(n = 1) /\ ~(n = 2) /\ ~(n > 2 /\ n = Ui!LastEvent)
    BY <1>1, <1>4
  <2> QED BY <1>1, <1>4, <2>2, <2>3
<1>5. CASE n > 2 /\ n = Ui!LastEvent
  <2>1. p = [q EXCEPT !.status = IF q.coded THEN "success" ELSE @]
    BY <1>5, EventsInOrder DEF Ui!Patched
  <2>2. /\ p \in Record /\ (p.url <=> q.url) /\ p.status = (IF q.coded THEN "success" ELSE q.status)
        /\ (p.coded <=> q.coded) /\ p.chunks = q.chunks
    BY <1>1, <2>1, EventFields
  <2>3. ~(n = 1) /\ ~(n = 2) /\ ~(n > 2 /\ n # Ui!LastEvent)
    BY <1>1, <1>5
  <2> QED BY <1>1, <1>5, <2>2, <2>3
<1>6. n = 1 \/ n = 2 \/ (n > 2 /\ n # Ui!LastEvent) \/ (n > 2 /\ n = Ui!LastEvent)
  BY EventsInOrder
<1> QED BY <1>2, <1>3, <1>4, <1>5, <1>6, Zenon

LEMMA CachedFields ==
  ASSUME UiConstants, NEW k \in Numbers, NEW b \in BOOLEAN, NEW c \in Seq(Nat), NEW p,
         p = [url |-> TRUE, status |-> IF k >= 2 THEN "success" ELSE "pending",
              coded |-> k >= 2 \/ b, chunks |-> c]
  PROVE  /\ p \in Record /\ p.url /\ p.status = (IF k >= 2 THEN "success" ELSE "pending")
         /\ (p.coded <=> k >= 2 \/ b) /\ p.chunks = c
BY DEF Record

LEMMA RecordsStayRecords ==
  ASSUME UiConstants, NEW r \in Record \cup {Nothing}, NEW n \in Numbers
  PROVE  /\ Ui!RecordOf(r) \in Record /\ Ui!Patched(r, n) \in Record /\ Ui!Cached(r, n) \in Record
         /\ Ui!Cached(r, n).url
         /\ Ui!Patched(r, n).url <=> Ui!RecordOf(r).url \/ n = 1
         /\ Ui!Cached(r, n).status = (IF n >= 2 THEN "success" ELSE "pending")
         /\ Ui!Cached(r, n).coded <=> n >= 2 \/ Ui!RecordOf(r).coded
         /\ Ui!Cached(r, n).chunks = IF Ui!CachedChunks(n) = << >>
              THEN Ui!RecordOf(r).chunks ELSE Ui!CachedChunks(n)
<1>1. PICK q \in Record : q = Ui!RecordOf(r)
  BY RecordOfs
<1>2. PICK b \in BOOLEAN : b = q.coded
  BY DEF Record
<1>3. PICK c \in Seq(Nat) : c = IF Ui!CachedChunks(n) = << >> THEN q.chunks ELSE Ui!CachedChunks(n)
  BY ChunksAreNumbers DEF Record
<1>4. Ui!Cached(r, n) = [url |-> TRUE, status |-> IF n >= 2 THEN "success" ELSE "pending",
                         coded |-> n >= 2 \/ b, chunks |-> c]
  BY <1>1, <1>2, <1>3, Zenon DEF Ui!Cached
<1>5. PICK p : p = Ui!Patched(r, n)
  OBVIOUS
<1>6. p \in Record /\ (p.url <=> q.url \/ n = 1)
  BY <1>1, <1>5, PatchedFields, EventsInOrder
<1>7. PICK d : d = Ui!Cached(r, n)
  OBVIOUS
<1>8. /\ d \in Record /\ d.url /\ d.status = (IF n >= 2 THEN "success" ELSE "pending")
      /\ (d.coded <=> n >= 2 \/ b) /\ d.chunks = c
  BY <1>4, <1>7, CachedFields
<1> QED BY <1>1, <1>2, <1>3, <1>5, <1>6, <1>7, <1>8

\* Shown is what the cache would make of nothing.
LEMMA ShownFields ==
  ASSUME UiConstants, NEW k \in Numbers
  PROVE  /\ Shown(k) \in Record /\ Shown(k) # Nothing /\ Shown(k).url
         /\ Shown(k).status = (IF k >= 2 THEN "success" ELSE "pending")
         /\ Shown(k).coded <=> k >= 2
         /\ Shown(k).chunks = Ui!CachedChunks(k)
         /\ Shown(k) = Ui!Cached(Nothing, k)
<1>1. k \in Nat /\ k # 0 /\ Ui!CachedChunks(k) \in Seq(Nat)
  BY EventsInOrder, ChunksAreNumbers
<1>2. PICK b \in BOOLEAN : b <=> k >= 2
  OBVIOUS
<1>3. (k >= 2) = b /\ (k >= 2 \/ FALSE) = b
  BY <1>2
<1>4. Shown(k) = [url |-> TRUE, status |-> IF k >= 2 THEN "success" ELSE "pending",
                  coded |-> k >= 2, chunks |-> Ui!CachedChunks(k)]
  BY <1>1, Zenon DEF Shown
<1>5. Ui!RecordOf(Nothing) = Ui!Blank /\ Ui!Blank.chunks = << >> /\ Ui!Blank.coded = FALSE
  BY DEF Ui!RecordOf, Ui!Blank
<1>6. (IF Ui!CachedChunks(k) = << >> THEN Ui!RecordOf(Nothing).chunks ELSE Ui!CachedChunks(k)) =
        Ui!CachedChunks(k)
  BY <1>5
<1>7. Ui!Cached(Nothing, k) = [url |-> TRUE, status |-> IF k >= 2 THEN "success" ELSE "pending",
                            coded |-> k >= 2 \/ FALSE, chunks |-> Ui!CachedChunks(k)]
  BY <1>5, <1>6, Zenon DEF Ui!Cached
<1>8. Shown(k) = Ui!Cached(Nothing, k)
  BY <1>3, <1>4, <1>7, Zenon
<1>9. PICK d : d = Ui!Cached(Nothing, k)
  OBVIOUS
<1>10. /\ d \in Record /\ d.url /\ d.status = (IF k >= 2 THEN "success" ELSE "pending")
       /\ (d.coded <=> k >= 2 \/ Ui!RecordOf(Nothing).coded) /\ d.chunks = Ui!CachedChunks(k)
  BY <1>6, <1>9, RecordsStayRecords
<1> QED BY <1>5, <1>8, <1>9, <1>10 DEF UiConstants

LEMMA ChunksGrow ==
  ASSUME UiConstants, NEW k \in Numbers, k + 1 \in Numbers, k > 1
  PROVE  Ui!CachedChunks(k + 1) = IF k + 1 = Ui!LastEvent THEN Ui!CachedChunks(k)
         ELSE Append(Ui!CachedChunks(k), k + 1)
<1>1. Ui!LastEvent = Chunks + 3 /\ Chunks \in Nat /\ k \in Nat /\ k + 1 <= Ui!LastEvent
  BY DEF UiConstants, Ui!LastEvent, Numbers
<1>2. CASE k + 1 # Ui!LastEvent
  <2>1. PICK m \in Nat : m = k - 2
    BY <1>1
  <2>2. Ui!CachedChunks(k) = [i \in 1 .. m |-> i + 2]
    BY <1>1, <1>2, <2>1 DEF Ui!CachedChunks
  <2>3. Ui!CachedChunks(k + 1) = [i \in 1 .. m + 1 |-> i + 2]
    BY <1>1, <1>2, <2>1 DEF Ui!CachedChunks
  <2>4. Append([i \in 1 .. m |-> i + 2], m + 3) = [i \in 1 .. m + 1 |-> i + 2]
    OBVIOUS
  <2>5. m + 3 = k + 1
    BY <1>1, <2>1
  <2> QED BY <1>2, <2>2, <2>3, <2>4, <2>5
<1>3. CASE k + 1 = Ui!LastEvent
  BY <1>1, <1>3 DEF Ui!CachedChunks
<1> QED BY <1>2, <1>3

\* The next event of an exchange makes the record of k events that of k + 1.
LEMMA PatchedIsNext ==
  ASSUME UiConstants, NEW k \in 0 .. Ui!LastEvent, k + 1 \in Numbers
  PROVE  Ui!Patched(Shown(k), k + 1) = Shown(k + 1) /\ Ui!Patched(Shown(k), k + 1).url
<1>1. /\ Ui!LastEvent = Chunks + 3 /\ Chunks \in Nat /\ k \in Nat /\ k + 1 <= Ui!LastEvent
      /\ k = 0 \/ k \in Numbers
  BY DEF UiConstants, Ui!LastEvent, Numbers
<1>2. PICK n \in Numbers : n = k + 1
  OBVIOUS
<1>3. PICK p, s, q : p = Ui!Patched(Shown(k), n) /\ s = Shown(n) /\ q = Ui!RecordOf(Shown(k))
  OBVIOUS
<1>4. Shown(k) \in Record \cup {Nothing}
  BY <1>1, ShownFields DEF Shown
<1>5. /\ s \in Record /\ s.url /\ s.status = (IF n >= 2 THEN "success" ELSE "pending")
      /\ (s.coded <=> n >= 2)
      /\ s.chunks = Ui!CachedChunks(n)
  BY <1>3, ShownFields
<1>6. CASE k = 0
  <2>1. q = Ui!Blank
    BY <1>3, <1>6 DEF Shown, Ui!RecordOf
  <2>2. ~q.coded /\ q.chunks = << >>
    BY <2>1 DEF Ui!Blank
  <2>3. Ui!CachedChunks(n) = << >> /\ n = 1
    BY <1>2, <1>6, ChunksAreNumbers
  <2>4. /\ p \in Record /\ p.url /\ p.status = "pending" /\ (p.coded <=> q.coded)
        /\ p.chunks = q.chunks
    BY <1>3, <1>4, <2>3, PatchedFields
  <2>5. p = s
    BY <1>5, <2>2, <2>3, <2>4, RecordsEqual
  <2> QED BY <1>2, <1>3, <1>5, <2>5
<1>7. CASE k \in Numbers
  <2>1. q = Shown(k)
    BY <1>3, <1>7, ShownFields DEF Ui!RecordOf
  <2>2. /\ q.url /\ q.status = (IF k >= 2 THEN "success" ELSE "pending") /\ (q.coded <=> k >= 2)
        /\ q.chunks = Ui!CachedChunks(k)
    BY <1>7, <2>1, ShownFields
  <2>3. CASE k = 1
    <3>1. n = 2 /\ Ui!CachedChunks(n) = << >> /\ Ui!CachedChunks(k) = << >>
      BY <1>2, <1>7, <2>3, ChunksAreNumbers
    <3>2. /\ p \in Record /\ (p.url <=> q.url) /\ p.status = "success" /\ p.coded
          /\ p.chunks = q.chunks
      BY <1>3, <1>4, <3>1, PatchedFields
    <3>3. p = s
      BY <1>5, <2>2, <3>1, <3>2, RecordsEqual
    <3> QED BY <1>2, <1>3, <1>5, <3>3
  <2>4. CASE k > 1 /\ n # Ui!LastEvent
    <3>1. n > 2 /\ Ui!CachedChunks(n) = Append(Ui!CachedChunks(k), n)
      <4>1. n > 2
        BY <1>1, <1>2, <2>4
      <4>2. Ui!CachedChunks(k + 1) = IF k + 1 = Ui!LastEvent THEN Ui!CachedChunks(k)
              ELSE Append(Ui!CachedChunks(k), k + 1)
        BY <1>7, <2>4, ChunksGrow
      <4> QED BY <1>2, <2>4, <4>1, <4>2
    <3>2. /\ p \in Record /\ (p.url <=> q.url) /\ p.status = q.status /\ (p.coded <=> q.coded)
          /\ p.chunks = Append(q.chunks, n)
      BY <1>3, <1>4, <2>4, <3>1, PatchedFields
    <3>3. k >= 2 /\ n >= 2
      BY <1>1, <1>2, <2>4
    <3>4. p = s
      BY <1>5, <2>2, <3>1, <3>2, <3>3, RecordsEqual
    <3> QED BY <1>2, <1>3, <1>5, <3>4
  <2>5. CASE k > 1 /\ n = Ui!LastEvent
    <3>1. n > 2 /\ Ui!CachedChunks(n) = Ui!CachedChunks(k)
      BY <1>2, <1>7, <2>5, ChunksGrow
    <3>2. /\ p \in Record /\ (p.url <=> q.url)
          /\ p.status = (IF q.coded THEN "success" ELSE q.status)
          /\ (p.coded <=> q.coded) /\ p.chunks = q.chunks
      BY <1>3, <1>4, <2>5, <3>1, PatchedFields
    <3>3. k >= 2 /\ n >= 2
      BY <1>1, <2>5, <3>1
    <3>4. p = s
      BY <1>5, <2>2, <3>1, <3>2, <3>3, RecordsEqual
    <3> QED BY <1>2, <1>3, <1>5, <3>4
  <2> QED BY <1>1, <1>7, <2>3, <2>4, <2>5, EventsInOrder
<1> QED BY <1>1, <1>6, <1>7

\* The cache makes of nothing, and of what it has itself, the same record.
LEMMA CachedIsShown ==
  ASSUME UiConstants, NEW k \in Numbers, NEW j \in {0, k}
  PROVE  Ui!Cached(Shown(j), k) = Shown(k)
<1>1. CASE j = 0
  BY <1>1, ShownFields DEF Shown
<1>2. CASE j = k
  <2>1. PICK d, s : d = Ui!Cached(Shown(k), k) /\ s = Shown(k)
    OBVIOUS
  <2>2. /\ s \in Record /\ s.url /\ s.status = (IF k >= 2 THEN "success" ELSE "pending")
        /\ (s.coded <=> k >= 2)
        /\ s.chunks = Ui!CachedChunks(k) /\ s # Nothing /\ Ui!RecordOf(s) = s
    BY <2>1, ShownFields DEF Ui!RecordOf
  <2>3. /\ d \in Record /\ d.url /\ d.status = (IF k >= 2 THEN "success" ELSE "pending")
        /\ (d.coded <=> k >= 2 \/ s.coded)
        /\ d.chunks = IF Ui!CachedChunks(k) = << >> THEN s.chunks ELSE Ui!CachedChunks(k)
    BY <2>1, <2>2, RecordsStayRecords
  <2>4. d = s
    BY <2>2, <2>3, RecordsEqual
  <2> QED BY <1>2, <2>1, <2>4
<1> QED BY <1>1, <1>2

-----------------------------------------------------------------------------
(***************************************************************************)
(* What the browser does with a frame.                                     *)
(***************************************************************************)
\* But for what was removed, m has the records of l, and of id the record r.
KeepsBut(l, m, id, r) ==
  l.gone \subseteq m.gone /\ \A i \in TraceIds \ m.gone : m.records[i] = IF i = id THEN r
    ELSE l.records[i]

Put(l, id, r) == [l EXCEPT !.records[id] = r]

\* A record put where one that is shown is not made one that is not.
LEMMA PutKeeps ==
  ASSUME UiConstants, NEW l, Listed(l), NEW id \in TraceIds, NEW r \in Record,
         Listable(l, id) => r.url,
         NEW m, m = Put(l, id, r)
  PROVE  Listed(m) /\ KeepsBut(l, m, id, r) /\ m.records[id] = r /\ m.order = l.order
<1>1. /\ l \in Lists /\ l.order \in Seq(TraceIds)
      /\ l.records \in [TraceIds -> Record \cup {Nothing}]
      /\ l.gone \in SUBSET TraceIds
      /\ l = [order |-> l.order, records |-> l.records, gone |-> l.gone]
  BY DEF Listed, Distinct, Lists
<1>2. PICK rs : rs = [l.records EXCEPT ![id] = r]
  OBVIOUS
<1>3. m = [order |-> l.order, records |-> rs, gone |-> l.gone]
  BY <1>1, <1>2 DEF Put
<1>4. rs \in [TraceIds -> Record \cup {Nothing}] /\ \A i \in TraceIds : rs[i] = IF i = id
        THEN r ELSE l.records[i]
  BY <1>1, <1>2
<1>5. m \in Lists /\ m.order = l.order /\ m.records = rs /\ m.gone = l.gone
  BY <1>1, <1>3, <1>4 DEF Lists
<1>6. \A i \in 1 .. Len(m.order) : Listable(m, m.order[i])
  <2> TAKE i \in 1 .. Len(m.order)
  <2>1. l.order[i] \in TraceIds /\ Listable(l, l.order[i]) /\ m.order[i] = l.order[i]
    BY <1>1, <1>5 DEF Listed, Distinct
  <2>2. CASE l.order[i] = id
    <3>1. rs[id] = r /\ r # Nothing /\ r.url
      BY <1>4, <2>1, <2>2 DEF Listable, UiConstants
    <3> QED BY <1>5, <2>1, <2>2, <3>1 DEF Listable
  <2>3. CASE l.order[i] # id
    <3>1. rs[l.order[i]] = l.records[l.order[i]]
      BY <1>4, <2>1, <2>3
    <3> QED BY <1>5, <2>1, <2>3, <3>1 DEF Listable
  <2> QED BY <2>2, <2>3
<1>7. Distinct(m) /\ Listed(m)
  BY <1>5, <1>6 DEF Listed, Distinct
<1>8. KeepsBut(l, m, id, r)
  BY <1>4, <1>5 DEF KeepsBut
<1> QED BY <1>4, <1>5, <1>7, <1>8

LEMMA EventApplied ==
  ASSUME UiConstants, NEW l, Listed(l), NEW id \in TraceIds, NEW n \in Numbers
  PROVE  /\ Listed(Ui!ApplyEvent(l, id, n))
         /\ l.gone \subseteq Ui!ApplyEvent(l, id, n).gone
         /\ \A i \in TraceIds \ Ui!ApplyEvent(l, id, n).gone : i # id =>
              Ui!ApplyEvent(l, id, n).records[i] = l.records[i]
         /\ id \notin Ui!ApplyEvent(l, id, n).gone /\ Ui!Patched(l.records[id], n).url =>
              Ui!ApplyEvent(l, id, n).records[id] = Ui!Patched(l.records[id], n)
<1>1. /\ l \in Lists /\ l.order \in Seq(TraceIds)
      /\ l.records \in [TraceIds -> Record \cup {Nothing}]
      /\ l = [order |-> l.order, records |-> l.records, gone |-> l.gone]
      /\ l.gone \in SUBSET TraceIds
  BY DEF Listed, Distinct, Lists
<1>2. l.records[id] \in Record \cup {Nothing}
  BY <1>1
<1>3. PICK r \in Record : r = Ui!Patched(l.records[id], n)
  BY <1>2, RecordsStayRecords
<1>4. /\ r.url <=> Ui!RecordOf(l.records[id]).url \/ n = 1
      /\ l.records[id] # Nothing => Ui!RecordOf(l.records[id]) = l.records[id]
  BY <1>2, <1>3, RecordsStayRecords DEF Ui!RecordOf
<1>5. PICK with : with = Put(l, id, r)
  OBVIOUS
<1>6. [l EXCEPT !.records[id] = Ui!Patched(@, n)] = with
  BY <1>1, <1>3, <1>5 DEF Put
<1>7. Listed(with) /\ KeepsBut(l, with, id, r) /\ with.records[id] = r /\ with.order = l.order
  <2>1. Listable(l, id) => r.url
    BY <1>4 DEF Listable
  <2> QED BY <1>5, <2>1, PutKeeps
<1>8. PICK m : m = Ui!ApplyEvent(l, id, n)
  OBVIOUS
<1>9. m = CASE Ui!EventOf(n) = "request/start" -> Ui!PromoteToList(with, id)
            [] Ui!EventOf(n) = "response/end" /\ ~r.url ->
                 [with EXCEPT !.records[id] = Nothing, !.order = Ui!RemoveFirst(@, id)]
            [] OTHER -> with
  BY <1>6, <1>7, <1>8 DEF Ui!ApplyEvent
<1>10. CASE Ui!EventOf(n) = "request/start"
  <2>1. n = 1 /\ r.url
    BY <1>4, <1>10, EventsInOrder
  <2>2. Listable(with, id)
    BY <1>7, <2>1 DEF Listable, UiConstants
  <2>3. m = Ui!PromoteToList(with, id)
    BY <1>9, <1>10
  <2>4. Listed(m) /\ Keeps(with, m)
    BY <1>7, <2>2, <2>3, PromoteLists DEF Listed
  <2> QED BY <1>3, <1>7, <1>8, <2>4 DEF Keeps, KeepsBut
<1>11. CASE Ui!EventOf(n) = "response/end" /\ ~r.url
  <2>1. m = [with EXCEPT !.records[id] = Nothing, !.order = Ui!RemoveFirst(@, id)]
    BY <1>9, <1>11, Zenon
  <2>2. \A i \in 1 .. Len(with.order) : with.order[i] # id
    BY <1>7, <1>11 DEF Listed, Distinct, Listable
  <2>3. Ui!RemoveFirst(with.order, id) = with.order
    BY <2>2 DEF Ui!RemoveFirst
  <2>4. /\ with.order \in Seq(TraceIds) /\ with.records \in [TraceIds -> Record \cup {Nothing}]
        /\ with = [order |-> with.order, records |-> with.records, gone |-> with.gone]
        /\ with.gone \in SUBSET TraceIds
    BY <1>7 DEF Listed, Distinct, Lists
  <2>5. PICK rs : rs = [with.records EXCEPT ![id] = Nothing]
    OBVIOUS
  <2>6. m = [order |-> with.order, records |-> rs, gone |-> with.gone]
    BY <2>1, <2>3, <2>4, <2>5
  <2>7. /\ rs \in [TraceIds -> Record \cup {Nothing}]
        /\ \A i \in TraceIds : i # id => rs[i] = with.records[i]
    BY <2>4, <2>5
  <2>8. m \in Lists /\ m.order = with.order /\ m.records = rs /\ m.gone = with.gone
    BY <2>4, <2>6, <2>7 DEF Lists
  <2>9. \A i \in 1 .. Len(with.order) : with.order[i] \in TraceIds /\ with.order[i] # id
    BY <2>2, <2>4
  <2>10. Listed(m)
    BY <1>7, <2>7, <2>8, <2>9 DEF Listed, Distinct, Listable
  <2> QED BY <1>3, <1>7, <1>8, <1>11, <2>7, <2>8, <2>10 DEF KeepsBut
<1>12. CASE Ui!EventOf(n) # "request/start" /\ ~(Ui!EventOf(n) = "response/end" /\ ~r.url)
  <2>1. m = with
    BY <1>9, <1>12
  <2> QED BY <1>3, <1>7, <1>8, <2>1 DEF KeepsBut
<1> QED BY <1>10, <1>11, <1>12

\* One request of the cache, shown.
Into(l, id, n) == Ui!PromoteToList([l EXCEPT !.records[id] = Ui!Cached(@, n)], id)

LEMMA IntoKeeps ==
  ASSUME UiConstants, NEW l, Listed(l), NEW id \in TraceIds, NEW n \in Numbers
  PROVE  Listed(Into(l, id, n)) /\ KeepsBut(l, Into(l, id, n), id, Ui!Cached(l.records[id], n))
<1>1. /\ l.records \in [TraceIds -> Record \cup {Nothing}]
      /\ l.records[id] \in Record \cup {Nothing}
      /\ l = [order |-> l.order, records |-> l.records, gone |-> l.gone]
  BY DEF Listed, Distinct, Lists
<1>2. PICK r \in Record : r = Ui!Cached(l.records[id], n) /\ r.url
  BY <1>1, RecordsStayRecords
<1>3. PICK with : with = Put(l, id, r)
  OBVIOUS
<1>4. [l EXCEPT !.records[id] = Ui!Cached(@, n)] = with
  BY <1>1, <1>2, <1>3 DEF Put
<1>5. Listed(with) /\ KeepsBut(l, with, id, r) /\ with.records[id] = r
  BY <1>2, <1>3, PutKeeps
<1>6. Listable(with, id)
  BY <1>2, <1>5 DEF Listable, UiConstants
<1>7. PICK m : m = Ui!PromoteToList(with, id)
  OBVIOUS
<1>8. Listed(m) /\ Keeps(with, m)
  BY <1>5, <1>6, <1>7, PromoteLists DEF Listed
<1>9. KeepsBut(l, m, id, r)
  BY <1>5, <1>8 DEF Keeps, KeepsBut
<1> QED BY <1>2, <1>4, <1>7, <1>8, <1>9 DEF Into

\* The lists one comes by, request after request, are there.
AreLists(list, l, ids, seen, size) ==
  list = [k \in 0 .. size |-> IF k = 0 THEN l ELSE Into(list[k - 1], ids[k], seen[ids[k]])]

LEMMA ListsAreThere ==
  ASSUME NEW l, NEW ids, NEW seen, NEW size \in Nat
  PROVE  \E list : AreLists(list, l, ids, seen, size)
<1> DEFINE There(n) == \E list : list = [k \in 0 .. n |-> IF k = 0 THEN l
                          ELSE Into(list[k - 1], ids[k], seen[ids[k]])]
           bad == {n \in Nat : ~There(n)}
<1> SUFFICES ASSUME ~There(size) PROVE FALSE
  BY DEF AreLists
<1>1. bad \subseteq Nat /\ bad # {}
  OBVIOUS
<1>2. PICK least \in bad : \A n \in bad : <<n, least>> \notin OpToRel(<, Nat)
  <2> HIDE DEF bad
  <2> QED BY <1>1, WFMin, NatLessThanWellFounded
<1>3. \A n \in bad : ~(n < least)
  BY <1>1, <1>2 DEF OpToRel
<1>4. least \in Nat /\ ~There(least)
  BY <1>2
<1>5. CASE least = 0
  <2>1. [k \in 0 .. 0 |-> l] = [k \in 0 .. 0 |-> IF k = 0 THEN l
                                ELSE Into([k2 \in 0 .. 0 |-> l][k - 1], ids[k], seen[ids[k]])]
    OBVIOUS
  <2>2. There(0)
    BY <2>1
  <2> QED BY <1>4, <1>5, <2>2
<1>6. CASE least # 0
  <2>1. PICK p \in Nat : p = least - 1 /\ p < least /\ p + 1 = least
    BY <1>4, <1>6
  <2>2. There(p)
    BY <1>3, <2>1
  <2>3. PICK shorter : shorter =
          [k \in 0 .. p |-> IF k = 0 THEN l ELSE Into(shorter[k - 1], ids[k], seen[ids[k]])]
    BY <2>2
  <2> DEFINE longer == [k \in 0 .. least |-> IF k = least
                          THEN Into(shorter[p], ids[least], seen[ids[least]])
                                             ELSE shorter[k]]
             next == [k \in 0 .. least |-> IF k = 0 THEN l
                        ELSE Into(longer[k - 1], ids[k], seen[ids[k]])]
  <2>4. ASSUME NEW k \in 0 .. least PROVE longer[k] = next[k]
    <3>1. CASE k = 0
      BY <1>6, <2>1, <2>3, <3>1
    <3>2. CASE k = least
      <4>1. k - 1 = p /\ k - 1 \in 0 .. least /\ k - 1 # least
        BY <2>1, <3>2
      <4> QED BY <1>6, <3>2, <4>1
    <3>3. CASE k # 0 /\ k # least
      <4>1. k \in 0 .. p /\ k - 1 \in 0 .. least /\ k - 1 # least
        BY <2>1, <3>3
      <4>2. shorter[k] = Into(shorter[k - 1], ids[k], seen[ids[k]])
        BY <2>3, <3>3, <4>1
      <4> QED BY <3>3, <4>1, <4>2
    <3> QED BY <3>1, <3>2, <3>3
  <2>5. longer = next
    BY <2>4
  <2>6. There(least)
    <3> HIDE DEF longer
    <3> QED BY <2>5
  <2> QED BY <1>4, <2>6
<1> QED BY <1>5, <1>6

LEMMA CachedApplied ==
  ASSUME UiConstants, NEW l, Listed(l), NEW S \in SUBSET TraceIds, IsFiniteSet(S),
         NEW seen, \A id \in S : seen[id] \in Numbers, NEW ids \in Ui!SetToSeqs(S)
  PROVE  /\ Listed(Ui!ApplyCached(l, ids, seen))
         /\ l.gone \subseteq Ui!ApplyCached(l, ids, seen).gone
         /\ \A i \in TraceIds \ Ui!ApplyCached(l, ids, seen).gone :
              Ui!ApplyCached(l, ids, seen).records[i] = IF i \in S
                THEN Ui!Cached(l.records[i], seen[i]) ELSE l.records[i]
<1>1. PICK size \in Nat : size = Cardinality(S)
  BY FS_CardinalityType
<1>2. ids \in [1 .. size -> S] /\ \A i, j \in 1 .. size : i # j => ids[i] # ids[j]
  BY <1>1, UiSizes DEF Ui!SetToSeqs
<1>3. Len(ids) = size
  BY <1>2
<1>4. \A id \in S : \E i \in 1 .. size : ids[i] = id
  <2>1. IsFiniteSet(1 .. size) /\ Cardinality(1 .. size) = size
    BY FS_Interval
  <2>2. ids \in Injection(1 .. size, S)
    BY <1>2 DEF Injection, IsInjective
  <2>3. ids \in Surjection(1 .. size, S)
    BY <1>1, <2>1, <2>2, FS_Injection
  <2> QED BY <2>3 DEF Surjection
<1>5. PICK list : /\ list = [k \in 0 .. size |-> IF k = 0 THEN l
                       ELSE Into(list[k - 1], ids[k], seen[ids[k]])]
                  /\ Ui!ApplyCached(l, ids, seen) = list[size]
  <2> DEFINE def == CHOOSE list : list = [k \in 0 .. Len(ids) |->
                      IF k = 0 THEN l
                      ELSE Ui!PromoteToList([list[k - 1] EXCEPT !.records[ids[k]] =
                        Ui!Cached(@, seen[ids[k]])], ids[k])]
  <2>1. Ui!ApplyCached(l, ids, seen) = def[Len(ids)]
    BY DEF Ui!ApplyCached
  <2>2. \E list : list = [k \in 0 .. size |-> IF k = 0 THEN l
          ELSE Into(list[k - 1], ids[k], seen[ids[k]])]
    <3>1. PICK list : AreLists(list, l, ids, seen, size)
      BY ListsAreThere
    <3>2. list = [k \in 0 .. size |-> IF k = 0 THEN l ELSE Into(list[k - 1], ids[k], seen[ids[k]])]
      BY <3>1 DEF AreLists
    <3> QED BY <3>2, Zenon
  <2>3. \E list : list = [k \in 0 .. Len(ids) |->
                      IF k = 0 THEN l
                      ELSE Ui!PromoteToList([list[k - 1] EXCEPT !.records[ids[k]] =
                        Ui!Cached(@, seen[ids[k]])], ids[k])]
    BY <1>3, <2>2, Zenon DEF Into
  <2>4. def = [k \in 0 .. Len(ids) |->
                      IF k = 0 THEN l
                      ELSE Ui!PromoteToList([def[k - 1] EXCEPT !.records[ids[k]] =
                        Ui!Cached(@, seen[ids[k]])], ids[k])]
    BY <2>3, Zenon
  <2> HIDE DEF def
  <2>5. def = [k \in 0 .. size |-> IF k = 0 THEN l ELSE Into(def[k - 1], ids[k], seen[ids[k]])]
    BY <1>3, <2>4, Zenon DEF Into
  <2> QED BY <1>3, <2>1, <2>5
<1> DEFINE done(k) == {ids[i] : i \in 1 .. k}
           Good(k) == /\ Listed(list[k]) /\ l.gone \subseteq list[k].gone
                      /\ \A i \in TraceIds \ list[k].gone :
                           list[k].records[i] = IF i \in done(k)
                             THEN Ui!Cached(l.records[i], seen[i]) ELSE l.records[i]
           bad == {k \in 0 .. size : ~Good(k)}
<1>6. list[0] = l /\ \A k \in 1 .. size : list[k] = Into(list[k - 1], ids[k], seen[ids[k]])
  <2>1. \A k \in 1 .. size : k \in 0 .. size /\ k # 0
    OBVIOUS
  <2> QED BY <1>5, <2>1
<1>7. Good(0)
  BY <1>6
<1>8. ASSUME NEW k \in 1 .. size, Good(k - 1) PROVE Good(k)
  <2>1. PICK id \in S, n \in Numbers : id = ids[k] /\ n = seen[ids[k]]
    BY <1>2
  <2>2. PICK m, m2 : m = list[k - 1] /\ m2 = list[k]
    OBVIOUS
  <2>3. m2 = Into(m, id, n)
    BY <1>6, <2>1, <2>2
  <2>4. Listed(m)
    BY <1>8, <2>2
  <2>5. Listed(m2) /\ KeepsBut(m, m2, id, Ui!Cached(m.records[id], n))
    BY <2>3, <2>4, IntoKeeps
  <2>6. done(k) = done(k - 1) \cup {id} /\ id \notin done(k - 1)
    BY <1>2, <2>1
  <2>7. /\ l.gone \subseteq m.gone
        /\ \A i \in TraceIds \ m.gone :
             m.records[i] = IF i \in done(k - 1) THEN Ui!Cached(l.records[i], seen[i])
               ELSE l.records[i]
    BY <1>8, <2>2
  <2> HIDE DEF done
  <2>8. ASSUME NEW i \in TraceIds \ m2.gone
        PROVE  m2.records[i] = IF i \in done(k) THEN Ui!Cached(l.records[i], seen[i])
               ELSE l.records[i]
    <3>1. i \notin m.gone /\ m2.records[i] = IF i = id THEN Ui!Cached(m.records[id], n)
            ELSE m.records[i]
      BY <2>5 DEF KeepsBut
    <3>2. CASE i = id
      BY <2>1, <2>6, <2>7, <3>1, <3>2
    <3>3. CASE i # id
      BY <2>6, <2>7, <3>1, <3>3
    <3> QED BY <3>2, <3>3
  <2> QED BY <2>2, <2>5, <2>7, <2>8 DEF KeepsBut
<1>9. Good(size)
  <2> SUFFICES ASSUME ~Good(size) PROVE FALSE
    OBVIOUS
  <2>1. bad \subseteq Nat /\ bad # {}
    OBVIOUS
  <2>2. PICK least \in bad : \A n \in bad : <<n, least>> \notin OpToRel(<, Nat)
    <3> HIDE DEF bad
    <3> QED BY <2>1, WFMin, NatLessThanWellFounded
  <2>3. \A n \in bad : ~(n < least)
    BY <2>1, <2>2 DEF OpToRel
  <2> HIDE DEF Good
  <2>4. least # 0 /\ least \in 0 .. size /\ ~Good(least)
    BY <1>7, <2>2, Zenon
  <2>5. least \in 1 .. size /\ least - 1 \in 0 .. size /\ least - 1 < least
    BY <2>4
  <2>6. Good(least - 1)
    BY <2>3, <2>5
  <2> QED BY <1>8, <2>4, <2>5, <2>6
<1>10. done(size) = S
  BY <1>2, <1>4
<1> HIDE DEF done
<1> QED BY <1>5, <1>9, <1>10

-----------------------------------------------------------------------------
(***************************************************************************)
(* Frames under way. Reading frame f takes a browser that has seen the     *)
(* first x events of an exchange to the first y; reading the frames w      *)
(* takes it from x to y by way of the numbers c.                           *)
(***************************************************************************)
Snapshots == UNION {[kind : {"snapshot"}, seen : [S -> Numbers]] :
  S \in {S \in SUBSET TraceIds : IsFiniteSet(S)}}
Frame == [kind : {"event"}, id : TraceIds, n : Numbers] \cup Snapshots

LEMMA FrameFields ==
  ASSUME NEW f \in Frame
  PROVE  /\ f.kind \in {"event", "snapshot"}
         /\ f.kind = "event" => f.id \in TraceIds /\ f.n \in Numbers
         /\ f.kind = "snapshot" =>
              /\ DOMAIN f.seen \in SUBSET TraceIds /\ IsFiniteSet(DOMAIN f.seen)
              /\ \A id \in DOMAIN f.seen : f.seen[id] \in Numbers
<1>1. CASE f \in [kind : {"event"}, id : TraceIds, n : Numbers]
  BY <1>1
<1>2. CASE f \in Snapshots
  <2>1. PICK S \in SUBSET TraceIds : /\ IsFiniteSet(S)
                                     /\ f \in [kind : {"snapshot"}, seen : [S -> Numbers]]
    BY <1>2 DEF Snapshots
  <2>2. f.kind = "snapshot" /\ f.seen \in [S -> Numbers]
    BY <2>1
  <2> QED BY <2>1, <2>2
<1> QED BY <1>1, <1>2 DEF Frame

Tells(f, id, x, y) ==
  \/ f.kind = "event" /\ f.id = id /\ f.n = x + 1 /\ y = x + 1
  \/ f.kind = "snapshot" /\ id \in DOMAIN f.seen /\ y = f.seen[id] /\ x \in {0, y}
  \/ f.kind = "event" /\ f.id # id /\ y = x
  \/ f.kind = "snapshot" /\ id \notin DOMAIN f.seen /\ y = x

Follows(w, id, c) ==
  /\ \A i \in 1 .. Len(w) : Tells(w[i], id, c[i - 1], c[i])
  /\ \A i \in 0 .. Len(w) : c[i] <= c[Len(w)]

Leads(w, id, x, y) ==
  \E c \in [0 .. Len(w) -> 0 .. Ui!LastEvent] : Follows(w, id, c) /\ c[0] = x /\ c[Len(w)] = y

LEMMA LeadsNowhere ==
  ASSUME UiConstants, NEW id, NEW x \in 0 .. Ui!LastEvent
  PROVE  Leads(<< >>, id, x, x)
<1> DEFINE c == [i \in 0 .. 0 |-> x]
<1>1. c \in [0 .. Len(<< >>) -> 0 .. Ui!LastEvent] /\ c[0] = x /\ Len(<< >>) = 0
  OBVIOUS
<1>2. x <= x
  BY DEF UiConstants, Ui!LastEvent
<1>3. Follows(<< >>, id, c)
  BY <1>1, <1>2 DEF Follows
<1> HIDE DEF c
<1> QED BY <1>1, <1>3 DEF Leads

LEMMA LeadsUp ==
  ASSUME UiConstants, NEW w \in Seq(Frame), NEW id, NEW x, NEW y, Leads(w, id, x, y)
  PROVE  x \in 0 .. Ui!LastEvent /\ y \in 0 .. Ui!LastEvent /\ x <= y
<1>1. PICK c \in [0 .. Len(w) -> 0 .. Ui!LastEvent] : Follows(w, id, c) /\ c[0] = x /\ c[Len(w)] = y
  BY DEF Leads
<1>2. 0 \in 0 .. Len(w) /\ Len(w) \in 0 .. Len(w)
  OBVIOUS
<1> QED BY <1>1, <1>2 DEF Follows

LEMMA LeadsMore ==
  ASSUME UiConstants, NEW w \in Seq(Frame), NEW id, NEW x, NEW y, Leads(w, id, x, y),
         NEW f \in Frame, NEW z \in 0 .. Ui!LastEvent, Tells(f, id, y, z), y <= z
  PROVE  Leads(Append(w, f), id, x, z)
<1>1. PICK c \in [0 .. Len(w) -> 0 .. Ui!LastEvent] : Follows(w, id, c) /\ c[0] = x /\ c[Len(w)] = y
  BY DEF Leads
<1>2. PICK m \in Nat : m = Len(w)
  OBVIOUS
<1> DEFINE d == [i \in 0 .. m + 1 |-> IF i = m + 1 THEN z ELSE c[i]]
<1>3. c \in [0 .. m -> 0 .. Ui!LastEvent] /\ c[m] = y /\ c[0] = x
  BY <1>1, <1>2
<1>4. Len(Append(w, f)) = m + 1 /\ Append(w, f)[m + 1] = f /\ \A i \in 1 .. m :
        Append(w, f)[i] = w[i]
  BY <1>2
<1>5. d \in [0 .. m + 1 -> 0 .. Ui!LastEvent] /\ d[m + 1] = z /\ \A i \in 0 .. m : d[i] = c[i]
  <2>1. \A i \in 0 .. m + 1 : i # m + 1 => i \in 0 .. m
    OBVIOUS
  <2>2. \A i \in 0 .. m : i \in 0 .. m + 1 /\ i # m + 1
    OBVIOUS
  <2>3. m + 1 \in 0 .. m + 1
    OBVIOUS
  <2> QED BY <1>3, <2>1, <2>2, <2>3
<1> HIDE DEF d
<1>6. Ui!LastEvent \in Nat /\ y \in Nat /\ z \in Nat
  BY <1>1, <1>2, <1>3 DEF UiConstants, Ui!LastEvent
<1>7. ASSUME NEW i \in 1 .. m + 1 PROVE Tells(Append(w, f)[i], id, d[i - 1], d[i])
  <2>1. CASE i = m + 1
    <3>1. i - 1 = m /\ m \in 0 .. m
      BY <2>1
    <3> QED BY <1>3, <1>4, <1>5, <2>1, <3>1
  <2>2. CASE i # m + 1
    <3>1. i \in 1 .. m /\ i \in 0 .. m /\ i - 1 \in 0 .. m
      BY <2>2
    <3>2. Tells(w[i], id, c[i - 1], c[i])
      BY <1>1, <1>2, <3>1 DEF Follows
    <3> QED BY <1>4, <1>5, <3>1, <3>2
  <2> QED BY <2>1, <2>2
<1>8. ASSUME NEW i \in 0 .. m + 1 PROVE d[i] <= d[m + 1]
  <2>1. CASE i = m + 1
    BY <1>5, <1>6, <2>1
  <2>2. CASE i # m + 1
    <3>1. i \in 0 .. m
      BY <2>2
    <3>2. PICK v \in Nat : v = c[i]
      BY <1>3, <1>6, <3>1
    <3>3. v <= y
      BY <1>1, <1>2, <3>1, <3>2 DEF Follows
    <3>4. v <= z
      BY <1>6, <3>3
    <3> QED BY <1>5, <3>1, <3>2, <3>4
  <2> QED BY <2>1, <2>2
<1>9. Follows(Append(w, f), id, d)
  BY <1>4, <1>7, <1>8 DEF Follows
<1>10. d[0] = x
  BY <1>3, <1>5
<1> QED BY <1>4, <1>5, <1>9, <1>10 DEF Leads

LEMMA LeadsLess ==
  ASSUME UiConstants, NEW w \in Seq(Frame), w # << >>, NEW id, NEW x, NEW y, Leads(w, id, x, y)
  PROVE  \E z \in 0 .. Ui!LastEvent : Tells(Head(w), id, x, z) /\ x <= z /\ Leads(Tail(w), id, z, y)
<1>1. PICK c \in [0 .. Len(w) -> 0 .. Ui!LastEvent] : Follows(w, id, c) /\ c[0] = x /\ c[Len(w)] = y
  BY DEF Leads
<1>2. PICK m \in Nat : Len(w) = m + 1
  <2>1. Len(w) \in Nat /\ Len(w) # 0
    OBVIOUS
  <2>2. Len(w) - 1 \in Nat /\ Len(w) = (Len(w) - 1) + 1
    BY <2>1
  <2> QED BY <2>2
<1>3. c \in [0 .. m + 1 -> 0 .. Ui!LastEvent] /\ c[m + 1] = y /\ c[0] = x
  BY <1>1, <1>2
<1>4. /\ Len(Tail(w)) = m /\ \A i \in 1 .. m : Tail(w)[i] = w[i + 1]
      /\ Head(w) = w[1] /\ w[1] \in Frame
  BY <1>2
<1> DEFINE d == [i \in 0 .. m |-> c[i + 1]]
<1>5. \A i \in 0 .. m : i + 1 \in 0 .. m + 1 /\ i + 1 \in 1 .. m + 1
  OBVIOUS
<1>6. d \in [0 .. m -> 0 .. Ui!LastEvent] /\ \A i \in 0 .. m : d[i] = c[i + 1]
  BY <1>3, <1>5
<1> HIDE DEF d
<1>7. 0 \in 0 .. m /\ m \in 0 .. m /\ 0 + 1 = 1
  OBVIOUS
<1>8. d[0] = c[1] /\ d[m] = y /\ c[1] \in 0 .. Ui!LastEvent
  BY <1>3, <1>6, <1>7
<1>9. Tells(Head(w), id, x, c[1])
  <2>1. 1 \in 1 .. Len(w) /\ 1 - 1 = 0
    BY <1>2
  <2>2. Tells(w[1], id, c[1 - 1], c[1])
    BY <1>1, <2>1 DEF Follows
  <2> QED BY <1>3, <1>4, <2>1, <2>2
<1>10. x <= c[1]
  <2>1. PICK u \in Nat, v \in Nat : u = x /\ v = c[1]
    BY <1>3, <1>7, <1>8
  <2>2. Tells(Head(w), id, u, v)
    BY <1>9, <2>1
  <2>3. v = u + 1 \/ v = u \/ u = 0
    BY <2>2 DEF Tells
  <2>4. u <= v
    BY <2>3
  <2> QED BY <2>1, <2>4
<1>11. ASSUME NEW i \in 1 .. m PROVE Tells(Tail(w)[i], id, d[i - 1], d[i])
  <2>1. /\ i + 1 \in 1 .. m + 1 /\ (i + 1) - 1 = i /\ i \in 0 .. m /\ i - 1 \in 0 .. m
        /\ (i - 1) + 1 = i
    OBVIOUS
  <2>2. Tells(w[i + 1], id, c[(i + 1) - 1], c[i + 1])
    BY <1>1, <1>2, <2>1 DEF Follows
  <2>3. d[i - 1] = c[i] /\ d[i] = c[i + 1]
    BY <1>6, <2>1
  <2> QED BY <1>4, <2>1, <2>2, <2>3
<1>12. ASSUME NEW i \in 0 .. m PROVE d[i] <= d[m]
  BY <1>1, <1>2, <1>3, <1>5, <1>6, <1>8 DEF Follows
<1>13. Follows(Tail(w), id, d)
  BY <1>4, <1>11, <1>12 DEF Follows
<1>14. Leads(Tail(w), id, c[1], y)
  BY <1>4, <1>6, <1>8, <1>13 DEF Leads
<1> QED BY <1>8, <1>9, <1>10, <1>14

-----------------------------------------------------------------------------
(***************************************************************************)
(* The invariant.                                                          *)
(***************************************************************************)
UiTyped ==
  /\ log \in Seq(Event) /\ stored \in 0 .. Len(log)
  /\ handed \in SUBSET TraceIds /\ doubtful \in SUBSET TraceIds
  /\ session \in [open : BOOLEAN, subscribed : BOOLEAN, next : Nat]
  /\ session.next \in 1 .. Len(log) + 1
  /\ wire \in Seq(Frame)
  /\ listening \in BOOLEAN
  /\ Listed(Ui!List)

Numbered ==
  /\ \A i \in 1 .. Len(log) : log[i].n = Ui!Happened(log[i].id, i)
  /\ \A id \in TraceIds : Ui!Happened(id, Len(log)) <= Ui!LastEvent

\* Where the session is with an exchange the browser will have seen y events of.
AtSession(id, y) ==
  /\ y = 0 => id \notin handed /\ (session.open /\ session.subscribed =>
       Ui!Happened(id, session.next - 1) = 0)
  /\ y # 0 => session.open /\ y = Ui!Happened(id, session.next - 1)

Followed(id) == \E x, y : Leads(wire, id, x, y) /\ records[id] = Shown(x) /\ AtSession(id, y)

Faithful == \A id \in TraceIds \ doubtful : Followed(id)

UiInv == UiTyped /\ Numbered /\ Faithful

LEMMA Relisted ==
  ASSUME NEW l, Listed(l), NEW m, m = [order |-> l.order, records |-> l.records, gone |-> {}]
  PROVE  Listed(m)
BY DEF Listed, Distinct, Lists, Listable

LEMMA SnapshotIsFrame ==
  ASSUME UiConstants, UiTyped, Numbered
  PROVE  /\ IsFiniteSet(Ui!Snapshot) /\ Ui!Snapshot \in SUBSET TraceIds
         /\ \A id \in Ui!Snapshot : Ui!Happened(id, stored) \in Numbers
         /\ [kind |-> "snapshot", seen |->
              [id \in Ui!Snapshot |-> Ui!Happened(id, stored)]] \in Frame
<1>1. /\ log \in Seq(Event) /\ stored \in 0 .. Len(log) /\ stored \in Nat /\ Len(log) \in Nat
      /\ Ui!LastEvent \in Nat
  BY DEF UiTyped, UiConstants, Ui!LastEvent
<1>2. Ui!Snapshot \subseteq Ui!Between(1, stored)
  <2> SUFFICES ASSUME NEW id \in Ui!Snapshot PROVE id \in Ui!Between(1, stored)
    OBVIOUS
  <2>1. /\ Ui!Happened(id, stored) \in Nat
        /\ (Ui!Happened(id, stored) = 0 <=> id \notin Ui!Between(1, stored))
    BY <1>1, HappenedCounts
  <2> QED BY <2>1 DEF Ui!Snapshot
<1>3. IsFiniteSet(Ui!Between(1, stored))
  <2> DEFINE f == [i \in 1 .. stored |-> log[i].id]
  <2>1. IsFiniteSet(1 .. stored)
    BY <1>1, FS_Interval
  <2>2. f \in Surjection(1 .. stored, Ui!Between(1, stored))
    BY DEF Surjection, Ui!Between
  <2> QED BY <2>1, <2>2, FS_Surjection
<1>4. IsFiniteSet(Ui!Snapshot) /\ Ui!Snapshot \in SUBSET TraceIds
  <2>1. Ui!Snapshot \in SUBSET TraceIds
    BY DEF Ui!Snapshot
  <2> QED BY <1>2, <1>3, <2>1, FS_Subset
<1>5. ASSUME NEW id \in Ui!Snapshot PROVE Ui!Happened(id, stored) \in Numbers
  <2>1. Len(log) \in 0 .. Len(log) /\ id \in TraceIds
    BY <1>1 DEF Ui!Snapshot
  <2>2. PICK h \in Nat, a \in Nat : /\ h = Ui!Happened(id, stored)
                                    /\ a = Ui!Happened(id, Len(log)) /\ h <= a
    BY <1>1, <2>1, HappenedCounts
  <2>3. h > 0 /\ a <= Ui!LastEvent
    BY <2>1, <2>2 DEF Ui!Snapshot, Numbered
  <2>4. h \in 1 .. Ui!LastEvent
    BY <1>1, <2>2, <2>3
  <2> QED BY <2>2, <2>4 DEF Numbers
<1>6. PICK seen \in [Ui!Snapshot -> Numbers] :
        seen = [id \in Ui!Snapshot |-> Ui!Happened(id, stored)]
  BY <1>5
<1>7. [kind |-> "snapshot", seen |-> seen] \in [kind : {"snapshot"}, seen :
        [Ui!Snapshot -> Numbers]]
  OBVIOUS
<1>8. [kind |-> "snapshot", seen |-> seen] \in Snapshots
  BY <1>4, <1>7 DEF Snapshots
<1> QED BY <1>4, <1>5, <1>6, <1>8 DEF Frame

\* What the two frames make of the list.
LEMMA EventTaken ==
  ASSUME UiConstants, UiTyped, Ui!TakeEvent, NEW id, NEW n, id = Head(wire).id, n = Head(wire).n
  PROVE  /\ id \in TraceIds /\ n \in Numbers /\ Head(wire) \in Frame /\ Head(wire).kind = "event"
         /\ Listed(Ui!List)' /\ doubtful \subseteq doubtful' /\ doubtful' \in SUBSET TraceIds
         /\ \A i \in TraceIds \ doubtful' : i # id => records'[i] = records[i]
         /\ id \notin doubtful' /\ Ui!Patched(records[id], n).url =>
              records'[id] = Ui!Patched(records[id], n)
<1>1. PICK m, l : m = Ui!ApplyEvent(l, id, n) /\ l = Ui!List
  OBVIOUS
<1>2. /\ wire \in Seq(Frame) /\ wire # << >> /\ Head(wire).kind = "event"
      /\ order' = m.order /\ records' = m.records /\ doubtful' = doubtful \cup m.gone
  BY <1>1 DEF Ui!TakeEvent, Ui!Shows, UiTyped
<1>3. Head(wire) \in Frame
  BY <1>2
<1>4. id \in TraceIds /\ n \in Numbers
  BY <1>2, <1>3, FrameFields
<1>5. /\ Listed(m) /\ l.gone \subseteq m.gone
      /\ \A i \in TraceIds \ m.gone : i # id => m.records[i] = l.records[i]
      /\ id \notin m.gone /\ Ui!Patched(l.records[id], n).url => m.records[id] =
           Ui!Patched(l.records[id], n)
  BY <1>1, <1>4, EventApplied DEF UiTyped
<1>6. l.records = records
  BY <1>1 DEF Ui!List
<1>7. Ui!List' = [order |-> m.order, records |-> m.records, gone |-> {}]
  BY <1>2 DEF Ui!List
<1>8. Listed(Ui!List')
  BY <1>5, <1>7, Relisted
<1>9. Listed(Ui!List)'
  BY <1>8 DEF Listed, Distinct, Lists, Listable
<1>10. m.gone \in SUBSET TraceIds /\ doubtful \in SUBSET TraceIds
  BY <1>5 DEF Listed, Distinct, Lists, UiTyped
<1> QED BY <1>2, <1>3, <1>4, <1>5, <1>6, <1>9, <1>10

LEMMA SnapshotTaken ==
  ASSUME UiConstants, UiTyped, Ui!TakeSnapshot, NEW seen, seen = Head(wire).seen
  PROVE  /\ Head(wire) \in Frame /\ Head(wire).kind = "snapshot"
         /\ Listed(Ui!List)' /\ doubtful \subseteq doubtful' /\ doubtful' \in SUBSET TraceIds
         /\ \A i \in TraceIds \ doubtful' :
              records'[i] = IF i \in DOMAIN seen THEN Ui!Cached(records[i], seen[i]) ELSE records[i]
<1>1. wire \in Seq(Frame) /\ wire # << >> /\ Head(wire).kind = "snapshot"
  BY DEF Ui!TakeSnapshot, UiTyped
<1>2. Head(wire) \in Frame
  BY <1>1
<1>3. PICK S \in SUBSET TraceIds : S = DOMAIN seen /\ IsFiniteSet(S) /\ \A id \in S :
        seen[id] \in Numbers
  BY <1>1, <1>2, FrameFields
<1>4. PICK ids \in Ui!SetToSeqs(S) : Ui!Shows(Ui!Trim(Ui!ApplyCached(Ui!List, ids, seen)))
  BY <1>3 DEF Ui!TakeSnapshot
<1>5. PICK l, k, m : l = Ui!List /\ k = Ui!ApplyCached(l, ids, seen) /\ m = Ui!Trim(k)
  OBVIOUS
<1>6. order' = m.order /\ records' = m.records /\ doubtful' = doubtful \cup m.gone
  BY <1>4, <1>5 DEF Ui!Shows
<1>7. /\ Listed(k) /\ l.gone \subseteq k.gone
      /\ \A i \in TraceIds \ k.gone : k.records[i] = IF i \in S
           THEN Ui!Cached(l.records[i], seen[i]) ELSE l.records[i]
  BY <1>3, <1>5, CachedApplied DEF UiTyped
<1>8. Listed(m) /\ Keeps(k, m)
  BY <1>5, <1>7, TrimLists DEF Listed
<1>9. l.records = records
  BY <1>5 DEF Ui!List
<1>10. Ui!List' = [order |-> m.order, records |-> m.records, gone |-> {}]
  BY <1>6 DEF Ui!List
<1>11. Listed(Ui!List')
  BY <1>8, <1>10, Relisted
<1>12. Listed(Ui!List)'
  BY <1>11 DEF Listed, Distinct, Lists, Listable
<1>13. m.gone \in SUBSET TraceIds /\ doubtful \in SUBSET TraceIds
  BY <1>8 DEF Listed, Distinct, Lists, UiTyped
<1>14. ASSUME NEW i \in TraceIds \ doubtful'
       PROVE  records'[i] = IF i \in DOMAIN seen THEN Ui!Cached(records[i], seen[i]) ELSE records[i]
  BY <1>3, <1>6, <1>7, <1>8, <1>9 DEF Keeps
<1> QED BY <1>1, <1>2, <1>6, <1>12, <1>13, <1>14

LEMMA UiTypedStep ==
  ASSUME UiConstants, UiTyped, Numbered, [Ui!Next]_(Ui!vars)
  PROVE  UiTyped'
<1>1. /\ log \in Seq(Event) /\ stored \in 0 .. Len(log) /\ Len(log) \in Nat /\ Ui!LastEvent \in Nat
      /\ handed \in SUBSET TraceIds /\ doubtful \in SUBSET TraceIds
      /\ session \in [open : BOOLEAN, subscribed : BOOLEAN, next : Nat]
      /\ session.next \in 1 .. Len(log) + 1
      /\ wire \in Seq(Frame) /\ listening \in BOOLEAN /\ Listed(Ui!List)
  BY DEF UiTyped, UiConstants, Ui!LastEvent
<1>2. \A i \in 1 .. Len(log) : log[i] \in Event /\ log[i].id \in TraceIds /\ log[i].n \in Numbers
  <2>1. \A i \in 1 .. Len(log) : log[i] \in Event
    BY <1>1
  <2> QED BY <2>1 DEF Event
<1>3. \A t, u \in Nat : t >= 1 /\ u <= Len(log) => Ui!Between(t, u) \in SUBSET TraceIds
  BY <1>1, <1>2 DEF Ui!Between
<1>4. ASSUME UNCHANGED Ui!browser PROVE Listed(Ui!List)' /\ listening' \in BOOLEAN
  BY <1>1, <1>4 DEF Ui!browser, Listed, Distinct, Lists, Listable, Ui!List
<1>5. CASE Ui!Publish
  <2>1. PICK id \in TraceIds : /\ Ui!Happened(id, Len(log)) < Ui!LastEvent
                               /\ log' = Append(log,
                                    [id |-> id, n |-> Ui!Happened(id, Len(log)) + 1])
    BY <1>5 DEF Ui!Publish
  <2>2. PICK h \in Nat : h = Ui!Happened(id, Len(log))
    BY <1>1, HappenedCounts
  <2>3. h + 1 \in Numbers
    BY <1>1, <2>1, <2>2 DEF Numbers
  <2>4. PICK e \in Event : log' = Append(log, e)
    BY <2>1, <2>2, <2>3 DEF Event
  <2>5. log' \in Seq(Event) /\ Len(log') = Len(log) + 1
    BY <1>1, <2>4
  <2> QED BY <1>1, <1>4, <1>5, <2>5 DEF Ui!Publish, UiTyped
<1>6. CASE Ui!StoreEvent
  BY <1>1, <1>4, <1>6 DEF Ui!StoreEvent, UiTyped
<1>7. CASE Ui!Connect
  BY <1>1, <1>4, <1>7 DEF Ui!Connect, UiTyped
<1>8. CASE Ui!Subscribe
  <2>1. PICK f \in Frame : wire' = Append(wire, f)
    BY <1>8, SnapshotIsFrame DEF Ui!Subscribe
  <2>2. wire' \in Seq(Frame)
    BY <1>1, <2>1
  <2>3. Ui!Snapshot \in SUBSET TraceIds
    BY SnapshotIsFrame
  <2>4. Ui!Between(stored + 1, session.next - 1) \in SUBSET TraceIds
    <3>1. /\ stored + 1 \in Nat /\ session.next - 1 \in Nat /\ stored + 1 >= 1
          /\ session.next - 1 <= Len(log)
      BY <1>1
    <3> QED BY <1>3, <3>1
  <2>5. doubtful' \in SUBSET TraceIds /\ handed' \in SUBSET TraceIds
    BY <1>1, <1>8, <2>3, <2>4 DEF Ui!Subscribe
  <2>6. /\ session' \in [open : BOOLEAN, subscribed : BOOLEAN, next : Nat]
        /\ session'.next = session.next
    BY <1>1, <1>8 DEF Ui!Subscribe
  <2> QED BY <1>1, <1>4, <1>8, <2>2, <2>5, <2>6 DEF Ui!Subscribe, UiTyped
<1>9. CASE Ui!Unsubscribe
  <2>1. /\ session' \in [open : BOOLEAN, subscribed : BOOLEAN, next : Nat]
        /\ session'.next = session.next
    BY <1>1, <1>9 DEF Ui!Unsubscribe
  <2> QED BY <1>1, <1>4, <1>9, <2>1 DEF Ui!Unsubscribe, UiTyped
<1>10. CASE Ui!Lagged
  <2>1. PICK o \in Nat : o = Ui!Oldest /\ session.next < o /\ o <= Len(log) + 1 /\ o >= 1
    BY <1>1, <1>10 DEF Ui!Lagged, Ui!Oldest, UiConstants
  <2>2. /\ session' = [session EXCEPT !.next = o]
        /\ doubtful' = doubtful \cup Ui!Between(session.next, o - 1)
    BY <1>10, <2>1 DEF Ui!Lagged
  <2>3. session' \in [open : BOOLEAN, subscribed : BOOLEAN, next : Nat] /\ session'.next = o
    BY <1>1, <2>2
  <2>4. Ui!Between(session.next, o - 1) \in SUBSET TraceIds
    <3>1. session.next \in Nat /\ o - 1 \in Nat /\ session.next >= 1 /\ o - 1 <= Len(log)
      BY <1>1, <2>1
    <3> QED BY <1>3, <3>1
  <2> QED BY <1>1, <1>4, <1>10, <2>1, <2>2, <2>3, <2>4 DEF Ui!Lagged, UiTyped
<1>11. CASE Ui!Forward
  <2>1. session.next \in 1 .. Len(log) /\ session.next \in Nat
    BY <1>1, <1>11 DEF Ui!Forward, Ui!Ready
  <2>2. PICK f \in Frame : wire' = Append(wire, f)
    BY <1>2, <1>11, <2>1 DEF Ui!Forward, Frame
  <2>3. wire' \in Seq(Frame)
    BY <1>1, <2>2
  <2>4. /\ session' \in [open : BOOLEAN, subscribed : BOOLEAN, next : Nat]
        /\ session'.next = session.next + 1
    <3>1. PICK p \in Nat : p = session.next + 1
      BY <2>1
    <3>2. session' = [session EXCEPT !.next = p]
      BY <1>11, <3>1 DEF Ui!Forward
    <3> QED BY <1>1, <3>1, <3>2
  <2>5. session.next + 1 \in 1 .. Len(log) + 1
    BY <1>1, <2>1
  <2> QED BY <1>1, <1>4, <1>11, <2>3, <2>4, <2>5 DEF Ui!Forward, UiTyped
<1>12. CASE Ui!TakeEvent
  <2>1. Listed(Ui!List)' /\ doubtful' \in SUBSET TraceIds
    BY <1>12, EventTaken
  <2>2. wire' \in Seq(Frame)
    BY <1>1, <1>12 DEF Ui!TakeEvent
  <2> QED BY <1>1, <1>12, <2>1, <2>2 DEF Ui!TakeEvent, UiTyped
<1>13. CASE Ui!DropEvent
  <2>1. Head(wire) \in Frame /\ wire' \in Seq(Frame) /\ Head(wire).kind = "event"
    BY <1>1, <1>13 DEF Ui!DropEvent
  <2>2. Head(wire).id \in TraceIds
    BY <2>1, FrameFields
  <2> QED BY <1>1, <1>4, <1>13, <2>1, <2>2 DEF Ui!DropEvent, UiTyped
<1>14. CASE Ui!TakeSnapshot
  <2>1. Listed(Ui!List)' /\ doubtful' \in SUBSET TraceIds
    BY <1>14, SnapshotTaken
  <2>2. wire' \in Seq(Frame)
    BY <1>1, <1>14 DEF Ui!TakeSnapshot
  <2> QED BY <1>1, <1>14, <2>1, <2>2 DEF Ui!TakeSnapshot, UiTyped
<1>15. CASE Ui!StartStream \/ Ui!StopStream
  <2>1. Listed(Ui!List)'
    BY <1>1, <1>15 DEF Ui!StartStream, Ui!StopStream, Listed, Distinct, Lists, Listable, Ui!List
  <2> QED BY <1>1, <1>15, <2>1 DEF Ui!StartStream, Ui!StopStream, UiTyped
<1>16. CASE Ui!Clear
  <2>1. Ui!List' = [order |-> << >>, records |-> [id \in TraceIds |-> Nothing], gone |-> {}]
    BY <1>16 DEF Ui!Clear, Ui!List
  <2>2. Listed(Ui!List')
    <3>1. /\ << >> \in Seq(TraceIds)
          /\ [id \in TraceIds |-> Nothing] \in [TraceIds -> Record \cup {Nothing}]
          /\ Len(<< >>) = 0 /\ MaxLogSize \in Nat
      BY DEF UiConstants
    <3> QED BY <2>1, <3>1 DEF Listed, Distinct, Lists
  <2>3. Listed(Ui!List)'
    BY <2>2 DEF Listed, Distinct, Lists, Listable
  <2> QED BY <1>1, <1>16, <2>3 DEF Ui!Clear, UiTyped
<1>17. CASE Ui!Break
  <2>1. Listed(Ui!List)'
    BY <1>1, <1>17 DEF Ui!Break, Listed, Distinct, Lists, Listable, Ui!List
  <2>2. session' \in [open : BOOLEAN, subscribed : BOOLEAN, next : Nat] /\ session'.next = 1
    BY <1>17 DEF Ui!Break, Ui!Closed
  <2>3. wire' \in Seq(Frame)
    BY <1>17 DEF Ui!Break
  <2>4. doubtful' \in SUBSET TraceIds
    BY <1>1, <1>17 DEF Ui!Break
  <2>5. log' = log /\ stored' = stored /\ handed' = handed /\ listening' = FALSE
    BY <1>17 DEF Ui!Break
  <2>6. 1 \in 1 .. Len(log) + 1
    BY <1>1
  <2> QED BY <1>1, <2>1, <2>2, <2>3, <2>4, <2>5, <2>6 DEF UiTyped
<1>18. CASE UNCHANGED Ui!vars
  BY <1>1, <1>4, <1>18 DEF Ui!vars, Ui!browser, UiTyped
<1> QED BY <1>5, <1>6, <1>7, <1>8, <1>9, <1>10, <1>11, <1>12, <1>13, <1>14, <1>15, <1>16, <1>17,
  <1>18
        DEF Ui!Next, Ui!Server, Ui!SessionStep, Ui!Browser, Ui!User

LEMMA HappenedNext ==
  ASSUME log \in Seq(Event), NEW e, log' = Append(log, e), NEW id, NEW size, size = Len(log)
  PROVE  Ui!Happened(id, size + 1)' = Ui!Happened(id, size) + IF e.id = id THEN 1 ELSE 0
<1> DEFINE those == {i \in 1 .. size : log[i].id = id}
           then == {i \in 1 .. size + 1 : log'[i].id = id}
<1>1. size \in Nat /\ log'[size + 1] = e /\ \A i \in 1 .. size : log'[i] = log[i]
  OBVIOUS
<1>2. IsFiniteSet(those) /\ Cardinality(those) \in Nat
  <2>1. IsFiniteSet(1 .. size) /\ those \in SUBSET (1 .. size)
    BY <1>1, FS_Interval
  <2> HIDE DEF those
  <2> QED BY <2>1, FS_Subset, FS_CardinalityType
<1>3. Ui!Happened(id, size + 1)' = Cardinality(then) /\ Ui!Happened(id, size) = Cardinality(those)
  BY UiSizes DEF Ui!Happened
<1>4. CASE e.id = id
  <2>1. then = those \cup {size + 1} /\ size + 1 \notin those
    BY <1>1, <1>4
  <2> HIDE DEF those, then
  <2>2. Cardinality(then) = Cardinality(those) + 1
    BY <1>2, <2>1, FS_AddElement
  <2> QED BY <1>2, <1>3, <1>4, <2>2
<1>5. CASE e.id # id
  <2>1. then = those
    BY <1>1, <1>5
  <2> HIDE DEF those, then
  <2> QED BY <1>2, <1>3, <1>5, <2>1
<1> QED BY <1>4, <1>5

LEMMA NumberedStep ==
  ASSUME UiConstants, UiTyped, Numbered, [Ui!Next]_(Ui!vars)
  PROVE  Numbered'
<1>1. log \in Seq(Event) /\ Ui!LastEvent \in Nat
  BY DEF UiTyped, UiConstants, Ui!LastEvent
<1>2. CASE Ui!Publish
  <2>1. PICK size \in Nat : size = Len(log)
    BY <1>1
  <2>p. PICK id \in TraceIds : /\ Ui!Happened(id, size) < Ui!LastEvent
                              /\ log' = Append(log, [id |-> id, n |-> Ui!Happened(id, size) + 1])
    BY <1>2, <2>1 DEF Ui!Publish
  <2>e. PICK e : e = [id |-> id, n |-> Ui!Happened(id, size) + 1]
    OBVIOUS
  <2>2. /\ Ui!Happened(id, size) < Ui!LastEvent /\ e = [id |-> id, n |-> Ui!Happened(id, size) + 1]
        /\ log' = Append(log, e)
    BY <2>p, <2>e
  <2>3. Len(log') = size + 1 /\ log'[size + 1] = e /\ e.id = id /\ e.n = Ui!Happened(id, size) + 1
        /\ \A i \in 1 .. size : log'[i] = log[i]
    BY <1>1, <2>1, <2>2
  <2>4. \A x \in TraceIds : Ui!Happened(x, size + 1)' = Ui!Happened(x, size) + IF x = id
          THEN 1 ELSE 0
    BY <1>1, <2>1, <2>2, <2>3, HappenedNext
  <2>5. ASSUME NEW i \in 1 .. size + 1 PROVE \E x : log'[i].id = x /\ log'[i].n = Ui!Happened(x, i)'
    <3>1. CASE i = size + 1
      <4>1. log'[i].n = Ui!Happened(id, size) + 1 /\ log'[i].id = id
        BY <2>3, <3>1
      <4>2. Ui!Happened(id, i)' = Ui!Happened(id, size) + 1
        BY <2>4, <3>1
      <4> QED BY <4>1, <4>2
    <3>2. CASE i # size + 1
      <4>1. i \in 1 .. size /\ i \in 0 .. size
        BY <3>2
      <4>2. PICK x : x = log[i].id
        OBVIOUS
      <4>3. log'[i] = log[i] /\ log[i].n = Ui!Happened(x, i)
        BY <2>1, <2>3, <4>1, <4>2 DEF Numbered
      <4>4. Ui!Happened(x, i)' = Ui!Happened(x, i)
        BY <1>1, <2>1, <2>2, <4>1, HappenedStays
      <4> QED BY <4>2, <4>3, <4>4
    <3> QED BY <3>1, <3>2
  <2>6. ASSUME NEW x \in TraceIds PROVE Ui!Happened(x, size + 1)' <= Ui!LastEvent
    <3>1. size \in 0 .. Len(log)
      BY <2>1
    <3>2. PICK h \in Nat : h = Ui!Happened(x, size) /\ h <= Ui!LastEvent
      BY <1>1, <2>1, <3>1, HappenedCounts DEF Numbered
    <3>3. Ui!Happened(x, size + 1)' = h + IF x = id THEN 1 ELSE 0
      BY <2>4, <3>2
    <3>4. x = id => h < Ui!LastEvent
      BY <2>2, <3>2
    <3>5. h + (IF x = id THEN 1 ELSE 0) <= Ui!LastEvent
      BY <1>1, <3>2, <3>4
    <3> QED BY <3>3, <3>5
  <2>7. \A i \in 1 .. Len(log') :
          log'[i].n = Ui!Cardinality({j \in 1 .. i : log'[j].id = log'[i].id})
    <3> TAKE i \in 1 .. Len(log')
    <3>1. PICK x : log'[i].id = x /\ log'[i].n = Ui!Happened(x, i)'
      BY <2>3, <2>5
    <3>2. Ui!Happened(x, i)' = Ui!Cardinality({j \in 1 .. i : log'[j].id = x})
      BY DEF Ui!Happened
    <3> QED BY <3>1, <3>2
  <2>8. \A x \in TraceIds : Ui!Cardinality({j \in 1 .. Len(log') : log'[j].id = x}) <= Ui!LastEvent'
    BY <2>3, <2>6 DEF Ui!Happened, Ui!LastEvent
  <2> QED BY <2>7, <2>8 DEF Numbered, Ui!Happened
<1>3. CASE ~Ui!Publish
  <2>1. log' = log
    BY <1>3 DEF Ui!Next, Ui!Server, Ui!SessionStep, Ui!Browser, Ui!User, Ui!StoreEvent, Ui!Connect,
      Ui!Subscribe, Ui!Unsubscribe, Ui!Lagged, Ui!Forward, Ui!TakeEvent, Ui!DropEvent,
      Ui!TakeSnapshot, Ui!StartStream, Ui!StopStream, Ui!Clear, Ui!Break, Ui!vars
  <2> QED BY <2>1 DEF Numbered, Ui!Happened
<1> QED BY <1>2, <1>3

-----------------------------------------------------------------------------
\* Of an exchange the browser has seen too much or too little of, it is not known again to
\* have seen the right part.
LEMMA DoubtsStay ==
  ASSUME UiConstants, UiTyped, [Ui!Next]_(Ui!vars)
  PROVE  doubtful \subseteq doubtful'
<1>1. CASE Ui!TakeEvent
  BY <1>1, EventTaken
<1>2. CASE Ui!TakeSnapshot
  BY <1>2, SnapshotTaken
<1>3. CASE ~Ui!TakeEvent /\ ~Ui!TakeSnapshot
  BY <1>3 DEF Ui!Next, Ui!Server, Ui!SessionStep, Ui!Browser, Ui!User, Ui!Publish, Ui!StoreEvent,
    Ui!Connect, Ui!Subscribe, Ui!Unsubscribe, Ui!Lagged, Ui!Forward, Ui!DropEvent, Ui!StartStream,
    Ui!StopStream, Ui!Clear, Ui!Break, Ui!vars
<1> QED BY <1>1, <1>2, <1>3

\* The positions in the log, as numbers.
LEMMA Positions ==
  ASSUME UiConstants, UiTyped, NEW id
  PROVE  /\ session.next - 1 \in 0 .. Len(log) /\ stored \in 0 .. Len(log) /\ Len(log) \in Nat
         /\ Ui!Happened(id, session.next - 1) \in Nat /\ Ui!Happened(id, stored) \in Nat
         /\ Ui!Happened(id, session.next - 1) <= Ui!Happened(id, Len(log))
<1>1. PICK size \in Nat, p \in Nat : size = Len(log) /\ p = session.next /\ p \in 1 .. size + 1
  BY DEF UiTyped
<1>2. p - 1 \in 0 .. size /\ stored \in 0 .. size /\ size \in 0 .. size
  BY <1>1 DEF UiTyped
<1> QED BY <1>1, <1>2, HappenedCounts DEF UiTyped

LEMMA SessionNow ==
  ASSUME NEW id, NEW y, NEW p, session.next - 1 = p, NEW h, Ui!Happened(id, p) = h, AtSession(id, y)
  PROVE  /\ y = 0 => id \notin handed /\ (session.open /\ session.subscribed => h = 0)
         /\ y # 0 => session.open /\ y = h
BY DEF AtSession

LEMMA SessionThen ==
  ASSUME NEW id, NEW y, NEW p, session'.next - 1 = p, NEW h, Ui!Happened(id, p)' = h,
         y = 0 => id \notin handed' /\ (session'.open /\ session'.subscribed => h = 0),
         y # 0 => session'.open /\ y = h
  PROVE  AtSession(id, y)'
BY DEF AtSession, Ui!Happened

LEMMA FollowedThen ==
  ASSUME NEW id, NEW x, NEW y, Leads(wire', id, x, y), records'[id] = Shown(x), AtSession(id, y)'
  PROVE  Followed(id)'
<1>1. Leads(wire, id, x, y)'
  BY DEF Leads, Follows, Tells, Ui!LastEvent
<1>2. (records[id] = Shown(x))'
  BY DEF Shown, Ui!CachedChunks, Ui!LastEvent
<1> QED BY <1>1, <1>2 DEF Followed

\* The steps of the proxy.
LEMMA FollowedByServer ==
  ASSUME UiConstants, UiTyped, Numbered, NEW id \in TraceIds, id \notin doubtful', Followed(id),
         Ui!Publish \/ Ui!Server
  PROVE  Followed(id)'
<1>1. PICK x, y : Leads(wire, id, x, y) /\ records[id] = Shown(x) /\ AtSession(id, y)
  BY DEF Followed
<1>2. wire \in Seq(Frame) /\ log \in Seq(Event) /\ Ui!LastEvent \in Nat
  BY DEF UiTyped, UiConstants, Ui!LastEvent
<1>3. PICK size \in Nat, p \in Nat, t \in Nat :
        size = Len(log) /\ p = session.next - 1 /\ p \in 0 .. size /\ t = stored /\ t \in 0 .. size
  BY Positions
<1>4. PICK h \in Nat, s \in Nat : h = Ui!Happened(id, p) /\ s = Ui!Happened(id, t)
  BY <1>3, Positions
<1>5. x \in 0 .. Ui!LastEvent /\ y \in 0 .. Ui!LastEvent /\ x <= y /\ y \in Nat
  BY <1>1, <1>2, LeadsUp
<1>6. /\ y = 0 => id \notin handed /\ (session.open /\ session.subscribed => h = 0)
      /\ y # 0 => session.open /\ y = h
  BY <1>1, <1>3, <1>4, SessionNow
<1>7. log' = log => \A u : Ui!Happened(id, u)' = Ui!Happened(id, u)
  BY DEF Ui!Happened
<1>8. session \in [open : BOOLEAN, subscribed : BOOLEAN, next : Nat] /\ session.next = p + 1
  BY <1>3 DEF UiTyped
<1>9. CASE Ui!Publish
  <2>1. PICK e : log' = Append(log, e)
    BY <1>9 DEF Ui!Publish
  <2>2. Ui!Happened(id, p)' = h
    BY <1>2, <1>3, <1>4, <2>1, HappenedStays
  <2>3. AtSession(id, y)'
    BY <1>3, <1>6, <1>9, <2>2, SessionThen DEF Ui!Publish
  <2> QED BY <1>1, <1>9, <2>3, FollowedThen DEF Ui!Publish, Ui!browser
<1>10. CASE Ui!StoreEvent
  <2>1. AtSession(id, y)'
    BY <1>3, <1>4, <1>6, <1>7, <1>10, SessionThen DEF Ui!StoreEvent
  <2> QED BY <1>1, <1>10, <2>1, FollowedThen DEF Ui!StoreEvent, Ui!browser
<1>11. CASE Ui!Connect
  <2>1. y = 0 /\ id \notin handed
    BY <1>6, <1>11 DEF Ui!Connect
  <2>2. session'.next - 1 = size /\ session'.subscribed = FALSE /\ handed' = handed
    BY <1>3, <1>11 DEF Ui!Connect
  <2>3. PICK all : Ui!Happened(id, size)' = all
    OBVIOUS
  <2>4. AtSession(id, y)'
    BY <2>1, <2>2, <2>3, SessionThen
  <2> QED BY <1>1, <1>11, <2>4, FollowedThen DEF Ui!Connect, Ui!browser
<1>12. CASE Ui!Subscribe
  <2>1. PICK f \in Frame : /\ f = [kind |-> "snapshot", seen |->
                                [i \in Ui!Snapshot |-> Ui!Happened(i, stored)]]
                           /\ wire' = Append(wire, f)
    BY <1>12, SnapshotIsFrame DEF Ui!Subscribe
  <2>2. /\ f.kind = "snapshot" /\ DOMAIN f.seen = Ui!Snapshot
        /\ (id \in Ui!Snapshot => f.seen[id] = s /\ s \in Numbers)
    BY <1>3, <1>4, <2>1, SnapshotIsFrame
  <2>3. /\ handed' = handed \cup Ui!Snapshot /\ log' = log /\ session.open
        /\ records' = records
        /\ session' = [session EXCEPT !.subscribed = TRUE]
        /\ id \notin Ui!Snapshot \cap Ui!Between(p + 1, t) /\ id \notin Ui!Between(t + 1, p)
    BY <1>3, <1>8, <1>12 DEF Ui!Subscribe, Ui!browser
  <2>4. session'.open /\ session'.next - 1 = p
    BY <1>3, <1>8, <2>3
  <2>5. /\ t <= p /\ id \notin Ui!Between(t + 1, p) => s = h
        /\ p <= t /\ id \notin Ui!Between(p + 1, t) => s = h
        /\ p <= t => h <= s
    <3>1. t <= p => t \in 0 .. p
      BY <1>3
    <3>2. p <= t => p \in 0 .. t
      BY <1>3
    <3> QED BY <1>2, <1>3, <1>4, <3>1, <3>2, HappenedCounts
  <2>6. id \in Ui!Snapshot => s = h
    BY <1>3, <2>3, <2>5
  <2>7. id \notin Ui!Snapshot /\ id \notin handed => h = 0
    <3> SUFFICES ASSUME id \notin Ui!Snapshot, id \notin handed PROVE h = 0
      OBVIOUS
    <3>1. s = 0
      BY <1>3, <1>4 DEF Ui!Snapshot
    <3> QED BY <1>3, <1>4, <2>3, <2>5, <3>1
  <2>8. Ui!Happened(id, p)' = h
    BY <1>4, <1>7, <2>3
  <2>9. CASE id \in Ui!Snapshot
    <3>1. s \in 0 .. Ui!LastEvent /\ s # 0 /\ y \in {0, s} /\ y <= s
      BY <1>2, <1>4, <1>5, <1>6, <2>2, <2>6, <2>9 DEF Numbers
    <3>2. Tells(f, id, y, s)
      BY <2>2, <2>9, <3>1 DEF Tells
    <3>3. Leads(wire', id, x, s)
      BY <1>1, <1>2, <2>1, <3>1, <3>2, LeadsMore
    <3>4. AtSession(id, s)'
      BY <2>4, <2>6, <2>8, <2>9, <3>1, SessionThen
    <3> QED BY <1>1, <2>3, <3>3, <3>4, FollowedThen
  <2>10. CASE id \notin Ui!Snapshot
    <3>1. Tells(f, id, y, y)
      BY <2>2, <2>10 DEF Tells
    <3>2. y <= y
      BY <1>5
    <3>3. Leads(wire', id, x, y)
      BY <1>1, <1>2, <1>5, <2>1, <3>1, <3>2, LeadsMore
    <3>4. AtSession(id, y)'
      BY <1>6, <2>3, <2>4, <2>7, <2>8, <2>10, SessionThen
    <3> QED BY <1>1, <2>3, <3>3, <3>4, FollowedThen
  <2> QED BY <2>9, <2>10
<1>13. CASE Ui!Unsubscribe
  <2>1. session' = [session EXCEPT !.subscribed = FALSE] /\ log' = log /\ handed' = handed
    BY <1>13 DEF Ui!Unsubscribe
  <2>2. session'.next - 1 = p /\ session'.open = session.open /\ session'.subscribed = FALSE
    BY <1>3, <1>8, <2>1
  <2>3. AtSession(id, y)'
    BY <1>4, <1>6, <1>7, <2>1, <2>2, SessionThen
  <2> QED BY <1>1, <1>13, <2>3, FollowedThen DEF Ui!Unsubscribe, Ui!browser
<1>14. CASE Ui!Lagged
  <2>1. PICK q \in Nat, o \in Nat : q = Ui!Oldest /\ o = q - 1 /\ p <= o /\ o \in 0 .. size
    <3>1. PICK q \in Nat : q = Ui!Oldest /\ p + 1 < q /\ q <= size + 1
      BY <1>3, <1>8, <1>14 DEF Ui!Lagged, Ui!Oldest, UiConstants
    <3>2. q - 1 \in Nat /\ p <= q - 1 /\ q - 1 \in 0 .. size
      BY <1>3, <3>1
    <3> QED BY <3>1, <3>2
  <2>2. /\ session' = [session EXCEPT !.next = q] /\ log' = log /\ handed' = handed
        /\ session.open /\ session.subscribed /\ id \notin Ui!Between(p + 1, o)
    BY <1>8, <1>14, <2>1 DEF Ui!Lagged, Ui!Ready
  <2>3. /\ session'.next - 1 = o /\ session'.open = session.open
        /\ session'.subscribed = session.subscribed
    BY <1>8, <2>1, <2>2
  <2>4. Ui!Happened(id, o) = h
    <3>1. p \in 0 .. o
      BY <2>1
    <3> QED BY <1>2, <1>3, <1>4, <2>1, <2>2, <3>1, HappenedCounts
  <2>5. AtSession(id, y)'
    BY <1>6, <1>7, <2>2, <2>3, <2>4, SessionThen
  <2> QED BY <1>1, <1>14, <2>5, FollowedThen DEF Ui!Lagged, Ui!browser
<1>15. CASE Ui!Forward
  <2>1. /\ session.open /\ session.subscribed /\ p + 1 \in 1 .. size /\ p + 1 \in 0 .. size
        /\ session' = [session EXCEPT !.next = @ + 1] /\ log' = log /\ handed' = handed
        /\ records' = records
    BY <1>3, <1>8, <1>15 DEF Ui!Forward, Ui!Ready, Ui!browser
  <2>2. y = h
    BY <1>6, <2>1
  <2>3. PICK e \in Event : e = log[p + 1]
    BY <1>2, <1>3, <2>1
  <2>4. PICK f \in Frame : f = [kind |-> "event", id |-> e.id, n |-> e.n] /\ wire' = Append(wire, f)
    <3>1. e.id \in TraceIds /\ e.n \in Numbers
      BY DEF Event
    <3>2. [kind |-> "event", id |-> e.id, n |-> e.n] \in Frame
      BY <3>1 DEF Frame
    <3> QED BY <1>8, <1>15, <2>3, <3>2 DEF Ui!Forward
  <2>5. /\ f.kind = "event" /\ f.id = e.id /\ f.n = e.n /\ e.n = Ui!Happened(e.id, p + 1)
        /\ e.n \in Numbers
    BY <1>3, <2>1, <2>3, <2>4 DEF Numbered, Event
  <2>6. /\ session'.next - 1 = p + 1 /\ session'.open = session.open
        /\ session'.subscribed = session.subscribed
    <3>1. PICK q \in Nat : q = p + 2
      OBVIOUS
    <3>2. session' = [session EXCEPT !.next = q]
      BY <1>8, <2>1, <3>1
    <3> QED BY <1>8, <3>1, <3>2
  <2>7. /\ e.id # id => Ui!Happened(id, p + 1) = h
        /\ e.id = id => Ui!Happened(id, p + 1) = h + 1
    <3>1. PICK q \in Nat : q = p + 1 /\ q - 1 = p /\ q > 0 /\ q \in 0 .. size
      BY <2>1
    <3>2. /\ log[q].id # id => Ui!Happened(id, q) = Ui!Happened(id, q - 1)
          /\ log[q].id = id => Ui!Happened(id, q) = Ui!Happened(id, q - 1) + 1
      BY <1>2, <1>3, <3>1, HappenedCounts
    <3> QED BY <1>4, <2>3, <3>1, <3>2
  <2>8. CASE e.id = id
    <3>1. Tells(f, id, y, y + 1) /\ y + 1 \in 0 .. Ui!LastEvent /\ y <= y + 1 /\ y + 1 # 0
      BY <1>2, <1>5, <2>2, <2>5, <2>7, <2>8 DEF Tells, Numbers
    <3>2. Leads(wire', id, x, y + 1)
      BY <1>1, <1>2, <2>4, <3>1, LeadsMore
    <3>3. AtSession(id, y + 1)'
      BY <1>7, <2>1, <2>2, <2>6, <2>7, <2>8, <3>1, SessionThen
    <3> QED BY <1>1, <2>1, <3>2, <3>3, FollowedThen
  <2>9. CASE e.id # id
    <3>1. Tells(f, id, y, y) /\ y <= y
      BY <1>5, <2>5, <2>9 DEF Tells
    <3>2. Leads(wire', id, x, y)
      BY <1>1, <1>2, <1>5, <2>4, <3>1, LeadsMore
    <3>3. AtSession(id, y)'
      BY <1>6, <1>7, <2>1, <2>6, <2>7, <2>9, SessionThen
    <3> QED BY <1>1, <2>1, <3>2, <3>3, FollowedThen
  <2> QED BY <2>8, <2>9
<1> QED BY <1>9, <1>10, <1>11, <1>12, <1>13, <1>14, <1>15 DEF Ui!Server, Ui!SessionStep

\* A frame read takes the browser on, to the record of more events.
LEMMA FrameRead ==
  ASSUME UiConstants, UiTyped, NEW id \in TraceIds, id \notin doubtful', Ui!TakeEvent
         \/ Ui!TakeSnapshot,
         NEW x, NEW y, Leads(wire, id, x, y), records[id] = Shown(x)
  PROVE  \E z \in 0 .. Ui!LastEvent : x <= z /\ Leads(wire', id, z, y) /\ records'[id] = Shown(z)
<1>1. wire \in Seq(Frame) /\ Ui!LastEvent \in Nat /\ wire # << >> /\ wire' = Tail(wire)
  BY DEF UiTyped, UiConstants, Ui!LastEvent, Ui!TakeEvent, Ui!TakeSnapshot
<1>2. x \in 0 .. Ui!LastEvent
  BY <1>1, LeadsUp
<1>3. PICK z \in 0 .. Ui!LastEvent : Tells(Head(wire), id, x, z) /\ x <= z /\ Leads(wire', id, z, y)
  BY <1>1, LeadsLess
<1>4. CASE Ui!TakeEvent
  <2>1. PICK a, n : a = Head(wire).id /\ n = Head(wire).n
    OBVIOUS
  <2>2. /\ a \in TraceIds /\ n \in Numbers /\ Head(wire).kind = "event"
        /\ a # id => records'[id] = records[id]
        /\ a \notin doubtful' /\ Ui!Patched(records[a], n).url =>
             records'[a] = Ui!Patched(records[a], n)
    BY <1>4, <2>1, EventTaken
  <2>3. CASE a = id
    <3>1. n = x + 1 /\ z = x + 1
      BY <1>3, <2>1, <2>2, <2>3 DEF Tells
    <3>2. Ui!Patched(Shown(x), n) = Shown(n) /\ Ui!Patched(Shown(x), n).url
      BY <1>2, <2>2, <3>1, PatchedIsNext
    <3>3. records'[id] = Shown(z)
      BY <2>2, <2>3, <3>1, <3>2
    <3> QED BY <1>3, <3>3
  <2>4. CASE a # id
    <3>1. records'[id] = Shown(z)
      BY <1>3, <2>1, <2>2, <2>4 DEF Tells
    <3> QED BY <1>3, <3>1
  <2> QED BY <2>3, <2>4
<1>5. CASE Ui!TakeSnapshot
  <2>1. PICK seen : seen = Head(wire).seen
    OBVIOUS
  <2>2. /\ Head(wire) \in Frame /\ Head(wire).kind = "snapshot"
        /\ records'[id] = IF id \in DOMAIN seen THEN Ui!Cached(records[id], seen[id])
             ELSE records[id]
    BY <1>5, <2>1, SnapshotTaken
  <2>3. CASE id \in DOMAIN seen
    <3>1. seen[id] = z /\ x \in {0, z} /\ z \in Numbers
      BY <1>3, <2>1, <2>2, <2>3, FrameFields DEF Tells
    <3>2. records'[id] = Shown(z)
      BY <2>2, <2>3, <3>1, CachedIsShown
    <3> QED BY <1>3, <3>2
  <2>4. CASE id \notin DOMAIN seen
    <3>1. records'[id] = Shown(z)
      BY <1>3, <2>1, <2>2, <2>4 DEF Tells
    <3> QED BY <1>3, <3>1
  <2> QED BY <2>3, <2>4
<1> QED BY <1>4, <1>5

\* The steps of the browser, of its user and of the network.
LEMMA FollowedByBrowser ==
  ASSUME UiConstants, UiTyped, NEW id \in TraceIds, id \notin doubtful', Followed(id),
         Ui!Browser \/ Ui!User \/ Ui!Break
  PROVE  Followed(id)'
<1>1. PICK x, y : Leads(wire, id, x, y) /\ records[id] = Shown(x) /\ AtSession(id, y)
  BY DEF Followed
<1>2. wire \in Seq(Frame) /\ Ui!LastEvent \in Nat
  BY DEF UiTyped, UiConstants, Ui!LastEvent
<1>3. x \in 0 .. Ui!LastEvent /\ y \in 0 .. Ui!LastEvent /\ x <= y
  BY <1>1, <1>2, LeadsUp
<1>4. UNCHANGED <<log, handed, session>> => AtSession(id, y)'
  BY <1>1 DEF AtSession, Ui!Happened
<1>5. CASE Ui!TakeEvent \/ Ui!TakeSnapshot
  <2>1. PICK z \in 0 .. Ui!LastEvent : Leads(wire', id, z, y) /\ records'[id] = Shown(z)
    BY <1>1, <1>5, FrameRead
  <2> QED BY <1>4, <1>5, <2>1, FollowedThen DEF Ui!TakeEvent, Ui!TakeSnapshot
<1>6. CASE Ui!DropEvent
  <2>1. PICK z \in 0 .. Ui!LastEvent : Tells(Head(wire), id, x, z) /\ Leads(wire', id, z, y)
    BY <1>1, <1>2, <1>6, LeadsLess DEF Ui!DropEvent
  <2>2. z = x
    BY <1>6, <2>1 DEF Ui!DropEvent, Tells
  <2> QED BY <1>1, <1>4, <1>6, <2>1, <2>2, FollowedThen DEF Ui!DropEvent, Ui!browser
<1>7. CASE Ui!StartStream \/ Ui!StopStream
  BY <1>1, <1>4, <1>7, FollowedThen DEF Ui!StartStream, Ui!StopStream
<1>8. CASE Ui!Clear
  <2>1. records[id] = Nothing /\ records'[id] = Nothing
    BY <1>8 DEF Ui!Clear
  <2>2. x = 0
    <3> SUFFICES ASSUME x # 0 PROVE FALSE
      OBVIOUS
    <3>1. x \in Numbers
      BY <1>2, <1>3 DEF Numbers
    <3> QED BY <1>1, <2>1, <3>1, ShownFields
  <2>3. records'[id] = Shown(x)
    BY <2>1, <2>2 DEF Shown
  <2> QED BY <1>1, <1>4, <1>8, <2>3, FollowedThen DEF Ui!Clear
<1>9. CASE Ui!Break
  <2>1. PICK size \in Nat, p \in Nat : size = Len(log) /\ p = session.next - 1 /\ p \in 0 .. size
    BY Positions
  <2>2. PICK h \in Nat, all \in Nat : /\ h = Ui!Happened(id, p) /\ all = Ui!Happened(id, size)
                                      /\ h <= all
    <3>1. size \in 0 .. Len(log)
      BY <2>1
    <3>2. Ui!Happened(id, size) \in Nat
      BY <2>1, <3>1, HappenedCounts DEF UiTyped
    <3> QED BY <2>1, <3>2, Positions
  <2>3. all = 0
    BY <1>9, <2>1, <2>2 DEF Ui!Break
  <2>4. /\ y = 0 => id \notin handed
        /\ y # 0 => y = h
    BY <1>1, <2>1, <2>2, SessionNow
  <2>5. y = 0 /\ x = 0
    BY <1>3, <2>2, <2>3, <2>4
  <2>6. Leads(wire', id, x, y)
    BY <1>3, <1>9, <2>5, LeadsNowhere DEF Ui!Break
  <2>7. session'.open = FALSE /\ handed' = handed /\ session'.next - 1 = 0
    BY <1>9 DEF Ui!Break, Ui!Closed
  <2>8. PICK h0 : Ui!Happened(id, 0)' = h0
    OBVIOUS
  <2>9. AtSession(id, y)'
    BY <2>4, <2>5, <2>7, <2>8, SessionThen
  <2> QED BY <1>1, <1>9, <2>6, <2>9, FollowedThen DEF Ui!Break
<1> QED BY <1>5, <1>6, <1>7, <1>8, <1>9 DEF Ui!Browser, Ui!User

LEMMA UiInvInit ==
  ASSUME UiConstants, Ui!Init
  PROVE  UiInv
<1>1. /\ log = << >> /\ stored = 0 /\ handed = {}
      /\ session = [open |-> FALSE, subscribed |-> FALSE, next |-> 1]
      /\ wire = << >> /\ listening = FALSE /\ doubtful = {} /\ Ui!LastEvent \in Nat
  BY DEF Ui!Init, Ui!Closed, UiConstants, Ui!LastEvent
<1>2. Listed(Ui!List)
  <2>1. Ui!List = [order |-> << >>, records |-> [id \in TraceIds |-> Nothing], gone |-> {}]
    BY DEF Ui!Init, Ui!List
  <2>2. /\ << >> \in Seq(TraceIds)
        /\ [id \in TraceIds |-> Nothing] \in [TraceIds -> Record \cup {Nothing}]
        /\ Len(<< >>) = 0 /\ MaxLogSize \in Nat
    BY DEF UiConstants
  <2> QED BY <2>1, <2>2 DEF Listed, Distinct, Lists
<1>3. UiTyped
  <2>1. log \in Seq(Event) /\ stored \in 0 .. Len(log)
    BY <1>1
  <2>2. /\ session \in [open : BOOLEAN, subscribed : BOOLEAN, next : Nat]
        /\ session.next \in 1 .. Len(log) + 1
    BY <1>1
  <2>3. wire \in Seq(Frame)
    BY <1>1
  <2>4. handed \in SUBSET TraceIds /\ doubtful \in SUBSET TraceIds /\ listening \in BOOLEAN
    BY <1>1
  <2> QED BY <1>2, <2>1, <2>2, <2>3, <2>4 DEF UiTyped
<1>4. \A id : Ui!Happened(id, 0) = 0
  BY <1>3, HappenedCounts, <1>1 DEF Ui!Between
<1>5. Numbered
  BY <1>1, <1>4 DEF Numbered
<1>6. ASSUME NEW id \in TraceIds PROVE Followed(id)
  <2>1. Leads(wire, id, 0, 0)
    BY <1>1, LeadsNowhere
  <2>2. records[id] = Shown(0)
    BY DEF Ui!Init, Shown
  <2>3. AtSession(id, 0)
    BY <1>1 DEF AtSession
  <2> QED BY <2>1, <2>2, <2>3 DEF Followed
<1> QED BY <1>3, <1>5, <1>6 DEF UiInv, Faithful

LEMMA UiInvStep ==
  ASSUME UiConstants, UiInv, [Ui!Next]_(Ui!vars)
  PROVE  UiInv'
<1>1. UiTyped /\ Numbered /\ Faithful
  BY DEF UiInv
<1>2. UiTyped' /\ Numbered'
  BY <1>1, UiTypedStep, NumberedStep
<1>3. ASSUME NEW id \in TraceIds, id \notin doubtful' PROVE Followed(id)'
  <2>1. Followed(id)
    BY <1>1, <1>3, DoubtsStay DEF Faithful
  <2>2. CASE Ui!Publish \/ Ui!Server
    BY <1>1, <1>3, <2>1, <2>2, FollowedByServer
  <2>3. CASE Ui!Browser \/ Ui!User \/ Ui!Break
    BY <1>1, <1>3, <2>1, <2>3, FollowedByBrowser
  <2>4. CASE UNCHANGED Ui!vars
    <3>1. PICK x, y : Leads(wire, id, x, y) /\ records[id] = Shown(x) /\ AtSession(id, y)
      BY <2>1 DEF Followed
    <3>2. AtSession(id, y)'
      BY <2>4, <3>1 DEF Ui!vars, AtSession, Ui!Happened
    <3> QED BY <2>4, <3>1, <3>2, FollowedThen DEF Ui!vars, Ui!browser
  <2> QED BY <2>2, <2>3, <2>4 DEF Ui!Next
<1>4. Faithful'
  BY <1>3 DEF Faithful
<1> QED BY <1>2, <1>4 DEF UiInv

-----------------------------------------------------------------------------
(***************************************************************************)
(* What follows from it.                                                   *)
(***************************************************************************)
LEMMA UiInvIsTyped ==
  ASSUME UiConstants, UiInv
  PROVE  Ui!TypeOK
<1>1. UiTyped
  BY DEF UiInv
<1>2. Listed(Ui!List) /\ Ui!List.records = records
  BY <1>1 DEF UiTyped, Ui!List
<1>3. \A id \in TraceIds : records[id] \in Record \cup {Nothing}
  BY <1>2 DEF Listed, Distinct, Lists
<1>4. \A r \in Record : DOMAIN r = DOMAIN Ui!Blank
  BY DEF Record, Ui!Blank
<1> QED BY <1>1, <1>3, <1>4 DEF UiTyped, Ui!TypeOK

LEMMA UiInvIsListed ==
  ASSUME UiConstants, UiInv
  PROVE  Ui!ListIsShown
<1>1. PICK l : l = Ui!List
  OBVIOUS
<1>2. Listed(l) /\ l.order = order /\ l.records = records
  BY <1>1 DEF UiInv, UiTyped, Ui!List
<1>3. PICK size \in Nat : size = Len(order) /\ size <= MaxLogSize /\ order \in Seq(TraceIds)
  BY <1>2 DEF Listed, Distinct, Lists
<1>4. \A i, j \in 1 .. size : order[i] = order[j] => i = j
  BY <1>2, <1>3 DEF Listed, Distinct
<1>5. order \in [1 .. size -> Ui!Range(order)] /\ DOMAIN order = 1 .. size
  BY <1>3 DEF Ui!Range
<1>6. /\ order \in Surjection(1 .. size, Ui!Range(order))
      /\ order \in Injection(1 .. size, Ui!Range(order))
  BY <1>4, <1>5 DEF Surjection, Injection, IsInjective, Ui!Range
<1>7. IsFiniteSet(1 .. size) /\ Cardinality(1 .. size) = size
  BY FS_Interval
<1>8. Cardinality(Ui!Range(order)) = size
  BY <1>6, <1>7, FS_Surjection
<1>9. ASSUME NEW id \in Ui!Range(order) PROVE records[id] # Nothing /\ records[id].url
  <2>1. PICK i \in 1 .. size : order[i] = id
    BY <1>5 DEF Ui!Range
  <2> QED BY <1>2, <1>3, <2>1 DEF Listed, Distinct, Listable
<1> QED BY <1>3, <1>8, <1>9, UiSizes DEF Ui!ListIsShown

LEMMA FollowedIsAStart ==
  ASSUME UiConstants, UiInv
  PROVE  Ui!BodyIsAStart
<1> SUFFICES ASSUME NEW id \in TraceIds \ doubtful, records[id] # Nothing
             PROVE  records[id].chunks = [i \in 1 .. Len(records[id].chunks) |-> i + 2]
  BY DEF Ui!BodyIsAStart
<1>1. PICK x, y : Leads(wire, id, x, y) /\ records[id] = Shown(x)
  BY DEF UiInv, Faithful, Followed
<1>2. x \in Numbers
  <2>1. x \in 0 .. Ui!LastEvent /\ Ui!LastEvent \in Nat
    BY <1>1, LeadsUp DEF UiInv, UiTyped, UiConstants, Ui!LastEvent
  <2>2. x # 0
    BY <1>1 DEF Shown
  <2> QED BY <2>1, <2>2 DEF Numbers
<1>3. PICK c : c = Ui!CachedChunks(x)
  OBVIOUS
<1>4. c = [i \in 1 .. Len(c) |-> i + 2] /\ records[id].chunks = c
  BY <1>1, <1>2, <1>3, ChunksAreNumbers, ShownFields
<1> QED BY <1>4

LEMMA FollowedNeverBack ==
  ASSUME UiConstants, UiInv, [Ui!Next]_(Ui!vars)
  PROVE  Ui!NoStepBack
<1> SUFFICES ASSUME NEW id \in TraceIds, id \notin doubtful', records[id] # Nothing,
                    records[id].status = "success"
             PROVE  records'[id] # Nothing /\ records'[id].status = "success"
  BY DEF Ui!NoStepBack
<1>1. UiTyped /\ id \notin doubtful
  BY DoubtsStay DEF UiInv
<1>2. PICK x, y : Leads(wire, id, x, y) /\ records[id] = Shown(x)
  BY <1>1 DEF UiInv, Faithful, Followed
<1>3. x \in 0 .. Ui!LastEvent /\ Ui!LastEvent \in Nat
  BY <1>1, <1>2, LeadsUp DEF UiTyped, UiConstants, Ui!LastEvent
<1>4. x \in Numbers /\ x >= 2
  <2>1. x # 0
    BY <1>2 DEF Shown
  <2>2. x \in Numbers
    BY <1>3, <2>1 DEF Numbers
  <2>3. Shown(x).status = (IF x >= 2 THEN "success" ELSE "pending")
    BY <2>2, ShownFields
  <2> QED BY <1>2, <2>2, <2>3
<1>5. CASE Ui!TakeEvent \/ Ui!TakeSnapshot
  <2>1. PICK z \in 0 .. Ui!LastEvent : x <= z /\ records'[id] = Shown(z)
    BY <1>1, <1>2, <1>5, FrameRead
  <2>2. z \in Numbers /\ z >= 2
    BY <1>3, <1>4, <2>1 DEF Numbers
  <2> QED BY <2>1, <2>2, ShownFields
<1>6. CASE Ui!Clear
  BY <1>1, <1>6 DEF Ui!Clear
<1>7. CASE ~Ui!TakeEvent /\ ~Ui!TakeSnapshot /\ ~Ui!Clear
  <2>1. records' = records
    BY <1>7 DEF Ui!Next, Ui!Server, Ui!SessionStep, Ui!Browser, Ui!User, Ui!Publish, Ui!StoreEvent,
      Ui!Connect, Ui!Subscribe, Ui!Unsubscribe, Ui!Lagged, Ui!Forward, Ui!DropEvent, Ui!StartStream,
      Ui!StopStream, Ui!Break, Ui!vars, Ui!browser
  <2> QED BY <2>1
<1> QED BY <1>5, <1>6, <1>7

\* The log, what the server follows, the connection and the browser's records keep their types,
\* for any exchanges and sizes (stream_logs, request-stream.store.ts).
THEOREM UiTypeCorrect ==
  ASSUME UiConstants
  PROVE  Ui!Spec => []Ui!TypeOK
<1>1. Ui!Init => UiInv
  BY UiInvInit
<1>2. UiInv /\ [Ui!Next]_(Ui!vars) => UiInv'
  BY UiInvStep
<1>3. UiInv => Ui!TypeOK
  BY UiInvIsTyped
<1> QED BY <1>1, <1>2, <1>3, PTL DEF Ui!Spec

\* The request list holds each exchange once, at most maxLogSize of them, and each with a record
\* (promoteToList, trimToMaxLogSize), whatever the socket lost, repeated or brought late.
THEOREM UiList ==
  ASSUME UiConstants
  PROVE  Ui!Spec => []Ui!ListIsShown
<1>1. Ui!Init => UiInv
  BY UiInvInit
<1>2. UiInv /\ [Ui!Next]_(Ui!vars) => UiInv'
  BY UiInvStep
<1>3. UiInv => Ui!ListIsShown
  BY UiInvIsListed
<1> QED BY <1>1, <1>2, <1>3, PTL DEF Ui!Spec

\* For an exchange the browser has not lost the thread of, the body shown is a beginning of the
\* body that was transferred and an answer shown stays shown (applyEvent, applyCachedSnapshot;
\* handle_traces), for any exchanges and toggles and lost connections without bound.
THEOREM UiFaithful ==
  ASSUME UiConstants
  PROVE  Ui!Spec => Ui!ShownFaithfully
<1>1. Ui!Init => UiInv
  BY UiInvInit
<1>2. UiInv /\ [Ui!Next]_(Ui!vars) => UiInv'
  BY UiInvStep
<1>3. UiInv => Ui!BodyIsAStart
  BY FollowedIsAStart
<1>4. UiInv /\ [Ui!Next]_(Ui!vars) => Ui!NoStepBack
  BY FollowedNeverBack
<1> QED BY <1>1, <1>2, <1>3, <1>4, PTL DEF Ui!Spec, Ui!ShownFaithfully

-----------------------------------------------------------------------------
CONSTANTS RuleLists, ClientRequests, Answers, Frames, Absent
VARIABLES stage, rules, todo, req, resp, waited, asked, flight, sent, clock, original

Req == INSTANCE RequestProcessing WITH Requests <- ClientRequests

(***************************************************************************)
(* One request under the rules.                                            *)
(***************************************************************************)
Texts == STRING
Pages ==
  {"", "error", "blocked", "offline", "File not found", "Path is not a file", "Failed to read file"}
Writers == {"nobody", "upstream", "error", "block", "localFile", "throttle"}
Options == Texts \cup {Absent}
Messages == [text : Texts \cup Pages, tags : Nat, enc : Options]
Responses ==
  [by : Writers, html : BOOLEAN, encoding : Options, chunked : BOOLEAN,
   length : Messages \cup {Absent}, body : Messages, ends : BOOLEAN, rates : Seq(Nat \ {0})]
Uris == [scheme : Texts, authority : Texts, path : Seq(Texts), query : Options \cup {""}]
Urls == [scheme : Options, authority : Options, path : Seq(Texts) \cup {Absent}, query : Options]
RequestsOfClients == [uri : Uris, length : Messages \cup {Absent}, body : Messages]

Blocks == [kind : {"block"}, order : Int, enabled : BOOLEAN, invalid : BOOLEAN]
LocalFiles == [kind : {"localFile"}, order : Int, enabled : BOOLEAN, file : Texts]
RequestChanges ==
  [kind : {"modifyRequest"}, order : Int, enabled : BOOLEAN, body : Options, url : Urls \cup {Absent}]
ResponseChanges == [kind : {"modifyResponse"}, order : Int, enabled : BOOLEAN, body : Options]
Injectors == [kind : {"htmlScriptInjector"}, order : Int, enabled : BOOLEAN, blank : BOOLEAN]
Forwards ==
  [kind : {"proxyForward"}, order : Int, enabled : BOOLEAN, scheme : Options, authority : Options,
   path : Options]
Delays ==
  [kind : {"delay"}, order : Int, enabled : BOOLEAN, ms : Nat, variance : Nat,
   type : {"before", "after", "both"}]
Throttles ==
  [kind : {"throttle"}, order : Int, enabled : BOOLEAN, offline : BOOLEAN, latency : Nat, download : Nat]
Handlers ==
  Blocks \cup LocalFiles \cup RequestChanges \cup ResponseChanges \cup Injectors \cup Forwards
  \cup Delays \cup Throttles
Rules ==
  [id : Int, priority : Int, enabled : BOOLEAN, matches : BOOLEAN, handlers : Seq(Handlers)]

\* Headers that say of the body what it is.
Described(r) ==
  /\ r.encoding = r.body.enc
  /\ r.length \in {Absent, r.body}
  /\ r.chunked => r.length = Absent

\* Rules as the store and the converters give them, answers with headers that describe
\* their bodies, no body in the place of None.
ProcessingConstants ==
  /\ RuleLists \subseteq Seq(Rules)
  /\ ClientRequests \subseteq RequestsOfClients
  /\ Answers \subseteq {r \in Responses : r.by = "upstream" /\ r.rates = << >> /\ Described(r)}
  /\ Frames \in Seq(Nat)
  /\ Absent \notin Messages /\ Absent \notin [length : Nat, passed : Nat]
  /\ Absent \notin Seq(Texts) /\ Absent \notin Urls /\ Absent \notin Req!Decoders

Stages == {"lookup", "request", "response", "deliver", "done", "broken"}
RequestTyped ==
  /\ stage \in Stages
  /\ rules \in Seq(Rules)
  /\ todo \in Seq(Handlers)
  /\ req \in RequestsOfClients /\ original \in RequestsOfClients
  /\ resp \in Responses
  /\ waited \in Nat /\ clock \in Nat
  /\ asked \subseteq RequestsOfClients
  /\ flight \in [length : Nat, passed : Nat] \cup {Absent}
  /\ sent \in Seq(Nat)

\* The handlers of this direction that have run are the first so many.
Handled == Len(Req!Run) - Len(todo)
Queue ==
  /\ stage \notin {"request", "response"} => todo = << >>
  /\ Handled >= 0
  /\ \A k \in DOMAIN todo : todo[k] = Req!Run[Handled + k]

HeadersInv ==
  stage \in {"response", "deliver"} =>
    \/ Described(resp)
    \/ \E i \in 1 .. Handled :
         /\ Req!Run[i].kind = "htmlScriptInjector"
         /\ resp.body = Req!NoBody \/ (Req!Run[i].blank /\ resp.encoding \in Req!Decoders /\ resp.body.enc = Absent)

\* Who has answered.
Deciding ==
  /\ stage \in {"lookup", "request"} => asked = {}
  /\ stage = "request" => \A j \in 1 .. Handled : ~Req!Answering(Req!Run[j])
  /\ stage = "response" => resp.by = "upstream"
  /\ stage \notin {"lookup", "request"} =>
       \/ /\ \A j \in DOMAIN Req!Run : ~Req!Answering(Req!Run[j])
          /\ asked = {req} /\ resp.by \in {"upstream", "error"}
       \/ /\ asked = {} /\ stage # "response"
          /\ \E i \in DOMAIN Req!Run :
               /\ Req!Answering(Req!Run[i]) /\ \A j \in 1 .. i - 1 : ~Req!Answering(Req!Run[j])
               /\ resp.by \in {Req!Run[i].kind, "error"}

Names(i, f) == i \in Req!Naming(Req!Run, f)
Writes(i) == Names(i, "path") /\ Req!Run[i].kind = "modifyRequest"

\* What the first n handlers have made of the address.
AddressedBy(uri, n) ==
  /\ \A f \in {"scheme", "authority"} :
       \/ uri[f] = original.uri[f] /\ \A j \in 1 .. n : ~Names(j, f)
       \/ \E i \in 1 .. n :
            /\ Names(i, f) /\ \A j \in i + 1 .. n : ~Names(j, f)
            /\ uri[f] = Req!Named(Req!Run[i], f)
  /\ \/ Req!IsSuffix(original.uri.path, uri.path) /\ \A j \in 1 .. n : ~Writes(j)
     \/ \E i \in 1 .. n :
          /\ Writes(i) /\ \A j \in i + 1 .. n : ~Writes(j)
          /\ Req!IsSuffix(Req!Run[i].url.path, uri.path)

Addressed ==
  /\ stage = "lookup" => req = original
  /\ stage = "request" => AddressedBy(req.uri, Handled)
  /\ \A r \in asked : AddressedBy(r.uri, Len(Req!Run))

\* What a handler may have waited for at most, and has at least, on the way out and back.
MostOut(h) ==
  CASE h.kind = "delay" -> (CASE h.type = "before" -> h.ms + h.variance
                              [] h.type = "both" -> (h.ms + h.variance) \div 2
                              [] OTHER -> 0)
    [] h.kind = "throttle" -> h.latency
    [] OTHER -> 0
LeastOut(h) ==
  CASE h.kind = "delay" -> (CASE h.type = "before" -> Req!Max2(0, h.ms - h.variance)
                              [] h.type = "both" -> Req!Max2(0, h.ms - h.variance) \div 2
                              [] OTHER -> 0)
    [] h.kind = "throttle" -> h.latency
    [] OTHER -> 0
MostBack(h) ==
  CASE h.kind = "delay" -> (CASE h.type = "after" -> h.ms + h.variance
                              [] h.type = "both" -> (h.ms + h.variance) \div 2
                              [] OTHER -> 0)
    [] OTHER -> 0
LeastBack(h) ==
  CASE h.kind = "delay" -> (CASE h.type = "after" -> Req!Max2(0, h.ms - h.variance)
                              [] h.type = "both" -> Req!Max2(0, h.ms - h.variance) \div 2
                              [] OTHER -> 0)
    [] OTHER -> 0

\* All that the handlers wait for when n of them have run on the way out and m on the way back.
MostAfter(run, n, m) ==
  Req!Sum([i \in DOMAIN run |->
    (IF i <= n THEN MostOut(run[i]) ELSE 0) + (IF i <= m THEN MostBack(run[i]) ELSE 0)])
LeastAfter(run, n, m) ==
  Req!Sum([i \in DOMAIN run |->
    (IF i <= n THEN LeastOut(run[i]) ELSE 0) + (IF i <= m THEN LeastBack(run[i]) ELSE 0)])

Waits ==
  /\ stage = "lookup" => waited = 0
  /\ stage = "request" => LeastAfter(Req!Run, Handled, 0) <= waited /\ waited <= MostAfter(Req!Run, Handled, 0)
  /\ stage = "response" =>
       /\ LeastAfter(Req!Run, Len(Req!Run), Handled) <= waited
       /\ waited <= MostAfter(Req!Run, Len(Req!Run), Handled)
  /\ stage \in {"deliver", "done"} =>
       /\ waited <= MostAfter(Req!Run, Len(Req!Run), Len(Req!Run))
       /\ resp.by = "upstream" => LeastAfter(Req!Run, Len(Req!Run), Len(Req!Run)) <= waited

\* A frame that has passed the body with rate i counts for it.
Passed(i) == flight # Absent /\ flight.passed >= i
PacedSoFar ==
  \A i \in DOMAIN resp.rates :
    (clock + Len(sent) + (IF Passed(i) THEN 1 ELSE 0)) * resp.rates[i] >=
      1000 * (Req!Sum(sent) + IF Passed(i) THEN flight.length ELSE 0)

Delivery ==
  /\ stage \in {"lookup", "request", "response"} => flight = Absent /\ sent = << >> /\ clock = 0
  /\ Req!Pulled <= Len(Frames)
  /\ stage \in {"deliver", "done", "broken"} => Req!Pulled <= Len(Req!Coming)
  /\ \A k \in DOMAIN sent : sent[k] = Frames[k]
  /\ flight # Absent => flight.length = Frames[Len(sent) + 1] /\ flight.passed <= Len(resp.rates)
  /\ PacedSoFar
  /\ Req!WholeBody

\* What is sent has been paced, whatever the frame on its way has slept.
SentPaced == \A i \in DOMAIN resp.rates : Req!PacedAt(resp.rates[i])

ProcessingInv ==
  RequestTyped /\ Queue /\ HeadersInv /\ Deciding /\ Addressed /\ Waits /\ Delivery /\ SentPaced

-----------------------------------------------------------------------------
\* A handler has the fields of its kind.
LEMMA HandlersHaveKinds ==
  ASSUME NEW h \in Handlers
  PROVE  /\ h.order \in Int /\ h.enabled \in BOOLEAN
         /\ h.kind = "block" => h \in Blocks
         /\ h.kind = "localFile" => h \in LocalFiles
         /\ h.kind = "modifyRequest" => h \in RequestChanges
         /\ h.kind = "modifyResponse" => h \in ResponseChanges
         /\ h.kind = "htmlScriptInjector" => h \in Injectors
         /\ h.kind = "proxyForward" => h \in Forwards
         /\ h.kind = "delay" => h \in Delays
         /\ h.kind = "throttle" => h \in Throttles
         /\ h.kind \in {"block", "localFile", "modifyRequest", "modifyResponse", "htmlScriptInjector",
                        "proxyForward", "delay", "throttle"}
<1>1. h.order \in Int /\ h.enabled \in BOOLEAN
  BY Zenon DEF Handlers, Blocks, LocalFiles, RequestChanges, ResponseChanges, Injectors, Forwards,
    Delays,
    Throttles
<1>2. \/ h.kind = "block" /\ h \in Blocks
      \/ h.kind = "localFile" /\ h \in LocalFiles
      \/ h.kind = "modifyRequest" /\ h \in RequestChanges
      \/ h.kind = "modifyResponse" /\ h \in ResponseChanges
      \/ h.kind = "htmlScriptInjector" /\ h \in Injectors
      \/ h.kind = "proxyForward" /\ h \in Forwards
      \/ h.kind = "delay" /\ h \in Delays
      \/ h.kind = "throttle" /\ h \in Throttles
  BY DEF Handlers, Blocks, LocalFiles, RequestChanges, ResponseChanges, Injectors, Forwards, Delays,
    Throttles
<1> QED BY <1>1, <1>2

\* A place is that of a handler of a rule.
LEMMA PlacesAreThere ==
  ASSUME NEW rs \in Seq(Rules), NEW p \in Req!AllHandlers(rs)
  PROVE  /\ p[1] \in DOMAIN rs /\ p[2] \in DOMAIN rs[p[1]].handlers
         /\ p[1] \in Nat /\ p[2] \in Nat /\ p = <<p[1], p[2]>>
         /\ Req!HandlerAt(rs, p) \in Handlers /\ Req!HandlerAt(rs, p).order \in Int
         /\ rs[p[1]].priority \in Int /\ rs[p[1]].id \in Int
<1>1. PICK i \in Req!MatchingRules(rs) : p \in {i} \X DOMAIN rs[i].handlers
  BY DEF Req!AllHandlers
<1>2. /\ p[1] = i /\ p[2] \in DOMAIN rs[i].handlers /\ p = <<p[1], p[2]>>
  BY <1>1
<1>3. i \in DOMAIN rs /\ i \in Nat
  BY <1>1 DEF Req!MatchingRules
<1>4. rs[i] \in Rules
  BY <1>3
<1>5. rs[i].handlers \in Seq(Handlers) /\ rs[i].priority \in Int /\ rs[i].id \in Int
  BY <1>4 DEF Rules
<1>6. rs[i].handlers[p[2]] \in Handlers /\ p[2] \in Nat
  BY <1>2, <1>5
<1>7. Req!HandlerAt(rs, p) = rs[i].handlers[p[2]]
  BY <1>2 DEF Req!HandlerAt
<1> QED BY <1>2, <1>3, <1>5, <1>6, <1>7, HandlersHaveKinds

\* RunsBefore is a total order of the places.
LEMMA NoneRunsBeforeItself ==
  ASSUME NEW rs \in Seq(Rules), NEW p \in Req!AllHandlers(rs)
  PROVE  ~Req!RunsBefore(rs, p, p)
BY PlacesAreThere DEF Req!RunsBefore, Req!CollectedBefore, Req!Precedes

LEMMA OneRunsFirst ==
  ASSUME NEW rs \in Seq(Rules), NEW p \in Req!AllHandlers(rs), NEW q \in Req!AllHandlers(rs), p # q
  PROVE  Req!RunsBefore(rs, p, q) \/ Req!RunsBefore(rs, q, p)
<1>1. p[1] # q[1] \/ p[2] # q[2]
  BY PlacesAreThere
<1> QED BY <1>1, PlacesAreThere DEF Req!RunsBefore, Req!CollectedBefore, Req!Precedes

LEMMA OrderGoesOn ==
  ASSUME NEW rs \in Seq(Rules), NEW p \in Req!AllHandlers(rs), NEW q \in Req!AllHandlers(rs),
         NEW r \in Req!AllHandlers(rs), Req!RunsBefore(rs, p, q), Req!RunsBefore(rs, q, r)
  PROVE  Req!RunsBefore(rs, p, r)
<1>1. PICK po \in Int, pp \in Int, pi \in Int, pa \in Nat, pb \in Nat :
        /\ po = Req!HandlerAt(rs, p).order /\ pp = rs[p[1]].priority /\ pi = rs[p[1]].id
        /\ pa = p[1] /\ pb = p[2]
  BY PlacesAreThere
<1>2. PICK qo \in Int, qp \in Int, qi \in Int, qa \in Nat, qb \in Nat :
        /\ qo = Req!HandlerAt(rs, q).order /\ qp = rs[q[1]].priority /\ qi = rs[q[1]].id
        /\ qa = q[1] /\ qb = q[2]
  BY PlacesAreThere
<1>3. PICK ro \in Int, rp \in Int, ri \in Int, ra \in Nat, rb \in Nat :
        /\ ro = Req!HandlerAt(rs, r).order /\ rp = rs[r[1]].priority /\ ri = rs[r[1]].id
        /\ ra = r[1] /\ rb = r[2]
  BY PlacesAreThere
<1>4. po < qo \/ (po = qo /\ (\/ pp > qp \/ (pp = qp /\ pi < qi)
                              \/ ~(qp > pp \/ (qp = pp /\ qi < pi)) /\ (pa < qa \/ (pa = qa /\ pb < qb))))
  BY <1>1, <1>2 DEF Req!RunsBefore, Req!CollectedBefore, Req!Precedes
<1>5. qo < ro \/ (qo = ro /\ (\/ qp > rp \/ (qp = rp /\ qi < ri)
                              \/ ~(rp > qp \/ (rp = qp /\ ri < qi)) /\ (qa < ra \/ (qa = ra /\ qb < rb))))
  BY <1>2, <1>3 DEF Req!RunsBefore, Req!CollectedBefore, Req!Precedes
<1>6. po < ro \/ (po = ro /\ (\/ pp > rp \/ (pp = rp /\ pi < ri)
                              \/ ~(rp > pp \/ (rp = pp /\ ri < pi)) /\ (pa < ra \/ (pa = ra /\ pb < rb))))
  BY <1>4, <1>5
<1> QED BY <1>1, <1>3, <1>6 DEF Req!RunsBefore, Req!CollectedBefore, Req!Precedes

\* A list of rules has finitely many handlers.
LEMMA HandlersAreFinite ==
  ASSUME NEW rs \in Seq(Rules)
  PROVE  IsFiniteSet(Req!AllHandlers(rs)) /\ Cardinality(Req!AllHandlers(rs)) \in Nat
<1> DEFINE Of1(i) == {i} \X DOMAIN rs[i].handlers
           Parts == {Of1(i) : i \in Req!MatchingRules(rs)}
           part == [i \in Req!MatchingRules(rs) |-> Of1(i)]
<1>1. DOMAIN rs = 1 .. Len(rs) /\ Len(rs) \in Nat
  OBVIOUS
<1>2. IsFiniteSet(Req!MatchingRules(rs))
  <2>1. IsFiniteSet(1 .. Len(rs))
    BY <1>1, FS_Interval
  <2> QED BY <1>1, <2>1, FS_Subset DEF Req!MatchingRules
<1>3. part \in Surjection(Req!MatchingRules(rs), Parts)
  BY DEF Surjection
<1>4. IsFiniteSet(Parts)
  <2> HIDE DEF part, Parts
  <2> QED BY <1>2, <1>3, FS_Surjection
<1>5. ASSUME NEW S \in Parts
      PROVE  IsFiniteSet(S)
  <2>1. PICK i \in Req!MatchingRules(rs) : S = Of1(i)
    BY <1>5
  <2>2. i \in DOMAIN rs
    BY DEF Req!MatchingRules
  <2>3. rs[i].handlers \in Seq(Handlers)
    <3>1. rs[i] \in Rules
      BY <2>2
    <3> QED BY <3>1 DEF Rules
  <2>4. DOMAIN rs[i].handlers = 1 .. Len(rs[i].handlers) /\ Len(rs[i].handlers) \in Nat
    BY <2>3
  <2>5. IsFiniteSet(DOMAIN rs[i].handlers)
    BY <2>4, FS_Interval
  <2>6. IsFiniteSet({i})
    BY FS_Singleton
  <2> QED BY <2>1, <2>5, <2>6, FS_Product
<1>6. IsFiniteSet(UNION Parts)
  <2> HIDE DEF Parts
  <2> QED BY <1>4, <1>5, FS_UNION
<1>7. Req!AllHandlers(rs) \in SUBSET (UNION Parts)
  BY Zenon DEF Req!AllHandlers
<1>8. IsFiniteSet(Req!AllHandlers(rs))
  <2> HIDE DEF Parts
  <2> QED BY <1>6, <1>7, FS_Subset
<1> QED BY <1>8, FS_CardinalityType

\* The instance counts as this module does.
LEMMA RequestSizes == \A S : Req!Cardinality(S) = Cardinality(S)
BY DEF Req!Cardinality, Cardinality

Before(rs, p) == {q \in Req!AllHandlers(rs) : Req!RunsBefore(rs, q, p)}
Rank(rs, p) == Req!Cardinality(Before(rs, p))

\* As many handlers as there are, so many ranks: each place is taken by one.
LEMMA RanksAreNumbers ==
  ASSUME NEW rs \in Seq(Rules), NEW p \in Req!AllHandlers(rs)
  PROVE  /\ IsFiniteSet(Before(rs, p))
         /\ Rank(rs, p) \in 0 .. Cardinality(Req!AllHandlers(rs)) - 1
<1>1. Before(rs, p) \in SUBSET Req!AllHandlers(rs) /\ p \notin Before(rs, p)
  BY NoneRunsBeforeItself DEF Before
<1>2. IsFiniteSet(Before(rs, p)) /\ Cardinality(Before(rs, p)) <= Cardinality(Req!AllHandlers(rs))
  BY <1>1, HandlersAreFinite, FS_Subset
<1>3. Cardinality(Before(rs, p)) # Cardinality(Req!AllHandlers(rs))
  BY <1>1, HandlersAreFinite, FS_Subset
<1>4. Cardinality(Before(rs, p)) \in Nat
  BY <1>2, FS_CardinalityType
<1> QED BY <1>2, <1>3, <1>4, HandlersAreFinite, RequestSizes DEF Rank

LEMMA EarlierHasLowerRank ==
  ASSUME NEW rs \in Seq(Rules), NEW p \in Req!AllHandlers(rs), NEW q \in Req!AllHandlers(rs),
         Req!RunsBefore(rs, p, q)
  PROVE  Rank(rs, p) < Rank(rs, q)
<1>1. Before(rs, p) \in SUBSET Before(rs, q)
  BY OrderGoesOn DEF Before
<1>2. p \in Before(rs, q) /\ p \notin Before(rs, p)
  BY NoneRunsBeforeItself DEF Before
<1>3. Rank(rs, p) <= Rank(rs, q) /\ Rank(rs, p) # Rank(rs, q)
  BY <1>1, <1>2, RanksAreNumbers, FS_Subset, RequestSizes DEF Rank
<1> QED BY <1>3, RanksAreNumbers, HandlersAreFinite

LEMMA EveryRankIsTaken ==
  ASSUME NEW rs \in Seq(Rules), NEW k \in 1 .. Cardinality(Req!AllHandlers(rs))
  PROVE  \E p \in Req!AllHandlers(rs) : Rank(rs, p) = k - 1
<1> DEFINE H == Req!AllHandlers(rs)
           n == Cardinality(H)
           rank == [p \in H |-> Rank(rs, p)]
<1>1. n \in Nat /\ IsFiniteSet(H)
  BY HandlersAreFinite
<1>2. IsFiniteSet(0 .. n - 1) /\ Cardinality(0 .. n - 1) = n
  <2> HIDE DEF n
  <2>1. n - 1 \in Int /\ 0 \in Int /\ (IF 0 > n - 1 THEN 0 ELSE n - 1 - 0 + 1) = n
    BY <1>1
  <2>2. IsFiniteSet(0 .. n - 1) /\ Cardinality(0 .. n - 1) = IF 0 > n - 1 THEN 0 ELSE n - 1 - 0 + 1
    BY <2>1, FS_Interval
  <2> QED BY <2>1, <2>2
<1>3. rank \in [H -> 0 .. n - 1]
  BY RanksAreNumbers
<1>4. ASSUME NEW p \in H, NEW q \in H, rank[p] = rank[q]
      PROVE  p = q
  <2>1. Rank(rs, p) = Rank(rs, q) /\ Rank(rs, p) \in Int
    BY <1>4, RanksAreNumbers, HandlersAreFinite
  <2>2. ~Req!RunsBefore(rs, p, q)
    BY <2>1, EarlierHasLowerRank
  <2>3. ~Req!RunsBefore(rs, q, p)
    BY <2>1, EarlierHasLowerRank
  <2> QED BY <2>2, <2>3, OneRunsFirst
<1>5. rank \in Injection(H, 0 .. n - 1)
  <2> HIDE DEF rank, n, H
  <2>1. DOMAIN rank = H
    BY <1>3
  <2>2. IsInjective(rank)
    BY <1>4, <2>1, Zenon DEF IsInjective
  <2> QED BY <1>3, <2>2, Zenon DEF Injection
<1>6. rank \in Surjection(H, 0 .. n - 1)
  <2>1. Cardinality(H) = Cardinality(0 .. n - 1)
    BY <1>2
  <2> HIDE DEF rank, n, H
  <2> QED BY <1>2, <1>5, <2>1, FS_Injection
<1>7. k - 1 \in 0 .. n - 1
  BY <1>1
<1>8. PICK p \in H : rank[p] = k - 1
  <2> HIDE DEF rank, n, H
  <2> QED BY <1>6, <1>7, Zenon DEF Surjection
<1> QED BY <1>8

\* Sorting loses and repeats no handler of a rule that is enabled and matches: each runs once, in
\* the order of the handlers, and where these are equal in that of the rules and of the handlers in
\* them (find_matching_rules, the sort of all_handlers), for any rules.
THEOREM HandlersRunOnce ==
  ASSUME NEW rs \in Seq(Rules)
  PROVE  \E place \in Bijection(1 .. Cardinality(Req!AllHandlers(rs)), Req!AllHandlers(rs)) :
           /\ Req!SortedHandlers(rs) = [k \in DOMAIN place |-> Req!HandlerAt(rs, place[k])]
           /\ \A i, j \in DOMAIN place : i < j => Req!RunsBefore(rs, place[i], place[j])
<1> DEFINE H == Req!AllHandlers(rs)
           n == Cardinality(H)
           Place(k) == CHOOSE p \in H : Rank(rs, p) = k - 1
           place == [k \in 1 .. n |-> Place(k)]
<1>1. n \in Nat /\ DOMAIN place = 1 .. n
  BY HandlersAreFinite
<1>2. ASSUME NEW k \in 1 .. n
      PROVE  place[k] \in H /\ Rank(rs, place[k]) = k - 1
  BY EveryRankIsTaken
<1>3. Req!SortedHandlers(rs) = [k \in 1 .. n |-> Req!HandlerAt(rs, place[k])]
  <2>1. Req!SortedHandlers(rs) = [k \in 1 .. Req!Cardinality(H) |-> Req!HandlerAt(rs, Place(k))]
    BY Zenon DEF Req!SortedHandlers, Rank, Before
  <2>2. n = Req!Cardinality(H)
    BY RequestSizes
  <2>3. \A k \in 1 .. n : place[k] = Place(k)
    OBVIOUS
  <2> HIDE DEF place, n, Place, H
  <2> QED BY <2>1, <2>2, <2>3
<1> HIDE DEF place, n
<1>4. ASSUME NEW i \in 1 .. n, NEW j \in 1 .. n, i < j
      PROVE  Req!RunsBefore(rs, place[i], place[j])
  <2>1. Rank(rs, place[i]) = i - 1 /\ Rank(rs, place[j]) = j - 1 /\ i \in Int /\ j \in Int
    BY <1>1, <1>2
  <2>2. place[i] \in H /\ place[j] \in H /\ place[i] # place[j]
    BY <1>2, <1>4, <2>1
  <2>3. ~Req!RunsBefore(rs, place[j], place[i])
    BY <1>4, <2>1, <2>2, EarlierHasLowerRank
  <2> QED BY <2>2, <2>3, OneRunsFirst
<1>5. ASSUME NEW p \in H
      PROVE  \E k \in 1 .. n : place[k] = p
  <2>1. Rank(rs, p) \in 0 .. n - 1
    BY RanksAreNumbers DEF n
  <2>2. PICK k \in 1 .. n : Rank(rs, p) = k - 1
    <3>1. PICK r \in 0 .. n - 1 : r = Rank(rs, p)
      BY <2>1
    <3>2. r + 1 \in 1 .. n /\ r = (r + 1) - 1
      BY <1>1
    <3> QED BY <3>1, <3>2
  <2>3. place[k] \in H /\ Rank(rs, place[k]) = Rank(rs, p) /\ Rank(rs, p) \in Int
    BY <1>1, <1>2, <2>2
  <2>4. ~Req!RunsBefore(rs, p, place[k]) /\ ~Req!RunsBefore(rs, place[k], p)
    BY <2>3, EarlierHasLowerRank
  <2> QED BY <2>3, <2>4, OneRunsFirst
<1>6. place \in Bijection(1 .. n, H)
  <2>1. place \in [1 .. n -> H]
    BY <1>1, <1>2 DEF place
  <2>2. \A i, j \in 1 .. n : place[i] = place[j] => i = j
    BY <1>1, <1>2
  <2>3. IsInjective(place)
    BY <1>1, <2>2, Zenon DEF IsInjective
  <2> QED BY <1>5, <2>1, <2>3, Zenon DEF Bijection, Injection, Surjection
<1> QED BY <1>1, <1>3, <1>4, <1>6 DEF n

\* The handlers run in the order of their numbers.
LEMMA SortedIsSorted ==
  ASSUME NEW rs \in Seq(Rules)
  PROVE  /\ Req!SortedHandlers(rs) \in Seq(Handlers)
         /\ \A i, j \in DOMAIN Req!SortedHandlers(rs) :
              i < j => Req!SortedHandlers(rs)[i].order <= Req!SortedHandlers(rs)[j].order
<1> DEFINE n == Cardinality(Req!AllHandlers(rs))
<1>1. n \in Nat
  BY HandlersAreFinite
<1>2. PICK place \in Bijection(1 .. n, Req!AllHandlers(rs)) :
        /\ Req!SortedHandlers(rs) = [k \in DOMAIN place |-> Req!HandlerAt(rs, place[k])]
        /\ \A i, j \in DOMAIN place : i < j => Req!RunsBefore(rs, place[i], place[j])
  BY HandlersRunOnce
<1> HIDE DEF n
<1>3. DOMAIN place = 1 .. n /\ \A k \in 1 .. n : place[k] \in Req!AllHandlers(rs)
  BY <1>2 DEF Bijection, Injection
<1>4. \A k \in 1 .. n : Req!HandlerAt(rs, place[k]) \in Handlers /\ Req!HandlerAt(rs, place[k]).order \in Int
  BY <1>3, PlacesAreThere
<1>5. \A i, j \in 1 .. n : i < j =>
        Req!HandlerAt(rs, place[i]).order <= Req!HandlerAt(rs, place[j]).order
  BY <1>2, <1>3, <1>4 DEF Req!RunsBefore
<1> QED BY <1>1, <1>2, <1>3, <1>4, <1>5

-----------------------------------------------------------------------------
(***************************************************************************)
(* Sums.                                                                   *)
(***************************************************************************)

\* What holds of 0 and goes on upwards holds up to n: a least number that is missing has a
\* predecessor that is not.
LEMMA Upwards ==
  ASSUME NEW n \in Nat, NEW S, 0 \in S, \A k \in 0 .. n - 1 : k \in S => k + 1 \in S
  PROVE  \A k \in 0 .. n : k \in S
<1> DEFINE missing == {k \in Nat : k <= n /\ k \notin S}
<1> SUFFICES ASSUME missing # {} PROVE FALSE
  OBVIOUS
<1>1. PICK least \in missing : \A k \in missing : <<k, least>> \notin OpToRel(<, Nat)
  <2>1. missing \subseteq Nat
    OBVIOUS
  <2> HIDE DEF missing
  <2> QED BY <2>1, WFMin, NatLessThanWellFounded
<1>2. \A k \in missing : ~(k < least)
  BY <1>1 DEF OpToRel
<1>3. least \in Nat /\ least <= n /\ least \notin S /\ least # 0
  BY <1>1
<1>4. PICK p \in Nat : p + 1 = least /\ p < least /\ p \in 0 .. n - 1
  <2>1. /\ least - 1 \in Nat /\ (least - 1) + 1 = least /\ least - 1 < least
        /\ least - 1 \in 0 .. n - 1
    BY <1>3
  <2> QED BY <2>1
<1>5. p \notin missing
  BY <1>2, <1>4
<1> QED BY <1>3, <1>4, <1>5

\* The sums of the beginnings of s.
AreSums(f, s) == f = [k \in 0 .. Len(s) |-> IF k = 0 THEN 0 ELSE f[k - 1] + s[k]]

\* The recursive function that Sum is made of exists.
LEMMA SumsAreThere ==
  ASSUME NEW s \in Seq(Int)
  PROVE  \E f : AreSums(f, s)
<1> DEFINE T(n) == \E f : f = [k \in 0 .. n |-> IF k = 0 THEN 0 ELSE f[k - 1] + s[k]]
           S == {n \in 0 .. Len(s) : T(n)}
<1>1. 0 \in S
  <2>1. [k \in 0 .. 0 |-> 0] = [k \in 0 .. 0 |-> IF k = 0 THEN 0 ELSE [j \in 0 .. 0 |-> 0][k - 1] + s[k]]
    OBVIOUS
  <2>2. T(0)
    BY <2>1
  <2> QED BY <2>2
<1>2. ASSUME NEW n \in 0 .. Len(s) - 1, n \in S
      PROVE  n + 1 \in S
  <2>1. PICK f : f = [k \in 0 .. n |-> IF k = 0 THEN 0 ELSE f[k - 1] + s[k]]
    BY <1>2
  <2> DEFINE g == [k \in 0 .. n + 1 |-> IF k = n + 1 THEN f[n] + s[n + 1] ELSE f[k]]
  <2>2. n \in Nat /\ n + 1 \in 0 .. Len(s)
    OBVIOUS
  <2>3. \A k \in 0 .. n + 1 : g[k] = IF k = 0 THEN 0 ELSE g[k - 1] + s[k]
    <3> TAKE k \in 0 .. n + 1
    <3>1. CASE k = n + 1
      <4>1. k - 1 = n /\ k # 0 /\ n \in 0 .. n + 1 /\ n # n + 1
        BY <2>2, <3>1
      <4>2. g[k - 1] = f[n] /\ g[k] = f[n] + s[n + 1]
        BY <3>1, <4>1
      <4> QED BY <3>1, <4>1, <4>2
    <3>2. CASE k # n + 1 /\ k = 0
      BY <2>1, <2>2, <3>2
    <3>3. CASE k # n + 1 /\ k # 0
      <4>1. k \in 0 .. n /\ k - 1 \in 0 .. n + 1 /\ k - 1 # n + 1
        BY <2>2, <3>3
      <4>2. f[k] = f[k - 1] + s[k]
        BY <2>1, <3>3, <4>1
      <4> QED BY <3>3, <4>1, <4>2
    <3> QED BY <3>1, <3>2, <3>3
  <2>4. g = [k \in 0 .. n + 1 |-> IF k = 0 THEN 0 ELSE g[k - 1] + s[k]]
    <3>1. DOMAIN g = 0 .. n + 1 /\ g = [k \in 0 .. n + 1 |-> g[k]]
      OBVIOUS
    <3> HIDE DEF g
    <3> QED BY <2>3, <3>1
  <2>5. T(n + 1)
    <3> HIDE DEF g
    <3> QED BY <2>4
  <2> QED BY <2>2, <2>5
<1>3. Len(s) \in Nat
  OBVIOUS
<1>4. \A k \in 0 .. Len(s) : k \in S
  <2> HIDE DEF S
  <2> QED BY <1>1, <1>2, <1>3, Upwards
<1>5. T(Len(s))
  BY <1>3, <1>4
<1> QED BY <1>5 DEF AreSums

LEMMA SumIsOfParts ==
  ASSUME NEW s \in Seq(Int)
  PROVE  \E f \in [0 .. Len(s) -> Int] :
           /\ f[0] = 0 /\ \A k \in 1 .. Len(s) : f[k] = f[k - 1] + s[k]
           /\ Req!Sum(s) = f[Len(s)]
<1> DEFINE f == CHOOSE h : AreSums(h, s)
<1>1. AreSums(f, s)
  BY SumsAreThere
<1>2. Req!Sum(s) = f[Len(s)]
  BY Zenon DEF Req!Sum, AreSums
<1> HIDE DEF f
<1>3. Len(s) \in Nat /\ DOMAIN f = 0 .. Len(s) /\ f[0] = 0
  BY <1>1 DEF AreSums
<1>4. \A k \in 1 .. Len(s) : f[k] = f[k - 1] + s[k]
  <2> TAKE k \in 1 .. Len(s)
  <2>1. k \in 0 .. Len(s) /\ k # 0
    BY <1>3
  <2>2. f[k] = IF k = 0 THEN 0 ELSE f[k - 1] + s[k]
    BY <1>1, <2>1 DEF AreSums
  <2> QED BY <2>1, <2>2
<1> DEFINE S == {k \in 0 .. Len(s) : f[k] \in Int}
<1>5. 0 \in S
  BY <1>3
<1>6. ASSUME NEW n \in 0 .. Len(s) - 1, n \in S
      PROVE  n + 1 \in S
  <2>1. n + 1 \in 1 .. Len(s) /\ (n + 1) - 1 = n /\ n + 1 \in 0 .. Len(s)
    BY <1>3
  <2>2. f[n + 1] = f[n] + s[n + 1] /\ s[n + 1] \in Int /\ f[n] \in Int
    BY <1>4, <1>6, <2>1
  <2> QED BY <2>1, <2>2
<1>7. \A k \in 0 .. Len(s) : k \in S
  <2> HIDE DEF S
  <2> QED BY <1>3, <1>5, <1>6, Upwards
<1>8. f \in [0 .. Len(s) -> Int]
  <2>1. f = [k \in 0 .. Len(s) |-> f[k]]
    BY <1>1, <1>3 DEF AreSums
  <2> QED BY <1>7, <2>1
<1> QED BY <1>2, <1>3, <1>4, <1>8

\* The larger the parts, the larger the sum.
LEMMA SumGrows ==
  ASSUME NEW s \in Seq(Int), NEW t \in Seq(Int), Len(s) = Len(t), \A k \in 1 .. Len(s) : s[k] <= t[k]
  PROVE  Req!Sum(s) <= Req!Sum(t)
<1>1. PICK f \in [0 .. Len(s) -> Int] :
        f[0] = 0 /\ (\A k \in 1 .. Len(s) : f[k] = f[k - 1] + s[k]) /\ Req!Sum(s) = f[Len(s)]
  BY SumIsOfParts
<1>2. PICK g \in [0 .. Len(s) -> Int] :
        g[0] = 0 /\ (\A k \in 1 .. Len(s) : g[k] = g[k - 1] + t[k]) /\ Req!Sum(t) = g[Len(s)]
  BY SumIsOfParts
<1> DEFINE S == {k \in 0 .. Len(s) : f[k] <= g[k]}
<1>3. Len(s) \in Nat /\ 0 \in S
  BY <1>1, <1>2
<1>4. ASSUME NEW n \in 0 .. Len(s) - 1, n \in S
      PROVE  n + 1 \in S
  <2>1. n + 1 \in 1 .. Len(s) /\ (n + 1) - 1 = n /\ n + 1 \in 0 .. Len(s) /\ n \in 0 .. Len(s)
    BY <1>3
  <2>2. f[n + 1] = f[n] + s[n + 1] /\ g[n + 1] = g[n] + t[n + 1] /\ f[n] <= g[n]
    BY <1>1, <1>2, <1>4, <2>1
  <2>3. s[n + 1] \in Int /\ t[n + 1] \in Int /\ f[n] \in Int /\ g[n] \in Int
    BY <2>1
  <2>4. s[n + 1] <= t[n + 1]
    BY <2>1
  <2> QED BY <2>1, <2>2, <2>3, <2>4
<1>5. \A k \in 0 .. Len(s) : k \in S
  <2> HIDE DEF S
  <2> QED BY <1>3, <1>4, Upwards
<1> QED BY <1>1, <1>2, <1>3, <1>5

\* A sum changes as its only part that does.
LEMMA SumChanges ==
  ASSUME NEW s \in Seq(Int), NEW t \in Seq(Int), Len(s) = Len(t), NEW i \in 1 .. Len(s),
         \A k \in 1 .. Len(s) : k # i => s[k] = t[k]
  PROVE  Req!Sum(t) = Req!Sum(s) + t[i] - s[i] /\ Req!Sum(s) \in Int /\ Req!Sum(t) \in Int
<1>1. PICK f \in [0 .. Len(s) -> Int] :
        f[0] = 0 /\ (\A k \in 1 .. Len(s) : f[k] = f[k - 1] + s[k]) /\ Req!Sum(s) = f[Len(s)]
  BY SumIsOfParts
<1>2. PICK g \in [0 .. Len(s) -> Int] :
        g[0] = 0 /\ (\A k \in 1 .. Len(s) : g[k] = g[k - 1] + t[k]) /\ Req!Sum(t) = g[Len(s)]
  BY SumIsOfParts
<1> DEFINE S == {k \in 0 .. Len(s) : g[k] = f[k] + IF k < i THEN 0 ELSE t[i] - s[i]}
<1>3. Len(s) \in Nat /\ 0 \in S
  BY <1>1, <1>2
<1>8. \A k \in 1 .. Len(s) : s[k] \in Int /\ t[k] \in Int
  OBVIOUS
<1>4. ASSUME NEW n \in 0 .. Len(s) - 1, n \in S
      PROVE  n + 1 \in S
  <2>1. n + 1 \in 1 .. Len(s) /\ (n + 1) - 1 = n /\ n + 1 \in 0 .. Len(s) /\ n \in 0 .. Len(s)
    BY <1>3
  <2>2. f[n + 1] = f[n] + s[n + 1] /\ g[n + 1] = g[n] + t[n + 1]
    BY <1>1, <1>2, <2>1
  <2>3. /\ s[n + 1] \in Int /\ t[n + 1] \in Int /\ f[n] \in Int /\ g[n] \in Int /\ s[i] \in Int
        /\ t[i] \in Int
    BY <1>8, <2>1
  <2>4. g[n] = f[n] + IF n < i THEN 0 ELSE t[i] - s[i]
    BY <1>4
  <2>5. CASE n + 1 = i
    <3>1. n < i /\ ~(n + 1 < i) /\ s[n + 1] = s[i] /\ t[n + 1] = t[i]
      BY <2>1, <2>5
    <3>2. g[n + 1] = f[n + 1] + IF n + 1 < i THEN 0 ELSE t[i] - s[i]
      BY <2>2, <2>3, <2>4, <3>1
    <3> QED BY <2>1, <3>2
  <2>6. CASE n + 1 # i
    <3>1. s[n + 1] = t[n + 1]
      BY <2>1, <2>6
    <3>2. n \in Int /\ i \in Int
      OBVIOUS
    <3>3. n < i <=> n + 1 < i
      BY <2>6, <3>2
    <3>4. g[n + 1] = f[n + 1] + IF n + 1 < i THEN 0 ELSE t[i] - s[i]
      BY <2>2, <2>3, <2>4, <3>1, <3>3
    <3> QED BY <2>1, <3>4
  <2> QED BY <2>5, <2>6
<1>5. \A k \in 0 .. Len(s) : k \in S
  <2> HIDE DEF S
  <2> QED BY <1>3, <1>4, Upwards
<1>6. g[Len(s)] = f[Len(s)] + IF Len(s) < i THEN 0 ELSE t[i] - s[i]
  BY <1>3, <1>5
<1>7. f[Len(s)] \in Int /\ g[Len(s)] \in Int /\ s[i] \in Int /\ t[i] \in Int
  BY <1>3
<1> QED BY <1>1, <1>2, <1>3, <1>6, <1>7

LEMMA SumOfNothing ==
  ASSUME NEW s \in Seq(Int), \A k \in 1 .. Len(s) : s[k] = 0
  PROVE  Req!Sum(s) = 0
<1>1. PICK f \in [0 .. Len(s) -> Int] :
        f[0] = 0 /\ (\A k \in 1 .. Len(s) : f[k] = f[k - 1] + s[k]) /\ Req!Sum(s) = f[Len(s)]
  BY SumIsOfParts
<1> DEFINE S == {k \in 0 .. Len(s) : f[k] = 0}
<1>2. Len(s) \in Nat /\ 0 \in S
  BY <1>1
<1>3. ASSUME NEW n \in 0 .. Len(s) - 1, n \in S
      PROVE  n + 1 \in S
  <2>1. n + 1 \in 1 .. Len(s) /\ (n + 1) - 1 = n /\ n + 1 \in 0 .. Len(s) /\ n \in 0 .. Len(s)
    BY <1>2
  <2> QED BY <1>1, <1>3, <2>1
<1>4. \A k \in 0 .. Len(s) : k \in S
  <2> HIDE DEF S
  <2> QED BY <1>2, <1>3, Upwards
<1> QED BY <1>1, <1>2, <1>4

\* One more part.
LEMMA SumAdds ==
  ASSUME NEW s \in Seq(Int), NEW x \in Int
  PROVE  Req!Sum(Append(s, x)) = Req!Sum(s) + x /\ Req!Sum(s) \in Int
<1> DEFINE t == Append(s, x)
<1>1. t \in Seq(Int) /\ Len(t) = Len(s) + 1 /\ t[Len(s) + 1] = x /\ \A k \in 1 .. Len(s) : t[k] = s[k]
  OBVIOUS
<1> HIDE DEF t
<1>2. PICK f \in [0 .. Len(s) -> Int] :
        f[0] = 0 /\ (\A k \in 1 .. Len(s) : f[k] = f[k - 1] + s[k]) /\ Req!Sum(s) = f[Len(s)]
  BY SumIsOfParts
<1>3. PICK g \in [0 .. Len(t) -> Int] :
        g[0] = 0 /\ (\A k \in 1 .. Len(t) : g[k] = g[k - 1] + t[k]) /\ Req!Sum(t) = g[Len(t)]
  BY <1>1, SumIsOfParts
<1> DEFINE S == {k \in 0 .. Len(s) : f[k] = g[k]}
<1>4. Len(s) \in Nat /\ 0 \in S
  BY <1>2, <1>3
<1>5. ASSUME NEW n \in 0 .. Len(s) - 1, n \in S
      PROVE  n + 1 \in S
  <2>1. n + 1 \in 1 .. Len(s) /\ n + 1 \in 1 .. Len(t) /\ (n + 1) - 1 = n /\ n + 1 \in 0 .. Len(s)
    BY <1>1, <1>4
  <2>2. f[n + 1] = f[n] + s[n + 1] /\ g[n + 1] = g[n] + t[n + 1] /\ s[n + 1] = t[n + 1]
    BY <1>1, <1>2, <1>3, <2>1
  <2> QED BY <1>5, <2>1, <2>2
<1>6. \A k \in 0 .. Len(s) : k \in S
  <2> HIDE DEF S
  <2> QED BY <1>4, <1>5, Upwards
<1>7. f[Len(s)] = g[Len(s)] /\ f[Len(s)] \in Int
  BY <1>4, <1>6
<1>8. g[Len(t)] = g[Len(s)] + x
  <2>1. Len(t) \in 1 .. Len(t) /\ Len(t) - 1 = Len(s)
    BY <1>1, <1>4
  <2> QED BY <1>1, <1>3, <2>1
<1> QED BY <1>2, <1>3, <1>7, <1>8 DEF t

-----------------------------------------------------------------------------
(***************************************************************************)
(* Paths, and what the handlers make of requests and responses.            *)
(***************************************************************************)

\* IsSuffix is stated with the beginnings of reversed sequences.
LEMMA SuffixOfItself ==
  ASSUME NEW T, NEW s \in Seq(T)
  PROVE  Req!IsSuffix(s, s)
<1>1. Req!Reverse(s) \in Seq(T) /\ Len(Req!Reverse(s)) \in Nat
  BY DEF Req!Reverse
<1> QED BY <1>1 DEF Req!IsSuffix, Req!IsPrefix

LEMMA ReverseIs ==
  ASSUME NEW T, NEW s \in Seq(T)
  PROVE  /\ Req!Reverse(s) \in Seq(T) /\ Len(Req!Reverse(s)) = Len(s) /\ Len(s) \in Nat
         /\ \A i \in 1 .. Len(s) : Req!Reverse(s)[i] = s[Len(s) - i + 1]
<1>1. \A i \in 1 .. Len(s) : Len(s) - i + 1 \in 1 .. Len(s)
  OBVIOUS
<1> QED BY <1>1 DEF Req!Reverse

LEMMA SuffixOfLonger ==
  ASSUME NEW T, NEW s \in Seq(T), NEW t \in Seq(T), NEW x \in T, Req!IsSuffix(s, t)
  PROVE  Req!IsSuffix(s, <<x>> \o t)
<1> DEFINE r == Req!Reverse(s)
           q == Req!Reverse(t)
           u == <<x>> \o t
           v == Req!Reverse(u)
<1>1. u \in Seq(T) /\ Len(u) = Len(t) + 1 /\ \A i \in 1 .. Len(t) : u[i + 1] = t[i]
  <2>1. <<x>> \in Seq(T) /\ Len(<<x>>) = 1
    OBVIOUS
  <2>2. /\ Len(t) \in Nat
        /\ \A i \in 1 .. Len(t) :
             i + 1 \in Len(<<x>>) + 1 .. Len(<<x>>) + Len(t) /\ i + 1 - Len(<<x>>) = i
    BY <2>1
  <2> QED BY <2>1, <2>2, ConcatProperties
<1>2. r \in Seq(T) /\ q \in Seq(T) /\ Len(q) = Len(t) /\ Len(t) \in Nat
      /\ \A i \in 1 .. Len(t) : q[i] = t[Len(t) - i + 1]
  BY ReverseIs
<1>3. v \in Seq(T) /\ Len(v) = Len(u) /\ \A i \in 1 .. Len(u) : v[i] = u[Len(u) - i + 1]
  <2> HIDE DEF u
  <2> QED BY <1>1, ReverseIs
<1>4. Len(r) <= Len(q) /\ SubSeq(r, 1, Len(r)) = SubSeq(q, 1, Len(r))
  BY DEF Req!IsSuffix, Req!IsPrefix
<1> HIDE DEF r, q, u, v
<1>5. \A i \in 1 .. Len(q) : v[i] = q[i]
  <2> TAKE i \in 1 .. Len(q)
  <2>1. /\ i \in 1 .. Len(u) /\ i \in 1 .. Len(t) /\ Len(t) - i + 1 \in 1 .. Len(t)
        /\ Len(u) - i + 1 = (Len(t) - i + 1) + 1
    BY <1>1, <1>2
  <2> QED BY <1>1, <1>2, <1>3, <2>1
<1>6. Len(r) <= Len(v) /\ Len(r) \in Nat
  BY <1>1, <1>2, <1>3, <1>4
<1>7. SubSeq(v, 1, Len(r)) = SubSeq(q, 1, Len(r))
  <2>1. \A k \in 1 .. Len(r) : v[k] = q[k]
    BY <1>2, <1>4, <1>5, <1>6
  <2> QED BY <1>2, <1>3, <1>4, <1>6, <2>1
<1>8. Req!IsPrefix(r, v)
  BY <1>4, <1>6, <1>7 DEF Req!IsPrefix
<1> QED BY <1>8 DEF Req!IsSuffix, r, v, u

\* What handlers answer is a response.
LEMMA BodiesAreMessages ==
  ASSUME NEW t \in Texts \cup Pages
  PROVE  Req!Body(t) \in Messages /\ Req!Body(t).enc = Absent
BY DEF Req!Body, Messages, Options

LEMMA NoResponseIsTyped ==
  Req!NoResponse \in Responses /\ Req!NoResponse.rates = << >> /\ Req!NoBody \in Messages
<1>1. Req!NoBody \in Messages
  BY BodiesAreMessages DEF Req!NoBody, Pages
<1>2. << >> \in Seq(Nat \ {0})
  OBVIOUS
<1> QED BY <1>1, <1>2 DEF Req!NoResponse, Responses, Options, Writers

LEMMA AnswersOfHandlers ==
  ASSUME NEW b \in Writers, NEW t \in Texts \cup Pages
  PROVE  /\ Req!Answered(b, Req!Body(t)) \in Responses
         /\ Req!Answered(b, Req!Body(t)).by = b /\ Req!Answered(b, Req!Body(t)).rates = << >>
         /\ Described(Req!Answered(b, Req!Body(t)))
<1>1. PICK m \in Messages : m = Req!Body(t) /\ m.enc = Absent
  BY BodiesAreMessages
<1>2. PICK n \in Responses : n = Req!NoResponse
  BY NoResponseIsTyped
<1>3. n.rates = << >> /\ n.encoding = Absent /\ n.chunked = FALSE
  BY <1>2 DEF Req!NoResponse
<1>4. Req!Answered(b, Req!Body(t)) = [n EXCEPT !.by = b, !.length = m, !.body = m]
  BY <1>1, <1>2 DEF Req!Answered
<1>5. [n EXCEPT !.by = b, !.length = m, !.body = m] \in Responses
  BY DEF Responses
<1> QED BY <1>1, <1>3, <1>4, <1>5 DEF Responses, Described

\* The answers of a local file, those that say what is wrong with it included.
LEMMA LocalFileAnswers ==
  ASSUME NEW h \in LocalFiles
  PROVE  /\ Req!LocalFile(h) \in Responses
         /\ Req!LocalFile(h).by = "localFile" /\ Req!LocalFile(h).rates = << >>
         /\ Described(Req!LocalFile(h))
<1>1. h.file \in Texts
  BY DEF LocalFiles
<1>2. PICK t \in Texts \cup Pages :
        \/ Req!LocalFile(h) = Req!Answered("localFile", Req!Body(t))
        \/ Req!LocalFile(h) = [Req!Answered("localFile", Req!Body(t)) EXCEPT !.html = TRUE]
  <2>1. CASE h.file = "missing"
    BY <2>1 DEF Req!LocalFile, Pages
  <2>2. CASE h.file = "directory"
    BY <2>2 DEF Req!LocalFile, Pages
  <2>3. CASE h.file = "unreadable"
    BY <2>3 DEF Req!LocalFile, Pages
  <2>4. CASE h.file \notin {"missing", "directory", "unreadable"}
    BY <1>1, <2>4 DEF Req!LocalFile
  <2> QED BY <2>1, <2>2, <2>3, <2>4
<1> DEFINE a == Req!Answered("localFile", Req!Body(t))
<1>3. a \in Responses /\ a.by = "localFile" /\ a.rates = << >> /\ Described(a)
  BY AnswersOfHandlers DEF Writers
<1> HIDE DEF a
<1>4. Req!LocalFile(h) = a \/ Req!LocalFile(h) = [a EXCEPT !.html = TRUE]
  BY <1>2 DEF a
<1>5. [a EXCEPT !.html = TRUE] \in Responses
  BY <1>3 DEF Responses
<1> QED BY <1>3, <1>4, <1>5 DEF Responses, Described

\* A changed request keeps its form, and has the address the handler names.
LEMMA ChangedRequest ==
  ASSUME ProcessingConstants, NEW r \in RequestsOfClients, NEW h \in RequestChanges
  PROVE  /\ Req!ModifyRequest(r, h) \in RequestsOfClients
         /\ Req!ModifyRequest(r, h).uri = IF h.url = Absent THEN r.uri ELSE Req!ModifyUrl(r.uri, h.url)
<1>1. r.uri \in Uris /\ r.body \in Messages /\ r.length \in Messages \cup {Absent}
  BY DEF RequestsOfClients
<1>2. h.body \in Options /\ h.url \in Urls \cup {Absent}
  BY DEF RequestChanges
<1>3. PICK b : b = (IF h.body = Absent THEN r.body ELSE Req!Body(h.body))
  OBVIOUS
<1>4. PICK l : l = (IF h.body = Absent THEN r.length ELSE Req!Body(h.body))
  OBVIOUS
<1>5. PICK u : u = (IF h.url = Absent THEN r.uri ELSE Req!ModifyUrl(r.uri, h.url))
  OBVIOUS
<1>6. b \in Messages /\ l \in Messages \cup {Absent}
  BY <1>1, <1>2, <1>3, <1>4, BodiesAreMessages DEF Options
<1>7. u \in Uris
  <2>1. CASE h.url = Absent
    BY <1>1, <1>5, <2>1
  <2>2. CASE h.url # Absent
    <3>1. h.url \in Urls
      BY <1>2, <2>2
    <3> QED BY <1>1, <1>5, <2>2, <3>1 DEF Req!ModifyUrl, Uris, Urls, Req!Or, Options
  <2> QED BY <2>1, <2>2
<1>8. Req!ModifyRequest(r, h) = [r EXCEPT !.uri = u, !.body = b, !.length = l]
  BY <1>3, <1>4, <1>5 DEF Req!ModifyRequest
<1>9. [r EXCEPT !.uri = u, !.body = b, !.length = l] \in RequestsOfClients
  BY <1>6, <1>7 DEF RequestsOfClients
<1>10. [r EXCEPT !.uri = u, !.body = b, !.length = l].uri = u
  BY DEF RequestsOfClients
<1> QED BY <1>5, <1>8, <1>9, <1>10

\* A forwarded request has the address the handler names, and its path ends as before.
LEMMA ForwardedUri ==
  ASSUME ProcessingConstants, NEW uri \in Uris, NEW h \in Forwards
  PROVE  /\ Req!ProxyForward(uri, h) \in Uris
         /\ Req!ProxyForward(uri, h).scheme = Req!Or(h.scheme, uri.scheme)
         /\ Req!ProxyForward(uri, h).authority = Req!Or(h.authority, uri.authority)
         /\ \/ Req!ProxyForward(uri, h).path = uri.path
            \/ h.path \in Texts /\ Req!ProxyForward(uri, h).path = <<h.path>> \o uri.path
<1>1. h.scheme \in Options /\ h.authority \in Options /\ h.path \in Options
  BY DEF Forwards
<1>2. uri.scheme \in Texts /\ uri.authority \in Texts /\ uri.path \in Seq(Texts)
      /\ uri.query \in Options \cup {""}
  BY DEF Uris
<1>3. PICK s \in Texts : s = Req!Or(h.scheme, uri.scheme)
  BY <1>1, <1>2 DEF Req!Or, Options
<1>4. PICK a \in Texts : a = Req!Or(h.authority, uri.authority)
  BY <1>1, <1>2 DEF Req!Or, Options
<1> DEFINE to == [uri EXCEPT !.scheme = s, !.authority = a]
<1>5. to \in Uris /\ to.scheme = s /\ to.authority = a /\ to.path = uri.path
  BY DEF Uris
<1> HIDE DEF to
<1>6. Req!ProxyForward(uri, h) = IF h.path = Absent THEN to ELSE Req!ForwardPath(to, h.path)
  BY <1>3, <1>4 DEF Req!ProxyForward, to
<1>7. CASE h.path = Absent
  BY <1>3, <1>4, <1>5, <1>6, <1>7
<1>8. CASE h.path # Absent
  <2>1. h.path \in Texts
    BY <1>1, <1>8 DEF Options
  <2>2. <<h.path>> \o uri.path \in Seq(Texts)
    <3>1. PICK x \in Texts : x = h.path
      BY <2>1
    <3>2. <<x>> \in Seq(Texts)
      OBVIOUS
    <3> QED BY <1>2, <3>1, <3>2, ConcatProperties
  <2>3. PICK p \in Seq(Texts) : p = IF h.path = "/" THEN to.path ELSE <<h.path>> \o to.path
    BY <1>2, <1>5, <2>2
  <2>4. PICK q : q = IF to.query = Absent THEN "" ELSE to.query
    OBVIOUS
  <2>5. q \in Options \cup {""}
    BY <1>5, <2>4 DEF Uris
  <2>6. Req!ForwardPath(to, h.path) = [to EXCEPT !.path = p, !.query = q]
    BY <2>3, <2>4 DEF Req!ForwardPath
  <2> DEFINE new == [to EXCEPT !.path = p, !.query = q]
  <2>7. new \in Uris /\ new.scheme = s /\ new.authority = a /\ new.path = p
    BY <1>5, <2>5 DEF Uris
  <2>8. Req!ProxyForward(uri, h) = new
    BY <1>6, <1>8, <2>6
  <2> HIDE DEF new
  <2> QED BY <1>3, <1>4, <1>5, <2>1, <2>3, <2>7, <2>8
<1> QED BY <1>7, <1>8

\* A response with another body has headers of that body.
LEMMA ChangedResponse ==
  ASSUME ProcessingConstants, NEW r \in Responses, NEW h \in ResponseChanges
  PROVE  /\ Req!ModifyResponse(r, h) \in Responses
         /\ Req!ModifyResponse(r, h).by = r.by
         /\ Req!ModifyResponse(r, h) = r \/ Described(Req!ModifyResponse(r, h))
<1>1. h.body \in Options
  BY DEF ResponseChanges
<1>2. CASE h.body = Absent
  BY <1>2 DEF Req!ModifyResponse
<1>3. CASE h.body # Absent
  <2>1. PICK m \in Messages : m = Req!Body(h.body) /\ m.enc = Absent
    BY <1>1, <1>3, BodiesAreMessages DEF Options
  <2>2. Req!ModifyResponse(r, h) =
          [r EXCEPT !.encoding = Absent, !.chunked = FALSE, !.length = m, !.body = m, !.ends = TRUE,
                    !.rates = << >>]
    BY <1>3, <2>1 DEF Req!ModifyResponse
  <2> DEFINE new == [r EXCEPT !.encoding = Absent, !.chunked = FALSE, !.length = m, !.body = m,
                              !.ends = TRUE, !.rates = << >>]
  <2>3. << >> \in Seq(Nat \ {0})
    OBVIOUS
  <2>4. /\ new \in Responses /\ new.by = r.by /\ new.encoding = Absent /\ new.chunked = FALSE
        /\ new.length = m
        /\ new.body = m
    BY <2>3 DEF Responses, Options
  <2> HIDE DEF new
  <2>5. Described(new)
    BY <2>1, <2>4 DEF Described
  <2> QED BY <2>2, <2>4, <2>5 DEF new
<1> QED BY <1>2, <1>3

LEMMA TakenIs ==
  ASSUME NEW r \in Responses, NEW m \in Messages
  PROVE  /\ Req!Taken(r, m) \in Responses
         /\ Req!Taken(r, m).by = r.by /\ Req!Taken(r, m).encoding = r.encoding
         /\ Req!Taken(r, m).length = r.length
         /\ Req!Taken(r, m).chunked = r.chunked /\ Req!Taken(r, m).body = m
<1>1. << >> \in Seq(Nat \ {0})
  OBVIOUS
<1> QED BY <1>1 DEF Req!Taken, Responses

\* What the injector leaves undescribed.
Gap(r, empty) ==
  r.body = Req!NoBody \/ (empty /\ r.encoding \in Req!Decoders /\ r.body.enc = Absent)

LEMMA InjectedResponse ==
  ASSUME ProcessingConstants, NEW r \in Responses, NEW h \in Injectors
  PROVE  /\ Req!HtmlScriptInjector(r, h) \in Responses
         /\ Req!HtmlScriptInjector(r, h).by = r.by
         /\ Described(r) =>
              Described(Req!HtmlScriptInjector(r, h)) \/ Gap(Req!HtmlScriptInjector(r, h), h.blank)
         /\ \A b \in BOOLEAN : Gap(r, b) =>
              \/ Described(Req!HtmlScriptInjector(r, h)) \/ Gap(Req!HtmlScriptInjector(r, h), h.blank)
              \/ Gap(Req!HtmlScriptInjector(r, h), b)
<1> DEFINE plain == Req!Decompressed(r)
           tagged == [plain EXCEPT !.tags = @ + 1]
           res == Req!HtmlScriptInjector(r, h)
<1>1. r.body \in Messages /\ r.encoding \in Options
  BY DEF Responses
<1>2. Absent \notin Req!Decoders
  BY DEF ProcessingConstants
<1>3. /\ plain \in Messages
      /\ \/ plain = r.body
         \/ r.encoding \in Req!Decoders /\ r.body.enc = r.encoding /\ plain.enc = Absent
  <2>1. [r.body EXCEPT !.enc = Absent] \in Messages /\ [r.body EXCEPT !.enc = Absent].enc = Absent
    BY <1>1 DEF Messages, Options
  <2> QED BY <1>1, <2>1 DEF Req!Decompressed
<1>4. CASE ~r.html
  <2>1. res = r
    BY <1>4, Zenon DEF Req!HtmlScriptInjector
  <2> QED BY <2>1
<1>5. CASE r.html /\ (~r.ends \/ ~Req!Utf8(plain))
  <2>1. res = Req!Taken(r, Req!NoBody)
    BY <1>5, Zenon DEF Req!HtmlScriptInjector
  <2>2. Req!NoBody \in Messages
    BY NoResponseIsTyped
  <2> QED BY <2>1, <2>2, TakenIs DEF Gap
<1>6. CASE r.html /\ r.ends /\ Req!Utf8(plain) /\ h.blank
  <2>1. res = Req!Taken(r, plain)
    BY <1>6, Zenon DEF Req!HtmlScriptInjector
  <2>2. /\ res \in Responses /\ res.by = r.by /\ res.encoding = r.encoding /\ res.length = r.length
        /\ res.chunked = r.chunked /\ res.body = plain
    <3> HIDE DEF plain, res
    <3> QED BY <1>3, <2>1, TakenIs
  <2> HIDE DEF plain, res
  <2>3. CASE plain = r.body
    <3>1. Described(r) => Described(res)
      BY <2>2, <2>3 DEF Described
    <3>2. \A b \in BOOLEAN : Gap(r, b) => Gap(res, b)
      BY <2>2, <2>3 DEF Gap
    <3> QED BY <2>2, <3>1, <3>2 DEF res
  <2>4. CASE r.encoding \in Req!Decoders /\ r.body.enc = r.encoding /\ plain.enc = Absent
    <3>1. Gap(res, h.blank)
      BY <1>6, <2>2, <2>4 DEF Gap
    <3> QED BY <2>2, <3>1 DEF res
  <2> QED BY <1>3, <2>3, <2>4
<1>7. CASE r.html /\ r.ends /\ Req!Utf8(plain) /\ ~h.blank
  <2>1. res = [Req!Taken(r, tagged) EXCEPT !.encoding = Absent, !.length = IF r.chunked THEN Absent ELSE tagged]
    BY <1>7, Zenon DEF Req!HtmlScriptInjector
  <2>2. PICK m \in Messages : m = tagged /\ m.enc = Absent
    <3>1. plain.enc = Absent
      BY <1>7 DEF Req!Utf8
    <3> HIDE DEF plain
    <3>2. tagged \in Messages /\ tagged.enc = plain.enc
      BY <1>3 DEF Messages
    <3> QED BY <3>1, <3>2
  <2>3. PICK t \in Responses : /\ t = Req!Taken(r, m) /\ t.by = r.by /\ t.chunked = r.chunked
                               /\ t.body = m
    BY TakenIs
  <2>4. PICK l \in Messages \cup {Absent} : l = IF r.chunked THEN Absent ELSE m
    OBVIOUS
  <2> DEFINE new == [t EXCEPT !.encoding = Absent, !.length = l]
  <2>5. res = new
    BY <2>1, <2>2, <2>3, <2>4
  <2>6. /\ new \in Responses /\ new.by = r.by /\ new.encoding = Absent /\ new.length = l
        /\ new.body = m
        /\ new.chunked = r.chunked
    BY <2>3 DEF Responses, Options
  <2> HIDE DEF new, res
  <2>7. Described(new)
    BY <2>2, <2>4, <2>6 DEF Described
  <2> QED BY <2>5, <2>6, <2>7 DEF res
<1>8. r.html \in BOOLEAN /\ r.ends \in BOOLEAN /\ h.blank \in BOOLEAN
  BY DEF Responses, Injectors
<1> QED BY <1>4, <1>5, <1>6, <1>7, <1>8

\* One more rate behind a response, and nothing else.
LEMMA ThrottledResponse ==
  ASSUME NEW r \in Responses, NEW kbps \in Nat
  PROVE  /\ Req!Throttled(r, kbps) \in Responses
         /\ Req!Throttled(r, kbps).by = r.by /\ Req!Throttled(r, kbps).encoding = r.encoding
         /\ Req!Throttled(r, kbps).length = r.length /\ Req!Throttled(r, kbps).chunked = r.chunked
         /\ Req!Throttled(r, kbps).body = r.body
<1>1. CASE kbps = 0
  BY <1>1 DEF Req!Throttled
<1>2. CASE kbps # 0
  <2>1. PICK bps \in Nat \ {0} : bps = Req!BytesPerSec(kbps)
    BY <1>2 DEF Req!BytesPerSec
  <2>2. Append(r.rates, bps) \in Seq(Nat \ {0})
    BY DEF Responses
  <2>3. Req!Throttled(r, kbps) = [r EXCEPT !.rates = Append(r.rates, bps)]
    BY <1>2, <2>1 DEF Req!Throttled
  <2> QED BY <2>2, <2>3 DEF Responses
<1> QED BY <1>1, <1>2

\* A delay is within its variance.
LEMMA DelaysAreRanges ==
  ASSUME NEW h \in Delays, NEW ms \in Req!DelayRange(h)
  PROVE  ms \in Nat /\ Req!Max2(0, h.ms - h.variance) <= ms /\ ms <= h.ms + h.variance
         /\ Req!Max2(0, h.ms - h.variance) \in Nat /\ h.ms + h.variance \in Nat
BY DEF Delays, Req!DelayRange, Req!Max2

LEMMA Halves ==
  ASSUME NEW a \in Nat, NEW b \in Nat, a <= b
  PROVE  a \div 2 \in Nat /\ a \div 2 <= b \div 2
OBVIOUS

\* One handler on the way out: it answers, or the request goes on.
LEMMA OutStep ==
  ASSUME ProcessingConstants, RequestTyped, Req!HandleRequest
  PROVE  LET h == Head(todo) IN
         /\ stage = "request" /\ todo # << >> /\ h \in Handlers
         /\ asked' = asked /\ rules' = rules /\ original' = original
         /\ flight' = flight /\ sent' = sent /\ clock' = clock
         /\ \/ /\ Req!Answering(h) /\ stage' = "deliver" /\ todo' = << >> /\ req' = req /\ waited' = waited
               /\ resp' \in Responses /\ resp'.by \in {h.kind, "error"} /\ resp'.rates = << >>
               /\ Described(resp')
            \/ /\ ~Req!Answering(h) /\ stage' = "request" /\ todo' = Tail(todo) /\ resp' = resp
               /\ req' \in RequestsOfClients
               /\ req'.uri = CASE h.kind = "modifyRequest" /\ h.url # Absent -> Req!ModifyUrl(req.uri, h.url)
                               [] h.kind = "proxyForward" -> Req!ProxyForward(req.uri, h)
                               [] OTHER -> req.uri
               /\ \E w \in Nat : waited' = waited + w /\ LeastOut(h) <= w /\ w <= MostOut(h)
<1>1. PICK h \in Handlers : h = Head(todo) /\ todo # << >>
  BY DEF RequestTyped, Req!HandleRequest
<1> DEFINE Answers1 ==
             /\ Req!Answering(h) /\ stage' = "deliver" /\ todo' = << >> /\ req' = req
             /\ waited' = waited
             /\ resp' \in Responses /\ resp'.by \in {h.kind, "error"} /\ resp'.rates = << >>
             /\ Described(resp')
           GoesOn ==
             /\ ~Req!Answering(h) /\ stage' = "request" /\ todo' = Tail(todo) /\ resp' = resp
             /\ req' \in RequestsOfClients
             /\ req'.uri = CASE h.kind = "modifyRequest" /\ h.url # Absent -> Req!ModifyUrl(req.uri, h.url)
                             [] h.kind = "proxyForward" -> Req!ProxyForward(req.uri, h)
                             [] OTHER -> req.uri
             /\ \E w \in Nat : waited' = waited + w /\ LeastOut(h) <= w /\ w <= MostOut(h)
<1>2. /\ stage = "request" /\ asked' = asked /\ rules' = rules /\ original' = original
      /\ flight' = flight /\ sent' = sent /\ clock' = clock
  BY DEF Req!HandleRequest, Req!restVars, Req!streamVars
<1>3. req \in RequestsOfClients /\ waited \in Nat /\ req.uri \in Uris
  BY DEF RequestTyped, RequestsOfClients
<1>4. Req!Fail => /\ stage' = "deliver" /\ todo' = << >> /\ req' = req /\ resp' \in Responses
              /\ resp'.by = "error" /\ resp'.rates = << >> /\ Described(resp')
  <2>1. PICK a \in Responses : /\ a = Req!Answered("error", Req!Body("error")) /\ a.by = "error"
                               /\ a.rates = << >>
                               /\ Described(a)
    <3>1. "error" \in Writers /\ "error" \in Texts \cup Pages
      BY DEF Writers, Pages
    <3> QED BY <3>1, AnswersOfHandlers
  <2>2. Req!Fail => stage' = "deliver" /\ resp' = a /\ todo' = << >> /\ req' = req
    BY <2>1 DEF Req!Fail, Req!Respond
  <2>3. resp' = a => Described(resp')
    BY <2>1 DEF Described
  <2> QED BY <2>1, <2>2, <2>3
<1>5. CASE h.kind = "block"
  <2>1. Req!Answering(h)
    BY <1>5 DEF Req!Answering
  <2>2. /\ IF h.invalid THEN Req!Fail ELSE Req!Respond(Req!Answered("block", Req!Body("blocked")))
        /\ Req!Wait(0)
    BY <1>1, <1>5 DEF Req!HandleRequest
  <2>3. PICK a \in Responses : /\ a = Req!Answered("block", Req!Body("blocked")) /\ a.by = "block"
                               /\ a.rates = << >> /\ Described(a)
    <3>1. "block" \in Writers /\ "blocked" \in Texts \cup Pages
      BY DEF Writers, Pages
    <3> QED BY <3>1, AnswersOfHandlers
  <2>4. resp' = a => Described(resp')
    BY <2>3 DEF Described
  <2>5. Answers1
    BY <1>3, <1>4, <1>5, <2>1, <2>2, <2>3, <2>4 DEF Req!Wait, Req!Respond
  <2> QED BY <1>1, <1>2, <2>5
<1>6. CASE h.kind = "localFile"
  <2>1. Req!Answering(h) /\ h \in LocalFiles
    BY <1>6, HandlersHaveKinds DEF Req!Answering
  <2>2. Req!Respond(Req!LocalFile(h)) /\ Req!Wait(0)
    BY <1>1, <1>6 DEF Req!HandleRequest
  <2>3. Answers1
    BY <1>3, <1>6, <2>1, <2>2, LocalFileAnswers DEF Req!Wait, Req!Respond
  <2> QED BY <1>1, <1>2, <2>3
<1>7. CASE h.kind = "modifyRequest"
  <2>1. ~Req!Answering(h) /\ h \in RequestChanges
    BY <1>7, HandlersHaveKinds DEF Req!Answering
  <2>2. Req!Proceed(Req!ModifyRequest(req, h)) /\ Req!Wait(0)
    BY <1>1, <1>7 DEF Req!HandleRequest
  <2>3. LeastOut(h) = 0 /\ MostOut(h) = 0
    BY <1>7 DEF LeastOut, MostOut
  <2>4. /\ req' = Req!ModifyRequest(req, h) /\ waited' = waited + 0 /\ todo' = Tail(todo)
        /\ resp' = resp
        /\ stage' = "request"
    BY <1>2, <2>2 DEF Req!Proceed, Req!Wait
  <2>5. Req!ModifyRequest(req, h) \in RequestsOfClients
    BY <1>3, <2>1, ChangedRequest
  <2>6. req'.uri = IF h.url # Absent THEN Req!ModifyUrl(req.uri, h.url) ELSE req.uri
    BY <1>3, <2>1, <2>4, ChangedRequest
  <2>7. req'.uri = CASE h.kind = "modifyRequest" /\ h.url # Absent -> Req!ModifyUrl(req.uri, h.url)
                     [] h.kind = "proxyForward" -> Req!ProxyForward(req.uri, h)
                     [] OTHER -> req.uri
    BY <1>7, <2>6
  <2>8. \E w \in Nat : waited' = waited + w /\ LeastOut(h) <= w /\ w <= MostOut(h)
    BY <2>3, <2>4
  <2>9. GoesOn
    BY <2>1, <2>4, <2>5, <2>7, <2>8
  <2> QED BY <1>1, <1>2, <2>9
<1>8. CASE h.kind = "proxyForward"
  <2>1. h \in Forwards
    BY <1>8, HandlersHaveKinds
  <2>2. /\ IF Req!ForwardInvalid(h) THEN Req!Fail ELSE Req!Proceed([req EXCEPT !.uri = Req!ProxyForward(@, h)])
        /\ Req!Wait(0)
    BY <1>1, <1>8 DEF Req!HandleRequest
  <2>3. CASE Req!ForwardInvalid(h)
    <3>1. Req!Answering(h)
      BY <1>8, <2>3 DEF Req!Answering
    <3>2. Answers1
      BY <1>3, <1>4, <1>8, <2>2, <2>3, <3>1 DEF Req!Wait
    <3> QED BY <1>1, <1>2, <3>2
  <2>4. CASE ~Req!ForwardInvalid(h)
    <3>1. ~Req!Answering(h)
      BY <1>8, <2>4 DEF Req!Answering
    <3>2. PICK u \in Uris : u = Req!ProxyForward(req.uri, h)
      BY <1>3, <2>1, ForwardedUri
    <3>3. /\ req' = [req EXCEPT !.uri = u] /\ waited' = waited + 0 /\ todo' = Tail(todo)
          /\ resp' = resp
          /\ stage' = "request"
      BY <1>2, <2>2, <2>4, <3>2 DEF Req!Proceed, Req!Wait
    <3>4. req' \in RequestsOfClients /\ req'.uri = u
      BY <1>3, <3>3 DEF RequestsOfClients
    <3>5. LeastOut(h) = 0 /\ MostOut(h) = 0
      BY <1>8 DEF LeastOut, MostOut
    <3>6. req'.uri = CASE h.kind = "modifyRequest" /\ h.url # Absent -> Req!ModifyUrl(req.uri, h.url)
                       [] h.kind = "proxyForward" -> Req!ProxyForward(req.uri, h)
                       [] OTHER -> req.uri
      BY <1>8, <3>2, <3>4
    <3>7. \E w \in Nat : waited' = waited + w /\ LeastOut(h) <= w /\ w <= MostOut(h)
      BY <3>3, <3>5
    <3>8. GoesOn
      BY <3>1, <3>3, <3>4, <3>6, <3>7
    <3> QED BY <1>1, <1>2, <3>8
  <2> QED BY <2>3, <2>4
<1>9. CASE h.kind = "delay"
  <2>1. h \in Delays /\ ~Req!Answering(h)
    BY <1>9, HandlersHaveKinds DEF Req!Answering
  <2>2. /\ Req!Proceed(req)
        /\ \E ms \in Req!DelayRange(h) :
             Req!Wait(CASE h.type = "before" -> ms [] h.type = "both" -> ms \div 2 [] OTHER -> 0)
    BY <1>1, <1>9 DEF Req!HandleRequest
  <2>3. PICK ms \in Req!DelayRange(h) :
          waited' = waited + (CASE h.type = "before" -> ms [] h.type = "both" -> ms \div 2 [] OTHER -> 0)
    BY <2>2 DEF Req!Wait
  <2>4. PICK lo \in Nat, hi \in Nat : /\ lo = Req!Max2(0, h.ms - h.variance)
                                      /\ hi = h.ms + h.variance
                                      /\ ms \in Nat /\ lo <= ms /\ ms <= hi
    BY <2>1, DelaysAreRanges
  <2>5. /\ LeastOut(h) = CASE h.type = "before" -> lo [] h.type = "both" -> lo \div 2 [] OTHER -> 0
        /\ MostOut(h) = CASE h.type = "before" -> hi [] h.type = "both" -> hi \div 2 [] OTHER -> 0
    BY <1>9, <2>4 DEF LeastOut, MostOut
  <2>6. lo \div 2 <= ms \div 2 /\ ms \div 2 <= hi \div 2 /\ ms \div 2 \in Nat
    BY <2>4, Halves
  <2>7. h.type \in {"before", "after", "both"}
    BY <2>1 DEF Delays
  <2>8. \E w \in Nat : waited' = waited + w /\ LeastOut(h) <= w /\ w <= MostOut(h)
    BY <2>3, <2>4, <2>5, <2>6, <2>7
  <2>9. req' = req /\ todo' = Tail(todo) /\ resp' = resp /\ stage' = "request"
    BY <1>2, <2>2 DEF Req!Proceed
  <2>10. req'.uri = CASE h.kind = "modifyRequest" /\ h.url # Absent -> Req!ModifyUrl(req.uri, h.url)
                     [] h.kind = "proxyForward" -> Req!ProxyForward(req.uri, h)
                     [] OTHER -> req.uri
    BY <1>9, <2>9
  <2>11. GoesOn
    BY <1>3, <2>1, <2>8, <2>9, <2>10
  <2> QED BY <1>1, <1>2, <2>11
<1>10. CASE h.kind = "throttle"
  <2>1. h \in Throttles
    BY <1>10, HandlersHaveKinds
  <2>2. IF h.offline THEN Req!Respond(Req!Answered("throttle", Req!Body("offline"))) /\ Req!Wait(0)
        ELSE Req!Proceed(req) /\ Req!Wait(h.latency)
    BY <1>1, <1>10 DEF Req!HandleRequest
  <2>3. CASE h.offline
    <3>1. Req!Answering(h)
      BY <1>10, <2>3 DEF Req!Answering
    <3>2. PICK a \in Responses : /\ a = Req!Answered("throttle", Req!Body("offline"))
                                 /\ a.by = "throttle"
                                 /\ a.rates = << >> /\ Described(a)
      <4>1. "throttle" \in Writers /\ "offline" \in Texts \cup Pages
        BY DEF Writers, Pages
      <4> QED BY <4>1, AnswersOfHandlers
    <3>3. resp' = a => Described(resp')
      BY <3>2 DEF Described
    <3>4. Answers1
      BY <1>3, <1>10, <2>2, <2>3, <3>1, <3>2, <3>3 DEF Req!Wait, Req!Respond
    <3> QED BY <1>1, <1>2, <3>4
  <2>4. CASE ~h.offline
    <3>1. ~Req!Answering(h)
      BY <1>10, <2>4 DEF Req!Answering
    <3>2. req' = req /\ todo' = Tail(todo) /\ resp' = resp /\ stage' = "request"
          /\ waited' = waited + h.latency
      BY <1>2, <2>2, <2>4 DEF Req!Proceed, Req!Wait
    <3>3. h.latency \in Nat /\ LeastOut(h) = h.latency /\ MostOut(h) = h.latency
      BY <1>10, <2>1 DEF Throttles, LeastOut, MostOut
    <3>4. req'.uri = CASE h.kind = "modifyRequest" /\ h.url # Absent -> Req!ModifyUrl(req.uri, h.url)
                       [] h.kind = "proxyForward" -> Req!ProxyForward(req.uri, h)
                       [] OTHER -> req.uri
      BY <1>10, <3>2
    <3>5. \E w \in Nat : waited' = waited + w /\ LeastOut(h) <= w /\ w <= MostOut(h)
      BY <3>2, <3>3
    <3>6. GoesOn
      BY <1>3, <3>1, <3>2, <3>4, <3>5
    <3> QED BY <1>1, <1>2, <3>6
  <2> QED BY <2>3, <2>4
<1>11. CASE h.kind \in {"modifyResponse", "htmlScriptInjector"}
  <2>1. ~Req!Answering(h) /\ LeastOut(h) = 0 /\ MostOut(h) = 0
    BY <1>11 DEF Req!Answering, LeastOut, MostOut
  <2>2. Req!Proceed(req) /\ Req!Wait(0)
    BY <1>1, <1>11 DEF Req!HandleRequest
  <2>3. /\ req' = req /\ todo' = Tail(todo) /\ resp' = resp /\ stage' = "request"
        /\ waited' = waited + 0
    BY <1>2, <2>2 DEF Req!Proceed, Req!Wait
  <2>4. req'.uri = CASE h.kind = "modifyRequest" /\ h.url # Absent -> Req!ModifyUrl(req.uri, h.url)
                     [] h.kind = "proxyForward" -> Req!ProxyForward(req.uri, h)
                     [] OTHER -> req.uri
    BY <1>11, <2>3
  <2>5. GoesOn
    BY <1>3, <2>1, <2>3, <2>4
  <2> QED BY <1>1, <1>2, <2>5
<1> QED BY <1>5, <1>6, <1>7, <1>8, <1>9, <1>10, <1>11, HandlersHaveKinds

\* One handler on the way back.
LEMMA BackStep ==
  ASSUME ProcessingConstants, RequestTyped, Req!HandleResponse
  PROVE  LET h == Head(todo) IN
         /\ stage = "response" /\ todo # << >> /\ h \in Handlers
         /\ stage' = "response" /\ todo' = Tail(todo) /\ req' = req
         /\ asked' = asked /\ rules' = rules /\ original' = original
         /\ flight' = flight /\ sent' = sent /\ clock' = clock
         /\ resp' \in Responses /\ resp'.by = resp.by
         /\ \E w \in Nat : waited' = waited + w /\ LeastBack(h) <= w /\ w <= MostBack(h)
         /\ Described(resp) =>
              Described(resp') \/ (h.kind = "htmlScriptInjector" /\ Gap(resp', h.blank))
         /\ \A b \in BOOLEAN : Gap(resp, b) =>
              \/ Described(resp') \/ Gap(resp', b)
              \/ h.kind = "htmlScriptInjector" /\ Gap(resp', h.blank)
<1>1. PICK h \in Handlers : h = Head(todo) /\ todo # << >>
  BY DEF RequestTyped, Req!HandleResponse
<1>2. /\ stage = "response" /\ stage' = "response" /\ todo' = Tail(todo) /\ req' = req
      /\ asked' = asked /\ rules' = rules /\ original' = original
      /\ flight' = flight /\ sent' = sent /\ clock' = clock
  BY DEF Req!HandleResponse, Req!restVars, Req!streamVars
<1>3. resp \in Responses /\ waited \in Nat
  BY DEF RequestTyped
<1>4. resp' = CASE h.kind = "modifyResponse" -> Req!ModifyResponse(resp, h)
                [] h.kind = "htmlScriptInjector" -> Req!HtmlScriptInjector(resp, h)
                [] h.kind = "throttle" -> Req!Throttled(resp, h.download)
                [] OTHER -> resp
  BY <1>1 DEF Req!HandleResponse
<1> DEFINE Result ==
             /\ resp' \in Responses /\ resp'.by = resp.by
             /\ Described(resp) =>
                  Described(resp') \/ (h.kind = "htmlScriptInjector" /\ Gap(resp', h.blank))
             /\ \A b \in BOOLEAN : Gap(resp, b) =>
                  \/ Described(resp') \/ Gap(resp', b)
                  \/ h.kind = "htmlScriptInjector" /\ Gap(resp', h.blank)
<1>5. Result
  <2>1. CASE h.kind = "modifyResponse"
    <3>1. PICK n \in Responses : /\ n = Req!ModifyResponse(resp, h) /\ n.by = resp.by
                                 /\ (n = resp \/ Described(n))
      BY <1>3, <2>1, HandlersHaveKinds, ChangedResponse
    <3>2. resp' = n
      BY <1>4, <2>1, <3>1
    <3> QED BY <3>1, <3>2 DEF Gap, Described
  <2>2. CASE h.kind = "htmlScriptInjector"
    <3> DEFINE n == Req!HtmlScriptInjector(resp, h)
    <3>1. resp' = n
      BY <1>4, <2>2
    <3>2. /\ n \in Responses /\ n.by = resp.by
          /\ Described(resp) => Described(n) \/ Gap(n, h.blank)
          /\ \A b \in BOOLEAN : Gap(resp, b) => Described(n) \/ Gap(n, h.blank) \/ Gap(n, b)
      BY <1>3, <2>2, HandlersHaveKinds, InjectedResponse
    <3> HIDE DEF n
    <3> QED BY <2>2, <3>1, <3>2 DEF Gap, Described
  <2>3. CASE h.kind = "throttle"
    <3>1. h.download \in Nat
      BY <2>3, HandlersHaveKinds DEF Throttles
    <3>2. PICK n \in Responses :
            /\ n = Req!Throttled(resp, h.download)
            /\ n.by = resp.by /\ n.encoding = resp.encoding /\ n.length = resp.length
            /\ n.chunked = resp.chunked /\ n.body = resp.body
      BY <1>3, <3>1, ThrottledResponse
    <3>3. resp' = n
      BY <1>4, <2>3, <3>2
    <3> QED BY <3>2, <3>3 DEF Gap, Described
  <2>4. CASE h.kind \notin {"modifyResponse", "htmlScriptInjector", "throttle"}
    <3>1. resp' = resp
      BY <1>4, <2>4
    <3> QED BY <1>3, <3>1 DEF Gap, Described
  <2> QED BY <2>1, <2>2, <2>3, <2>4
<1>6. \E w \in Nat : waited' = waited + w /\ LeastBack(h) <= w /\ w <= MostBack(h)
  <2>1. CASE h.kind = "delay"
    <3>1. h \in Delays
      BY <2>1, HandlersHaveKinds
    <3>2. PICK ms \in Req!DelayRange(h) :
            waited' = waited + (CASE h.type = "after" -> ms [] h.type = "both" -> ms \div 2 [] OTHER -> 0)
      BY <1>1, <2>1 DEF Req!HandleResponse, Req!Wait
    <3>3. PICK lo \in Nat, hi \in Nat : /\ lo = Req!Max2(0, h.ms - h.variance)
                                        /\ hi = h.ms + h.variance
                                        /\ ms \in Nat /\ lo <= ms /\ ms <= hi
      BY <3>1, DelaysAreRanges
    <3>4. /\ LeastBack(h) = CASE h.type = "after" -> lo [] h.type = "both" -> lo \div 2 [] OTHER -> 0
          /\ MostBack(h) = CASE h.type = "after" -> hi [] h.type = "both" -> hi \div 2 [] OTHER -> 0
      BY <2>1, <3>3 DEF LeastBack, MostBack
    <3>5. lo \div 2 <= ms \div 2 /\ ms \div 2 <= hi \div 2 /\ ms \div 2 \in Nat
      BY <3>3, Halves
    <3>6. h.type \in {"before", "after", "both"}
      BY <3>1 DEF Delays
    <3> QED BY <3>2, <3>3, <3>4, <3>5, <3>6
  <2>2. CASE h.kind # "delay"
    <3>1. waited' = waited + 0
      BY <1>1, <2>2 DEF Req!HandleResponse, Req!Wait
    <3>2. LeastBack(h) = 0 /\ MostBack(h) = 0
      BY <2>2 DEF LeastBack, MostBack
    <3> QED BY <3>1, <3>2
  <2> QED BY <2>1, <2>2
<1> HIDE DEF Result
<1>7. Result /\ h = Head(todo)
  BY <1>1, <1>5
<1> QED BY <1>1, <1>2, <1>6, <1>7 DEF Result

\* Without rules nothing runs.
LEMMA RunOfNone ==
  Req!SortedHandlers(<< >>) = << >>
<1>1. DOMAIN << >> = {}
  OBVIOUS
<1>2. Req!MatchingRules(<< >>) = {}
  BY <1>1, Zenon DEF Req!MatchingRules
<1>3. Req!AllHandlers(<< >>) = {}
  BY <1>2, Zenon DEF Req!AllHandlers
<1>4. Cardinality(Req!AllHandlers(<< >>)) = 0
  BY <1>3, FS_EmptySet
<1>5. DOMAIN Req!SortedHandlers(<< >>) = 1 .. 0
  BY <1>4, RequestSizes DEF Req!SortedHandlers
<1>6. << >> \in Seq(Rules)
  OBVIOUS
<1>7. Req!SortedHandlers(<< >>) \in Seq(Handlers)
  BY <1>6, SortedIsSorted
<1> QED BY <1>5, <1>7

LEMMA RunIsASequence ==
  ASSUME RequestTyped
  PROVE  Req!Run \in Seq(Handlers) /\ Len(Req!Run) \in Nat /\ DOMAIN Req!Run = 1 .. Len(Req!Run)
<1>1. Req!Run \in Seq(Handlers)
  BY SortedIsSorted DEF Req!Run, RequestTyped
<1> QED BY <1>1

\* The steps that leave the rules and the client alone.
\* The types of the state.
LEMMA RequestTypedStep ==
  ASSUME ProcessingConstants, RequestTyped, [Req!Next]_(Req!vars)
  PROVE  RequestTyped'
<1>1. CASE Req!FindMatchingRules
  <2>1. << >> \in Seq(Rules) /\ << >> \in Seq(Handlers)
    OBVIOUS
  <2>2. rules' \in Seq(Rules) /\ todo' \in Seq(Handlers)
    BY <1>1, <2>1, SortedIsSorted DEF Req!FindMatchingRules, RequestTyped
  <2> QED BY <1>1, <2>2 DEF Req!FindMatchingRules, RequestTyped, Req!streamVars, Stages
<1>2. CASE Req!HandleRequest
  <2>1. PICK h : h = Head(todo)
    OBVIOUS
  <2>2. /\ asked' = asked /\ rules' = rules /\ original' = original
        /\ flight' = flight /\ sent' = sent /\ clock' = clock /\ todo # << >>
        /\ resp' \in Responses /\ req' \in RequestsOfClients /\ todo' \in {<< >>, Tail(todo)}
        /\ stage' \in {"deliver", "request"} /\ \E w \in Nat : waited' = waited + w
    <3>1. resp \in Responses /\ req \in RequestsOfClients /\ waited \in Nat /\ waited = waited + 0
      BY DEF RequestTyped
    <3> QED BY <1>2, <3>1, OutStep
  <2>3. todo' \in Seq(Handlers)
    <3>1. << >> \in Seq(Handlers) /\ Tail(todo) \in Seq(Handlers)
      BY <2>2 DEF RequestTyped
    <3> QED BY <2>2, <3>1
  <2> QED BY <2>2, <2>3 DEF RequestTyped, Stages
<1>3. CASE Req!Upstream
  <2>1. /\ todo' \in Seq(Handlers) /\ resp' \in Responses /\ req' = req
        /\ stage' \in {"response", "deliver"}
    <3>1. CASE Req!Fail
      <4>1. Req!Answered("error", Req!Body("error")) \in Responses
        <5>1. "error" \in Writers /\ "error" \in Texts \cup Pages
          BY DEF Writers, Pages
        <5> QED BY <5>1, AnswersOfHandlers
      <4>2. << >> \in Seq(Handlers)
        OBVIOUS
      <4> QED BY <3>1, <4>1, <4>2 DEF Req!Fail, Req!Respond
    <3>2. CASE resp' \in Answers /\ stage' = "response" /\ todo' = Req!SortedHandlers(rules) /\ req' = req
      BY <3>2, SortedIsSorted DEF RequestTyped, ProcessingConstants
    <3> QED BY <1>3, <3>1, <3>2 DEF Req!Upstream
  <2> QED BY <1>3, <2>1 DEF Req!Upstream, RequestTyped, Req!restVars, Req!streamVars, Stages
<1>4. CASE Req!HandleResponse
  <2>1. /\ stage' = "response" /\ req' = req /\ asked' = asked /\ rules' = rules
        /\ original' = original
        /\ flight' = flight /\ sent' = sent /\ clock' = clock /\ todo # << >> /\ todo' = Tail(todo)
        /\ resp' \in Responses /\ \E w \in Nat : waited' = waited + w
    BY <1>4, BackStep
  <2>2. todo' \in Seq(Handlers)
    BY <2>1 DEF RequestTyped
  <2> QED BY <2>1, <2>2 DEF RequestTyped, Stages
<1>5. CASE Req!Deliver
  BY <1>5 DEF Req!Deliver, RequestTyped, Req!restVars, Req!streamVars, Stages
<1>6. CASE Req!PollFrame
  <2>1. flight' \in [length : Nat, passed : Nat]
    <3>1. Req!Pulled + 1 \in DOMAIN Frames
      <4>1. Req!Pulled \in Nat
        BY DEF RequestTyped, Req!Pulled
      <4>2. Req!Coming \in {<< >>, Frames} /\ Frames \in Seq(Nat)
        BY DEF Req!Coming, ProcessingConstants
      <4>3. Req!Left <= Len(Frames) /\ Req!Left \in Int /\ Len(Frames) \in Nat
        BY <4>2 DEF Req!Left
      <4> QED BY <1>6, <4>1, <4>2, <4>3 DEF Req!PollFrame
    <3> QED BY <1>6, <3>1 DEF Req!PollFrame, ProcessingConstants
  <2> QED BY <1>6, <2>1 DEF Req!PollFrame, RequestTyped, Req!handled
<1>7. CASE Req!SleepForChunk
  <2>1. flight \in [length : Nat, passed : Nat]
    BY <1>7 DEF Req!SleepForChunk, RequestTyped
  <2>2. resp.rates \in Seq(Nat \ {0})
    BY DEF RequestTyped, Responses
  <2>3. flight.passed + 1 \in DOMAIN resp.rates
    BY <1>7, <2>1, <2>2 DEF Req!SleepForChunk
  <2>4. PICK b \in Nat \ {0} : b = resp.rates[flight.passed + 1]
    BY <2>2, <2>3
  <2>5. PICK l \in Nat : l = flight.length
    BY <2>1
  <2>6. Req!DelayForChunk(b, l) \in Nat
    <3>1. (l * 1000) \div b \in Nat
      <4>1. l * 1000 \in Nat
        BY <2>5
      <4> QED BY <2>4, <4>1
    <3> QED BY <3>1 DEF Req!DelayForChunk
  <2>7. clock' \in Nat
    BY <1>7, <2>4, <2>5, <2>6 DEF Req!SleepForChunk, RequestTyped
  <2>8. flight' \in [length : Nat, passed : Nat]
    BY <1>7, <2>1 DEF Req!SleepForChunk
  <2> QED BY <1>7, <2>7, <2>8 DEF Req!SleepForChunk, RequestTyped, Req!handled
<1>8. CASE Req!TakeFrame
  <2>1. flight \in [length : Nat, passed : Nat]
    BY <1>8 DEF Req!TakeFrame, RequestTyped
  <2> QED BY <1>8, <2>1 DEF Req!TakeFrame, RequestTyped, Req!handled
<1>9. CASE Req!Finish
  BY <1>9 DEF Req!Finish, RequestTyped, Req!handled, Req!streamVars, Stages
<1>10. CASE UNCHANGED Req!vars
  BY <1>10 DEF RequestTyped, Req!vars
<1> QED BY <1>1, <1>2, <1>3, <1>4, <1>5, <1>6, <1>7, <1>8, <1>9, <1>10 DEF Req!Next, Req!Step,
      Req!Over

\* The next handler is the one after those that have run, and with none left all have.
LEMMA HeadRunsNext ==
  ASSUME RequestTyped, Queue, todo # << >>
  PROVE  /\ Handled \in Nat /\ Handled + 1 \in DOMAIN Req!Run /\ Head(todo) = Req!Run[Handled + 1]
         /\ Len(Req!Run) - Len(Tail(todo)) = Handled + 1
<1>1. PICK r \in Seq(Handlers) : r = Req!Run
  BY RunIsASequence
<1>2. todo \in Seq(Handlers) /\ Len(todo) \in Nat /\ Len(todo) >= 1
  BY DEF RequestTyped
<1>3. Handled = Len(r) - Len(todo) /\ Handled >= 0
  BY <1>1 DEF Handled, Queue
<1>4. 1 \in DOMAIN todo /\ Head(todo) = todo[1]
  BY <1>2
<1>5. Head(todo) = r[Handled + 1]
  BY <1>1, <1>4 DEF Queue
<1>6. Len(Tail(todo)) = Len(todo) - 1
  BY <1>2
<1> QED BY <1>1, <1>2, <1>3, <1>5, <1>6

LEMMA AllHandled ==
  ASSUME RequestTyped, todo = << >>
  PROVE  Handled = Len(Req!Run)
BY RunIsASequence DEF Handled

\* The bodies: nothing of the rules changes.
Streaming == Req!PollFrame \/ Req!SleepForChunk \/ Req!TakeFrame \/ Req!Finish

LEMMA StreamingKeeps ==
  ASSUME Streaming
  PROVE  /\ stage = "deliver" /\ stage' \in {"deliver", "done", "broken"}
         /\ rules' = rules /\ todo' = todo /\ req' = req /\ resp' = resp /\ waited' = waited
         /\ asked' = asked /\ original' = original
BY DEF Streaming, Req!PollFrame, Req!SleepForChunk, Req!TakeFrame, Req!Finish, Req!handled

\* The handlers still to run are the last of those that do, on both ways.
LEMMA QueueStep ==
  ASSUME ProcessingConstants, RequestTyped, Queue, [Req!Next]_(Req!vars)
  PROVE  Queue'
<1>1. CASE Req!FindMatchingRules
  <2>1. todo' = Req!Run'
    BY <1>1, RunOfNone DEF Req!FindMatchingRules, Req!Run
  <2>2. RequestTyped'
    BY RequestTypedStep
  <2>3. Req!Run' \in Seq(Handlers)
    BY <2>2, SortedIsSorted DEF Req!Run, RequestTyped
  <2>4. stage' = "request"
    BY <1>1 DEF Req!FindMatchingRules
  <2> QED BY <2>1, <2>3, <2>4 DEF Queue, Handled
<1>2. ASSUME stage' = stage, todo # << >>, todo' = Tail(todo), rules' = rules, stage \in {"request", "response"}
      PROVE  Queue'
  <2>1. Req!Run' = Req!Run
    BY <1>2 DEF Req!Run
  <2>2. Handled' = Handled + 1 /\ Handled \in Nat
    BY <1>2, <2>1, HeadRunsNext DEF Handled
  <2>3. \A k \in DOMAIN todo' : todo'[k] = Req!Run[(Handled + 1) + k]
    <3> TAKE k \in DOMAIN todo'
    <3>1. todo \in Seq(Handlers)
      BY DEF RequestTyped
    <3>2. k + 1 \in DOMAIN todo /\ todo'[k] = todo[k + 1] /\ k \in Nat
      BY <1>2, <3>1
    <3>3. todo[k + 1] = Req!Run[Handled + (k + 1)]
      BY <3>2 DEF Queue
    <3>4. Handled + (k + 1) = (Handled + 1) + k
      BY <2>2, <3>2
    <3> QED BY <3>2, <3>3, <3>4
  <2> QED BY <1>2, <2>1, <2>2, <2>3 DEF Queue
<1>3. ASSUME todo' = << >>, rules' = rules
      PROVE  Queue'
  <2>1. Req!Run' = Req!Run /\ Len(Req!Run) \in Nat
    BY <1>3, RunIsASequence DEF Req!Run
  <2> QED BY <1>3, <2>1 DEF Queue, Handled
<1>4. CASE Req!HandleRequest
  <2>1. rules' = rules /\ stage = "request" /\ todo # << >>
        /\ (todo' = << >> \/ (stage' = "request" /\ todo' = Tail(todo)))
    BY <1>4, OutStep
  <2> QED BY <1>2, <1>3, <2>1
<1>5. CASE Req!Upstream
  <2>1. /\ rules' = rules
        /\ (todo' = << >> \/ (stage' = "response" /\ todo' = Req!SortedHandlers(rules)))
    BY <1>5 DEF Req!Upstream, Req!Fail, Req!Respond, Req!restVars
  <2>2. CASE stage' = "response" /\ todo' = Req!SortedHandlers(rules)
    <3>1. todo' = Req!Run /\ Req!Run' = Req!Run
      BY <2>1, <2>2 DEF Req!Run
    <3> QED BY <2>2, <3>1, RunIsASequence DEF Queue, Handled
  <2> QED BY <1>3, <2>1, <2>2
<1>6. CASE Req!HandleResponse
  <2>1. /\ rules' = rules /\ stage = "response" /\ stage' = "response" /\ todo # << >>
        /\ todo' = Tail(todo)
    BY <1>6, BackStep
  <2> QED BY <1>2, <2>1
<1>7. CASE Req!Deliver
  <2>1. rules' = rules /\ todo' = << >>
    BY <1>7 DEF Req!Deliver, Req!restVars
  <2> QED BY <1>3, <2>1
<1>8. CASE Streaming
  <2>1. todo = << >>
    BY <1>8, StreamingKeeps DEF Queue
  <2> QED BY <1>3, <1>8, <2>1, StreamingKeeps
<1>9. CASE UNCHANGED Req!vars
  BY <1>9 DEF Queue, Handled, Req!Run, Req!vars
<1> QED BY <1>1, <1>4, <1>5, <1>6, <1>7, <1>8, <1>9 DEF Req!Next, Req!Step, Req!Over, Streaming

\* A response is described, or an injector has run that leaves it undescribed.
LEMMA HeadersStep ==
  ASSUME ProcessingConstants, RequestTyped, Queue, HeadersInv, [Req!Next]_(Req!vars)
  PROVE  HeadersInv'
<1>1. CASE Req!FindMatchingRules
  BY <1>1 DEF Req!FindMatchingRules, HeadersInv
<1>2. CASE Req!HandleRequest
  <2>1. stage' = "request" \/ Described(resp')
    BY <1>2, OutStep
  <2> QED BY <2>1 DEF HeadersInv, Described
<1>3. CASE Req!Upstream
  <2>1. CASE Req!Fail
    <3>1. "error" \in Writers /\ "error" \in Texts \cup Pages
      BY DEF Writers, Pages
    <3>2. PICK a : a = Req!Answered("error", Req!Body("error")) /\ Described(a)
      BY <3>1, AnswersOfHandlers
    <3>3. resp' = a
      BY <2>1, <3>2 DEF Req!Fail, Req!Respond
    <3> QED BY <3>2, <3>3 DEF HeadersInv, Described
  <2>2. CASE resp' \in Answers
    <3>1. PICK a : a = resp' /\ Described(a)
      BY <2>2 DEF ProcessingConstants
    <3> QED BY <3>1 DEF HeadersInv, Described
  <2> QED BY <1>3, <2>1, <2>2 DEF Req!Upstream
<1>4. CASE Req!HandleResponse
  <2>1. PICK h \in Handlers : h = Head(todo)
    BY <1>4, BackStep
  <2>2. /\ stage = "response" /\ rules' = rules /\ todo # << >> /\ todo' = Tail(todo)
        /\ Described(resp) =>
             Described(resp') \/ (h.kind = "htmlScriptInjector" /\ Gap(resp', h.blank))
        /\ \A b \in BOOLEAN : Gap(resp, b) =>
             \/ Described(resp') \/ Gap(resp', b)
             \/ h.kind = "htmlScriptInjector" /\ Gap(resp', h.blank)
    BY <1>4, <2>1, BackStep
  <2>3. PICK n \in Nat : /\ n = Handled /\ n + 1 \in DOMAIN Req!Run /\ h = Req!Run[n + 1]
                         /\ Handled' = n + 1 /\ Req!Run' = Req!Run
    <3>1. Req!Run' = Req!Run
      BY <2>2 DEF Req!Run
    <3> QED BY <2>1, <2>2, <3>1, HeadRunsNext DEF Handled
  <2>4. \/ Described(resp)
        \/ \E i \in 1 .. n : Req!Run[i].kind = "htmlScriptInjector" /\ Gap(resp, Req!Run[i].blank)
    BY <2>2, <2>3 DEF HeadersInv, Gap
  <2>5. \/ Described(resp')
        \/ \E i \in 1 .. n + 1 : Req!Run[i].kind = "htmlScriptInjector" /\ Gap(resp', Req!Run[i].blank)
    <3>1. CASE h.kind = "htmlScriptInjector" /\ Gap(resp', h.blank)
      BY <2>3, <3>1
    <3>2. CASE Described(resp)
      BY <2>2, <3>1, <3>2
    <3>3. CASE \E i \in 1 .. n : Req!Run[i].kind = "htmlScriptInjector" /\ Gap(resp, Req!Run[i].blank)
      <4>1. PICK i \in 1 .. n : /\ Req!Run[i].kind = "htmlScriptInjector"
                                /\ Gap(resp, Req!Run[i].blank)
        BY <3>3
      <4>2. i \in DOMAIN Req!Run /\ Req!Run[i] \in Handlers
        BY <2>3, RunIsASequence
      <4>3. Req!Run[i].blank \in BOOLEAN
        BY <4>1, <4>2, HandlersHaveKinds DEF Injectors
      <4>4. \/ Described(resp') \/ Gap(resp', Req!Run[i].blank)
            \/ h.kind = "htmlScriptInjector" /\ Gap(resp', h.blank)
        BY <2>2, <4>1, <4>3
      <4>5. i \in 1 .. n + 1
        OBVIOUS
      <4> QED BY <3>1, <4>1, <4>4, <4>5
    <3> QED BY <2>4, <3>2, <3>3
  <2> QED BY <2>3, <2>5 DEF HeadersInv, Gap, Described
<1>5. CASE Req!Deliver
  BY <1>5 DEF Req!Deliver, HeadersInv, Handled, Req!Run, Described, Req!restVars
<1>6. CASE Streaming
  BY <1>6, StreamingKeeps DEF HeadersInv, Handled, Req!Run, Described
<1>7. CASE UNCHANGED Req!vars
  BY <1>7 DEF HeadersInv, Handled, Req!Run, Described, Req!vars
<1> QED BY <1>1, <1>2, <1>3, <1>4, <1>5, <1>6, <1>7 DEF Req!Next, Req!Step, Req!Over, Streaming

\* The upstream is asked when no handler has answered, else the first that does has.
LEMMA DecidingStep ==
  ASSUME ProcessingConstants, RequestTyped, Queue, Deciding, [Req!Next]_(Req!vars)
  PROVE  Deciding'
<1>1. CASE Req!FindMatchingRules
  <2>1. Handled' = 0
    <3>1. todo' = Req!Run'
      BY <1>1, RunOfNone DEF Req!FindMatchingRules, Req!Run
    <3>2. RequestTyped'
      BY RequestTypedStep
    <3>3. Req!Run' \in Seq(Handlers)
      BY <3>2, SortedIsSorted DEF Req!Run, RequestTyped
    <3> QED BY <3>1, <3>3 DEF Handled
  <2>2. stage' = "request" /\ asked' = {}
    BY <1>1 DEF Req!FindMatchingRules, Deciding
  <2> QED BY <2>1, <2>2 DEF Deciding
<1>2. CASE Req!HandleRequest
  <2>1. PICK h \in Handlers : h = Head(todo)
    BY <1>2, OutStep
  <2>2. /\ stage = "request" /\ rules' = rules /\ todo # << >> /\ asked' = asked
        /\ \/ Req!Answering(h) /\ stage' = "deliver" /\ resp'.by \in {h.kind, "error"}
           \/ ~Req!Answering(h) /\ stage' = "request" /\ todo' = Tail(todo)
    BY <1>2, <2>1, OutStep
  <2>3. PICK n \in Nat : /\ n = Handled /\ n + 1 \in DOMAIN Req!Run /\ h = Req!Run[n + 1]
                         /\ Req!Run' = Req!Run
                         /\ (todo' = Tail(todo) => Handled' = n + 1)
    <3>1. Req!Run' = Req!Run
      BY <2>2 DEF Req!Run
    <3> QED BY <2>1, <2>2, <3>1, HeadRunsNext DEF Handled
  <2>4. asked = {} /\ \A j \in 1 .. n : ~Req!Answering(Req!Run[j])
    BY <2>2, <2>3 DEF Deciding
  <2>5. CASE Req!Answering(h) /\ stage' = "deliver" /\ resp'.by \in {h.kind, "error"}
    <3>1. \A j \in 1 .. (n + 1) - 1 : ~Req!Answering(Req!Run[j])
      BY <2>4
    <3>2. \E i \in DOMAIN Req!Run :
            /\ Req!Answering(Req!Run[i]) /\ \A j \in 1 .. i - 1 : ~Req!Answering(Req!Run[j])
            /\ resp'.by \in {Req!Run[i].kind, "error"}
      BY <2>3, <2>5, <3>1
    <3> QED BY <2>2, <2>3, <2>4, <2>5, <3>2 DEF Deciding
  <2>6. CASE ~Req!Answering(h) /\ stage' = "request" /\ todo' = Tail(todo)
    <3>1. \A j \in 1 .. n + 1 : ~Req!Answering(Req!Run[j])
      BY <2>3, <2>4, <2>6
    <3> QED BY <2>2, <2>3, <2>4, <2>6, <3>1 DEF Deciding
  <2> QED BY <2>2, <2>5, <2>6
<1>3. CASE Req!Upstream
  <2>1. asked' = {req} /\ Req!Run' = Req!Run /\ req' = req
    BY <1>3 DEF Req!Upstream, Deciding, Req!Run, Req!restVars, Req!Fail, Req!Respond
  <2>2. \A j \in DOMAIN Req!Run : ~Req!Answering(Req!Run[j])
    BY <1>3, AllHandled, RunIsASequence DEF Req!Upstream, Deciding
  <2>3. \/ stage' = "response" /\ resp'.by = "upstream"
        \/ stage' = "deliver" /\ resp'.by = "error"
    <3>1. CASE Req!Fail
      <4>1. "error" \in Writers /\ "error" \in Texts \cup Pages
        BY DEF Writers, Pages
      <4> QED BY <3>1, <4>1, AnswersOfHandlers DEF Req!Fail, Req!Respond
    <3>2. CASE resp' \in Answers /\ stage' = "response"
      BY <3>2 DEF ProcessingConstants
    <3> QED BY <1>3, <3>1, <3>2 DEF Req!Upstream
  <2> QED BY <2>1, <2>2, <2>3 DEF Deciding
<1>4. CASE Req!HandleResponse
  <2>1. /\ stage = "response" /\ stage' = "response" /\ Req!Run' = Req!Run /\ asked' = asked
        /\ req' = req
        /\ resp'.by = resp.by
    BY <1>4, BackStep DEF Req!Run
  <2> QED BY <2>1 DEF Deciding
<1>5. CASE Req!Deliver
  BY <1>5 DEF Req!Deliver, Deciding, Req!Run, Req!restVars
<1>6. CASE Streaming
  BY <1>6, StreamingKeeps DEF Deciding, Req!Run
<1>7. CASE UNCHANGED Req!vars
  BY <1>7 DEF Deciding, Handled, Req!Run, Req!vars
<1> QED BY <1>1, <1>2, <1>3, <1>4, <1>5, <1>6, <1>7 DEF Req!Next, Req!Step, Req!Over, Streaming

\* What a handler does to an address, in the terms of AddressedBy.
LEMMA OneMoreAddressed ==
  ASSUME ProcessingConstants, RequestTyped, NEW n \in Nat, n + 1 \in DOMAIN Req!Run, NEW uri \in Uris,
         AddressedBy(uri, n), NEW new,
         new = CASE Req!Run[n + 1].kind = "modifyRequest" /\ Req!Run[n + 1].url # Absent ->
                      Req!ModifyUrl(uri, Req!Run[n + 1].url)
                 [] Req!Run[n + 1].kind = "proxyForward" -> Req!ProxyForward(uri, Req!Run[n + 1])
                 [] OTHER -> uri
  PROVE  AddressedBy(new, n + 1)
<1>1. PICK h \in Handlers : h = Req!Run[n + 1]
  BY RunIsASequence
<1>2. \A i \in 1 .. n + 1 : i \in DOMAIN Req!Run /\ i \in Nat /\ Req!Run[i] \in Handlers
  BY RunIsASequence
<1>3. ASSUME NEW f \in {"scheme", "authority"}
      PROVE  \/ ~Names(n + 1, f) /\ new[f] = uri[f]
             \/ Names(n + 1, f) /\ new[f] = Req!Named(h, f)
  <2>1. CASE h.kind = "modifyRequest" /\ h.url # Absent
    <3>1. new = Req!ModifyUrl(uri, h.url)
      BY <1>1, <2>1
    <3>2. new[f] = Req!Or(h.url[f], uri[f])
      BY <3>1 DEF Req!ModifyUrl
    <3>3. Names(n + 1, f) <=> h.url[f] # Absent
      BY <1>1, <2>1 DEF Names, Req!Naming
    <3>4. Req!Named(h, f) = h.url[f]
      BY <2>1 DEF Req!Named
    <3> QED BY <3>2, <3>3, <3>4 DEF Req!Or
  <2>2. CASE h.kind = "proxyForward"
    <3>1. new = Req!ProxyForward(uri, h) /\ h \in Forwards
      BY <1>1, <2>2, HandlersHaveKinds
    <3>2. new[f] = Req!Or(h[f], uri[f])
      BY <3>1, ForwardedUri
    <3>3. Names(n + 1, f) <=> h[f] # Absent
      BY <1>1, <2>2 DEF Names, Req!Naming
    <3>4. Req!Named(h, f) = h[f]
      BY <2>2 DEF Req!Named
    <3> QED BY <3>2, <3>3, <3>4 DEF Req!Or
  <2>3. CASE ~(h.kind = "modifyRequest" /\ h.url # Absent) /\ h.kind # "proxyForward"
    <3>1. new = uri
      BY <1>1, <2>3
    <3>2. ~Names(n + 1, f)
      BY <1>1, <2>3 DEF Names, Req!Naming
    <3> QED BY <3>1, <3>2
  <2> QED BY <2>1, <2>2, <2>3
<1>4. ASSUME NEW f \in {"scheme", "authority"}
      PROVE  \/ new[f] = original.uri[f] /\ \A j \in 1 .. n + 1 : ~Names(j, f)
             \/ \E i \in 1 .. n + 1 :
                  /\ Names(i, f) /\ \A j \in i + 1 .. n + 1 : ~Names(j, f)
                  /\ new[f] = Req!Named(Req!Run[i], f)
  <2>1. CASE Names(n + 1, f)
    <3>1. new[f] = Req!Named(Req!Run[n + 1], f)
      BY <1>1, <1>3, <2>1
    <3>2. n + 1 \in 1 .. n + 1 /\ \A j \in (n + 1) + 1 .. n + 1 : ~Names(j, f)
      OBVIOUS
    <3> QED BY <2>1, <3>1, <3>2
  <2>2. CASE ~Names(n + 1, f)
    <3>1. new[f] = uri[f]
      BY <1>3, <2>2
    <3>2. CASE uri[f] = original.uri[f] /\ \A j \in 1 .. n : ~Names(j, f)
      <4>1. \A j \in 1 .. n + 1 : ~Names(j, f)
        BY <2>2, <3>2
      <4> QED BY <3>1, <3>2, <4>1
    <3>3. CASE \E i \in 1 .. n :
                 /\ Names(i, f) /\ \A j \in i + 1 .. n : ~Names(j, f)
                 /\ uri[f] = Req!Named(Req!Run[i], f)
      <4>1. PICK i \in 1 .. n :
              /\ Names(i, f) /\ \A j \in i + 1 .. n : ~Names(j, f)
              /\ uri[f] = Req!Named(Req!Run[i], f)
        BY <3>3
      <4>2. i \in 1 .. n + 1 /\ \A j \in i + 1 .. n + 1 : ~Names(j, f)
        BY <2>2, <4>1
      <4> QED BY <3>1, <4>1, <4>2
    <3> QED BY <3>2, <3>3 DEF AddressedBy
  <2> QED BY <2>1, <2>2
<1>5. uri.path \in Seq(Texts)
  BY DEF Uris
<1>6. \/ Req!IsSuffix(original.uri.path, new.path) /\ \A j \in 1 .. n + 1 : ~Writes(j)
      \/ \E i \in 1 .. n + 1 :
           /\ Writes(i) /\ \A j \in i + 1 .. n + 1 : ~Writes(j)
           /\ Req!IsSuffix(Req!Run[i].url.path, new.path)
  <2>1. CASE Writes(n + 1)
    <3>1. h.kind = "modifyRequest" /\ h.url # Absent /\ h.url["path"] # Absent
      BY <1>1, <2>1 DEF Writes, Names, Req!Naming
    <3>2. h.url \in Urls
      BY <3>1, HandlersHaveKinds DEF RequestChanges
    <3>3. h.url.path \in Seq(Texts) /\ h.url.path # Absent
      BY <3>1, <3>2 DEF Urls
    <3>4. new.path = h.url.path
      BY <1>1, <3>1, <3>3 DEF Req!ModifyUrl
    <3>5. Req!IsSuffix(Req!Run[n + 1].url.path, new.path)
      BY <1>1, <3>3, <3>4, SuffixOfItself
    <3>6. n + 1 \in 1 .. n + 1 /\ \A j \in (n + 1) + 1 .. n + 1 : ~Writes(j)
      OBVIOUS
    <3> QED BY <2>1, <3>5, <3>6
  <2>2. CASE ~Writes(n + 1)
    <3>1. \/ new.path = uri.path
          \/ h.path \in Texts /\ new.path = <<h.path>> \o uri.path
      <4>1. CASE h.kind = "modifyRequest" /\ h.url # Absent
        <5>1. h.url["path"] = Absent
          BY <1>1, <1>2, <2>2, <4>1 DEF Writes, Names, Req!Naming
        <5>2. h.url.path = Absent
          BY <5>1
        <5>3. new = Req!ModifyUrl(uri, h.url)
          BY <1>1, <4>1
        <5> QED BY <5>2, <5>3 DEF Req!ModifyUrl
      <4>2. CASE h.kind = "proxyForward"
        <5>1. new = Req!ProxyForward(uri, h) /\ h \in Forwards
          BY <1>1, <4>2, HandlersHaveKinds
        <5> QED BY <5>1, ForwardedUri
      <4>3. CASE ~(h.kind = "modifyRequest" /\ h.url # Absent) /\ h.kind # "proxyForward"
        BY <1>1, <4>3
      <4> QED BY <4>1, <4>2, <4>3
    <3>2. ASSUME NEW base \in Seq(Texts), Req!IsSuffix(base, uri.path)
          PROVE  Req!IsSuffix(base, new.path)
      BY <1>5, <3>1, <3>2, SuffixOfLonger
    <3>3. CASE Req!IsSuffix(original.uri.path, uri.path) /\ \A j \in 1 .. n : ~Writes(j)
      <4>1. original.uri.path \in Seq(Texts)
        BY DEF RequestTyped, RequestsOfClients, Uris
      <4>2. \A j \in 1 .. n + 1 : ~Writes(j)
        BY <2>2, <3>3
      <4> QED BY <3>2, <3>3, <4>1, <4>2
    <3>4. CASE \E i \in 1 .. n :
                 /\ Writes(i) /\ \A j \in i + 1 .. n : ~Writes(j)
                 /\ Req!IsSuffix(Req!Run[i].url.path, uri.path)
      <4>1. PICK i \in 1 .. n :
              /\ Writes(i) /\ \A j \in i + 1 .. n : ~Writes(j)
              /\ Req!IsSuffix(Req!Run[i].url.path, uri.path)
        BY <3>4
      <4>2. i \in 1 .. n + 1 /\ \A j \in i + 1 .. n + 1 : ~Writes(j)
        BY <2>2, <4>1
      <4>3. /\ Req!Run[i].kind = "modifyRequest" /\ Req!Run[i].url # Absent
            /\ Req!Run[i].url["path"] # Absent
        BY <4>1 DEF Writes, Names, Req!Naming
      <4>4. Req!Run[i].url \in Urls
        BY <1>2, <4>2, <4>3, HandlersHaveKinds DEF RequestChanges
      <4>5. Req!Run[i].url.path \in Seq(Texts)
        BY <4>3, <4>4 DEF Urls
      <4> QED BY <3>2, <4>1, <4>2, <4>5
    <3> QED BY <3>3, <3>4 DEF AddressedBy
  <2> QED BY <2>1, <2>2
<1> QED BY <1>4, <1>6 DEF AddressedBy

\* The address is the one the handlers so far have made of the client's.
LEMMA AddressedStep ==
  ASSUME ProcessingConstants, RequestTyped, Queue, Deciding, Addressed, [Req!Next]_(Req!vars)
  PROVE  Addressed'
<1>1. CASE Req!FindMatchingRules
  <2>1. Handled' = 0
    <3>1. todo' = Req!Run'
      BY <1>1, RunOfNone DEF Req!FindMatchingRules, Req!Run
    <3>2. RequestTyped'
      BY RequestTypedStep
    <3>3. Req!Run' \in Seq(Handlers)
      BY <3>2, SortedIsSorted DEF Req!Run, RequestTyped
    <3> QED BY <3>1, <3>3 DEF Handled
  <2>2. stage' = "request" /\ asked' = {} /\ req' = req /\ original' = original /\ req = original
    BY <1>1 DEF Req!FindMatchingRules, Deciding, Addressed
  <2>3. original.uri.path \in Seq(Texts)
    BY DEF RequestTyped, RequestsOfClients, Uris
  <2>4. AddressedBy(req.uri, Handled)'
    BY <2>1, <2>2, <2>3, SuffixOfItself DEF AddressedBy
  <2> QED BY <2>2, <2>4 DEF Addressed
<1>2. CASE Req!HandleRequest
  <2>1. PICK h \in Handlers : h = Head(todo)
    BY <1>2, OutStep
  <2>2. /\ stage = "request" /\ rules' = rules /\ todo # << >> /\ asked' = asked
        /\ original' = original
        /\ \/ stage' = "deliver"
           \/ /\ stage' = "request" /\ todo' = Tail(todo)
              /\ req'.uri = CASE h.kind = "modifyRequest" /\ h.url # Absent -> Req!ModifyUrl(req.uri, h.url)
                              [] h.kind = "proxyForward" -> Req!ProxyForward(req.uri, h)
                              [] OTHER -> req.uri
    BY <1>2, <2>1, OutStep
  <2>3. PICK n \in Nat : /\ n = Handled /\ n + 1 \in DOMAIN Req!Run /\ h = Req!Run[n + 1]
                         /\ Req!Run' = Req!Run
                         /\ (todo' = Tail(todo) => Handled' = n + 1)
    <3>1. Req!Run' = Req!Run
      BY <2>2 DEF Req!Run
    <3> QED BY <2>1, <2>2, <3>1, HeadRunsNext DEF Handled
  <2>4. asked' = {}
    BY <2>2 DEF Deciding
  <2>5. CASE stage' = "deliver"
    BY <2>4, <2>5 DEF Addressed
  <2>6. CASE /\ stage' = "request" /\ todo' = Tail(todo)
             /\ req'.uri = CASE h.kind = "modifyRequest" /\ h.url # Absent -> Req!ModifyUrl(req.uri, h.url)
                             [] h.kind = "proxyForward" -> Req!ProxyForward(req.uri, h)
                             [] OTHER -> req.uri
    <3>1. req.uri \in Uris
      BY DEF RequestTyped, RequestsOfClients
    <3>2. PICK new : new = req'.uri
      OBVIOUS
    <3>3. AddressedBy(req.uri, n)
      BY <2>2, <2>3 DEF Addressed
    <3>4. AddressedBy(new, n + 1)
      BY <2>3, <2>6, <3>1, <3>2, <3>3, OneMoreAddressed
    <3>5. AddressedBy(req.uri, Handled)'
      BY <2>2, <2>3, <2>6, <3>2, <3>4 DEF AddressedBy, Names, Writes
    <3> QED BY <2>4, <2>6, <3>5 DEF Addressed
  <2> QED BY <2>2, <2>5, <2>6
<1>3. CASE Req!Upstream
  <2>1. /\ stage = "request" /\ asked' = {req} /\ Req!Run' = Req!Run /\ original' = original
        /\ stage' \notin {"lookup", "request"} /\ Handled = Len(Req!Run)
    BY <1>3, AllHandled DEF Req!Upstream, Deciding, Req!Run, Req!restVars, Req!Fail, Req!Respond
  <2>2. AddressedBy(req.uri, Len(Req!Run))
    BY <2>1 DEF Addressed
  <2>3. \A r \in asked' : AddressedBy(r.uri, Len(Req!Run))
    BY <2>1, <2>2
  <2> QED BY <2>1, <2>3 DEF Addressed, AddressedBy, Names, Writes
<1>4. ASSUME rules' = rules, original' = original, asked' = asked, stage' \notin {"lookup", "request"}
      PROVE  Addressed'
  BY <1>4 DEF Addressed, AddressedBy, Names, Writes, Req!Run
<1>5. CASE Req!HandleResponse
  BY <1>4, <1>5, BackStep
<1>6. CASE Req!Deliver
  BY <1>4, <1>6 DEF Req!Deliver, Req!restVars
<1>7. CASE Streaming
  BY <1>4, <1>7, StreamingKeeps
<1>8. CASE UNCHANGED Req!vars
  BY <1>8 DEF Addressed, AddressedBy, Names, Writes, Req!Run, Handled, Req!vars
<1> QED BY <1>1, <1>2, <1>3, <1>5, <1>6, <1>7, <1>8 DEF Req!Next, Req!Step, Req!Over, Streaming

\* What handlers wait for are numbers, and so are the parts of its sums.
LEMMA CostsAreNumbers ==
  ASSUME NEW h \in Handlers
  PROVE  /\ MostOut(h) \in Nat /\ MostBack(h) \in Nat /\ LeastOut(h) \in Nat /\ LeastBack(h) \in Nat
         /\ Req!Most(h) \in Nat /\ Req!Least(h) \in Int
         /\ MostOut(h) + MostBack(h) <= Req!Most(h) /\ Req!Least(h) <= LeastOut(h) + LeastBack(h)
<1>1. CASE h.kind = "delay"
  <2>1. h \in Delays /\ h.type \in {"before", "after", "both"}
    BY <1>1, HandlersHaveKinds DEF Delays
  <2>2. PICK lo \in Nat, hi \in Nat : lo = Req!Max2(0, h.ms - h.variance) /\ hi = h.ms + h.variance
    BY <2>1 DEF Delays, Req!Max2
  <2>3. /\ LeastOut(h) = CASE h.type = "before" -> lo [] h.type = "both" -> lo \div 2 [] OTHER -> 0
        /\ MostOut(h) = CASE h.type = "before" -> hi [] h.type = "both" -> hi \div 2 [] OTHER -> 0
        /\ LeastBack(h) = CASE h.type = "after" -> lo [] h.type = "both" -> lo \div 2 [] OTHER -> 0
        /\ MostBack(h) = CASE h.type = "after" -> hi [] h.type = "both" -> hi \div 2 [] OTHER -> 0
        /\ Req!Most(h) = hi /\ Req!Least(h) = lo - (IF h.type = "both" THEN 1 ELSE 0)
    BY <1>1, <2>2 DEF LeastOut, MostOut, LeastBack, MostBack, Req!Most, Req!Least
  <2>4. /\ lo \div 2 \in Nat /\ hi \div 2 \in Nat
        /\ lo - 1 <= lo \div 2 + lo \div 2 /\ hi \div 2 + hi \div 2 <= hi
    OBVIOUS
  <2> QED BY <2>1, <2>2, <2>3, <2>4
<1>2. CASE h.kind = "throttle"
  <2>1. h.latency \in Nat
    BY <1>2, HandlersHaveKinds DEF Throttles
  <2> QED BY <1>2, <2>1 DEF LeastOut, MostOut, LeastBack, MostBack, Req!Most, Req!Least
<1>3. CASE h.kind \notin {"delay", "throttle"}
  BY <1>3 DEF LeastOut, MostOut, LeastBack, MostBack, Req!Most, Req!Least
<1> QED BY <1>1, <1>2, <1>3

MostsOf(run, n, m) ==
  [i \in DOMAIN run |-> (IF i <= n THEN MostOut(run[i]) ELSE 0) + (IF i <= m THEN MostBack(run[i]) ELSE 0)]
LeastsOf(run, n, m) ==
  [i \in DOMAIN run |-> (IF i <= n THEN LeastOut(run[i]) ELSE 0) + (IF i <= m THEN LeastBack(run[i]) ELSE 0)]

LEMMA CostsAreSequences ==
  ASSUME NEW run \in Seq(Handlers), NEW n \in Nat, NEW m \in Nat
  PROVE  /\ MostsOf(run, n, m) \in Seq(Int) /\ Len(MostsOf(run, n, m)) = Len(run)
         /\ LeastsOf(run, n, m) \in Seq(Int) /\ Len(LeastsOf(run, n, m)) = Len(run)
         /\ Len(run) \in Nat
         /\ \A i \in 1 .. Len(run) :
              /\ MostsOf(run, n, m)[i] =
                   (IF i <= n THEN MostOut(run[i]) ELSE 0) + (IF i <= m THEN MostBack(run[i]) ELSE 0)
              /\ LeastsOf(run, n, m)[i] =
                   (IF i <= n THEN LeastOut(run[i]) ELSE 0) + (IF i <= m THEN LeastBack(run[i]) ELSE 0)
         /\ \A i \in 1 .. Len(run) : run[i] \in Handlers
         /\ MostAfter(run, n, m) = Req!Sum(MostsOf(run, n, m))
         /\ LeastAfter(run, n, m) = Req!Sum(LeastsOf(run, n, m))
<1>1. DOMAIN run = 1 .. Len(run) /\ Len(run) \in Nat /\ \A i \in 1 .. Len(run) : run[i] \in Handlers
  OBVIOUS
<1>2. \A i \in 1 .. Len(run) :
        /\ (IF i <= n THEN MostOut(run[i]) ELSE 0) + (IF i <= m THEN MostBack(run[i]) ELSE 0) \in Int
        /\ (IF i <= n THEN LeastOut(run[i]) ELSE 0) + (IF i <= m THEN LeastBack(run[i]) ELSE 0) \in Int
  <2> TAKE i \in 1 .. Len(run)
  <2>1. PICK a \in Nat, b \in Nat, c \in Nat, d \in Nat :
          a = MostOut(run[i]) /\ b = MostBack(run[i]) /\ c = LeastOut(run[i]) /\ d = LeastBack(run[i])
    BY <1>1, CostsAreNumbers
  <2>2. /\ (IF i <= n THEN a ELSE 0) + (IF i <= m THEN b ELSE 0) \in Int
        /\ (IF i <= n THEN c ELSE 0) + (IF i <= m THEN d ELSE 0) \in Int
    OBVIOUS
  <2> QED BY <2>1, <2>2
<1>3. MostsOf(run, n, m) \in Seq(Int) /\ Len(MostsOf(run, n, m)) = Len(run)
  BY <1>1, <1>2 DEF MostsOf
<1>4. LeastsOf(run, n, m) \in Seq(Int) /\ Len(LeastsOf(run, n, m)) = Len(run)
  BY <1>1, <1>2 DEF LeastsOf
<1> QED BY <1>1, <1>3, <1>4 DEF MostsOf, LeastsOf, MostAfter, LeastAfter

\* Nothing has been waited for when no handler has run.
LEMMA NothingWaited ==
  ASSUME NEW run \in Seq(Handlers)
  PROVE  MostAfter(run, 0, 0) = 0 /\ LeastAfter(run, 0, 0) = 0
<1>1. \A i \in 1 .. Len(run) : MostsOf(run, 0, 0)[i] = 0 /\ LeastsOf(run, 0, 0)[i] = 0
  BY CostsAreSequences
<1> QED BY <1>1, CostsAreSequences, SumOfNothing

\* One more handler has run on the way out, or back.
LEMMA OneMoreOut ==
  ASSUME NEW run \in Seq(Handlers), NEW n \in Nat, n + 1 \in DOMAIN run
  PROVE  /\ MostAfter(run, n + 1, 0) = MostAfter(run, n, 0) + MostOut(run[n + 1])
         /\ LeastAfter(run, n + 1, 0) = LeastAfter(run, n, 0) + LeastOut(run[n + 1])
         /\ MostAfter(run, n, 0) \in Int /\ LeastAfter(run, n, 0) \in Int
<1> DEFINE s == MostsOf(run, n, 0)
           t == MostsOf(run, n + 1, 0)
           u == LeastsOf(run, n, 0)
           v == LeastsOf(run, n + 1, 0)
<1>1. /\ n + 1 \in 1 .. Len(run) /\ run[n + 1] \in Handlers /\ 0 \in Nat /\ n + 1 \in Nat
      /\ Len(run) \in Nat
  OBVIOUS
<1>2. \A k \in 1 .. Len(run) : k # n + 1 => (k <= n <=> k <= n + 1)
  BY <1>1
<1>3. /\ s \in Seq(Int) /\ t \in Seq(Int) /\ Len(s) = Len(run) /\ Len(t) = Len(run)
      /\ \A k \in 1 .. Len(run) : k # n + 1 => s[k] = t[k]
  <2>1. s \in Seq(Int) /\ t \in Seq(Int) /\ Len(s) = Len(run) /\ Len(t) = Len(run)
    BY <1>1, CostsAreSequences
  <2>2. ASSUME NEW k \in 1 .. Len(run), k # n + 1
        PROVE  s[k] = t[k]
    <3>1. k <= n <=> k <= n + 1
      BY <1>2, <2>2
    <3> QED BY <1>1, <3>1 DEF MostsOf
  <2> QED BY <2>1, <2>2
<1>4. /\ u \in Seq(Int) /\ v \in Seq(Int) /\ Len(u) = Len(run) /\ Len(v) = Len(run)
      /\ \A k \in 1 .. Len(run) : k # n + 1 => u[k] = v[k]
  <2>1. u \in Seq(Int) /\ v \in Seq(Int) /\ Len(u) = Len(run) /\ Len(v) = Len(run)
    BY <1>1, CostsAreSequences
  <2>2. ASSUME NEW k \in 1 .. Len(run), k # n + 1
        PROVE  u[k] = v[k]
    <3>1. k <= n <=> k <= n + 1
      BY <1>2, <2>2
    <3> QED BY <1>1, <3>1 DEF LeastsOf
  <2> QED BY <2>1, <2>2
<1>5. ~(n + 1 <= n) /\ n + 1 <= n + 1 /\ ~(n + 1 <= 0)
  OBVIOUS
<1>6. /\ s[n + 1] = 0 /\ t[n + 1] = MostOut(run[n + 1]) /\ u[n + 1] = 0
      /\ v[n + 1] = LeastOut(run[n + 1])
  <2>1. PICK a \in Nat, b \in Nat : a = MostOut(run[n + 1]) /\ b = LeastOut(run[n + 1])
    BY <1>1, CostsAreNumbers
  <2>2. /\ s[n + 1] = 0 + 0 /\ t[n + 1] = a + 0 /\ u[n + 1] = 0 + 0 /\ v[n + 1] = b + 0
    BY <1>1, <1>5, <2>1 DEF MostsOf, LeastsOf
  <2> QED BY <2>1, <2>2
<1>7. MostAfter(run, n, 0) = Req!Sum(s) /\ MostAfter(run, n + 1, 0) = Req!Sum(t)
      /\ LeastAfter(run, n, 0) = Req!Sum(u) /\ LeastAfter(run, n + 1, 0) = Req!Sum(v)
  BY <1>1, CostsAreSequences
<1> HIDE DEF s, t, u, v
<1>8. Req!Sum(t) = Req!Sum(s) + t[n + 1] - s[n + 1] /\ Req!Sum(s) \in Int /\ Req!Sum(t) \in Int
  BY <1>1, <1>3, SumChanges
<1>9. Req!Sum(v) = Req!Sum(u) + v[n + 1] - u[n + 1] /\ Req!Sum(u) \in Int /\ Req!Sum(v) \in Int
  BY <1>1, <1>4, SumChanges
<1> QED BY <1>1, <1>6, <1>7, <1>8, <1>9, CostsAreNumbers

LEMMA OneMoreBack ==
  ASSUME NEW run \in Seq(Handlers), NEW n \in Nat, n + 1 \in DOMAIN run
  PROVE  /\ MostAfter(run, Len(run), n + 1) = MostAfter(run, Len(run), n) + MostBack(run[n + 1])
         /\ LeastAfter(run, Len(run), n + 1) = LeastAfter(run, Len(run), n) + LeastBack(run[n + 1])
         /\ MostAfter(run, Len(run), n) \in Int /\ LeastAfter(run, Len(run), n) \in Int
<1> DEFINE s == MostsOf(run, Len(run), n)
           t == MostsOf(run, Len(run), n + 1)
           u == LeastsOf(run, Len(run), n)
           v == LeastsOf(run, Len(run), n + 1)
<1>1. n + 1 \in 1 .. Len(run) /\ run[n + 1] \in Handlers /\ n + 1 \in Nat /\ Len(run) \in Nat
  OBVIOUS
<1>2. \A k \in 1 .. Len(run) : k # n + 1 => (k <= n <=> k <= n + 1)
  BY <1>1
<1>3. /\ s \in Seq(Int) /\ t \in Seq(Int) /\ Len(s) = Len(run) /\ Len(t) = Len(run)
      /\ \A k \in 1 .. Len(run) : k # n + 1 => s[k] = t[k]
  <2>1. s \in Seq(Int) /\ t \in Seq(Int) /\ Len(s) = Len(run) /\ Len(t) = Len(run)
    BY <1>1, CostsAreSequences
  <2>2. ASSUME NEW k \in 1 .. Len(run), k # n + 1
        PROVE  s[k] = t[k]
    <3>1. k <= n <=> k <= n + 1
      BY <1>2, <2>2
    <3> QED BY <1>1, <3>1 DEF MostsOf
  <2> QED BY <2>1, <2>2
<1>4. /\ u \in Seq(Int) /\ v \in Seq(Int) /\ Len(u) = Len(run) /\ Len(v) = Len(run)
      /\ \A k \in 1 .. Len(run) : k # n + 1 => u[k] = v[k]
  <2>1. u \in Seq(Int) /\ v \in Seq(Int) /\ Len(u) = Len(run) /\ Len(v) = Len(run)
    BY <1>1, CostsAreSequences
  <2>2. ASSUME NEW k \in 1 .. Len(run), k # n + 1
        PROVE  u[k] = v[k]
    <3>1. k <= n <=> k <= n + 1
      BY <1>2, <2>2
    <3> QED BY <1>1, <3>1 DEF LeastsOf
  <2> QED BY <2>1, <2>2
<1>5. ~(n + 1 <= n) /\ n + 1 <= n + 1 /\ n + 1 <= Len(run)
  BY <1>1
<1>6. /\ s[n + 1] = MostOut(run[n + 1]) + 0 /\ t[n + 1] = MostOut(run[n + 1]) + MostBack(run[n + 1])
      /\ u[n + 1] = LeastOut(run[n + 1]) + 0
      /\ v[n + 1] = LeastOut(run[n + 1]) + LeastBack(run[n + 1])
  BY <1>1, <1>5, CostsAreSequences
<1>7. MostAfter(run, Len(run), n) = Req!Sum(s) /\ MostAfter(run, Len(run), n + 1) = Req!Sum(t)
      /\ LeastAfter(run, Len(run), n) = Req!Sum(u) /\ LeastAfter(run, Len(run), n + 1) = Req!Sum(v)
  BY <1>1, CostsAreSequences
<1> HIDE DEF s, t, u, v
<1>8. Req!Sum(t) = Req!Sum(s) + t[n + 1] - s[n + 1] /\ Req!Sum(s) \in Int /\ Req!Sum(t) \in Int
  BY <1>1, <1>3, SumChanges
<1>9. Req!Sum(v) = Req!Sum(u) + v[n + 1] - u[n + 1] /\ Req!Sum(u) \in Int /\ Req!Sum(v) \in Int
  BY <1>1, <1>4, SumChanges
<1> QED BY <1>1, <1>6, <1>7, <1>8, <1>9, CostsAreNumbers

\* In all, no more and no less than is configured.
LEMMA AllWaited ==
  ASSUME NEW run \in Seq(Handlers), NEW n \in Nat, n <= Len(run)
  PROVE  /\ MostAfter(run, n, 0) <= MostAfter(run, Len(run), Len(run))
         /\ MostAfter(run, Len(run), Len(run)) <= Req!Sum([i \in DOMAIN run |-> Req!Most(run[i])])
         /\ Req!Sum([i \in DOMAIN run |-> Req!Least(run[i])]) <= LeastAfter(run, Len(run), Len(run))
         /\ MostAfter(run, n, 0) \in Int /\ MostAfter(run, Len(run), Len(run)) \in Int
         /\ LeastAfter(run, Len(run), Len(run)) \in Int
         /\ Req!Sum([i \in DOMAIN run |-> Req!Most(run[i])]) \in Int
         /\ Req!Sum([i \in DOMAIN run |-> Req!Least(run[i])]) \in Int
<1> DEFINE s == MostsOf(run, n, 0)
           t == MostsOf(run, Len(run), Len(run))
           v == LeastsOf(run, Len(run), Len(run))
           most == [i \in DOMAIN run |-> Req!Most(run[i])]
           least == [i \in DOMAIN run |-> Req!Least(run[i])]
<1>1. Len(run) \in Nat /\ DOMAIN run = 1 .. Len(run) /\ \A i \in 1 .. Len(run) : run[i] \in Handlers
  OBVIOUS
<1>2. most \in Seq(Int) /\ Len(most) = Len(run) /\ \A i \in 1 .. Len(run) : most[i] = Req!Most(run[i])
  BY <1>1, CostsAreNumbers
<1>3. least \in Seq(Int) /\ Len(least) = Len(run) /\ \A i \in 1 .. Len(run) : least[i] = Req!Least(run[i])
  BY <1>1, CostsAreNumbers
<1>4. /\ s \in Seq(Int) /\ Len(s) = Len(run) /\ MostAfter(run, n, 0) = Req!Sum(s)
      /\ \A i \in 1 .. Len(run) : s[i] = (IF i <= n THEN MostOut(run[i]) ELSE 0) + 0
  <2>1. \A i \in 1 .. Len(run) : ~(i <= 0)
    OBVIOUS
  <2> QED BY <2>1, CostsAreSequences
<1>5. /\ t \in Seq(Int) /\ Len(t) = Len(run) /\ MostAfter(run, Len(run), Len(run)) = Req!Sum(t)
      /\ v \in Seq(Int) /\ Len(v) = Len(run) /\ LeastAfter(run, Len(run), Len(run)) = Req!Sum(v)
      /\ \A i \in 1 .. Len(run) : /\ t[i] = MostOut(run[i]) + MostBack(run[i])
                                  /\ v[i] = LeastOut(run[i]) + LeastBack(run[i])
  <2>1. \A i \in 1 .. Len(run) : i <= Len(run)
    BY <1>1
  <2> QED BY <1>1, <2>1, CostsAreSequences
<1> HIDE DEF s, t, v, most, least
<1>6. \A i \in 1 .. Len(run) : s[i] <= t[i] /\ t[i] <= most[i] /\ least[i] <= v[i]
  <2> TAKE i \in 1 .. Len(run)
  <2>1. PICK a \in Nat, b \in Nat, c \in Nat, d \in Nat :
          /\ a = MostOut(run[i]) /\ b = MostBack(run[i]) /\ c = LeastOut(run[i])
          /\ d = LeastBack(run[i])
          /\ a + b <= Req!Most(run[i]) /\ Req!Least(run[i]) <= c + d
    BY <1>1, CostsAreNumbers
  <2>2. s[i] = (IF i <= n THEN a ELSE 0) + 0 /\ t[i] = a + b /\ v[i] = c + d
    BY <1>4, <1>5, <2>1
  <2>3. s[i] <= t[i]
    BY <2>2
  <2> QED BY <1>2, <1>3, <2>1, <2>2, <2>3
<1>7. Req!Sum(s) <= Req!Sum(t)
  BY <1>4, <1>5, <1>6, SumGrows
<1>8. Req!Sum(t) <= Req!Sum(most)
  BY <1>2, <1>5, <1>6, SumGrows
<1>9. Req!Sum(least) <= Req!Sum(v)
  BY <1>3, <1>5, <1>6, SumGrows
<1>10. /\ Req!Sum(s) \in Int /\ Req!Sum(t) \in Int /\ Req!Sum(v) \in Int /\ Req!Sum(most) \in Int
       /\ Req!Sum(least) \in Int
  BY <1>2, <1>3, <1>4, <1>5, SumAdds
<1> QED BY <1>4, <1>5, <1>7, <1>8, <1>9, <1>10 DEF most, least

\* The handlers that have run have taken their time.
LEMMA WaitsStep ==
  ASSUME ProcessingConstants, RequestTyped, Queue, Waits, [Req!Next]_(Req!vars)
  PROVE  Waits'
<1> DEFINE L == Len(Req!Run)
<1>1. Req!Run \in Seq(Handlers) /\ L \in Nat /\ waited \in Nat
  BY RunIsASequence DEF RequestTyped
<1>2. CASE Req!FindMatchingRules
  <2>1. todo' = Req!Run'
    BY <1>2, RunOfNone DEF Req!FindMatchingRules, Req!Run
  <2>2. RequestTyped'
    BY RequestTypedStep
  <2>3. Req!Run' \in Seq(Handlers)
    BY <2>2, SortedIsSorted DEF Req!Run, RequestTyped
  <2>4. Handled' = 0
    BY <2>1, <2>3 DEF Handled
  <2>5. stage' = "request" /\ waited' = 0
    BY <1>2 DEF Req!FindMatchingRules, Waits
  <2>6. PICK r : r = Req!Run'
    OBVIOUS
  <2>7. MostAfter(r, 0, 0) = 0 /\ LeastAfter(r, 0, 0) = 0
    BY <2>3, <2>6, NothingWaited
  <2>8. LeastAfter(Req!Run', Handled', 0) = 0 /\ MostAfter(Req!Run', Handled', 0) = 0
    BY <2>4, <2>6, <2>7
  <2> QED BY <2>5, <2>8 DEF Waits, LeastAfter, MostAfter
<1>3. CASE Req!HandleRequest
  <2>1. PICK h \in Handlers : h = Head(todo)
    BY <1>3, OutStep
  <2>2. /\ stage = "request" /\ rules' = rules /\ todo # << >>
        /\ \/ stage' = "deliver" /\ waited' = waited /\ resp'.by \in {h.kind, "error"}
           \/ /\ stage' = "request" /\ todo' = Tail(todo)
              /\ \E w \in Nat : waited' = waited + w /\ LeastOut(h) <= w /\ w <= MostOut(h)
    BY <1>3, <2>1, OutStep
  <2>3. PICK n \in Nat : /\ n = Handled /\ n + 1 \in DOMAIN Req!Run /\ h = Req!Run[n + 1]
                         /\ Req!Run' = Req!Run
                         /\ (todo' = Tail(todo) => Handled' = n + 1)
    <3>1. Req!Run' = Req!Run
      BY <2>2 DEF Req!Run
    <3> QED BY <2>1, <2>2, <3>1, HeadRunsNext DEF Handled
  <2>4. LeastAfter(Req!Run, n, 0) <= waited /\ waited <= MostAfter(Req!Run, n, 0)
    BY <2>2, <2>3 DEF Waits
  <2>5. CASE stage' = "deliver" /\ waited' = waited /\ resp'.by \in {h.kind, "error"}
    <3>1. resp'.by # "upstream"
      BY <2>5, HandlersHaveKinds
    <3>2. n <= L
      BY <1>1, <2>3
    <3>3. waited <= MostAfter(Req!Run, L, L)
      <4>1. PICK a \in Int, c \in Int : /\ a = MostAfter(Req!Run, n, 0)
                                        /\ c = MostAfter(Req!Run, L, L) /\ a <= c
        BY <1>1, <3>2, AllWaited
      <4> QED BY <1>1, <2>4, <4>1
    <3> QED BY <2>3, <2>5, <3>1, <3>3 DEF Waits, MostAfter, LeastAfter
  <2>6. CASE /\ stage' = "request" /\ todo' = Tail(todo)
             /\ \E w \in Nat : waited' = waited + w /\ LeastOut(h) <= w /\ w <= MostOut(h)
    <3>1. PICK w \in Nat : waited' = waited + w /\ LeastOut(h) <= w /\ w <= MostOut(h)
      BY <2>6
    <3>2. /\ MostAfter(Req!Run, n + 1, 0) = MostAfter(Req!Run, n, 0) + MostOut(h)
          /\ LeastAfter(Req!Run, n + 1, 0) = LeastAfter(Req!Run, n, 0) + LeastOut(h)
          /\ MostAfter(Req!Run, n, 0) \in Int /\ LeastAfter(Req!Run, n, 0) \in Int
      BY <1>1, <2>3, OneMoreOut
    <3>3. LeastOut(h) \in Nat /\ MostOut(h) \in Nat
      BY CostsAreNumbers
    <3>4. LeastAfter(Req!Run, n + 1, 0) <= waited' /\ waited' <= MostAfter(Req!Run, n + 1, 0)
      BY <1>1, <2>4, <3>1, <3>2, <3>3
    <3> QED BY <2>3, <2>6, <3>4 DEF Waits, MostAfter, LeastAfter
  <2> QED BY <2>2, <2>5, <2>6
<1>4. CASE Req!Upstream
  <2>1. /\ stage = "request" /\ todo = << >> /\ waited' = waited /\ Req!Run' = Req!Run
    BY <1>4 DEF Req!Upstream, Req!restVars, Req!Run
  <2>2. LeastAfter(Req!Run, L, 0) <= waited /\ waited <= MostAfter(Req!Run, L, 0)
    BY <2>1, AllHandled DEF Waits
  <2>3. CASE stage' = "response" /\ todo' = Req!SortedHandlers(rules)
    <3>1. Handled' = 0
      BY <1>1, <2>1, <2>3 DEF Handled, Req!Run
    <3> QED BY <2>1, <2>2, <2>3, <3>1 DEF Waits, MostAfter, LeastAfter
  <2>4. CASE Req!Fail
    <3>1. stage' = "deliver" /\ resp'.by # "upstream"
      <4>1. "error" \in Writers /\ "error" \in Texts \cup Pages
        BY DEF Writers, Pages
      <4> QED BY <2>4, <4>1, AnswersOfHandlers DEF Req!Fail, Req!Respond
    <3>2. waited <= MostAfter(Req!Run, L, L)
      <4>1. PICK a \in Int, c \in Int : /\ a = MostAfter(Req!Run, L, 0)
                                        /\ c = MostAfter(Req!Run, L, L) /\ a <= c
        <5>1. L <= Len(Req!Run)
          BY <1>1
        <5> QED BY <1>1, <5>1, AllWaited
      <4> QED BY <1>1, <2>2, <4>1
    <3> QED BY <2>1, <3>1, <3>2 DEF Waits, MostAfter, LeastAfter
  <2> QED BY <1>4, <2>3, <2>4 DEF Req!Upstream
<1>5. CASE Req!HandleResponse
  <2>1. PICK h \in Handlers : h = Head(todo)
    BY <1>5, BackStep
  <2>2. /\ stage = "response" /\ stage' = "response" /\ rules' = rules /\ todo # << >>
        /\ todo' = Tail(todo)
        /\ \E w \in Nat : waited' = waited + w /\ LeastBack(h) <= w /\ w <= MostBack(h)
    BY <1>5, <2>1, BackStep
  <2>3. PICK n \in Nat : /\ n = Handled /\ n + 1 \in DOMAIN Req!Run /\ h = Req!Run[n + 1]
                         /\ Req!Run' = Req!Run
                         /\ Handled' = n + 1
    <3>1. Req!Run' = Req!Run
      BY <2>2 DEF Req!Run
    <3> QED BY <2>1, <2>2, <3>1, HeadRunsNext DEF Handled
  <2>4. LeastAfter(Req!Run, L, n) <= waited /\ waited <= MostAfter(Req!Run, L, n)
    BY <2>2, <2>3 DEF Waits
  <2>5. PICK w \in Nat : waited' = waited + w /\ LeastBack(h) <= w /\ w <= MostBack(h)
    BY <2>2
  <2>6. /\ MostAfter(Req!Run, L, n + 1) = MostAfter(Req!Run, L, n) + MostBack(h)
        /\ LeastAfter(Req!Run, L, n + 1) = LeastAfter(Req!Run, L, n) + LeastBack(h)
        /\ MostAfter(Req!Run, L, n) \in Int /\ LeastAfter(Req!Run, L, n) \in Int
    BY <1>1, <2>3, OneMoreBack
  <2>7. LeastBack(h) \in Nat /\ MostBack(h) \in Nat
    BY CostsAreNumbers
  <2>8. LeastAfter(Req!Run, L, n + 1) <= waited' /\ waited' <= MostAfter(Req!Run, L, n + 1)
    BY <1>1, <2>4, <2>5, <2>6, <2>7
  <2> QED BY <2>2, <2>3, <2>8 DEF Waits, MostAfter, LeastAfter
<1>6. CASE Req!Deliver
  <2>1. /\ stage = "response" /\ stage' = "deliver" /\ todo = << >> /\ waited' = waited
        /\ Req!Run' = Req!Run /\ resp' = resp
    BY <1>6 DEF Req!Deliver, Req!Run, Req!restVars
  <2>2. LeastAfter(Req!Run, L, L) <= waited /\ waited <= MostAfter(Req!Run, L, L)
    BY <2>1, AllHandled DEF Waits
  <2> QED BY <2>1, <2>2 DEF Waits, MostAfter, LeastAfter
<1>7. CASE Streaming
  <2>1. /\ stage = "deliver" /\ stage' \in {"deliver", "done", "broken"} /\ Req!Run' = Req!Run
        /\ waited' = waited /\ resp' = resp
    BY <1>7, StreamingKeeps DEF Req!Run
  <2> QED BY <2>1 DEF Waits, MostAfter, LeastAfter
<1>8. CASE UNCHANGED Req!vars
  BY <1>8 DEF Waits, Handled, Req!Run, Req!vars, MostAfter, LeastAfter
<1> QED BY <1>2, <1>3, <1>4, <1>5, <1>6, <1>7, <1>8 DEF Req!Next, Req!Step, Req!Over, Streaming

-----------------------------------------------------------------------------
\* Multiplication by a rate keeps the order.
LEMMA FactorsGrow ==
  ASSUME NEW x \in Int, NEW y \in Int, NEW b \in Nat, x <= y
  PROVE  x * b <= y * b /\ x * b \in Int /\ y * b \in Int
<1>1. (y - x) * b >= 0
  <2>1. y - x \in Nat
    OBVIOUS
  <2> QED BY <2>1
<1>2. (y - x) * b = y * b - x * b
  OBVIOUS
<1>3. x * b \in Int /\ y * b \in Int
  OBVIOUS
<1> QED BY <1>1, <1>2, <1>3

\* The sleep for a frame is its bytes' time, less than a millisecond off.
LEMMA SleepsLongEnough ==
  ASSUME NEW b \in Nat \ {0}, NEW l \in Nat
  PROVE  Req!DelayForChunk(b, l) \in Nat /\ (Req!DelayForChunk(b, l) + 1) * b >= 1000 * l
<1>1. PICK x \in Nat : x = l * 1000
  OBVIOUS
<1>2. CASE l = 0
  <2>1. Req!DelayForChunk(b, l) = 0
    BY <1>2 DEF Req!DelayForChunk
  <2> QED BY <1>2, <2>1
<1>3. CASE l # 0
  <2>1. PICK q \in Nat, m \in Nat : q = x \div b /\ m = x % b /\ m < b /\ x = b * q + m
    OBVIOUS
  <2>2. Req!DelayForChunk(b, l) = q
    BY <1>1, <1>3, <2>1 DEF Req!DelayForChunk
  <2>3. (q + 1) * b = b * q + b
    OBVIOUS
  <2> QED BY <1>1, <2>1, <2>2, <2>3
<1> QED BY <1>2, <1>3

\* Before the first frame there is nothing to pace.
LEMMA FreshIsDelivered ==
  ASSUME ProcessingConstants, RequestTyped', flight' = Absent, sent' = << >>, clock' = 0, stage' # "done"
  PROVE  Delivery'
<1>1. Frames \in Seq(Nat) /\ Len(Frames) \in Nat
  BY DEF ProcessingConstants
<1>2. Req!Pulled' = 0
  BY DEF Req!Pulled
<1>3. Len(Req!Coming)' \in Nat
  <2>1. Req!Coming' \in {<< >>, Frames}
    BY DEF Req!Coming
  <2> QED BY <1>1, <2>1
<1>4. PacedSoFar'
  <2>1. ASSUME NEW i \in DOMAIN (resp'.rates)
        PROVE  (clock' + Len(sent') + (IF Passed(i)' THEN 1 ELSE 0)) * resp'.rates[i] >=
                 1000 * (Req!Sum(sent') + IF Passed(i)' THEN flight'.length ELSE 0)
    <3>1. ~Passed(i)'
      BY DEF Passed
    <3>2. Req!Sum(<< >>) = 0
      <4>1. << >> \in Seq(Int) /\ \A k \in 1 .. Len(<< >>) : << >>[k] = 0
        OBVIOUS
      <4> QED BY <4>1, SumOfNothing
    <3>3. PICK b \in Nat : b = resp'.rates[i]
      BY <2>1 DEF RequestTyped, Responses
    <3>4. (0 + 0 + 0) * b >= 1000 * (0 + 0)
      OBVIOUS
    <3>5. Len(sent') = 0 /\ Req!Sum(sent') = 0
      BY <3>2
    <3> QED BY <3>1, <3>3, <3>4, <3>5
  <2> QED BY <2>1 DEF PacedSoFar
<1> QED BY <1>1, <1>2, <1>3, <1>4 DEF Delivery, Req!WholeBody

\* Frames go out as they came in, each after the time of its bytes in every body it passed.
LEMMA DeliveryStep ==
  ASSUME ProcessingConstants, RequestTyped, Queue, Delivery, [Req!Next]_(Req!vars)
  PROVE  Delivery'
<1>1. RequestTyped'
  BY RequestTypedStep
<1>2. /\ Frames \in Seq(Nat) /\ Len(Frames) \in Nat /\ sent \in Seq(Nat) /\ Len(sent) \in Nat
      /\ clock \in Nat
      /\ resp.rates \in Seq(Nat \ {0}) /\ flight \in [length : Nat, passed : Nat] \cup {Absent}
      /\ Absent \notin [length : Nat, passed : Nat]
      /\ Len(resp.rates) \in Nat /\ DOMAIN resp.rates = 1 .. Len(resp.rates)
      /\ sent \in Seq(Int)
  BY DEF ProcessingConstants, RequestTyped, Responses
<1>3. Req!Coming \in {<< >>, Frames} /\ Len(Req!Coming) \in Nat /\ Len(Req!Coming) <= Len(Frames)
  BY <1>2 DEF Req!Coming
<1>4. ASSUME stage \in {"lookup", "request", "response"}, stage' # "done",
             flight' = flight, sent' = sent, clock' = clock
      PROVE  Delivery'
  <2>1. flight' = Absent /\ sent' = << >> /\ clock' = 0
    BY <1>4 DEF Delivery
  <2> QED BY <1>1, <1>4, <2>1, FreshIsDelivered
<1>5. CASE Req!FindMatchingRules
  BY <1>4, <1>5 DEF Req!FindMatchingRules, Req!streamVars
<1>6. CASE Req!HandleRequest
  <2>1. stage = "request" /\ stage' # "done" /\ flight' = flight /\ sent' = sent /\ clock' = clock
    BY <1>6, OutStep
  <2> QED BY <1>4, <2>1
<1>7. CASE Req!Upstream
  BY <1>4, <1>7 DEF Req!Upstream, Req!Fail, Req!Respond, Req!restVars, Req!streamVars
<1>8. CASE Req!HandleResponse
  <2>1. stage = "response" /\ stage' # "done" /\ flight' = flight /\ sent' = sent /\ clock' = clock
    BY <1>8, BackStep
  <2> QED BY <1>4, <2>1
<1>9. CASE Req!Deliver
  BY <1>4, <1>9 DEF Req!Deliver, Req!restVars, Req!streamVars
<1>10. CASE Req!PollFrame
  <2>1. /\ stage = "deliver" /\ stage' = "deliver" /\ flight = Absent /\ Req!Pulled < Req!Left
        /\ flight' = [length |-> Frames[Req!Pulled + 1], passed |-> 0]
        /\ sent' = sent /\ clock' = clock /\ resp' = resp
    BY <1>10 DEF Req!PollFrame, Req!handled
  <2>2. Req!Pulled = Len(sent)
    BY <1>2, <2>1 DEF Req!Pulled
  <2>3. Len(sent) + 1 <= Len(Req!Coming) /\ Req!Left \in Int
    BY <1>2, <1>3, <2>1, <2>2 DEF Req!Left
  <2>4. Frames[Len(sent) + 1] \in Nat
    BY <1>2, <1>3, <2>3
  <2>5. flight' # Absent /\ flight'.length = Frames[Len(sent) + 1] /\ flight'.passed = 0
    BY <1>2, <2>1, <2>2, <2>4
  <2>6. Req!Pulled' = Len(sent) + 1 /\ Req!Coming' = Req!Coming
    BY <2>1, <2>5 DEF Req!Pulled, Req!Coming
  <2>7. PacedSoFar'
    <3>1. ASSUME NEW i \in DOMAIN (resp'.rates)
          PROVE  (clock' + Len(sent') + (IF Passed(i)' THEN 1 ELSE 0)) * resp'.rates[i] >=
                   1000 * (Req!Sum(sent') + IF Passed(i)' THEN flight'.length ELSE 0)
      <4>1. i \in DOMAIN resp.rates /\ i \in Nat /\ i >= 1
        BY <1>2, <2>1
      <4>2. ~Passed(i) /\ ~Passed(i)'
        BY <2>1, <2>5, <4>1 DEF Passed
      <4>3. (clock + Len(sent) + (IF Passed(i) THEN 1 ELSE 0)) * resp.rates[i] >=
              1000 * (Req!Sum(sent) + IF Passed(i) THEN flight.length ELSE 0)
        BY <4>1 DEF Delivery, PacedSoFar
      <4> QED BY <2>1, <4>2, <4>3
    <3> QED BY <3>1 DEF PacedSoFar
  <2> QED BY <1>2, <1>3, <2>1, <2>3, <2>5, <2>6, <2>7 DEF Delivery, Req!WholeBody
<1>11. CASE Req!SleepForChunk
  <2>1. /\ stage = "deliver" /\ stage' = "deliver" /\ flight # Absent
        /\ flight.passed < Len(resp.rates)
        /\ flight' = [flight EXCEPT !.passed = @ + 1]
        /\ clock' = clock + Req!DelayForChunk(resp.rates[flight.passed + 1], flight.length)
        /\ sent' = sent /\ resp' = resp
    BY <1>11 DEF Req!SleepForChunk, Req!handled
  <2>2. PICK l \in Nat, p \in Nat : /\ l = flight.length /\ p = flight.passed
                                    /\ flight \in [length : Nat, passed : Nat]
    BY <1>2, <2>1
  <2>3. flight' # Absent /\ flight'.length = l /\ flight'.passed = p + 1
    BY <1>2, <2>1, <2>2
  <2>4. p + 1 \in DOMAIN resp.rates /\ p + 1 <= Len(resp.rates)
    BY <1>2, <2>1, <2>2
  <2>5. PICK d \in Nat : /\ d = Req!DelayForChunk(resp.rates[p + 1], l) /\ clock' = clock + d
                         /\ (d + 1) * resp.rates[p + 1] >= 1000 * l
    BY <1>2, <2>1, <2>2, <2>4, SleepsLongEnough
  <2>6. Req!Pulled' = Req!Pulled /\ Req!Coming' = Req!Coming
    BY <2>1, <2>3 DEF Req!Pulled, Req!Coming
  <2>7. PICK sum \in Int : sum = Req!Sum(sent)
    BY <1>2, SumAdds
  <2>8. PacedSoFar'
    <3>1. ASSUME NEW i \in DOMAIN (resp'.rates)
          PROVE  (clock' + Len(sent') + (IF Passed(i)' THEN 1 ELSE 0)) * resp'.rates[i] >=
                   1000 * (Req!Sum(sent') + IF Passed(i)' THEN flight'.length ELSE 0)
      <4>1. i \in DOMAIN resp.rates /\ i \in Nat /\ i >= 1
        BY <1>2, <2>1
      <4>2. PICK b \in Nat \ {0} : b = resp.rates[i]
        BY <1>2, <4>1
      <4>3. (Passed(i) <=> p >= i) /\ (Passed(i)' <=> p + 1 >= i)
        BY <2>1, <2>2, <2>3 DEF Passed
      <4>4. (clock + Len(sent) + (IF Passed(i) THEN 1 ELSE 0)) * b >=
              1000 * (sum + IF Passed(i) THEN l ELSE 0)
        BY <2>2, <2>7, <4>1, <4>2 DEF Delivery, PacedSoFar
      <4>5. CASE p + 1 = i
        <5>1. ~Passed(i) /\ Passed(i)'
          BY <2>2, <4>1, <4>3, <4>5
        <5>2. PICK x \in Nat : x = clock + Len(sent)
          BY <1>2
        <5>3. x * b >= 1000 * sum
          BY <1>2, <4>4, <5>1, <5>2
        <5>4. (d + 1) * b >= 1000 * l
          BY <2>5, <4>2, <4>5
        <5>5. (x + (d + 1)) * b = x * b + (d + 1) * b
          OBVIOUS
        <5>6. (x + (d + 1)) * b >= 1000 * (sum + l)
          <6>1. PICK u \in Int, v \in Int : u = x * b /\ v = (d + 1) * b
            OBVIOUS
          <6> QED BY <5>3, <5>4, <5>5, <6>1
        <5>7. clock' + Len(sent') + 1 = x + (d + 1)
          BY <1>2, <2>1, <2>5, <5>2
        <5> QED BY <2>1, <2>3, <2>7, <4>2, <5>1, <5>6, <5>7
      <4>6. CASE p + 1 # i
        <5>1. Passed(i) <=> Passed(i)'
          BY <2>2, <4>1, <4>3, <4>6
        <5>2. PICK x \in Nat : x = clock + Len(sent) + (IF Passed(i) THEN 1 ELSE 0)
          BY <1>2
        <5>3. PICK y \in Nat : y = clock' + Len(sent') + (IF Passed(i)' THEN 1 ELSE 0) /\ x <= y
          <6>1. PICK c \in Nat : /\ c = (IF Passed(i) THEN 1 ELSE 0)
                                 /\ c = (IF Passed(i)' THEN 1 ELSE 0)
            BY <5>1
          <6>2. x = clock + Len(sent) + c /\ clock' + Len(sent') + c = clock + d + Len(sent) + c
            BY <2>1, <2>5, <5>2, <6>1
          <6>3. clock + d + Len(sent) + c \in Nat /\ x <= clock + d + Len(sent) + c
            BY <1>2, <6>2
          <6> QED BY <6>1, <6>2, <6>3
        <5>4. x * b <= y * b /\ x * b \in Int /\ y * b \in Int
          BY <5>3, FactorsGrow
        <5>5. PICK g \in Int : g = 1000 * (sum + IF Passed(i) THEN l ELSE 0)
          OBVIOUS
        <5>6. x * b >= g
          BY <4>4, <5>2, <5>5
        <5>7. y * b >= g
          BY <5>4, <5>5, <5>6
        <5> QED BY <2>1, <2>3, <2>7, <4>2, <5>1, <5>3, <5>5, <5>7
      <4> QED BY <4>5, <4>6
    <3> QED BY <3>1 DEF PacedSoFar
  <2> QED BY <1>2, <2>1, <2>2, <2>3, <2>4, <2>6, <2>8 DEF Delivery, Req!WholeBody
<1>12. CASE Req!TakeFrame
  <2>1. /\ stage = "deliver" /\ stage' = "deliver" /\ flight # Absent
        /\ flight.passed = Len(resp.rates)
        /\ sent' = Append(sent, flight.length) /\ flight' = Absent /\ clock' = clock /\ resp' = resp
    BY <1>12 DEF Req!TakeFrame, Req!handled
  <2>2. PICK l \in Nat : l = flight.length
    BY <1>2, <2>1
  <2>3. Len(sent') = Len(sent) + 1 /\ Req!Sum(sent') = Req!Sum(sent) + l /\ Req!Sum(sent) \in Int
    BY <1>2, <2>1, <2>2, SumAdds
  <2>4. Req!Pulled' = Req!Pulled /\ Req!Coming' = Req!Coming
    BY <1>2, <2>1, <2>3 DEF Req!Pulled, Req!Coming
  <2>5. \A k \in DOMAIN sent' : sent'[k] = Frames[k]
    BY <1>2, <2>1, <2>2 DEF Delivery
  <2>6. PacedSoFar'
    <3>1. ASSUME NEW i \in DOMAIN (resp'.rates)
          PROVE  (clock' + Len(sent') + (IF Passed(i)' THEN 1 ELSE 0)) * resp'.rates[i] >=
                   1000 * (Req!Sum(sent') + IF Passed(i)' THEN flight'.length ELSE 0)
      <4>1. i \in DOMAIN resp.rates /\ i <= Len(resp.rates) /\ i \in Nat
        BY <1>2, <2>1
      <4>2. Passed(i) /\ ~Passed(i)'
        BY <2>1, <4>1 DEF Passed
      <4>3. (clock + Len(sent) + 1) * resp.rates[i] >= 1000 * (Req!Sum(sent) + l)
        BY <2>2, <4>1, <4>2 DEF Delivery, PacedSoFar
      <4>4. /\ clock' + Len(sent') + 0 = clock + Len(sent) + 1
            /\ Req!Sum(sent') + 0 = Req!Sum(sent) + l
        BY <1>2, <2>1, <2>3
      <4> QED BY <2>1, <4>2, <4>3, <4>4
    <3> QED BY <3>1 DEF PacedSoFar
  <2> QED BY <2>1, <2>4, <2>5, <2>6 DEF Delivery, Req!WholeBody
<1>13. CASE Req!Finish
  <2>1. /\ stage = "deliver" /\ stage' \in {"done", "broken"} /\ flight' = flight /\ sent' = sent
        /\ clock' = clock
        /\ resp' = resp /\ (stage' = "done" => Req!IsEndStream)
    BY <1>13 DEF Req!Finish, Req!handled, Req!streamVars
  <2>2. Req!Pulled' = Req!Pulled /\ Req!Coming' = Req!Coming
    BY <2>1 DEF Req!Pulled, Req!Coming
  <2>3. PacedSoFar'
    BY <2>1 DEF Delivery, PacedSoFar, Passed
  <2>4. stage' = "done" => sent = Req!Coming
    <3>1. SUFFICES ASSUME Req!IsEndStream PROVE sent = Req!Coming
      BY <2>1
    <3>2. Len(sent) = Len(Req!Coming)
      <4>1. resp.ends /\ Req!Pulled = Req!Left /\ flight = Absent
        BY <3>1 DEF Req!IsEndStream
      <4>2. Req!Left = Len(Req!Coming)
        BY <4>1, Zenon DEF Req!Left
      <4>3. Req!Pulled = Len(sent)
        BY <1>2, <4>1 DEF Req!Pulled
      <4> QED BY <4>1, <4>2, <4>3
    <3>3. \A k \in 1 .. Len(sent) : sent[k] = Frames[k]
      BY <1>2 DEF Delivery
    <3>4. CASE Req!Coming = << >>
      BY <1>2, <3>2, <3>4
    <3>5. CASE Req!Coming = Frames
      BY <1>2, <3>2, <3>3, <3>5
    <3> QED BY <1>3, <3>4, <3>5
  <2> QED BY <2>1, <2>2, <2>3, <2>4 DEF Delivery, Req!WholeBody
<1>14. CASE UNCHANGED Req!vars
  BY <1>14 DEF Delivery, Req!WholeBody, PacedSoFar, Passed, Req!Pulled, Req!Coming, Req!vars
<1> QED BY <1>5, <1>6, <1>7, <1>8, <1>9, <1>10, <1>11, <1>12, <1>13, <1>14 DEF Req!Next, Req!Step,
      Req!Over

LEMMA NothingSentIsPaced ==
  ASSUME NEW rates \in Seq(Nat \ {0})
  PROVE  \A i \in DOMAIN rates : (0 + Len(<< >>)) * rates[i] >= 1000 * Req!Sum(<< >>)
<1>1. Req!Sum(<< >>) = 0
  <2>1. << >> \in Seq(Int) /\ \A k \in 1 .. Len(<< >>) : << >>[k] = 0
    OBVIOUS
  <2> QED BY <2>1, SumOfNothing
<1> QED
  <2>1. SUFFICES ASSUME NEW i \in DOMAIN rates PROVE (0 + Len(<< >>)) * rates[i] >= 1000 * Req!Sum(<< >>)
    OBVIOUS
  <2>2. PICK b \in Nat : b = rates[i]
    OBVIOUS
  <2>3. (0 + 0) * b >= 1000 * 0
    OBVIOUS
  <2> QED BY <1>1, <2>2, <2>3

\* Nor does the frame on its way make what is sent faster.
LEMMA SentPacedStep ==
  ASSUME ProcessingConstants, RequestTyped, Delivery, RequestTyped', Delivery', SentPaced, [Req!Next]_(Req!vars)
  PROVE  SentPaced'
<1>1. /\ sent \in Seq(Nat) /\ sent' \in Seq(Nat) /\ clock \in Nat /\ clock' \in Nat
      /\ resp.rates \in Seq(Nat \ {0}) /\ resp'.rates \in Seq(Nat \ {0})
      /\ Req!Sum(sent) \in Int /\ Req!Sum(sent') \in Int
  <2>1. sent \in Seq(Nat) /\ sent' \in Seq(Nat) /\ clock \in Nat /\ clock' \in Nat
        /\ resp.rates \in Seq(Nat \ {0}) /\ resp'.rates \in Seq(Nat \ {0})
    BY DEF RequestTyped, Responses
  <2>2. sent \in Seq(Int) /\ sent' \in Seq(Int)
    BY <2>1
  <2> QED BY <2>1, <2>2, SumAdds
<1>2. CASE stage' \in {"lookup", "request", "response"} \/ (flight' = Absent /\ sent' = << >> /\ clock' = 0)
  <2>1. sent' = << >> /\ clock' = 0
    BY <1>2 DEF Delivery
  <2> QED BY <1>1, <2>1, NothingSentIsPaced DEF SentPaced, Req!PacedAt
<1>3. CASE /\ stage \in {"lookup", "request", "response"}
           /\ flight' = flight /\ sent' = sent /\ clock' = clock
  BY <1>2, <1>3 DEF Delivery
<1>4. CASE Req!FindMatchingRules \/ Req!HandleRequest \/ Req!Upstream \/ Req!HandleResponse \/ Req!Deliver
  BY <1>3, <1>4, OutStep, BackStep DEF Req!FindMatchingRules, Req!Upstream, Req!Fail, Req!Respond,
    Req!Deliver, Req!restVars, Req!streamVars
<1>5. CASE sent' = sent /\ clock' = clock /\ resp' = resp
  BY <1>5 DEF SentPaced, Req!PacedAt
<1>6. CASE Req!PollFrame \/ Req!Finish \/ UNCHANGED Req!vars
  BY <1>5, <1>6 DEF Req!PollFrame, Req!Finish, Req!handled, Req!streamVars, Req!vars
<1>7. CASE Req!SleepForChunk
  <2>1. sent' = sent /\ resp' = resp /\ flight # Absent /\ flight.passed < Len(resp.rates)
        /\ clock' = clock + Req!DelayForChunk(resp.rates[flight.passed + 1], flight.length)
    BY <1>7 DEF Req!SleepForChunk, Req!handled
  <2>2. flight \in [length : Nat, passed : Nat]
    BY <2>1 DEF RequestTyped
  <2>3. flight.passed + 1 \in DOMAIN resp.rates /\ flight.length \in Nat
    BY <1>1, <2>1, <2>2
  <2>4. PICK d \in Nat : clock' = clock + d
    <3>1. resp.rates[flight.passed + 1] \in Nat \ {0}
      BY <1>1, <2>3
    <3>2. Req!DelayForChunk(resp.rates[flight.passed + 1], flight.length) \in Nat
      BY <2>3, <3>1, SleepsLongEnough
    <3> QED BY <2>1, <3>2
  <2>5. ASSUME NEW i \in DOMAIN resp.rates
        PROVE  (clock' + Len(sent)) * resp.rates[i] >= 1000 * Req!Sum(sent)
    <3>1. PICK b \in Nat : b = resp.rates[i]
      BY <1>1
    <3>2. PICK x \in Int, y \in Int : x = clock + Len(sent) /\ y = clock' + Len(sent) /\ x <= y
      <4>1. Len(sent) \in Nat
        BY <1>1
      <4>2. clock + Len(sent) \in Int /\ clock + d + Len(sent) \in Int
            /\ clock + Len(sent) <= clock + d + Len(sent)
        BY <1>1, <2>4, <4>1
      <4> QED BY <2>4, <4>2
    <3>3. x * b <= y * b /\ x * b \in Int /\ y * b \in Int
      BY <3>2, FactorsGrow
    <3>4. PICK g \in Int : g = 1000 * Req!Sum(sent)
      BY <1>1
    <3>5. x * b >= g
      BY <3>1, <3>2, <3>4 DEF SentPaced, Req!PacedAt
    <3>6. y * b >= g
      BY <3>3, <3>4, <3>5
    <3> QED BY <3>1, <3>2, <3>4, <3>6
  <2> QED BY <2>1, <2>5 DEF SentPaced, Req!PacedAt
<1>8. CASE Req!TakeFrame
  <2>1. flight' = Absent
    BY <1>8 DEF Req!TakeFrame
  <2>2. ASSUME NEW i \in DOMAIN (resp'.rates)
        PROVE  (clock' + Len(sent')) * resp'.rates[i] >= 1000 * Req!Sum(sent')
    <3>1. ~Passed(i)'
      BY <2>1 DEF Passed
    <3>2. (clock' + Len(sent') + 0) * resp'.rates[i] >= 1000 * (Req!Sum(sent') + 0)
      BY <3>1 DEF Delivery, PacedSoFar
    <3>3. clock' + Len(sent') + 0 = clock' + Len(sent') /\ Req!Sum(sent') + 0 = Req!Sum(sent')
      BY <1>1
    <3> QED BY <3>2, <3>3
  <2> QED BY <2>2 DEF SentPaced, Req!PacedAt
<1> QED BY <1>4, <1>6, <1>7, <1>8 DEF Req!Next, Req!Step, Req!Over

\* ProcessingInv holds at the start, is kept by each step, and has the properties.
LEMMA ProcessingInit ==
  ASSUME ProcessingConstants, Req!Init
  PROVE  ProcessingInv
<1>1. << >> \in Seq(Handlers) /\ << >> \in Seq(Nat) /\ Len(<< >>) = 0 /\ DOMAIN << >> = {}
  OBVIOUS
<1>2. RequestTyped
  BY <1>1, NoResponseIsTyped DEF Req!Init, RequestTyped, ProcessingConstants, Stages
<1>3. todo = << >> /\ stage = "lookup" /\ asked = {} /\ flight = Absent /\ sent = << >> /\ clock = 0
      /\ resp.rates = << >> /\ waited = 0 /\ req = original
  BY NoResponseIsTyped DEF Req!Init
<1>4. Queue
  BY <1>1, <1>3, RunIsASequence, <1>2 DEF Queue, Handled
<1>5. HeadersInv /\ Deciding /\ Addressed /\ Waits
  BY <1>3 DEF HeadersInv, Deciding, Addressed, Waits
<1>6. Delivery
  <2>1. Req!Pulled = 0
    BY <1>1, <1>3 DEF Req!Pulled
  <2>2. Len(Frames) \in Nat
    BY DEF ProcessingConstants
  <2>3. PacedSoFar
    BY <1>1, <1>3 DEF PacedSoFar
  <2> QED BY <1>1, <1>3, <2>1, <2>2, <2>3 DEF Delivery, Req!WholeBody
<1>7. SentPaced
  BY <1>1, <1>3 DEF SentPaced
<1> QED BY <1>2, <1>4, <1>5, <1>6, <1>7 DEF ProcessingInv

LEMMA ProcessingStep ==
  ASSUME ProcessingConstants, ProcessingInv, [Req!Next]_(Req!vars)
  PROVE  ProcessingInv'
BY RequestTypedStep, QueueStep, HeadersStep, DecidingStep, AddressedStep, WaitsStep, DeliveryStep,
  SentPacedStep
  DEF ProcessingInv

LEMMA ProcessingIsTyped ==
  ASSUME ProcessingConstants, ProcessingInv
  PROVE  Req!TypeOK
<1>1. DOMAIN resp = DOMAIN Req!NoResponse
  <2>1. PICK n \in Responses : n = Req!NoResponse
    BY NoResponseIsTyped
  <2>2. resp \in Responses
    BY DEF ProcessingInv, RequestTyped
  <2>3. \A r \in Responses : DOMAIN r = {"by", "html", "encoding", "chunked", "length", "body", "ends", "rates"}
    BY DEF Responses
  <2> QED BY <2>1, <2>2, <2>3
<1>2. /\ stage \in {"lookup", "request", "response", "deliver", "done", "broken"}
      /\ waited \in Nat /\ clock \in Nat
  BY DEF ProcessingInv, RequestTyped, Stages
<1>3. Cardinality(asked) \in 0 .. 1
  <2>1. asked = {} \/ asked = {req}
    BY DEF ProcessingInv, RequestTyped, Deciding, Stages
  <2>2. CASE asked = {}
    BY <2>2, FS_EmptySet
  <2>3. CASE asked = {req}
    <3>1. Cardinality({req}) = 1
      BY FS_Singleton
    <3> QED BY <2>3, <3>1
  <2> QED BY <2>1, <2>2, <2>3
<1>4. Frames \in Seq(Nat) /\ sent \in Seq(Nat) /\ Len(sent) \in Nat
  BY DEF ProcessingConstants, ProcessingInv, RequestTyped
<1>5. flight # Absent => flight.length \in Req!Range(Frames) /\ flight.passed \in 0 .. Len(resp.rates)
  <2>1. SUFFICES ASSUME flight # Absent
        PROVE flight.length \in Req!Range(Frames) /\ flight.passed \in 0 .. Len(resp.rates)
    OBVIOUS
  <2>2. /\ flight \in [length : Nat, passed : Nat] /\ Req!Pulled <= Len(Frames)
        /\ flight.length = Frames[Len(sent) + 1]
        /\ flight.passed <= Len(resp.rates) /\ Len(resp.rates) \in Nat
    BY <2>1 DEF ProcessingInv, RequestTyped, Delivery, Responses
  <2>3. Len(sent) + 1 \in DOMAIN Frames
    BY <1>4, <2>1, <2>2 DEF Req!Pulled
  <2>4. flight.length \in Req!Range(Frames)
    BY <2>2, <2>3 DEF Req!Range
  <2> QED BY <2>2, <2>4
<1>6. Req!IsPrefix(sent, Frames)
  <2>1. Len(sent) <= Len(Frames)
    BY <1>4 DEF ProcessingInv, Delivery, Req!Pulled
  <2>2. \A k \in 1 .. Len(sent) : sent[k] = Frames[k]
    BY <1>4 DEF ProcessingInv, Delivery
  <2>3. SubSeq(sent, 1, Len(sent)) = SubSeq(Frames, 1, Len(sent))
    BY <1>4, <2>1, <2>2
  <2> QED BY <2>1, <2>3 DEF Req!IsPrefix
<1> QED BY <1>1, <1>2, <1>3, <1>5, <1>6, RequestSizes DEF Req!TypeOK

\* The lowest order among those that answer is that of the first.
LEMMA FirstDecides ==
  ASSUME ProcessingConstants, ProcessingInv
  PROVE  Req!AnsweredByFirst
<1> SUFFICES ASSUME stage \in {"deliver", "done", "broken"} PROVE Req!AnsweredByFirst
  BY DEF Req!AnsweredByFirst
<1> DEFINE answering == {i \in DOMAIN Req!Run : Req!Answering(Req!Run[i])}
<1>1. /\ RequestTyped /\ Req!Run \in Seq(Handlers) /\ DOMAIN Req!Run = 1 .. Len(Req!Run)
      /\ Len(Req!Run) \in Nat
  BY RunIsASequence DEF ProcessingInv
<1>2. \A i, j \in DOMAIN Req!Run : i < j => Req!Run[i].order <= Req!Run[j].order
  BY <1>1, SortedIsSorted DEF Req!Run, RequestTyped
<1>3. CASE /\ \A j \in DOMAIN Req!Run : ~Req!Answering(Req!Run[j])
           /\ asked = {req} /\ resp.by \in {"upstream", "error"}
  <2>1. answering = {} /\ asked # {}
    BY <1>3
  <2> QED BY <1>3, <2>1 DEF Req!AnsweredByFirst
<1>4. CASE /\ asked = {}
           /\ \E i \in DOMAIN Req!Run :
               /\ Req!Answering(Req!Run[i]) /\ \A j \in 1 .. i - 1 : ~Req!Answering(Req!Run[j])
               /\ resp.by \in {Req!Run[i].kind, "error"}
  <2>1. PICK i \in DOMAIN Req!Run :
               /\ Req!Answering(Req!Run[i]) /\ \A j \in 1 .. i - 1 : ~Req!Answering(Req!Run[j])
               /\ resp.by \in {Req!Run[i].kind, "error"}
    BY <1>4
  <2>2. i \in answering /\ answering # {}
    BY <2>1
  <2>3. ASSUME NEW j \in answering
        PROVE  Req!Run[i].order <= Req!Run[j].order
    <3>1. j \in DOMAIN Req!Run /\ i \in Nat /\ j \in Nat /\ ~(j < i)
      BY <1>1, <2>1, <2>3
    <3>2. Req!Run[i].order \in Int
      BY <1>1, HandlersHaveKinds
    <3> QED BY <1>2, <3>1, <3>2
  <2>4. asked = {} /\ \E k \in answering :
          /\ \A j \in answering : Req!Run[k].order <= Req!Run[j].order
          /\ resp.by \in {Req!Run[k].kind, "error"}
    BY <1>4, <2>1, <2>2, <2>3
  <2> HIDE DEF answering
  <2>5. IF answering = {}
        THEN resp.by \in {"upstream", "error"} /\ asked # {}
        ELSE /\ asked = {}
             /\ \E k \in answering :
                  /\ \A j \in answering : Req!Run[k].order <= Req!Run[j].order
                  /\ resp.by \in {Req!Run[k].kind, "error"}
    BY <2>2, <2>4
  <2> QED BY <2>5, Zenon DEF Req!AnsweredByFirst, answering
<1> QED BY <1>3, <1>4 DEF ProcessingInv, Deciding

\* The greatest index is the last.
LEMMA LastIsMax ==
  ASSUME NEW S, S \subseteq Nat, NEW i \in S, \A j \in S : j <= i
  PROVE  Req!Max(S) = i
<1>1. i \in S /\ \A y \in S : i >= y
  OBVIOUS
<1>2. Req!Max(S) \in S /\ \A y \in S : Req!Max(S) >= y
  BY <1>1, Zenon DEF Req!Max
<1>3. Req!Max(S) >= i /\ Req!Max(S) <= i /\ Req!Max(S) \in Nat /\ i \in Nat
  BY <1>2
<1> QED BY <1>3

LEMMA AskedAsToldInv ==
  ASSUME ProcessingConstants, ProcessingInv
  PROVE  Req!AskedWhereTold
<1> SUFFICES ASSUME NEW r \in asked
    PROVE  LET Told(f) == Req!Named(Req!Run[Req!Max(Req!Naming(Req!Run, f))], f)
               written == {i \in Req!Naming(Req!Run, "path") : Req!Run[i].kind = "modifyRequest"}
               base    == IF written = {} THEN original.uri.path ELSE Req!Run[Req!Max(written)].url.path
           IN  /\ \A f \in {"scheme", "authority"} :
                    r.uri[f] = IF Req!Naming(Req!Run, f) = {} THEN original.uri[f] ELSE Told(f)
               /\ Req!IsSuffix(base, r.uri.path)
  BY DEF Req!AskedWhereTold
<1> DEFINE written == {i \in Req!Naming(Req!Run, "path") : Req!Run[i].kind = "modifyRequest"}
<1>1. DOMAIN Req!Run = 1 .. Len(Req!Run) /\ Len(Req!Run) \in Nat
  BY RunIsASequence DEF ProcessingInv
<1>2. AddressedBy(r.uri, Len(Req!Run))
  BY DEF ProcessingInv, Addressed
<1>3. ASSUME NEW f \in {"scheme", "authority"}
      PROVE  r.uri[f] = IF Req!Naming(Req!Run, f) = {} THEN original.uri[f]
                        ELSE Req!Named(Req!Run[Req!Max(Req!Naming(Req!Run, f))], f)
  <2>1. Req!Naming(Req!Run, f) \subseteq 1 .. Len(Req!Run)
    BY <1>1 DEF Req!Naming
  <2>2. CASE r.uri[f] = original.uri[f] /\ \A j \in 1 .. Len(Req!Run) : ~Names(j, f)
    BY <2>1, <2>2 DEF Names
  <2>3. CASE \E i \in 1 .. Len(Req!Run) :
               /\ Names(i, f) /\ \A j \in i + 1 .. Len(Req!Run) : ~Names(j, f)
               /\ r.uri[f] = Req!Named(Req!Run[i], f)
    <3>1. PICK i \in 1 .. Len(Req!Run) :
               /\ i \in Req!Naming(Req!Run, f) /\ \A j \in i + 1 .. Len(Req!Run) : j \notin Req!Naming(Req!Run, f)
               /\ r.uri[f] = Req!Named(Req!Run[i], f)
      BY <2>3 DEF Names
    <3>2. \A j \in Req!Naming(Req!Run, f) : j <= i
      BY <1>1, <2>1, <3>1
    <3>3. Req!Naming(Req!Run, f) \subseteq Nat
      BY <2>1
    <3>4. Req!Max(Req!Naming(Req!Run, f)) = i
      BY <3>1, <3>2, <3>3, LastIsMax
    <3> QED BY <3>1, <3>4
  <2> QED BY <1>2, <2>2, <2>3 DEF AddressedBy
<1>4. Req!IsSuffix(IF written = {} THEN original.uri.path ELSE Req!Run[Req!Max(written)].url.path, r.uri.path)
  <2>1. written \subseteq 1 .. Len(Req!Run) /\ \A i : i \in written <=> Writes(i)
    BY <1>1 DEF Req!Naming, Writes, Names
  <2> HIDE DEF written
  <2>2. CASE Req!IsSuffix(original.uri.path, r.uri.path) /\ \A j \in 1 .. Len(Req!Run) : ~Writes(j)
    <3>1. written = {}
      BY <2>1, <2>2
    <3> QED BY <2>2, <3>1
  <2>3. CASE \E i \in 1 .. Len(Req!Run) :
               /\ Writes(i) /\ \A j \in i + 1 .. Len(Req!Run) : ~Writes(j)
               /\ Req!IsSuffix(Req!Run[i].url.path, r.uri.path)
    <3>1. PICK i \in 1 .. Len(Req!Run) :
               /\ i \in written /\ \A j \in i + 1 .. Len(Req!Run) : j \notin written
               /\ Req!IsSuffix(Req!Run[i].url.path, r.uri.path)
      BY <2>1, <2>3
    <3>2. \A j \in written : j <= i
      BY <1>1, <2>1, <3>1
    <3>3. written \subseteq Nat
      BY <2>1
    <3>4. Req!Max(written) = i
      BY <3>1, <3>2, <3>3, LastIsMax
    <3> QED BY <3>1, <3>4
  <2> QED BY <1>2, <2>2, <2>3 DEF AddressedBy
<1> QED BY <1>3, <1>4, Zenon

LEMMA RulesDecideInv ==
  ASSUME ProcessingConstants, ProcessingInv
  PROVE  Req!RulesDecide
BY FirstDecides, AskedAsToldInv DEF Req!RulesDecide

LEMMA HeadersAreDescribed ==
  ASSUME ProcessingConstants, ProcessingInv
  PROVE  Req!HeadersDescribeBody
<1> SUFFICES ASSUME stage = "deliver", ~Req!InjectorGap(Req!Run)
    PROVE  Described(resp)
  BY DEF Req!HeadersDescribeBody, Described
<1>1. DOMAIN Req!Run = 1 .. Len(Req!Run) /\ Len(Req!Run) \in Nat
  BY RunIsASequence DEF ProcessingInv
<1>2. todo = << >> /\ Handled = Len(Req!Run)
  <2>1. todo = << >>
    BY DEF ProcessingInv, Queue
  <2>2. Len(<< >>) = 0
    OBVIOUS
  <2> QED BY <1>1, <2>1, <2>2 DEF Handled
<1>3. CASE \E i \in 1 .. Handled :
         /\ Req!Run[i].kind = "htmlScriptInjector"
         /\ resp.body = Req!NoBody \/ (Req!Run[i].blank /\ resp.encoding \in Req!Decoders /\ resp.body.enc = Absent)
  <2>1. PICK i \in DOMAIN Req!Run :
         /\ Req!Run[i].kind = "htmlScriptInjector"
         /\ resp.body = Req!NoBody \/ (Req!Run[i].blank /\ resp.encoding \in Req!Decoders /\ resp.body.enc = Absent)
    BY <1>1, <1>2, <1>3
  <2>2. i \in Req!Of(Req!Run, {"htmlScriptInjector"})
    BY <2>1 DEF Req!Of
  <2> QED BY <2>1, <2>2 DEF Req!InjectorGap
<1> QED BY <1>3 DEF ProcessingInv, HeadersInv

LEMMA DeliveredAsConfigured ==
  ASSUME ProcessingConstants, ProcessingInv
  PROVE  Req!DeliveredInTime
<1>1. Req!Run \in Seq(Handlers) /\ Len(Req!Run) \in Nat
  BY RunIsASequence DEF ProcessingInv
<1>2. Req!WaitsAsConfigured
  <2>1. SUFFICES ASSUME stage \in {"deliver", "done"}
        PROVE  /\ waited <= Req!Sum([i \in DOMAIN Req!Run |-> Req!Most(Req!Run[i])])
               /\ resp.by = "upstream" => waited >= Req!Sum([i \in DOMAIN Req!Run |-> Req!Least(Req!Run[i])])
    BY DEF Req!WaitsAsConfigured
  <2>2. PICK most \in Int, least \in Int, m \in Int, l \in Int :
          /\ most = Req!Sum([i \in DOMAIN Req!Run |-> Req!Most(Req!Run[i])])
          /\ least = Req!Sum([i \in DOMAIN Req!Run |-> Req!Least(Req!Run[i])])
          /\ m = MostAfter(Req!Run, Len(Req!Run), Len(Req!Run))
          /\ l = LeastAfter(Req!Run, Len(Req!Run), Len(Req!Run))
          /\ m <= most /\ least <= l
    <3>1. PICK n \in Nat : n = Len(Req!Run) /\ n <= Len(Req!Run)
      BY <1>1
    <3>2. /\ MostAfter(Req!Run, Len(Req!Run), Len(Req!Run)) <=
               Req!Sum([i \in DOMAIN Req!Run |-> Req!Most(Req!Run[i])])
          /\ Req!Sum([i \in DOMAIN Req!Run |-> Req!Least(Req!Run[i])]) <=
               LeastAfter(Req!Run, Len(Req!Run), Len(Req!Run))
          /\ MostAfter(Req!Run, Len(Req!Run), Len(Req!Run)) \in Int
          /\ LeastAfter(Req!Run, Len(Req!Run), Len(Req!Run)) \in Int
          /\ Req!Sum([i \in DOMAIN Req!Run |-> Req!Most(Req!Run[i])]) \in Int
          /\ Req!Sum([i \in DOMAIN Req!Run |-> Req!Least(Req!Run[i])]) \in Int
      BY <1>1, <3>1, AllWaited
    <3> QED BY <3>2
  <2>3. /\ waited <= MostAfter(Req!Run, Len(Req!Run), Len(Req!Run))
        /\ resp.by = "upstream" => LeastAfter(Req!Run, Len(Req!Run), Len(Req!Run)) <= waited
    BY <2>1 DEF ProcessingInv, Waits
  <2>4. waited \in Nat
    BY DEF ProcessingInv, RequestTyped
  <2>5. waited <= most /\ (resp.by = "upstream" => waited >= least)
    BY <2>2, <2>3, <2>4
  <2> QED BY <2>2, <2>5
<1> QED BY <1>2 DEF ProcessingInv, Req!DeliveredInTime, Delivery, SentPaced, Req!Paced

-----------------------------------------------------------------------------
\* The state of a request keeps its types, the upstream is asked once at most, and what has been
\* sent is a beginning of the frames (request_processing_service.rs, throttle_handler_trait.rs),
\* for any rules, requests, answers and frames.
THEOREM ProcessingTypeCorrect ==
  ASSUME ProcessingConstants
  PROVE  Req!Spec => []Req!TypeOK
<1>1. Req!Init => ProcessingInv
  BY ProcessingInit
<1>2. ProcessingInv /\ [Req!Next]_(Req!vars) => ProcessingInv'
  BY ProcessingStep
<1>3. ProcessingInv => Req!TypeOK
  BY ProcessingIsTyped
<1> QED BY <1>1, <1>2, <1>3, PTL DEF Req!Spec

\* The first handler that answers does, in execution order, and then the upstream is not asked; else
\* it is asked where the last handlers that name a part of the address say, and its path ends with
\* the last one a rule writes or the client's (handle_request, modify_request_handler_trait.rs,
\* proxy_forward_handler_trait.rs), for any number of rules and handlers.
THEOREM ProcessingRules ==
  ASSUME ProcessingConstants
  PROVE  Req!Spec => []Req!RulesDecide
<1>1. Req!Init => ProcessingInv
  BY ProcessingInit
<1>2. ProcessingInv /\ [Req!Next]_(Req!vars) => ProcessingInv'
  BY ProcessingStep
<1>3. ProcessingInv => Req!RulesDecide
  BY RulesDecideInv
<1> QED BY <1>1, <1>2, <1>3, PTL DEF Req!Spec

\* What is delivered has the Content-Encoding and Content-Length of its body, unless an HTML
\* injector left its body undescribed (modify_response_handler_trait.rs,
\* html_script_injector_trait.rs), whatever handlers ran before and after.
THEOREM ProcessingHeaders ==
  ASSUME ProcessingConstants
  PROVE  Req!Spec => []Req!HeadersDescribeBody
<1>1. Req!Init => ProcessingInv
  BY ProcessingInit
<1>2. ProcessingInv /\ [Req!Next]_(Req!vars) => ProcessingInv'
  BY ProcessingStep
<1>3. ProcessingInv => Req!HeadersDescribeBody
  BY HeadersAreDescribed
<1> QED BY <1>1, <1>2, <1>3, PTL DEF Req!Spec

\* All handlers together wait for what they are configured for, each throttled body lets bytes
\* through at its rate at most, and the client reads to the end what the upstream sent to the end
\* (delay_handler_trait.rs, throttle_handler_trait.rs), for any delays, rates and frames.
THEOREM ProcessingDelivery ==
  ASSUME ProcessingConstants
  PROVE  Req!Spec => []Req!DeliveredInTime
<1>1. Req!Init => ProcessingInv
  BY ProcessingInit
<1>2. ProcessingInv /\ [Req!Next]_(Req!vars) => ProcessingInv'
  BY ProcessingStep
<1>3. ProcessingInv => Req!DeliveredInTime
  BY DeliveredAsConfigured
<1> QED BY <1>1, <1>2, <1>3, PTL DEF Req!Spec


=============================================================================
