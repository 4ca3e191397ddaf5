------------------------------- MODULE Daemon -------------------------------
(***************************************************************************)
(* The background service (lynx start, stop, restart): DaemonManager in    *)
(* lynx-cli/src/daemon/manager.rs and the process it spawns (lynx run      *)
(* --daemon). The commands are processes that share a status file, written *)
(* in place, and see the daemon only through its pid and its port.         *)
(*                                                                         *)
(* lynx status only reads. Of a daemon's parameters only the port matters. *)
(***************************************************************************)
EXTENDS Naturals, FiniteSets

CONSTANTS
  Pids,         \* process ids
  Ports,
  Shells,       \* where commands are given
  NoOne,        \* Rust's None; an id that names no process
  Garbage,      \* a status file that cannot be parsed
  MaxCommands,  \* bound: commands given
  MaxStrangers  \* bound: processes that are not the daemon

VARIABLES
  procs,      \* what runs under each id
  dstatus,    \* status.json: a DaemonStatus, NoOne when there is none, Garbage
  pidFile,    \* daemon.pid
  cmd,        \* the command of each shell
  given,      \* commands given so far
  strangers,  \* other processes so far
  lostTrack   \* history: a spawned daemon was given up, or two commands overlapped

vars == <<procs, dstatus, pidFile, cmd, given, strangers, lostTrack>>

Free == [kind |-> "free", port |-> NoOne]
DaemonStatus == [pid : Pids, port : Ports, running : BOOLEAN]

Readable == dstatus \in DaemonStatus
Daemons == {p \in Pids : procs[p].kind \in {"booting", "serving"}}
Listening(port) == {p \in Pids : procs[p].kind \in {"serving", "foreground", "dying"} /\ procs[p].port = port}

\* kill -0: there is a process, whichever it is.
IsProcessRunning(pid) == procs[pid].kind # "free"

-----------------------------------------------------------------------------
(* Processes. *)

\* The server of the process is built and binds its port, or it exits: the
\* port is taken, the credentials are incomplete, the data cannot be opened.
StartServer(p) ==
  /\ procs[p].kind = "booting"
  /\ \/ Listening(procs[p].port) = {} /\ procs' = [procs EXCEPT ![p].kind = "serving"]
     \/ procs' = [procs EXCEPT ![p] = Free]
  /\ UNCHANGED <<dstatus, pidFile, cmd, given, strangers, lostTrack>>

\* A process ends, by the signal or by itself.
Exit(p) ==
  /\ procs[p].kind \in {"dying", "serving", "foreground", "other"}
  /\ procs' = [procs EXCEPT ![p] = Free]
  /\ UNCHANGED <<dstatus, pidFile, cmd, given, strangers, lostTrack>>

ExitOfDying(p) == procs[p].kind = "dying" /\ Exit(p)

\* Another program takes a free id, or lynx run is started in a terminal.
Stranger(p) ==
  /\ procs[p].kind = "free" /\ strangers < MaxStrangers
  /\ \/ procs' = [procs EXCEPT ![p].kind = "other"]
     \/ \E port \in Ports : Listening(port) = {} /\ procs' = [procs EXCEPT ![p] = [kind |-> "foreground", port |-> port]]
  /\ strangers' = strangers + 1
  /\ UNCHANGED <<dstatus, pidFile, cmd, given, lostTrack>>

-----------------------------------------------------------------------------
(***************************************************************************)
(* Commands. `seen` is the status read, `pid` the process spawned, `save`  *)
(* the status to be written.                                               *)
(***************************************************************************)
NoCommand == [phase |-> "idle", restart |-> FALSE, port |-> NoOne, seen |-> NoOne, pid |-> NoOne, save |-> NoOne]

Give(c, command) ==
  /\ cmd[c].phase = "idle" /\ given < MaxCommands
  /\ given' = given + 1
  /\ cmd' = [cmd EXCEPT ![c] = command]
  /\ lostTrack' = (lostTrack \/ \E d \in Shells : cmd[d].phase # "idle")
  /\ UNCHANGED <<procs, dstatus, pidFile, strangers>>

Start(c) == \E port \in Ports : Give(c, [NoCommand EXCEPT !.phase = "look", !.port = port])
Stop(c) == Give(c, [NoCommand EXCEPT !.phase = "stop"])

\* Without a port the one of the status is kept.
Restart(c) ==
  \E port \in Ports \cup {NoOne} :
    Give(c, [NoCommand EXCEPT !.phase = "restart", !.restart = TRUE, !.port = port])

Goto(c, phase) == cmd' = [cmd EXCEPT ![c].phase = phase]

End(c) == cmd' = [cmd EXCEPT ![c] = NoCommand]

\* The end of stop_daemon: restart_daemon ignores its outcome and starts.
StopEnds(c) == IF cmd[c].restart THEN Goto(c, "look") ELSE End(c)

\* start_daemon: is a daemon running already? The file is read, then kill -0 asked.
GetStatus(c) ==
  /\ cmd[c].phase = "look"
  /\ cmd' = [cmd EXCEPT ![c].phase = IF Readable THEN "alive" ELSE "spawn",
                        ![c].seen = IF Readable THEN dstatus ELSE NoOne]
  /\ UNCHANGED <<procs, dstatus, pidFile, given, strangers, lostTrack>>

CheckRunning_unasked(c) ==
  /\ cmd[c].phase = "alive"
  /\ Goto(c, "spawn")
  /\ UNCHANGED <<procs, dstatus, pidFile, given, strangers, lostTrack>>
CheckRunning_waits(c) ==
  /\ cmd[c].phase = "alive" /\ ~IsProcessRunning(cmd[c].seen.pid)
  /\ Goto(c, "spawn")
  /\ UNCHANGED <<procs, dstatus, pidFile, given, strangers, lostTrack>>
CheckRunning(c) ==
  /\ cmd[c].phase = "alive"
  /\ IF IsProcessRunning(cmd[c].seen.pid)
     THEN End(c)
     ELSE Goto(c, "spawn")
  /\ UNCHANGED <<procs, dstatus, pidFile, given, strangers, lostTrack>>

SpawnDaemonProcess(c) ==
  /\ cmd[c].phase = "spawn"
  /\ \E p \in Pids :
       /\ procs[p].kind = "free"
       /\ procs' = [procs EXCEPT ![p] = [kind |-> "booting", port |-> cmd[c].port]]
       /\ cmd' = [cmd EXCEPT ![c].phase = "wait", ![c].pid = p]
  /\ UNCHANGED <<dstatus, pidFile, given, strangers, lostTrack>>

Running(pid, port) == [pid |-> pid, port |-> port, running |-> TRUE]

\* After half a second the port is asked for its addresses, once. Whoever
\* listens answers; when no one does, the command fails and saves nothing.
WaitForConnectionInfo(c) ==
  /\ cmd[c].phase = "wait"
  /\ IF Listening(cmd[c].port) # {}
     THEN /\ cmd' = [cmd EXCEPT ![c].phase = "truncate", ![c].save = Running(cmd[c].pid, cmd[c].port)]
          /\ UNCHANGED lostTrack
     ELSE End(c) /\ lostTrack' = (lostTrack \/ cmd[c].pid \in Daemons)
  /\ UNCHANGED <<procs, dstatus, pidFile, given, strangers>>

\* save_status writes the file in place.
SaveStatus(c) ==
  /\ \/ cmd[c].phase = "truncate" /\ dstatus' = Garbage /\ Goto(c, "write")
     \/ cmd[c].phase = "write" /\ dstatus' = cmd[c].save /\ Goto(c, "pid file")
  /\ UNCHANGED <<procs, pidFile, given, strangers, lostTrack>>

WritePidFile(c) ==
  /\ cmd[c].phase = "pid file" /\ cmd[c].save.running
  /\ pidFile' = cmd[c].pid
  /\ End(c)
  /\ UNCHANGED <<procs, dstatus, given, strangers, lostTrack>>

\* stop_daemon
StopReads(c) ==
  /\ cmd[c].phase = "stop"
  /\ IF Readable /\ dstatus.running
     THEN cmd' = [cmd EXCEPT ![c].phase = "kill", ![c].seen = dstatus]
     ELSE StopEnds(c)
  /\ UNCHANGED <<procs, dstatus, pidFile, given, strangers, lostTrack>>

KillProcess(c) ==
  LET pid == cmd[c].seen.pid
  IN  /\ cmd[c].phase = "kill"
      /\ IF IsProcessRunning(pid)
         THEN /\ procs' = [procs EXCEPT ![pid].kind = "dying"]
              /\ cmd' = [cmd EXCEPT ![c].phase = "truncate", ![c].save = [cmd[c].seen EXCEPT !.running = FALSE]]
         ELSE StopEnds(c) /\ UNCHANGED procs
      /\ UNCHANGED <<dstatus, pidFile, given, strangers, lostTrack>>

RemovePidFile(c) ==
  /\ cmd[c].phase = "pid file" /\ ~cmd[c].save.running
  /\ pidFile' = NoOne
  /\ StopEnds(c)
  /\ UNCHANGED <<procs, dstatus, given, strangers, lostTrack>>

\* restart_daemon: the parameters not given are those of the status.
ResolveRestartParams(c) ==
  /\ cmd[c].phase = "restart"
  /\ IF Readable
     THEN /\ cmd' = [cmd EXCEPT ![c].phase = "stop", ![c].port = IF @ = NoOne THEN dstatus.port ELSE @]
     ELSE End(c)
  /\ UNCHANGED <<procs, dstatus, pidFile, given, strangers, lostTrack>>

\* The command is interrupted. The daemon is in a process group of its own.
Interrupt(c) ==
  /\ cmd[c].phase # "idle"
  /\ End(c)
  /\ lostTrack' = (lostTrack \/ (cmd[c].pid \in Daemons /\ cmd[c].phase # "pid file"))
  /\ UNCHANGED <<procs, dstatus, pidFile, given, strangers>>

CommandStep(c) ==
  \/ GetStatus(c) \/ CheckRunning(c) \/ SpawnDaemonProcess(c) \/ WaitForConnectionInfo(c)
  \/ SaveStatus(c) \/ WritePidFile(c) \/ StopReads(c) \/ KillProcess(c) \/ RemovePidFile(c)
  \/ ResolveRestartParams(c)

-----------------------------------------------------------------------------
Init ==
  /\ procs = [p \in Pids |-> Free]
  /\ dstatus = NoOne /\ pidFile = NoOne
  /\ cmd = [c \in Shells |-> NoCommand]
  /\ given = 0 /\ strangers = 0 /\ lostTrack = FALSE

Next ==
  \/ \E c \in Shells : Start(c) \/ Stop(c) \/ Restart(c) \/ CommandStep(c) \/ Interrupt(c)
  \/ \E p \in Pids : StartServer(p) \/ Exit(p) \/ Stranger(p)

Spec == Init /\ [][Next]_vars

\* A command runs to its end; ids are not used up for ever.
Fairness ==
  /\ \A c \in Shells : WF_vars(CommandStep(c))
  /\ \A p \in Pids : WF_vars(ExitOfDying(p))

TypeOK ==
  /\ procs \in [Pids -> [kind : {"free", "booting", "serving", "dying", "foreground", "other"},
                         port : Ports \cup {NoOne}]]
  /\ dstatus \in DaemonStatus \cup {NoOne, Garbage}
  /\ pidFile \in Pids \cup {NoOne}
  /\ \A c \in Shells : cmd[c].phase \in {"idle", "look", "alive", "spawn", "wait", "truncate", "write",
                                         "pid file", "stop", "kill", "restart"}

(***************************************************************************)
(* A daemon that runs can be found and stopped: when no command is at      *)
(* work, the status file names it. It is lost only when start_daemon gave  *)
(* up on it while it was starting, was interrupted before it saved the     *)
(* status, or when commands overlapped.                                    *)
(***************************************************************************)
RunningDaemonIsKnown ==
  ~lostTrack /\ (\A c \in Shells : cmd[c].phase = "idle")
    => \A p \in Daemons : Readable /\ dstatus.pid = p /\ dstatus.running

(***************************************************************************)
(* There is one daemon: start_daemon and restart_daemon spawn none while   *)
(* another runs, unless the other was lost in one of those ways.           *)
(***************************************************************************)
OneDaemon == ~lostTrack => Cardinality(Daemons) <= 1

(***************************************************************************)
(* The answer wait_for_connection_info takes for the daemon's is the       *)
(* daemon's: the port is served by the process just spawned, unless        *)
(* lynx run in a terminal, a lost daemon or one that is just being         *)
(* stopped has it.                                                         *)
(***************************************************************************)
StartedIsServing ==
  \A c \in Shells :
    cmd[c].phase = "wait" /\ cmd'[c].phase = "truncate" /\ ~lostTrack
      => \E p \in Listening(cmd[c].port) : p = cmd[c].pid \/ procs[p].kind \in {"foreground", "dying"}

(***************************************************************************)
(* start, stop and restart_daemon end, whatever the other commands and the *)
(* processes they look at do.                                              *)
(***************************************************************************)
CommandsEnd == \A c \in Shells : cmd[c].phase # "idle" ~> cmd[c].phase = "idle"

\* Every step leaves the daemon one and known, and takes only its own answer for it.
DaemonIsKnown == [][RunningDaemonIsKnown' /\ OneDaemon' /\ StartedIsServing]_vars

=============================================================================
