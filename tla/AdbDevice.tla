------------------------------ MODULE AdbDevice ------------------------------
(***************************************************************************)
(* Android devices sent through the proxy (core/src/adb): Lynx saves the   *)
(* proxy setting of the device in a file, points the device at itself, and *)
(* puts the setting back when it is disabled; and it downloads adb when    *)
(* there is none.                                                          *)
(*                                                                         *)
(* A command to a device is a process of its own, waited for at most       *)
(* ADB_TIMEOUT and left running after it: it may still take effect. Each   *)
(* UI connection has an AdbManager of its own: nothing keeps two calls     *)
(* apart, and the install in progress that one knows, no other does.       *)
(***************************************************************************)
EXTENDS Integers, FiniteSets

CONSTANTS
  Serials,     \* devices; each has a state file of its own
  Sessions,    \* UI connections, one call at a time
  UserProxies, \* settings the user may have made
  Unset,       \* the setting is null: "null" in the state file
  Gone,        \* no state file, or one that does not parse
  LocalOnly,   \* whether Lynx listens on the loopback only
  MaxCalls,    \* bound: calls of all sessions
  MaxFaults    \* bound: commands that fail or time out, and crashes

VARIABLES
  setting,     \* global http_proxy of each device
  reversed,    \* devices with a reverse tunnel
  saved,       \* the state file of each device
  tools,       \* the directory of the bundled adb
  zip,         \* the file of the download
  job,         \* the call of each session
  late,        \* settings that commands given up on may still make
  spent,       \* calls and faults so far
  chosen,      \* history: what the user last wanted the setting to be
  atRisk       \* history: devices two calls were at at once, or one left half-way

vars == <<setting, reversed, saved, tools, zip, job, late, spent, chosen, atRisk>>
deviceVars == <<setting, reversed, saved, late, chosen, atRisk>>

ProxyMode == {"lan", "usb_reverse"}
NoProxy == ":0"

\* Where proxy_host_port points a device, by mode.
ProxyHostPort(mode) == IF mode = "lan" THEN "host:port" ELSE "127.0.0.1:port"
Lynx == {ProxyHostPort(m) : m \in ProxyMode}

Idle == [at |-> "idle", serial |-> Unset, mode |-> Unset, backup |-> Unset, alone |-> FALSE]

Init ==
  /\ setting \in [Serials -> UserProxies \cup {Unset}]
  /\ reversed = {}
  /\ saved = [s \in Serials |-> Gone]
  /\ tools \in {"none", "torn"}
  /\ zip = "none"
  /\ job = [c \in Sessions |-> Idle]
  /\ late = {}
  /\ spent = [calls |-> 0, faults |-> 0]
  /\ chosen = setting
  /\ atRisk = {}

Called == spent.calls < MaxCalls /\ spent' = [spent EXCEPT !.calls = @ + 1]
Failed == spent.faults < MaxFaults /\ spent' = [spent EXCEPT !.faults = @ + 1]

Others(c, s) == {d \in Sessions \ {c} : job[d].serial = s}
Go(c, at) == job' = [job EXCEPT ![c].at = at]
Answer(c) == job' = [job EXCEPT ![c] = Idle]

-----------------------------------------------------------------------------
(***************************************************************************)
(* DEVICE_PROXY_ENABLE and DEVICE_PROXY_DISABLE.                           *)
(***************************************************************************)
Arrive(c, s, next) ==
  /\ job[c].at = "idle" /\ Called
  /\ job' = [job EXCEPT ![c] = next]
  /\ atRisk' = IF Others(c, s) = {} THEN atRisk ELSE atRisk \cup {s}
  /\ UNCHANGED <<setting, reversed, saved, tools, zip, late>>

EnableProxy_again(c) ==
  \E s \in Serials, m \in ProxyMode :
    /\ ~(m = "lan" /\ LocalOnly)
    /\ Arrive(c, s, [Idle EXCEPT !.at = "get", !.serial = s, !.mode = m])
    /\ UNCHANGED chosen

\* Refused on the loopback, and while there is a state file.
EnableProxy(c) ==
  \E s \in Serials, m \in ProxyMode :
    /\ ~(m = "lan" /\ LocalOnly) /\ saved[s] = Gone
    /\ Arrive(c, s, [Idle EXCEPT !.at = "get", !.serial = s, !.mode = m])
    /\ UNCHANGED chosen

\* With no state file the setting is cleared, whoever has made it.
DisableProxy(c) ==
  \E s \in Serials :
    IF saved[s] = Gone
    THEN /\ Arrive(c, s, [Idle EXCEPT !.at = "clear", !.serial = s, !.backup = NoProxy])
         /\ chosen' = [chosen EXCEPT ![s] = NoProxy]
    ELSE /\ Arrive(c, s, [at |-> "restore", serial |-> s, mode |-> saved[s].mode,
                          backup |-> IF saved[s].backup = Unset THEN NoProxy ELSE saved[s].backup,
                          alone |-> FALSE])
         /\ UNCHANGED chosen

GetHttpProxy(c) ==
  /\ job[c].at = "get"
  /\ job' = [job EXCEPT ![c].backup = setting[job[c].serial],
                        ![c].at = IF job[c].mode = "usb_reverse" THEN "reverse" ELSE "put"]
  /\ UNCHANGED <<deviceVars, tools, zip, spent>>

SetupReverse(c) ==
  /\ job[c].at = "reverse"
  /\ reversed' = reversed \cup {job[c].serial}
  /\ Go(c, "put")
  /\ UNCHANGED <<setting, saved, tools, zip, late, spent, chosen, atRisk>>

SetHttpProxy(c) ==
  LET j == job[c] IN
    /\ j.at \in {"put", "restore", "clear"}
    /\ setting' = [setting EXCEPT ![j.serial] = IF j.at = "put" THEN ProxyHostPort(j.mode) ELSE j.backup]
    /\ CASE j.at = "put" -> Go(c, "save")
         [] j.at = "restore" -> Go(c, IF j.mode = "usb_reverse" THEN "unreverse" ELSE "remove")
         [] j.at = "clear" -> Answer(c)
    /\ UNCHANGED <<reversed, saved, tools, zip, late, spent, chosen, atRisk>>

\* fs::write: the file is truncated, then written.
Truncate(c) ==
  /\ job[c].at = "save"
  /\ saved' = [saved EXCEPT ![job[c].serial] = Gone]
  /\ Go(c, "write")
  /\ UNCHANGED <<setting, reversed, tools, zip, late, spent, chosen, atRisk>>

SavePersisted(c) ==
  /\ job[c].at = "write"
  /\ saved' = [saved EXCEPT ![job[c].serial] = [backup |-> job[c].backup, mode |-> job[c].mode]]
  /\ Answer(c)
  /\ UNCHANGED <<setting, reversed, tools, zip, late, spent, chosen, atRisk>>

\* A removal that adb refuses is ignored.
RemoveReverse(c) ==
  /\ job[c].at = "unreverse"
  /\ \/ reversed' = reversed \ {job[c].serial} /\ UNCHANGED <<spent, atRisk>>
     \/ Failed /\ atRisk' = atRisk \cup {job[c].serial} /\ UNCHANGED reversed
  /\ Go(c, "remove")
  /\ UNCHANGED <<setting, saved, tools, zip, late, chosen>>

\* The setting that was restored is the user's from now on.
RemovePersisted(c) ==
  /\ job[c].at = "remove"
  /\ saved' = [saved EXCEPT ![job[c].serial] = Gone]
  /\ chosen' = [chosen EXCEPT ![job[c].serial] = IF @ = Unset THEN NoProxy ELSE @]
  /\ Answer(c)
  /\ UNCHANGED <<setting, reversed, tools, zip, late, spent, atRisk>>

\* A command that fails ends the call where it is, or, timed out, may still be at work.
\* The calls that are left between the device and the file put the device at risk.
Unsettled(c) == job[c].at \in {"put", "save", "write", "restore", "clear"}

CommandFails(c) ==
  LET j == job[c] IN
    /\ j.at \in {"get", "reverse", "put", "save", "write", "restore", "clear", "unreverse", "remove"}
    /\ Failed
    /\ late' \in {late} \cup
         IF j.at \in {"put", "restore", "clear"}
         THEN {late \cup {[serial |-> j.serial, value |-> IF j.at = "put" THEN ProxyHostPort(j.mode) ELSE j.backup]}}
         ELSE {}
    /\ atRisk' = IF j.at \in {"save", "write", "clear"} \/ late' # late THEN atRisk \cup {j.serial} ELSE atRisk
    /\ Answer(c)
    /\ UNCHANGED <<setting, reversed, saved, tools, zip, chosen>>

LateEffect ==
  \E l \in late :
    /\ setting' = [setting EXCEPT ![l.serial] = l.value]
    /\ late' = late \ {l}
    /\ UNCHANGED <<reversed, saved, tools, zip, job, spent, chosen, atRisk>>

-----------------------------------------------------------------------------
(***************************************************************************)
(* DEVICE_ADB_INSTALL: download_and_extract, when resolve_adb_path finds   *)
(* no adb that runs. `alone`: no other install has overlapped this one.    *)
(***************************************************************************)
InstallSteps == {"download", "receive", "extract", "check"}
Installing(c) == {d \in Sessions \ {c} : job[d].at \in InstallSteps}

\* Two installs that overlap know of each other in the history only.
Apart(c) == [d \in Sessions |-> IF d \in Installing(c) THEN [job[d] EXCEPT !.alone = FALSE] ELSE job[d]]

InstallPlatformTools(c) ==
  /\ job[c].at = "idle" /\ tools # "whole" /\ Called
  /\ tools' = "none"
  /\ job' = [Apart(c) EXCEPT ![c] = [Idle EXCEPT !.at = "download", !.alone = Installing(c) = {}]]
  /\ UNCHANGED <<zip, deviceVars>>

CreateZip(c) ==
  /\ job[c].at = "download"
  /\ zip' = "part"
  /\ Go(c, "receive")
  /\ UNCHANGED <<tools, spent, deviceVars>>

\* What two downloads write into one file is no zip.
ReceiveZip(c) ==
  /\ job[c].at = "receive"
  /\ zip' = IF job[c].alone THEN "whole" ELSE zip
  /\ Go(c, "extract")
  /\ UNCHANGED <<tools, spent, deviceVars>>

ExtractZip(c) ==
  /\ job[c].at = "extract" /\ zip = "whole"
  /\ tools' \in IF job[c].alone THEN {"whole"} ELSE {"whole", "torn"}
  /\ zip' = "none"
  /\ Go(c, "check")
  /\ UNCHANGED <<spent, deviceVars>>

\* adb is there, whole or not: it is made executable and the manifest is written.
CheckInstalled(c) ==
  /\ job[c].at = "check" /\ tools # "none"
  /\ Answer(c)
  /\ UNCHANGED <<tools, zip, spent, deviceVars>>

InstallFails(c) ==
  /\ job[c].at \in InstallSteps
  /\ Failed
  /\ tools' \in IF job[c].at = "extract" THEN {tools, "torn"} ELSE {tools}
  /\ Answer(c)
  /\ UNCHANGED <<zip, deviceVars>>

-----------------------------------------------------------------------------
Crash ==
  /\ Failed
  /\ \E c \in Sessions : job[c].at # "idle"
  /\ atRisk' = atRisk \cup {job[c].serial : c \in {d \in Sessions : Unsettled(d)}}
  /\ tools' = IF \E c \in Sessions : job[c].at = "extract" THEN "torn" ELSE tools
  /\ job' = [c \in Sessions |-> Idle]
  /\ UNCHANGED <<setting, reversed, saved, zip, late, chosen>>

Next ==
  \/ \E c \in Sessions :
       \/ EnableProxy(c) \/ DisableProxy(c) \/ GetHttpProxy(c) \/ SetupReverse(c) \/ SetHttpProxy(c)
       \/ Truncate(c) \/ SavePersisted(c) \/ RemoveReverse(c) \/ RemovePersisted(c) \/ CommandFails(c)
       \/ InstallPlatformTools(c) \/ CreateZip(c) \/ ReceiveZip(c) \/ ExtractZip(c)
       \/ CheckInstalled(c) \/ InstallFails(c)
  \/ LateEffect \/ Crash

Spec == Init /\ [][Next]_vars

-----------------------------------------------------------------------------
TypeOK ==
  /\ setting \in [Serials -> UserProxies \cup {Unset, NoProxy} \cup Lynx]
  /\ reversed \subseteq Serials
  /\ \A s \in Serials : saved[s] = Gone \/ saved[s].mode \in ProxyMode
  /\ tools \in {"none", "torn", "whole"} /\ zip \in {"none", "part", "whole"}
  /\ DOMAIN job = Sessions
  /\ atRisk \subseteq Serials

\* The setting the user made is not lost, and no device is left on a proxy nobody will
\* take it off: unless calls met at the device or one stopped between the device and
\* its file, a state file has what the user chose, and a device that nobody is at and
\* that points at Lynx has one.
SettingKept ==
  \A s \in Serials \ atRisk :
    /\ saved[s] # Gone => saved[s].backup = chosen[s]
    /\ setting[s] \in Lynx /\ (\A c \in Sessions : job[c].serial # s) => saved[s] # Gone
    /\ saved[s] = Gone /\ (\A c \in Sessions : job[c].serial # s) => setting[s] = chosen[s]

\* A device that is restored has its reverse tunnel removed with it.
TunnelWithSetting ==
  \A s \in Serials \ atRisk' :
    saved[s] # Gone /\ saved'[s] = Gone => s \notin reversed' \/ saved[s].mode = "lan"

\* An install that is answered with success, and that no other overlapped, has left
\* an adb that runs.
InstalledRuns ==
  \A c \in Sessions : job[c].at = "check" /\ job[c].alone /\ CheckInstalled(c) => tools = "whole"

\* Devices are left as they were found, and with an adb that runs.
DevicesRestored == [][SettingKept' /\ TunnelWithSetting /\ InstalledRuns]_vars

=============================================================================
