------------------------------ MODULE ToolProofs ------------------------------
(***************************************************************************)
(* Proofs about the tools around the proxy: for any devices, sessions,     *)
(* settings and numbers of calls and faults, devices are left as they were *)
(* found and an install that succeeds leaves an adb that runs; for any     *)
(* projects, rules and shells, lynx rules push, pull and apply leave file  *)
(* and store as they say. The two share no state: AdbDevice is extended,   *)
(* ProjectConfig is the instance Config, its store the variable store.     *)
(***************************************************************************)
EXTENDS AdbDevice, FiniteSetTheorems, WellFoundedInduction, SequenceTheorems, TLAPS

CONSTANTS
  RuleIds, Projects, Texts, Invalid, Shells, Nothing, Edited, Stores, MaxChanges
VARIABLES store, config, backups, lynx, changes

Config == INSTANCE ProjectConfig WITH saved <- store

-----------------------------------------------------------------------------
(***************************************************************************)
(* Devices.                                                                *)
(***************************************************************************)
Settings == UserProxies \cup {Unset, NoProxy} \cup Lynx
Saved == [backup : Settings, mode : ProxyMode]
DeviceSteps == {"get", "reverse", "put", "save", "write", "restore", "clear", "unreverse", "remove"}
Job == [at : DeviceSteps \cup InstallSteps \cup {"idle"}, serial : Serials \cup {Unset},
        mode : ProxyMode \cup {Unset}, backup : Settings, alone : BOOLEAN]

\* What the constants stand for: null is no device, the user has not chosen Lynx, and
\* a file that is gone is not one that is there.
Constants ==
  /\ Unset \notin Serials
  /\ Lynx \cap (UserProxies \cup {Unset}) = {}
  /\ Gone \notin Saved

-----------------------------------------------------------------------------
(***************************************************************************)
(* The invariant. A call is at a device exactly in the steps of a device.  *)
(***************************************************************************)
Placed(j) ==
  /\ j.at \in DeviceSteps => j.serial \in Serials /\ (j.at # "clear" => j.mode \in ProxyMode)
  /\ j.at \notin DeviceSteps => j.serial = Unset

Typed ==
  /\ setting \in [Serials -> Settings]
  /\ reversed \subseteq Serials /\ atRisk \subseteq Serials
  /\ saved \in [Serials -> Saved \cup {Gone}]
  /\ tools \in {"none", "torn", "whole"} /\ zip \in {"none", "part", "whole"}
  /\ job \in [Sessions -> Job]
  /\ \A c \in Sessions : Placed(job[c])
  /\ late \subseteq [serial : Serials, value : Settings]
  /\ chosen \in [Serials -> Settings]

\* The setting that disable_proxy makes: null cannot be put, so it is cleared.
Restored(s) == IF chosen[s] = Unset THEN NoProxy ELSE chosen[s]

(***************************************************************************)
(* What the call at a device knows in each step, when it is the only one   *)
(* that has been there: before the device points at Lynx it is as the user *)
(* left it, until there is a state file the call holds what is to be       *)
(* saved, and while there is one the call puts back what it says.          *)
(***************************************************************************)
Knows(j) ==
  LET s == j.serial IN
    /\ j.at \in {"get", "reverse", "put", "save", "write", "clear"} => saved[s] = Gone
    /\ j.at \in {"get", "reverse", "put"} => setting[s] = chosen[s]
    /\ j.at \in {"reverse", "put", "save", "write"} => j.backup = chosen[s]
    /\ j.at \in {"restore", "unreverse", "remove"} =>
         saved[s] # Gone /\ j.mode = saved[s].mode /\ j.backup = Restored(s)
    /\ j.at \in {"unreverse", "remove"} => setting[s] = Restored(s)
    /\ j.at = "remove" /\ j.mode = "usb_reverse" => s \notin reversed
    /\ j.at = "clear" => j.backup = NoProxy /\ chosen[s] = NoProxy

Unattended(s) == \A c \in Sessions : job[c].serial # s

Sound(s) ==
  s \notin atRisk =>
    /\ chosen[s] \notin Lynx
    /\ saved[s] # Gone => saved[s].backup = chosen[s]
    /\ Unattended(s) /\ saved[s] = Gone => setting[s] = chosen[s]
    /\ \A c, d \in Sessions : job[c].serial = s /\ job[d].serial = s => c = d
    /\ \A c \in Sessions : job[c].serial = s => Knows(job[c])

\* A command that may still take effect is at a device that is at risk.
LateAtRisk == \A l \in late : l.serial \in atRisk

\* An install no other overlaps is alone, and has extracted an adb that runs.
InstallSound ==
  \A c \in Sessions : job[c].at \in InstallSteps /\ job[c].alone =>
    Installing(c) = {} /\ (job[c].at = "check" => tools = "whole")

Inv == Typed /\ (\A s \in Serials : Sound(s)) /\ LateAtRisk /\ InstallSound

-----------------------------------------------------------------------------
(***************************************************************************)
(* Steps at a device.                                                      *)
(***************************************************************************)
LEMMA IdleJob == Idle \in Job /\ Placed(Idle) /\ Idle.at = "idle" /\ Idle.serial = Unset
BY DEF Idle, Job, Placed, Settings, DeviceSteps, InstallSteps

\* Where a call is.
LEMMA JobTypes ==
  ASSUME Typed, NEW c \in Sessions
  PROVE  /\ job[c] \in Job /\ Placed(job[c])
         /\ job[c].at \in DeviceSteps => job[c].serial \in Serials
BY DEF Typed, Placed

\* Whatever a call does at one device, the others are as they were.
LEMMA Elsewhere ==
  ASSUME Inv, Constants, NEW c \in Sessions, NEW s, NEW t \in Serials \ {s}, NEW j,
         job' = [job EXCEPT ![c] = j], j.serial \in {s, Unset}, job[c].serial \in {s, Unset},
         setting'[t] = setting[t], saved'[t] = saved[t], chosen'[t] = chosen[t],
         t \in reversed' <=> t \in reversed, atRisk \subseteq atRisk'
  PROVE  Sound(t)'
<1> SUFFICES ASSUME t \notin atRisk' PROVE Sound(t)'
  BY DEF Sound
<1>1. Sound(t) /\ t \notin atRisk /\ t # Unset
  BY DEF Inv, Constants
<1>2. \A d \in Sessions : job'[d].serial = t => job'[d] = job[d] /\ d # c
  BY <1>1 DEF Inv, Typed
<1>3. \A d \in Sessions : job[d].serial = t => job'[d] = job[d]
  BY <1>1 DEF Inv, Typed
<1>4. \A d \in Sessions : job'[d].serial = t <=> job[d].serial = t
  BY <1>2, <1>3
<1>5. Unattended(t)' <=> Unattended(t)
  BY <1>4 DEF Unattended
<1>6. ASSUME NEW d \in Sessions, NEW k, k = job'[d], k.serial = t PROVE Knows(k)'
  <2>1. Knows(k)
    BY <1>1, <1>2, <1>6 DEF Sound
  <2> QED BY <1>6, <2>1 DEF Knows, Restored
<1>7. \A d, e \in Sessions : job'[d].serial = t /\ job'[e].serial = t => d = e
  BY <1>1, <1>4 DEF Sound
<1> QED BY <1>1, <1>5, <1>6, <1>7 DEF Sound, Knows, Restored

\* The call of a session moves on, or ends: the types of what it touches are enough.
LEMMA JobMoves ==
  ASSUME Typed, NEW c \in Sessions, NEW j \in Job, Placed(j), job' = [job EXCEPT ![c] = j]
  PROVE  job' \in [Sessions -> Job] /\ \A d \in Sessions : Placed(job'[d])
BY DEF Typed

\* The only call at a device moves on, or ends.
LEMMA CallStep ==
  ASSUME Inv, Constants, NEW c \in Sessions, NEW s \in Serials, job[c].serial = s,
         NEW j \in Job, job' = [job EXCEPT ![c] = j], j.serial \in {s, Unset}, j.at \notin InstallSteps,
         \A t \in Serials \ {s} : /\ setting'[t] = setting[t] /\ saved'[t] = saved[t]
                                  /\ chosen'[t] = chosen[t] /\ (t \in reversed' <=> t \in reversed),
         atRisk \subseteq atRisk', UNCHANGED tools, Typed', LateAtRisk',
         s \notin atRisk /\ s \notin atRisk' /\ Sound(s) /\ Knows(job[c]) =>
           /\ chosen'[s] \notin Lynx
           /\ saved'[s] # Gone => saved'[s].backup = chosen'[s]
           /\ j.serial = Unset /\ saved'[s] = Gone => setting'[s] = chosen'[s]
           /\ j.serial = s => Knows(j)'
  PROVE  Inv'
<1>1. \A t \in Serials \ {s} : Sound(t)'
  BY Elsewhere
<1>2. Sound(s)'
  <2> SUFFICES ASSUME s \notin atRisk' PROVE Sound(s)'
    BY DEF Sound
  <2>1. s \notin atRisk /\ Sound(s) /\ s # Unset
    BY DEF Inv, Constants
  <2>2. Knows(job[c]) /\ \A d \in Sessions : job[d].serial = s => d = c
    BY <2>1 DEF Sound
  <2>3. \A d \in Sessions : job'[d] = IF d = c THEN j ELSE job[d]
    BY DEF Inv, Typed
  <2>4. \A d \in Sessions : job'[d].serial = s => d = c
    BY <2>2, <2>3
  <2>5. Unattended(s)' => j.serial = Unset
    BY <2>3 DEF Unattended
  <2>6. ASSUME NEW d \in Sessions, NEW k, k = job'[d], k.serial = s PROVE Knows(k)'
    <3>1. k = j
      BY <2>3, <2>4, <2>6
    <3> QED BY <2>1, <2>2, <2>6, <3>1
  <2> QED BY <2>1, <2>2, <2>4, <2>5, <2>6 DEF Sound, Knows, Restored
<1>3. InstallSound'
  <2>1. \A d \in Sessions : job'[d] = IF d = c THEN j ELSE job[d]
    BY DEF Inv, Typed
  <2> QED BY <2>1 DEF Inv, InstallSound, Installing
<1> QED BY <1>1, <1>2, <1>3 DEF Inv

\* A call comes to a device. When another is there already, the device is at risk.
LEMMA ArriveSound ==
  ASSUME Inv, Constants, NEW c \in Sessions, NEW s \in Serials,
         NEW j \in Job, Placed(j), j.serial = s, j.at \notin InstallSteps, Arrive(c, s, j),
         NEW o \in Settings, chosen' = [chosen EXCEPT ![s] = o],
         s \notin atRisk /\ Sound(s) /\ Unattended(s) =>
           /\ o \notin Lynx
           /\ saved[s] # Gone => saved[s].backup = o
           /\ Knows(j)'
  PROVE  Inv'
<1>1. /\ job' = [job EXCEPT ![c] = j] /\ job[c].at = "idle"
      /\ atRisk' = IF Others(c, s) = {} THEN atRisk ELSE atRisk \cup {s}
      /\ UNCHANGED <<setting, reversed, saved, tools, zip, late>>
  BY DEF Arrive
<1>2. job[c].serial = Unset /\ s # Unset /\ Typed
  BY <1>1, JobTypes DEF Inv, Placed, DeviceSteps, Constants
<1>3. Typed'
  <2>1. job' \in [Sessions -> Job] /\ \A d \in Sessions : Placed(job'[d])
    BY <1>1, <1>2, JobMoves
  <2> QED BY <1>1, <1>2, <2>1 DEF Typed, Placed
<1>4. \A t \in Serials \ {s} : Sound(t)'
  BY <1>1, <1>2, Elsewhere DEF Typed
<1>5. \A d \in Sessions : job'[d] = IF d = c THEN j ELSE job[d]
  BY <1>1, <1>2 DEF Typed
<1>6. Sound(s)'
  <2> SUFFICES ASSUME s \notin atRisk' PROVE Sound(s)'
    BY DEF Sound
  <2>1. s \notin atRisk /\ Sound(s) /\ Others(c, s) = {}
    BY <1>1 DEF Inv
  <2>2. Unattended(s)
    BY <1>2, <2>1 DEF Unattended, Others
  <2>3. \A d \in Sessions : job'[d].serial = s => d = c
    BY <1>5, <2>2 DEF Unattended
  <2>4. ~Unattended(s)'
    BY <1>5 DEF Unattended
  <2>5. chosen'[s] = o
    BY <1>2 DEF Typed
  <2>6. ASSUME NEW d \in Sessions, NEW k, k = job'[d], k.serial = s PROVE Knows(k)'
    BY <1>5, <2>1, <2>2, <2>3, <2>6
  <2> QED BY <1>1, <2>1, <2>2, <2>3, <2>4, <2>5, <2>6 DEF Sound, Knows, Restored
<1>7. InstallSound' /\ LateAtRisk'
  BY <1>1, <1>5 DEF Inv, InstallSound, Installing, LateAtRisk
<1> QED BY <1>3, <1>4, <1>6, <1>7 DEF Inv

\* EnableProxy finds the device as the user left it, without a state file.
LEMMA EnableSound ==
  ASSUME Inv, Constants, NEW c \in Sessions, EnableProxy(c)
  PROVE  Inv'
<1>1. PICK s \in Serials, m \in ProxyMode :
        saved[s] = Gone /\ Arrive(c, s, [Idle EXCEPT !.at = "get", !.serial = s, !.mode = m]) /\ UNCHANGED chosen
  BY DEF EnableProxy
<1> DEFINE j == [Idle EXCEPT !.at = "get", !.serial = s, !.mode = m]
<1>2. j \in Job /\ Placed(j) /\ j.serial = s /\ j.at = "get"
  BY DEF Idle, Job, Placed, Settings, DeviceSteps, InstallSteps
<1> HIDE DEF j
<1>3. chosen' = [chosen EXCEPT ![s] = chosen[s]] /\ chosen[s] \in Settings
  BY <1>1 DEF Inv, Typed
<1>4. s \notin atRisk /\ Sound(s) /\ Unattended(s) =>
        chosen[s] \notin Lynx /\ (saved[s] # Gone => saved[s].backup = chosen[s]) /\ Knows(j)'
  BY <1>1, <1>2 DEF Sound, Knows, Arrive
<1> QED BY <1>1, <1>2, <1>3, <1>4, ArriveSound DEF InstallSteps, j

\* DisableProxy takes what is to be restored from the state file, if there is one.
LEMMA DisableSound ==
  ASSUME Inv, Constants, NEW c \in Sessions, DisableProxy(c)
  PROVE  Inv'
<1>1. PICK s \in Serials :
        IF saved[s] = Gone
        THEN /\ Arrive(c, s, [Idle EXCEPT !.at = "clear", !.serial = s, !.backup = NoProxy])
             /\ chosen' = [chosen EXCEPT ![s] = NoProxy]
        ELSE /\ Arrive(c, s, [at |-> "restore", serial |-> s, mode |-> saved[s].mode,
                              backup |-> IF saved[s].backup = Unset THEN NoProxy ELSE saved[s].backup,
                              alone |-> FALSE])
             /\ UNCHANGED chosen
  BY DEF DisableProxy
<1>2. CASE saved[s] = Gone
  <2> DEFINE j == [Idle EXCEPT !.at = "clear", !.serial = s, !.backup = NoProxy]
  <2>1. j \in Job /\ Placed(j) /\ j.serial = s /\ j.at = "clear" /\ j.backup = NoProxy
    BY DEF Idle, Job, Placed, Settings, DeviceSteps, InstallSteps
  <2>2. Arrive(c, s, j) /\ chosen' = [chosen EXCEPT ![s] = NoProxy]
    BY <1>1, <1>2
  <2> HIDE DEF j
  <2>3. NoProxy \in Settings /\ NoProxy \notin Lynx /\ UNCHANGED saved /\ chosen'[s] = NoProxy
    BY <2>2 DEF Settings, NoProxy, Lynx, ProxyHostPort, ProxyMode, Arrive, Inv, Typed
  <2>4. Knows(j)'
    BY <1>2, <2>1, <2>3 DEF Knows
  <2> QED BY <1>2, <2>1, <2>2, <2>3, <2>4, ArriveSound DEF InstallSteps
<1>3. CASE saved[s] # Gone
  <2> PICK b : b = IF saved[s].backup = Unset THEN NoProxy ELSE saved[s].backup
    OBVIOUS
  <2> PICK j : j = [at |-> "restore", serial |-> s, mode |-> saved[s].mode, backup |-> b, alone |-> FALSE]
    OBVIOUS
  <2>1. saved[s] \in Saved
    BY <1>3 DEF Inv, Typed
  <2>2. b \in Settings /\ saved[s].mode \in ProxyMode
    BY <2>1 DEF Saved, Settings
  <2>3. j \in Job /\ Placed(j) /\ j.serial = s /\ j.at = "restore" /\ j.backup = b /\ j.mode = saved[s].mode
    BY <2>2 DEF Job, Placed, DeviceSteps
  <2>4. Arrive(c, s, j) /\ chosen' = [chosen EXCEPT ![s] = chosen[s]] /\ chosen[s] \in Settings
        /\ UNCHANGED <<chosen, saved>>
    BY <1>1, <1>3 DEF Inv, Typed, Arrive
  <2>5. s \notin atRisk /\ Sound(s) /\ Unattended(s) =>
          chosen[s] \notin Lynx /\ (saved[s] # Gone => saved[s].backup = chosen[s]) /\ Knows(j)'
    <3>1. Sound(s) /\ s \notin atRisk => b = Restored(s)
      BY <1>3 DEF Sound, Restored
    <3> QED BY <1>3, <2>3, <2>4, <3>1 DEF Sound, Knows, Restored
  <2> QED BY <2>3, <2>4, <2>5, ArriveSound DEF InstallSteps
<1> QED BY <1>2, <1>3

\* The call of a session at a device, and where it goes.
LEMMA AtDevice ==
  ASSUME Inv, Constants, NEW c \in Sessions, job[c].at \in DeviceSteps
  PROVE  /\ job[c].serial \in Serials /\ job[c] \in Job /\ job[c].serial # Unset
         /\ job[c].at # "clear" => job[c].mode \in ProxyMode
         /\ \A at \in DeviceSteps :
              LET j == [job[c] EXCEPT !.at = at]
              IN  /\ j \in Job /\ j.at = at /\ j.serial = job[c].serial /\ j.backup = job[c].backup
                  /\ j.mode = job[c].mode /\ (at # "clear" /\ job[c].at # "clear" => Placed(j))
                  /\ Go(c, at) => job' = [job EXCEPT ![c] = j]
<1>1. job[c] \in Job /\ Placed(job[c]) /\ job \in [Sessions -> Job]
  BY JobTypes DEF Inv, Typed
<1> QED BY <1>1 DEF Job, Placed, Go, Constants

\* get_http_proxy: the setting to be saved is the user's.
LEMMA GetSound == ASSUME Inv, Constants, NEW c \in Sessions, GetHttpProxy(c) PROVE Inv'
<1>1. job[c].at = "get" /\ UNCHANGED <<deviceVars, tools, zip, spent>> /\ Typed
  BY DEF GetHttpProxy, Inv
<1> PICK s : s = job[c].serial
  OBVIOUS
<1> PICK j : j = [job[c] EXCEPT !.backup = setting[s], !.at = IF job[c].mode = "usb_reverse" THEN "reverse" ELSE "put"]
  OBVIOUS
<1>2. s \in Serials /\ s # Unset /\ job[c] \in Job /\ setting[s] \in Settings /\ Placed(job[c])
  BY <1>1, AtDevice, JobTypes DEF DeviceSteps, Typed
<1>3. /\ j \in Job /\ Placed(j) /\ j.serial = s /\ j.at \in {"reverse", "put"} /\ j.backup = setting[s]
      /\ job' = [job EXCEPT ![c] = j]
  BY <1>1, <1>2 DEF GetHttpProxy, Job, Placed, DeviceSteps, Typed
<1>4. Typed' /\ LateAtRisk'
  BY <1>1, <1>3, JobMoves DEF Typed, Placed, deviceVars, Inv, LateAtRisk
<1>5. s \notin atRisk /\ Sound(s) /\ Knows(job[c]) =>
        chosen'[s] \notin Lynx /\ (saved'[s] # Gone => saved'[s].backup = chosen'[s]) /\ Knows(j)'
  BY <1>1, <1>3 DEF Knows, deviceVars, Sound
<1>6. UNCHANGED <<setting, reversed, saved, chosen, atRisk, tools>>
  BY <1>1 DEF deviceVars
<1> QED BY <1>2, <1>3, <1>4, <1>5, <1>6, CallStep DEF InstallSteps

\* setup_reverse leaves setting and state file alone.
LEMMA ReverseSound == ASSUME Inv, Constants, NEW c \in Sessions, SetupReverse(c) PROVE Inv'
<1>1. job[c].at = "reverse" /\ UNCHANGED <<setting, saved, tools, zip, late, spent, chosen, atRisk>> /\ Typed
  BY DEF SetupReverse, Inv
<1> PICK s : s = job[c].serial
  OBVIOUS
<1> PICK j : j = [job[c] EXCEPT !.at = "put"]
  OBVIOUS
<1>2. /\ s \in Serials /\ s # Unset /\ j \in Job /\ Placed(j) /\ j.serial = s /\ j.at = "put" /\ j.backup = job[c].backup
      /\ job' = [job EXCEPT ![c] = j] /\ reversed' = reversed \cup {s}
  BY <1>1, AtDevice DEF DeviceSteps, SetupReverse
<1>3. Typed' /\ LateAtRisk'
  BY <1>1, <1>2, JobMoves DEF Typed, Placed, Inv, LateAtRisk
<1>4. s \notin atRisk /\ Sound(s) /\ Knows(job[c]) =>
        chosen'[s] \notin Lynx /\ (saved'[s] # Gone => saved'[s].backup = chosen'[s]) /\ Knows(j)'
  BY <1>1, <1>2 DEF Knows, Sound
<1> QED BY <1>1, <1>2, <1>3, <1>4, CallStep DEF InstallSteps

\* set_http_proxy points the device at Lynx, or back to what is to be restored.
LEMMA SetSound == ASSUME Inv, Constants, NEW c \in Sessions, SetHttpProxy(c) PROVE Inv'
<1>1. /\ job[c].at \in {"put", "restore", "clear"} /\ Typed
      /\ UNCHANGED <<reversed, saved, tools, zip, late, spent, chosen, atRisk>>
  BY DEF SetHttpProxy, Inv
<1> PICK s : s = job[c].serial
  OBVIOUS
<1> PICK value : value = IF job[c].at = "put" THEN ProxyHostPort(job[c].mode) ELSE job[c].backup
  OBVIOUS
<1>2. /\ s \in Serials /\ s # Unset /\ job[c] \in Job /\ (job[c].at # "clear" => job[c].mode \in ProxyMode)
      /\ setting' = [setting EXCEPT ![s] = value]
  BY <1>1, AtDevice DEF DeviceSteps, SetHttpProxy
<1>3. value \in Settings
  BY <1>1, <1>2 DEF Job, Settings, Lynx
<1>4. setting'[s] = value /\ \A t \in Serials \ {s} : setting'[t] = setting[t]
  BY <1>1, <1>2 DEF Typed
<1>5. setting' \in [Serials -> Settings]
  BY <1>1, <1>2, <1>3 DEF Typed
<1>6. LateAtRisk'
  BY <1>1 DEF Inv, LateAtRisk
<1>7. ASSUME NEW j \in Job, Placed(j), job' = [job EXCEPT ![c] = j] PROVE Typed'
  BY <1>1, <1>5, <1>7, JobMoves DEF Typed, Placed
<1>8. CASE job[c].at \in {"put", "restore"}
  <2> PICK next : next = IF job[c].at = "put" THEN "save"
                         ELSE IF job[c].mode = "usb_reverse" THEN "unreverse" ELSE "remove"
    OBVIOUS
  <2> PICK j : j = [job[c] EXCEPT !.at = next]
    OBVIOUS
  <2>1. /\ j \in Job /\ Placed(j) /\ j.serial = s /\ j.at = next /\ j.backup = job[c].backup
        /\ j.mode = job[c].mode /\ job' = [job EXCEPT ![c] = j] /\ next \in {"save", "unreverse", "remove"}
    <3>1. Go(c, next) /\ next \in DeviceSteps /\ next # "clear"
      BY <1>8 DEF SetHttpProxy, DeviceSteps
    <3> QED BY <1>8, <3>1, AtDevice DEF DeviceSteps
  <2>2. Knows(job[c]) => Knows(j)'
    BY <1>1, <1>2, <1>4, <1>8, <2>1 DEF Knows, Restored
  <2>3. Typed'
    BY <1>7, <2>1
  <2> QED BY <1>1, <1>2, <1>4, <1>6, <2>1, <2>2, <2>3, CallStep DEF Sound, InstallSteps
<1>9. CASE job[c].at = "clear"
  <2>1. job' = [job EXCEPT ![c] = Idle]
    BY <1>9 DEF SetHttpProxy, Answer
  <2>2. Knows(job[c]) => setting'[s] = chosen'[s]
    BY <1>1, <1>4, <1>9 DEF Knows
  <2>3. Typed'
    BY <1>7, <2>1, IdleJob
  <2> QED BY <1>1, <1>2, <1>4, <1>6, <2>1, <2>2, <2>3, IdleJob, CallStep DEF Sound, InstallSteps
<1> QED BY <1>1, <1>8, <1>9

\* fs::write of the state file: what the call holds is the setting the user made.
LEMMA SaveSound == ASSUME Inv, Constants, NEW c \in Sessions, Truncate(c) \/ SavePersisted(c) PROVE Inv'
<1>1. /\ job[c].at \in {"save", "write"} /\ Typed
      /\ UNCHANGED <<setting, reversed, tools, zip, late, spent, chosen, atRisk>>
  BY DEF Truncate, SavePersisted, Inv
<1> PICK s : s = job[c].serial
  OBVIOUS
<1>2. s \in Serials /\ s # Unset /\ job[c] \in Job /\ job[c].mode \in ProxyMode
  BY <1>1, AtDevice DEF DeviceSteps
<1>3. LateAtRisk'
  BY <1>1 DEF Inv, LateAtRisk
<1>4. CASE Truncate(c)
  <2> PICK j : j = [job[c] EXCEPT !.at = "write"]
    OBVIOUS
  <2>1. /\ j \in Job /\ Placed(j) /\ j.serial = s /\ j.at = "write" /\ j.backup = job[c].backup
        /\ job' = [job EXCEPT ![c] = j] /\ saved' = [saved EXCEPT ![s] = Gone] /\ job[c].at = "save"
    BY <1>1, <1>4, AtDevice DEF Truncate, DeviceSteps
  <2>2. Typed' /\ saved'[s] = Gone /\ \A t \in Serials \ {s} : saved'[t] = saved[t]
    BY <1>1, <1>2, <2>1, JobMoves DEF Typed, Placed
  <2>3. s \notin atRisk /\ Sound(s) /\ Knows(job[c]) => chosen'[s] \notin Lynx /\ Knows(j)'
    BY <1>1, <2>1, <2>2 DEF Knows, Sound
  <2> QED BY <1>1, <1>2, <1>3, <2>1, <2>2, <2>3, CallStep DEF InstallSteps
<1>5. CASE SavePersisted(c)
  <2> PICK file : file = [backup |-> job[c].backup, mode |-> job[c].mode]
    OBVIOUS
  <2>1. /\ job' = [job EXCEPT ![c] = Idle] /\ saved' = [saved EXCEPT ![s] = file] /\ job[c].at = "write"
        /\ file \in Saved /\ file.backup = job[c].backup
    BY <1>2, <1>5 DEF SavePersisted, Answer, Saved, Job
  <2>2. Typed' /\ saved'[s] = file /\ \A t \in Serials \ {s} : saved'[t] = saved[t]
    BY <1>1, <1>2, <2>1, IdleJob, JobMoves DEF Typed, Placed
  <2>3. saved'[s] # Gone
    BY <2>1, <2>2 DEF Constants
  <2>4. Knows(job[c]) => saved'[s].backup = chosen'[s]
    BY <1>1, <2>1, <2>2 DEF Knows
  <2> QED BY <1>1, <1>2, <1>3, <2>1, <2>2, <2>3, <2>4, IdleJob, CallStep DEF Sound, InstallSteps
<1> QED BY <1>4, <1>5

\* remove_reverse: the tunnel is removed, or the device is at risk.
LEMMA UnreverseSound == ASSUME Inv, Constants, NEW c \in Sessions, RemoveReverse(c) PROVE Inv'
<1>1. job[c].at = "unreverse" /\ UNCHANGED <<setting, saved, tools, zip, late, chosen>> /\ Typed
  BY DEF RemoveReverse, Inv
<1> PICK s : s = job[c].serial
  OBVIOUS
<1> PICK j : j = [job[c] EXCEPT !.at = "remove"]
  OBVIOUS
<1>2. /\ s \in Serials /\ s # Unset /\ j \in Job /\ Placed(j) /\ j.serial = s /\ j.at = "remove"
      /\ j.backup = job[c].backup /\ j.mode = job[c].mode /\ job' = [job EXCEPT ![c] = j]
  BY <1>1, AtDevice DEF RemoveReverse, DeviceSteps
<1>3. \/ reversed' = reversed \ {s} /\ UNCHANGED atRisk
      \/ atRisk' = atRisk \cup {s} /\ UNCHANGED reversed
  BY DEF RemoveReverse
<1>4. Typed' /\ LateAtRisk'
  BY <1>1, <1>2, <1>3, JobMoves DEF Typed, Placed, Inv, LateAtRisk
<1>5. Knows(job[c]) /\ s \notin atRisk' => Knows(j)'
  BY <1>1, <1>2, <1>3 DEF Knows, Restored
<1> QED BY <1>1, <1>2, <1>3, <1>4, <1>5, CallStep DEF Sound, InstallSteps

\* remove_persisted: the setting that is restored is the user's again.
LEMMA RemoveSound == ASSUME Inv, Constants, NEW c \in Sessions, RemovePersisted(c) PROVE Inv'
<1>1. /\ job[c].at = "remove" /\ UNCHANGED <<setting, reversed, tools, zip, late, atRisk>> /\ Typed
      /\ job' = [job EXCEPT ![c] = Idle]
  BY DEF RemovePersisted, Inv, Answer
<1> PICK s : s = job[c].serial
  OBVIOUS
<1>2. s \in Serials /\ s # Unset
  BY <1>1, AtDevice DEF DeviceSteps
<1>3. /\ saved'[s] = Gone /\ chosen'[s] = Restored(s)
      /\ \A t \in Serials \ {s} : saved'[t] = saved[t] /\ chosen'[t] = chosen[t]
      /\ saved' \in [Serials -> Saved \cup {Gone}] /\ chosen' \in [Serials -> Settings]
  BY <1>1, <1>2 DEF RemovePersisted, Restored, Typed, Settings
<1>4. Typed' /\ LateAtRisk'
  BY <1>1, <1>3, IdleJob, JobMoves DEF Typed, Placed, Inv, LateAtRisk
<1>5. Knows(job[c]) => setting'[s] = Restored(s)
  BY <1>1 DEF Knows
<1>6. s \notin atRisk /\ Sound(s) => chosen'[s] \notin Lynx
  BY <1>3 DEF Sound, Restored, NoProxy, Lynx, ProxyHostPort, ProxyMode
<1> QED BY <1>1, <1>2, <1>3, <1>4, <1>5, <1>6, IdleJob, CallStep DEF InstallSteps

\* A command that fails: before the device is touched, or with a state file, nothing is lost.
LEMMA FailSound == ASSUME Inv, Constants, NEW c \in Sessions, CommandFails(c) PROVE Inv'
<1>1. /\ job[c].at \in DeviceSteps /\ Typed /\ job' = [job EXCEPT ![c] = Idle]
      /\ UNCHANGED <<setting, reversed, saved, tools, zip, chosen>>
  BY DEF CommandFails, Inv, DeviceSteps, Answer
<1> PICK s : s = job[c].serial
  OBVIOUS
<1> PICK value : value = IF job[c].at = "put" THEN ProxyHostPort(job[c].mode) ELSE job[c].backup
  OBVIOUS
<1>2. s \in Serials /\ s # Unset /\ job[c] \in Job /\ (job[c].at = "put" => job[c].mode \in ProxyMode)
  BY <1>1, AtDevice
<1>3. value \in Settings
  BY <1>1, <1>2 DEF Job, Settings, Lynx
<1>4. /\ late' = late \/ late' = late \cup {[serial |-> s, value |-> value]}
      /\ atRisk' = IF job[c].at \in {"save", "write", "clear"} \/ late' # late THEN atRisk \cup {s} ELSE atRisk
  BY DEF CommandFails
<1>5. Typed'
  BY <1>1, <1>2, <1>3, <1>4, IdleJob, JobMoves DEF Typed, Placed
<1>6. LateAtRisk'
  BY <1>4 DEF Inv, LateAtRisk
<1>7. Knows(job[c]) /\ s \notin atRisk' /\ saved[s] = Gone => setting[s] = chosen[s]
  BY <1>1, <1>4 DEF Knows, DeviceSteps
<1> QED BY <1>1, <1>2, <1>4, <1>5, <1>6, <1>7, IdleJob, CallStep DEF Sound, InstallSteps

\* What a command given up on still does, it does to a device at risk.
LEMMA LateSound == ASSUME Inv, Constants, LateEffect PROVE Inv'
<1>1. PICK l \in late :
        /\ setting' = [setting EXCEPT ![l.serial] = l.value] /\ late' = late \ {l}
        /\ UNCHANGED <<reversed, saved, tools, zip, job, spent, chosen, atRisk>>
  BY DEF LateEffect
<1>2. l.serial \in Serials /\ l.value \in Settings /\ l.serial \in atRisk /\ Typed
  BY DEF Inv, Typed, LateAtRisk
<1>3. Typed'
  BY <1>1, <1>2 DEF Typed, Placed
<1>4. ASSUME NEW s \in Serials, s \notin atRisk PROVE Sound(s)'
  <2>1. Sound(s) /\ setting'[s] = setting[s]
    BY <1>1, <1>2, <1>4 DEF Inv, Typed
  <2>2. \A j : j.serial = s /\ Knows(j) => Knows(j)'
    BY <1>1, <2>1 DEF Knows, Restored
  <2>3. \A c \in Sessions : \A j : j = job[c] /\ j.serial = s => Knows(j)'
    BY <1>4, <2>1, <2>2 DEF Sound
  <2>4. (Unattended(s)' <=> Unattended(s)) /\ \A c \in Sessions : job'[c].serial = s => job'[c] = job[c]
    BY <1>1 DEF Unattended
  <2> QED BY <1>1, <1>4, <2>1, <2>3, <2>4 DEF Sound, Knows, Restored
<1>5. \A s \in Serials : Sound(s)'
  BY <1>1, <1>4 DEF Sound
<1>6. LateAtRisk' /\ InstallSound'
  BY <1>1 DEF Inv, LateAtRisk, InstallSound, Installing
<1> QED BY <1>3, <1>5, <1>6 DEF Inv

\* Lynx stops: the devices a call leaves between device and state file are at risk.
LEMMA CrashSound == ASSUME Inv, Constants, Crash PROVE Inv'
<1>1. /\ atRisk' = atRisk \cup {job[c].serial : c \in {d \in Sessions : Unsettled(d)}}
      /\ tools' = IF \E c \in Sessions : job[c].at = "extract" THEN "torn" ELSE tools
      /\ job' = [c \in Sessions |-> Idle]
      /\ UNCHANGED <<setting, reversed, saved, zip, late, chosen>> /\ Typed
  BY DEF Crash, Inv
<1>2. \A c \in Sessions : Unsettled(c) => job[c].serial \in Serials
  BY <1>1, JobTypes DEF Unsettled, DeviceSteps
<1>3. Typed'
  BY <1>1, <1>2, IdleJob DEF Typed, Placed
<1>4. ASSUME NEW s \in Serials, s \notin atRisk' PROVE Sound(s)'
  <2>1. Sound(s) /\ s \notin atRisk /\ s # Unset
    BY <1>1, <1>4 DEF Inv, Constants
  <2>2. saved[s] = Gone => setting[s] = chosen[s]
    <3>1. CASE Unattended(s)
      BY <2>1, <3>1 DEF Sound
    <3>2. ASSUME NEW c \in Sessions, job[c].serial = s PROVE saved[s] = Gone => setting[s] = chosen[s]
      <4>1. job[c].at \in DeviceSteps /\ ~Unsettled(c)
        BY <1>1, <1>4, <2>1, <3>2, JobTypes DEF Placed
      <4>2. Knows(job[c])
        BY <2>1, <3>2 DEF Sound
      <4> QED BY <3>2, <4>1, <4>2 DEF Knows, DeviceSteps, Unsettled
    <3> QED BY <3>1, <3>2 DEF Unattended
  <2>3. \A c \in Sessions : job'[c].serial # s
    BY <1>1, <2>1, IdleJob
  <2> QED BY <1>1, <2>1, <2>2, <2>3 DEF Sound
<1>5. \A s \in Serials : Sound(s)'
  BY <1>4 DEF Sound
<1>6. LateAtRisk' /\ InstallSound'
  BY <1>1, IdleJob DEF Inv, LateAtRisk, InstallSound, InstallSteps
<1> QED BY <1>3, <1>5, <1>6 DEF Inv

-----------------------------------------------------------------------------
(***************************************************************************)
(* Steps of an install.                                                    *)
(***************************************************************************)

\* They leave the devices and the calls there alone.
LEMMA DevicesKept ==
  ASSUME Inv, Constants, UNCHANGED deviceVars,
         \A d \in Sessions : job'[d].serial = job[d].serial /\ (job[d].serial # Unset => job'[d] = job[d])
  PROVE  (\A s \in Serials : Sound(s)') /\ LateAtRisk'
<1>1. UNCHANGED <<setting, reversed, saved, late, chosen, atRisk>>
  BY DEF deviceVars
<1>2. ASSUME NEW s \in Serials, s \notin atRisk PROVE Sound(s)'
  <2>1. Sound(s) /\ s # Unset
    BY DEF Inv, Constants
  <2>2. \A j : j.serial = s /\ Knows(j) => Knows(j)'
    BY <1>1 DEF Knows, Restored
  <2>3. \A c \in Sessions : \A j : j = job'[c] /\ j.serial = s => Knows(j)'
    BY <1>2, <2>1, <2>2 DEF Sound
  <2>4. Unattended(s)' <=> Unattended(s)
    BY DEF Unattended
  <2> QED BY <1>1, <1>2, <2>1, <2>3, <2>4 DEF Sound, Knows, Restored
<1> QED BY <1>1, <1>2 DEF Sound, LateAtRisk, Inv

\* One that installs is alone or knows that it is not.
LEMMA InstallerMoves ==
  ASSUME Inv, Constants, NEW c \in Sessions, job[c].at \in InstallSteps,
         NEW j \in Job, Placed(j), j.serial = Unset, j.at \in InstallSteps \cup {"idle"},
         job' = [job EXCEPT ![c] = j], UNCHANGED deviceVars,
         tools' \in {"none", "torn", "whole"}, zip' \in {"none", "part", "whole"},
         j.at # "idle" /\ j.alone => job[c].alone /\ (j.at = "check" => tools' = "whole")
  PROVE  Inv'
<1>1. Typed /\ job[c].serial = Unset
  BY JobTypes DEF Inv, Placed, InstallSteps, DeviceSteps
<1>2. \A d \in Sessions : job'[d] = IF d = c THEN j ELSE job[d]
  BY <1>1 DEF Typed
<1>3. Typed'
  BY <1>1, JobMoves DEF Typed, Placed, deviceVars
<1>4. (\A s \in Serials : Sound(s)') /\ LateAtRisk'
  BY <1>1, <1>2, DevicesKept
<1>5. ASSUME NEW d \in Sessions, job'[d].at \in InstallSteps, job'[d].alone
      PROVE  Installing(d)' = {} /\ (job'[d].at = "check" => tools' = "whole")
  <2>1. d = c
    <3> SUFFICES ASSUME d # c PROVE FALSE
      OBVIOUS
    <3>1. job[d].at \in InstallSteps /\ job[d].alone /\ c \in Installing(d)
      BY <1>2, <1>5 DEF Installing
    <3> QED BY <3>1 DEF Inv, InstallSound
  <2>2. Installing(c) = {}
    BY <1>2, <1>5, <2>1 DEF Inv, InstallSound, InstallSteps
  <2>3. Installing(c)' = {}
    BY <1>2, <2>2 DEF Installing
  <2> QED BY <1>2, <1>5, <2>1, <2>3 DEF InstallSteps
<1>6. InstallSound'
  BY <1>5 DEF InstallSound
<1> QED BY <1>3, <1>4, <1>6 DEF Inv

\* DEVICE_ADB_INSTALL: the installs under way learn that they are not alone.
LEMMA InstallBegins == ASSUME Inv, Constants, NEW c \in Sessions, InstallPlatformTools(c) PROVE Inv'
<1>1. Typed /\ job[c].at = "idle" /\ tools' = "none" /\ UNCHANGED <<zip, deviceVars>>
  BY DEF InstallPlatformTools, Inv
<1> PICK j : j = [Idle EXCEPT !.at = "download", !.alone = Installing(c) = {}]
  OBVIOUS
<1>2. j \in Job /\ Placed(j) /\ j.serial = Unset /\ j.at = "download" /\ (j.alone <=> Installing(c) = {})
  BY DEF Idle, Job, Placed, Settings, DeviceSteps, InstallSteps
<1>3. job' = [Apart(c) EXCEPT ![c] = j]
  BY DEF InstallPlatformTools
<1>4. \A d \in Sessions : job'[d] = IF d = c THEN j
                                    ELSE IF d \in Installing(c) THEN [job[d] EXCEPT !.alone = FALSE] ELSE job[d]
  BY <1>3 DEF Apart
<1>5. \A d \in Sessions : d \in Installing(c) <=> d # c /\ job[d].at \in InstallSteps
  BY DEF Installing
<1>6. \A d \in Sessions : job[d] \in Job /\ Placed(job[d])
  BY <1>1 DEF Typed
<1>7. ASSUME NEW d \in Sessions
      PROVE  /\ [job[d] EXCEPT !.alone = FALSE] \in Job /\ Placed([job[d] EXCEPT !.alone = FALSE])
             /\ [job[d] EXCEPT !.alone = FALSE].serial = job[d].serial
             /\ [job[d] EXCEPT !.alone = FALSE].at = job[d].at
             /\ ~[job[d] EXCEPT !.alone = FALSE].alone
  BY <1>6 DEF Job, Placed
<1>8. \A d \in Sessions : job'[d] \in Job /\ Placed(job'[d])
  BY <1>2, <1>4, <1>6, <1>7
<1>9. DOMAIN job' = Sessions /\ job' = [d \in Sessions |-> job'[d]]
  BY <1>3 DEF Apart
<1>10. Typed'
  <2>1. job' \in [Sessions -> Job]
    BY <1>8, <1>9
  <2> QED BY <1>1, <1>8, <2>1 DEF Typed, Placed, deviceVars
<1>11. \A d \in Sessions : job'[d].serial = job[d].serial /\ (job[d].serial # Unset => job'[d] = job[d])
  BY <1>1, <1>2, <1>4, <1>5, <1>6, <1>7 DEF Placed, DeviceSteps, InstallSteps
<1>12. (\A s \in Serials : Sound(s)') /\ LateAtRisk'
  BY <1>1, <1>11, DevicesKept
<1>13. ASSUME NEW d \in Sessions, job'[d].at \in InstallSteps, job'[d].alone
       PROVE  Installing(d)' = {} /\ (job'[d].at = "check" => tools' = "whole")
  <2>1. d = c
    BY <1>4, <1>5, <1>7, <1>13
  <2>2. Installing(c) = {}
    BY <1>2, <1>4, <1>13, <2>1
  <2>3. Installing(c)' = {}
    BY <1>4, <2>2 DEF Installing
  <2> QED BY <1>2, <1>4, <2>1, <2>3
<1>14. InstallSound'
  BY <1>13 DEF InstallSound
<1> QED BY <1>10, <1>12, <1>14 DEF Inv

\* download_and_extract, step by step.
LEMMA InstallerSound ==
  ASSUME Inv, Constants, NEW c \in Sessions,
         CreateZip(c) \/ ReceiveZip(c) \/ ExtractZip(c) \/ CheckInstalled(c) \/ InstallFails(c)
  PROVE  Inv'
<1>1. Typed /\ job[c].at \in InstallSteps /\ job[c] \in Job /\ job[c].serial = Unset
  BY JobTypes DEF Inv, CreateZip, ReceiveZip, ExtractZip, CheckInstalled, InstallFails, InstallSteps, Placed, DeviceSteps
<1>2. UNCHANGED deviceVars
  BY DEF CreateZip, ReceiveZip, ExtractZip, CheckInstalled, InstallFails
<1>3. tools' \in {"none", "torn", "whole"} /\ zip' \in {"none", "part", "whole"}
  BY <1>1 DEF Typed, CreateZip, ReceiveZip, ExtractZip, CheckInstalled, InstallFails
<1>4. CASE CheckInstalled(c) \/ InstallFails(c)
  <2>1. job' = [job EXCEPT ![c] = Idle]
    BY <1>4 DEF CheckInstalled, InstallFails, Answer
  <2> QED BY <1>1, <1>2, <1>3, <2>1, IdleJob, InstallerMoves
<1>5. CASE CreateZip(c) \/ ReceiveZip(c) \/ ExtractZip(c)
  <2> PICK next : next = IF CreateZip(c) THEN "receive" ELSE IF ReceiveZip(c) THEN "extract" ELSE "check"
    OBVIOUS
  <2> PICK j : j = [job[c] EXCEPT !.at = next]
    OBVIOUS
  <2>1. Go(c, next) /\ next \in InstallSteps
    BY <1>5 DEF CreateZip, ReceiveZip, ExtractZip, InstallSteps
  <2>2. /\ j \in Job /\ Placed(j) /\ j.serial = Unset /\ j.at = next /\ j.alone = job[c].alone
        /\ job' = [job EXCEPT ![c] = j]
    BY <1>1, <2>1 DEF Go, Job, Placed, DeviceSteps, InstallSteps, Typed
  <2>3. next = "check" /\ job[c].alone => tools' = "whole"
    BY <1>5 DEF ExtractZip
  <2> QED BY <1>1, <1>2, <1>3, <2>1, <2>2, <2>3, InstallerMoves
<1> QED BY <1>4, <1>5

-----------------------------------------------------------------------------
(***************************************************************************)
(* The results.                                                            *)
(***************************************************************************)
LEMMA InvHolds == ASSUME Constants PROVE Spec => []Inv
<1>1. Init => Inv
  <2> SUFFICES ASSUME Init PROVE Inv
    OBVIOUS
  <2>1. Typed
    BY IdleJob DEF Init, Typed, Settings
  <2>2. ASSUME NEW s \in Serials PROVE Sound(s)
    BY IdleJob DEF Init, Sound, Constants
  <2>3. LateAtRisk /\ InstallSound
    BY IdleJob DEF Init, LateAtRisk, InstallSound, InstallSteps
  <2> QED BY <2>1, <2>2, <2>3 DEF Inv
<1>2. Inv /\ [Next]_vars => Inv'
  <2> SUFFICES ASSUME Inv, [Next]_vars PROVE Inv'
    OBVIOUS
  <2>1. CASE UNCHANGED vars
    <3>1. UNCHANGED <<deviceVars, job, tools, zip>>
      BY <2>1 DEF vars, deviceVars
    <3>2. (\A s \in Serials : Sound(s)') /\ LateAtRisk'
      BY <3>1, DevicesKept
    <3>3. Typed' /\ InstallSound'
      BY <3>1 DEF Inv, Typed, Placed, deviceVars, InstallSound, Installing
    <3> QED BY <3>2, <3>3 DEF Inv
  <2> QED BY <2>1, EnableSound, DisableSound, GetSound, ReverseSound, SetSound, SaveSound, UnreverseSound,
             RemoveSound, FailSound, LateSound, CrashSound, InstallBegins, InstallerSound DEF Next
<1> QED BY <1>1, <1>2, PTL DEF Spec

\* Devices, state files and calls are well formed, for any devices and sessions.
THEOREM TypeCorrect == ASSUME Constants PROVE Spec => []TypeOK
<1>1. Inv => TypeOK
  BY DEF Inv, Typed, TypeOK, Settings, Saved
<1> QED BY <1>1, InvHolds, PTL

\* Devices are left as they were found (core/adb/proxy.rs): unless two calls met at a device
\* or one was left between the device and its file, a state file has what the user chose, a
\* device that points at Lynx has a state file, one without is set as the user chose, and what
\* is restored loses its tunnel; and an install no other overlaps leaves an adb that runs.
THEOREM DevicesAreRestored == ASSUME Constants PROVE Spec => DevicesRestored
<1>1. Inv => SettingKept
  <2> SUFFICES ASSUME Inv, NEW s \in Serials, s \notin atRisk
               PROVE  /\ saved[s] # Gone => saved[s].backup = chosen[s]
                      /\ setting[s] \in Lynx /\ Unattended(s) => saved[s] # Gone
                      /\ saved[s] = Gone /\ Unattended(s) => setting[s] = chosen[s]
    BY DEF SettingKept, Unattended
  <2>1. Sound(s)
    BY DEF Inv
  <2> QED BY <2>1 DEF Sound
<1>2. Inv /\ [Next]_vars => TunnelWithSetting
  <2> SUFFICES ASSUME Inv, [Next]_vars, NEW s \in Serials, s \notin atRisk', saved[s] # Gone, saved'[s] = Gone
               PROVE  s \notin reversed' \/ saved[s].mode = "lan"
    BY DEF TunnelWithSetting
  <2>1. PICK c \in Sessions : Truncate(c) \/ SavePersisted(c) \/ RemovePersisted(c)
    BY DEF Next, vars, EnableProxy, DisableProxy, Arrive, GetHttpProxy, SetupReverse, SetHttpProxy, RemoveReverse,
           CommandFails, LateEffect, Crash, InstallPlatformTools, CreateZip, ReceiveZip, ExtractZip, CheckInstalled,
           InstallFails, deviceVars
  <2>2. job[c].serial = s /\ s \notin atRisk /\ saved \in [Serials -> Saved \cup {Gone}]
    BY <2>1 DEF Truncate, SavePersisted, RemovePersisted, Inv, Typed
  <2>3. Knows(job[c]) /\ saved[s] \in Saved
    BY <2>2 DEF Inv, Sound
  <2>4. RemovePersisted(c)
    BY <2>1, <2>2, <2>3 DEF Knows, Truncate, SavePersisted
  <2> QED BY <2>2, <2>3, <2>4 DEF Knows, RemovePersisted, Saved, ProxyMode
<1>3. Inv => InstalledRuns
  BY DEF Inv, InstallSound, InstalledRuns, InstallSteps
<1>4. Inv' => SettingKept'
  <2>1. Inv' => \A s \in Serials : Sound(s)'
    BY DEF Inv
  <2> QED BY <2>1 DEF SettingKept, Sound, Unattended
<1> QED BY <1>2, <1>3, <1>4, InvHolds, PTL DEF Spec, DevicesRestored

-----------------------------------------------------------------------------
(***************************************************************************)
(* Project configuration. The rules of a project are sorted by their ids:  *)
(* a finite set of numbers has an order, with each of them once.           *)
(***************************************************************************)
RuleStores == [RuleIds -> Config!RequestRule \cup {Nothing}]
Configs == [project : Projects, rules : Seq(Config!ConfigRule)]

ConfigConstants ==
  /\ RuleIds \subseteq Int /\ IsFiniteSet(RuleIds)
  /\ Stores \subseteq RuleStores /\ Edited \subseteq Configs
  /\ Nothing \notin Config!RequestRule \cup Configs \cup RuleStores \cup SUBSET RuleIds

\* Of the numbers of a finite set one is the least.
LEMMA LeastOfSome ==
  ASSUME NEW S \in SUBSET Int, IsFiniteSet(S), S # {}
  PROVE  \E m \in S : \A x \in S : m <= x
<1> DEFINE below(x) == {y \in S : y < x}
           sizes == {Cardinality(below(x)) : x \in S}
<1>1. \A x \in S : IsFiniteSet(below(x)) /\ Cardinality(below(x)) \in Nat
  BY FS_Subset, FS_CardinalityType
<1>2. sizes \subseteq Nat /\ sizes # {}
  BY <1>1
<1>3. PICK least \in sizes : \A n \in sizes : <<n, least>> \notin OpToRel(<, Nat)
  <2> HIDE DEF sizes
  <2> QED BY <1>2, WFMin, NatLessThanWellFounded
<1>4. \A n \in sizes : ~(n < least)
  BY <1>2, <1>3 DEF OpToRel
<1>5. PICK m \in S : Cardinality(below(m)) = least
  BY <1>3
<1>6. ASSUME NEW x \in S, x < m PROVE FALSE
  <2>0. x \in Int /\ m \in Int /\ \A y \in S : y \in Int
    OBVIOUS
  <2>1. below(x) \in SUBSET below(m) /\ x \in below(m) /\ x \notin below(x)
    <3>1. \A y \in S : y < x => y < m
      BY <1>6, <2>0
    <3>2. below(x) \subseteq below(m)
      BY <3>1
    <3>3. x \in below(m) /\ x \notin below(x)
      BY <1>6, <2>0
    <3> QED BY <3>2, <3>3
  <2>2. /\ Cardinality(below(x)) <= Cardinality(below(m))
        /\ Cardinality(below(x)) # Cardinality(below(m))
    <3> HIDE DEF below
    <3> QED BY <1>1, <2>1, FS_Subset
  <2>3. PICK few \in Nat, more \in Nat : few = Cardinality(below(x)) /\ more = Cardinality(below(m))
    BY <1>1
  <2>4. few < more
    BY <2>2, <2>3
  <2>5. few \in sizes /\ more = least
    BY <1>5, <2>3
  <2> HIDE DEF sizes, below
  <2> QED BY <1>4, <2>4, <2>5
<1>7. \A x \in S : x \in Int
  OBVIOUS
<1> QED BY <1>6, <1>7

\* A finite set of numbers can be listed in order.
LEMMA OrderIsThere ==
  ASSUME NEW S \in SUBSET Int, IsFiniteSet(S)
  PROVE  \E order \in [1 .. Cardinality(S) -> S] :
           \A i, j \in 1 .. Cardinality(S) : i < j => order[i] < order[j]
<1> DEFINE Ordered(T, order) == \A i, j \in 1 .. Cardinality(T) : i < j => order[i] < order[j]
           Bad(T) == /\ T \in SUBSET Int /\ IsFiniteSet(T)
                     /\ ~\E order \in [1 .. Cardinality(T) -> T] : Ordered(T, order)
           sizes == {n \in Nat : \E T \in SUBSET Int : Bad(T) /\ Cardinality(T) = n}
<1> SUFFICES ASSUME Bad(S) PROVE FALSE
  OBVIOUS
<1>1. sizes \subseteq Nat /\ sizes # {}
  BY FS_CardinalityType
<1>2. PICK least \in sizes : \A n \in sizes : <<n, least>> \notin OpToRel(<, Nat)
  <2> HIDE DEF sizes
  <2> QED BY <1>1, WFMin, NatLessThanWellFounded
<1>3. \A n \in sizes : ~(n < least)
  BY <1>1, <1>2 DEF OpToRel
<1>4. PICK T \in SUBSET Int : Bad(T) /\ Cardinality(T) = least
  BY <1>2
<1>5. least \in Nat /\ IsFiniteSet(T)
  BY <1>4, <1>2
<1>6. T # {}
  <2> SUFFICES ASSUME T = {} PROVE FALSE
    OBVIOUS
  <2>1. Cardinality(T) = 0
    BY FS_EmptySet
  <2>2. << >> \in [1 .. Cardinality(T) -> T] /\ Ordered(T, << >>)
    BY <2>1
  <2> QED BY <1>4, <2>2
<1>7. PICK m \in T : \A x \in T : m <= x
  BY <1>4, <1>5, <1>6, LeastOfSome
<1>8. IsFiniteSet(T \ {m}) /\ Cardinality(T \ {m}) = least - 1 /\ least - 1 \in Nat
  <2>1. IsFiniteSet(T \ {m}) /\ Cardinality(T \ {m}) = least - 1
    BY <1>4, <1>5, FS_RemoveElement
  <2> QED BY <2>1, FS_CardinalityType
<1>9. PICK order \in [1 .. Cardinality(T \ {m}) -> T \ {m}] : Ordered(T \ {m}, order)
  <2>1. least - 1 \notin sizes
    BY <1>3, <1>5
  <2> QED BY <1>4, <1>8, <2>1
<1> DEFINE longer == [i \in 1 .. least |-> IF i = 1 THEN m ELSE order[i - 1]]
<1>o. /\ order \in [1 .. least - 1 -> T \ {m}]
      /\ \A i, j \in 1 .. least - 1 : i < j => order[i] < order[j]
  BY <1>8, <1>9
<1>10. \A i \in 1 .. least : i # 1 => i - 1 \in 1 .. least - 1 /\ order[i - 1] \in T \ {m}
  <2> SUFFICES ASSUME NEW i \in 1 .. least, i # 1
               PROVE  i - 1 \in 1 .. least - 1 /\ order[i - 1] \in T \ {m}
    OBVIOUS
  <2>1. i - 1 \in 1 .. least - 1
    BY <1>5
  <2> QED BY <1>o, <2>1
<1>t. \A x \in T : x \in Int
  OBVIOUS
<1>11. longer \in [1 .. Cardinality(T) -> T]
  BY <1>4, <1>10
<1>12. ASSUME NEW i \in 1 .. least, NEW j \in 1 .. least, i < j PROVE longer[i] < longer[j]
  <2>1. j # 1 /\ longer[j] = order[j - 1] /\ order[j - 1] \in T \ {m} /\ j - 1 \in 1 .. least - 1
    BY <1>5, <1>10, <1>12
  <2>2. CASE i = 1
    <3>1. PICK x \in T : x = order[j - 1] /\ x # m
      BY <2>1
    <3>2. longer[i] = m /\ m < x
      BY <1>7, <1>t, <2>2, <3>1
    <3> QED BY <2>1, <3>1, <3>2
  <2>3. CASE i # 1
    <3>1. longer[i] = order[i - 1] /\ i - 1 \in 1 .. least - 1 /\ i - 1 < j - 1
      BY <1>5, <1>10, <1>12, <2>3
    <3> QED BY <1>o, <2>1, <3>1
  <2> QED BY <2>2, <2>3
<1>13. Ordered(T, longer)
  BY <1>4, <1>12
<1> QED BY <1>4, <1>11, <1>13

LEMMA SizesAgree == \A S : Config!Cardinality(S) = Cardinality(S)
BY DEF Config!Cardinality, Cardinality

\* The order has each element once.
LEMMA OrderIsWhole ==
  ASSUME NEW S \in SUBSET Int, IsFiniteSet(S)
  PROVE  /\ Config!InOrder(S) \in Seq(S) /\ Len(Config!InOrder(S)) = Cardinality(S)
         /\ Cardinality(S) \in Nat
         /\ \A i, j \in 1 .. Cardinality(S) : i # j => Config!InOrder(S)[i] # Config!InOrder(S)[j]
         /\ \A x \in S : \E i \in 1 .. Cardinality(S) : Config!InOrder(S)[i] = x
<1> DEFINE n == Cardinality(S)
           order == Config!InOrder(S)
<1>1. order \in [1 .. n -> S] /\ \A i, j \in 1 .. n : i < j => order[i] < order[j]
  BY OrderIsThere, SizesAgree DEF Config!InOrder
<1>2. n \in Nat
  BY FS_CardinalityType
<1> HIDE DEF n, order
<1>3. \A i, j \in 1 .. n : i # j => order[i] # order[j]
  <2> SUFFICES ASSUME NEW i \in 1 .. n, NEW j \in 1 .. n, i # j PROVE order[i] # order[j]
    OBVIOUS
  <2>1. order[i] \in Int /\ order[j] \in Int
    BY <1>1
  <2> QED BY <1>1, <1>2, <2>1
<1>4. order \in Injection(1 .. n, S)
  BY <1>1, <1>3 DEF Injection, IsInjective
<1>5. order \in Seq(S) /\ Len(order) = n
  BY <1>1, <1>2
<1>6. \A x \in S : \E i \in 1 .. n : order[i] = x
  <2>1. IsFiniteSet(1 .. n) /\ Cardinality(1 .. n) = n
    BY <1>2, FS_Interval
  <2>2. order \in Surjection(1 .. n, S)
    BY <1>4, <2>1, FS_Injection DEF n
  <2> QED BY <2>2 DEF Surjection
<1> QED BY <1>2, <1>3, <1>5, <1>6 DEF n, order

\* Of the rules with an id in a config, it is the last that counts.
LEMMA LastCounts ==
  ASSUME NEW c \in Configs, NEW id \in Config!IdsIn(c)
  PROVE  /\ Config!InConfig(c, id) \in Config!ConfigRule /\ Config!InConfig(c, id).id = id
         /\ \E i \in DOMAIN c.rules :
              /\ Config!InConfig(c, id) = c.rules[i] /\ c.rules[i].id = id
              /\ \A j \in DOMAIN c.rules : c.rules[j].id = id => j <= i
         /\ \A i \in DOMAIN c.rules :
              c.rules[i].id = id /\ (\A j \in DOMAIN c.rules : c.rules[j].id = id => j <= i)
              => Config!InConfig(c, id) = c.rules[i]
<1> DEFINE n == Len(c.rules)
           Last(i) == c.rules[i].id = id /\ \A j \in DOMAIN c.rules : c.rules[j].id = id => j <= i
           fromEnd == {n - i : i \in {j \in DOMAIN c.rules : c.rules[j].id = id}}
<1>1. c.rules \in Seq(Config!ConfigRule) /\ n \in Nat /\ DOMAIN c.rules = 1 .. n
  BY DEF Configs
<1>2. fromEnd \subseteq Nat /\ fromEnd # {}
  <2>1. \A i \in 1 .. n : n - i \in Nat
    BY <1>1
  <2>2. \E i \in DOMAIN c.rules : c.rules[i].id = id
    BY DEF Config!IdsIn
  <2> QED BY <1>1, <2>1, <2>2
<1>3. PICK least \in fromEnd : \A m \in fromEnd : <<m, least>> \notin OpToRel(<, Nat)
  <2> HIDE DEF fromEnd
  <2> QED BY <1>2, WFMin, NatLessThanWellFounded
<1>4. \A m \in fromEnd : ~(m < least)
  BY <1>2, <1>3 DEF OpToRel
<1>5. PICK i \in DOMAIN c.rules : c.rules[i].id = id /\ least = n - i
  BY <1>3
<1>6. ASSUME NEW j \in DOMAIN c.rules, c.rules[j].id = id PROVE j <= i
  <2>1. n - j \in fromEnd
    BY <1>6
  <2>2. ~(n - j < n - i)
    BY <1>4, <1>5, <2>1
  <2> QED BY <1>1, <2>2
<1>7. Last(i)
  BY <1>5, <1>6
<1>8. \A j \in DOMAIN c.rules : Last(j) => j = i
  BY <1>1, <1>5, <1>7
<1>9. Config!InConfig(c, id) = c.rules[i]
  BY <1>7, <1>8 DEF Config!InConfig
<1>10. c.rules[i] \in Config!ConfigRule
  BY <1>1
<1> QED BY <1>7, <1>8, <1>9, <1>10

\* What is stored for a project is a rule of it.
LEMMA StoredRules ==
  ASSUME ConfigConstants, NEW rs \in RuleStores, NEW p
  PROVE  /\ Config!OfProject(rs, p) \in SUBSET RuleIds
         /\ \A id \in Config!OfProject(rs, p) : rs[id] \in Config!RequestRule /\ rs[id].project = p
BY DEF ConfigConstants, Config!OfProject, Config!Stored, RuleStores

\* A push keeps the ids of the file and takes the rules of the project as they are.
LEMMA MergedHasAll ==
  ASSUME ConfigConstants, NEW c \in Configs, NEW rs \in RuleStores, NEW p \in Projects
  PROVE  /\ Config!Merged(c, rs, p) \in Configs /\ Config!Merged(c, rs, p).project = p
         /\ Config!IdsIn(c) \subseteq Config!IdsIn(Config!Merged(c, rs, p))
         /\ \A id \in Config!OfProject(rs, p) :
              Config!ToRequestRule(Config!InConfig(Config!Merged(c, rs, p), id), p) = rs[id]
<1> DEFINE ids == Config!IdsIn(c) \cup Config!OfProject(rs, p)
           Entry(id) == IF id \in Config!OfProject(rs, p) THEN Config!FromRequestRule(id, rs[id])
                        ELSE Config!InConfig(c, id)
           order == Config!InOrder(ids)
           n == Cardinality(ids)
           rules == [i \in 1 .. n |-> Entry(order[i])]
           m == Config!Merged(c, rs, p)
<1>1. m = [project |-> p, rules |-> rules]
  BY SizesAgree DEF Config!Merged
<1>2. ids \in SUBSET RuleIds
  <2>1. c.rules \in Seq(Config!ConfigRule)
    BY DEF Configs
  <2>2. Config!IdsIn(c) \subseteq RuleIds
    <3>1. \A i \in DOMAIN c.rules : c.rules[i] \in Config!ConfigRule
      BY <2>1
    <3>2. \A i \in DOMAIN c.rules : c.rules[i].id \in RuleIds
      BY <3>1 DEF Config!ConfigRule
    <3> QED BY <3>2 DEF Config!IdsIn
  <2> QED BY <2>2, StoredRules
<1>3. ids \in SUBSET Int /\ IsFiniteSet(ids)
  BY <1>2, FS_Subset DEF ConfigConstants
<1>4. \A id \in ids : Entry(id) \in Config!ConfigRule /\ Entry(id).id = id
  <2> SUFFICES ASSUME NEW id \in ids PROVE Entry(id) \in Config!ConfigRule /\ Entry(id).id = id
    OBVIOUS
  <2>1. CASE id \in Config!OfProject(rs, p)
    <3>1. rs[id] \in Config!RequestRule /\ id \in RuleIds
      BY <2>1, StoredRules
    <3> QED BY <2>1, <3>1 DEF Config!FromRequestRule, Config!ConfigRule, Config!RequestRule
  <2>2. CASE id \notin Config!OfProject(rs, p)
    <3>1. id \in Config!IdsIn(c) /\ Entry(id) = Config!InConfig(c, id)
      BY <2>2
    <3> QED BY <3>1, LastCounts
  <2> QED BY <2>1, <2>2
<1>i. Config!IdsIn(c) \subseteq ids /\ Config!OfProject(rs, p) \subseteq ids
  OBVIOUS
<1>e. \A id \in Config!OfProject(rs, p) : Entry(id) = Config!FromRequestRule(id, rs[id])
  OBVIOUS
<1> HIDE DEF ids, Entry
<1>5. /\ order \in Seq(ids) /\ Len(order) = n /\ n \in Nat
      /\ \A i, j \in 1 .. n : i # j => order[i] # order[j]
      /\ \A x \in ids : \E i \in 1 .. n : order[i] = x
  BY <1>3, OrderIsWhole
<1> HIDE DEF order, n
<1>6. \A i \in 1 .. n : order[i] \in ids
  BY <1>5
<1>7. /\ rules \in Seq(Config!ConfigRule) /\ DOMAIN rules = 1 .. n
      /\ \A i \in 1 .. n : rules[i] = Entry(order[i]) /\ rules[i].id = order[i]
  <2>1. \A i \in 1 .. n : Entry(order[i]) \in Config!ConfigRule
    BY <1>4, <1>6
  <2>2. rules \in [1 .. n -> Config!ConfigRule]
    BY <2>1
  <2>3. rules \in Seq(Config!ConfigRule)
    BY <1>5, <2>2
  <2> QED BY <1>4, <1>6, <2>3
<1> HIDE DEF rules
<1>8. m \in Configs /\ m.project = p /\ m.rules = rules
  BY <1>1, <1>7 DEF Configs
<1> HIDE DEF m
<1>9. \A id \in ids : id \in Config!IdsIn(m)
  BY <1>5, <1>7, <1>8 DEF Config!IdsIn
<1>10. ASSUME NEW id \in Config!OfProject(rs, p)
       PROVE  Config!ToRequestRule(Config!InConfig(m, id), p) = rs[id]
  <2>1. PICK i \in 1 .. n : order[i] = id
    BY <1>5, <1>i, <1>10
  <2>2. \A j \in 1 .. n : rules[j].id = id => j = i
    BY <1>5, <1>7, <2>1
  <2>3. Config!InConfig(m, id) = rules[i]
    <3>1. id \in Config!IdsIn(m)
      BY <1>9, <1>i, <1>10
    <3>2. i \in DOMAIN m.rules /\ m.rules[i].id = id
      BY <1>7, <1>8, <2>1
    <3>3. \A j \in DOMAIN m.rules : m.rules[j].id = id => j <= i
      BY <1>5, <1>7, <1>8, <2>2
    <3> QED BY <1>8, <3>1, <3>2, <3>3, LastCounts
  <2>4. rules[i] = Config!FromRequestRule(id, rs[id])
    BY <1>7, <1>e, <2>1
  <2>5. rs[id] \in Config!RequestRule /\ rs[id].project = p
    BY <1>10, StoredRules
  <2> QED BY <2>3, <2>4, <2>5 DEF Config!FromRequestRule, Config!ToRequestRule, Config!RequestRule
<1> QED BY <1>8, <1>9, <1>10, <1>i DEF m

ConfigOps == {"none", "push", "pushed", "pull", "pulling", "pulled", "apply", "applied"}
CommandType ==
  [op : ConfigOps, project : Projects \cup {Nothing}, config : Configs \cup {Nothing},
   listed : RuleStores \cup (SUBSET RuleIds) \cup {Nothing},
   todo : Seq(Config!ConfigRule) \cup Seq(RuleIds),
   intact : BOOLEAN, foreign : SUBSET RuleIds]

\* What a push has listed is what is stored, and what it has written is that.
Pushing(k, rs, c) ==
  /\ k.op = "push" =>
       k.listed = Nothing \/ (k.listed \in RuleStores /\ (k.intact => rs = k.listed))
  /\ k.op = "pushed" =>
       /\ k.listed \in RuleStores
       /\ k.intact => rs = k.listed /\ c = Config!Merged(k.config, k.listed, k.project)

\* How far a pull has come, and what it has left where: the rules it has written are stored,
\* the last one of each id, and all others are as in its backup, but for foreign ones.
Done(k) == IF k.listed = Nothing THEN 0 ELSE Len(k.config.rules) - Len(k.todo)
LastOf(rules, n, i) == \A j \in 1 .. n : rules[j].id = rules[i].id => j <= i
Replaced(k, b, rs, id) ==
  /\ \A i \in 1 .. Done(k) :
       k.config.rules[i].id = id /\ LastOf(k.config.rules, Done(k), i) =>
         rs[id] = Config!ToRequestRule(k.config.rules[i], k.project)
  /\ (\A i \in 1 .. Done(k) : k.config.rules[i].id # id) => rs[id] = b[id]
Pulling(k, b, rs) ==
  /\ k.op = "pull" => k.listed = Nothing /\ k.todo = << >>
  /\ k.op \in {"pulling", "pulled"} =>
     /\ b \in RuleStores /\ \A i \in DOMAIN k.config.rules : k.config.rules[i].text \in Texts
     /\ k.intact => k.foreign = {}
     /\ k.listed = Nothing => k.op = "pulling" /\ k.todo = << >>
     /\ k.op = "pulled" => k.todo = << >>
     /\ k.todo \in Seq(Config!ConfigRule) /\ Len(k.todo) <= Len(k.config.rules)
     /\ \A i \in 1 .. Len(k.todo) : k.todo[i] = k.config.rules[Done(k) + i]
     /\ \A id \in RuleIds \ k.foreign : Replaced(k, b, rs, id)

\* An apply has switched the rules that are not left to do.
Distinct(todo) == \A i, j \in DOMAIN todo : i # j => todo[i] # todo[j]
Left(todo) == {todo[i] : i \in DOMAIN todo}
Applying(k, rs) ==
  k.op \in {"apply", "applied"} =>
    /\ k.listed = Nothing => k.op = "apply" /\ k.todo = << >>
    /\ k.op = "applied" => k.todo = << >>
    /\ k.todo \in Seq(RuleIds) /\ Distinct(k.todo)
    /\ k.listed # Nothing =>
         /\ k.listed \in RuleStores /\ Left(k.todo) \subseteq Config!ToSwitch(k.config, k.listed)
         /\ k.intact => \A id \in RuleIds :
              rs[id] = IF id \in Config!ToSwitch(k.config, k.listed) \ Left(k.todo)
                       THEN Config!Switched(k.config, id, k.listed[id]) ELSE k.listed[id]

CommandSound(k, b, rs, c) ==
  /\ k.op # "none" =>
       k.project \in Projects /\ k.config \in Configs /\ k.config.project = k.project
  /\ Pushing(k, rs, c) /\ Pulling(k, b, rs) /\ Applying(k, rs)

ConfigTyped ==
  /\ store \in RuleStores /\ config \in Configs \cup {Nothing}
  /\ backups \in [Shells -> RuleStores \cup {Nothing}] /\ lynx \in [Shells -> CommandType]
ConfigInv == ConfigTyped /\ \A s \in Shells : CommandSound(lynx[s], backups[s], store, config)

\* Two states of one command, but for what it knows of the others.
SameCommand(n, k) ==
  /\ n.op = k.op /\ n.project = k.project /\ n.config = k.config
  /\ n.listed = k.listed /\ n.todo = k.todo

\* A command that is told of others' changes stays sound.
LEMMA NoticedIsSound ==
  ASSUME NEW k \in CommandType, NEW b, NEW rs \in RuleStores, NEW c, CommandSound(k, b, rs, c),
         NEW ids \in SUBSET RuleIds, NEW to \in RuleStores,
         \A id \in RuleIds \ ids : to[id] = rs[id],
         NEW now, NEW n, SameCommand(n, k), n.intact = FALSE, n.foreign = k.foreign \cup ids
  PROVE  CommandSound(n, b, to, now)
<1>1. /\ n.op = k.op /\ n.project = k.project /\ n.config = k.config /\ n.listed = k.listed
      /\ n.todo = k.todo /\ n.intact = FALSE /\ n.foreign = k.foreign \cup ids
  BY DEF SameCommand
<1>3. Pushing(n, to, now)
  BY <1>1 DEF CommandSound, Pushing
<1>4. Pulling(n, b, to)
  <2>1. Done(n) = Done(k)
    BY <1>1 DEF Done
  <2>2. \A id \in RuleIds \ n.foreign : id \in RuleIds \ k.foreign /\ to[id] = rs[id]
    BY <1>1
  <2>3. \A id \in RuleIds \ n.foreign : Replaced(k, b, rs, id) => Replaced(n, b, to, id)
    BY <1>1, <2>1, <2>2 DEF Replaced
  <2> QED BY <1>1, <2>1, <2>2, <2>3 DEF CommandSound, Pulling
<1>5. Applying(n, to)
  BY <1>1 DEF CommandSound, Applying
<1> QED BY <1>1, <1>3, <1>4, <1>5 DEF CommandSound

\* A step of a command, of which the others are told.
LEMMA CommandMoves ==
  ASSUME ConfigInv, NEW s \in Shells, NEW next \in CommandType, NEW ids \in SUBSET RuleIds,
         Config!Goes(s, next, ids), store' \in RuleStores,
         \A id \in RuleIds \ ids : store'[id] = store[id],
         config' \in Configs \cup {Nothing}, backups' \in [Shells -> RuleStores \cup {Nothing}],
         \A t \in Shells \ {s} : backups'[t] = backups[t],
         CommandSound(next, backups'[s], store', config')
  PROVE  ConfigInv'
<1>1. \A t \in Shells \ {s} : lynx'[t] = [lynx[t] EXCEPT !.intact = FALSE, !.foreign = @ \cup ids]
  BY DEF Config!Goes, Config!Noticed
<1>2. lynx'[s] = next /\ DOMAIN lynx' = Shells /\ lynx' = [t \in Shells |-> lynx'[t]]
  BY DEF Config!Goes, Config!Noticed
<1>3. ASSUME NEW t \in Shells \ {s}
      PROVE  lynx'[t] \in CommandType /\ CommandSound(lynx'[t], backups'[t], store', config')
  <2>1. PICK n, k : n = lynx'[t] /\ k = lynx[t]
    OBVIOUS
  <2>2. /\ k \in CommandType /\ CommandSound(k, backups[t], store, config)
        /\ store \in RuleStores
    BY <2>1 DEF ConfigInv, ConfigTyped
  <2>3. n \in CommandType /\ SameCommand(n, k) /\ n.intact = FALSE /\ n.foreign = k.foreign \cup ids
    <3>1. n = [k EXCEPT !.intact = FALSE, !.foreign = k.foreign \cup ids]
      BY <1>1, <2>1
    <3>2. k.foreign \cup ids \in SUBSET RuleIds
      BY <2>2 DEF CommandType
    <3>3. n \in CommandType
      BY <2>2, <3>1, <3>2 DEF CommandType
    <3>4. SameCommand(n, k) /\ n.intact = FALSE /\ n.foreign = k.foreign \cup ids
      BY <2>2, <3>1 DEF CommandType, SameCommand
    <3> QED BY <3>3, <3>4
  <2>4. CommandSound(n, backups[t], store', config')
    BY <2>2, <2>3, NoticedIsSound
  <2> QED BY <2>1, <2>3, <2>4
<1>4. \A t \in Shells :
        lynx'[t] \in CommandType /\ CommandSound(lynx'[t], backups'[t], store', config')
  BY <1>2, <1>3
<1>5. ConfigTyped'
  BY <1>2, <1>4 DEF ConfigTyped
<1> QED BY <1>4, <1>5 DEF ConfigInv

\* The first step of a command, which the others need not know of.
LEMMA CommandBegins ==
  ASSUME ConfigConstants, ConfigInv, NEW s \in Shells, NEW op \in {"push", "pull", "apply"},
         NEW p \in Projects, NEW c \in Configs, Config!Begin(s, op, p, c), c.project = p,
         UNCHANGED <<store, backups>>,
         config' = config \/ (config = Nothing /\ config' \in Configs)
  PROVE  ConfigInv'
<1>1. PICK next :
        next = [Config!Command EXCEPT !.op = op, !.project = p, !.config = c, !.intact = TRUE]
  OBVIOUS
<1>2. next \in CommandType /\ next.op = op /\ next.project = p /\ next.config = c
      /\ next.listed = Nothing /\ next.todo = << >>
  <2>1. /\ next = [op |-> op, project |-> p, config |-> c, listed |-> Nothing,
                   todo |-> << >>, intact |-> TRUE, foreign |-> {}]
    BY <1>1 DEF Config!Command
  <2>2. /\ op \in ConfigOps /\ p \in Projects \cup {Nothing} /\ c \in Configs \cup {Nothing}
        /\ Nothing \in RuleStores \cup (SUBSET RuleIds) \cup {Nothing}
        /\ << >> \in Seq(Config!ConfigRule) \cup Seq(RuleIds)
        /\ {} \in SUBSET RuleIds /\ TRUE \in BOOLEAN
    <3>1. << >> \in Seq(RuleIds) /\ op \in ConfigOps
      BY DEF ConfigOps
    <3> QED BY <3>1
  <2>3. next \in CommandType
    BY <2>1, <2>2 DEF CommandType
  <2> QED BY <2>1, <2>3
<1>3. CommandSound(next, backups[s], store, config')
  <2>1. << >> \in Seq(RuleIds) /\ Distinct(<< >>)
    BY DEF Distinct
  <2>2. Applying(next, store)
    BY <1>2, <2>1 DEF Applying
  <2>3. Pushing(next, store, config') /\ Pulling(next, backups[s], store)
    BY <1>2 DEF Pushing, Pulling
  <2> QED BY <1>2, <2>2, <2>3 DEF CommandSound
<1>4. lynx' = [lynx EXCEPT ![s] = next]
  BY <1>1 DEF Config!Begin
<1>5. /\ lynx' \in [Shells -> CommandType]
      /\ \A t \in Shells : lynx'[t] = IF t = s THEN next ELSE lynx[t]
  BY <1>2, <1>4 DEF ConfigInv, ConfigTyped
<1>6. ASSUME NEW t \in Shells \ {s} PROVE CommandSound(lynx[t], backups[t], store, config')
  <2>1. CommandSound(lynx[t], backups[t], store, config)
    BY DEF ConfigInv
  <2>2. Pushing(lynx[t], store, config')
    <3>1. CASE config' = config
      BY <2>1, <3>1 DEF CommandSound
    <3>2. CASE config = Nothing
      <4>1. lynx[t].op = "pushed" /\ lynx[t].intact => config \in Configs
        BY <2>1, MergedHasAll DEF CommandSound, Pushing
      <4>2. ~(lynx[t].op = "pushed" /\ lynx[t].intact)
        BY <3>2, <4>1 DEF ConfigConstants
      <4> QED BY <2>1, <4>2 DEF CommandSound, Pushing
    <3> QED BY <3>1, <3>2
  <2> QED BY <2>1, <2>2 DEF CommandSound
<1> QED BY <1>3, <1>5, <1>6 DEF ConfigInv, ConfigTyped

\* The others at work.
LEMMA OthersAtWork ==
  ASSUME ConfigConstants, ConfigInv, Config!UiWrites \/ Config!UserEdits
  PROVE  ConfigInv'
<1>1. PICK ids \in SUBSET RuleIds : /\ lynx' = Config!Noticed(Shells, ids)
                                    /\ \A id \in RuleIds \ ids : store'[id] = store[id]
                                    /\ store' \in RuleStores
  <2>1. CASE Config!UiWrites
    <3>1. PICK id \in RuleIds, r \in Config!RequestRule \cup {Nothing} :
            store' = [store EXCEPT ![id] = r] /\ lynx' = Config!Noticed(Shells, {id})
      <4>1. PICK id \in RuleIds :
              /\ \/ \E t \in Texts, p \in Projects, e \in BOOLEAN :
                      store' = [store EXCEPT ![id] = [project |-> p, text |-> t, enabled |-> e]]
                 \/ store' = [store EXCEPT ![id] = Nothing]
              /\ lynx' = Config!Noticed(Shells, {id})
        BY <2>1 DEF Config!UiWrites
      <4>2. \A t \in Texts, p \in Projects, e \in BOOLEAN :
              [project |-> p, text |-> t, enabled |-> e] \in Config!RequestRule
        BY DEF Config!RequestRule
      <4> QED BY <4>1, <4>2
    <3>2. store' \in RuleStores /\ \A d \in RuleIds \ {id} : store'[d] = store[d]
      BY <3>1 DEF ConfigInv, ConfigTyped, RuleStores
    <3> QED BY <3>1, <3>2
  <2>2. CASE Config!UserEdits
    BY <2>2 DEF Config!UserEdits, ConfigInv, ConfigTyped
  <2> QED BY <2>1, <2>2
<1>2. config' \in Configs \cup {Nothing} /\ backups' = backups
  BY DEF Config!UiWrites, Config!UserEdits, ConfigInv, ConfigTyped, ConfigConstants
<1>3. ASSUME NEW t \in Shells
      PROVE  lynx'[t] \in CommandType /\ CommandSound(lynx'[t], backups[t], store', config')
  <2>1. PICK n, k : n = lynx'[t] /\ k = lynx[t]
    OBVIOUS
  <2>2. /\ k \in CommandType /\ CommandSound(k, backups[t], store, config) /\ store \in RuleStores
    BY <2>1 DEF ConfigInv, ConfigTyped
  <2>3. n = [k EXCEPT !.intact = FALSE, !.foreign = k.foreign \cup ids]
    BY <1>1, <2>1 DEF Config!Noticed
  <2>4. k.foreign \cup ids \in SUBSET RuleIds
    BY <2>2 DEF CommandType
  <2>5. n \in CommandType
    BY <2>2, <2>3, <2>4 DEF CommandType
  <2>6. SameCommand(n, k) /\ n.intact = FALSE /\ n.foreign = k.foreign \cup ids
    BY <2>2, <2>3 DEF CommandType, SameCommand
  <2>7. CommandSound(n, backups[t], store', config')
    BY <1>1, <2>2, <2>6, NoticedIsSound
  <2> QED BY <2>1, <2>5, <2>7
<1>4. lynx' = [t \in Shells |-> lynx'[t]]
  BY <1>1 DEF Config!Noticed
<1>5. ConfigTyped'
  BY <1>1, <1>2, <1>3, <1>4 DEF ConfigInv, ConfigTyped
<1> QED BY <1>2, <1>3, <1>5 DEF ConfigInv

\* Commands begin.
LEMMA BeginsStaySound ==
  ASSUME ConfigConstants, ConfigInv, NEW s \in Shells,
         Config!Push(s) \/ Config!Pull(s) \/ Config!Apply(s)
  PROVE  ConfigInv'
<1>1. ASSUME NEW p \in Projects
      PROVE  /\ Config!NewEmpty(p) \in Configs
             /\ Config!LoadOrCreate(p) \in Configs /\ Config!LoadOrCreate(p).project = p
  <2>1. Config!NewEmpty(p) \in Configs /\ Config!NewEmpty(p).project = p
    BY DEF Config!NewEmpty, Configs
  <2>2. CASE config = Nothing
    BY <2>1, <2>2 DEF Config!LoadOrCreate
  <2>3. CASE config # Nothing
    <3>1. config \in Configs /\ Config!LoadOrCreate(p) = [config EXCEPT !.project = p]
      BY <2>3 DEF Config!LoadOrCreate, ConfigInv, ConfigTyped
    <3> QED BY <2>1, <3>1 DEF Configs
  <2> QED BY <2>1, <2>2, <2>3
<1>2. CASE Config!Push(s)
  <2>1. PICK p \in Projects : /\ Config!Begin(s, "push", p, Config!LoadOrCreate(p))
                              /\ UNCHANGED <<store, config, backups>>
    BY <1>2 DEF Config!Push
  <2>2. PICK c : c = Config!LoadOrCreate(p)
    OBVIOUS
  <2>3. c \in Configs /\ c.project = p /\ Config!Begin(s, "push", p, c)
    BY <1>1, <2>1, <2>2
  <2> QED BY <2>1, <2>3, CommandBegins
<1>3. CASE Config!Pull(s)
  <2>1. PICK p \in Projects : /\ Config!Begin(s, "pull", p, Config!LoadOrCreate(p))
                              /\ UNCHANGED <<store, backups>>
                              /\ config' = IF config = Nothing THEN Config!NewEmpty(p) ELSE config
    BY <1>3 DEF Config!Pull
  <2>2. PICK c : c = Config!LoadOrCreate(p)
    OBVIOUS
  <2>3. c \in Configs /\ c.project = p /\ Config!Begin(s, "pull", p, c)
    BY <1>1, <2>1, <2>2
  <2>4. config' = config \/ (config = Nothing /\ config' \in Configs)
    BY <1>1, <2>1
  <2> QED BY <2>1, <2>3, <2>4, CommandBegins
<1>4. CASE Config!Apply(s)
  <2>1. PICK c : c = config /\ c \in Configs
    BY <1>4 DEF Config!Apply, ConfigInv, ConfigTyped
  <2>2. /\ c.project \in Projects /\ Config!Begin(s, "apply", c.project, c)
        /\ UNCHANGED <<store, config, backups>>
    BY <1>4, <2>1 DEF Config!Apply, Configs
  <2>3. PICK p \in Projects : p = c.project
    BY <2>2
  <2> QED BY <2>1, <2>2, <2>3, CommandBegins
<1> QED BY <1>2, <1>3, <1>4

\* A push.
LEMMA PushStaysSound ==
  ASSUME ConfigConstants, ConfigInv, NEW s \in Shells, Config!PushLists(s) \/ Config!PushWrites(s)
  PROVE  ConfigInv'
<1> DEFINE k == lynx[s]
<1>1. /\ k \in CommandType /\ CommandSound(k, backups[s], store, config) /\ store \in RuleStores
      /\ config \in Configs \cup {Nothing} /\ backups \in [Shells -> RuleStores \cup {Nothing}]
      /\ {} \in SUBSET RuleIds
  BY DEF ConfigInv, ConfigTyped
<1>2. CASE Config!PushLists(s)
  <2>1. PICK next : next = [k EXCEPT !.listed = store]
    OBVIOUS
  <2>2. /\ k.op = "push" /\ Config!Goes(s, next, {}) /\ UNCHANGED <<store, config, backups>>
    BY <1>2, <2>1 DEF Config!PushLists
  <2>3. next \in CommandType /\ next.op = "push" /\ next.project = k.project
        /\ next.config = k.config /\ next.listed = store /\ next.intact = k.intact
    BY <1>1, <2>1, <2>2 DEF CommandType
  <2>4. CommandSound(next, backups[s], store, config)
    BY <1>1, <2>2, <2>3 DEF CommandSound, Pushing, Pulling, Applying
  <2> HIDE DEF k
  <2> QED BY <1>1, <2>2, <2>3, <2>4, CommandMoves
<1>3. CASE Config!PushWrites(s)
  <2>1. PICK next : next = [k EXCEPT !.op = "pushed"]
    OBVIOUS
  <2>2. /\ k.op = "push" /\ k.listed # Nothing /\ Config!Goes(s, next, {})
        /\ UNCHANGED <<store, backups>>
        /\ config' = Config!Merged(k.config, k.listed, k.project)
    BY <1>3, <2>1 DEF Config!PushWrites
  <2>3. next \in CommandType /\ next.op = "pushed" /\ next.project = k.project
        /\ next.config = k.config /\ next.listed = k.listed /\ next.intact = k.intact
    BY <1>1, <2>1 DEF CommandType, ConfigOps
  <2>4. /\ k.listed \in RuleStores /\ k.project \in Projects /\ k.config \in Configs
        /\ k.config.project = k.project /\ (k.intact => store = k.listed)
    BY <1>1, <2>2 DEF CommandSound, Pushing
  <2>5. config' \in Configs
    BY <2>2, <2>4, MergedHasAll
  <2>6. CommandSound(next, backups[s], store, config')
    BY <2>2, <2>3, <2>4 DEF CommandSound, Pushing, Pulling, Applying
  <2> HIDE DEF k
  <2> QED BY <1>1, <2>2, <2>3, <2>5, <2>6, CommandMoves
<1> QED BY <1>2, <1>3

\* The next rule a pull writes is the one after those it has written.
LEMMA NextOfPull ==
  ASSUME NEW rules \in Seq(Config!ConfigRule), NEW todo \in Seq(Config!ConfigRule), todo # << >>,
         Len(todo) <= Len(rules), NEW n, n = Len(rules) - Len(todo),
         \A i \in 1 .. Len(todo) : todo[i] = rules[n + i]
  PROVE  /\ n \in Nat /\ n + 1 \in DOMAIN rules /\ Head(todo) = rules[n + 1]
         /\ Head(todo) \in Config!ConfigRule
         /\ Tail(todo) \in Seq(Config!ConfigRule) /\ Len(Tail(todo)) <= Len(rules)
         /\ Len(rules) - Len(Tail(todo)) = n + 1
         /\ \A i \in 1 .. Len(Tail(todo)) : Tail(todo)[i] = rules[n + 1 + i]
<1>1. PICK len \in Nat, left \in Nat : len = Len(rules) /\ left = Len(todo)
  OBVIOUS
<1>2. left > 0 /\ left <= len /\ n = len - left
  BY <1>1
<1>3. n \in Nat /\ n + 1 \in 1 .. len /\ 1 \in 1 .. left
  BY <1>2
<1>4. /\ Tail(todo) \in Seq(Config!ConfigRule) /\ Len(Tail(todo)) = left - 1
      /\ \A i \in 1 .. left - 1 : Tail(todo)[i] = todo[i + 1]
      /\ Head(todo) = todo[1] /\ Head(todo) \in Config!ConfigRule
  BY <1>1, HeadTailProperties
<1>5. left - 1 <= len /\ len - (left - 1) = n + 1
  <2>1. \A a, d \in Nat : a <= d => a - 1 <= d /\ d - (a - 1) = (d - a) + 1
    OBVIOUS
  <2> QED BY <1>2, <2>1
<1>6. ASSUME NEW i \in 1 .. left - 1 PROVE Tail(todo)[i] = rules[n + 1 + i]
  <2>1. i + 1 \in 1 .. left /\ n + (i + 1) = n + 1 + i
    BY <1>2, <1>3
  <2>2. todo[i + 1] = rules[n + (i + 1)]
    BY <1>1, <2>1
  <2> QED BY <1>4, <2>1, <2>2
<1>7. todo[1] = rules[n + 1]
  BY <1>1, <1>3
<1> QED BY <1>1, <1>3, <1>4, <1>5, <1>6, <1>7

\* Writing it, the pull has written the last one of each id again.
LEMMA WrittenIsReplaced ==
  ASSUME NEW k, NEW next, NEW b, NEW rs, NEW to, NEW id, NEW r, NEW n \in Nat,
         Done(k) = n, Done(next) = n + 1, next.config = k.config, next.project = k.project,
         r = k.config.rules[n + 1], Replaced(k, b, rs, id),
         to[id] = IF id = r.id THEN Config!ToRequestRule(r, k.project) ELSE rs[id]
  PROVE  Replaced(next, b, to, id)
<1>1. PICK rules : rules = k.config.rules
  OBVIOUS
<1>2. CASE id = r.id
  <2>1. ASSUME NEW i \in 1 .. n + 1, rules[i].id = id, LastOf(rules, n + 1, i) PROVE rules[i] = r
    <3>1. n + 1 \in 1 .. n + 1 /\ rules[n + 1].id = rules[i].id
      BY <1>1, <1>2, <2>1
    <3>2. n + 1 <= i
      BY <2>1, <3>1 DEF LastOf
    <3>3. i = n + 1
      BY <3>2
    <3> QED BY <1>1, <3>3
  <2>2. n + 1 \in 1 .. n + 1 /\ rules[n + 1].id = id
    BY <1>1, <1>2
  <2> QED BY <1>1, <1>2, <2>1, <2>2 DEF Replaced
<1>3. CASE id # r.id
  <2>1. \A i \in 1 .. n + 1 : rules[i].id = id => i \in 1 .. n
    BY <1>1, <1>3
  <2>2. \A i \in 1 .. n : i \in 1 .. n + 1 /\ (LastOf(rules, n + 1, i) => LastOf(rules, n, i))
    BY DEF LastOf
  <2>3. /\ \A i \in 1 .. n : rules[i].id = id /\ LastOf(rules, n, i) =>
             rs[id] = Config!ToRequestRule(rules[i], k.project)
        /\ (\A i \in 1 .. n : rules[i].id # id) => rs[id] = b[id]
    BY <1>1 DEF Replaced
  <2> QED BY <1>1, <1>3, <2>1, <2>2, <2>3 DEF Replaced
<1> QED BY <1>2, <1>3

\* A pull.
LEMMA PullStaysSound ==
  ASSUME ConfigConstants, ConfigInv, NEW s \in Shells,
         Config!PullBacksUp(s) \/ Config!PullLists(s) \/ Config!PullWrites(s)
  PROVE  ConfigInv'
<1> DEFINE k == lynx[s]
           b == backups[s]
<1>1. /\ k \in CommandType /\ CommandSound(k, b, store, config) /\ store \in RuleStores
      /\ config \in Configs \cup {Nothing} /\ backups \in [Shells -> RuleStores \cup {Nothing}]
      /\ {} \in SUBSET RuleIds
  BY DEF ConfigInv, ConfigTyped
<1>2. k.op # "none" => /\ k.project \in Projects /\ k.config \in Configs
                       /\ k.config.project = k.project
                       /\ k.config.rules \in Seq(Config!ConfigRule) /\ Len(k.config.rules) \in Nat
  BY <1>1 DEF CommandSound, Configs
<1>3. CASE Config!PullBacksUp(s)
  <2>1. PICK next : next = [k EXCEPT !.op = "pulling", !.foreign = {}]
    OBVIOUS
  <2>2. /\ k.op = "pull" /\ Config!Goes(s, next, {}) /\ UNCHANGED <<store, config>>
        /\ backups' = [backups EXCEPT ![s] = store]
        /\ \A i \in DOMAIN k.config.rules : k.config.rules[i].text # Invalid
    BY <1>3, <2>1 DEF Config!PullBacksUp
  <2>3. /\ next \in CommandType /\ next.op = "pulling" /\ next.project = k.project
        /\ next.config = k.config /\ next.listed = Nothing /\ next.todo = << >>
        /\ next.foreign = {}
    BY <1>1, <2>1, <2>2 DEF CommandType, ConfigOps, CommandSound, Pulling
  <2>4. backups' \in [Shells -> RuleStores \cup {Nothing}] /\ backups'[s] = store
        /\ \A t \in Shells \ {s} : backups'[t] = backups[t]
    BY <1>1, <2>2
  <2>5. \A i \in DOMAIN k.config.rules : k.config.rules[i].text \in Texts
    <3>1. \A i \in DOMAIN k.config.rules : k.config.rules[i] \in Config!ConfigRule
      BY <1>2, <2>2
    <3> QED BY <2>2, <3>1 DEF Config!ConfigRule
  <2>6. \A id \in RuleIds : Replaced(next, store, store, id)
    BY <2>3 DEF Replaced, Done
  <2>7. Pulling(next, store, store)
    <3>1. << >> \in Seq(Config!ConfigRule) /\ Len(<< >>) = 0
      OBVIOUS
    <3> QED BY <1>1, <1>2, <2>2, <2>3, <2>5, <2>6, <3>1 DEF Pulling
  <2>8. CommandSound(next, backups'[s], store', config')
    BY <1>2, <2>2, <2>3, <2>4, <2>7 DEF CommandSound, Pushing, Applying
  <2> HIDE DEF k, b
  <2> QED BY <1>1, <2>2, <2>3, <2>4, <2>8, CommandMoves
<1>4. CASE Config!PullLists(s)
  <2>1. PICK next : next = [k EXCEPT !.listed = Config!Stored(store), !.todo = k.config.rules]
    OBVIOUS
  <2>2. /\ k.op = "pulling" /\ k.listed = Nothing /\ Config!Goes(s, next, {})
        /\ UNCHANGED <<store, config, backups>>
    BY <1>4, <2>1 DEF Config!PullLists
  <2>3. Config!Stored(store) \in SUBSET RuleIds /\ Config!Stored(store) # Nothing
    BY DEF Config!Stored, ConfigConstants
  <2>4. /\ next \in CommandType /\ next.op = "pulling" /\ next.project = k.project
        /\ next.config = k.config /\ next.listed # Nothing /\ next.todo = k.config.rules
        /\ next.foreign = k.foreign /\ next.intact = k.intact
    BY <1>1, <1>2, <2>1, <2>2, <2>3 DEF CommandType
  <2>5. Done(next) = 0 /\ Done(k) = 0
    BY <1>2, <2>2, <2>4 DEF Done
  <2>6. \A id \in RuleIds \ next.foreign : Replaced(next, b, store, id)
    BY <1>1, <2>2, <2>4, <2>5 DEF Replaced, CommandSound, Pulling
  <2>7. Pulling(next, b, store)
    BY <1>1, <1>2, <2>2, <2>4, <2>5, <2>6 DEF CommandSound, Pulling
  <2>8. CommandSound(next, backups'[s], store', config')
    BY <1>2, <2>2, <2>4, <2>7 DEF CommandSound, Pushing, Applying
  <2> HIDE DEF k
  <2> QED BY <1>1, <2>2, <2>4, <2>8, CommandMoves
<1>5. CASE Config!PullWrites(s)
  <2>1. PICK next, r, rules, todo, n : /\ next = [k EXCEPT !.todo = Tail(k.todo)]
                                       /\ r = Head(k.todo) /\ rules = k.config.rules
                                       /\ todo = k.todo /\ n = Done(k)
    OBVIOUS
  <2>2. /\ k.op = "pulling" /\ todo # << >> /\ Config!Goes(s, next, {r.id})
        /\ UNCHANGED <<config, backups>>
        /\ store' = [store EXCEPT ![r.id] = Config!ToRequestRule(r, k.config.project)]
    BY <1>5, <2>1 DEF Config!PullWrites
  <2>3. /\ k.listed # Nothing /\ todo \in Seq(Config!ConfigRule) /\ Len(todo) <= Len(rules)
        /\ \A i \in 1 .. Len(todo) : todo[i] = rules[n + i]
        /\ b \in RuleStores /\ \A i \in DOMAIN rules : rules[i].text \in Texts
        /\ k.intact => k.foreign = {}
        /\ \A id \in RuleIds \ k.foreign : Replaced(k, b, store, id)
    BY <1>1, <2>1, <2>2 DEF CommandSound, Pulling
  <2>4. n = Len(rules) - Len(todo) /\ rules \in Seq(Config!ConfigRule)
        /\ k.project \in Projects /\ k.config.project = k.project
    BY <1>2, <2>1, <2>2, <2>3 DEF Done
  <2>5. /\ n \in Nat /\ n + 1 \in DOMAIN rules /\ r = rules[n + 1] /\ r \in Config!ConfigRule
        /\ Tail(todo) \in Seq(Config!ConfigRule) /\ Len(Tail(todo)) <= Len(rules)
        /\ Len(rules) - Len(Tail(todo)) = n + 1
        /\ \A i \in 1 .. Len(Tail(todo)) : Tail(todo)[i] = rules[n + 1 + i]
    <3> HIDE DEF k, b
    <3>1. \A i \in 1 .. Len(todo) : todo[i] = rules[n + i]
      BY <2>3
    <3>2. r = Head(todo)
      BY <2>1
    <3> QED BY <2>2, <2>3, <2>4, <3>1, <3>2, NextOfPull
  <2>6. PICK put : put = Config!ToRequestRule(r, k.project)
    OBVIOUS
  <2>7. r.id \in RuleIds /\ put \in Config!RequestRule
    BY <2>3, <2>4, <2>5, <2>6 DEF Config!ToRequestRule, Config!RequestRule, Config!ConfigRule
  <2>8. /\ store' \in RuleStores
        /\ \A id \in RuleIds : store'[id] = IF id = r.id THEN put ELSE store[id]
    BY <1>1, <2>2, <2>4, <2>6, <2>7 DEF RuleStores
  <2>9. /\ next \in CommandType /\ next.op = "pulling" /\ next.project = k.project
        /\ next.config = k.config /\ next.listed = k.listed /\ next.todo = Tail(todo)
        /\ next.foreign = k.foreign /\ next.intact = k.intact
    BY <1>1, <2>1, <2>2, <2>5 DEF CommandType
  <2>10. Done(next) = n + 1
    BY <2>1, <2>3, <2>5, <2>9 DEF Done
  <2>11. \A id \in RuleIds \ next.foreign : Replaced(next, b, store', id)
    <3> SUFFICES ASSUME NEW id \in RuleIds \ next.foreign PROVE Replaced(next, b, store', id)
      OBVIOUS
    <3>1. Replaced(k, b, store, id)
      BY <2>3, <2>9
    <3>2. store'[id] = IF id = r.id THEN Config!ToRequestRule(r, k.project) ELSE store[id]
      BY <2>6, <2>8
    <3>3. Done(k) = n /\ r = k.config.rules[n + 1]
      BY <2>1, <2>5
    <3> HIDE DEF k, b
    <3> QED BY <2>5, <2>9, <2>10, <3>1, <3>2, <3>3, WrittenIsReplaced
  <2>12. Pulling(next, b, store')
    BY <2>1, <2>3, <2>5, <2>9, <2>10, <2>11 DEF Pulling
  <2>13. CommandSound(next, backups'[s], store', config')
    BY <1>2, <2>2, <2>9, <2>12 DEF CommandSound, Pushing, Applying
  <2>14. PICK ids : ids = {r.id}
    OBVIOUS
  <2>15. ids \in SUBSET RuleIds /\ \A id \in RuleIds \ ids : store'[id] = store[id]
    BY <2>7, <2>8, <2>14
  <2>16. config' \in Configs \cup {Nothing} /\ backups' \in [Shells -> RuleStores \cup {Nothing}]
         /\ \A t \in Shells \ {s} : backups'[t] = backups[t]
    BY <1>1, <2>2
  <2>17. Config!Goes(s, next, ids)
    BY <2>2, <2>14
  <2> HIDE DEF k, b
  <2> QED BY <2>8, <2>9, <2>13, <2>15, <2>16, <2>17, CommandMoves
<1> QED BY <1>3, <1>4, <1>5

\* What an apply writes is a rule.
LEMMA SwitchedIsRule ==
  ASSUME ConfigConstants, NEW c \in Configs, NEW rs \in RuleStores,
         NEW id \in Config!ToSwitch(c, rs)
  PROVE  /\ id \in RuleIds /\ rs[id] \in Config!RequestRule
         /\ Config!Switched(c, id, rs[id]) \in Config!RequestRule
<1>1. id \in Config!OfProject(rs, c.project)
  BY DEF Config!ToSwitch
<1>2. id \in RuleIds /\ rs[id] \in Config!RequestRule
  BY <1>1, StoredRules
<1>3. (IF id \in Config!IdsIn(c) THEN Config!InConfig(c, id).enabled ELSE FALSE) \in BOOLEAN
  BY LastCounts DEF Config!ConfigRule
<1> QED BY <1>2, <1>3 DEF Config!Switched, Config!RequestRule

\* The next rule an apply writes is one of those left to do, and then it is not.
LEMMA NextOfApply ==
  ASSUME NEW todo \in Seq(RuleIds), todo # << >>, Distinct(todo)
  PROVE  /\ Tail(todo) \in Seq(RuleIds) /\ Distinct(Tail(todo)) /\ Head(todo) \in Left(todo)
         /\ Left(Tail(todo)) = Left(todo) \ {Head(todo)}
<1>1. PICK n \in Nat : n = Len(todo)
  OBVIOUS
<1>2. /\ Tail(todo) \in Seq(RuleIds) /\ Len(Tail(todo)) = n - 1
      /\ \A i \in 1 .. n - 1 : Tail(todo)[i] = todo[i + 1]
      /\ Head(todo) = todo[1] /\ n > 0
  BY <1>1, HeadTailProperties
<1>3. DOMAIN todo = 1 .. n /\ DOMAIN Tail(todo) = 1 .. n - 1 /\ 1 \in 1 .. n
  BY <1>1, <1>2
<1>4. \A i \in 1 .. n - 1 : i + 1 \in 1 .. n /\ i + 1 # 1
  OBVIOUS
<1>5. PICK rest : rest = Tail(todo)
  OBVIOUS
<1>6. ASSUME NEW i \in 1 .. n - 1, NEW j \in 1 .. n - 1, i # j PROVE rest[i] # rest[j]
  <2>1. i + 1 \in 1 .. n /\ j + 1 \in 1 .. n /\ i + 1 # j + 1
    BY <1>6, <1>4
  <2> QED BY <1>2, <1>3, <1>5, <2>1 DEF Distinct
<1>7. Distinct(rest)
  BY <1>3, <1>5, <1>6 DEF Distinct
<1>8. \A i \in 1 .. n - 1 : rest[i] \in Left(todo) /\ rest[i] # Head(todo)
  <2> SUFFICES ASSUME NEW i \in 1 .. n - 1 PROVE rest[i] \in Left(todo) /\ rest[i] # Head(todo)
    OBVIOUS
  <2>1. i + 1 \in 1 .. n /\ i + 1 # 1 /\ rest[i] = todo[i + 1]
    BY <1>2, <1>4, <1>5
  <2> QED BY <1>2, <1>3, <2>1 DEF Distinct, Left
<1>9. ASSUME NEW i \in 1 .. n, todo[i] # Head(todo) PROVE todo[i] \in Left(rest)
  <2>1. i # 1
    BY <1>2, <1>9
  <2>2. i - 1 \in 1 .. n - 1 /\ (i - 1) + 1 = i
    BY <2>1
  <2>3. rest[i - 1] = todo[i]
    BY <1>2, <1>5, <2>2
  <2> QED BY <1>3, <1>5, <2>2, <2>3 DEF Left
<1>10. Left(rest) = Left(todo) \ {Head(todo)}
  BY <1>3, <1>5, <1>8, <1>9 DEF Left
<1>11. Head(todo) \in Left(todo)
  BY <1>2, <1>3 DEF Left
<1> QED BY <1>2, <1>5, <1>7, <1>10, <1>11

\* An apply.
LEMMA ApplyStaysSound ==
  ASSUME ConfigConstants, ConfigInv, NEW s \in Shells, Config!ApplyLists(s) \/ Config!ApplyWrites(s)
  PROVE  ConfigInv'
<1> DEFINE k == lynx[s]
           b == backups[s]
<1>1. /\ k \in CommandType /\ CommandSound(k, b, store, config) /\ store \in RuleStores
      /\ config \in Configs \cup {Nothing} /\ backups \in [Shells -> RuleStores \cup {Nothing}]
      /\ {} \in SUBSET RuleIds
  BY DEF ConfigInv, ConfigTyped
<1>2. k.op # "none" =>
        k.project \in Projects /\ k.config \in Configs /\ k.config.project = k.project
  BY <1>1 DEF CommandSound
<1>3. CASE Config!ApplyLists(s)
  <2>1. PICK switch, todo : /\ switch = Config!ToSwitch(k.config, store)
                            /\ todo = Config!InOrder(switch)
    OBVIOUS
  <2>2. PICK next : next = [k EXCEPT !.listed = store, !.todo = todo]
    OBVIOUS
  <2>3. /\ k.op = "apply" /\ Config!Goes(s, next, {}) /\ UNCHANGED <<store, config, backups>>
    BY <1>3, <2>1, <2>2 DEF Config!ApplyLists
  <2>4. switch \in SUBSET RuleIds /\ switch \in SUBSET Int /\ IsFiniteSet(switch)
    <3>1. switch \in SUBSET RuleIds
      BY <1>1, <2>1, StoredRules DEF Config!ToSwitch
    <3> QED BY <3>1, FS_Subset DEF ConfigConstants
  <2>5. todo \in Seq(RuleIds) /\ Distinct(todo) /\ Left(todo) = switch
    <3>1. PICK n \in Nat : n = Cardinality(switch)
      BY <2>4, FS_CardinalityType
    <3>2. /\ todo \in Seq(switch) /\ Len(todo) = n
          /\ \A i, j \in 1 .. n : i # j => todo[i] # todo[j]
          /\ \A x \in switch : \E i \in 1 .. n : todo[i] = x
      BY <2>1, <2>4, <3>1, OrderIsWhole
    <3>3. DOMAIN todo = 1 .. n /\ \A i \in 1 .. n : todo[i] \in switch
      BY <3>2
    <3>4. todo \in Seq(RuleIds)
      <4>1. todo = [i \in 1 .. n |-> todo[i]] /\ \A i \in 1 .. n : todo[i] \in RuleIds
        BY <2>4, <3>2, <3>3
      <4>2. todo \in [1 .. n -> RuleIds]
        BY <4>1
      <4> QED BY <3>1, <4>2
    <3> QED BY <3>2, <3>3, <3>4 DEF Distinct, Left
  <2>6. /\ next \in CommandType /\ next.op = "apply" /\ next.project = k.project
        /\ next.config = k.config /\ next.listed = store /\ next.todo = todo
        /\ next.intact = k.intact
    BY <1>1, <2>2, <2>3, <2>5 DEF CommandType
  <2>7. store # Nothing
    BY <1>1 DEF ConfigConstants
  <2>8. Applying(next, store)
    BY <1>1, <2>1, <2>5, <2>6, <2>7 DEF Applying
  <2>9. CommandSound(next, backups'[s], store', config')
    BY <1>2, <2>3, <2>6, <2>8 DEF CommandSound, Pushing, Pulling
  <2> HIDE DEF k, b
  <2> QED BY <1>1, <2>3, <2>6, <2>9, CommandMoves
<1>4. CASE Config!ApplyWrites(s)
  <2>1. PICK next, todo, id, put, ids : /\ next = [k EXCEPT !.todo = Tail(k.todo)]
                                        /\ todo = k.todo /\ id = Head(todo) /\ ids = {id}
                                        /\ put = Config!Switched(k.config, id, k.listed[id])
    OBVIOUS
  <2>2. /\ k.op = "apply" /\ todo # << >> /\ Config!Goes(s, next, ids)
        /\ UNCHANGED <<config, backups>>
        /\ store' = [store EXCEPT ![id] = put]
    BY <1>4, <2>1 DEF Config!ApplyWrites
  <2>3. /\ todo \in Seq(RuleIds) /\ Distinct(todo)
        /\ k.listed # Nothing /\ k.listed \in RuleStores
        /\ Left(todo) \subseteq Config!ToSwitch(k.config, k.listed)
        /\ k.intact => \A d \in RuleIds :
             store[d] = IF d \in Config!ToSwitch(k.config, k.listed) \ Left(todo)
                        THEN Config!Switched(k.config, d, k.listed[d]) ELSE k.listed[d]
    BY <1>1, <2>1, <2>2 DEF CommandSound, Applying
  <2>4. /\ Tail(todo) \in Seq(RuleIds) /\ Distinct(Tail(todo)) /\ id \in Left(todo)
        /\ Left(Tail(todo)) = Left(todo) \ {id}
    BY <2>1, <2>2, <2>3, NextOfApply
  <2>5. id \in RuleIds /\ put \in Config!RequestRule
    <3>1. PICK c \in Configs, rs \in RuleStores : c = k.config /\ rs = k.listed
      BY <1>2, <2>2, <2>3
    <3>2. id \in Config!ToSwitch(c, rs) /\ put = Config!Switched(c, id, rs[id])
      BY <2>1, <2>3, <2>4, <3>1
    <3> QED BY <3>2, SwitchedIsRule
  <2>6. /\ store' \in RuleStores
        /\ \A d \in RuleIds : store'[d] = IF d = id THEN put ELSE store[d]
    BY <1>1, <2>2, <2>5 DEF RuleStores
  <2>7. /\ next \in CommandType /\ next.op = "apply" /\ next.project = k.project
        /\ next.config = k.config /\ next.listed = k.listed /\ next.todo = Tail(todo)
        /\ next.intact = k.intact
    BY <1>1, <2>1, <2>2, <2>4 DEF CommandType
  <2>8. ASSUME k.intact, NEW d \in RuleIds
        PROVE  store'[d] = IF d \in Config!ToSwitch(k.config, k.listed) \ Left(Tail(todo))
                           THEN Config!Switched(k.config, d, k.listed[d]) ELSE k.listed[d]
    <3> HIDE DEF k
    <3>1. CASE d = id
      BY <2>1, <2>3, <2>4, <2>6, <3>1
    <3>2. CASE d # id
      BY <2>3, <2>4, <2>6, <2>8, <3>2
    <3> QED BY <3>1, <3>2
  <2>9. Applying(next, store')
    <3> HIDE DEF k
    <3> QED BY <2>3, <2>4, <2>7, <2>8 DEF Applying
  <2>10. CommandSound(next, backups'[s], store', config')
    BY <1>2, <2>2, <2>7, <2>9 DEF CommandSound, Pushing, Pulling
  <2>11. ids \in SUBSET RuleIds /\ \A d \in RuleIds \ ids : store'[d] = store[d]
    BY <2>1, <2>5, <2>6
  <2>12. config' \in Configs \cup {Nothing} /\ backups' \in [Shells -> RuleStores \cup {Nothing}]
         /\ \A t \in Shells \ {s} : backups'[t] = backups[t]
    BY <1>1, <2>2
  <2> HIDE DEF k, b
  <2> QED BY <2>2, <2>6, <2>7, <2>10, <2>11, <2>12, CommandMoves
<1> QED BY <1>3, <1>4

\* A command is done.
LEMMA EndsStaySound ==
  ASSUME ConfigConstants, ConfigInv, NEW s \in Shells, Config!Finished(s) \/ Config!Exits(s)
  PROVE  ConfigInv'
<1> DEFINE k == lynx[s]
           b == backups[s]
<1>1. /\ k \in CommandType /\ CommandSound(k, b, store, config) /\ store \in RuleStores
      /\ config \in Configs \cup {Nothing} /\ backups \in [Shells -> RuleStores \cup {Nothing}]
      /\ {} \in SUBSET RuleIds
  BY DEF ConfigInv, ConfigTyped
<1>2. CASE Config!Finished(s)
  <2>1. PICK op : op = IF k.op = "pulling" THEN "pulled" ELSE "applied"
    OBVIOUS
  <2>2. PICK next : next = [k EXCEPT !.op = op]
    OBVIOUS
  <2>3. /\ k.op \in {"pulling", "apply"} /\ k.listed # Nothing /\ k.todo = << >>
        /\ Config!Goes(s, next, {}) /\ UNCHANGED <<store, config, backups>>
    BY <1>2, <2>1, <2>2 DEF Config!Finished
  <2>4. /\ next \in CommandType /\ next.op = op /\ next.project = k.project
        /\ next.config = k.config /\ next.listed = k.listed /\ next.todo = k.todo
        /\ next.foreign = k.foreign /\ next.intact = k.intact
    BY <1>1, <2>1, <2>2 DEF CommandType, ConfigOps
  <2>5. ASSUME k.op = "pulling" PROVE CommandSound(next, b, store, config)
    <3>1. Done(next) = Done(k)
      BY <2>4 DEF Done
    <3>2. \A id \in RuleIds : Replaced(k, b, store, id) => Replaced(next, b, store, id)
      BY <2>4, <3>1 DEF Replaced
    <3>3. Pulling(next, b, store)
      BY <1>1, <2>1, <2>3, <2>4, <2>5, <3>1, <3>2 DEF CommandSound, Pulling
    <3> QED BY <1>1, <2>1, <2>3, <2>4, <2>5, <3>3 DEF CommandSound, Pushing, Applying
  <2>6. ASSUME k.op = "apply" PROVE CommandSound(next, b, store, config)
    BY <1>1, <2>1, <2>3, <2>4, <2>6 DEF CommandSound, Pushing, Pulling, Applying
  <2>7. CommandSound(next, backups'[s], store', config')
    BY <2>3, <2>5, <2>6 DEF CommandSound, Pushing, Pulling, Applying
  <2> HIDE DEF k, b
  <2> QED BY <1>1, <2>3, <2>4, <2>7, CommandMoves
<1>3. CASE Config!Exits(s)
  <2>1. Config!Goes(s, Config!Command, {}) /\ UNCHANGED <<store, config, backups>>
    BY <1>3 DEF Config!Exits
  <2>2. PICK next : next = Config!Command
    OBVIOUS
  <2>3. next \in CommandType /\ next.op = "none"
    <3>1. << >> \in Seq(RuleIds)
      OBVIOUS
    <3> QED BY <2>2, <3>1 DEF Config!Command, CommandType, ConfigOps
  <2>4. CommandSound(next, backups'[s], store', config')
    BY <2>3 DEF CommandSound, Pushing, Pulling, Applying
  <2> HIDE DEF k, b
  <2> QED BY <1>1, <2>1, <2>2, <2>3, <2>4, CommandMoves
<1> QED BY <1>2, <1>3

\* What the commands and the others do keeps every command sound.
LEMMA ConfigInvHolds ==
  ASSUME ConfigConstants
  PROVE  Config!Spec => []ConfigInv
<1>1. ASSUME Config!Init PROVE ConfigInv
  <2>1. Config!Command \in CommandType /\ Config!Command.op = "none"
    <3>1. << >> \in Seq(RuleIds)
      OBVIOUS
    <3> QED BY <3>1 DEF Config!Command, CommandType, ConfigOps
  <2>2. \A s \in Shells : lynx[s] = Config!Command
    BY <1>1 DEF Config!Init
  <2>3. \A k, b, rs, c : k.op = "none" => CommandSound(k, b, rs, c)
    BY DEF CommandSound, Pushing, Pulling, Applying
  <2>4. ConfigTyped
    BY <1>1, <2>1 DEF Config!Init, ConfigTyped, ConfigConstants
  <2> QED BY <2>1, <2>2, <2>3, <2>4 DEF ConfigInv
<1>2. ASSUME ConfigInv, [Config!Next]_(Config!vars) PROVE ConfigInv'
  <2>1. CASE Config!UiWrites \/ Config!UserEdits
    BY <1>2, <2>1, OthersAtWork
  <2>2. CASE \E s \in Shells : Config!Push(s) \/ Config!Pull(s) \/ Config!Apply(s)
    BY <1>2, <2>2, BeginsStaySound
  <2>3. CASE \E s \in Shells : Config!PushLists(s) \/ Config!PushWrites(s)
    BY <1>2, <2>3, PushStaysSound
  <2>4. CASE \E s \in Shells : Config!PullBacksUp(s) \/ Config!PullLists(s) \/ Config!PullWrites(s)
    BY <1>2, <2>4, PullStaysSound
  <2>5. CASE \E s \in Shells : Config!ApplyLists(s) \/ Config!ApplyWrites(s)
    BY <1>2, <2>5, ApplyStaysSound
  <2>6. CASE \E s \in Shells : Config!Finished(s) \/ Config!Exits(s)
    BY <1>2, <2>6, EndsStaySound
  <2>7. CASE UNCHANGED Config!vars
    BY <1>2, <2>7 DEF Config!vars, ConfigInv, ConfigTyped
  <2> QED BY <1>2, <2>1, <2>2, <2>3, <2>4, <2>5, <2>6, <2>7 DEF Config!Next
<1> QED BY <1>1, <1>2, PTL DEF Config!Spec

\* The store and the file hold rules, and those of the store are valid.
THEOREM ConfigTypeCorrect ==
  ASSUME ConfigConstants
  PROVE  Config!Spec => []Config!TypeOK
<1>1. ASSUME ConfigInv PROVE Config!TypeOK
  BY <1>1 DEF ConfigInv, ConfigTyped, Config!TypeOK, RuleStores, Configs, CommandType, ConfigOps
<1> QED BY <1>1, ConfigInvHolds, PTL

\* What a pull replaces is in its backup, unless someone else wrote it after the backup, or
\* the file has the rule twice.
THEOREM PullsAreBackedUp ==
  ASSUME ConfigConstants
  PROVE  Config!Spec => Config!PullIsBackedUp
<1> DEFINE BackedUp ==
      \A s \in Shells, id \in RuleIds :
        Config!PullWrites(s) /\ id = Head(lynx[s].todo).id /\ store[id] # store'[id] =>
          \/ backups[s][id] = store[id]
          \/ id \in lynx[s].foreign
          \/ \E i, j \in DOMAIN lynx[s].config.rules :
               i # j /\ lynx[s].config.rules[i].id = id /\ lynx[s].config.rules[j].id = id
<1>1. ASSUME ConfigInv PROVE BackedUp
  <2> SUFFICES ASSUME NEW s \in Shells, Config!PullWrites(s),
                      NEW id \in RuleIds, id = Head(lynx[s].todo).id, id \notin lynx[s].foreign
               PROVE  \/ backups[s][id] = store[id]
                      \/ \E i, j \in DOMAIN lynx[s].config.rules :
                           i # j /\ lynx[s].config.rules[i].id = id
                           /\ lynx[s].config.rules[j].id = id
    OBVIOUS
  <2>1. PICK k, rules, todo, n :
          k = lynx[s] /\ rules = k.config.rules /\ todo = k.todo /\ n = Done(k)
    OBVIOUS
  <2>2. k.op = "pulling" /\ todo # << >> /\ CommandSound(k, backups[s], store, config)
    BY <1>1, <2>1 DEF Config!PullWrites, ConfigInv
  <2>3. /\ k.listed # Nothing /\ todo \in Seq(Config!ConfigRule) /\ Len(todo) <= Len(rules)
        /\ \A i \in 1 .. Len(todo) : todo[i] = rules[n + i]
        /\ Replaced(k, backups[s], store, id) /\ rules \in Seq(Config!ConfigRule)
    BY <2>1, <2>2 DEF CommandSound, Pulling, Configs
  <2>4. n = Len(rules) - Len(todo)
    BY <2>1, <2>3 DEF Done
  <2>5. n \in Nat /\ n + 1 \in DOMAIN rules /\ Head(todo) = rules[n + 1]
    BY <2>2, <2>3, <2>4, NextOfPull
  <2>6. CASE \A i \in 1 .. n : rules[i].id # id
    BY <2>1, <2>3, <2>6 DEF Replaced
  <2>7. CASE \E i \in 1 .. n : rules[i].id = id
    <3>1. PICK i \in 1 .. n : rules[i].id = id
      BY <2>7
    <3>2. PICK len \in Nat : len = Len(rules) /\ DOMAIN rules = 1 .. len
      BY <2>3
    <3>3. i \in DOMAIN rules /\ i # n + 1
      BY <2>5, <3>1, <3>2
    <3>4. rules[n + 1].id = id
      BY <2>1, <2>5
    <3> QED BY <2>1, <2>5, <3>1, <3>3, <3>4
  <2> QED BY <2>6, <2>7
<1>2. Config!Spec => [][BackedUp]_(Config!vars)
  BY <1>1, ConfigInvHolds, PTL DEF Config!Spec
<1> QED BY <1>2 DEF Config!PullIsBackedUp

\* A rule is switched on where the last of its id in the file is.
LEMMA SwitchedAsInConfig ==
  ASSUME NEW c \in Configs, NEW id, NEW r \in Config!RequestRule
  PROVE  Config!Switched(c, id, r) = [r EXCEPT !.enabled = Config!SwitchedOn(c, id)]
<1>1. c.rules \in Seq(Config!ConfigRule)
  BY DEF Configs
<1>2. CASE id \in Config!IdsIn(c)
  <2>1. PICK i \in DOMAIN c.rules : /\ Config!InConfig(c, id) = c.rules[i] /\ c.rules[i].id = id
                                    /\ \A j \in DOMAIN c.rules : c.rules[j].id = id => j <= i
    BY <1>2, LastCounts
  <2>2. PICK len \in Nat : DOMAIN c.rules = 1 .. len
    BY <1>1
  <2>3. Config!InConfig(c, id).enabled \in BOOLEAN
    BY <1>2, LastCounts DEF Config!ConfigRule
  <2>4. \A j \in DOMAIN c.rules : j > i => c.rules[j].id # id
    BY <2>1, <2>2
  <2>5. Config!InConfig(c, id).enabled => Config!SwitchedOn(c, id)
    BY <2>1, <2>4 DEF Config!SwitchedOn
  <2>6. ASSUME Config!SwitchedOn(c, id) PROVE Config!InConfig(c, id).enabled
    <3>1. PICK m \in DOMAIN c.rules : /\ c.rules[m].id = id /\ c.rules[m].enabled
                                      /\ \A j \in DOMAIN c.rules : j > m => c.rules[j].id # id
      BY <2>6 DEF Config!SwitchedOn
    <3>2. m = i
      BY <2>1, <2>2, <3>1
    <3> QED BY <2>1, <3>1, <3>2
  <2>7. Config!SwitchedOn(c, id) \in BOOLEAN
    BY DEF Config!SwitchedOn
  <2>8. Config!InConfig(c, id).enabled = Config!SwitchedOn(c, id)
    <3>1. \A x, y \in BOOLEAN : (x => y) /\ (y => x) => x = y
      OBVIOUS
    <3>2. PICK x \in BOOLEAN, y \in BOOLEAN :
            x = Config!InConfig(c, id).enabled /\ y = Config!SwitchedOn(c, id)
      BY <2>3, <2>7
    <3>3. x => y
      BY <2>5, <3>2
    <3>4. y => x
      BY <2>6, <3>2
    <3> QED BY <3>1, <3>2, <3>3, <3>4
  <2> QED BY <1>2, <2>8 DEF Config!Switched
<1>3. CASE id \notin Config!IdsIn(c)
  <2>1. Config!SwitchedOn(c, id) = FALSE
    BY <1>3 DEF Config!SwitchedOn, Config!IdsIn
  <2> QED BY <1>3, <2>1 DEF Config!Switched
<1> QED BY <1>2, <1>3

\* File and store agree after a command that nobody disturbed, each as it says.
THEOREM CommandsDoAsTheySay ==
  ASSUME ConfigConstants
  PROVE  Config!Spec => []Config!CommandsAgree
<1>1. ASSUME ConfigInv, NEW s \in Shells, lynx[s].op = "pushed", lynx[s].intact
      PROVE  /\ Config!IdsIn(lynx[s].config) \subseteq Config!IdsIn(config)
             /\ \A id \in Config!OfProject(store, lynx[s].project) :
                  Config!ToRequestRule(Config!InConfig(config, id), config.project) = store[id]
  <2>1. PICK c, rs, p : c = lynx[s].config /\ rs = lynx[s].listed /\ p = lynx[s].project
    OBVIOUS
  <2>2. /\ c \in Configs /\ rs \in RuleStores /\ p \in Projects
        /\ store = rs /\ config = Config!Merged(c, rs, p)
    BY <1>1, <2>1 DEF ConfigInv, CommandSound, Pushing
  <2> QED BY <2>1, <2>2, MergedHasAll
<1>2. ASSUME ConfigInv, NEW s \in Shells, lynx[s].op = "pulled", lynx[s].intact, NEW id \in RuleIds
      PROVE  store[id] = IF id \in Config!IdsIn(lynx[s].config)
                         THEN Config!ToRequestRule(Config!InConfig(lynx[s].config, id),
                                                   lynx[s].project)
                         ELSE backups[s][id]
  <2>1. PICK k, c, b : k = lynx[s] /\ c = k.config /\ b = backups[s]
    OBVIOUS
  <2>2. /\ c \in Configs /\ c.rules \in Seq(Config!ConfigRule)
        /\ k.todo = << >> /\ k.listed # Nothing
        /\ Replaced(k, b, store, id)
    BY <1>2, <2>1 DEF ConfigInv, CommandSound, Pulling, Configs
  <2>3. PICK n \in Nat : n = Len(c.rules) /\ DOMAIN c.rules = 1 .. n /\ Done(k) = n
    <3>1. PICK n \in Nat : n = Len(c.rules) /\ DOMAIN c.rules = 1 .. n
      BY <2>2
    <3>2. Done(k) = n
      BY <2>1, <2>2, <3>1 DEF Done
    <3> QED BY <3>1, <3>2
  <2>4. CASE id \in Config!IdsIn(c)
    <3>1. PICK i \in 1 .. n : /\ Config!InConfig(c, id) = c.rules[i] /\ c.rules[i].id = id
                              /\ \A j \in 1 .. n : c.rules[j].id = id => j <= i
      BY <2>2, <2>3, <2>4, LastCounts
    <3>2. LastOf(c.rules, n, i)
      BY <3>1 DEF LastOf
    <3>3. store[id] = Config!ToRequestRule(c.rules[i], k.project)
      BY <2>1, <2>2, <2>3, <3>1, <3>2 DEF Replaced
    <3> QED BY <2>1, <2>4, <3>1, <3>3
  <2>5. CASE id \notin Config!IdsIn(c)
    <3>1. \A i \in 1 .. n : c.rules[i].id # id
      BY <2>3, <2>5 DEF Config!IdsIn
    <3>2. store[id] = b[id]
      BY <2>1, <2>2, <2>3, <3>1 DEF Replaced
    <3> QED BY <2>1, <2>5, <3>2
  <2> QED BY <2>4, <2>5
<1>3. ASSUME ConfigConstants, ConfigInv, NEW s \in Shells, lynx[s].op = "applied", lynx[s].intact,
             NEW id \in RuleIds, NEW was, was = lynx[s].listed[id]
      PROVE  store[id] = IF was # Nothing /\ was.project = lynx[s].project
                         THEN [was EXCEPT !.enabled = Config!SwitchedOn(lynx[s].config, id)]
                         ELSE was
  <2>1. PICK k, c, rs : k = lynx[s] /\ c = k.config /\ rs = k.listed
    OBVIOUS
  <2>2. /\ c \in Configs /\ rs \in RuleStores /\ k.project = c.project /\ k.todo = << >>
        /\ store[id] = IF id \in Config!ToSwitch(c, rs) \ Left(k.todo)
                       THEN Config!Switched(c, id, rs[id]) ELSE rs[id]
    BY <1>3, <2>1 DEF ConfigInv, CommandSound, Applying
  <2>3. Left(k.todo) = {}
    BY <2>2 DEF Left
  <2>4. CASE was # Nothing /\ was.project = c.project
    <3>1. id \in Config!OfProject(rs, c.project)
      BY <1>3, <2>1, <2>4 DEF Config!OfProject, Config!Stored
    <3>2. store[id] = Config!Switched(c, id, rs[id])
      BY <2>2, <2>3, <3>1 DEF Config!ToSwitch
    <3>3. rs[id] \in Config!RequestRule
      BY <1>3, <2>2, <3>1, StoredRules
    <3>4. Config!Switched(c, id, rs[id]) = [rs[id] EXCEPT !.enabled = Config!SwitchedOn(c, id)]
      BY <2>2, <3>3, SwitchedAsInConfig
    <3> QED BY <1>3, <2>1, <2>2, <2>4, <3>2, <3>4
  <2>5. CASE ~(was # Nothing /\ was.project = c.project)
    <3>1. id \notin Config!ToSwitch(c, rs)
      BY <1>3, <2>1, <2>5 DEF Config!ToSwitch, Config!OfProject, Config!Stored
    <3> QED BY <1>3, <2>1, <2>2, <2>5, <3>1
  <2> QED BY <2>4, <2>5
<1>4. ASSUME ConfigInv PROVE Config!CommandsAgree
  <2>1. Config!PushedIsStored
    BY <1>1, <1>4 DEF Config!PushedIsStored
  <2>2. Config!PulledIsConfig
    BY <1>2, <1>4 DEF Config!PulledIsConfig
  <2>3. Config!AppliedIsSwitched
    BY <1>3, <1>4 DEF Config!AppliedIsSwitched
  <2> QED BY <2>1, <2>2, <2>3 DEF Config!CommandsAgree
<1> QED BY <1>4, ConfigInvHolds, PTL

=============================================================================
