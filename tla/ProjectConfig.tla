---------------------------- MODULE ProjectConfig ----------------------------
(***************************************************************************)
(* `lynx rules push | pull | apply` (project_config/service.rs and         *)
(* lynx-cli/rules_cmd.rs): the rules of a project in a file of the         *)
(* user's repository, .lynx.json, and in the rule store of the proxy.      *)
(*                                                                         *)
(* push writes the rules of the project into the file, over those of the   *)
(* same id. pull validates the rules of the file, backs up the store and   *)
(* writes the rules into it, one by one. apply copies only the switches.   *)
(* The proxy runs meanwhile: the UI saves, toggles and deletes rules.      *)
(*                                                                         *)
(* A rule is its project, what it says and its switch. A rule that the     *)
(* validator refuses says Invalid. How rule files are written and cached   *)
(* is in RuleStore.                                                        *)
(***************************************************************************)
EXTENDS Integers, Sequences, FiniteSets

CONSTANTS
  RuleIds,      \* rule ids
  Projects,     \* project ids
  Texts,        \* what a valid rule may say
  Invalid,      \* what an invalid one says
  Shells,       \* command lines
  Nothing,      \* Rust's None
  Edited,       \* configs the user may write by hand
  Stores,       \* stores the proxy may have when the commands begin
  MaxChanges    \* bound: operations of the UI, edits of the file and commands

VARIABLES
  saved,    \* the rule files of the store
  config,   \* .lynx.json
  backups,  \* the snapshots in the backup directory, by the command that made each
  lynx,     \* the command of each shell
  changes   \* operations, edits and commands so far

vars == <<saved, config, backups, lynx, changes>>

ConfigRule == [id : RuleIds, text : Texts \cup {Invalid}, enabled : BOOLEAN]
RequestRule == [project : Projects, text : Texts, enabled : BOOLEAN]

NewEmpty(p) == [project |-> p, rules |-> << >>]
Stored(rs) == {id \in RuleIds : rs[id] # Nothing}
OfProject(rs, p) == {id \in Stored(rs) : rs[id].project = p}
IdsIn(c) == {c.rules[i].id : i \in DOMAIN c.rules}

\* Collected into a map: of two rules with the same id the later one counts.
InConfig(c, id) == c.rules[CHOOSE i \in DOMAIN c.rules :
  c.rules[i].id = id /\ \A j \in DOMAIN c.rules : c.rules[j].id = id => j <= i]

FromRequestRule(id, r) == [id |-> id, text |-> r.text, enabled |-> r.enabled]
ToRequestRule(r, p) == [project |-> p, text |-> r.text, enabled |-> r.enabled]

\* `intact`: neither the file nor the store has been changed by others since it began;
\* `foreign`: the rules that others have written since its backup.
Command == [op |-> "none", project |-> Nothing, config |-> Nothing, listed |-> Nothing,
            todo |-> << >>, intact |-> FALSE, foreign |-> {}]

Init ==
  /\ saved \in Stores
  /\ config = Nothing
  /\ backups = [s \in Shells |-> Nothing]
  /\ lynx = [s \in Shells |-> Command]
  /\ changes = 0

Count == changes < MaxChanges /\ changes' = changes + 1

\* What the others see of a change to the rules ids, or to the file.
Noticed(others, ids) ==
  [s \in Shells |-> IF s \in others
                    THEN [lynx[s] EXCEPT !.intact = FALSE, !.foreign = @ \cup ids]
                    ELSE lynx[s]]

Goes(s, next, ids) == lynx' = [Noticed(Shells \ {s}, ids) EXCEPT ![s] = next]

-----------------------------------------------------------------------------
(***************************************************************************)
(* The others: RULES_SAVE_SET, RULES_ENABLED_SET, RULES_DELETE; an editor. *)
(***************************************************************************)
UiWrites ==
  /\ Count
  /\ \E id \in RuleIds :
       /\ \/ \E t \in Texts, p \in Projects, e \in BOOLEAN :
               saved' = [saved EXCEPT ![id] = [project |-> p, text |-> t, enabled |-> e]]
          \/ saved' = [saved EXCEPT ![id] = Nothing]
       /\ saved' # saved
       /\ lynx' = Noticed(Shells, {id})
  /\ UNCHANGED <<config, backups>>

UserEdits ==
  /\ Count
  /\ config' \in Edited
  /\ lynx' = Noticed(Shells, {})
  /\ UNCHANGED <<saved, backups>>

-----------------------------------------------------------------------------
Begin(s, op, p, c) ==
  /\ lynx[s].op = "none" /\ Count
  /\ lynx' = [lynx EXCEPT ![s] = [Command EXCEPT !.op = op, !.project = p, !.config = c, !.intact = TRUE]]

LoadOrCreate(p) == IF config = Nothing THEN NewEmpty(p) ELSE [config EXCEPT !.project = p]

\* The project is the one named, or the active one.
Push(s) ==
  \E p \in Projects : Begin(s, "push", p, LoadOrCreate(p)) /\ UNCHANGED <<saved, config, backups>>

PushLists(s) ==
  /\ lynx[s].op = "push" /\ lynx[s].listed = Nothing
  /\ Goes(s, [lynx[s] EXCEPT !.listed = saved], {})
  /\ UNCHANGED <<saved, config, backups, changes>>

\* sort_by_key(id)
InOrder(ids) ==
  CHOOSE order \in [1 .. Cardinality(ids) -> ids] :
    \A i, j \in 1 .. Cardinality(ids) : i < j => order[i] < order[j]

\* One entry for each id, the store's if the project has it.
Merged(c, rs, p) ==
  LET ids == IdsIn(c) \cup OfProject(rs, p)
      Entry(id) == IF id \in OfProject(rs, p) THEN FromRequestRule(id, rs[id]) ELSE InConfig(c, id)
  IN  [project |-> p,
       rules |-> [i \in 1 .. Cardinality(ids) |-> Entry(InOrder(ids)[i])]]

PushWrites(s) ==
  /\ lynx[s].op = "push" /\ lynx[s].listed # Nothing
  /\ config' = Merged(lynx[s].config, lynx[s].listed, lynx[s].project)
  /\ Goes(s, [lynx[s] EXCEPT !.op = "pushed"], {})
  /\ UNCHANGED <<saved, backups, changes>>

Pull(s) ==
  \E p \in Projects :
    /\ Begin(s, "pull", p, LoadOrCreate(p))
    /\ config' = IF config = Nothing THEN NewEmpty(p) ELSE config
    /\ UNCHANGED <<saved, backups>>

PullBacksUp_ofProject(s) ==
  /\ lynx[s].op = "pull"
  /\ \A i \in DOMAIN lynx[s].config.rules : lynx[s].config.rules[i].text # Invalid
  /\ backups' = [backups EXCEPT ![s] =
       [id \in RuleIds |-> IF id \in OfProject(saved, lynx[s].project) THEN saved[id] ELSE Nothing]]
  /\ Goes(s, [lynx[s] EXCEPT !.op = "pulling", !.foreign = {}], {})
  /\ UNCHANGED <<saved, config, changes>>

\* Every rule is valid before one is written.
PullBacksUp(s) ==
  /\ lynx[s].op = "pull"
  /\ \A i \in DOMAIN lynx[s].config.rules : lynx[s].config.rules[i].text # Invalid
  /\ backups' = [backups EXCEPT ![s] = saved]
  /\ Goes(s, [lynx[s] EXCEPT !.op = "pulling", !.foreign = {}], {})
  /\ UNCHANGED <<saved, config, changes>>

PullLists(s) ==
  /\ lynx[s].op = "pulling" /\ lynx[s].listed = Nothing
  /\ Goes(s, [lynx[s] EXCEPT !.listed = Stored(saved), !.todo = lynx[s].config.rules], {})
  /\ UNCHANGED <<saved, config, backups, changes>>

PullWrites_newOnly(s) ==
  /\ lynx[s].op = "pulling" /\ lynx[s].todo # << >>
  /\ LET r == Head(lynx[s].todo) IN
       /\ saved' = IF saved[r.id] = Nothing
                   THEN [saved EXCEPT ![r.id] = ToRequestRule(r, lynx[s].config.project)] ELSE saved
       /\ Goes(s, [lynx[s] EXCEPT !.todo = Tail(@)], {r.id})
  /\ UNCHANGED <<config, backups, changes>>

\* A rule that was there is replaced, whatever its project; one that was not is created.
PullWrites(s) ==
  /\ lynx[s].op = "pulling" /\ lynx[s].todo # << >>
  /\ LET r == Head(lynx[s].todo) IN
       /\ r.id \in lynx[s].listed <=> saved[r.id] # Nothing
       /\ saved' = [saved EXCEPT ![r.id] = ToRequestRule(r, lynx[s].config.project)]
       /\ Goes(s, [lynx[s] EXCEPT !.todo = Tail(@)], {r.id})
  /\ UNCHANGED <<config, backups, changes>>

Apply(s) ==
  /\ config # Nothing
  /\ Begin(s, "apply", config.project, config)
  /\ UNCHANGED <<saved, config, backups>>

\* What apply writes: the rule as it was listed, with the switch of the file, off if the
\* file does not have it.
Switched(c, id, r) ==
  [r EXCEPT !.enabled = IF id \in IdsIn(c) THEN InConfig(c, id).enabled ELSE FALSE]

ToSwitch(c, rs) == {id \in OfProject(rs, c.project) : Switched(c, id, rs[id]) # rs[id]}

ApplyLists(s) ==
  /\ lynx[s].op = "apply" /\ lynx[s].listed = Nothing
  /\ Goes(s, [lynx[s] EXCEPT !.listed = saved, !.todo = InOrder(ToSwitch(lynx[s].config, saved))], {})
  /\ UNCHANGED <<saved, config, backups, changes>>

ApplyWrites(s) ==
  /\ lynx[s].op = "apply" /\ lynx[s].todo # << >>
  /\ LET id == Head(lynx[s].todo) IN
       /\ saved[id] # Nothing
       /\ saved' = [saved EXCEPT ![id] = Switched(lynx[s].config, id, lynx[s].listed[id])]
       /\ Goes(s, [lynx[s] EXCEPT !.todo = Tail(@)], {id})
  /\ UNCHANGED <<config, backups, changes>>

Finished(s) ==
  /\ lynx[s].op \in {"pulling", "apply"} /\ lynx[s].listed # Nothing /\ lynx[s].todo = << >>
  /\ Goes(s, [lynx[s] EXCEPT !.op = IF @ = "pulling" THEN "pulled" ELSE "applied"], {})
  /\ UNCHANGED <<saved, config, backups, changes>>

\* Reported, failed or interrupted: what is written stays.
Exits(s) ==
  /\ lynx[s].op # "none"
  /\ Goes(s, Command, {})
  /\ UNCHANGED <<saved, config, backups, changes>>

Next ==
  \/ UiWrites \/ UserEdits
  \/ \E s \in Shells :
       \/ Push(s) \/ PushLists(s) \/ PushWrites(s)
       \/ Pull(s) \/ PullBacksUp(s) \/ PullLists(s) \/ PullWrites(s)
       \/ Apply(s) \/ ApplyLists(s) \/ ApplyWrites(s)
       \/ Finished(s) \/ Exits(s)

Spec == Init /\ [][Next]_vars

-----------------------------------------------------------------------------
\* The rules of the store are valid whatever the file says: one that is not would fail
\* the lookup of every request.
TypeOK ==
  /\ saved \in [RuleIds -> RequestRule \cup {Nothing}]
  /\ config = Nothing \/ (config.project \in Projects /\ config.rules \in Seq(ConfigRule))
  /\ \A s \in Shells :
       lynx[s].op \in {"none", "push", "pushed", "pull", "pulling", "pulled", "apply", "applied"}

\* What a pull replaces is in its backup, unless someone else wrote it after the backup.
PullIsBackedUp ==
  [][\A s \in Shells, id \in RuleIds :
       PullWrites(s) /\ id = Head(lynx[s].todo).id /\ saved[id] # saved'[id] =>
         \/ backups[s][id] = saved[id]
         \/ id \in lynx[s].foreign
         \/ \E i, j \in DOMAIN lynx[s].config.rules :
              i # j /\ lynx[s].config.rules[i].id = id /\ lynx[s].config.rules[j].id = id]_vars

\* With nobody else at work a push leaves a file that has the rules of the project as
\* they are in the store, and all it had before.
PushedIsStored ==
  \A s \in Shells : lynx[s].op = "pushed" /\ lynx[s].intact =>
    /\ IdsIn(lynx[s].config) \subseteq IdsIn(config)
    /\ \A id \in OfProject(saved, lynx[s].project) :
         ToRequestRule(InConfig(config, id), config.project) = saved[id]

\* ... a pull leaves the store with the rules of the file,
PulledIsConfig ==
  \A s \in Shells : lynx[s].op = "pulled" /\ lynx[s].intact =>
    \A id \in RuleIds :
      saved[id] = IF id \in IdsIn(lynx[s].config)
                  THEN ToRequestRule(InConfig(lynx[s].config, id), lynx[s].project)
                  ELSE backups[s][id]

SwitchedOn(c, id) ==
  \E i \in DOMAIN c.rules :
    /\ c.rules[i].id = id /\ c.rules[i].enabled
    /\ \A j \in DOMAIN c.rules : j > i => c.rules[j].id # id

\* ... and an apply leaves each rule of the project switched as the file says, and the
\* rest of it, and the other projects, as they were.
AppliedIsSwitched ==
  \A s \in Shells : lynx[s].op = "applied" /\ lynx[s].intact =>
    \A id \in RuleIds :
      LET was == lynx[s].listed[id] IN
        saved[id] = IF was # Nothing /\ was.project = lynx[s].project
                    THEN [was EXCEPT !.enabled = SwitchedOn(lynx[s].config, id)]
                    ELSE was

\* File and store agree after a command, each as it says.
CommandsAgree == PushedIsStored /\ PulledIsConfig /\ AppliedIsSwitched

=============================================================================
