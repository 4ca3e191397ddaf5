--------------------------- MODULE RuleStoreProofs ---------------------------
(***************************************************************************)
(* Theorems about the rule files and the proxy's cache of them, for any    *)
(* numbers of requests, writers, rules and writes.                         *)
(*                                                                         *)
(* The order: type correctness, for any operations of the writers; then    *)
(* what operations leave the cache sound (Steady), the invariant that      *)
(* makes it so, the effect of a change of a file on it, and each step of a *)
(* request and of a writer.                                                *)
(***************************************************************************)
EXTENDS RuleStore, FiniteSetTheorems, TLAPS

Phases == {"idle", "check", "print", "load", "store", "done"}

\* The calls of get_rules_cache_entry, and what the writers do.
Call == [phase : Phases, due : SUBSET Ids, seen : SUBSET Ids, fingerprint : RulesDirFingerprint,
         rules : [Ids -> Content], past : [Ids -> SUBSET Content], calm : BOOLEAN]
Task == [pc : {"idle", "write", "rename", "remove", "invalidate"}, op : WriterOps,
         id : Ids \cup {0}, num : 0 .. MaxWrites]

\* What a file holds is a rule.
LEMMA FileTypes ==
  ASSUME TypeOK, NEW i \in Ids
  PROVE  /\ OnDisk(i) \in Content
         /\ Exists(i) => files[i] \in File /\ OnDisk(i) = files[i].content
BY RuleStoreAssumption DEF TypeOK, OnDisk, Exists, File, Content

\* A set of ids with 0 has a largest: Iterator::max.
LEMMA MaxExists ==
  ASSUME NEW S \in SUBSET (0 .. MaxId), S # {}
  PROVE  Max(S) \in S /\ \A x \in S : Max(S) >= x
<1> DEFINE below == {MaxId - x : x \in S}
<1>1. below \subseteq Nat /\ below # {}
  <2>1. \A x \in S : MaxId - x \in Nat
    BY RuleStoreAssumption
  <2> QED BY <2>1
<1>2. PICK least \in below : \A t \in below : <<t, least>> \notin OpToRel(<, Nat)
  <2> HIDE DEF below
  <2> QED BY <1>1, WFMin, NatLessThanWellFounded
<1>3. \A t \in below : ~(t < least)
  BY <1>1, <1>2 DEF OpToRel
<1>4. PICK x \in S : least = MaxId - x
  OBVIOUS
<1>5. \A y \in S : x >= y
  <2> TAKE y \in S
  <2>1. ~(MaxId - y < MaxId - x)
    BY <1>3, <1>4
  <2> QED BY <2>1, RuleStoreAssumption
<1> QED BY <1>5 DEF Max

\* next_id_in_dir gives a positive number no rule has.
LEMMA NextIdIsNew == TypeOK /\ NextId <= MaxId => NextId \in Ids /\ ~Exists(NextId)
<1> SUFFICES ASSUME TypeOK, NextId <= MaxId PROVE NextId \in Ids /\ ~Exists(NextId)
  OBVIOUS
<1> DEFINE S == {0} \cup Present
<1>1. S \in SUBSET (0 .. MaxId) /\ S # {}
  BY RuleStoreAssumption DEF Present, Ids
<1>2. Max(S) \in S /\ \A x \in S : Max(S) >= x
  BY <1>1, MaxExists
<1>3. NextId = Max(S) + 1 /\ Max(S) \in 0 .. MaxId
  BY <1>1, <1>2 DEF NextId
<1>4. NextId \in Ids
  BY <1>3, RuleStoreAssumption DEF Ids
<1>5. NextId \notin S
  <2> SUFFICES ASSUME NextId \in S PROVE FALSE
    OBVIOUS
  <2>1. Max(S) >= NextId
    BY <1>2
  <2> QED BY <1>3, <2>1
<1> QED BY <1>4, <1>5 DEF Present

-----------------------------------------------------------------------------
(***************************************************************************)
(* Type correctness.                                                       *)
(***************************************************************************)
ReadTypes == reader \in [Readers -> Call]
WriteTypes ==
  /\ writer \in [Writers -> Task]
  /\ \A w \in Writers : writer[w].pc # "idle" => writer[w].id \in Ids

\* TypeOK is the types of readers, of writers and of what they share.
LEMMA TypeParts ==
  TypeOK <=> /\ files \in [Ids -> File \cup {None}] /\ tmp \in [Ids -> File \cup {None}]
             /\ clock \in Nat /\ begun \in 0 .. MaxWrites
             /\ cache \in RulesCacheState \cup {None}
             /\ ReadTypes /\ WriteTypes
BY DEF TypeOK, ReadTypes, WriteTypes, Call, Task, Phases

\* A reader that asks nothing is a call.
LEMMA IdleTyped == Idle \in Call /\ Idle.phase = "idle"
BY RuleStoreAssumption DEF Idle, Call, Phases, NoRules, EmptyPrint, RulesDirFingerprint, Content

\* A writer that rests is a task.
LEMMA RestingTyped == Resting \in Task /\ Resting.pc = "idle"
BY RuleStoreAssumption DEF Resting, Task, WriterOps

\* The rules begin well typed.
LEMMA InitTyped == Init => TypeOK
<1> SUFFICES ASSUME Init PROVE TypeOK
  OBVIOUS
<1>1. ReadTypes
  BY IdleTyped DEF Init, ReadTypes
<1>2. WriteTypes
  BY RestingTyped DEF Init, WriteTypes
<1>3. files \in [Ids -> File \cup {None}] /\ tmp \in [Ids -> File \cup {None}]
  BY RuleStoreAssumption DEF Init, File, Content
<1> QED BY <1>1, <1>2, <1>3, RuleStoreAssumption, TypeParts DEF Init

\* The cache is there while a fingerprint is compared with it: the lock is held.
Locked == \A r \in Readers : reader[r].phase = "check" => cache # None
Typed == TypeOK /\ Locked

\* A step of a request leaves a call of the right shape.
LEMMA ReadTyped ==
  ASSUME Typed, NEW r \in Readers, Read(r)
  PROVE  Typed'
<1> DEFINE c == reader[r]
<1>1. c \in Call /\ ReadTypes /\ WriteTypes /\ cache \in RulesCacheState \cup {None}
  BY TypeParts DEF ReadTypes, Typed
<1>2. ASSUME NEW d \in Call, NEW phase \in Phases
      PROVE  Scan(d, phase) \in Call /\ Scan(d, phase).phase = phase
  BY <1>2 DEF Scan, Call, Present
<1>3. ASSUME NEW d \in Call, reader' = [reader EXCEPT ![r] = d],
             UNCHANGED <<files, tmp, clock, begun, writer>>, cache' \in RulesCacheState \cup {None}
      PROVE  TypeOK'
  <2>1. ReadTypes'
    BY <1>1, <1>3 DEF ReadTypes
  <2>2. WriteTypes'
    BY <1>1, <1>3 DEF WriteTypes
  <2> QED BY <1>3, <2>1, <2>2 DEF Typed, TypeOK, ReadTypes, WriteTypes, Call, Task, Phases
<1>4. ASSUME NEW d \in Call, reader' = [reader EXCEPT ![r] = d], d.phase = "check" => cache # None,
             UNCHANGED <<files, tmp, clock, begun, writer, cache>>
      PROVE  Typed'
  <2>1. TypeOK'
    BY <1>1, <1>3, <1>4
  <2>2. Locked'
    BY <1>1, <1>4 DEF Locked, Typed, ReadTypes
  <2> QED BY <2>1, <2>2 DEF Typed
<1>5. CASE ReadBegin(r)
  <2> DEFINE phase == IF cache = None THEN "print" ELSE "check"
             past == [id \in Ids |-> {OnDisk(id)}]
             calm == \A w \in Writers : writer[w].pc = "idle"
             d == [Scan(Idle, phase) EXCEPT !.past = past, !.calm = calm]
  <2>1. past \in [Ids -> SUBSET Content]
    BY FileTypes DEF Typed
  <2>2. \A e \in Call, p \in [Ids -> SUBSET Content], b \in BOOLEAN :
          LET f == [e EXCEPT !.past = p, !.calm = b] IN f \in Call /\ f.phase = e.phase
    BY DEF Call
  <2>3. Scan(Idle, phase) \in Call /\ Scan(Idle, phase).phase = phase
    BY <1>2, IdleTyped DEF Phases
  <2>4. d \in Call /\ d.phase = phase
    <3>1. calm \in BOOLEAN
      OBVIOUS
    <3> HIDE DEF past, calm, phase
    <3>2. LET f == [Scan(Idle, phase) EXCEPT !.past = past, !.calm = calm]
          IN  f \in Call /\ f.phase = Scan(Idle, phase).phase
      BY <2>1, <2>2, <2>3, <3>1
    <3> QED BY <2>3, <3>2
  <2>5. reader' = [reader EXCEPT ![r] = d] /\ UNCHANGED <<files, tmp, clock, begun, writer, cache>>
    BY <1>5 DEF ReadBegin
  <2> HIDE DEF d
  <2> QED BY <1>4, <2>4, <2>5
<1>6. CASE CheckEnd(r)
  <2>1. cache # None
    BY <1>6 DEF CheckEnd, Scanning, Typed, Locked
  <2>2. CASE Matches(c.fingerprint, cache)
    <3> DEFINE d == [c EXCEPT !.phase = "done", !.rules = cache.rules]
    <3>1. d \in Call /\ d.phase = "done"
      BY <1>1, <2>1 DEF Call, RulesCacheState, Phases
    <3>2. reader' = [reader EXCEPT ![r] = d] /\ UNCHANGED <<files, tmp, clock, begun, writer, cache>>
      BY <1>1, <1>6, <2>2 DEF CheckEnd, ReadTypes
    <3> HIDE DEF d
    <3> QED BY <1>4, <3>1, <3>2
  <2>3. CASE ~Matches(c.fingerprint, cache)
    <3> DEFINE d == Scan([c EXCEPT !.fingerprint = EmptyPrint], "print")
    <3>1. [c EXCEPT !.fingerprint = EmptyPrint] \in Call
      BY <1>1 DEF Call, EmptyPrint, RulesDirFingerprint
    <3>2. d \in Call /\ d.phase = "print"
      BY <1>2, <3>1 DEF Phases
    <3>3. reader' = [reader EXCEPT ![r] = d] /\ UNCHANGED <<files, tmp, clock, begun, writer, cache>>
      BY <1>1, <1>6, <2>3 DEF CheckEnd, ReadTypes
    <3> HIDE DEF d
    <3> QED BY <1>4, <3>2, <3>3
  <2> QED BY <2>2, <2>3
<1>7. CASE PrintEnd(r)
  <2> DEFINE d == Scan(c, "load")
  <2>1. d \in Call /\ d.phase = "load"
    BY <1>1, <1>2 DEF Phases
  <2>2. reader' = [reader EXCEPT ![r] = d] /\ UNCHANGED <<files, tmp, clock, begun, writer, cache>>
    BY <1>1, <1>7 DEF PrintEnd, ReadTypes
  <2> HIDE DEF d
  <2> QED BY <1>4, <2>1, <2>2
<1>8. CASE LoadEnd(r)
  <2> DEFINE d == [c EXCEPT !.phase = "store"]
  <2>1. d \in Call /\ d.phase = "store"
    BY <1>1 DEF Call, Phases
  <2>2. reader' = [reader EXCEPT ![r] = d] /\ UNCHANGED <<files, tmp, clock, begun, writer, cache>>
    BY <1>1, <1>8 DEF LoadEnd, ReadTypes
  <2> HIDE DEF d
  <2> QED BY <1>4, <2>1, <2>2
<1>9. CASE ReadFails(r) \/ ReadReturn(r)
  BY <1>4, <1>9, IdleTyped DEF ReadFails, ReadReturn
<1>10. CASE Store(r)
  <2> DEFINE d == [c EXCEPT !.phase = "done"]
  <2>1. d \in Call /\ d.phase = "done"
    BY <1>1 DEF Call, Phases
  <2>2. reader' = [reader EXCEPT ![r] = d] /\ UNCHANGED <<files, tmp, clock, begun, writer>> /\ Unlocked
    BY <1>1, <1>10 DEF Store, ReadTypes
  <2>3. cache' \in RulesCacheState
    BY <1>1, <1>10 DEF Store, RulesCacheState, Call
  <2> HIDE DEF d
  <2>4. TypeOK'
    BY <1>3, <2>1, <2>2, <2>3
  <2>5. Locked'
    BY <1>1, <2>1, <2>2 DEF Locked, Unlocked, ReadTypes
  <2> QED BY <2>4, <2>5 DEF Typed
<1>11. ASSUME NEW id \in Ids, PrintFile(r, id) PROVE Typed'
  <2> DEFINE d == [c EXCEPT !.seen = @ \cup {id}, !.fingerprint = Counted(@, id)]
  <2>1. files[id] \in File
    BY <1>11, FileTypes DEF PrintFile, Present, Typed
  <2>2. Counted(c.fingerprint, id) \in RulesDirFingerprint
    BY <1>1, <2>1 DEF Call, Counted, RulesDirFingerprint, File
  <2>3. d \in Call /\ d.phase = c.phase
    BY <1>1, <2>2 DEF Call
  <2>4. reader' = [reader EXCEPT ![r] = d] /\ UNCHANGED <<files, tmp, clock, begun, writer, cache>>
    BY <1>1, <1>11 DEF PrintFile, ReadTypes
  <2> HIDE DEF d
  <2> QED BY <1>4, <2>3, <2>4 DEF Typed, Locked
<1>12. ASSUME NEW id \in Ids, LoadFile(r, id) PROVE Typed'
  <2> DEFINE d == [c EXCEPT !.seen = @ \cup {id}, !.rules[id] = OnDisk(id)]
  <2>1. OnDisk(id) \in Content
    BY FileTypes DEF Typed
  <2>2. d \in Call /\ d.phase = c.phase
    BY <1>1, <2>1 DEF Call
  <2>3. reader' = [reader EXCEPT ![r] = d] /\ UNCHANGED <<files, tmp, clock, begun, writer, cache>>
    BY <1>1, <1>12 DEF LoadFile, ReadTypes
  <2> HIDE DEF d
  <2> QED BY <1>4, <2>2, <2>3 DEF Typed, Locked
<1> QED BY <1>5, <1>6, <1>7, <1>8, <1>9, <1>10, <1>11, <1>12 DEF Read

\* So does a step of a writer.
LEMMA WriteTyped ==
  ASSUME Typed, NEW w \in Writers, Write(w)
  PROVE  Typed'
<1> DEFINE t == writer[w]
<1>1. /\ t \in Task /\ (t.pc # "idle" => t.id \in Ids)
      /\ ReadTypes /\ WriteTypes /\ cache \in RulesCacheState \cup {None}
      /\ files \in [Ids -> File \cup {None}] /\ tmp \in [Ids -> File \cup {None}]
      /\ clock \in Nat /\ begun \in 0 .. MaxWrites
  BY TypeParts DEF WriteTypes, Typed
<1>2. ASSUME NEW d \in Task, writer' = [writer EXCEPT ![w] = d], d.pc # "idle" => d.id \in Ids
      PROVE  WriteTypes'
  BY <1>1, <1>2 DEF WriteTypes
<1>3. ASSUME WriteTypes', ReadTypes', files' \in [Ids -> File \cup {None}], tmp' \in [Ids -> File \cup {None}],
             clock' \in Nat, begun' \in 0 .. MaxWrites, cache' \in RulesCacheState \cup {None}
      PROVE  TypeOK'
  BY <1>3 DEF TypeOK, ReadTypes, WriteTypes, Call, Task, Phases
<1>4. ReadTypes /\ UNCHANGED reader => ReadTypes'
  BY DEF ReadTypes
<1>5. UNCHANGED <<reader, cache>> => Locked'
  BY DEF Typed, Locked
<1>6. ASSUME NEW id \in Ids, NEW content \in Content, reader' = Witnessed(id, content)
      PROVE  ReadTypes' /\ \A r \in Readers : reader'[r].phase = reader[r].phase
  <2>1. ASSUME NEW r \in Readers
        PROVE  [reader[r] EXCEPT !.past[id] = @ \cup {content}] \in Call
               /\ [reader[r] EXCEPT !.past[id] = @ \cup {content}].phase = reader[r].phase
    <3> DEFINE c == reader[r]
               past == [c.past EXCEPT ![id] = @ \cup {content}]
    <3>1. c \in Call
      BY <1>1, <2>1 DEF ReadTypes
    <3>2. past \in [Ids -> SUBSET Content]
      BY <1>6, <3>1 DEF Call
    <3>3. [c EXCEPT !.past[id] = @ \cup {content}] = [c EXCEPT !.past = past]
      BY <3>1 DEF Call
    <3>4. [c EXCEPT !.past = past] \in Call /\ [c EXCEPT !.past = past].phase = c.phase
      <4> HIDE DEF past
      <4> QED BY <3>1, <3>2 DEF Call
    <3> QED BY <3>3, <3>4
  <2> QED BY <1>1, <1>6, <2>1 DEF Witnessed, ReadTypes
<1>7. ASSUME NEW op \in WriterOps, NEW id \in Ids,
             NEW pc \in {"write", "remove", "invalidate"}, Begin(w, op, id, pc)
      PROVE  Typed'
  <2>1. [pc |-> pc, op |-> op, id |-> id, num |-> begun'] \in Task /\ begun' \in 0 .. MaxWrites
    BY <1>1, <1>7, RuleStoreAssumption DEF Begin, Task
  <2>2. WriteTypes'
    BY <1>2, <1>7, <2>1 DEF Begin
  <2> QED BY <1>1, <1>3, <1>4, <1>5, <1>7, <2>1, <2>2 DEF Begin, Typed
<1>8. CASE CreateBegin(w)
  BY <1>7, <1>8, NextIdIsNew DEF CreateBegin, Typed, WriterOps
<1>9. ASSUME NEW id \in Ids, CreateWithIdBegin(w, id) \/ UpdateBegin(w, id) \/ DeleteBegin(w, id)
      PROVE  Typed'
  BY <1>7, <1>9 DEF CreateWithIdBegin, UpdateBegin, DeleteBegin, WriterOps
<1>10. writer' = Finished(w) => WriteTypes'
  BY <1>2, RestingTyped DEF Finished
<1>11. t.pc # "idle" /\ writer' = Written(w) => WriteTypes'
  <2> SUFFICES ASSUME t.pc # "idle", writer' = Written(w) PROVE WriteTypes'
    OBVIOUS
  <2> DEFINE d == [t EXCEPT !.pc = "invalidate"]
  <2>1. d \in Task /\ d.id \in Ids
    BY <1>1 DEF Task
  <2>2. CASE w \notin External
    <3>1. writer' = [writer EXCEPT ![w] = d]
      BY <1>1, <2>2 DEF Written, WriteTypes
    <3> HIDE DEF d
    <3> QED BY <1>2, <2>1, <3>1
  <2> QED BY <1>10, <2>2 DEF Written
<1>12. CASE WriteTmp(w)
  <2> DEFINE d == [t EXCEPT !.pc = "rename"]
  <2>1. d \in Task /\ d.id \in Ids
    BY <1>1, <1>12 DEF Task, WriteTmp
  <2>2. writer' = [writer EXCEPT ![w] = d]
    BY <1>1, <1>12 DEF WriteTmp, WriteTypes
  <2>3. WriteTypes'
    <3> HIDE DEF d
    <3> QED BY <1>2, <2>1, <2>2
  <2>4. clock' \in Nat
    BY <1>1, <1>12 DEF WriteTmp
  <2>5. [content |-> t.num, mtime |-> clock'] \in File
    BY <1>1, <2>4, RuleStoreAssumption DEF Task, File, Content
  <2>6. tmp' \in [Ids -> File \cup {None}]
    BY <1>1, <1>12, <2>5 DEF WriteTmp
  <2> QED BY <1>1, <1>3, <1>4, <1>5, <1>12, <2>3, <2>4, <2>6 DEF WriteTmp, Typed
<1>13. CASE Rename(w)
  <2>1. t.id \in Ids /\ tmp[t.id] \in File /\ tmp[t.id].content \in Content
    BY <1>1, <1>13 DEF Rename, File
  <2>2. WriteTypes'
    BY <1>11, <1>13 DEF Rename
  <2>3. ReadTypes' /\ \A r \in Readers : reader'[r].phase = reader[r].phase
    BY <1>6, <1>13, <2>1 DEF Rename
  <2>4. files' \in [Ids -> File \cup {None}] /\ tmp' \in [Ids -> File \cup {None}]
    BY <1>1, <1>13, <2>1 DEF Rename
  <2> QED BY <1>1, <1>3, <1>13, <2>2, <2>3, <2>4 DEF Rename, Typed, Locked
<1>14. CASE Remove(w)
  <2>1. t.id \in Ids /\ 0 \in Content
    BY <1>1, <1>14, RuleStoreAssumption DEF Remove, Content
  <2>2. WriteTypes'
    <3> DEFINE d == [t EXCEPT !.pc = "invalidate"]
    <3>1. d \in Task /\ d.id \in Ids
      BY <1>1, <2>1 DEF Task
    <3>2. writer' = [writer EXCEPT ![w] = d]
      BY <1>1, <1>14 DEF Remove, WriteTypes
    <3> HIDE DEF d
    <3> QED BY <1>2, <3>1, <3>2
  <2>3. ReadTypes' /\ \A r \in Readers : reader'[r].phase = reader[r].phase
    BY <1>6, <1>14, <2>1 DEF Remove
  <2>4. files' \in [Ids -> File \cup {None}]
    BY <1>1, <1>14 DEF Remove
  <2> QED BY <1>1, <1>3, <1>14, <2>2, <2>3, <2>4 DEF Remove, Typed, Locked
<1>15. CASE Fails(w)
  BY <1>1, <1>3, <1>4, <1>5, <1>10, <1>15 DEF Fails, Typed
<1>16. CASE Invalidate(w)
  <2>1. Locked'
    BY <1>16 DEF Invalidate, Unlocked, Locked
  <2> QED BY <1>1, <1>3, <1>4, <1>10, <1>16, <2>1 DEF Invalidate, Typed
<1> QED BY <1>8, <1>9, <1>12, <1>13, <1>14, <1>15, <1>16 DEF Write

\* Files, calls and writers are well formed, and the cache is there while it is checked.
LEMMA TypedStays == Typed /\ [Next]_vars => Typed'
<1> SUFFICES ASSUME Typed, [Next]_vars PROVE Typed'
  OBVIOUS
<1>1. CASE UNCHANGED vars
  BY <1>1 DEF vars, Typed, Locked, TypeOK
<1>2. CASE Restart
  <2>1. ReadTypes'
    BY <1>2, IdleTyped DEF Restart, ReadTypes
  <2>2. WriteTypes'
    BY <1>2, RestingTyped, TypeParts DEF Restart, WriteTypes, Typed
  <2>3. Locked'
    BY <1>2, IdleTyped DEF Restart, Locked
  <2> QED BY <1>2, <2>1, <2>2, <2>3 DEF Restart, Typed, TypeOK, ReadTypes, WriteTypes, Call, Task, Phases
<1> QED BY <1>1, <1>2, ReadTyped, WriteTyped DEF Next

\* The stronger types of the proofs hold in every state.
LEMMA TypedHolds == Spec => []Typed
<1>1. Init => Typed
  BY InitTyped, IdleTyped DEF Typed, Locked, Init
<1> QED BY <1>1, TypedStays, PTL DEF Spec

\* The rule files, their temporary files, the cache, the calls of the proxy and the work of
\* the writers are well formed, whatever the writers do: no writer works on a rule without
\* an id, and next_id_in_dir (storage/id.rs) gives none below 1.
THEOREM TypeCorrect == Spec => []TypeOK
<1>1. Typed => TypeOK
  BY DEF Typed
<1> QED BY <1>1, TypedHolds, PTL

-----------------------------------------------------------------------------
(***************************************************************************)
(* A cache that is right. Its key says only how many rules there are and   *)
(* when the newest was written, so it depends on what the writers do       *)
(* whether it can be trusted. Steady is enough:                            *)
(*  - no two writes get one modification time;                             *)
(*  - two writers write no two rules: else a rename that comes last may    *)
(*    carry a time that is not the newest;                                 *)
(*  - a rule that is written is not deleted, and where rules are deleted,  *)
(*    one that is created is the only one written: else the count and the  *)
(*    newest time of an earlier directory may come back.                   *)
(* Without the last of these the cache may serve a rule that is gone       *)
(* (NextRequestReloads is violated).                                       *)
(***************************************************************************)
Puts == {"create", "createWithId", "update"}
Writes(w, i) == \E op \in Puts : <<op, i>> \in Ops[w]
Created(i) == \E w \in Writers, op \in {"create", "createWithId"} : <<op, i>> \in Ops[w]
Deleted(i) == \E w \in Writers : <<"delete", i>> \in Ops[w]
Deletes == \E i \in Ids : Deleted(i)

Steady ==
  /\ FineClock
  /\ \A v, w \in Writers, i, j \in Ids : Writes(v, i) /\ Writes(w, j) => v = w \/ i = j
  /\ \A w \in Writers, i \in Ids : Writes(w, i) => ~Deleted(i)
  /\ Deletes => \A w \in Writers, i, j \in Ids : Created(i) /\ Writes(w, j) => i = j

\* A file written by a time, or after it.
UpTo(i, m) == Exists(i) /\ files[i].mtime <= m
Newer(i, m) == Exists(i) /\ files[i].mtime > m

\* The newest of the files that stay is not older: the next write will be newer.
Reached(m) == m = 0 \/ \E j \in Ids : ~Deleted(j) /\ Exists(j) /\ m <= files[j].mtime

\* A fingerprint with this time will not match again: a file that stays is newer.
Stale(m) == \E i \in Ids : ~Deleted(i) /\ Newer(i, m)

Loaded(rules) == {i \in Ids : rules[i] # 0}

-----------------------------------------------------------------------------
(***************************************************************************)
(* The invariant. What the writers keep: they do what they may, files that *)
(* are not written are as they were from the start, and the file about to  *)
(* be renamed is the newest.                                               *)
(***************************************************************************)
Working(t) ==
  /\ t.pc \in {"write", "rename"} =>
       /\ t.op \in Puts /\ t.num > 0
       /\ Exists(t.id) \/ Created(t.id)
  /\ t.pc = "remove" => t.op = "delete"

WorkersSound ==
  \A w \in Writers : writer[w].pc # "idle" => <<writer[w].op, writer[w].id>> \in Ops[w] /\ Working(writer[w])

Dated(i) ==
  /\ Exists(i) => files[i].mtime <= clock /\ files[i].content > 0
  /\ Exists(i) /\ (\A w \in Writers : ~Writes(w, i)) => files[i].mtime = 0
  /\ tmp[i] # None => tmp[i].mtime > 0 /\ tmp[i].mtime <= clock /\ tmp[i].content > 0

Newest(id) == \A j \in Ids : Exists(j) => files[j].mtime < tmp[id].mtime

FilesSound ==
  /\ \A i \in Ids : Dated(i)
  /\ \A w \in Writers : writer[w].pc = "rename" /\ tmp[writer[w].id] # None => Newest(writer[w].id)

(***************************************************************************)
(* What cached rules and rules about to be cached have in common: the      *)
(* files that are not newer than the fingerprint are cached as they are,   *)
(* and a rule that is cached and gone is one that may be deleted. The      *)
(* fingerprint of the cache counts all the rules that are cached, so that  *)
(* it will not match when one is gone - or it will not match at all.       *)
(***************************************************************************)
Current(rules, m) ==
  /\ \A i \in Ids : UpTo(i, m) => rules[i] = OnDisk(i)
  /\ \A i \in Loaded(rules) : Deleted(i) \/ Exists(i)

Counts(fp, ids) == Deletes => Stale(fp.max_mtime) \/ fp.file_count >= Cardinality(ids)

CacheSound ==
  cache # None =>
    /\ Reached(cache.fingerprint.max_mtime)
    /\ Current(cache.rules, cache.fingerprint.max_mtime)
    /\ Counts(cache.fingerprint, Loaded(cache.rules))

(***************************************************************************)
(* What a call knows in each phase. It has witnessed what the files have   *)
(* been since it began, and that a file it is not to visit was not there.  *)
(***************************************************************************)
Since(c) ==
  /\ Reached(c.fingerprint.max_mtime)
  /\ \A i \in Ids : OnDisk(i) \in c.past[i] /\ (i \in c.due \/ 0 \in c.past[i])

\* Checking: the files visited are cached as they have been, or one is newer than the
\* cache; the files that stay are still to visit, with the newer one if there is one.
Outdated(c) == c.fingerprint.max_mtime > cache.fingerprint.max_mtime

Checking(c) ==
  /\ cache # None /\ c.rules = NoRules
  /\ c.fingerprint.file_count = Cardinality(c.seen)
  /\ \A i \in c.seen : (cache.rules[i] # 0 /\ cache.rules[i] \in c.past[i]) \/ Outdated(c)
  /\ \A i \in Ids : ~Deleted(i) /\ (cache.rules[i] # 0 \/ i \in c.due) => i \in c.due /\ Exists(i)
  /\ Deletes => \/ cache.fingerprint.file_count >= Cardinality(Loaded(cache.rules))
                \/ \E i \in c.due : /\ ~Deleted(i) /\ Newer(i, cache.fingerprint.max_mtime)
                                    /\ i \in c.seen => Outdated(c)

\* Taking the fingerprint: a file that came since, and is not counted, is newer.
Printing(c) ==
  /\ c.rules = NoRules
  /\ c.fingerprint.file_count = Cardinality(c.seen)
  /\ Deletes => \A i \in Present \ (c.due \cup c.seen) : Created(i) /\ Newer(i, c.fingerprint.max_mtime)

\* Loading: what has been visited is loaded as it has been, what came since is newer.
Loading(c) ==
  /\ \A i \in c.seen : c.rules[i] \in c.past[i] /\ (UpTo(i, c.fingerprint.max_mtime) => c.rules[i] = OnDisk(i))
  /\ \A i \in Ids \ c.seen : c.rules[i] = 0 /\ (Exists(i) => i \in c.due \/ Newer(i, c.fingerprint.max_mtime))
  /\ \A i \in Loaded(c.rules) : Deleted(i) \/ Exists(i)

Enough(c) == Counts(c.fingerprint, Present \cup Loaded(c.rules))

CallSound(c) ==
  /\ c.phase \notin {"idle", "done"} => Since(c)
  /\ c.phase = "check" => Checking(c)
  /\ c.phase = "print" => Printing(c)
  /\ c.phase = "load" => Loading(c) /\ Enough(c)
  /\ c.phase = "store" => AsOnDisk(c) /\ Current(c.rules, c.fingerprint.max_mtime) /\ Enough(c)
  /\ c.phase = "done" => AsOnDisk(c)

ReadersSound == \A r \in Readers : CallSound(reader[r])

Inv == Typed /\ WorkersSound /\ FilesSound /\ CacheSound /\ ReadersSound

-----------------------------------------------------------------------------
(***************************************************************************)
(* The writers.                                                            *)
(***************************************************************************)

\* What a type-correct state says of one rule and one writer.
LEMMA Typing ==
  ASSUME TypeOK
  PROVE  /\ \A i \in Ids : /\ Exists(i) => files[i] \in File /\ files[i].mtime \in Nat
                           /\ tmp[i] # None => tmp[i] \in File /\ tmp[i].mtime \in Nat
         /\ \A w \in Writers : writer[w] \in Task /\ (writer[w].pc # "idle" => writer[w].id \in Ids)
         /\ \A r \in Readers : reader[r] \in Call
         /\ files \in [Ids -> File \cup {None}] /\ tmp \in [Ids -> File \cup {None}]
         /\ writer \in [Writers -> Task] /\ reader \in [Readers -> Call] /\ clock \in Nat
BY TypeParts DEF ReadTypes, WriteTypes, Exists, File

\* A writer that begins does what it may, and what is there or may be created.
LEMMA BeginSound ==
  ASSUME Inv, Steady, NEW w \in Writers, NEW op \in WriterOps, NEW id \in Ids, NEW pc, Begin(w, op, id, pc),
         pc = "remove" => op = "delete", pc \in {"write", "rename"} => pc = "write" /\ op \in Puts,
         pc # "idle", pc = "write" => Exists(id) \/ op # "update"
  PROVE  WorkersSound' /\ FilesSound'
<1>1. writer' = [writer EXCEPT ![w] = [pc |-> pc, op |-> op, id |-> id, num |-> begun']]
      /\ <<op, id>> \in Ops[w] /\ begun' > 0 /\ UNCHANGED <<files, tmp, clock>>
  BY RuleStoreAssumption DEF Begin, Inv, Typed, TypeOK
<1>2. pc = "write" => Exists(id) \/ Created(id)
  BY <1>1 DEF Puts, Created
<1>3. WorkersSound'
  BY <1>1, <1>2, Typing DEF Inv, Typed, WorkersSound, Working, Exists
<1>4. FilesSound'
  BY <1>1, Typing DEF Inv, Typed, FilesSound, Dated, Newest, Exists
<1> QED BY <1>3, <1>4

\* Each step of a writer leaves the writers and the files sound.
LEMMA WritersStaySound ==
  ASSUME Inv, Steady, NEW w \in Writers, Write(w)
  PROVE  WorkersSound' /\ FilesSound'
<1> DEFINE t == writer[w]
<1> USE DEF Inv, Typed
<1>1. t \in Task /\ (t.pc # "idle" => t.id \in Ids /\ <<t.op, t.id>> \in Ops[w] /\ Working(t))
  BY Typing DEF WorkersSound
<1>2. CASE CreateBegin(w)
  BY <1>2, BeginSound, NextIdIsNew DEF CreateBegin, WriterOps, Puts
<1>3. ASSUME NEW id \in Ids, CreateWithIdBegin(w, id) \/ UpdateBegin(w, id) \/ DeleteBegin(w, id)
      PROVE  WorkersSound' /\ FilesSound'
  BY <1>3, BeginSound DEF CreateWithIdBegin, UpdateBegin, DeleteBegin, WriterOps, Puts
<1>4. ASSUME writer' = Finished(w), UNCHANGED <<files, tmp, clock>>
      PROVE  WorkersSound' /\ FilesSound'
  <2>1. \A v \in Writers : v # w => writer'[v] = writer[v]
    BY <1>4, Typing DEF Finished
  <2>2. writer'[w].pc = "idle"
    BY <1>4, Typing DEF Finished, Resting
  <2>3. WorkersSound'
    BY <1>4, <2>1, <2>2 DEF WorkersSound, Working, Exists
  <2>4. FilesSound'
    BY <1>4, <2>1, <2>2 DEF FilesSound, Dated, Newest, Exists
  <2> QED BY <2>3, <2>4
<1>5. CASE WriteTmp(w)
  <2>1. clock' = clock + 1 /\ clock \in Nat
    BY <1>5, Typing DEF WriteTmp, Steady
  <2>2. /\ tmp' = [tmp EXCEPT ![t.id] = [content |-> t.num, mtime |-> clock']]
        /\ writer' = [writer EXCEPT ![w].pc = "rename"]
        /\ UNCHANGED files /\ t.id \in Ids /\ t.num > 0
    BY <1>1, <1>5 DEF WriteTmp, Working
  <2>3. \A v \in Writers : v # w => writer'[v] = writer[v]
    BY <2>2, Typing
  <2>4. writer'[w] = [t EXCEPT !.pc = "rename"] /\ t.pc = "write"
    BY <1>5, <2>2, Typing DEF WriteTmp
  <2>5. WorkersSound'
    <3>1. <<writer'[w].op, writer'[w].id>> \in Ops[w] /\ Working(writer'[w])
      BY <1>1, <2>4 DEF Working, Task
    <3> QED BY <2>2, <2>3, <3>1 DEF WorkersSound, Working, Exists
  <2>6. ASSUME NEW i \in Ids PROVE Dated(i)'
    BY <2>1, <2>2, Typing DEF FilesSound, Dated, Exists
  <2>7. ASSUME NEW v \in Writers, NEW k, k = writer'[v].id, writer'[v].pc = "rename", tmp'[k] # None
        PROVE  Newest(k)'
    <3>1. CASE k = t.id
      BY <2>1, <2>2, <3>1, Typing DEF Newest, FilesSound, Dated, Exists
    <3>2. CASE k # t.id
      <4>1. v # w /\ writer'[v] = writer[v]
        BY <2>3, <2>4, <2>7, <3>2, <1>1 DEF Task
      <4>2. k \in Ids /\ tmp'[k] = tmp[k]
        BY <2>2, <2>7, <3>2, <4>1, Typing
      <4> QED BY <2>2, <2>7, <4>1, <4>2 DEF Newest, FilesSound, Exists
    <3> QED BY <3>1, <3>2
  <2> QED BY <2>5, <2>6, <2>7 DEF FilesSound, Newest, Exists
<1>6. CASE Rename(w)
  <2> DEFINE id == t.id
  <2>1. /\ id \in Ids /\ Writes(w, id) /\ tmp[id] # None /\ t.pc = "rename"
        /\ files' = [files EXCEPT ![id] = tmp[id]] /\ tmp' = [tmp EXCEPT ![id] = None]
        /\ UNCHANGED clock
    BY <1>1, <1>6 DEF Rename, Working, Writes
  <2>2. \A v \in Writers : v # w => writer'[v] = writer[v]
    BY <1>6, Typing DEF Rename, Written, Finished
  <2>3. writer'[w].pc # "idle" => /\ writer'[w].pc = "invalidate"
                                  /\ writer'[w].op = t.op /\ writer'[w].id = t.id
    BY <1>1, <1>6, Typing, RestingTyped DEF Rename, Written, Finished, Task
  <2>4. \A j \in Ids : Exists(j) => Exists(j)'
    BY <2>1, Typing DEF Exists
  <2>5. WorkersSound'
    <3>1. ASSUME NEW d, d = writer'[w], d.pc # "idle"
          PROVE  <<d.op, d.id>> \in Ops[w] /\ Working(d)'
      BY <1>1, <2>1, <2>3, <3>1 DEF Working
    <3>2. ASSUME NEW v \in Writers, v # w, NEW d, d = writer[v], d.pc # "idle"
          PROVE  <<d.op, d.id>> \in Ops[v] /\ Working(d)'
      BY <2>4, <3>2, Typing DEF WorkersSound, Working
    <3> QED BY <2>2, <3>1, <3>2 DEF WorkersSound, Working, Exists
  <2>6. ASSUME NEW i \in Ids PROVE Dated(i)'
    BY <2>1, Typing DEF FilesSound, Dated, Exists
  <2>7. ASSUME NEW v \in Writers, writer'[v].pc = "rename", tmp'[writer'[v].id] # None
        PROVE  FALSE
    <3>1. v # w /\ writer'[v] = writer[v]
      BY <2>2, <2>3, <2>7
    <3>2. writer[v].id \in Ids /\ Writes(v, writer[v].id)
      BY <2>7, <3>1, Typing DEF WorkersSound, Working, Writes
    <3>3. writer[v].id = id
      BY <2>1, <3>1, <3>2 DEF Steady
    <3> QED BY <2>1, <2>7, <3>1, <3>3, Typing
  <2> QED BY <2>5, <2>6, <2>7 DEF FilesSound
<1>7. CASE Remove(w)
  <2> DEFINE id == t.id
  <2>1. /\ id \in Ids /\ Deleted(id)
        /\ files' = [files EXCEPT ![id] = None] /\ UNCHANGED <<tmp, clock>>
        /\ writer' = [writer EXCEPT ![w].pc = "invalidate"]
    BY <1>1, <1>7 DEF Remove, Working, Deleted
  <2>2. \A v \in Writers : v # w => writer'[v] = writer[v]
    BY <2>1, Typing
  <2>3. writer'[w].pc = "invalidate" /\ writer'[w].op = t.op /\ writer'[w].id = t.id /\ t.pc = "remove"
    BY <1>1, <1>7, <2>1, Typing DEF Task, Remove
  <2>4. \A j \in Ids : j # id => files'[j] = files[j]
    BY <2>1, Typing
  <2>5. WorkersSound'
    <3>1. ASSUME NEW v \in Writers, v # w, NEW d, d = writer[v], d.pc # "idle"
          PROVE  <<d.op, d.id>> \in Ops[v] /\ Working(d)'
      <4>1. d.pc \in {"write", "rename"} => d.id # id /\ d.id \in Ids
        BY <2>1, <3>1, Typing DEF WorkersSound, Working, Writes, Steady
      <4> QED BY <2>4, <3>1, <4>1 DEF WorkersSound, Working, Exists
    <3>2. ASSUME NEW d, d = writer'[w]
          PROVE  <<d.op, d.id>> \in Ops[w] /\ Working(d)'
      BY <1>1, <2>3, <3>2 DEF Working
    <3> QED BY <2>2, <3>1, <3>2 DEF WorkersSound, Working, Exists
  <2>6. \A i \in Ids : Exists(i)' => Exists(i) /\ files'[i] = files[i]
    BY <2>1, Typing DEF Exists
  <2>7. FilesSound'
    BY <2>1, <2>2, <2>3, <2>6, Typing DEF FilesSound, Dated, Newest
  <2> QED BY <2>5, <2>7
<1> QED BY <1>2, <1>3, <1>4, <1>5, <1>6, <1>7 DEF Write, Fails, Invalidate

-----------------------------------------------------------------------------
(***************************************************************************)
(* A change of a file: a rename, which puts a rule that is not deleted and *)
(* is newer than every other, or a removal of a rule that is not written.  *)
(***************************************************************************)
Put(id, f) ==
  /\ f \in File /\ f # None /\ f.content > 0 /\ f.mtime > 0
  /\ ~Deleted(id) /\ (Exists(id) \/ Created(id))
  /\ \A j \in Ids : Exists(j) => files[j].mtime < f.mtime
  /\ files' = [files EXCEPT ![id] = f]

Take(id) == Deleted(id) /\ Exists(id) /\ files' = [files EXCEPT ![id] = None]

Change(id) == (\E f \in File : Put(id, f)) \/ Take(id)

\* A file that is changed is newer than what was before, or gone; the others are as they were.
LEMMA ChangeEffect ==
  ASSUME TypeOK, NEW id \in Ids, Change(id)
  PROVE  /\ \A j \in Ids \ {id} : files'[j] = files[j]
         /\ \A j \in Ids : ~Deleted(j) /\ Exists(j) => Exists(j)'
         /\ \A j \in Ids, m \in Nat : ~Deleted(j) /\ Newer(j, m) => Newer(j, m)'
         /\ \A m \in Nat : Reached(m) => Reached(m)' /\ (Exists(id)' => Newer(id, m)')
         /\ Exists(id)' => ~Deleted(id)
         /\ Exists(id)' /\ ~Exists(id) => Created(id)
<1>1. files \in [Ids -> File \cup {None}] /\ (\A j \in Ids : Exists(j) => files[j].mtime \in Nat)
  BY Typing
<1>2. CASE \E f \in File : Put(id, f)
  <2>1. PICK f \in File : Put(id, f)
    BY <1>2
  <2>2. f.mtime \in Nat /\ f # None /\ ~Deleted(id) /\ files' = [files EXCEPT ![id] = f]
        /\ f.mtime > 0 /\ (\A j \in Ids : Exists(j) => files[j].mtime < f.mtime) /\ (Exists(id) \/ Created(id))
    BY <2>1 DEF Put, File
  <2>3. files'[id] = f /\ \A j \in Ids \ {id} : files'[j] = files[j]
    BY <1>1, <2>2
  <2>4. \A j \in Ids, m \in Nat : Newer(j, m) => Newer(j, m)'
    BY <1>1, <2>2, <2>3 DEF Newer, Exists
  <2>5. \A m \in Nat : Reached(m) => Newer(id, m)'
    BY <1>1, <2>2, <2>3 DEF Reached, Newer, Exists
  <2>6. \A m \in Nat : Newer(id, m)' => Reached(m)'
    BY <1>1, <2>2, <2>3 DEF Reached, Newer, Exists
  <2> QED BY <2>2, <2>3, <2>4, <2>5, <2>6 DEF Exists
<1>3. CASE Take(id)
  <2>1. /\ Deleted(id) /\ Exists(id) /\ files'[id] = None
        /\ \A j \in Ids \ {id} : files'[j] = files[j]
    BY <1>1, <1>3 DEF Take
  <2> QED BY <2>1 DEF Reached, Newer, Exists
<1> QED BY <1>2, <1>3 DEF Change

\* Sets of rules are finite, and smaller ones count less.
LEMMA CountOfIds ==
  ASSUME NEW Y \in SUBSET Ids, NEW X \in SUBSET Y
  PROVE  /\ Cardinality(X) \in Nat /\ Cardinality(Y) \in Nat /\ Cardinality(X) <= Cardinality(Y)
         /\ Cardinality(X) = Cardinality(Y) => X = Y
<1>1. IsFiniteSet(Ids)
  BY RuleStoreAssumption, FS_Interval DEF Ids
<1>2. IsFiniteSet(Y) /\ IsFiniteSet(X)
  BY <1>1, FS_Subset
<1> QED BY <1>2, FS_Subset, FS_CardinalityType

\* What is cached, or is about to be, stays current: the file that changes is newer now.
LEMMA CurrentStays ==
  ASSUME TypeOK, NEW id \in Ids, Change(id), NEW m \in Nat, Reached(m), NEW rules, Current(rules, m)
  PROVE  Current(rules, m)'
<1>1. ASSUME NEW i \in Ids, UpTo(i, m)' PROVE rules[i] = OnDisk(i)'
  <2>1. i # id
    <3>1. Exists(id)' => files'[id].mtime \in Nat /\ files'[id].mtime > m
      <4>1. ASSUME NEW f \in File, Put(id, f) PROVE files'[id].mtime \in Nat
        BY <4>1, Typing DEF Put, File
      <4>2. Take(id) => ~Exists(id)'
        BY Typing DEF Take, Exists
      <4> QED BY <4>1, <4>2, ChangeEffect DEF Change, Newer
    <3> QED BY <1>1, <3>1 DEF UpTo
  <2>2. files'[i] = files[i]
    BY <2>1, ChangeEffect
  <2>3. UpTo(i, m) /\ OnDisk(i)' = OnDisk(i)
    BY <1>1, <2>2 DEF UpTo, OnDisk, Exists
  <2> QED BY <2>3 DEF Current
<1>2. ASSUME NEW i \in Loaded(rules) PROVE Deleted(i) \/ Exists(i)'
  BY <1>2, ChangeEffect DEF Current, Loaded
<1> QED BY <1>1, <1>2 DEF Current, Loaded, UpTo, OnDisk, Exists

\* A fingerprint that has counted enough has counted enough after the change.
LEMMA StaleStays ==
  ASSUME TypeOK, NEW id \in Ids, Change(id), NEW m \in Nat, Stale(m)
  PROVE  Stale(m)'
<1>1. PICK i \in Ids : ~Deleted(i) /\ Newer(i, m)
  BY DEF Stale
<1>2. Newer(i, m)'
  BY <1>1, ChangeEffect
<1> QED BY <1>1, <1>2 DEF Stale, Newer, Exists

\* No step puts rules into the cache that were not on disk.
LEMMA CacheStaysSound ==
  ASSUME Typed, CacheSound, NEW id \in Ids, Change(id), UNCHANGED cache
  PROVE  CacheSound'
<1> SUFFICES ASSUME cache # None PROVE CacheSound'
  BY DEF CacheSound
<1> DEFINE fp == cache.fingerprint
<1>1. fp.max_mtime \in Nat /\ TypeOK
  BY TypeParts DEF Typed, RulesCacheState, RulesDirFingerprint
<1>2. \A rules, m : rules = cache.rules /\ m = fp.max_mtime => Current(rules, m)'
  BY <1>1, CurrentStays DEF CacheSound
<1>3. \A m \in Nat : (Reached(m) => Reached(m)') /\ (Stale(m) => Stale(m)')
  BY <1>1, ChangeEffect, StaleStays
<1> QED BY <1>1, <1>2, <1>3 DEF CacheSound, Counts, Reached, Stale, Newer, Current, UpTo, OnDisk, Exists, Loaded

\* A call that sees the change beside its own work is as sound as before: what it has
\* visited is newer now or gone, what it has not is newer or still to visit.
LEMMA CallStaysSound ==
  ASSUME Typed, NEW id \in Ids, Change(id), UNCHANGED cache, NEW o \in Content, o = OnDisk(id)',
         NEW c \in Call, CallSound(c), c.phase \notin {"idle", "done"},
         NEW d, d = [c EXCEPT !.past[id] = @ \cup {o}]
  PROVE  CallSound(d)'
<1> DEFINE m == c.fingerprint.max_mtime
<1>1. /\ d.phase = c.phase /\ d.due = c.due /\ d.seen = c.seen /\ d.fingerprint = c.fingerprint
      /\ d.rules = c.rules /\ c.due \in SUBSET Ids /\ c.seen \in SUBSET Ids
      /\ m \in Nat /\ TypeOK /\ c.fingerprint.file_count \in Nat
      /\ c.rules \in [Ids -> Content]
  BY DEF Call, RulesDirFingerprint, Typed
<1>2. /\ \A i \in Ids : c.past[i] \subseteq d.past[i]
      /\ o \in d.past[id]
  <2>1. c.past \in [Ids -> SUBSET Content]
    BY DEF Call
  <2>2. d.past = [c.past EXCEPT ![id] = @ \cup {o}]
    BY DEF Call
  <2> QED BY <2>1, <2>2
<1>3. Since(c)
  BY DEF CallSound
<1>4. /\ \A j \in Ids \ {id} : files'[j] = files[j]
      /\ \A j \in Ids : ~Deleted(j) /\ Exists(j) => Exists(j)'
      /\ Reached(m)' /\ (Exists(id)' => Newer(id, m)')
      /\ Exists(id)' => ~Deleted(id)
      /\ Exists(id)' /\ ~Exists(id) => Created(id)
      /\ \A i \in Ids \ {id} : (Exists(i)' <=> Exists(i)) /\ OnDisk(i)' = OnDisk(i) /\ (Newer(i, m) => Newer(i, m)')
  <2>1. Reached(m)
    BY <1>3 DEF Since
  <2>2. \A j \in Ids \ {id} : files'[j] = files[j]
    BY <1>1, ChangeEffect
  <2> QED BY <1>1, <2>1, <2>2, ChangeEffect DEF Exists, OnDisk, Newer
<1>5. Since(d)'
  <2>1. Reached(d.fingerprint.max_mtime)'
    BY <1>1, <1>4 DEF Reached, Exists
  <2>2. ASSUME NEW i \in Ids PROVE OnDisk(i)' \in d.past[i] /\ (i \in d.due \/ 0 \in d.past[i])
    BY <1>1, <1>2, <1>3, <1>4 DEF Since
  <2> QED BY <2>1, <2>2 DEF Since, OnDisk, Exists
<1>6. CASE c.phase = "check"
  <2>1. Checking(c)
    BY <1>6 DEF CallSound
  <2>2. cache.fingerprint.max_mtime \in Nat
    BY <2>1, TypeParts DEF Checking, Typed, RulesCacheState, RulesDirFingerprint
  <2>3. \A j \in Ids : ~Deleted(j) /\ Newer(j, cache.fingerprint.max_mtime)
                         => Newer(j, cache.fingerprint.max_mtime)'
    <3>1. \A k \in Nat, j \in Ids : ~Deleted(j) /\ Newer(j, k) => Newer(j, k)'
      BY <1>1, ChangeEffect
    <3> QED BY <2>2, <3>1 DEF Newer, Exists
  <2>4. Checking(d)'
    BY <1>1, <1>2, <1>4, <2>1, <2>3 DEF Checking, Outdated, Newer, Exists
  <2> QED BY <1>1, <1>5, <1>6, <2>4 DEF CallSound
<1>7. CASE c.phase = "print"
  <2>1. Printing(c)
    BY <1>7 DEF CallSound
  <2>2. ASSUME Deletes, NEW i \in Present', i \notin c.due \cup c.seen
        PROVE  Created(i) /\ Newer(i, m)'
    BY <1>4, <2>1, <2>2 DEF Printing, Present
  <2>3. Printing(d)'
    BY <1>1, <2>1, <2>2 DEF Printing, Present, Exists, Newer
  <2> QED BY <1>1, <1>5, <1>7, <2>3 DEF CallSound
<1>8. CASE c.phase \in {"load", "store"}
  <2>1. Enough(c)
    BY <1>8 DEF CallSound
  <2>2. Enough(d)'
    <3>1. CASE Exists(id)' /\ ~Exists(id)
      <4>1. ~Deleted(id) /\ Newer(id, m)'
        BY <1>4, <3>1
      <4> QED BY <1>1, <4>1 DEF Enough, Counts, Stale, Newer, Exists
    <3>2. CASE ~(Exists(id)' /\ ~Exists(id))
      <4>1. Present' \cup Loaded(c.rules) \in SUBSET (Present \cup Loaded(c.rules))
        BY <1>4, <3>2 DEF Present
      <4>2. Present \cup Loaded(c.rules) \in SUBSET Ids
        BY DEF Present, Loaded
      <4>3. /\ Cardinality(Present \cup Loaded(c.rules)) \in Nat
            /\ Cardinality(Present' \cup Loaded(c.rules)) \in Nat
            /\ Cardinality(Present' \cup Loaded(c.rules)) <= Cardinality(Present \cup Loaded(c.rules))
        BY <4>1, <4>2, CountOfIds
      <4>4. Stale(m) => Stale(m)'
        BY <1>1, StaleStays
      <4>5. Counts(c.fingerprint, Present \cup Loaded(c.rules))
        BY <2>1 DEF Enough
      <4>6. Deletes => Stale(m)' \/ c.fingerprint.file_count >= Cardinality(Present' \cup Loaded(c.rules))
        BY <1>1, <4>3, <4>4, <4>5 DEF Counts
      <4> QED BY <1>1, <4>6 DEF Enough, Counts, Present, Exists, Stale, Newer, Loaded
    <3> QED BY <3>1, <3>2
  <2>3. CASE c.phase = "load"
    <3>1. Loading(c)
      BY <2>3 DEF CallSound
    <3>2. ASSUME NEW i \in c.seen
          PROVE  c.rules[i] \in d.past[i] /\ (UpTo(i, m)' => c.rules[i] = OnDisk(i)')
      <4>1. CASE i = id
        <5>1. ~UpTo(i, m)'
          <6>1. Exists(id)' => files'[id].mtime \in Nat
            <7>1. ASSUME NEW f \in File, Put(id, f) PROVE files'[id].mtime \in Nat
              BY <7>1, <1>1, Typing DEF Put, File
            <7>2. Take(id) => ~Exists(id)'
              BY <1>1, Typing DEF Take, Exists
            <7> QED BY <7>1, <7>2 DEF Change
          <6> QED BY <1>1, <1>4, <4>1, <6>1 DEF UpTo, Newer
        <5> QED BY <1>1, <1>2, <3>1, <5>1 DEF Loading
      <4>2. CASE i # id
        BY <1>1, <1>2, <1>4, <3>1, <4>2 DEF Loading, UpTo
      <4> QED BY <4>1, <4>2
    <3>3. ASSUME NEW i \in Ids \ c.seen
          PROVE  c.rules[i] = 0 /\ (Exists(i)' => i \in c.due \/ Newer(i, m)')
      BY <1>4, <3>1 DEF Loading
    <3>4. \A i \in Loaded(c.rules) : Deleted(i) \/ Exists(i)'
      BY <1>4, <3>1 DEF Loading, Loaded
    <3>5. Loading(d)'
      BY <1>1, <3>2, <3>3, <3>4 DEF Loading, UpTo, Exists, OnDisk, Newer, Loaded
    <3> QED BY <1>1, <1>5, <2>2, <2>3, <3>5 DEF CallSound
  <2>4. CASE c.phase = "store"
    <3>1. Current(c.rules, m) /\ AsOnDisk(c) /\ Reached(m)
      BY <1>3, <2>4 DEF CallSound, Since
    <3>2. Current(c.rules, m)'
      BY <1>1, <3>1, CurrentStays
    <3>3. AsOnDisk(d)
      BY <1>1, <1>2, <3>1 DEF AsOnDisk
    <3> QED BY <1>1, <1>5, <2>2, <2>4, <3>2, <3>3 DEF CallSound, AsOnDisk
  <2> QED BY <1>8, <2>3, <2>4
<1> QED BY <1>6, <1>7, <1>8 DEF Call, Phases

-----------------------------------------------------------------------------
(***************************************************************************)
(* The requests.                                                           *)
(***************************************************************************)

\* A step of a request that leaves the cache alone has to leave its own call sound.
LEMMA OneCallChanges ==
  ASSUME Inv, NEW r \in Readers, NEW d, CallSound(d), reader' = [reader EXCEPT ![r] = d],
         UNCHANGED <<files, tmp, clock, writer, cache>>, Typed'
  PROVE  Inv'
<1>1. WorkersSound' /\ FilesSound' /\ CacheSound'
  BY DEF Inv, WorkersSound, Working, FilesSound, Dated, Newest, CacheSound, Counts, Reached, Stale, Newer,
         Current, UpTo, OnDisk, Exists
<1>2. \A c : CallSound(c) => CallSound(c)'
  BY DEF CallSound, Since, Checking, Printing, Loading, Enough, Counts, AsOnDisk, Current, Outdated, Reached,
         Stale, Newer, UpTo, OnDisk, Present, Exists, Loaded
<1>3. \A u \in Readers : reader'[u] = d \/ reader'[u] = reader[u]
  BY Typing DEF Inv, Typed
<1>4. ReadersSound'
  <2>1. \A u \in Readers : CallSound(reader[u]) /\ CallSound(d)
    BY DEF Inv, ReadersSound
  <2>2. \A u \in Readers : \A c : c = reader'[u] => CallSound(c)'
    BY <1>2, <1>3, <2>1
  <2> QED BY <2>2 DEF ReadersSound, CallSound, Since, Checking, Printing, Loading, Enough, Counts, AsOnDisk,
                      Current, Outdated, Reached, Stale, Newer, UpTo, OnDisk, Present, Exists, Loaded
<1> QED BY <1>1, <1>4 DEF Inv

\* A scan that begins has every file to visit; the others the call knows to be absent.
LEMMA ScanBegins ==
  ASSUME Inv, NEW c \in Call, c.fingerprint = EmptyPrint, \A i \in Ids : OnDisk(i) \in c.past[i],
         NEW phase \in {"check", "print"}, c.rules = NoRules, phase = "check" => cache # None
  PROVE  CallSound(Scan(c, phase))
<1> DEFINE d == Scan(c, phase)
<1>1. /\ d.phase = phase /\ d.due = Present /\ d.seen = {} /\ d.fingerprint = c.fingerprint
      /\ d.rules = c.rules /\ d.past = c.past
  BY DEF Call, Scan
<1> SUFFICES CallSound(d)
  OBVIOUS
<1> HIDE DEF d
<1>2. Since(d)
  BY <1>1 DEF Since, Reached, EmptyPrint, Present, OnDisk
<1>3. d.fingerprint.file_count = Cardinality(d.seen)
  BY <1>1, FS_EmptySet DEF EmptyPrint
<1>4. phase = "print" => Printing(d)
  BY <1>1, <1>3 DEF Printing
<1>5. phase = "check" => Checking(d)
  <2> SUFFICES ASSUME phase = "check" PROVE Checking(d)
    OBVIOUS
  <2>1. /\ Current(cache.rules, cache.fingerprint.max_mtime)
        /\ Counts(cache.fingerprint, Loaded(cache.rules))
    BY DEF Inv, CacheSound
  <2>2. \A i \in Ids : ~Deleted(i) /\ (cache.rules[i] # 0 \/ i \in d.due) => i \in d.due /\ Exists(i)
    BY <1>1, <2>1 DEF Current, Loaded, Present
  <2>3. Stale(cache.fingerprint.max_mtime) =>
          \E i \in d.due : ~Deleted(i) /\ Newer(i, cache.fingerprint.max_mtime) /\ i \notin d.seen
    BY <1>1 DEF Stale, Newer, Present
  <2> QED BY <1>1, <1>3, <2>1, <2>2, <2>3 DEF Checking, Counts
<1> QED BY <1>1, <1>2, <1>4, <1>5 DEF CallSound

\* The file visited is as the cache has it, or newer than all the cache has.
LEMMA VisitTells ==
  ASSUME Inv, Steady, NEW id \in Ids, Exists(id), NEW fp \in RulesDirFingerprint, Reached(fp.max_mtime)
  PROVE  LET new == Counted(fp, id)
         IN  /\ new \in RulesDirFingerprint /\ new.file_count = fp.file_count + 1
             /\ new.max_mtime >= fp.max_mtime /\ new.max_mtime >= files[id].mtime
             /\ Reached(new.max_mtime)
             /\ new.max_mtime # fp.max_mtime => \E w \in Writers : Writes(w, id)
<1> USE DEF Inv, Typed
<1>1. files[id] \in File /\ files[id].mtime \in Nat /\ fp.max_mtime \in Nat /\ fp.file_count \in Nat
  BY Typing DEF RulesDirFingerprint
<1>2. files[id].mtime > 0 => \E w \in Writers : Writes(w, id)
  BY <1>1 DEF FilesSound, Dated
<1>3. (\E w \in Writers : Writes(w, id)) => ~Deleted(id)
  BY DEF Steady
<1>4. Reached(files[id].mtime)
  BY <1>1, <1>2, <1>3 DEF Reached
<1> QED BY <1>1, <1>2, <1>4 DEF Counted, RulesDirFingerprint

\* rules_dir_fingerprint visits a file, to check the cache or to fill it.
LEMMA PrintFileSound ==
  ASSUME Inv, Steady, NEW r \in Readers, NEW id \in Ids, PrintFile(r, id)
  PROVE  CallSound([reader[r] EXCEPT !.seen = @ \cup {id}, !.fingerprint = Counted(@, id)])
<1> DEFINE c == reader[r]
           d == [c EXCEPT !.seen = @ \cup {id}, !.fingerprint = Counted(@, id)]
           new == Counted(c.fingerprint, id)
<1>1. c \in Call /\ c.phase \in {"check", "print"} /\ id \in Present /\ Exists(id) /\ id \notin c.seen
      /\ CallSound(c) /\ Since(c)
  BY Typing DEF PrintFile, Scanning, Present, Inv, Typed, ReadersSound, CallSound
<1>2. /\ d.phase = c.phase /\ d.due = c.due /\ d.seen = c.seen \cup {id} /\ d.fingerprint = new
      /\ d.rules = c.rules /\ d.past = c.past /\ c.seen \in SUBSET Ids /\ c.due \in SUBSET Ids
      /\ c.fingerprint \in RulesDirFingerprint /\ c.fingerprint.max_mtime \in Nat
  BY <1>1 DEF Call, RulesDirFingerprint
<1>3. /\ new \in RulesDirFingerprint /\ new.file_count = c.fingerprint.file_count + 1
      /\ new.max_mtime >= c.fingerprint.max_mtime /\ new.max_mtime >= files[id].mtime
      /\ Reached(new.max_mtime) /\ new.max_mtime \in Nat
      /\ new.max_mtime # c.fingerprint.max_mtime => \E w \in Writers : Writes(w, id)
  BY <1>1, <1>2, VisitTells DEF Since, RulesDirFingerprint
<1>4. c.fingerprint.file_count = Cardinality(c.seen) => new.file_count = Cardinality(d.seen)
  <2>1. IsFiniteSet(Ids)
    BY FS_Interval, RuleStoreAssumption DEF Ids
  <2> HIDE DEF c, d, new
  <2>2. IsFiniteSet(c.seen)
    BY <1>2, <2>1, FS_Subset
  <2>3. Cardinality(c.seen \cup {id}) = Cardinality(c.seen) + 1
    BY <1>1, <2>2, FS_AddElement
  <2> QED BY <1>2, <1>3, <2>3
<1> SUFFICES CallSound(d)
  OBVIOUS
<1> HIDE DEF c, d, new
<1>5. Since(d)
  BY <1>1, <1>2, <1>3 DEF Since
<1>6. CASE c.phase = "check"
  <2>1. Checking(c)
    BY <1>1, <1>6 DEF CallSound
  <2>2. cache.fingerprint.max_mtime \in Nat /\ files[id].mtime \in Nat
    BY <1>1, <2>1, TypeParts, Typing DEF Checking, Inv, Typed, RulesCacheState, RulesDirFingerprint
  <2>3. (Outdated(c) => Outdated(d)) /\ (Newer(id, cache.fingerprint.max_mtime) => Outdated(d))
    BY <1>2, <1>3, <2>2 DEF Outdated, Newer
  <2>4. (cache.rules[id] # 0 /\ cache.rules[id] \in c.past[id]) \/ Outdated(d)
    <3>1. CASE UpTo(id, cache.fingerprint.max_mtime)
      <4>1. cache.rules[id] = OnDisk(id)
        BY <2>1, <3>1 DEF Checking, Inv, CacheSound, Current
      <4>2. OnDisk(id) # 0
        BY <1>1, Typing DEF Inv, FilesSound, Dated, OnDisk, Typed, File, Content
      <4> QED BY <1>1, <4>1, <4>2 DEF Since
    <3>2. CASE ~UpTo(id, cache.fingerprint.max_mtime)
      BY <1>1, <2>2, <2>3, <3>2 DEF UpTo, Newer
    <3> QED BY <3>1, <3>2
  <2>5. Checking(d)
    BY <1>2, <1>4, <2>1, <2>3, <2>4 DEF Checking
  <2> QED BY <1>2, <1>5, <1>6, <2>5 DEF CallSound
<1>7. CASE c.phase = "print"
  <2>1. Printing(c)
    BY <1>1, <1>7 DEF CallSound
  <2>2. ASSUME Deletes, NEW i \in Present \ (d.due \cup d.seen)
        PROVE  Created(i) /\ Newer(i, new.max_mtime)
    <3>1. Created(i) /\ Newer(i, c.fingerprint.max_mtime) /\ i # id /\ i \in Ids
      BY <1>2, <2>1, <2>2 DEF Printing, Present
    <3>2. \A w \in Writers : ~Writes(w, id)
      BY <2>2, <3>1 DEF Steady
    <3> QED BY <1>3, <3>1, <3>2
  <2>3. Printing(d)
    BY <1>2, <1>4, <2>1, <2>2 DEF Printing
  <2> QED BY <1>2, <1>5, <1>7, <2>3 DEF CallSound
<1> QED BY <1>1, <1>6, <1>7

\* load_all_rules visits a file.
LEMMA LoadFileSound ==
  ASSUME Inv, NEW r \in Readers, NEW id \in Ids, LoadFile(r, id)
  PROVE  CallSound([reader[r] EXCEPT !.seen = @ \cup {id}, !.rules[id] = OnDisk(id)])
<1> DEFINE c == reader[r]
           d == [c EXCEPT !.seen = @ \cup {id}, !.rules[id] = OnDisk(id)]
           m == c.fingerprint.max_mtime
<1>1. c \in Call /\ c.phase = "load" /\ id \in Present /\ Exists(id) /\ id \notin c.seen
      /\ CallSound(c) /\ Since(c) /\ Loading(c) /\ Enough(c)
  BY Typing DEF LoadFile, Scanning, Present, Inv, Typed, ReadersSound, CallSound
<1>2. /\ d.phase = c.phase /\ d.due = c.due /\ d.seen = c.seen \cup {id} /\ d.fingerprint = c.fingerprint
      /\ d.past = c.past /\ c.seen \in SUBSET Ids /\ c.due \in SUBSET Ids
      /\ d.rules = [c.rules EXCEPT ![id] = OnDisk(id)] /\ c.rules \in [Ids -> Content]
  BY <1>1 DEF Call
<1>3. d.rules[id] = OnDisk(id) /\ \A i \in Ids \ {id} : d.rules[i] = c.rules[i]
  BY <1>2
<1> SUFFICES CallSound(d)
  OBVIOUS
<1> HIDE DEF c, d
<1>4. Since(d)
  BY <1>1, <1>2 DEF Since
<1>5. Loading(d)
  <2>1. \A i \in d.seen : d.rules[i] \in d.past[i] /\ (UpTo(i, m) => d.rules[i] = OnDisk(i))
    BY <1>1, <1>2, <1>3 DEF Loading, Since
  <2>2. \A i \in Ids \ d.seen : d.rules[i] = 0 /\ (Exists(i) => i \in d.due \/ Newer(i, m))
    BY <1>1, <1>2, <1>3 DEF Loading
  <2>3. \A i \in Loaded(d.rules) : Deleted(i) \/ Exists(i)
    BY <1>1, <1>2, <1>3 DEF Loading, Loaded
  <2> QED BY <1>2, <2>1, <2>2, <2>3 DEF Loading
<1>6. Enough(d)
  <2>1. Present \cup Loaded(d.rules) \in SUBSET (Present \cup Loaded(c.rules))
    BY <1>1, <1>2, <1>3 DEF Loaded
  <2>2. Present \cup Loaded(c.rules) \in SUBSET Ids
    BY DEF Present, Loaded
  <2>3. /\ Cardinality(Present \cup Loaded(c.rules)) \in Nat
        /\ Cardinality(Present \cup Loaded(d.rules)) \in Nat
        /\ Cardinality(Present \cup Loaded(d.rules)) <= Cardinality(Present \cup Loaded(c.rules))
    BY <2>1, <2>2, CountOfIds
  <2>4. c.fingerprint.file_count \in Nat
    BY <1>1 DEF Call, RulesDirFingerprint
  <2> QED BY <1>1, <1>2, <2>3, <2>4 DEF Enough, Counts
<1> QED BY <1>1, <1>2, <1>4, <1>5, <1>6 DEF CallSound

\* The fingerprint is taken: every file that is there is counted, or is newer.
LEMMA PrintEndSound ==
  ASSUME Inv, Steady, NEW r \in Readers, PrintEnd(r)
  PROVE  CallSound(Scan(reader[r], "load"))
<1> DEFINE c == reader[r]
           d == Scan(c, "load")
           m == c.fingerprint.max_mtime
<1>1. c \in Call /\ c.phase = "print" /\ c.due \cap Present \subseteq c.seen
      /\ Since(c) /\ Printing(c)
  BY Typing DEF PrintEnd, Scanning, ScanOver, Inv, Typed, ReadersSound, CallSound
<1>2. /\ d.phase = "load" /\ d.due = Present /\ d.seen = {} /\ d.fingerprint = c.fingerprint
      /\ d.rules = NoRules /\ d.past = c.past /\ c.seen \in SUBSET Ids
  BY <1>1 DEF Call, Scan, Printing
<1> SUFFICES CallSound(d)
  OBVIOUS
<1> HIDE DEF c, d
<1>3. Loaded(d.rules) = {}
  BY <1>2 DEF Loaded, NoRules
<1>4. Since(d)
  BY <1>1, <1>2 DEF Since, Present, OnDisk
<1>5. Loading(d)
  BY <1>2, <1>3 DEF Loading, NoRules, Present
<1>6. Enough(d)
  <2>1. CASE Present \subseteq c.seen
    <3>1. Cardinality(Present) <= Cardinality(c.seen) /\ Cardinality(Present) \in Nat
          /\ Cardinality(c.seen) \in Nat
      BY <1>2, <2>1, CountOfIds
    <3>2. Present \cup Loaded(d.rules) = Present
      BY <1>3
    <3> QED BY <1>1, <1>2, <3>1, <3>2 DEF Enough, Counts, Printing
  <2>2. CASE Deletes /\ ~(Present \subseteq c.seen)
    <3>1. PICK i \in Present : i \notin c.seen /\ i \notin c.due
      BY <1>1, <2>2
    <3>2. Created(i) /\ Newer(i, m) /\ i \in Ids
      BY <1>1, <2>2, <3>1 DEF Printing, Present
    <3>3. ~Deleted(i)
      BY <3>2 DEF Created, Writes, Puts, Steady
    <3> QED BY <1>2, <3>2, <3>3 DEF Enough, Counts, Stale
  <2> QED BY <2>1, <2>2 DEF Enough, Counts
<1> QED BY <1>2, <1>4, <1>5, <1>6 DEF CallSound

\* All the rules are loaded: each as it has been, those not newer as they are.
LEMMA LoadEndSound ==
  ASSUME Inv, NEW r \in Readers, LoadEnd(r)
  PROVE  CallSound([reader[r] EXCEPT !.phase = "store"])
<1> DEFINE c == reader[r]
           d == [c EXCEPT !.phase = "store"]
           m == c.fingerprint.max_mtime
<1>1. c \in Call /\ c.phase = "load" /\ c.due \cap Present \subseteq c.seen
      /\ Since(c) /\ Loading(c) /\ Enough(c)
  BY Typing DEF LoadEnd, Scanning, ScanOver, Inv, Typed, ReadersSound, CallSound
<1>2. /\ d.phase = "store" /\ d.due = c.due /\ d.fingerprint = c.fingerprint
      /\ d.rules = c.rules /\ d.past = c.past /\ c.seen \in SUBSET Ids /\ m \in Nat
  BY <1>1 DEF Call, RulesDirFingerprint
<1> SUFFICES CallSound(d)
  OBVIOUS
<1> HIDE DEF c, d
<1>3. ASSUME NEW i \in Ids PROVE c.rules[i] \in c.past[i]
  <2>1. CASE i \in c.seen
    BY <1>1, <2>1 DEF Loading
  <2>2. CASE i \notin c.seen
    <3>1. c.rules[i] = 0
      BY <1>1, <2>2 DEF Loading
    <3>2. ~Exists(i) => 0 \in c.past[i]
      BY <1>1 DEF Since, OnDisk
    <3>3. i \notin c.due \/ ~Exists(i)
      BY <1>1, <2>2 DEF Present
    <3> QED BY <1>1, <3>1, <3>2, <3>3 DEF Since
  <2> QED BY <2>1, <2>2
<1>4. ASSUME NEW i \in Ids, UpTo(i, m) PROVE c.rules[i] = OnDisk(i)
  <2>1. i \in c.seen
    <3> SUFFICES ASSUME i \notin c.seen PROVE FALSE
      OBVIOUS
    <3>1. Exists(i) /\ i \notin c.due
      BY <1>1, <1>4 DEF UpTo, Present
    <3>2. files[i].mtime > m /\ files[i].mtime \in Nat
      BY <1>1, <3>1, Typing DEF Loading, Newer, Inv, Typed
    <3> QED BY <1>2, <1>4, <3>2 DEF UpTo
  <2> QED BY <1>1, <1>4, <2>1 DEF Loading
<1>5. Since(d) /\ Enough(d)
  BY <1>1, <1>2 DEF Since, Enough
<1>6. AsOnDisk(d) /\ Current(d.rules, m)
  BY <1>1, <1>2, <1>3, <1>4 DEF AsOnDisk, Current, Loading
<1> QED BY <1>2, <1>5, <1>6 DEF CallSound

\* The cache is served: its fingerprint matches only if it has the rules that are there.
LEMMA HitSound ==
  ASSUME Inv, NEW r \in Readers, CheckEnd(r), Matches(reader[r].fingerprint, cache)
  PROVE  CallSound([reader[r] EXCEPT !.phase = "done", !.rules = cache.rules])
<1> DEFINE c == reader[r]
           d == [c EXCEPT !.phase = "done", !.rules = cache.rules]
           rules == cache.rules
<1>1. c \in Call /\ c.phase = "check" /\ c.due \cap Present \subseteq c.seen
      /\ Since(c) /\ Checking(c) /\ c.fingerprint = cache.fingerprint
  BY Typing DEF CheckEnd, Scanning, ScanOver, Inv, Typed, ReadersSound, CallSound, Matches
<1>2. d.phase = "done" /\ d.rules = rules /\ d.past = c.past /\ c.seen \in SUBSET Ids
      /\ c.due \in SUBSET Ids /\ c.fingerprint.max_mtime \in Nat
  BY <1>1 DEF Call, RulesDirFingerprint
<1> SUFFICES CallSound(d)
  OBVIOUS
<1> HIDE DEF c, d
<1>3. ~Outdated(c)
  BY <1>1, <1>2 DEF Outdated
<1>4. c.seen \subseteq Loaded(rules) /\ \A i \in c.seen : rules[i] \in c.past[i]
  BY <1>1, <1>2, <1>3 DEF Checking, Loaded
<1>5. \A i \in Loaded(rules) : ~Deleted(i) => i \in c.seen
  BY <1>1 DEF Checking, Loaded, Present
<1>6. c.seen = Loaded(rules)
  <2>1. CASE Deletes
    <3>1. c.fingerprint.file_count >= Cardinality(Loaded(rules))
      <4>1. ASSUME NEW i \in c.due, Newer(i, cache.fingerprint.max_mtime), i \in c.seen => Outdated(c)
            PROVE  FALSE
        BY <1>1, <1>2, <1>3, <4>1 DEF Newer, Present
      <4> QED BY <1>1, <2>1, <4>1 DEF Checking
    <3>2. Cardinality(c.seen) >= Cardinality(Loaded(rules))
      BY <1>1, <3>1 DEF Checking
    <3>3. Loaded(rules) \in SUBSET Ids
      BY DEF Loaded
    <3> HIDE DEF rules
    <3> QED BY <1>4, <3>2, <3>3, CountOfIds
  <2>2. CASE ~Deletes
    BY <1>4, <1>5, <2>2 DEF Deletes, Loaded
  <2> QED BY <2>1, <2>2
<1>7. ASSUME NEW i \in Ids PROVE rules[i] \in c.past[i]
  <2>1. CASE i \in c.seen
    BY <1>4, <2>1
  <2>2. CASE i \notin c.seen
    <3>1. rules[i] = 0
      BY <1>6, <2>2 DEF Loaded
    <3>2. ~Exists(i) => 0 \in c.past[i]
      BY <1>1 DEF Since, OnDisk
    <3>3. i \notin c.due \/ ~Exists(i)
      BY <1>1, <2>2 DEF Present
    <3> QED BY <1>1, <3>1, <3>2, <3>3 DEF Since
  <2> QED BY <2>1, <2>2
<1> QED BY <1>2, <1>7 DEF CallSound, AsOnDisk

\* Each step of a request keeps the invariant.
LEMMA ReadSound ==
  ASSUME Inv, Steady, NEW r \in Readers, Read(r)
  PROVE  Inv'
<1> DEFINE c == reader[r]
<1>1. Typed' /\ c \in Call /\ reader \in [Readers -> Call] /\ CallSound(c)
  BY ReadTyped, Typing DEF Inv, Typed, ReadersSound
<1>2. ASSUME NEW d, CallSound(d), reader' = [reader EXCEPT ![r] = d],
             UNCHANGED <<files, tmp, clock, begun, writer, cache>>
      PROVE  Inv'
  BY <1>1, <1>2, OneCallChanges
<1>3. CASE ReadBegin(r)
  <2> DEFINE phase == IF cache = None THEN "print" ELSE "check"
             past == [id \in Ids |-> {OnDisk(id)}]
             calm == \A w \in Writers : writer[w].pc = "idle"
             begun1 == [Idle EXCEPT !.past = past, !.calm = calm]
             d == [Scan(Idle, phase) EXCEPT !.past = past, !.calm = calm]
  <2>1. past \in [Ids -> SUBSET Content] /\ calm \in BOOLEAN /\ \A i \in Ids : OnDisk(i) \in past[i]
    BY FileTypes DEF Inv, Typed
  <2>2. begun1 \in Call /\ begun1.past = past /\ begun1.fingerprint = EmptyPrint /\ begun1.rules = NoRules
    <3> HIDE DEF past, calm
    <3>1. Idle.fingerprint = EmptyPrint /\ Idle.rules = NoRules
      BY DEF Idle
    <3> QED BY <2>1, <3>1, IdleTyped DEF Call
  <2>3. d = Scan(begun1, phase)
    <3> HIDE DEF past, calm, phase
    <3> QED BY IdleTyped DEF Scan, Call
  <2>4. phase \in {"check", "print"} /\ (phase = "check" => cache # None)
    OBVIOUS
  <2>5. CallSound(Scan(begun1, phase))
    <3> HIDE DEF past, calm, phase, begun1
    <3> QED BY <2>1, <2>2, <2>4, ScanBegins
  <2>6. reader' = [reader EXCEPT ![r] = d] /\ UNCHANGED <<files, tmp, clock, begun, writer, cache>>
    BY <1>3 DEF ReadBegin
  <2> HIDE DEF d, begun1
  <2> QED BY <1>2, <2>3, <2>5, <2>6
<1>4. ASSUME NEW id \in Ids, PrintFile(r, id) PROVE Inv'
  <2> DEFINE d == [c EXCEPT !.seen = @ \cup {id}, !.fingerprint = Counted(@, id)]
  <2>1. CallSound(d)
    BY <1>4, PrintFileSound
  <2>2. reader' = [reader EXCEPT ![r] = d] /\ UNCHANGED <<files, tmp, clock, begun, writer, cache>>
    BY <1>1, <1>4 DEF PrintFile
  <2> HIDE DEF d
  <2> QED BY <1>2, <2>1, <2>2
<1>5. CASE CheckEnd(r)
  <2>1. CASE Matches(c.fingerprint, cache)
    <3> DEFINE d == [c EXCEPT !.phase = "done", !.rules = cache.rules]
    <3>1. CallSound(d)
      BY <1>5, <2>1, HitSound
    <3>2. reader' = [reader EXCEPT ![r] = d] /\ UNCHANGED <<files, tmp, clock, begun, writer, cache>>
      BY <1>1, <1>5, <2>1 DEF CheckEnd
    <3> HIDE DEF d
    <3> QED BY <1>2, <3>1, <3>2
  <2>2. CASE ~Matches(c.fingerprint, cache)
    <3> DEFINE e == [c EXCEPT !.fingerprint = EmptyPrint]
               d == Scan(e, "print")
    <3>1. e \in Call /\ e.fingerprint = EmptyPrint /\ e.rules = c.rules /\ e.past = c.past
      BY <1>1 DEF Call, EmptyPrint, RulesDirFingerprint
    <3>2. c.rules = NoRules /\ \A i \in Ids : OnDisk(i) \in c.past[i]
      BY <1>1, <1>5 DEF CheckEnd, Scanning, CallSound, Checking, Since
    <3>3. CallSound(d)
      <4> HIDE DEF e
      <4> QED BY <3>1, <3>2, ScanBegins
    <3>4. reader' = [reader EXCEPT ![r] = d] /\ UNCHANGED <<files, tmp, clock, begun, writer, cache>>
      BY <1>1, <1>5, <2>2 DEF CheckEnd
    <3> HIDE DEF d
    <3> QED BY <1>2, <3>3, <3>4
  <2> QED BY <2>1, <2>2
<1>6. CASE PrintEnd(r)
  <2>1. reader' = [reader EXCEPT ![r] = Scan(c, "load")]
        /\ UNCHANGED <<files, tmp, clock, begun, writer, cache>>
    BY <1>1, <1>6 DEF PrintEnd
  <2> QED BY <1>2, <1>6, <2>1, PrintEndSound
<1>7. ASSUME NEW id \in Ids, LoadFile(r, id) PROVE Inv'
  <2> DEFINE d == [c EXCEPT !.seen = @ \cup {id}, !.rules[id] = OnDisk(id)]
  <2>1. CallSound(d)
    BY <1>7, LoadFileSound
  <2>2. reader' = [reader EXCEPT ![r] = d] /\ UNCHANGED <<files, tmp, clock, begun, writer, cache>>
    BY <1>1, <1>7 DEF LoadFile
  <2> HIDE DEF d
  <2> QED BY <1>2, <2>1, <2>2
<1>8. CASE LoadEnd(r)
  <2> DEFINE d == [c EXCEPT !.phase = "store"]
  <2>1. CallSound(d)
    BY <1>8, LoadEndSound
  <2>2. reader' = [reader EXCEPT ![r] = d] /\ UNCHANGED <<files, tmp, clock, begun, writer, cache>>
    BY <1>1, <1>8 DEF LoadEnd
  <2> HIDE DEF d
  <2> QED BY <1>2, <2>1, <2>2
<1>9. CASE ReadFails(r) \/ ReadReturn(r)
  <2>1. CallSound(Idle)
    BY DEF CallSound, Idle
  <2> QED BY <1>2, <1>9, <2>1 DEF ReadFails, ReadReturn
<1>10. CASE Store(r)
  <2> DEFINE d == [c EXCEPT !.phase = "done"]
             m == c.fingerprint.max_mtime
  <2>1. Since(c) /\ AsOnDisk(c) /\ Current(c.rules, m) /\ Enough(c)
    BY <1>1, <1>10 DEF Store, CallSound
  <2>2. /\ cache' = [rules |-> c.rules, fingerprint |-> c.fingerprint] /\ Unlocked
        /\ UNCHANGED <<files, tmp, clock, begun, writer>> /\ reader' = [reader EXCEPT ![r] = d]
    BY <1>1, <1>10 DEF Store
  <2>3. d.phase = "done" /\ d.rules = c.rules /\ d.past = c.past
    BY <1>1 DEF Call
  <2>4. WorkersSound' /\ FilesSound'
    BY <2>2 DEF Inv, WorkersSound, Working, FilesSound, Dated, Newest, Exists
  <2>5. CacheSound'
    <3>1. Loaded(c.rules) \in SUBSET (Present \cup Loaded(c.rules))
          /\ Present \cup Loaded(c.rules) \in SUBSET Ids
      BY DEF Present, Loaded
    <3>2. /\ Cardinality(Loaded(c.rules)) <= Cardinality(Present \cup Loaded(c.rules))
          /\ Cardinality(Loaded(c.rules)) \in Nat /\ Cardinality(Present \cup Loaded(c.rules)) \in Nat
      BY <3>1, CountOfIds
    <3>3. c.fingerprint.file_count \in Nat
      BY <1>1 DEF Call, RulesDirFingerprint
    <3>4. Counts(c.fingerprint, Loaded(c.rules))
      BY <2>1, <3>2, <3>3 DEF Enough, Counts
    <3>5. cache'.rules = c.rules /\ cache'.fingerprint = c.fingerprint
      BY <2>2
    <3> QED BY <2>1, <2>2, <3>4, <3>5 DEF CacheSound, Since, Counts, Reached, Stale, Newer, Current, UpTo,
                                          OnDisk, Exists, Loaded
  <2>6. ReadersSound'
    <3>1. \A e : e.phase # "check" /\ CallSound(e) => CallSound(e)'
      BY <2>2 DEF CallSound, Since, Printing, Loading, Enough, Counts, AsOnDisk, Current, Reached,
                  Stale, Newer, UpTo, OnDisk, Present, Exists, Loaded
    <3>2. CallSound(d)
      BY <2>1, <2>3 DEF CallSound, AsOnDisk
    <3>3. \A u \in Readers : reader[u].phase # "check" /\ CallSound(reader[u])
      BY <2>2 DEF Inv, ReadersSound, Unlocked
    <3>4. \A u \in Readers : reader'[u] = d \/ reader'[u] = reader[u]
      BY <1>1, <2>2
    <3>5. \A u \in Readers : \A e : e = reader'[u] => CallSound(e)' /\ e.phase # "check"
      <4> HIDE DEF d
      <4> QED BY <2>3, <3>1, <3>2, <3>3, <3>4
    <3> QED BY <3>5 DEF ReadersSound, CallSound, Since, Checking, Printing, Loading, Enough, Counts, AsOnDisk,
                        Current, Outdated, Reached, Stale, Newer, UpTo, OnDisk, Present, Exists, Loaded
  <2> QED BY <1>1, <2>4, <2>5, <2>6 DEF Inv
<1> QED BY <1>3, <1>4, <1>5, <1>6, <1>7, <1>8, <1>9, <1>10 DEF Read

-----------------------------------------------------------------------------
(***************************************************************************)
(* The writers, beside the requests.                                       *)
(***************************************************************************)

\* A rename puts a file newer than all others; a removal takes one nobody writes.
LEMMA WritersChange ==
  ASSUME Inv, Steady, NEW w \in Writers, Rename(w) \/ Remove(w), NEW id, id = writer[w].id
  PROVE  /\ id \in Ids /\ Change(id) /\ UNCHANGED cache
         /\ OnDisk(id)' \in Content /\ reader' = Witnessed(id, OnDisk(id)')
<1>1. /\ id \in Ids /\ <<writer[w].op, id>> \in Ops[w] /\ Working(writer[w])
      /\ files \in [Ids -> File \cup {None}] /\ tmp \in [Ids -> File \cup {None}]
  BY Typing DEF Inv, Typed, WorkersSound, Rename, Remove
<1>2. CASE Rename(w)
  <2>1. /\ tmp[id] \in File /\ tmp[id] # None /\ files' = [files EXCEPT ![id] = tmp[id]]
        /\ UNCHANGED cache /\ reader' = Witnessed(id, tmp[id].content)
    BY <1>1, <1>2 DEF Rename
  <2>2. tmp[id].mtime > 0 /\ tmp[id].content > 0 /\ Newest(id)
    BY <1>1, <1>2, <2>1 DEF Inv, FilesSound, Dated, Rename
  <2>3. ~Deleted(id) /\ (Exists(id) \/ Created(id))
    BY <1>1, <1>2 DEF Rename, Working, Writes, Steady
  <2>4. Put(id, tmp[id])
    BY <2>1, <2>2, <2>3 DEF Put, Newest
  <2>5. OnDisk(id)' = tmp[id].content /\ tmp[id].content \in Content
    BY <1>1, <2>1 DEF OnDisk, Exists, File
  <2> QED BY <1>1, <2>1, <2>4, <2>5 DEF Change
<1>3. CASE Remove(w)
  <2>1. /\ Exists(id) /\ files' = [files EXCEPT ![id] = None]
        /\ UNCHANGED cache /\ reader' = Witnessed(id, 0)
    BY <1>1, <1>3 DEF Remove
  <2>2. Deleted(id)
    BY <1>1, <1>3 DEF Remove, Working, Deleted
  <2>3. OnDisk(id)' = 0 /\ 0 \in Content
    BY <1>1, <2>1, RuleStoreAssumption DEF OnDisk, Exists, Content
  <2> QED BY <1>1, <2>1, <2>2, <2>3 DEF Change, Take
<1> QED BY <1>2, <1>3

\* Each step of a writer keeps the invariant.
LEMMA WriteSound ==
  ASSUME Inv, Steady, NEW w \in Writers, Write(w)
  PROVE  Inv'
<1>1. Typed' /\ WorkersSound' /\ FilesSound'
  BY WriteTyped, WritersStaySound DEF Inv
<1>2. CASE Rename(w) \/ Remove(w)
  <2> PICK id : id = writer[w].id
    OBVIOUS
  <2>1. PICK o \in Content : o = OnDisk(id)' /\ reader' = Witnessed(id, o)
    BY <1>2, WritersChange
  <2>2. id \in Ids /\ Change(id) /\ UNCHANGED cache
    BY <1>2, WritersChange
  <2>3. CacheSound'
    BY <2>2, CacheStaysSound DEF Inv
  <2>4. ASSUME NEW r \in Readers, NEW e, e = reader'[r] PROVE CallSound(e)'
    <3>1. reader[r] \in Call /\ CallSound(reader[r])
      BY Typing DEF Inv, Typed, ReadersSound
    <3>2. CASE reader[r].phase \in {"idle", "done"}
      <4>1. e = reader[r]
        BY <2>1, <2>4, <3>2 DEF Witnessed
      <4> QED BY <3>1, <3>2, <4>1 DEF CallSound, AsOnDisk
    <3>3. CASE reader[r].phase \notin {"idle", "done"}
      <4> PICK c : c = reader[r]
        OBVIOUS
      <4>1. e = [c EXCEPT !.past[id] = @ \cup {o}]
        BY <2>1, <2>4, <3>3 DEF Witnessed
      <4> QED BY <2>1, <2>2, <3>1, <3>3, <4>1, CallStaysSound DEF Inv
    <3> QED BY <3>2, <3>3
  <2>5. ReadersSound'
    BY <2>4 DEF ReadersSound, CallSound, Since, Checking, Printing, Loading, Enough, Counts, AsOnDisk,
                Current, Outdated, Reached, Stale, Newer, UpTo, OnDisk, Present, Exists, Loaded
  <2> QED BY <1>1, <2>3, <2>5 DEF Inv
<1>3. CASE UNCHANGED <<files, reader>> /\ (UNCHANGED cache \/ Invalidate(w))
  <2>1. CacheSound'
    BY <1>3 DEF Inv, CacheSound, Counts, Reached, Stale, Newer, Current, UpTo, OnDisk, Exists, Invalidate
  <2>2. ASSUME NEW r \in Readers, NEW e, e = reader[r] PROVE CallSound(e)'
    <3>1. CallSound(e) /\ (UNCHANGED cache \/ e.phase # "check")
      BY <1>3, <2>2 DEF Inv, ReadersSound, Invalidate, Unlocked
    <3> QED BY <1>3, <3>1 DEF CallSound, Since, Checking, Printing, Loading, Enough, Counts, AsOnDisk, Current,
                              Outdated, Reached, Stale, Newer, UpTo, OnDisk, Present, Exists, Loaded
  <2>3. ReadersSound'
    BY <1>3, <2>2 DEF ReadersSound, CallSound, Since, Checking, Printing, Loading, Enough, Counts, AsOnDisk,
                Current, Outdated, Reached, Stale, Newer, UpTo, OnDisk, Present, Exists, Loaded
  <2> QED BY <1>1, <2>1, <2>3 DEF Inv
<1>4. Rename(w) \/ Remove(w) \/ (UNCHANGED <<files, reader>> /\ (UNCHANGED cache \/ Invalidate(w)))
  BY DEF Write, CreateBegin, CreateWithIdBegin, UpdateBegin, DeleteBegin, Begin, WriteTmp, Fails, Invalidate
<1> QED BY <1>2, <1>3, <1>4

-----------------------------------------------------------------------------
\* The invariant of the service of rules holds where operations are steady.
LEMMA InvHolds == ASSUME Steady PROVE Spec => []Inv
<1>1. Init => Inv
  <2> SUFFICES ASSUME Init PROVE Inv
    OBVIOUS
  <2>1. Typed
    BY InitTyped, IdleTyped DEF Typed, Locked, Init
  <2>2. WorkersSound
    BY RestingTyped DEF Init, WorkersSound
  <2>3. ASSUME NEW i \in Ids PROVE Dated(i)
    BY RuleStoreAssumption DEF Init, Dated, Exists
  <2>4. FilesSound
    BY <2>3, RestingTyped DEF Init, FilesSound
  <2>5. CacheSound
    BY DEF Init, CacheSound
  <2>6. ReadersSound
    BY IdleTyped DEF Init, ReadersSound, CallSound
  <2> QED BY <2>1, <2>2, <2>4, <2>5, <2>6 DEF Inv
<1>2. Inv /\ [Next]_vars => Inv'
  <2> SUFFICES ASSUME Inv, [Next]_vars PROVE Inv'
    OBVIOUS
  <2>1. Typed'
    BY TypedStays DEF Inv
  <2>2. CASE UNCHANGED vars
    <3>1. UNCHANGED <<files, tmp, clock, writer, cache, reader>>
      BY <2>2 DEF vars
    <3>2. WorkersSound' /\ FilesSound'
      BY <3>1 DEF Inv, WorkersSound, Working, FilesSound, Dated, Newest, Exists
    <3>3. CacheSound'
      BY <3>1 DEF Inv, CacheSound, Counts, Reached, Stale, Newer, Current, UpTo, OnDisk, Exists
    <3>4. \A c : CallSound(c) => CallSound(c)'
      BY <3>1 DEF CallSound, Since, Checking, Printing, Loading, Enough, Counts, AsOnDisk, Current, Outdated,
                  Reached, Stale, Newer, UpTo, OnDisk, Present, Exists, Loaded
    <3>5. \A r \in Readers : \A c : c = reader'[r] => CallSound(c)'
      BY <3>1, <3>4 DEF Inv, ReadersSound
    <3>6. ReadersSound'
      BY <3>5 DEF ReadersSound, CallSound, Since, Checking, Printing, Loading, Enough, Counts, AsOnDisk,
                  Current, Outdated, Reached, Stale, Newer, UpTo, OnDisk, Present, Exists, Loaded
    <3> QED BY <2>1, <3>2, <3>3, <3>6 DEF Inv
  <2>3. CASE Restart
    <3>1. WorkersSound'
      BY <2>3, RestingTyped DEF Restart, Inv, WorkersSound, Working, Exists
    <3>2. FilesSound'
      BY <2>3, RestingTyped DEF Restart, Inv, FilesSound, Dated, Newest, Exists
    <3>3. CacheSound' /\ ReadersSound'
      BY <2>3, IdleTyped DEF Restart, CacheSound, ReadersSound, CallSound
    <3> QED BY <2>1, <3>1, <3>2, <3>3 DEF Inv
  <2> QED BY <2>2, <2>3, ReadSound, WriteSound DEF Next
<1> QED BY <1>1, <1>2, PTL DEF Spec

\* A request is served each rule as it was on disk while it asked for the rules, from the
\* files or from the cache (get_rules_cache_entry, storage/mod.rs), for any number of
\* requests, rules and writes, as long as the writers are Steady.
THEOREM ServedFromDisk == ASSUME Steady PROVE Spec => []ServedAsOnDisk
<1>1. Inv => ServedAsOnDisk
  BY DEF Inv, ReadersSound, CallSound, ServedAsOnDisk
<1> QED BY <1>1, InvHolds, PTL
=============================================================================
