---------------------------- MODULE EntryLifecycle ----------------------------
(***************************************************************************)
(* What the capture cache promises of an exchange: it is recorded once, is *)
(* pending until it reaches a terminal status, and can be forgotten only   *)
(* after that, never to come back.                                         *)
(***************************************************************************)
CONSTANT Ids
VARIABLE life

Stages == {"absent", "pending", "terminal", "gone"}

Forgotten(ids, f) == [id \in Ids |-> IF id \in ids THEN "gone" ELSE f[id]]

Init == life = [id \in Ids |-> "absent"]

\* Recording an exchange may make the cache forget finished ones.
Record(id) ==
  /\ life[id] = "absent"
  /\ \E ids \in SUBSET {i \in Ids : life[i] = "terminal"} :
       life' = Forgotten(ids, [life EXCEPT ![id] = "pending"])

Finish(id) ==
  /\ life[id] = "pending"
  /\ life' = [life EXCEPT ![id] = "terminal"]

Forget(id) ==
  /\ life[id] = "terminal"
  /\ life' = [life EXCEPT ![id] = "gone"]

Next == \E id \in Ids : Record(id) \/ Finish(id) \/ Forget(id)

Spec == Init /\ [][Next]_life
===============================================================================
