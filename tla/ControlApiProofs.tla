--------------------------- MODULE ControlApiProofs ---------------------------
(***************************************************************************)
(* Proofs about ControlApi and the SettingsFiles under it: for any clients *)
(* and values, and requests, crashes and failed writes without bound, the  *)
(* settings files hold whole and consistent documents, calls answer what   *)
(* they have done, and a project with rules stays.                         *)
(***************************************************************************)
EXTENDS ControlApi, FiniteSetTheorems, WellFoundedInduction, TLAPS

(***************************************************************************)
(* The documents of each file.                                             *)
(***************************************************************************)
ProjectDocs ==
  [active : ProjectIds, projects : SUBSET [id : ProjectIds, name : Names \cup {DefaultName}]]
CaptureRule == [id : Int, enabled : BOOLEAN]
CaptureDocs == [focus : SUBSET CaptureRule, ignore : SUBSET CaptureRule]
Settings == Values \cup {DefaultValue}

Marks == {None, Empty, Torn}

\* What the constants stand for: None and what cannot be read are no documents.
Constants ==
  /\ DefaultId \in ProjectIds /\ CaptureIds \subseteq Int /\ HistoryLimit \in Nat
  /\ MaxRequests \in Nat /\ None \notin {Empty, Torn}
  /\ Marks \cap (ProjectDocs \cup CaptureDocs \cup Seq(Exprs) \cup Settings) = {}

\* The document d is whole and consistent.
Good(f, d) ==
  /\ f = "projects" => d \in ProjectDocs /\ ProjectsFine(d)
  /\ f = "capture_rules" =>
       d \in CaptureDocs /\ IsFiniteSet(d.focus) /\ IsFiniteSet(d.ignore) /\ CaptureRulesFine(d)
  /\ f = "traffic_filter_history" => d \in Seq(Exprs) /\ HistoryFine(d)
  /\ f \in WholeFiles => d \in Settings

\* The operations on each file, and what each of them is given.
Fits(f, edit, arg) ==
  \/ edit = "get"
  \/ f \in WholeFiles /\ edit = "put" /\ arg \in Values
  \/ f = "projects" /\ edit \in {"active", "remove"} /\ arg.id \in ProjectIds
  \/ f = "projects" /\ edit \in {"create", "rename"} /\ arg.id \in ProjectIds /\ arg.name \in Names
  \/ f = "capture_rules" /\ edit \in {"upsert", "enable"}
       /\ arg.kind \in Kinds /\ arg.id \in CaptureIds /\ arg.enabled \in BOOLEAN
  \/ f = "capture_rules" /\ edit = "delete" /\ arg.kind \in Kinds /\ arg.id \in CaptureIds
  \/ f = "traffic_filter_history" /\ edit = "append" /\ arg \in Exprs
  \/ f = "traffic_filter_history" /\ edit = "put" /\ arg = << >>

-----------------------------------------------------------------------------
(***************************************************************************)
(* Finite sets of numbers.                                                 *)
(***************************************************************************)

\* One of finitely many numbers is the greatest.
LEMMA GreatestExists ==
  ASSUME NEW S, IsFiniteSet(S), S # {}, S \subseteq Int
  PROVE  \E best \in S : \A y \in S : y <= best
<1> DEFINE above(x) == {y \in S : y > x}
           sizes == {Cardinality(above(x)) : x \in S}
<1>1. \A x \in S : IsFiniteSet(above(x)) /\ Cardinality(above(x)) \in Nat
  BY FS_Subset, FS_CardinalityType
<1>2. sizes \subseteq Nat /\ sizes # {}
  BY <1>1
<1>3. PICK least \in sizes : \A s \in sizes : <<s, least>> \notin OpToRel(<, Nat)
  <2> HIDE DEF sizes
  <2>1. QED BY <1>2, WFMin, NatLessThanWellFounded
<1>4. \A s \in sizes : ~(s < least)
  BY <1>2, <1>3 DEF OpToRel
<1>5. PICK x \in S : Cardinality(above(x)) = least
  BY <1>3
<1>6. ASSUME NEW y \in above(x) PROVE FALSE
  <2>1. y \in S /\ x \in Int /\ y \in Int /\ y > x
    OBVIOUS
  <2>2. above(y) \in SUBSET above(x)
    <3>1. \A z \in S : z \in Int /\ (z > y => z > x)
      BY <2>1
    <3>2. QED BY <3>1
  <2>3. y \notin above(y)
    BY <2>1
  <2>4. Cardinality(above(y)) < Cardinality(above(x))
    <3> HIDE DEF above
    <3>1. /\ Cardinality(above(y)) <= Cardinality(above(x))
          /\ Cardinality(above(y)) = Cardinality(above(x)) => above(y) = above(x)
      BY <1>1, <2>2, FS_Subset
    <3>2. QED BY <1>1, <1>6, <2>1, <2>3, <3>1
  <2>5. QED BY <1>4, <1>5, <2>1, <2>4
<1>7. \A y \in S : y <= x
  BY <1>6
<1>8. QED BY <1>7

\* Counted from the least, each place among finitely many numbers is somebody's.
LEMMA EachPlaceTaken ==
  ASSUME NEW S, IsFiniteSet(S), S \subseteq Nat, NEW k \in 1 .. Cardinality(S)
  PROVE  \E i \in S : Cardinality({j \in S : j <= i}) = k
<1> DEFINE n == Cardinality(S)
           upTo(i) == {j \in S : j <= i}
           taken(m) == \E i \in S : Cardinality(upTo(i)) = m
           missing == {d \in Nat : n - d >= 1 /\ ~taken(n - d)}
<1>1. n \in Nat
  BY FS_CardinalityType
<1>2. ASSUME missing # {} PROVE FALSE
  <2>1. PICK d \in missing : \A e \in missing : <<e, d>> \notin OpToRel(<, Nat)
    <3>1. missing \subseteq Nat
      OBVIOUS
    <3> HIDE DEF missing
    <3>2. QED BY <1>2, <3>1, WFMin, NatLessThanWellFounded
  <2>2. d \in Nat /\ n - d >= 1 /\ ~taken(n - d) /\ \A e \in missing : ~(e < d)
    BY <2>1 DEF OpToRel
  <2>3. CASE d = 0
    <3>1. S # {}
      BY <1>1, <2>2, <2>3, FS_EmptySet
    <3>2. PICK best \in S : \A y \in S : y <= best
      <4>1. S \subseteq Int
        OBVIOUS
      <4>2. QED BY <3>1, <4>1, GreatestExists
    <3>3. upTo(best) = S
      BY <3>2
    <3>4. taken(n)
      BY <3>3
    <3>5. n - d = n
      BY <1>1, <2>3
    <3>6. QED BY <2>2, <3>4, <3>5
  <2>4. CASE d > 0
    <3>1. d - 1 \in Nat /\ n - (d - 1) >= 1 /\ d - 1 < d
      BY <1>1, <2>2, <2>4
    <3>2. taken(n - (d - 1))
      BY <2>2, <3>1
    <3>3. PICK i \in S : Cardinality(upTo(i)) = n - (d - 1)
      BY <3>2
    <3> DEFINE rest == upTo(i) \ {i}
    <3>4. IsFiniteSet(upTo(i)) /\ i \in upTo(i)
      BY FS_Subset
    <3>5. IsFiniteSet(rest) /\ Cardinality(rest) = n - d
      <4> HIDE DEF upTo
      <4>1. IsFiniteSet(rest) /\ Cardinality(rest) = Cardinality(upTo(i)) - 1
        BY <3>4, FS_RemoveElement
      <4>2. QED BY <1>1, <2>2, <3>3, <4>1
    <3>6. rest # {}
      <4> HIDE DEF rest
      <4>1. QED BY <1>1, <2>2, <3>5, FS_EmptySet
    <3>7. PICK before \in rest : \A y \in rest : y <= before
      <4>1. rest \subseteq S /\ S \subseteq Int
        OBVIOUS
      <4> HIDE DEF rest
      <4>2. QED BY <3>5, <3>6, <4>1, GreatestExists
    <3>8. before \in S /\ upTo(before) = rest
      <4>1. before \in S /\ before <= i /\ before # i /\ before \in Nat /\ i \in Nat
        BY <3>7
      <4>2. \A j \in S : j \in Nat
        OBVIOUS
      <4>3. \A j \in S : j <= before => j <= i /\ j # i
        BY <4>1, <4>2
      <4>4. \A j \in S : j <= i /\ j # i => j <= before
        BY <3>7
      <4>5. QED BY <4>1, <4>3, <4>4
    <3>9. QED BY <2>2, <3>5, <3>8
  <2>5. QED BY <2>2, <2>3, <2>4
<1>3. n - k \in Nat /\ n - (n - k) = k /\ k >= 1
  BY <1>1
<1>4. taken(k)
  BY <1>2, <1>3
<1>5. QED BY <1>4

-----------------------------------------------------------------------------
(***************************************************************************)
(* Each operation makes a good document of a good one.                     *)
(***************************************************************************)

\* What is left of a list is of the list, without the entry taken out, and nothing is there
\* twice that was not.
LEMMA WithoutIsPart ==
  ASSUME NEW doc \in Seq(Exprs), NEW expr
  PROVE  LET left == Without(doc, expr)
         IN  /\ left \in Seq(Exprs)
             /\ \A k \in 1 .. Len(left) : left[k] # expr
             /\ (\A i, j \in DOMAIN doc : doc[i] = doc[j] => i = j) =>
                  \A k, l \in 1 .. Len(left) : left[k] = left[l] => k = l
<1> DEFINE stay == {i \in DOMAIN doc : doc[i] # expr}
           n == Cardinality(stay)
           nth(k) == CHOOSE i \in stay : Cardinality({j \in stay : j <= i}) = k
           left == Without(doc, expr)
<1>1. left = [k \in 1 .. n |-> doc[nth(k)]]
  BY DEF Without
<1>2. DOMAIN doc = 1 .. Len(doc) /\ Len(doc) \in Nat
  OBVIOUS
<1>3. stay \subseteq Nat /\ IsFiniteSet(stay) /\ n \in Nat
  <2>1. IsFiniteSet(1 .. Len(doc))
    BY <1>2, FS_Interval
  <2>2. stay \in SUBSET (1 .. Len(doc)) /\ 1 .. Len(doc) \subseteq Nat
    BY <1>2
  <2> HIDE DEF stay
  <2>3. QED BY <2>1, <2>2, FS_Subset, FS_CardinalityType
<1>4. \A k \in 1 .. n : nth(k) \in stay /\ Cardinality({j \in stay : j <= nth(k)}) = k
  <2> SUFFICES ASSUME NEW k \in 1 .. n
               PROVE  nth(k) \in stay /\ Cardinality({j \in stay : j <= nth(k)}) = k
    OBVIOUS
  <2>1. \E i \in stay : Cardinality({j \in stay : j <= i}) = k
    <3> HIDE DEF stay
    <3>1. QED BY <1>3, EachPlaceTaken
  <2> HIDE DEF stay
  <2>2. QED BY <2>1
<1>5. \A k \in 1 .. n : nth(k) \in DOMAIN doc /\ doc[nth(k)] # expr /\ doc[nth(k)] \in Exprs
  <2>1. \A i \in stay : i \in DOMAIN doc /\ doc[i] # expr /\ doc[i] \in Exprs
    BY <1>2
  <2> HIDE DEF nth, stay
  <2>2. QED BY <1>4, <2>1
<1>6. \A k, l \in 1 .. n : nth(k) = nth(l) => k = l
  <2> HIDE DEF nth, stay
  <2>1. QED BY <1>4
<1> HIDE DEF nth, stay, n, left
<1>7. left \in Seq(Exprs) /\ Len(left) = n
  BY <1>1, <1>3, <1>5
<1>8. \A k \in 1 .. n : left[k] = doc[nth(k)]
  BY <1>1
<1>9. QED BY <1>5, <1>6, <1>7, <1>8 DEF left

\* What ensure_setting_defaults writes is good, and so is what stands for a missing file.
LEMMA DefaultGood == ASSUME Constants, NEW f \in Files PROVE Good(f, Default(f))
<1>1. Good("projects", DefaultProjects)
  <2> DEFINE only == [id |-> DefaultId, name |-> DefaultName]
  <2>1. DefaultProjects.active = DefaultId /\ DefaultProjects.projects = {only} /\ only.id = DefaultId
    BY DEF DefaultProjects
  <2>2. DefaultProjects \in ProjectDocs
    BY DEF Constants, DefaultProjects, ProjectDocs
  <2> HIDE DEF only
  <2>3. ProjectsFine(DefaultProjects)
    BY <2>1 DEF ProjectsFine, HasProject
  <2>4. QED BY <2>2, <2>3 DEF Good, WholeFiles
<1>2. Good("capture_rules", [focus |-> {}, ignore |-> {}])
  BY FS_EmptySet DEF Good, CaptureDocs, CaptureRulesFine, WholeFiles
<1>3. Good("traffic_filter_history", << >>)
  BY DEF Constants, Good, HistoryFine, WholeFiles
<1>4. \A g \in WholeFiles : Good(g, DefaultValue)
  BY DEF Good, Settings, WholeFiles
<1>5. QED BY <1>1, <1>2, <1>3, <1>4 DEF Default, Files, WholeFiles

\* A change of the projects that is accepted is good, and loses the project it removes only.
LEMMA ProjectsChange ==
  ASSUME Constants, NEW doc, Good("projects", doc),
         NEW c, c.edit \in {"active", "create", "rename", "remove"},
         Fits("projects", c.edit, c.arg), Result(c, doc).ok
  PROVE  LET new == Result(c, doc).doc
         IN  /\ Good("projects", new)
             /\ \A p \in doc.projects :
                  (c.edit = "remove" /\ p.id = c.arg.id) \/ \E q \in new.projects : q.id = p.id
<1>1. /\ doc \in ProjectDocs /\ ProjectsFine(doc) /\ doc.projects # {}
      /\ EnsureDefault(doc) = doc
  BY DEF Good, ProjectsFine, HasProject, EnsureDefault
<1>2. /\ doc = [active |-> doc.active, projects |-> doc.projects]
      /\ doc.active \in ProjectIds
      /\ doc.projects \subseteq [id : ProjectIds, name : Names \cup {DefaultName}]
      /\ c.arg.id \in ProjectIds /\ DefaultId \in ProjectIds
  BY <1>1 DEF ProjectDocs, Fits, WholeFiles, Constants
<1>3. /\ \E p \in doc.projects : p.id = doc.active
      /\ \E p \in doc.projects : p.id = DefaultId
      /\ \A p, q \in doc.projects : p.id = q.id => p = q
  BY <1>1 DEF ProjectsFine, HasProject
<1> DEFINE Keeps(new) ==
             \A p \in doc.projects :
               (c.edit = "remove" /\ p.id = c.arg.id) \/ \E q \in new.projects : q.id = p.id
<1>4. ASSUME NEW active \in ProjectIds,
             NEW projects \in SUBSET [id : ProjectIds, name : Names \cup {DefaultName}],
             \E p \in projects : p.id = active, \E p \in projects : p.id = DefaultId,
             \A p, q \in projects : p.id = q.id => p = q
      PROVE  Good("projects", [active |-> active, projects |-> projects])
  BY <1>4 DEF Good, ProjectDocs, ProjectsFine, HasProject, WholeFiles
<1>5. CASE c.edit = "active"
  <2>1. /\ Result(c, doc).doc = [active |-> c.arg.id, projects |-> doc.projects]
        /\ \E p \in doc.projects : p.id = c.arg.id
    BY <1>1, <1>2, <1>5 DEF Result, SetActiveProject, HasProject, Stored, Refused
  <2>2. QED BY <1>2, <1>3, <1>4, <2>1
<1>6. CASE c.edit = "create"
  <2> DEFINE new == [id |-> c.arg.id, name |-> c.arg.name]
  <2>1. /\ Result(c, doc).doc = [active |-> doc.active, projects |-> doc.projects \cup {new}]
        /\ \A p \in doc.projects : p.id # c.arg.id
    BY <1>1, <1>2, <1>6 DEF Result, CreateProject, HasProject, Stored, Refused
  <2>2. new \in [id : ProjectIds, name : Names \cup {DefaultName}]
    BY <1>6 DEF Fits, WholeFiles
  <2>3. \A p, q \in doc.projects \cup {new} : p.id = q.id => p = q
    BY <1>3, <2>1
  <2> HIDE DEF new
  <2>4. Good("projects", Result(c, doc).doc)
    BY <1>2, <1>3, <1>4, <2>1, <2>2, <2>3
  <2>5. QED BY <2>1, <2>4
<1>7. CASE c.edit = "rename"
  <2> DEFINE new(p) == IF p.id = c.arg.id THEN [p EXCEPT !.name = c.arg.name] ELSE p
             all == {new(p) : p \in doc.projects}
  <2>1. Result(c, doc).doc = [active |-> doc.active, projects |-> all]
    <3>1. RenameProject(doc, c.arg.id, c.arg.name).ok
      BY <1>1, <1>7 DEF Result
    <3>2. RenameProject(doc, c.arg.id, c.arg.name).doc = [doc EXCEPT !.projects = all]
      BY <3>1 DEF RenameProject, Stored, Refused
    <3> HIDE DEF all
    <3>3. [doc EXCEPT !.projects = all] = [active |-> doc.active, projects |-> all]
      BY <1>1 DEF ProjectDocs
    <3>4. Result(c, doc).doc = RenameProject(doc, c.arg.id, c.arg.name).doc
      BY <1>1, <1>7 DEF Result
    <3>5. QED BY <3>2, <3>3, <3>4
  <2>2. c.arg.name \in Names
    BY <1>7 DEF Fits, WholeFiles
  <2>3. ASSUME NEW p \in doc.projects
        PROVE  new(p).id = p.id /\ new(p) \in [id : ProjectIds, name : Names \cup {DefaultName}]
    BY <1>2, <2>2
  <2> HIDE DEF new
  <2>4. /\ all \subseteq [id : ProjectIds, name : Names \cup {DefaultName}]
        /\ \A p \in doc.projects : \E q \in all : q.id = p.id
        /\ \A q, r \in all : q.id = r.id => q = r
    BY <1>3, <2>3
  <2> HIDE DEF all
  <2>5. Good("projects", Result(c, doc).doc)
    BY <1>2, <1>3, <1>4, <2>1, <2>4
  <2>6. QED BY <2>1, <2>4, <2>5
<1>8. CASE c.edit = "remove"
  <2> DEFINE active == IF doc.active = c.arg.id THEN DefaultId ELSE doc.active
             left == {p \in doc.projects : p.id # c.arg.id}
  <2>1. Result(c, doc).doc = [active |-> active, projects |-> left] /\ c.arg.id # DefaultId
    BY <1>1, <1>2, <1>8 DEF Result, DeleteProject, HasProject, Stored, Refused
  <2>2. /\ active \in ProjectIds
        /\ \E p \in left : p.id = active
        /\ \E p \in left : p.id = DefaultId
        /\ left \subseteq doc.projects
    BY <1>2, <1>3, <2>1
  <2>3. \A p \in doc.projects : p.id = c.arg.id \/ p \in left
    OBVIOUS
  <2> HIDE DEF active, left
  <2>4. Good("projects", Result(c, doc).doc)
    BY <1>2, <1>3, <1>4, <2>1, <2>2
  <2>5. QED BY <1>8, <2>1, <2>3, <2>4
<1>9. QED BY <1>5, <1>6, <1>7, <1>8

\* The id given to a new capture rule is positive.
LEMMA NextIdPositive ==
  ASSUME NEW doc, IsFiniteSet(doc.focus), IsFiniteSet(doc.ignore),
         \A r \in doc.focus \cup doc.ignore : r.id \in Int
  PROVE  NextId(doc) \in Int /\ NextId(doc) > 0
<1> DEFINE all == doc.focus \cup doc.ignore
           ids == {r.id : r \in all} \cup {0}
<1>1. IsFiniteSet(all)
  BY FS_Union
<1>2. IsFiniteSet(ids)
  <2> DEFINE f == [r \in all |-> r.id]
             T == {r.id : r \in all}
  <2>1. f \in Surjection(all, T)
    BY DEF Surjection
  <2>2. IsFiniteSet(T)
    BY <1>1, <2>1, FS_Surjection
  <2>3. QED BY <2>2, FS_AddElement
<1>3. PICK best \in ids : \A k \in ids : k <= best
  <2>1. ids # {} /\ ids \subseteq Int
    OBVIOUS
  <2> HIDE DEF ids
  <2>2. QED BY <1>2, <2>1, GreatestExists
<1> DEFINE top == CHOOSE n \in ids : \A k \in ids : k <= n
<1>4. top \in ids /\ \A k \in ids : k <= top
  BY <1>3
<1>5. NextId(doc) = 1 + top
  BY DEF NextId
<1>6. top \in Int /\ 0 <= top
  <2>1. 0 \in ids /\ ids \subseteq Int
    OBVIOUS
  <2> HIDE DEF ids, top
  <2>2. QED BY <1>4, <2>1
<1> HIDE DEF top
<1>7. QED BY <1>5, <1>6

\* A change of the capture rules that is accepted is good.
LEMMA CaptureRulesChange ==
  ASSUME Constants, NEW doc, Good("capture_rules", doc),
         NEW c, c.edit \in {"upsert", "enable", "delete"},
         Fits("capture_rules", c.edit, c.arg), Result(c, doc).ok
  PROVE  Good("capture_rules", Result(c, doc).doc)
<1> DEFINE k == c.arg.kind
           id == c.arg.id
<1>1. /\ doc \in CaptureDocs /\ CaptureRulesFine(doc) /\ k \in {"focus", "ignore"} /\ id \in Int
      /\ IsFiniteSet(doc.focus) /\ IsFiniteSet(doc.ignore)
  BY DEF Good, Fits, Constants, Kinds, WholeFiles
<1>2. ASSUME NEW rs \in SUBSET CaptureRule, IsFiniteSet(rs),
             \A r \in rs : r.id > 0, \A r, s \in rs : r.id = s.id => r = s
      PROVE  Good("capture_rules", [doc EXCEPT ![k] = rs])
  <2> DEFINE new == [doc EXCEPT ![k] = rs]
  <2>1. CASE k = "focus"
    <3>1. /\ new = [doc EXCEPT !.focus = rs]
          /\ doc = [focus |-> doc.focus, ignore |-> doc.ignore]
          /\ doc.focus \in SUBSET CaptureRule /\ doc.ignore \in SUBSET CaptureRule
      BY <1>1, <2>1 DEF CaptureDocs
    <3>2. new = [focus |-> rs, ignore |-> doc.ignore]
      <4> HIDE DEF new
      <4>1. QED BY <3>1
    <3> HIDE DEF new
    <3>3. new.focus = rs /\ new.ignore = doc.ignore /\ new \in CaptureDocs
      BY <1>2, <3>1, <3>2 DEF CaptureDocs
    <3>4. CaptureRulesFine(new)
      BY <1>1, <1>2, <3>3 DEF CaptureRulesFine
    <3>5. Good("capture_rules", new)
      BY <1>1, <1>2, <3>3, <3>4 DEF Good, WholeFiles
    <3>6. QED BY <3>5 DEF new
  <2>2. CASE k = "ignore"
    <3>1. /\ new = [doc EXCEPT !.ignore = rs]
          /\ doc = [focus |-> doc.focus, ignore |-> doc.ignore]
          /\ doc.focus \in SUBSET CaptureRule /\ doc.ignore \in SUBSET CaptureRule
      BY <1>1, <2>2 DEF CaptureDocs
    <3>2. new = [focus |-> doc.focus, ignore |-> rs]
      <4> HIDE DEF new
      <4>1. QED BY <3>1
    <3> HIDE DEF new
    <3>3. new.focus = doc.focus /\ new.ignore = rs /\ new \in CaptureDocs
      BY <1>2, <3>1, <3>2 DEF CaptureDocs
    <3>4. CaptureRulesFine(new)
      BY <1>1, <1>2, <3>3 DEF CaptureRulesFine
    <3>5. Good("capture_rules", new)
      BY <1>1, <1>2, <3>3, <3>4 DEF Good, WholeFiles
    <3>6. QED BY <3>5 DEF new
  <2>3. QED BY <1>1, <2>1, <2>2
<1>3. /\ doc[k] \subseteq CaptureRule /\ IsFiniteSet(doc[k])
      /\ \A r \in doc[k] : r.id > 0 /\ r.id \in Int
      /\ \A r, s \in doc[k] : r.id = s.id => r = s
  BY <1>1 DEF CaptureDocs, CaptureRule, CaptureRulesFine
<1>4. CASE c.edit = "upsert"
  <2> DEFINE given == IF id <= 0 THEN NextId(doc) ELSE id
             new == [id |-> given, enabled |-> c.arg.enabled]
             others == {r \in doc[k] : r.id # given}
  <2>1. given \in Int /\ given > 0
    <3>1. \A r \in doc.focus \cup doc.ignore : r.id \in Int
      BY <1>1 DEF CaptureDocs, CaptureRule
    <3>2. NextId(doc) \in Int /\ NextId(doc) > 0
      BY <1>1, <3>1, NextIdPositive
    <3>3. QED BY <1>1, <3>2
  <2>2. Result(c, doc).doc = [doc EXCEPT ![k] = others \cup {new}]
    BY <1>1, <1>4 DEF Result, Upsert, Stored
  <2>3. new \in CaptureRule /\ new.id = given
    BY <1>4, <2>1 DEF Fits, CaptureRule, WholeFiles
  <2>4. IsFiniteSet(others) /\ others \subseteq doc[k] /\ \A r \in others : r.id # given
    BY <1>3, FS_Subset
  <2> HIDE DEF new, others, given
  <2>5. IsFiniteSet(others \cup {new})
    BY <2>4, FS_AddElement
  <2>6. QED BY <1>2, <1>3, <2>1, <2>2, <2>3, <2>4, <2>5
<1>5. CASE c.edit = "delete"
  <2> DEFINE left == {r \in doc[k] : r.id # id}
  <2>1. Result(c, doc).doc = [doc EXCEPT ![k] = left]
    BY <1>5 DEF Result, DeleteCaptureRule, Stored, Refused
  <2>2. IsFiniteSet(left) /\ left \subseteq doc[k]
    BY <1>3, FS_Subset
  <2> HIDE DEF left
  <2>3. QED BY <1>2, <1>3, <2>1, <2>2
<1>6. CASE c.edit = "enable"
  <2> DEFINE new(r) == IF r.id = id THEN [r EXCEPT !.enabled = c.arg.enabled] ELSE r
             all == {new(r) : r \in doc[k]}
  <2>1. Result(c, doc).doc = [doc EXCEPT ![k] = all]
    BY <1>6 DEF Result, SetEnabled, Stored, Refused
  <2>2. c.arg.enabled \in BOOLEAN
    BY <1>6 DEF Fits, WholeFiles
  <2>3. ASSUME NEW r \in doc[k] PROVE new(r).id = r.id /\ new(r) \in CaptureRule
    BY <1>3, <2>2 DEF CaptureRule
  <2>4. IsFiniteSet(all)
    <3> DEFINE f == [r \in doc[k] |-> new(r)]
    <3>1. f \in Surjection(doc[k], all)
      BY DEF Surjection
    <3> HIDE DEF f, all
    <3>2. QED BY <1>3, <3>1, FS_Surjection
  <2> HIDE DEF new
  <2>5. /\ all \subseteq CaptureRule /\ \A r \in all : r.id > 0
        /\ \A r, s \in all : r.id = s.id => r = s
    BY <1>3, <2>3
  <2> HIDE DEF all
  <2>6. QED BY <1>2, <2>1, <2>4, <2>5
<1>7. QED BY <1>4, <1>5, <1>6

\* An expression appended to a good history leaves a good one.
LEMMA AppendGood ==
  ASSUME Constants, NEW doc, Good("traffic_filter_history", doc), NEW expr \in Exprs
  PROVE  Good("traffic_filter_history", AppendEntry(doc, expr).doc)
<1> DEFINE left == Without(doc, expr)
           all == <<expr>> \o left
           n == IF Len(all) < HistoryLimit THEN Len(all) ELSE HistoryLimit
           new == SubSeq(all, 1, n)
<1>1. doc \in Seq(Exprs) /\ \A i, j \in DOMAIN doc : doc[i] = doc[j] => i = j
  BY DEF Good, HistoryFine
<1>2. /\ left \in Seq(Exprs) /\ \A k \in 1 .. Len(left) : left[k] # expr
      /\ \A k, l \in 1 .. Len(left) : left[k] = left[l] => k = l
  BY <1>1, WithoutIsPart
<1> HIDE DEF left
<1>3. /\ all \in Seq(Exprs) /\ Len(all) = Len(left) + 1 /\ all[1] = expr
      /\ \A i \in 2 .. Len(all) : all[i] = left[i - 1]
  BY <1>2
<1>4. \A i, j \in 1 .. Len(all) : all[i] = all[j] => i = j
  <2> SUFFICES ASSUME NEW i \in 1 .. Len(all), NEW j \in 1 .. Len(all), all[i] = all[j] PROVE i = j
    OBVIOUS
  <2>1. Len(left) \in Nat
    BY <1>2
  <2>2. i = 1 \/ (i - 1 \in 1 .. Len(left) /\ all[i] = left[i - 1])
    BY <1>3, <2>1
  <2>3. j = 1 \/ (j - 1 \in 1 .. Len(left) /\ all[j] = left[j - 1])
    BY <1>3, <2>1
  <2>4. CASE i = 1 \/ j = 1
    BY <1>2, <1>3, <2>2, <2>3, <2>4
  <2>5. CASE i # 1 /\ j # 1
    <3>1. i - 1 = j - 1
      BY <1>2, <2>2, <2>3, <2>5
    <3>2. QED BY <3>1
  <2>6. QED BY <2>4, <2>5
<1> HIDE DEF all
<1>5. n \in Nat /\ n <= HistoryLimit /\ n <= Len(all)
  BY <1>3 DEF Constants
<1> HIDE DEF n
<1>6. new \in Seq(Exprs) /\ Len(new) = n /\ \A i \in 1 .. n : new[i] = all[i]
  BY <1>3, <1>5
<1>7. new \in Seq(Exprs) /\ HistoryFine(new)
  BY <1>3, <1>4, <1>5, <1>6 DEF HistoryFine, Constants
<1>8. AppendEntry(doc, expr).doc = new
  BY DEF AppendEntry, Stored, n, all, left
<1> HIDE DEF new
<1>9. QED BY <1>7, <1>8 DEF Good, WholeFiles

\* What a call stores is good when what it has read is, and the document it stores instead of
\* one is.
LEMMA ResultGood ==
  ASSUME Constants, NEW f \in Files, NEW c, c.edit # "get", Fits(f, c.edit, c.arg),
         NEW doc, c.edit \in Blind \/ Good(f, doc), Result(c, doc).ok
  PROVE  Good(f, Result(c, doc).doc)
<1>1. CASE c.edit = "put"
  <2>1. Result(c, doc).doc = c.arg
    BY <1>1 DEF Result, Stored
  <2>2. CASE f \in WholeFiles
    BY <1>1, <2>1, <2>2 DEF Fits, Good, WholeFiles, Settings
  <2>3. CASE f \notin WholeFiles
    <3>1. f = "traffic_filter_history" /\ c.arg = << >>
      BY <1>1, <2>3 DEF Fits
    <3>2. QED BY <2>1, <3>1 DEF Good, HistoryFine, WholeFiles, Constants
  <2>4. QED BY <2>2, <2>3
<1>2. CASE c.edit \in {"active", "create", "rename", "remove"}
  BY <1>2, ProjectsChange DEF Fits, Blind, WholeFiles
<1>3. CASE c.edit \in {"upsert", "enable", "delete"}
  BY <1>3, CaptureRulesChange DEF Fits, Blind, WholeFiles
<1>4. CASE c.edit = "append"
  BY <1>4, AppendGood DEF Fits, Blind, Result, WholeFiles
<1>5. QED BY <1>1, <1>2, <1>3, <1>4 DEF Fits

-----------------------------------------------------------------------------
(***************************************************************************)
(* The invariant.                                                          *)
(***************************************************************************)
Working == {"rules", "read", "compute", "open", "write", "rename"}
Storing == {"open", "write", "rename"}

CallFields == {"phase", "file", "edit", "arg", "doc", "ok", "at", "before", "alone"}
IsCall(c) == c = [x \in CallFields |-> c[x]]

Shaped ==
  /\ file = [f \in Files |-> file[f]] /\ tmp = [f \in Files |-> tmp[f]]
  /\ task = [t \in Tasks |-> task[t]] /\ \A t \in Tasks : IsCall(task[t])

\* What a call has been asked fits its file, and it stores a good document.
Asked(c) ==
  /\ c.phase \in Phases /\ c.at \in {"none", "tmp", "path", "gone"}
  /\ c.alone \in BOOLEAN
  /\ c.phase \in {"idle", "outside"} => c.edit = "get"
  /\ c.phase \in Working \/ c.edit # "get" => c.file \in Files /\ Fits(c.file, c.edit, c.arg)
  /\ c.phase = "rules" => c.edit = "remove"
  /\ c.phase = "compute" => c.edit \in Blind
  /\ c.phase = "read" => c.edit \notin Blind
  /\ c.phase \in Storing => c.edit # "get" /\ Good(c.file, c.doc)
  /\ c.at # "none" => c.phase = "write"

\* A project the call has read is in what it stores, but for the one it removes.
KeepsProjects(c) ==
  c.file = "projects" /\ c.before \notin Marks =>
    \A p \in c.before.projects :
      (c.edit = "remove" /\ p.id = c.arg.id) \/ \E q \in c.doc.projects : q.id = p.id

\* What a call that writes without company knows of what is at the path of its file and at
\* the path of the temporary one.
Kept(c, atPath, atTmp) ==
  /\ c.phase \in Working => atPath = c.before
  /\ c.phase \in Storing => KeepsProjects(c)
  /\ c.phase = "write" => c.at = "tmp" /\ atTmp = Empty
  /\ c.phase = "rename" => atTmp = c.doc
  /\ c.phase = "done" => atPath = IF c.ok THEN c.doc ELSE c.before

Undisturbed(t) ==
  Writes(task[t]) /\ task[t].alone =>
    /\ \A u \in Tasks \ {t} : Writes(task[u]) => task[u].file # task[t].file
    /\ Kept(task[t], file[task[t].file], tmp[task[t].file])

Calls == \A t \in Tasks : Asked(task[t]) /\ Undisturbed(t)

\* Whatever happens, a file holds a good document or can be seen to be none.
Contents == \A f \in Files : /\ file[f] \in Marks \/ Good(f, file[f])
                             /\ tmp[f] \in Marks \/ Good(f, tmp[f])

Uncrossed ==
  \A f \in Files \ crossed :
    /\ file[f] \notin Unreadable
    /\ \A t \in Tasks : Writes(task[t]) /\ task[t].file = f => task[t].alone

\* A project about to be removed has been given its rules since they were listed.
Removing(c) == c.edit = "remove" /\ c.phase \in {"read", "open", "write", "rename"}
RulesWait ==
  \A s \in Tasks : Removing(task[s]) /\ RulesOf(task[s].arg.id) # {} => task[s].arg.id \in lateRules[s]

Inv == Shaped /\ Calls /\ Contents /\ Uncrossed /\ RulesWait

\* No document is taken for none, nor for one that cannot be read.
LEMMA GoodIsNoMark == ASSUME Constants, NEW f \in Files, NEW d, Good(f, d) PROVE d \notin Marks
  BY DEF Constants, Good, Files, WholeFiles

\* A task without a call has asked for nothing.
LEMMA NoCallIsAsked == IsCall(NoCall) /\ Asked(NoCall) /\ ~Writes(NoCall) /\ ~Removing(NoCall)
<1>1. IsCall(NoCall)
  BY DEF NoCall, IsCall, CallFields
<1>2. Asked(NoCall) /\ ~Writes(NoCall) /\ ~Removing(NoCall)
  BY DEF NoCall, Asked, Phases, Working, Storing, Writes, Removing
<1>3. QED BY <1>1, <1>2

\* The proxy starts with the invariant.
LEMMA InitInv == ASSUME Constants, Init PROVE Inv
<1>1. /\ file = [f \in Files |-> IF f = "projects" THEN None ELSE Default(f)]
      /\ tmp = [f \in Files |-> None] /\ task = [t \in Tasks |-> NoCall] /\ crossed = {}
  BY DEF Init, FilesInit
<1>2. \A t \in Tasks : task[t] = NoCall
  BY <1>1
<1>3. Shaped
  BY <1>1, <1>2, NoCallIsAsked DEF Shaped
<1>4. Calls
  BY <1>2, NoCallIsAsked DEF Calls, Undisturbed
<1>5. \A f \in Files : /\ file[f] = None \/ Good(f, file[f])
                       /\ tmp[f] = None
  BY <1>1, DefaultGood
<1>6. Contents
  BY <1>5 DEF Contents, Marks
<1>7. \A f \in Files : file[f] \notin Unreadable
  BY <1>5, GoodIsNoMark DEF Marks, Unreadable, Constants
<1>8. Uncrossed
  BY <1>2, <1>7, NoCallIsAsked DEF Uncrossed
<1>9. RulesWait
  BY <1>2, NoCallIsAsked DEF RulesWait
<1>10. QED BY <1>3, <1>4, <1>6, <1>8, <1>9 DEF Inv

-----------------------------------------------------------------------------
(***************************************************************************)
(* Steps.                                                                  *)
(***************************************************************************)

\* The call d is the call c, wherever the file it has open has gone and whoever has come.
Same(d, c) ==
  /\ IsCall(d)
  /\ d.phase = c.phase /\ d.file = c.file /\ d.edit = c.edit /\ d.arg = c.arg /\ d.doc = c.doc
  /\ d.ok = c.ok /\ d.before = c.before
  /\ d.alone \in BOOLEAN /\ (d.alone => c.alone)
  /\ d.at = c.at \/ (c.phase = "write" /\ d.at \in {"tmp", "path", "gone"})

\* What a step does to the call of another task u: nothing, if that one writes and is still
\* without company.
Spares(u) ==
  Writes(task[u]) /\ task[u]'.alone =>
    /\ task[u]'.at = task[u].at
    /\ file'[task[u].file] = file[task[u].file] /\ tmp'[task[u].file] = tmp[task[u].file]
    /\ \A v \in Tasks \ {u} : Writes(task[v])' => task[v]'.file # task[u].file

\* A call that a step spares is as it has to be afterwards.
LEMMA OthersUndisturbed ==
  ASSUME Inv, NEW u \in Tasks, Same(task[u]', task[u]), Spares(u)
  PROVE  Asked(task[u])' /\ Undisturbed(u)'
<1>1. Asked(task[u]) /\ Undisturbed(u)
  BY DEF Inv, Calls
<1>2. Asked(task[u])'
  BY <1>1 DEF Same, Asked, Fits
<1>3. Undisturbed(u)'
  <2> SUFFICES ASSUME Writes(task[u])', task[u]'.alone
               PROVE  /\ \A v \in Tasks \ {u} : Writes(task[v])' => task[v]'.file # task[u]'.file
                      /\ Kept(task[u], file[task[u].file], tmp[task[u].file])'
    BY DEF Undisturbed
  <2>1. Writes(task[u]) /\ task[u].alone
    BY DEF Same, Writes
  <2>2. Kept(task[u], file[task[u].file], tmp[task[u].file])
    BY <1>1, <2>1 DEF Undisturbed
  <2>3. \A v \in Tasks \ {u} : Writes(task[v])' => task[v]'.file # task[u]'.file
    BY <2>1 DEF Spares, Same
  <2>4. Kept(task[u], file[task[u].file], tmp[task[u].file])'
    BY <2>1, <2>2 DEF Spares, Same, Kept, KeepsProjects
  <2>5. QED BY <2>3, <2>4
<1>4. QED BY <1>2, <1>3

\* A project is not about to be removed because of a step that leaves the rules alone.
LEMMA RulesStillWait ==
  ASSUME RulesWait, UNCHANGED rules,
         \A s \in Tasks : Removing(task[s])' =>
           \/ RulesOf(task[s]'.arg.id) = {}
           \/ Removing(task[s]) /\ task[s]'.arg = task[s].arg /\ lateRules[s] \subseteq lateRules'[s]
  PROVE  RulesWait'
<1> SUFFICES ASSUME NEW s \in Tasks, Removing(task[s])', RulesOf(task[s].arg.id)' # {}
             PROVE  task[s]'.arg.id \in lateRules'[s]
  BY DEF RulesWait
<1>1. RulesOf(task[s].arg.id)' = RulesOf(task[s]'.arg.id)
  BY DEF RulesOf
<1>2. Removing(task[s]) /\ task[s]'.arg = task[s].arg /\ lateRules[s] \subseteq lateRules'[s]
  BY <1>1
<1>3. QED BY <1>1, <1>2 DEF RulesWait

\* What a step that neither lists the rules nor changes them has to show.
Keeps ==
  /\ Shaped' /\ Calls' /\ Contents' /\ Uncrossed'
  /\ \A u \in Tasks : Removing(task[u])' => Removing(task[u]) /\ task[u]'.arg = task[u].arg

\* A step of one call that leaves the files alone.
LEMMA QuietStep ==
  ASSUME Inv, NEW t \in Tasks, NEW c, IsCall(c), Asked(c),
         task' = [task EXCEPT ![t] = c], UNCHANGED <<file, tmp, crossed>>,
         Writes(c) => Writes(task[t]) /\ c.file = task[t].file /\ c.alone = task[t].alone,
         Writes(c) /\ c.alone => Kept(c, file[c.file], tmp[c.file])
  PROVE  Shaped' /\ Calls' /\ Contents' /\ Uncrossed'
<1>1. task[t]' = c /\ \A u \in Tasks \ {t} : task[u]' = task[u]
  BY DEF Inv, Shaped
<1>2. Shaped'
  BY <1>1 DEF Inv, Shaped
<1>3. ASSUME NEW u \in Tasks, u # t PROVE Asked(task[u])' /\ Undisturbed(u)'
  <2>1. Same(task[u]', task[u])
    BY <1>1, <1>3 DEF Inv, Shaped, Same, Calls, Asked
  <2>2. Spares(u)
    <3> SUFFICES ASSUME Writes(task[u]), task[u].alone, NEW v \in Tasks \ {u}, Writes(task[v])'
                 PROVE  task[v]'.file # task[u].file
      BY <1>1, <1>3 DEF Spares
    <3>1. Writes(task[v]) /\ task[v].file = task[v]'.file
      BY <1>1 DEF Writes
    <3>2. QED BY <3>1 DEF Inv, Calls, Undisturbed
  <2>3. QED BY <2>1, <2>2, OthersUndisturbed
<1>4. Asked(task[t])'
  BY <1>1
<1>5. Undisturbed(t)'
  <2> SUFFICES ASSUME Writes(c), c.alone
               PROVE  /\ \A u \in Tasks \ {t} : Writes(task[u])' => task[u]'.file # c.file
                      /\ Kept(task[t], file[task[t].file], tmp[task[t].file])'
    BY <1>1 DEF Undisturbed
  <2>1. Undisturbed(t) /\ Writes(task[t]) /\ task[t].alone /\ c.file = task[t].file
    BY DEF Inv, Calls
  <2>2. \A u \in Tasks \ {t} : Writes(task[u])' => task[u]'.file # c.file
    BY <1>1, <2>1 DEF Undisturbed, Writes
  <2>3. Kept(task[t], file[task[t].file], tmp[task[t].file])'
    BY <1>1 DEF Kept
  <2>4. QED BY <2>2, <2>3
<1>6. Contents'
  BY DEF Inv, Contents, Good
<1>7. Uncrossed'
  BY <1>1 DEF Inv, Uncrossed, Writes
<1>8. QED BY <1>2, <1>3, <1>4, <1>5, <1>6, <1>7 DEF Calls

\* The call of t becomes c, and what is at the path of its file f or of the temporary one may
\* change, or be taken from under the others.
WriterMoves(t, c, f) ==
  /\ Writes(task[t]) /\ IsCall(c) /\ Asked(c)
  /\ f = task[t].file /\ c.file = f /\ c.alone = task[t].alone
  /\ task' = [u \in Tasks |-> task'[u]] /\ task'[t] = c
  /\ \A u \in Tasks \ {t} : /\ Same(task'[u], task[u]) /\ task'[u].alone = task[u].alone
                            /\ task'[u].at # task[u].at => task[u].file = f
  /\ file' = [file EXCEPT ![f] = file'[f]] /\ tmp' = [tmp EXCEPT ![f] = tmp'[f]]
  /\ file'[f] \in Marks \/ Good(f, file'[f])
  /\ tmp'[f] \in Marks \/ Good(f, tmp'[f])
  /\ f \notin crossed => file'[f] \notin Unreadable
  /\ UNCHANGED crossed
  /\ c.alone => Kept(c, file'[f], tmp'[f])
  /\ Removing(c) => Removing(task[t]) /\ c.arg = task[t].arg

\* Such a step keeps the invariant.
LEMMA WriterStep ==
  ASSUME Inv, NEW t \in Tasks, NEW c, NEW f \in Files, WriterMoves(t, c, f)
  PROVE  Keeps
<1> USE DEF WriterMoves
<1>1. /\ \A g \in Files : g # f => file'[g] = file[g] /\ tmp'[g] = tmp[g]
      /\ file' = [g \in Files |-> file'[g]] /\ tmp' = [g \in Files |-> tmp'[g]]
  BY DEF Inv, Shaped
<1>2. Shaped'
  BY <1>1 DEF Inv, Shaped, Same
<1>3. \A u \in Tasks \ {t} : Writes(task'[u]) <=> Writes(task[u])
  BY DEF Same, Writes
<1>4. ASSUME NEW u \in Tasks, u # t PROVE Asked(task[u])' /\ Undisturbed(u)'
  <2>1. Same(task[u]', task[u])
    BY <1>4
  <2>2. Spares(u)
    <3> SUFFICES ASSUME Writes(task[u]), task[u]'.alone
                 PROVE  /\ task[u]'.at = task[u].at
                        /\ file'[task[u].file] = file[task[u].file]
                        /\ tmp'[task[u].file] = tmp[task[u].file]
                        /\ \A v \in Tasks \ {u} : Writes(task[v])' => task[v]'.file # task[u].file
      BY DEF Spares
    <3>1. \A v \in Tasks \ {u} : Writes(task[v]) => task[v].file # task[u].file
      BY <1>4 DEF Inv, Calls, Undisturbed
    <3>2. task[u].file # f /\ task[u].file \in Files
      <4>1. task[u].file \in Files
        BY DEF Inv, Calls, Asked, Writes
      <4>2. task[u].file # f
        BY <1>4, <3>1
      <4>3. QED BY <4>1, <4>2
    <3>3. \A v \in Tasks \ {u} : Writes(task[v])' => task[v]'.file # task[u].file
      BY <1>3, <1>4, <3>1, <3>2 DEF Same
    <3>4. QED BY <1>1, <1>4, <3>2, <3>3
  <2>3. QED BY <2>1, <2>2, OthersUndisturbed
<1>5. Asked(task[t])'
  OBVIOUS
<1>6. Undisturbed(t)'
  <2> SUFFICES ASSUME Writes(c), c.alone
               PROVE  /\ \A u \in Tasks \ {t} : Writes(task[u])' => task[u]'.file # f
                      /\ Kept(task[t], file[task[t].file], tmp[task[t].file])'
    BY DEF Undisturbed
  <2>1. Undisturbed(t) /\ Writes(task[t]) /\ task[t].alone
    BY DEF Inv, Calls
  <2>2. \A u \in Tasks \ {t} : Writes(task[u])' => task[u]'.file # f
    BY <1>3, <2>1 DEF Undisturbed, Same
  <2>3. Kept(task[t], file[task[t].file], tmp[task[t].file])'
    BY <1>1
  <2>4. QED BY <2>2, <2>3
<1>7. Contents'
  BY <1>1 DEF Inv, Contents
<1>8. Uncrossed'
  <2>1. \A g \in Files \ crossed : file'[g] \notin Unreadable
    BY <1>1 DEF Inv, Uncrossed
  <2>2. \A u \in Tasks : Writes(task'[u]) =>
          Writes(task[u]) /\ task'[u].file = task[u].file /\ task'[u].alone = task[u].alone
    BY <1>3 DEF Same
  <2>3. QED BY <2>1, <2>2 DEF Inv, Uncrossed
<1>9. \A u \in Tasks : Removing(task[u])' => Removing(task[u]) /\ task[u]'.arg = task[u].arg
  BY DEF Removing, Same
<1>10. QED BY <1>2, <1>4, <1>5, <1>6, <1>7, <1>8, <1>9 DEF Calls, Keeps

\* A call begins: the others that write its file have company from now on.
LEMMA BeginStep ==
  ASSUME Constants, Inv, NEW t \in Tasks, task[t].phase = "idle",
         NEW f \in Files, NEW edit, NEW arg, Fits(f, edit, arg),
         NEW phase \in {"rules", "read", "compute"},
         phase = "rules" => edit = "remove", phase = "compute" => edit \in Blind,
         phase = "read" => edit \notin Blind,
         Begin(t, f, edit, arg, phase)
  PROVE  /\ Shaped' /\ Calls' /\ Contents' /\ Uncrossed'
         /\ task'[t].phase = phase /\ task'[t].edit = edit
         /\ \A u \in Tasks \ {t} : Same(task'[u], task[u])
<1> DEFINE others == IF edit = "get" THEN {} ELSE OthersWriting(t, f)
           call == [NoCall EXCEPT !.phase = phase, !.file = f, !.edit = edit, !.arg = arg,
                                  !.before = file[f], !.alone = others = {}]
<1>1. /\ task' = [u \in Tasks |-> IF u = t THEN call
                                  ELSE IF u \in others THEN [task[u] EXCEPT !.alone = FALSE]
                                  ELSE task[u]]
      /\ crossed' = IF others = {} THEN crossed ELSE crossed \cup {f}
      /\ UNCHANGED <<file, tmp>>
  BY DEF Begin
<1>2. /\ IsCall(call) /\ call.phase = phase /\ call.file = f /\ call.edit = edit /\ call.arg = arg
      /\ call.at = "none" /\ call.before = file[f] /\ call.alone \in BOOLEAN
      /\ (call.alone <=> others = {})
  <2>1. IsCall(call)
    BY NoCallIsAsked DEF IsCall, CallFields
  <2>2. QED BY <2>1 DEF NoCall
<1>3. others = {u \in Tasks \ {t} : edit # "get" /\ Writes(task[u]) /\ task[u].file = f}
  BY DEF OthersWriting
<1> HIDE DEF call, others
<1>4. IsCall(call) /\ Asked(call)
  BY <1>2 DEF Asked, Phases, Working, Storing
<1>5. /\ task'[t] = call
      /\ \A u \in others : task'[u] = [task[u] EXCEPT !.alone = FALSE]
      /\ \A u \in Tasks \ {t} : u \notin others => task'[u] = task[u]
  BY <1>1, <1>3
<1>6. ASSUME NEW u \in Tasks, u # t
      PROVE  Same(task'[u], task[u]) /\ (u \in others => ~task'[u].alone)
  <2>1. IsCall(task[u]) /\ task[u].alone \in BOOLEAN
    BY DEF Inv, Shaped, Calls, Asked
  <2>2. CASE u \in others
    BY <1>5, <2>1, <2>2 DEF Same, IsCall, CallFields
  <2>3. CASE u \notin others
    BY <1>5, <1>6, <2>1, <2>3 DEF Same
  <2>4. QED BY <2>2, <2>3
<1>7. Shaped'
  BY <1>1, <1>4, <1>5, <1>6 DEF Inv, Shaped, Same
<1>8. ASSUME NEW u \in Tasks, u # t PROVE Asked(task[u])' /\ Undisturbed(u)'
  <2>1. Spares(u)
    <3> SUFFICES ASSUME Writes(task[u]), task[u]'.alone
                 PROVE  /\ task[u]'.at = task[u].at
                        /\ \A v \in Tasks \ {u} : Writes(task[v])' => task[v]'.file # task[u].file
      BY <1>1 DEF Spares
    <3>1. u \notin others /\ task[u]' = task[u]
      BY <1>5, <1>6, <1>8
    <3>2. \A v \in Tasks \ {u} : Writes(task[v]) => task[v].file # task[u].file
      BY <1>8, <3>1 DEF Inv, Calls, Undisturbed
    <3>3. \A v \in Tasks \ {u, t} : Writes(task[v])' => task[v]'.file # task[u].file
      BY <1>6, <3>2 DEF Same, Writes
    <3>4. Writes(call) => call.file # task[u].file
      BY <1>2, <1>3, <1>8, <3>1 DEF Writes
    <3>5. QED BY <1>5, <3>1, <3>3, <3>4
  <2>2. QED BY <1>6, <1>8, <2>1, OthersUndisturbed
<1>9. Undisturbed(t)'
  <2> SUFFICES ASSUME Writes(call), call.alone
               PROVE  /\ \A u \in Tasks \ {t} : Writes(task[u])' => task[u]'.file # f
                      /\ Kept(task[t], file[task[t].file], tmp[task[t].file])'
    BY <1>2, <1>5 DEF Undisturbed
  <2>1. \A u \in Tasks \ {t} : Writes(task[u]) => task[u].file # f
    BY <1>2, <1>3 DEF Writes
  <2>2. \A u \in Tasks \ {t} : Writes(task[u])' => task[u]'.file # f
    BY <1>6, <2>1 DEF Same, Writes
  <2>3. Kept(task[t], file[task[t].file], tmp[task[t].file])'
    BY <1>1, <1>2, <1>5 DEF Kept, Storing
  <2>4. QED BY <2>2, <2>3
<1>10. Contents'
  BY <1>1 DEF Inv, Contents, Good
<1>11. Uncrossed'
  <2> SUFFICES ASSUME NEW g \in Files \ crossed', NEW u \in Tasks, Writes(task'[u]), task'[u].file = g
               PROVE  task'[u].alone
    BY <1>1 DEF Inv, Uncrossed
  <2>1. g \in Files \ crossed
    BY <1>1
  <2>2. CASE u = t
    BY <1>1, <1>2, <1>5, <2>2
  <2>3. CASE u # t
    <3>1. Writes(task[u]) /\ task[u].file = g
      BY <1>6, <2>3 DEF Same, Writes
    <3>2. task[u].alone
      BY <2>1, <3>1 DEF Inv, Uncrossed
    <3>3. CASE u \in others
      <4>1. g = f /\ f \in crossed'
        BY <1>1, <1>3, <3>1, <3>3
      <4>2. QED BY <4>1
    <3>4. CASE u \notin others
      BY <1>5, <2>3, <3>2, <3>4
    <3>5. QED BY <3>3, <3>4
  <2>4. QED BY <2>2, <2>3
<1>12. QED BY <1>2, <1>4, <1>5, <1>6, <1>7, <1>8, <1>9, <1>10, <1>11 DEF Calls

\* With the rules and their history as they are, Keeps is enough.
LEMMA KeepsInv == ASSUME Inv, Keeps, UNCHANGED <<rules, lateRules>> PROVE Inv'
<1>1. RulesWait'
  BY RulesStillWait DEF Inv, Keeps
<1>2. QED BY <1>1 DEF Inv, Keeps

\* A call is answered before it has stored anything.
LEMMA AnsweredStep ==
  ASSUME Inv, NEW t \in Tasks, task[t].phase \in {"rules", "read", "compute", "outside"},
         NEW ok, task[t].edit = "get" \/ ~ok, Answered(t, ok), UNCHANGED <<file, tmp, crossed>>
  PROVE  Keeps
<1> DEFINE c == [task[t] EXCEPT !.phase = "done", !.ok = ok]
<1>1. Asked(task[t]) /\ Undisturbed(t) /\ IsCall(task[t]) /\ task = [u \in Tasks |-> task[u]]
  BY DEF Inv, Calls, Shaped
<1>2. /\ c.phase = "done" /\ c.ok = ok /\ c.file = task[t].file /\ c.edit = task[t].edit
      /\ c.arg = task[t].arg /\ c.at = task[t].at /\ c.before = task[t].before
      /\ c.alone = task[t].alone /\ IsCall(c)
  BY <1>1 DEF IsCall, CallFields
<1>3. task' = [task EXCEPT ![t] = c]
  BY <1>1 DEF Answered
<1> HIDE DEF c
<1>4. Asked(c)
  BY <1>1, <1>2 DEF Asked, Phases, Working, Storing
<1>5. ASSUME Writes(c) PROVE Writes(task[t]) /\ ~c.ok /\ (c.alone => Kept(c, file[c.file], tmp[c.file]))
  <2>1. Writes(task[t]) /\ ~c.ok /\ task[t].phase \in Working
    BY <1>1, <1>2, <1>5 DEF Writes, Asked, Working
  <2>2. c.alone => Kept(c, file[c.file], tmp[c.file])
    BY <1>1, <1>2, <2>1 DEF Undisturbed, Kept, Working, Storing
  <2>3. QED BY <2>1, <2>2
<1>6. Shaped' /\ Calls' /\ Contents' /\ Uncrossed'
  BY <1>2, <1>3, <1>4, <1>5, QuietStep
<1>7. \A u \in Tasks : Removing(task[u])' => Removing(task[u]) /\ task[u]'.arg = task[u].arg
  BY <1>1, <1>2, <1>3 DEF Removing
<1>8. QED BY <1>6, <1>7 DEF Keeps

\* The operation is done on what the call has read, or on nothing when it replaces the file.
LEMMA ComputeStep ==
  ASSUME Constants, Inv, NEW t \in Tasks, NEW doc, Compute(t, doc), UNCHANGED <<file, tmp, crossed>>,
         \/ task[t].phase = "compute"
         \/ /\ task[t].phase = "read" /\ Good(task[t].file, doc)
            /\ file[task[t].file] \notin Marks => doc = file[task[t].file]
  PROVE  Keeps
<1> DEFINE r == Result(task[t], doc)
<1>1. Asked(task[t]) /\ Undisturbed(t) /\ IsCall(task[t]) /\ task = [u \in Tasks |-> task[u]]
  BY DEF Inv, Calls, Shaped
<1>2. task[t].file \in Files /\ Fits(task[t].file, task[t].edit, task[t].arg)
  BY <1>1 DEF Asked, Working
<1>3. CASE r.ok /\ task[t].edit # "get"
  <2> DEFINE c == [task[t] EXCEPT !.phase = "open", !.doc = r.doc]
  <2>1. task' = [task EXCEPT ![t].phase = "open", ![t].doc = r.doc]
    BY <1>3 DEF Compute
  <2>2. Good(task[t].file, r.doc)
    <3>1. task[t].edit \in Blind \/ Good(task[t].file, doc)
      BY <1>1 DEF Asked
    <3>2. QED BY <1>2, <1>3, <3>1, ResultGood
  <2>3. task[t].file = "projects" /\ file[task[t].file] \notin Marks =>
          \A p \in file[task[t].file].projects :
            (task[t].edit = "remove" /\ p.id = task[t].arg.id) \/ \E q \in r.doc.projects : q.id = p.id
    <3> SUFFICES ASSUME task[t].file = "projects", file[task[t].file] \notin Marks
                 PROVE  \A p \in file[task[t].file].projects :
                          \/ task[t].edit = "remove" /\ p.id = task[t].arg.id
                          \/ \E q \in r.doc.projects : q.id = p.id
      OBVIOUS
    <3>1. task[t].edit \in {"active", "create", "rename", "remove"}
      BY <1>2, <1>3 DEF Fits, WholeFiles
    <3>2. Good("projects", doc) /\ doc = file[task[t].file]
      BY <1>1, <3>1 DEF Asked, Blind
    <3>3. Fits("projects", task[t].edit, task[t].arg) /\ r.ok
      BY <1>2, <1>3
    <3>4. QED BY <3>1, <3>2, <3>3, ProjectsChange
  <2> HIDE DEF r
  <2>4. /\ c.phase = "open" /\ c.doc = r.doc /\ c.file = task[t].file /\ c.edit = task[t].edit
        /\ c.arg = task[t].arg /\ c.at = task[t].at /\ c.before = task[t].before
        /\ c.alone = task[t].alone /\ IsCall(c)
    BY <1>1 DEF IsCall, CallFields
  <2>5. task' = [task EXCEPT ![t] = c]
    BY <1>1, <2>1
  <2> HIDE DEF c
  <2>6. Asked(c)
    BY <1>1, <1>2, <1>3, <2>2, <2>4 DEF Asked, Phases, Working, Storing
  <2>7. Writes(task[t])
    BY <1>3 DEF Writes
  <2>8. c.alone => Kept(c, file[c.file], tmp[c.file])
    <3> SUFFICES ASSUME c.alone PROVE Kept(c, file[c.file], tmp[c.file])
      OBVIOUS
    <3>1. file[c.file] = c.before
      BY <1>1, <2>4, <2>7 DEF Undisturbed, Kept, Working
    <3>2. KeepsProjects(c)
      BY <2>3, <2>4, <3>1 DEF KeepsProjects
    <3>3. QED BY <2>4, <3>1, <3>2 DEF Kept
  <2>9. Shaped' /\ Calls' /\ Contents' /\ Uncrossed'
    BY <2>4, <2>5, <2>6, <2>7, <2>8, QuietStep
  <2>10. \A u \in Tasks : Removing(task[u])' => Removing(task[u]) /\ task[u]'.arg = task[u].arg
    <3>1. Removing(task[t]) \/ task[t].edit # "remove"
      BY <1>1 DEF Removing, Asked, Blind
    <3>2. QED BY <1>1, <2>4, <2>5, <3>1 DEF Removing
  <2>11. QED BY <2>9, <2>10 DEF Keeps
<1>4. CASE ~(r.ok /\ task[t].edit # "get")
  <2>1. Answered(t, r.ok)
    BY <1>4 DEF Compute
  <2>2. task[t].edit = "get" \/ ~r.ok
    BY <1>4
  <2> HIDE DEF r
  <2>3. QED BY <2>1, <2>2, AnsweredStep
<1>5. QED BY <1>3, <1>4

\* read_json_or_default: what cannot be read is refused, a missing file is the default.
LEMMA ReadFileStep == ASSUME Constants, Inv, NEW t \in Tasks, ReadFile(t) PROVE Keeps
<1> DEFINE f == task[t].file
<1>1. task[t].phase = "read" /\ UNCHANGED <<file, tmp, crossed>>
  BY DEF ReadFile
<1>2. f \in Files
  BY <1>1 DEF Inv, Calls, Asked, Working
<1>3. CASE file[f] \in {Empty, Torn}
  <2>1. Answered(t, FALSE)
    BY <1>3 DEF ReadFile
  <2>2. QED BY <1>1, <2>1, AnsweredStep
<1>4. CASE file[f] = None
  <2>1. Compute(t, Default(f)) /\ Good(f, Default(f)) /\ file[f] \in Marks
    BY <1>2, <1>4, DefaultGood DEF ReadFile, Constants, Marks
  <2>2. QED BY <1>1, <2>1, ComputeStep
<1>5. CASE file[f] \notin Marks
  <2>1. Compute(t, file[f]) /\ Good(f, file[f])
    BY <1>2, <1>5 DEF ReadFile, Marks, Inv, Contents
  <2>2. QED BY <1>1, <2>1, ComputeStep
<1>6. QED BY <1>3, <1>4, <1>5 DEF Marks

\* A put stores its document without having read the file.
LEMMA ComputeBlindStep == ASSUME Constants, Inv, NEW t \in Tasks, ComputeBlind(t) PROVE Keeps
  BY ComputeStep DEF ComputeBlind

\* What holds of a call that stores its document.
LEMMA Storer ==
  ASSUME Constants, Inv, NEW t \in Tasks, task[t].phase \in Storing
  PROVE  /\ Writes(task[t]) /\ IsCall(task[t]) /\ Asked(task[t])
         /\ task[t].file \in Files /\ Good(task[t].file, task[t].doc) /\ task[t].doc \notin Marks
         /\ task[t].alone => Kept(task[t], file[task[t].file], tmp[task[t].file])
         /\ task[t].file \notin crossed => task[t].alone /\ file[task[t].file] \notin Unreadable
         /\ \A f \in Files : /\ file[f] \in Marks \/ Good(f, file[f])
                             /\ tmp[f] \in Marks \/ Good(f, tmp[f])
                             /\ file = [file EXCEPT ![f] = file[f]] /\ tmp = [tmp EXCEPT ![f] = tmp[f]]
         /\ \A u \in Tasks : Same(task[u], task[u])
<1>1. Asked(task[t]) /\ IsCall(task[t]) /\ Undisturbed(t)
  BY DEF Inv, Calls, Shaped
<1>2. Writes(task[t]) /\ task[t].file \in Files /\ Good(task[t].file, task[t].doc)
  BY <1>1 DEF Asked, Writes, Storing, Working
<1>3. task[t].doc \notin Marks
  BY <1>2, GoodIsNoMark
<1>4. task[t].alone => Kept(task[t], file[task[t].file], tmp[task[t].file])
  BY <1>1, <1>2 DEF Undisturbed
<1>5. task[t].file \notin crossed => task[t].alone /\ file[task[t].file] \notin Unreadable
  BY <1>2 DEF Inv, Uncrossed
<1>6. \A f \in Files : /\ file[f] \in Marks \/ Good(f, file[f])
                       /\ tmp[f] \in Marks \/ Good(f, tmp[f])
  BY DEF Inv, Contents
<1>7. \A f \in Files : file = [file EXCEPT ![f] = file[f]] /\ tmp = [tmp EXCEPT ![f] = tmp[f]]
  BY DEF Inv, Shaped
<1>8. \A u \in Tasks : Same(task[u], task[u])
  BY DEF Inv, Shaped, Calls, Asked, Same
<1>9. QED BY <1>1, <1>2, <1>3, <1>4, <1>5, <1>6, <1>7, <1>8

\* write_json_atomic truncates the temporary file ...
LEMMA OpenTmpStep == ASSUME Constants, Inv, NEW t \in Tasks, OpenTmp(t) PROVE Keeps
<1>1. /\ task[t].phase = "open" /\ tmp' = [tmp EXCEPT ![task[t].file] = Empty]
      /\ task' = [task EXCEPT ![t].phase = "write", ![t].at = "tmp"] /\ UNCHANGED <<file, crossed>>
  BY DEF OpenTmp
<1>2. task[t].phase \in Storing
  BY <1>1 DEF Storing
<1>3. PICK c : c = [task[t] EXCEPT !.phase = "write", !.at = "tmp"]
  OBVIOUS
<1>4. /\ IsCall(c) /\ c.phase = "write" /\ c.at = "tmp" /\ c.file = task[t].file
      /\ c.edit = task[t].edit /\ c.arg = task[t].arg /\ c.doc = task[t].doc
      /\ c.before = task[t].before /\ c.alone = task[t].alone
  BY <1>2, <1>3, Storer DEF IsCall, CallFields
<1>5. task' = [u \in Tasks |-> task'[u]] /\ task'[t] = c /\ \A u \in Tasks \ {t} : task'[u] = task[u]
  BY <1>1, <1>3 DEF Inv, Shaped
<1>6. Asked(c)
  BY <1>1, <1>2, <1>4, Storer DEF Asked, Phases, Working, Storing
<1>7. PICK f \in Files : f = task[t].file
  BY <1>2, Storer
<1>8. /\ file'[f] = file[f] /\ file' = [file EXCEPT ![f] = file'[f]]
      /\ tmp'[f] = Empty /\ tmp' = [tmp EXCEPT ![f] = tmp'[f]]
  BY <1>1, <1>7 DEF Inv, Shaped
<1>9. c.alone => Kept(c, file'[f], tmp'[f])
  <2> SUFFICES ASSUME c.alone PROVE Kept(c, file'[f], tmp'[f])
    OBVIOUS
  <2>1. Kept(task[t], file[f], tmp[f])
    BY <1>2, <1>4, <1>7, Storer
  <2>2. file[f] = c.before /\ KeepsProjects(task[t])
    BY <1>1, <1>4, <2>1 DEF Kept, Working, Storing
  <2>3. KeepsProjects(c)
    BY <1>4, <2>2 DEF KeepsProjects
  <2>4. QED BY <1>4, <1>8, <2>2, <2>3 DEF Kept
<1>10. /\ file'[f] \in Marks \/ Good(f, file'[f])
       /\ tmp'[f] \in Marks \/ Good(f, tmp'[f])
       /\ f \notin crossed => file'[f] \notin Unreadable
       /\ Writes(task[t])
  BY <1>2, <1>7, <1>8, Storer DEF Marks
<1>11. WriterMoves(t, c, f)
  <2>1. \A u \in Tasks \ {t} : /\ Same(task'[u], task[u]) /\ task'[u].alone = task[u].alone
                               /\ task'[u].at # task[u].at => task[u].file = f
    BY <1>2, <1>5, Storer
  <2>2. Removing(c) => Removing(task[t]) /\ c.arg = task[t].arg
    BY <1>1, <1>4 DEF Removing
  <2>3. QED BY <1>1, <1>4, <1>5, <1>6, <1>7, <1>8, <1>9, <1>10, <2>1, <2>2 DEF WriterMoves
<1>12. QED BY <1>11, WriterStep

\* ... writes it, or into the file itself when another has renamed it meanwhile ...
LEMMA WriteTmpStep == ASSUME Constants, Inv, NEW t \in Tasks, WriteTmp(t) PROVE Keeps
<1>1. task[t].phase = "write" /\ task[t].phase \in Storing
  BY DEF WriteTmp, Storing
<1>2. PICK f \in Files : f = task[t].file
  BY <1>1, Storer
<1>3. PICK new \in Written(IF task[t].at = "tmp" THEN tmp[f] ELSE file[f], task[t].doc) :
        /\ tmp' = IF task[t].at = "tmp" THEN [tmp EXCEPT ![f] = new] ELSE tmp
        /\ file' = IF task[t].at = "path" THEN [file EXCEPT ![f] = new] ELSE file
  BY <1>2 DEF WriteTmp
<1>4. task' = [task EXCEPT ![t].phase = "rename", ![t].at = "none"] /\ UNCHANGED crossed
  BY DEF WriteTmp
<1>5. PICK c : c = [task[t] EXCEPT !.phase = "rename", !.at = "none"]
  OBVIOUS
<1>6. /\ IsCall(c) /\ c.phase = "rename" /\ c.at = "none" /\ c.file = task[t].file
      /\ c.edit = task[t].edit /\ c.arg = task[t].arg /\ c.doc = task[t].doc
      /\ c.before = task[t].before /\ c.alone = task[t].alone
  <2>1. IsCall(task[t])
    BY <1>1, Storer
  <2>2. QED BY <1>5, <2>1 DEF IsCall, CallFields
<1>7. task' = [u \in Tasks |-> task'[u]] /\ task'[t] = c /\ \A u \in Tasks \ {t} : task'[u] = task[u]
  BY <1>4, <1>5 DEF Inv, Shaped
<1>8. Asked(c)
  BY <1>1, <1>6, Storer DEF Asked, Phases, Working, Storing
<1>9. /\ file'[f] = IF task[t].at = "path" THEN new ELSE file[f]
      /\ tmp'[f] = IF task[t].at = "tmp" THEN new ELSE tmp[f]
      /\ file' = [file EXCEPT ![f] = file'[f]] /\ tmp' = [tmp EXCEPT ![f] = tmp'[f]]
  BY <1>3 DEF Inv, Shaped
<1>10. task[t].alone =>
         task[t].at = "tmp" /\ tmp[f] = Empty /\ file[f] = task[t].before /\ KeepsProjects(task[t])
  BY <1>1, <1>2, Storer DEF Kept, Working
<1>11. task[t].alone => tmp'[f] = task[t].doc /\ file'[f] = task[t].before
  BY <1>3, <1>9, <1>10 DEF Written
<1>12. c.alone => Kept(c, file'[f], tmp'[f])
  <2>1. KeepsProjects(task[t]) => KeepsProjects(c)
    BY <1>6 DEF KeepsProjects
  <2>2. QED BY <1>6, <1>10, <1>11, <2>1 DEF Kept
<1>13. new \in Marks \/ Good(f, new)
  <2>1. new \in {task[t].doc, Torn}
    BY <1>3 DEF Written
  <2>2. QED BY <1>1, <1>2, <2>1, Storer DEF Marks
<1>14. /\ file'[f] \in Marks \/ Good(f, file'[f])
       /\ tmp'[f] \in Marks \/ Good(f, tmp'[f])
       /\ f \notin crossed => file'[f] \notin Unreadable
       /\ Writes(task[t])
  BY <1>1, <1>2, <1>9, <1>10, <1>13, Storer
<1>15. WriterMoves(t, c, f)
  <2>1. \A u \in Tasks \ {t} : /\ Same(task'[u], task[u]) /\ task'[u].alone = task[u].alone
                               /\ task'[u].at # task[u].at => task[u].file = f
    BY <1>1, <1>7, Storer
  <2>2. Removing(c) => Removing(task[t]) /\ c.arg = task[t].arg
    BY <1>1, <1>6 DEF Removing
  <2>3. QED BY <1>2, <1>4, <1>6, <1>7, <1>8, <1>9, <1>12, <1>14, <2>1, <2>2 DEF WriterMoves
<1>16. QED BY <1>15, WriterStep

\* ... or writes a part and fails ...
LEMMA WriteFailsStep == ASSUME Constants, Inv, NEW t \in Tasks, WriteFails(t) PROVE Keeps
<1>1. task[t].phase = "write" /\ task[t].phase \in Storing
  BY DEF WriteFails, Storing
<1>2. PICK f \in Files : f = task[t].file
  BY <1>1, Storer
<1>3. /\ tmp' = IF task[t].at = "tmp" THEN [tmp EXCEPT ![f] = Torn] ELSE tmp
      /\ file' = IF task[t].at = "path" THEN [file EXCEPT ![f] = Torn] ELSE file
      /\ UNCHANGED crossed
  BY <1>2 DEF WriteFails
<1>4. task' = [task EXCEPT ![t].phase = "done", ![t].ok = FALSE, ![t].at = "none"]
  BY DEF WriteFails
<1>5. PICK c : c = [task[t] EXCEPT !.phase = "done", !.ok = FALSE, !.at = "none"]
  OBVIOUS
<1>6. /\ IsCall(c) /\ c.phase = "done" /\ c.ok = FALSE /\ c.at = "none" /\ c.file = task[t].file
      /\ c.edit = task[t].edit /\ c.arg = task[t].arg
      /\ c.before = task[t].before /\ c.alone = task[t].alone
  BY <1>1, <1>5, Storer DEF IsCall, CallFields
<1>7. task' = [u \in Tasks |-> task'[u]] /\ task'[t] = c /\ \A u \in Tasks \ {t} : task'[u] = task[u]
  BY <1>4, <1>5 DEF Inv, Shaped
<1>8. Asked(c)
  BY <1>1, <1>6, Storer DEF Asked, Phases, Working, Storing
<1>9. /\ file'[f] = IF task[t].at = "path" THEN Torn ELSE file[f]
      /\ tmp'[f] = IF task[t].at = "tmp" THEN Torn ELSE tmp[f]
      /\ file' = [file EXCEPT ![f] = file'[f]] /\ tmp' = [tmp EXCEPT ![f] = tmp'[f]]
  BY <1>3 DEF Inv, Shaped
<1>10. task[t].alone => task[t].at = "tmp" /\ file[f] = task[t].before
  BY <1>1, <1>2, Storer DEF Kept, Working
<1>11. c.alone => Kept(c, file'[f], tmp'[f])
  BY <1>6, <1>9, <1>10 DEF Kept, Working, Storing
<1>12. /\ file'[f] \in Marks \/ Good(f, file'[f])
       /\ tmp'[f] \in Marks \/ Good(f, tmp'[f])
       /\ f \notin crossed => file'[f] \notin Unreadable
       /\ Writes(task[t])
  <2>1. Torn \in Marks
    BY DEF Marks
  <2>2. QED BY <1>1, <1>2, <1>9, <1>10, <2>1, Storer
<1>13. WriterMoves(t, c, f)
  <2>1. \A u \in Tasks \ {t} : /\ Same(task'[u], task[u]) /\ task'[u].alone = task[u].alone
                               /\ task'[u].at # task[u].at => task[u].file = f
    BY <1>1, <1>7, Storer
  <2>2. ~Removing(c)
    BY <1>6 DEF Removing
  <2>3. QED BY <1>2, <1>3, <1>6, <1>7, <1>8, <1>9, <1>11, <1>12, <2>1, <2>2 DEF WriterMoves
<1>14. QED BY <1>13, WriterStep

\* ... and renames it, from under the calls that still have it open.
LEMMA RenameTmpStep == ASSUME Constants, Inv, NEW t \in Tasks, RenameTmp(t) PROVE Keeps
<1>1. task[t].phase = "rename" /\ task[t].phase \in Storing /\ UNCHANGED crossed
  BY DEF RenameTmp, Storing
<1>2. PICK f \in Files : f = task[t].file
  BY <1>1, Storer
<1>3. PICK ok : ok = (tmp[f] # None)
  OBVIOUS
<1>4. PICK c : c = [task[t] EXCEPT !.phase = "done", !.ok = ok]
  OBVIOUS
<1>5. /\ IsCall(c) /\ c.phase = "done" /\ c.ok = ok /\ c.at = task[t].at /\ c.file = task[t].file
      /\ c.edit = task[t].edit /\ c.arg = task[t].arg /\ c.doc = task[t].doc
      /\ c.before = task[t].before /\ c.alone = task[t].alone
  BY <1>1, <1>4, Storer DEF IsCall, CallFields
<1>6. /\ task' = [u \in Tasks |-> task'[u]] /\ task'[t] = c
      /\ \A u \in Tasks \ {t} : /\ Same(task'[u], task[u]) /\ task'[u].alone = task[u].alone
                                /\ task'[u].at # task[u].at => task[u].file = f
  <2>1. CASE tmp[f] = None
    <3>1. Answered(t, FALSE) /\ ok = FALSE
      BY <1>2, <1>3, <2>1 DEF RenameTmp
    <3>2. task' = [u \in Tasks |-> task'[u]] /\ task'[t] = c /\ \A u \in Tasks \ {t} : task'[u] = task[u]
      BY <1>4, <3>1 DEF Answered, Inv, Shaped
    <3>3. QED BY <1>1, <3>2, Storer
  <2>2. CASE tmp[f] # None
    <3> DEFINE moved(u) == IF task[u].phase = "write" /\ task[u].file = f
                           THEN IF task[u].at = "tmp" THEN "path" ELSE "gone"
                           ELSE task[u].at
    <3>1. task' = [u \in Tasks |-> IF u = t THEN [task[t] EXCEPT !.phase = "done", !.ok = TRUE]
                                   ELSE [task[u] EXCEPT !.at = moved(u)]]
      BY <1>2, <2>2 DEF RenameTmp
    <3>2. ok = TRUE
      BY <1>3, <2>2
    <3>3. task' = [u \in Tasks |-> task'[u]] /\ task'[t] = c
      BY <1>4, <3>1, <3>2
    <3>4. ASSUME NEW u \in Tasks, u # t
          PROVE  /\ Same(task'[u], task[u]) /\ task'[u].alone = task[u].alone
                 /\ task'[u].at # task[u].at => task[u].file = f
      <4>1. IsCall(task[u]) /\ task[u].alone \in BOOLEAN
        BY DEF Inv, Shaped, Calls, Asked
      <4>2. task'[u] = [task[u] EXCEPT !.at = moved(u)]
        BY <3>1, <3>4
      <4>3. \/ moved(u) = task[u].at
            \/ task[u].phase = "write" /\ task[u].file = f /\ moved(u) \in {"path", "gone"}
        OBVIOUS
      <4> HIDE DEF moved
      <4>4. QED BY <4>1, <4>2, <4>3 DEF Same, IsCall, CallFields
    <3>5. QED BY <3>3, <3>4
  <2>3. QED BY <2>1, <2>2
<1>7. Asked(c)
  BY <1>1, <1>5, Storer DEF Asked, Phases, Working, Storing
<1>8. /\ file'[f] = IF tmp[f] = None THEN file[f] ELSE tmp[f]
      /\ tmp'[f] = None
      /\ file' = [file EXCEPT ![f] = file'[f]] /\ tmp' = [tmp EXCEPT ![f] = tmp'[f]]
  BY <1>2 DEF RenameTmp, Inv, Shaped
<1>9. task[t].alone => tmp[f] = task[t].doc /\ task[t].doc \notin Marks
  BY <1>1, <1>2, Storer DEF Kept
<1>10. c.alone => Kept(c, file'[f], tmp'[f])
  BY <1>3, <1>5, <1>8, <1>9 DEF Kept, Working, Storing, Marks
<1>11. /\ file'[f] \in Marks \/ Good(f, file'[f])
       /\ tmp'[f] \in Marks \/ Good(f, tmp'[f])
       /\ f \notin crossed => file'[f] \notin Unreadable
       /\ Writes(task[t])
  <2>1. None \in Marks
    BY DEF Marks
  <2>2. f \notin crossed => file'[f] \notin Unreadable
    BY <1>1, <1>2, <1>8, <1>9, Storer DEF Marks, Unreadable
  <2>3. QED BY <1>1, <1>2, <1>8, <2>1, <2>2, Storer
<1>12. WriterMoves(t, c, f)
  <2>1. ~Removing(c)
    BY <1>5 DEF Removing
  <2>2. QED BY <1>1, <1>2, <1>5, <1>6, <1>7, <1>8, <1>10, <1>11, <2>1 DEF WriterMoves
<1>13. QED BY <1>12, WriterStep

\* A call that has nothing to do with a file any more, or not yet.
LEMMA OutsideStep ==
  ASSUME Inv, NEW s \in Tasks, task[s].phase = "idle",
         task' = [task EXCEPT ![s].phase = "outside"], UNCHANGED <<file, tmp, crossed>>
  PROVE  Keeps
<1> DEFINE c == [task[s] EXCEPT !.phase = "outside"]
<1>1. Asked(task[s]) /\ IsCall(task[s]) /\ task = [u \in Tasks |-> task[u]]
  BY DEF Inv, Calls, Shaped
<1>2. /\ IsCall(c) /\ c.phase = "outside" /\ c.edit = task[s].edit /\ c.at = task[s].at
      /\ c.alone = task[s].alone
  BY <1>1 DEF IsCall, CallFields
<1>3. task' = [task EXCEPT ![s] = c]
  BY <1>1
<1> HIDE DEF c
<1>4. c.edit = "get" /\ ~Writes(c)
  BY <1>1, <1>2 DEF Asked, Writes
<1>5. Asked(c)
  BY <1>1, <1>2, <1>4 DEF Asked, Phases, Working, Storing
<1>6. Shaped' /\ Calls' /\ Contents' /\ Uncrossed'
  BY <1>2, <1>3, <1>4, <1>5, QuietStep
<1>7. \A u \in Tasks : Removing(task[u])' => Removing(task[u]) /\ task[u]'.arg = task[u].arg
  BY <1>1, <1>3, <1>4 DEF Removing
<1>8. QED BY <1>6, <1>7 DEF Keeps

\* A device or a server answers.
LEMMA OutsideAnswersStep == ASSUME Inv, NEW s \in Tasks, OutsideAnswers(s) PROVE Keeps
<1>1. PICK ok \in BOOLEAN : Answered(s, ok)
  BY DEF OutsideAnswers
<1>2. task[s].phase = "outside" /\ UNCHANGED <<file, tmp, crossed>> /\ task[s].edit = "get"
  BY DEF OutsideAnswers, Inv, Calls, Asked
<1>3. QED BY <1>1, <1>2, AnsweredStep

\* set_active_project reads the file again.
LEMMA RereadStep == ASSUME Inv, NEW s \in Tasks, Reread(s) PROVE Keeps
<1> DEFINE c == [task[s] EXCEPT !.phase = "read", !.edit = "get"]
<1>1. /\ Asked(task[s]) /\ IsCall(task[s]) /\ task = [u \in Tasks |-> task[u]]
      /\ task[s].phase = "done" /\ task[s].edit = "active" /\ UNCHANGED <<file, tmp, crossed>>
  BY DEF Inv, Calls, Shaped, Reread, ReadAgain
<1>2. /\ IsCall(c) /\ c.phase = "read" /\ c.edit = "get" /\ c.at = task[s].at
      /\ c.alone = task[s].alone /\ c.file = task[s].file
  BY <1>1 DEF IsCall, CallFields
<1>3. task' = [task EXCEPT ![s] = c]
  BY <1>1 DEF Reread
<1> HIDE DEF c
<1>4. Asked(c)
  BY <1>1, <1>2 DEF Asked, Phases, Working, Storing, Blind, Fits
<1>5. Shaped' /\ Calls' /\ Contents' /\ Uncrossed'
  BY <1>1, <1>2, <1>3, <1>4, QuietStep DEF Writes
<1>6. \A u \in Tasks : Removing(task[u])' => Removing(task[u]) /\ task[u]'.arg = task[u].arg
  BY <1>1, <1>2, <1>3 DEF Removing
<1>7. QED BY <1>5, <1>6 DEF Keeps

\* The session is answered.
LEMMA AnswerStep == ASSUME Inv, NEW s \in Tasks, Answer(s) PROVE Keeps
<1>1. /\ task' = [task EXCEPT ![s] = NoCall] /\ UNCHANGED <<file, tmp, crossed>>
      /\ task = [u \in Tasks |-> task[u]]
  BY DEF Answer, Inv, Shaped
<1>2. Shaped' /\ Calls' /\ Contents' /\ Uncrossed'
  BY <1>1, NoCallIsAsked, QuietStep
<1>3. \A u \in Tasks : Removing(task[u])' => Removing(task[u]) /\ task[u]'.arg = task[u].arg
  BY <1>1, NoCallIsAsked
<1>4. QED BY <1>2, <1>3 DEF Keeps

\* The proxy dies, and no call is left.
LEMMA CrashStep == ASSUME Inv, Crash PROVE Keeps
<1>1. task' = [u \in Tasks |-> NoCall] /\ UNCHANGED <<file, tmp, crossed>>
  BY DEF Crash
<1>2. \A u \in Tasks : task'[u] = NoCall
  BY <1>1
<1>3. Shaped'
  BY <1>1, <1>2, NoCallIsAsked DEF Inv, Shaped
<1>4. Calls'
  BY <1>2, NoCallIsAsked DEF Calls, Undisturbed
<1>5. Contents'
  BY <1>1 DEF Inv, Contents, Good
<1>6. Uncrossed'
  BY <1>1, <1>2, NoCallIsAsked DEF Inv, Uncrossed
<1>7. \A u \in Tasks : ~Removing(task[u])'
  BY <1>2, NoCallIsAsked
<1>8. QED BY <1>3, <1>4, <1>5, <1>6, <1>7 DEF Keeps

\* The rules of the project are listed: a removal that goes on finds none.
LEMMA ListRulesStep == ASSUME Inv, NEW s \in Tasks, ListRulesByProject(s),
                              lateRules \in [Tasks -> SUBSET (ProjectIds \cup {None})]
                       PROVE  Inv'
<1>1. /\ task[s].phase = "rules" /\ UNCHANGED <<file, tmp, crossed, rules>>
      /\ \A u \in Tasks \ {s} : lateRules'[u] = lateRules[u]
      /\ ~Removing(task[s])
  BY DEF ListRulesByProject, Removing
<1>2. CASE RulesOf(task[s].arg.id) # {}
  <2>1. Answered(s, FALSE)
    BY <1>2 DEF ListRulesByProject
  <2>2. Keeps
    BY <1>1, <2>1, AnsweredStep
  <2>3. RulesWait'
    BY <1>1, <2>2, RulesStillWait DEF Keeps, Inv
  <2>4. QED BY <2>2, <2>3 DEF Keeps, Inv
<1>3. CASE RulesOf(task[s].arg.id) = {}
  <2> DEFINE c == [task[s] EXCEPT !.phase = "read"]
  <2>1. Asked(task[s]) /\ Undisturbed(s) /\ IsCall(task[s]) /\ task = [u \in Tasks |-> task[u]]
    BY DEF Inv, Calls, Shaped
  <2>2. /\ IsCall(c) /\ c.phase = "read" /\ c.edit = task[s].edit /\ c.at = task[s].at
        /\ c.alone = task[s].alone /\ c.file = task[s].file /\ c.arg = task[s].arg
        /\ c.before = task[s].before
    BY <2>1 DEF IsCall, CallFields
  <2>3. task' = [task EXCEPT ![s] = c]
    BY <1>3, <2>1 DEF ListRulesByProject
  <2> HIDE DEF c
  <2>4. Asked(c)
    BY <1>1, <2>1, <2>2 DEF Asked, Phases, Working, Storing, Blind
  <2>5. Writes(task[s]) /\ (c.alone => Kept(c, file[c.file], tmp[c.file]))
    BY <1>1, <2>1, <2>2 DEF Asked, Writes, Undisturbed, Kept, Working, Storing
  <2>6. Shaped' /\ Calls' /\ Contents' /\ Uncrossed'
    BY <1>1, <2>2, <2>3, <2>4, <2>5, QuietStep
  <2>7. /\ task'[s].arg = task[s].arg
        /\ \A u \in Tasks \ {s} : task'[u] = task[u]
    BY <2>1, <2>2, <2>3
  <2>8. RulesWait'
    BY <1>1, <1>3, <2>7, RulesStillWait DEF Inv
  <2>9. QED BY <2>6, <2>8 DEF Inv
<1>4. QED BY <1>2, <1>3

-----------------------------------------------------------------------------
(***************************************************************************)
(* The requests. What each of them does to the files and to the rules is   *)
(* one of four things.                                                     *)
(***************************************************************************)
Frames == {Response, Event, Error, Pong}

\* The variables TypeOK speaks of and Inv does not.
SessionsTyped ==
  /\ open \in [Sessions -> BOOLEAN]
  /\ outbox \in [Sessions -> Seq(Frames)]
  /\ rules \in [RuleIds -> ProjectIds \cup {None}]
  /\ lateRules \in [Sessions -> SUBSET (ProjectIds \cup {None})]
  /\ received \in 0 .. MaxRequests

Nothing == UNCHANGED <<fileVars, rules, lateRules>>

Leaves(s) ==
  /\ task' = [task EXCEPT ![s].phase = "outside"]
  /\ UNCHANGED <<file, tmp, crossed, rules, lateRules>>

UsesFile(s, f, edit, arg, phase) ==
  /\ Begin(s, f, edit, arg, phase) /\ Fits(f, edit, arg)
  /\ phase \in {"rules", "read", "compute"}
  /\ phase = "rules" => edit = "remove"
  /\ phase = "compute" => edit \in Blind
  /\ phase = "read" => edit \notin Blind \cup {"remove"}
  /\ lateRules' = [lateRules EXCEPT ![s] = {}] /\ UNCHANGED rules

ChangesRules ==
  /\ rules' \in [RuleIds -> ProjectIds \cup {None}]
  /\ lateRules' = [u \in Sessions |->
                     lateRules[u] \cup {rules'[id] : id \in {i \in RuleIds : rules'[i] # rules[i]}}]
  /\ UNCHANGED fileVars

Kind(s) ==
  /\ IsIdle(s) /\ UNCHANGED open
  /\ received < MaxRequests /\ received' = received + 1
  /\ \E frames \in Seq(Frames) : outbox' = [outbox EXCEPT ![s] = frames]
  /\ \/ Nothing
     \/ Leaves(s)
     \/ \E f \in Files : \E edit, arg, phase : UsesFile(s, f, edit, arg, phase)
     \/ ChangesRules

\* An operation that answers at once.
LEMMA SendKind ==
  ASSUME NEW s, NEW o, Take(s, o), NEW kind \in Frames, Send(s, kind) PROVE Kind(s)
<1>1. <<kind>> \in Seq(Frames) /\ outbox' = [outbox EXCEPT ![s] = <<kind>>]
  BY DEF Send
<1>2. Nothing
  BY DEF Send, Nothing, fileVars
<1>3. QED BY <1>1, <1>2 DEF Take, Kind

\* A payload that is refused.
LEMMA InvalidKind == ASSUME NEW s, NEW o, Take(s, o), InvalidPayload(s) PROVE Kind(s)
  BY SendKind DEF InvalidPayload, Frames

\* An operation whose outcome is decided elsewhere.
LEMMA OutsideKind == ASSUME NEW s, NEW o, Take(s, o), Outside(s) PROVE Kind(s)
<1>1. << >> \in Seq(Frames) /\ outbox' = [outbox EXCEPT ![s] = << >>]
  BY DEF Outside
<1>2. Leaves(s)
  BY DEF Outside, Leaves
<1>3. QED BY <1>1, <1>2 DEF Take, Kind

\* An operation that begins to use a file.
LEMMA BeginKind ==
  ASSUME NEW s, NEW o, Take(s, o), outbox' = [outbox EXCEPT ![s] = << >>],
         NEW f \in Files, NEW edit, NEW arg, NEW phase, UsesFile(s, f, edit, arg, phase)
  PROVE  Kind(s)
<1>1. << >> \in Seq(Frames)
  OBVIOUS
<1>2. QED BY <1>1 DEF Take, Kind

\* A DAO that reads or changes one, which is never the removal of a project.
LEMMA DaoKind ==
  ASSUME NEW s, NEW o, Take(s, o), NEW f \in Files, NEW edit, NEW arg, Fits(f, edit, arg),
         edit # "remove", Dao(s, f, edit, arg)
  PROVE  Kind(s)
<1>1. UsesFile(s, f, edit, arg, IF edit \in Blind THEN "compute" ELSE "read")
  BY DEF Dao, Call, UsesFile
<1>2. outbox' = [outbox EXCEPT ![s] = << >>]
  BY DEF Dao
<1>3. QED BY <1>1, <1>2, BeginKind

\* A rule is given a project, or taken away.
LEMMA RulesKind ==
  ASSUME NEW s, NEW o, Take(s, o), rules \in [RuleIds -> ProjectIds \cup {None}],
         NEW id \in RuleIds, NEW p \in ProjectIds \cup {None},
         RulesChange(s, Response, [rules EXCEPT ![id] = p])
  PROVE  Kind(s)
<1>1. <<Response>> \in Seq(Frames) /\ outbox' = [outbox EXCEPT ![s] = <<Response>>]
  BY DEF RulesChange, Frames
<1>2. ChangesRules
  <2>1. rules' = [rules EXCEPT ![id] = p] /\ UNCHANGED fileVars
    BY DEF RulesChange
  <2>2. lateRules' = [u \in Sessions |->
                       lateRules[u] \cup {rules'[i] : i \in {j \in RuleIds : rules'[j] # rules[j]}}]
    BY <2>1 DEF RulesChange
  <2>3. QED BY <2>1, <2>2 DEF ChangesRules
<1>3. QED BY <1>1, <1>2 DEF Take, Kind

\* The requests that put a setting, read one, or concern no file.
LEMMA SettingsKinds == ASSUME NEW s \in Sessions, SettingsOps(s) PROVE Kind(s)
<1>1. CASE UnsupportedVersion(s) \/ PingFrame(s) \/ InvalidFrame(s) \/ SYSTEM_PING(s)
  BY <1>1, SendKind DEF UnsupportedVersion, PingFrame, InvalidFrame, SYSTEM_PING, Frames
<1>2. CASE COMPOSE_REQUEST_SEND(s)
  BY <1>2, InvalidKind, OutsideKind DEF COMPOSE_REQUEST_SEND
<1>3. CASE CAPTURE_STATUS_GET(s)
  BY <1>3, DaoKind DEF CAPTURE_STATUS_GET, Fits, Files, WholeFiles
<1>4. CASE CAPTURE_CONTROL_SET(s)
  BY <1>4, InvalidKind, DaoKind DEF CAPTURE_CONTROL_SET, Fits, Files, WholeFiles
<1>5. CASE SETTINGS_GENERAL_GET(s)
  BY <1>5, DaoKind DEF SETTINGS_GENERAL_GET, Fits, Files, WholeFiles
<1>6. CASE SETTINGS_GENERAL_SET(s)
  BY <1>6, InvalidKind, DaoKind DEF SETTINGS_GENERAL_SET, Fits, Files, WholeFiles
<1>7. CASE SETTINGS_CAPTURE_FILTER_GET(s)
  BY <1>7, DaoKind DEF SETTINGS_CAPTURE_FILTER_GET, Fits, Files, WholeFiles
<1>8. CASE SETTINGS_CAPTURE_FILTER_SET(s)
  BY <1>8, InvalidKind, DaoKind DEF SETTINGS_CAPTURE_FILTER_SET, Fits, Files, WholeFiles
<1>9. CASE SETTINGS_CERTIFICATE_PATH_GET(s)
  BY <1>9, SendKind DEF SETTINGS_CERTIFICATE_PATH_GET, Frames
<1>10. CASE DEVICE_ADB_STATUS_GET(s) \/ DEVICE_ADB_INSTALL_PROGRESS_GET(s)
  BY <1>10, SendKind DEF DEVICE_ADB_STATUS_GET, DEVICE_ADB_INSTALL_PROGRESS_GET, Frames
<1>11. CASE DEVICE_ADB_INSTALL(s) \/ DEVICE_ADB_DEVICES_LIST(s)
  BY <1>11, OutsideKind DEF DEVICE_ADB_INSTALL, DEVICE_ADB_DEVICES_LIST
<1>12. CASE DEVICE_ADB_PROXY_STATE_GET(s) \/ DEVICE_ADB_PROXY_ENABLE(s) \/ DEVICE_ADB_PROXY_DISABLE(s)
  BY <1>12, InvalidKind, OutsideKind
  DEF DEVICE_ADB_PROXY_STATE_GET, DEVICE_ADB_PROXY_ENABLE, DEVICE_ADB_PROXY_DISABLE
<1>13. QED
  BY <1>1, <1>2, <1>3, <1>4, <1>5, <1>6, <1>7, <1>8, <1>9, <1>10, <1>11, <1>12 DEF SettingsOps

\* The requests about rules and projects.
LEMMA ProjectKinds ==
  ASSUME NEW s \in Sessions, SessionsTyped, ProjectOps(s) PROVE Kind(s)
<1>1. CASE RULES_LIST_GET(s) \/ RULES_TEMPLATES_GET(s)
  BY <1>1, SendKind DEF RULES_LIST_GET, RULES_TEMPLATES_GET, RulesRead, Frames
<1>2. CASE RULES_GET(s)
  BY <1>2, InvalidKind, SendKind DEF RULES_GET, RulesRead, Frames
<1>3. CASE RULES_SAVE_SET(s)
  <2>1. Take(s, "set")
    BY <1>3 DEF RULES_SAVE_SET
  <2>2. \/ InvalidPayload(s) \/ Send(s, Error)
        \/ \E id \in RuleIds, p \in ProjectIds : RulesChange(s, Response, [rules EXCEPT ![id] = p])
    BY <1>3 DEF RULES_SAVE_SET
  <2>3. QED BY <2>1, <2>2, InvalidKind, SendKind, RulesKind DEF SessionsTyped, Frames
<1>4. CASE RULES_DELETE(s)
  <2>1. Take(s, "set")
    BY <1>4 DEF RULES_DELETE
  <2>2. \/ InvalidPayload(s) \/ Send(s, Error)
        \/ \E id \in RuleIds : RulesChange(s, Response, [rules EXCEPT ![id] = None])
    BY <1>4 DEF RULES_DELETE
  <2>3. QED BY <2>1, <2>2, InvalidKind, SendKind, RulesKind DEF SessionsTyped, Frames
<1>5. CASE RULES_ENABLED_SET(s)
  BY <1>5, InvalidKind, SendKind DEF RULES_ENABLED_SET, Frames
<1>6. CASE PROJECTS_LIST_GET(s)
  BY <1>6, DaoKind DEF PROJECTS_LIST_GET, Fits, Files, WholeFiles
<1>7. CASE PROJECTS_ACTIVE_SET(s)
  BY <1>7, InvalidKind, DaoKind DEF PROJECTS_ACTIVE_SET, Fits, Files, WholeFiles
<1>8. CASE PROJECTS_CREATE(s)
  BY <1>8, InvalidKind, DaoKind DEF PROJECTS_CREATE, Fits, Files, WholeFiles
<1>9. CASE PROJECTS_RENAME(s)
  BY <1>9, InvalidKind, DaoKind DEF PROJECTS_RENAME, Fits, Files, WholeFiles
<1>10. CASE PROJECTS_DELETE(s)
  <2>1. Take(s, "projects.delete") /\ "projects" \in Files
    BY <1>10 DEF PROJECTS_DELETE, Files, WholeFiles
  <2>2. ASSUME NEW id \in ProjectIds, Begin(s, "projects", "remove", [id |-> id], "rules"),
               outbox' = [outbox EXCEPT ![s] = << >>],
               lateRules' = [lateRules EXCEPT ![s] = {}], UNCHANGED rules
        PROVE  Kind(s)
    <3>1. UsesFile(s, "projects", "remove", [id |-> id], "rules")
      BY <2>2 DEF UsesFile, Fits
    <3>2. QED BY <2>1, <2>2, <3>1, BeginKind
  <2>3. QED BY <1>10, <2>1, <2>2, InvalidKind DEF PROJECTS_DELETE
<1>11. QED BY <1>1, <1>2, <1>3, <1>4, <1>5, <1>6, <1>7, <1>8, <1>9, <1>10 DEF ProjectOps

\* The requests about the capture rules and the filter history.
LEMMA CaptureKinds == ASSUME NEW s \in Sessions, CaptureOps(s) \/ HistoryOps(s) PROVE Kind(s)
<1>1. CASE CAPTURE_RULES_LIST_GET(s)
  BY <1>1, DaoKind DEF CAPTURE_RULES_LIST_GET, Fits, Files, WholeFiles
<1>2. CASE CAPTURE_RULES_UPSERT(s)
  BY <1>2, InvalidKind, DaoKind DEF CAPTURE_RULES_UPSERT, Fits, Files, WholeFiles
<1>3. CASE CAPTURE_RULES_DELETE(s)
  BY <1>3, InvalidKind, DaoKind DEF CAPTURE_RULES_DELETE, Fits, Files, WholeFiles
<1>4. CASE CAPTURE_RULES_ENABLED_SET(s)
  BY <1>4, InvalidKind, DaoKind DEF CAPTURE_RULES_ENABLED_SET, Fits, Files, WholeFiles
<1>5. CASE HISTORY_GET(s)
  BY <1>5, DaoKind DEF HISTORY_GET, Fits, Files, WholeFiles
<1>6. CASE HISTORY_APPEND(s)
  BY <1>6, InvalidKind, DaoKind DEF HISTORY_APPEND, Fits, Files, WholeFiles
<1>7. CASE HISTORY_CLEAR(s)
  BY <1>7, DaoKind DEF HISTORY_CLEAR, Fits, Files, WholeFiles
<1>8. QED BY <1>1, <1>2, <1>3, <1>4, <1>5, <1>6, <1>7 DEF CaptureOps, HistoryOps

-----------------------------------------------------------------------------
(***************************************************************************)
(* Every step keeps the invariant.                                         *)
(***************************************************************************)

\* A request keeps the invariant.
LEMMA RequestStep ==
  ASSUME Constants, Inv, SessionsTyped, NEW s \in Sessions, Kind(s) PROVE Inv' /\ SessionsTyped'
<1>1. s \in Tasks /\ task[s].phase = "idle"
  BY DEF Sessions, Kind, IsIdle
<1>2. /\ open' \in [Sessions -> BOOLEAN] /\ received' \in 0 .. MaxRequests
      /\ outbox' \in [Sessions -> Seq(Frames)]
  BY DEF Constants, SessionsTyped, Kind
<1>3. CASE Nothing
  <2>1. UNCHANGED <<file, tmp, task, crossed, rules, lateRules>>
    BY <1>3 DEF Nothing, fileVars
  <2>2. Inv'
    BY <2>1 DEF Inv, Shaped, Calls, Asked, Good, Fits, Undisturbed, Kept, KeepsProjects, Writes, Contents,
                Uncrossed, RulesWait, Removing, RulesOf
  <2>3. SessionsTyped'
    BY <1>2, <2>1 DEF SessionsTyped
  <2>4. QED BY <2>2, <2>3
<1>4. CASE Leaves(s)
  <2>1. Keeps
    BY <1>1, <1>4, OutsideStep DEF Leaves
  <2>2. Inv'
    BY <1>4, <2>1, KeepsInv DEF Leaves
  <2>3. SessionsTyped'
    BY <1>2, <1>4 DEF SessionsTyped, Leaves
  <2>4. QED BY <2>2, <2>3
<1>5. ASSUME NEW f \in Files, NEW edit, NEW arg, NEW phase, UsesFile(s, f, edit, arg, phase)
      PROVE  Inv' /\ SessionsTyped'
  <2>1. /\ Shaped' /\ Calls' /\ Contents' /\ Uncrossed'
        /\ task'[s].phase = phase /\ task'[s].edit = edit
        /\ \A u \in Tasks \ {s} : Same(task'[u], task[u])
    BY <1>1, <1>5, BeginStep DEF UsesFile
  <2>2. UNCHANGED rules /\ lateRules' = [lateRules EXCEPT ![s] = {}]
    BY <1>5 DEF UsesFile
  <2>3. ~Removing(task[s])'
    BY <1>5, <2>1 DEF Removing, UsesFile
  <2>4. \A u \in Tasks \ {s} : Removing(task[u])' => Removing(task[u]) /\ task[u]'.arg = task[u].arg
    BY <2>1 DEF Removing, Same
  <2>5. \A u \in Tasks \ {s} : lateRules'[u] = lateRules[u]
    BY <2>2 DEF SessionsTyped, Sessions
  <2>6. RulesWait'
    BY <2>2, <2>3, <2>4, <2>5, RulesStillWait DEF Inv
  <2>7. SessionsTyped'
    BY <1>2, <2>2 DEF SessionsTyped
  <2>8. QED BY <2>1, <2>6, <2>7 DEF Inv
<1>6. CASE ChangesRules
  <2>1. UNCHANGED <<file, tmp, task, crossed>>
    BY <1>6 DEF ChangesRules, fileVars
  <2>2. Shaped' /\ Calls' /\ Contents' /\ Uncrossed'
    BY <2>1 DEF Inv, Shaped, Calls, Asked, Good, Fits, Undisturbed, Kept, KeepsProjects, Writes, Contents,
                Uncrossed
  <2>3. \A u \in Tasks : lateRules'[u] = lateRules[u] \cup {rules'[id] : id \in {i \in RuleIds : rules'[i] # rules[i]}}
    BY <1>6 DEF ChangesRules, Sessions
  <2>4. RulesWait'
    <3> SUFFICES ASSUME NEW u \in Tasks, Removing(task[u]), RulesOf(task[u].arg.id)' # {}
                 PROVE  task[u].arg.id \in lateRules'[u]
      BY <2>1 DEF RulesWait
    <3>1. PICK id \in RuleIds : rules'[id] = task[u].arg.id
      BY <2>1 DEF RulesOf
    <3>2. CASE rules[id] = rules'[id]
      <4>1. RulesOf(task[u].arg.id) # {}
        BY <3>1, <3>2 DEF RulesOf
      <4>2. QED BY <2>3, <4>1 DEF Inv, RulesWait
    <3>3. CASE rules[id] # rules'[id]
      BY <2>3, <3>1, <3>3
    <3>4. QED BY <3>2, <3>3
  <2>5. SessionsTyped'
    <3>1. \A id \in RuleIds : rules'[id] \in ProjectIds \cup {None}
      BY <1>6 DEF ChangesRules
    <3>2. lateRules' \in [Sessions -> SUBSET (ProjectIds \cup {None})]
      BY <1>6, <3>1 DEF ChangesRules, SessionsTyped
    <3>3. QED BY <1>2, <1>6, <3>2 DEF ChangesRules, SessionsTyped
  <2>6. QED BY <2>2, <2>4, <2>5 DEF Inv
<1>7. QED BY <1>3, <1>4, <1>5, <1>6 DEF Kind

\* A step of SettingsFiles, which leaves the sessions alone.
LEMMA FileWorkStep ==
  ASSUME Constants, Inv, NEW s \in Sessions,
         (FileStep(s) \/ WriteFails(s)) /\ UNCHANGED apiVars
  PROVE  Inv'
<1>1. s \in Tasks /\ UNCHANGED <<rules, lateRules>>
  BY DEF Sessions, apiVars
<1>2. Keeps
  BY <1>1, ReadFileStep, ComputeBlindStep, OpenTmpStep, WriteTmpStep, RenameTmpStep, WriteFailsStep
  DEF FileStep, WriteJsonAtomic
<1>3. QED BY <1>1, <1>2, KeepsInv

\* So does everything else.
LEMMA NextStep ==
  ASSUME Constants, Inv, SessionsTyped, [Next]_vars PROVE Inv' /\ SessionsTyped'
<1>1. CASE \E s \in Sessions : Requests(s)
  BY <1>1, SettingsKinds, ProjectKinds, CaptureKinds, RequestStep DEF Requests
<1>2. ASSUME NEW s \in Sessions, Work(s) PROVE Inv' /\ SessionsTyped'
  <2>1. CASE FileWork(s)
    <3>1. SessionsTyped'
      BY <2>1 DEF FileWork, apiVars, SessionsTyped
    <3>2. QED BY <2>1, <3>1, FileWorkStep DEF FileWork
  <2>2. CASE ListRulesByProject(s)
    <3>1. SessionsTyped'
      BY <2>2 DEF ListRulesByProject, SessionsTyped
    <3>2. QED BY <2>2, <3>1, ListRulesStep DEF SessionsTyped, Sessions
  <2>3. CASE OutsideAnswers(s)
    <3>1. SessionsTyped' /\ UNCHANGED <<rules, lateRules>>
      BY <2>3 DEF OutsideAnswers, apiVars, SessionsTyped
    <3>2. QED BY <2>3, <3>1, OutsideAnswersStep, KeepsInv DEF Sessions
  <2>4. CASE Reread(s)
    <3>1. SessionsTyped' /\ UNCHANGED <<rules, lateRules>>
      BY <2>4 DEF Reread, apiVars, SessionsTyped
    <3>2. QED BY <2>4, <3>1, RereadStep, KeepsInv DEF Sessions
  <2>5. CASE Answer(s)
    <3>1. UNCHANGED <<open, rules, lateRules, received>>
      BY <2>5 DEF Answer
    <3>2. outbox' \in [Sessions -> Seq(Frames)]
      <4>1. <<Error>> \in Seq(Frames) /\ <<Response, Event>> \in Seq(Frames) /\ <<Response>> \in Seq(Frames)
        BY DEF Frames
      <4>2. QED BY <2>5, <4>1 DEF Answer, SessionsTyped
    <3>3. SessionsTyped'
      BY <3>1, <3>2 DEF SessionsTyped
    <3>4. QED BY <2>5, <3>1, <3>3, AnswerStep, KeepsInv DEF Sessions
  <2>6. CASE Done(s)
    <3>1. Nothing /\ UNCHANGED <<open, received>> /\ outbox' = [outbox EXCEPT ![s] = << >>]
      BY <2>6 DEF Done, Nothing
    <3>2. Inv'
      BY <3>1 DEF Nothing, fileVars, Inv, Shaped, Calls, Asked, Good, Fits, Undisturbed, Kept, KeepsProjects,
                  Writes, Contents, Uncrossed, RulesWait, Removing, RulesOf
    <3>3. SessionsTyped'
      BY <3>1 DEF Nothing, fileVars, SessionsTyped
    <3>4. QED BY <3>2, <3>3
  <2>7. QED BY <1>2, <2>1, <2>2, <2>3, <2>4, <2>5, <2>6 DEF Work
<1>3. ASSUME UNCHANGED <<file, tmp, task, crossed, rules, lateRules>> PROVE Inv'
  BY <1>3 DEF Inv, Shaped, Calls, Asked, Good, Fits, Undisturbed, Kept, KeepsProjects, Writes, Contents,
              Uncrossed, RulesWait, Removing, RulesOf
<1>4. ASSUME NEW s \in Sessions, Connect(s) \/ Close(s) PROVE Inv' /\ SessionsTyped'
  <2>1. UNCHANGED <<file, tmp, task, crossed, rules, lateRules, outbox, received>>
    BY <1>4 DEF Connect, Close, fileVars
  <2>2. open' \in [Sessions -> BOOLEAN]
    BY <1>4 DEF Connect, Close, SessionsTyped
  <2>3. SessionsTyped'
    BY <2>1, <2>2 DEF SessionsTyped
  <2>4. QED BY <1>3, <2>1, <2>3
<1>5. ASSUME NEW s \in Sessions, WriteFails(s) /\ UNCHANGED apiVars PROVE Inv' /\ SessionsTyped'
  <2>1. SessionsTyped'
    BY <1>5 DEF apiVars, SessionsTyped
  <2>2. QED BY <1>5, <2>1, FileWorkStep
<1>6. CASE ApiCrash
  <2>1. Crash /\ UNCHANGED <<rules, lateRules, received>>
    BY <1>6 DEF ApiCrash
  <2>2. SessionsTyped'
    BY <1>6 DEF ApiCrash, SessionsTyped
  <2>3. QED BY <2>1, <2>2, CrashStep, KeepsInv
<1>7. CASE UNCHANGED vars
  <2>1. UNCHANGED <<file, tmp, task, crossed, rules, lateRules, open, outbox, received>>
    BY <1>7 DEF vars, fileVars, apiVars
  <2>2. SessionsTyped'
    BY <2>1 DEF SessionsTyped
  <2>3. QED BY <1>3, <2>1, <2>2
<1>8. QED BY <1>1, <1>2, <1>4, <1>5, <1>6, <1>7 DEF Next, Lives, Faults

\* The invariant is one, whatever the constants stand for.
THEOREM InvariantHolds == ASSUME Constants PROVE Spec => [](Inv /\ SessionsTyped)
<1>1. Init => Inv /\ SessionsTyped
  <2>1. Init => SessionsTyped
    BY DEF Constants, Init, SessionsTyped
  <2>2. QED BY <2>1, InitInv
<1>2. (Inv /\ SessionsTyped) /\ [Next]_vars => (Inv /\ SessionsTyped)'
  BY NextStep
<1>3. QED BY <1>1, <1>2, PTL DEF Spec

\* Type correctness.
THEOREM TypeCorrect == ASSUME Constants PROVE Spec => []TypeOK
<1>1. Inv /\ SessionsTyped => TypeOK
  <2> SUFFICES ASSUME Inv, SessionsTyped PROVE TypeOK
    OBVIOUS
  <2>1. DOMAIN file = Files /\ DOMAIN tmp = Files
    BY DEF Inv, Shaped
  <2>2. \A s \in Sessions : task[s].phase \in Phases /\ task[s].at \in {"none", "tmp", "path", "gone"}
    BY DEF Inv, Calls, Asked, Sessions
  <2>3. QED BY <2>1, <2>2 DEF TypeOK, SessionsTyped, Frames
<1>2. QED BY <1>1, InvariantHolds, PTL

(***************************************************************************)
(* A settings file that can be read is whole and consistent, however       *)
(* calls, failed writes and crashes interleave (DocsWellFormed).           *)
(***************************************************************************)
THEOREM DocsAreWellFormed == ASSUME Constants PROVE Spec => []DocsWellFormed
<1>1. Inv => DocsWellFormed
  <2> SUFFICES ASSUME Inv PROVE DocsWellFormed
    OBVIOUS
  <2>1. \A f \in Files : file[f] \in {None, Empty, Torn} \/ Good(f, file[f])
    BY DEF Inv, Contents, Marks
  <2>2. "projects" \in Files /\ "capture_rules" \in Files /\ "traffic_filter_history" \in Files
    BY DEF Files
  <2>3. ProjectsWellFormed /\ CaptureRulesWellFormed /\ HistoryWellFormed
    BY <2>1, <2>2 DEF Good, ProjectsWellFormed, CaptureRulesWellFormed, HistoryWellFormed
  <2>4. QED BY <2>3 DEF DocsWellFormed
<1>2. QED BY <1>1, InvariantHolds, PTL

(***************************************************************************)
(* A file that two writing calls have not crossed on can be read, whatever *)
(* failed and whenever the proxy died, and what a call without company     *)
(* answers is true (WritesAreWhole, of write_json_atomic).                 *)
(***************************************************************************)
THEOREM WritesStayWhole == ASSUME Constants PROVE Spec => []WritesAreWhole
<1>1. Inv => WritesAreWhole
  <2> SUFFICES ASSUME Inv PROVE WritesAreWhole
    OBVIOUS
  <2>1. ReadableUnlessCrossed
    BY DEF Inv, Uncrossed, ReadableUnlessCrossed
  <2>2. AnswerTrue
    BY DEF Inv, Calls, Undisturbed, Kept, AnswerTrue
  <2>3. QED BY <2>1, <2>2 DEF WritesAreWhole
<1>2. QED BY <1>1, InvariantHolds, PTL

\* What a step makes of the projects, when nobody has crossed on their file.
LEMMA ProjectsLost ==
  ASSUME Constants, Inv, NEW t \in Tasks, RenameTmp(t), task[t].file = "projects", "projects" \notin crossed,
         NEW p \in Listed \ Listed'
  PROVE  RulesOf(p) = {} \/ (task[t].phase = "rename" /\ p \in lateRules[t])
<1> DEFINE c == task[t]
<1>1. c.phase = "rename" /\ c.phase \in Storing
  BY DEF RenameTmp, Storing
<1>2. c.alone /\ Kept(c, file["projects"], tmp["projects"]) /\ c.doc \notin Marks
  BY <1>1, Storer
<1>3. /\ file["projects"] = c.before /\ tmp["projects"] = c.doc
      /\ KeepsProjects(c)
  BY <1>1, <1>2 DEF Kept, Working
<1>4. file'["projects"] = c.doc
  <2>1. tmp["projects"] # None /\ "projects" \in Files
    BY <1>2, <1>3 DEF Marks, Files
  <2>2. file' = [file EXCEPT !["projects"] = tmp["projects"]]
    BY <2>1 DEF RenameTmp
  <2>3. QED BY <1>3, <2>1, <2>2 DEF Inv, Shaped
<1>5. file["projects"] \notin Marks /\ \E q \in c.before.projects : q.id = p
  BY <1>3 DEF Listed, Marks
<1>6. \A q \in c.doc.projects : q.id # p
  BY <1>2, <1>4 DEF Listed, Marks
<1>7. c.edit = "remove" /\ p = c.arg.id
  BY <1>3, <1>5, <1>6 DEF KeepsProjects
<1>8. Removing(c)
  BY <1>1, <1>7 DEF Removing
<1>9. QED BY <1>1, <1>7, <1>8 DEF Inv, RulesWait

(***************************************************************************)
(* A project that has rules does not disappear from the list of projects,  *)
(* but for a rule saved after the rules were listed, or a call that writes *)
(* the file at the same time (ProjectsWithRulesStay, of delete_project).   *)
(***************************************************************************)
THEOREM RuledProjectsStay == ASSUME Constants PROVE Spec => ProjectsWithRulesStay
<1> DEFINE Stays == \A p \in Listed \ Listed' :
                      \/ "projects" \in crossed'
                      \/ RulesOf(p) = {}
                      \/ \E s \in Sessions : task[s].phase = "rename" /\ p \in lateRules[s]
<1>1. Inv /\ SessionsTyped /\ [Next]_vars => [Stays]_vars
  <2> SUFFICES ASSUME Inv, SessionsTyped, [Next]_vars PROVE Stays
    OBVIOUS
  <2>1. ASSUME file'["projects"] = file["projects"] PROVE Stays
    BY <2>1 DEF Listed
  <2>2. "projects" \in Files
    BY DEF Files
  <2>3. ASSUME NEW s \in Sessions, Requests(s) PROVE UNCHANGED file
    <3>1. Kind(s)
      BY <2>3, SettingsKinds, ProjectKinds, CaptureKinds DEF Requests
    <3>2. QED BY <3>1 DEF Kind, Nothing, Leaves, UsesFile, Begin, ChangesRules, fileVars
  <2>4. ASSUME NEW s \in Sessions, WriteTmp(s) \/ WriteFails(s) PROVE Stays
    <3>1. s \in Tasks /\ task[s].phase = "write" /\ task[s].phase \in Storing /\ UNCHANGED crossed
      BY <2>4 DEF Sessions, WriteTmp, WriteFails, Storing
    <3>2. CASE task[s].file = "projects" /\ task[s].at = "path"
      <4>1. "projects" \in crossed
        BY <3>1, <3>2, Storer DEF Kept
      <4>2. QED BY <3>1, <4>1
    <3>3. CASE ~(task[s].file = "projects" /\ task[s].at = "path")
      <4>1. file'["projects"] = file["projects"]
        BY <2>2, <2>4, <3>3 DEF WriteTmp, WriteFails, Inv, Shaped
      <4>2. QED BY <2>1, <4>1
    <3>4. QED BY <3>2, <3>3
  <2>5. ASSUME NEW s \in Sessions, RenameTmp(s) PROVE Stays
    <3>1. s \in Tasks /\ UNCHANGED crossed
      BY <2>5 DEF Sessions, RenameTmp
    <3>2. CASE "projects" \in crossed
      BY <3>1, <3>2
    <3>3. CASE "projects" \notin crossed /\ task[s].file = "projects"
      BY <2>5, <3>1, <3>3, ProjectsLost
    <3>4. CASE task[s].file # "projects"
      <4>1. file'["projects"] = file["projects"]
        BY <2>2, <2>5, <3>4 DEF RenameTmp, Inv, Shaped
      <4>2. QED BY <2>1, <4>1
    <3>5. QED BY <3>2, <3>3, <3>4
  <2>6. ASSUME NEW s \in Sessions, Work(s) \/ Connect(s) \/ Close(s) PROVE Stays
    <3>1. CASE WriteTmp(s) \/ RenameTmp(s)
      BY <2>4, <2>5, <3>1
    <3>2. CASE ReadFile(s) \/ ComputeBlind(s) \/ OpenTmp(s)
      <4>1. UNCHANGED file
        BY <3>2 DEF ReadFile, ComputeBlind, OpenTmp
      <4>2. QED BY <2>1, <4>1
    <3>3. CASE \/ ListRulesByProject(s) \/ OutsideAnswers(s) \/ Reread(s) \/ Answer(s) \/ Done(s)
               \/ Connect(s) \/ Close(s)
      <4>1. UNCHANGED file
        BY <3>3 DEF ListRulesByProject, OutsideAnswers, Reread, Answer, Done, Connect, Close, fileVars
      <4>2. QED BY <2>1, <4>1
    <3>4. QED BY <2>6, <3>1, <3>2, <3>3 DEF Work, FileWork, FileStep, WriteJsonAtomic
  <2>7. CASE ApiCrash \/ UNCHANGED vars
    <3>1. UNCHANGED file
      BY <2>7 DEF ApiCrash, Crash, vars, fileVars
    <3>2. QED BY <2>1, <3>1
  <2> HIDE DEF Stays
  <2>8. QED BY <2>1, <2>3, <2>4, <2>6, <2>7 DEF Next, Lives, Faults
<1>2. QED BY <1>1, InvariantHolds, PTL DEF Spec, ProjectsWithRulesStay

=============================================================================
