----------------------------- MODULE Collection -----------------------------
(***************************************************************************)
(* The collections of the API studio (dao/api_studio/collection.rs): a     *)
(* tree of collections, folders and requests in one file, with an order    *)
(* among siblings, and a file per request with its draft (draft.rs).       *)
(*                                                                         *)
(* Each call loads the tree, works on its copy, touches the drafts, and    *)
(* saves the copy, unlocked. Saving is one step here: what happens to the  *)
(* file under it is in SettingsFiles. The draft of a node has its id.      *)
(***************************************************************************)
EXTENDS Integers, FiniteSets, FiniteSetsExt

CONSTANTS
  NodeIds,       \* new_id gives each once
  Callers,       \* HTTP requests at work at the same time
  Nothing,       \* Rust's None
  MaxCalls,      \* bound: calls of all callers
  MaxNodeFaults  \* bound: failures and crashes

VARIABLES
  tree,      \* the nodes of the file, by id
  drafts,    \* ids whose draft file exists
  fresh,     \* ids not given yet
  request,   \* the call of each caller
  calls,     \* calls so far
  faults,    \* failures and crashes so far
  forward,   \* history: a node has been moved before a later sibling
  disturbed  \* history: calls have overlapped, or one has stopped half-way

vars == <<tree, drafts, fresh, request, calls, faults, forward, disturbed>>

CollectionKind == {"collection", "folder", "request"}

Children(nodes, p) == {n \in DOMAIN nodes : nodes[n].parent = p}

MaxOrder(nodes, p) == Max({nodes[n].order : n \in Children(nodes, p)} \cup {-1})

ValidParent(nodes, kind, p) ==
  IF kind = "collection"
  THEN p = Nothing
  ELSE p \in DOMAIN nodes /\ nodes[p].kind # "request"

\* n and the nodes above it: what a walk along the parents meets, as long as they are there.
FollowsParents(nodes, S) == \A m \in S \cap DOMAIN nodes : nodes[m].parent \in S
Upwards(nodes, n) ==
  LET walks == {S \in SUBSET (NodeIds \cup {Nothing}) : n \in S /\ FollowsParents(nodes, S)}
  IN  {m \in NodeIds : \A S \in walks : m \in S}

WouldCreateCycle_direct(nodes, n, target) == n = target
WouldCreateCycle(nodes, n, target) == n \in Upwards(nodes, target)
Subtree(nodes, n) == {m \in DOMAIN nodes : n \in Upwards(nodes, m)}

ShiftSiblingOrders(nodes, p, from, delta) ==
  [n \in DOMAIN nodes |->
     IF nodes[n].parent = p /\ nodes[n].order >= from
     THEN [nodes[n] EXCEPT !.order = @ + delta]
     ELSE nodes[n]]

Created(nodes, n, kind, p) ==
  [m \in DOMAIN nodes \cup {n} |->
     IF m = n THEN [parent |-> p, kind |-> kind, order |-> MaxOrder(nodes, p) + 1] ELSE nodes[m]]

\* Both orders are read before either shift; the second shift works on what the first has left.
Moved(nodes, n, p, before) ==
  LET old    == nodes[n]
      place  == IF before = Nothing THEN MaxOrder(nodes, p) + 1 ELSE nodes[before].order
      opened == IF before = Nothing THEN nodes ELSE ShiftSiblingOrders(nodes, p, place, 1)
      closed == IF old.parent # p \/ old.order < place
                THEN ShiftSiblingOrders(opened, old.parent, old.order + 1, -1)
                ELSE IF old.order > place THEN ShiftSiblingOrders(opened, old.parent, place, 1)
                ELSE opened
  IN  [closed EXCEPT ![n].parent = p, ![n].order = place]

MoveAllowed(nodes, n, p, before) ==
  /\ n \in DOMAIN nodes /\ nodes[n].kind # "collection"
  /\ p \in DOMAIN nodes /\ ~WouldCreateCycle(nodes, n, p)
  /\ ValidParent(nodes, nodes[n].kind, p)
  /\ before # Nothing => before \in DOMAIN nodes /\ nodes[before].parent = p

Forwards(nodes, n, p, before) ==
  before # Nothing /\ nodes[n].parent = p /\ nodes[n].order < nodes[before].order

-----------------------------------------------------------------------------
(***************************************************************************)
(* The calls. `due` holds the drafts still to write or remove, `copy` the  *)
(* tree to save.                                                           *)
(***************************************************************************)
NoRequest == [phase |-> "idle", copy |-> << >>, due |-> {}]

Load(c) ==
  /\ request[c].phase = "idle" /\ calls < MaxCalls
  /\ calls' = calls + 1
  /\ disturbed' = (disturbed \/ \E d \in Callers : request[d].phase # "idle")
  /\ UNCHANGED <<tree, drafts, faults>>

\* What the call will do with the drafts, and save.
Plan(c, phase, due, copy) == request' = [request EXCEPT ![c] = [phase |-> phase, copy |-> copy, due |-> due]]

\* Which of the ids new_id gives makes no difference.
create(c) ==
  /\ fresh # {}
  /\ LET n == CHOOSE id \in fresh : TRUE IN
       \E kind \in CollectionKind, p \in NodeIds \cup {Nothing} :
         /\ Load(c)
         /\ ValidParent(tree, kind, p)
         /\ Plan(c, "write drafts", IF kind = "request" THEN {n} ELSE {}, Created(tree, n, kind, p))
         /\ fresh' = fresh \ {n}
         /\ UNCHANGED forward

\* Names are not modelled: the tree is saved as it was loaded.
rename(c) ==
  \E n \in DOMAIN tree : Load(c) /\ Plan(c, "save", {}, tree) /\ UNCHANGED <<fresh, forward>>

move(c) ==
  \E n, p \in NodeIds, before \in NodeIds \cup {Nothing} :
    /\ Load(c)
    /\ MoveAllowed(tree, n, p, before)
    /\ Plan(c, "save", {}, Moved(tree, n, p, before))
    /\ forward' = (forward \/ Forwards(tree, n, p, before))
    /\ UNCHANGED fresh

\* The drafts go one by one, children first; the nodes when all are gone.
delete(c) ==
  \E n \in DOMAIN tree :
    LET gone == Subtree(tree, n)
    IN  /\ Load(c)
        /\ Plan(c, "remove drafts", {m \in gone : tree[m].kind = "request"},
                [m \in DOMAIN tree \ gone |-> tree[m]])
        /\ UNCHANGED <<fresh, forward>>

\* The draft alone, under any id: that of a node, a deleted one, or a request not saved yet.
save_draft(c) ==
  /\ request[c].phase = "idle" /\ calls < MaxCalls
  /\ \E n \in NodeIds \ fresh : drafts' = drafts \cup {n}
  /\ calls' = calls + 1
  /\ UNCHANGED <<tree, fresh, request, faults, forward, disturbed>>

\* A call that finds the node missing, the parent wrong, or only reads.
Refused(c) == Load(c) /\ UNCHANGED <<fresh, forward, request>>

DraftStep(c) ==
  /\ \E n \in request[c].due :
       /\ \/ request[c].phase = "write drafts" /\ drafts' = drafts \cup {n}
          \/ request[c].phase = "remove drafts" /\ drafts' = drafts \ {n}
       /\ request' = [request EXCEPT ![c].due = @ \ {n}]
  /\ UNCHANGED <<tree, fresh, calls, faults, forward, disturbed>>

Save(c) ==
  /\ request[c].phase # "idle" /\ request[c].due = {}
  /\ tree' = request[c].copy
  /\ request' = [request EXCEPT ![c] = NoRequest]
  /\ UNCHANGED <<drafts, fresh, calls, faults, forward, disturbed>>

\* A file operation fails: the call answers with the error at once.
Fails(c) ==
  /\ request[c].phase # "idle" /\ faults < MaxNodeFaults
  /\ faults' = faults + 1
  /\ request' = [request EXCEPT ![c] = NoRequest]
  /\ disturbed' = (disturbed \/ request[c].phase = "remove drafts")
  /\ UNCHANGED <<tree, drafts, fresh, calls, forward>>

\* The proxy stops.
StudioCrash ==
  /\ faults < MaxNodeFaults
  /\ faults' = faults + 1
  /\ request' = [c \in Callers |-> NoRequest]
  /\ disturbed' = (disturbed \/ \E c \in Callers : request[c].phase = "remove drafts")
  /\ UNCHANGED <<tree, drafts, fresh, calls, forward>>

Init ==
  /\ tree = << >> /\ drafts = {} /\ fresh = NodeIds
  /\ request = [c \in Callers |-> NoRequest]
  /\ calls = 0 /\ faults = 0 /\ forward = FALSE /\ disturbed = FALSE

Next ==
  \/ \E c \in Callers :
       \/ create(c) \/ rename(c) \/ move(c) \/ delete(c) \/ save_draft(c) \/ Refused(c)
       \/ DraftStep(c) \/ Save(c) \/ Fails(c)
  \/ StudioCrash

Spec == Init /\ [][Next]_vars

-----------------------------------------------------------------------------
TypeOK ==
  /\ DOMAIN tree \subseteq NodeIds /\ drafts \subseteq NodeIds /\ fresh \subseteq NodeIds
  /\ \A n \in DOMAIN tree :
       tree[n] \in [parent : NodeIds \cup {Nothing}, kind : CollectionKind, order : Int]
  /\ \A c \in Callers : request[c].phase \in {"idle", "write drafts", "remove drafts", "save"}

(***************************************************************************)
(* The nodes are a forest whose roots are the collections and whose        *)
(* requests are leaves: no move makes a cycle or an orphan, no deletion    *)
(* leaves a child behind, whatever calls overlap, fail or are cut off.     *)
(***************************************************************************)
TreeWellFormed ==
  \A n \in DOMAIN tree :
    /\ ValidParent(tree, tree[n].kind, tree[n].parent)
    /\ \E root \in Upwards(tree, n) \cap DOMAIN tree : tree[root].kind = "collection"

(***************************************************************************)
(* Siblings have distinct orders, so the place of each is defined: create, *)
(* move and the shifts keep it so, but for one kind of move, before a      *)
(* later sibling of the same parent, where the second pass of move takes   *)
(* back for that sibling what the first has done.                          *)
(***************************************************************************)
SiblingOrdersDistinct ==
  ~forward =>
    \A m, n \in DOMAIN tree :
      m # n /\ tree[m].parent = tree[n].parent => tree[m].order # tree[n].order

(***************************************************************************)
(* Every request has its draft: create writes the draft before the tree    *)
(* has the node, delete removes it first and saves the tree last. So it    *)
(* fails when a deletion stops half-way, or when overlapping calls save a  *)
(* tree loaded before one, and only then.                                  *)
(***************************************************************************)
RequestsHaveDrafts ==
  ~disturbed /\ (\A c \in Callers : request[c].phase = "idle")
    => \A n \in DOMAIN tree : tree[n].kind = "request" => n \in drafts

\* The collections are a tree with an order and with the drafts it promises.
CollectionsSound == TreeWellFormed /\ SiblingOrdersDistinct /\ RequestsHaveDrafts

=============================================================================
