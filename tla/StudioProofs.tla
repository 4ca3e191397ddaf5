---------------------------- MODULE StudioProofs -----------------------------
(***************************************************************************)
(* Proofs about the API studio, its collections and its request history:   *)
(* for any ids, callers and numbers of calls and faults, the collections   *)
(* stay a tree with an order and with its drafts; for any clients, entries *)
(* and limit, the history is kept within the limit, the newest entries     *)
(* last. The two share no state: Collection is extended, StudioHistory is  *)
(* the instance History.                                                   *)
(***************************************************************************)
EXTENDS Collection, FiniteSetTheorems, WellFoundedInduction, TLAPS

CONSTANTS EntryIds, Clients, HistoryMax, MaxHistoryOps
VARIABLES kept, blank, staged, job, jobs, removed, untidy

History == INSTANCE StudioHistory

-----------------------------------------------------------------------------
(***************************************************************************)
(* The collections.                                                        *)
(***************************************************************************)


Node == [parent : NodeIds \cup {Nothing}, kind : CollectionKind, order : Int]

Rooted(nodes, n) == \E root \in Upwards(nodes, n) \cap DOMAIN nodes : nodes[root].kind = "collection"

Forest(nodes) ==
  /\ DOMAIN nodes \subseteq NodeIds /\ IsFiniteSet(DOMAIN nodes)
  /\ nodes \in [DOMAIN nodes -> Node]
  /\ \A n \in DOMAIN nodes : ValidParent(nodes, nodes[n].kind, nodes[n].parent) /\ Rooted(nodes, n)

Numbered(nodes) ==
  \A m, n \in DOMAIN nodes :
    m # n /\ nodes[m].parent = nodes[n].parent => nodes[m].order # nodes[n].order

Requests(nodes) == {n \in DOMAIN nodes : nodes[n].kind = "request"}

-----------------------------------------------------------------------------
(***************************************************************************)
(* Walks up the tree.                                                      *)
(***************************************************************************)

\* A walk begins where it begins.
LEMMA UpFromItself == \A nodes : \A n \in NodeIds : n \in Upwards(nodes, n)
BY DEF Upwards

\* What is above a node that is above n is above n.
LEMMA UpAgain ==
  ASSUME NEW nodes, NEW n, NEW m \in Upwards(nodes, n)
  PROVE  Upwards(nodes, m) \subseteq Upwards(nodes, n)
BY DEF Upwards

\* What is above the parent of a node is above the node.
LEMMA UpFromParent ==
  ASSUME NEW nodes, NEW n \in DOMAIN nodes, nodes[n].parent \in NodeIds
  PROVE  /\ nodes[n].parent \in Upwards(nodes, n)
         /\ Upwards(nodes, nodes[n].parent) \subseteq Upwards(nodes, n)
BY DEF Upwards, FollowsParents

\* A walk is still there when the nodes on it are, with the same parents.
LEMMA KeepsUp ==
  ASSUME NEW nodes, NEW after, NEW n \in NodeIds,
         DOMAIN nodes \subseteq NodeIds,
         \A x \in DOMAIN nodes : nodes[x].parent \in NodeIds \cup {Nothing},
         \A x \in Upwards(nodes, n) \cap DOMAIN nodes :
           x \in DOMAIN after /\ after[x].parent = nodes[x].parent
  PROVE  Upwards(nodes, n) \subseteq Upwards(after, n)
<1> DEFINE ids == NodeIds \cup {Nothing}
           walk(N, S) == S \in SUBSET ids /\ n \in S /\ FollowsParents(N, S)
           met == {m \in ids : \A S \in SUBSET ids : walk(nodes, S) => m \in S}
<1>1. Upwards(nodes, n) = met \cap NodeIds
  BY DEF Upwards
<1>2. \A x \in met \cap DOMAIN nodes : nodes[x].parent \in met
  BY DEF FollowsParents
<1>3. ASSUME NEW S \in SUBSET ids, walk(after, S) PROVE walk(nodes, S \cap met)
  <2>1. n \in S \cap met
    BY <1>3
  <2>2. ASSUME NEW x \in (S \cap met) \cap DOMAIN nodes PROVE nodes[x].parent \in S \cap met
    <3>1. x \in Upwards(nodes, n)
      BY <1>1, <2>2
    <3>2. x \in DOMAIN after /\ after[x].parent = nodes[x].parent
      BY <3>1
    <3>3. nodes[x].parent \in S
      BY <1>3, <3>2 DEF FollowsParents
    <3>4. QED BY <1>2, <2>2, <3>3
  <2>3. QED BY <2>1, <2>2 DEF FollowsParents
<1>4. \A S \in SUBSET ids : walk(after, S) => met \subseteq S
  BY <1>3
<1>5. QED BY <1>1, <1>4 DEF Upwards

\* The root above a node is still above it when the walk is, and is still a collection.
LEMMA KeepsRoot ==
  ASSUME NEW nodes, NEW after, NEW n \in NodeIds,
         DOMAIN nodes \subseteq NodeIds,
         \A x \in DOMAIN nodes : nodes[x].parent \in NodeIds \cup {Nothing},
         \A x \in Upwards(nodes, n) \cap DOMAIN nodes :
           x \in DOMAIN after /\ after[x].parent = nodes[x].parent /\ after[x].kind = nodes[x].kind,
         Rooted(nodes, n)
  PROVE  Rooted(after, n)
<1>1. Upwards(nodes, n) \subseteq Upwards(after, n)
  BY KeepsUp
<1>2. QED BY <1>1 DEF Rooted

-----------------------------------------------------------------------------
(***************************************************************************)
(* Orders.                                                                 *)
(***************************************************************************)

\* next_order finds the greatest order among the children, or -1.
LEMMA MaxOrderBounds ==
  ASSUME NEW nodes, NEW p, IsFiniteSet(DOMAIN nodes),
         \A n \in DOMAIN nodes : nodes[n].order \in Int
  PROVE  /\ MaxOrder(nodes, p) \in Int
         /\ \A n \in Children(nodes, p) : nodes[n].order <= MaxOrder(nodes, p)
<1> DEFINE C == Children(nodes, p)
           orders == {nodes[n].order : n \in C} \cup {-1}
           above(x) == {m \in C : nodes[m].order > x}
<1>1. C \subseteq DOMAIN nodes /\ IsFiniteSet(C)
  BY FS_Subset DEF Children
<1>2. \A x \in orders : IsFiniteSet(above(x)) /\ Cardinality(above(x)) \in Nat
  BY <1>1, FS_Subset, FS_CardinalityType
<1>3. \E best \in orders : \A y \in orders : best >= y
  <2> DEFINE sizes == {Cardinality(above(x)) : x \in orders}
  <2>1. sizes \subseteq Nat /\ sizes # {}
    BY <1>2
  <2>2. PICK least \in sizes : \A s \in sizes : <<s, least>> \notin OpToRel(<, Nat)
    <3> HIDE DEF sizes
    <3>1. QED BY <2>1, WFMin, NatLessThanWellFounded
  <2>3. \A s \in sizes : ~(s < least)
    BY <2>1, <2>2 DEF OpToRel
  <2>4. PICK x \in orders : Cardinality(above(x)) = least
    BY <2>2
  <2>5. x \in Int /\ \A y \in orders : y \in Int
    BY <1>1
  <2>6. above(x) = {}
    <3> SUFFICES ASSUME NEW m \in above(x) PROVE FALSE
      OBVIOUS
    <3> DEFINE y == nodes[m].order
    <3>1. y \in orders /\ y \in Int /\ y > x
      BY <1>1
    <3>2. above(y) \in SUBSET above(x)
      BY <1>1, <2>5, <3>1
    <3>3. m \notin above(y)
      BY <3>1
    <3>4. Cardinality(above(y)) < Cardinality(above(x))
      <4> HIDE DEF above, y
      <4>1. /\ Cardinality(above(y)) <= Cardinality(above(x))
            /\ Cardinality(above(y)) = Cardinality(above(x)) => above(y) = above(x)
        BY <1>2, <2>4, <3>2, FS_Subset
      <4>2. QED BY <1>2, <2>4, <3>1, <3>3, <4>1
    <3>5. QED BY <2>3, <2>4, <3>1, <3>4
  <2>7. \A n \in C : nodes[n].order <= x
    BY <1>1, <2>5, <2>6
  <2>8. CASE x >= -1
    BY <2>5, <2>7, <2>8
  <2>9. CASE ~(x >= -1)
    <3>1. -1 \in orders /\ \A y \in orders : -1 >= y
      BY <1>1, <2>5, <2>7, <2>9
    <3>2. QED BY <3>1
  <2>10. QED BY <2>8, <2>9
<1>4. MaxOrder(nodes, p) \in orders /\ \A y \in orders : MaxOrder(nodes, p) >= y
  BY <1>3 DEF MaxOrder, Max
<1>5. QED BY <1>1, <1>4

-----------------------------------------------------------------------------
(***************************************************************************)
(* What the calls save.                                                    *)
(***************************************************************************)

\* The empty file.
LEMMA NoNodes == Forest(<< >>) /\ Numbered(<< >>) /\ Requests(<< >>) = {}
BY FS_EmptySet DEF Forest, Numbered, Requests, Node

\* The fields of the nodes of a forest.
LEMMA Fields ==
  ASSUME NEW nodes, Forest(nodes)
  PROVE  \A n \in DOMAIN nodes :
           /\ n \in NodeIds
           /\ nodes[n].parent \in NodeIds \cup {Nothing}
           /\ nodes[n].kind \in CollectionKind /\ nodes[n].order \in Int
<1>1. \A n \in DOMAIN nodes : nodes[n] \in Node
  BY DEF Forest
<1>2. QED BY <1>1 DEF Forest, Node

\* create hangs one more node into the tree.
LEMMA CreatedForest ==
  ASSUME NEW nodes, Forest(nodes), NEW n \in NodeIds \ DOMAIN nodes,
         NEW kind \in CollectionKind, NEW p \in NodeIds \cup {Nothing}, ValidParent(nodes, kind, p)
  PROVE  Forest(Created(nodes, n, kind, p))
<1> DEFINE after == Created(nodes, n, kind, p)
<1>1. /\ DOMAIN after = DOMAIN nodes \cup {n}
      /\ after[n] = [parent |-> p, kind |-> kind, order |-> MaxOrder(nodes, p) + 1]
      /\ \A m \in DOMAIN nodes : after[m] = nodes[m]
      /\ after = [m \in DOMAIN after |-> after[m]]
  BY DEF Created
<1> HIDE DEF after
<1>2. DOMAIN after \subseteq NodeIds /\ IsFiniteSet(DOMAIN after)
  BY <1>1, FS_AddElement DEF Forest
<1>3. MaxOrder(nodes, p) \in Int
  BY Fields, MaxOrderBounds DEF Forest
<1>4. after \in [DOMAIN after -> Node]
  <2>1. after[n] \in Node
    BY <1>1, <1>3 DEF Node
  <2>2. \A m \in DOMAIN nodes : after[m] \in Node
    BY <1>1 DEF Forest
  <2>3. QED BY <1>1, <2>1, <2>2
<1>5. \A m \in DOMAIN nodes : Rooted(after, m)
  <2> SUFFICES ASSUME NEW m \in DOMAIN nodes PROVE Rooted(after, m)
    OBVIOUS
  <2>1. QED BY <1>1, Fields, KeepsRoot DEF Forest
<1>6. Rooted(after, n)
  <2>1. CASE kind = "collection"
    BY <1>1, <2>1, UpFromItself DEF Rooted
  <2>2. CASE kind # "collection"
    <3>1. p \in DOMAIN nodes /\ p \in NodeIds
      BY <2>2, Fields DEF ValidParent
    <3>2. PICK root \in Upwards(after, p) \cap DOMAIN after : after[root].kind = "collection"
      BY <1>5, <3>1 DEF Rooted
    <3>3. Upwards(after, p) \subseteq Upwards(after, n)
      BY <1>1, <3>1, UpFromParent
    <3>4. QED BY <3>2, <3>3 DEF Rooted
  <2>3. QED BY <2>1, <2>2
<1>7. \A m \in DOMAIN after : ValidParent(after, after[m].kind, after[m].parent)
  BY <1>1 DEF Forest, ValidParent
<1>8. Forest(after)
  BY <1>1, <1>2, <1>4, <1>5, <1>6, <1>7 DEF Forest
<1>9. QED BY <1>8 DEF after

\* create puts the node behind its siblings.
LEMMA CreatedNumbered ==
  ASSUME NEW nodes, Forest(nodes), Numbered(nodes), NEW n \in NodeIds \ DOMAIN nodes, NEW kind, NEW p
  PROVE  Numbered(Created(nodes, n, kind, p))
<1> DEFINE after == Created(nodes, n, kind, p)
<1>1. /\ DOMAIN after = DOMAIN nodes \cup {n}
      /\ after[n].parent = p /\ after[n].order = MaxOrder(nodes, p) + 1
      /\ \A m \in DOMAIN nodes : after[m] = nodes[m]
  BY DEF Created
<1> HIDE DEF after
<1>2. /\ MaxOrder(nodes, p) \in Int
      /\ \A m \in Children(nodes, p) : nodes[m].order <= MaxOrder(nodes, p)
  BY Fields, MaxOrderBounds DEF Forest
<1>3. \A m \in DOMAIN nodes : nodes[m].parent = p => nodes[m].order < MaxOrder(nodes, p) + 1
  BY <1>2, Fields DEF Children
<1>4. \A m \in DOMAIN nodes : nodes[m].order \in Int
  BY Fields
<1>5. Numbered(after)
  BY <1>1, <1>2, <1>3, <1>4 DEF Numbered
<1>6. QED BY <1>5 DEF after

\* delete_node takes a node and all below it: what is left hangs together as before.
LEMMA DeletedForest ==
  ASSUME NEW nodes, Forest(nodes), NEW n \in DOMAIN nodes
  PROVE  Forest([m \in DOMAIN nodes \ Subtree(nodes, n) |-> nodes[m]])
<1> DEFINE left == DOMAIN nodes \ Subtree(nodes, n)
           after == [m \in left |-> nodes[m]]
<1>1. left = {m \in DOMAIN nodes : n \notin Upwards(nodes, m)}
  BY DEF Subtree
<1>2. DOMAIN after = left /\ \A m \in left : after[m] = nodes[m]
  OBVIOUS
<1>3. left \subseteq DOMAIN nodes /\ left \subseteq NodeIds /\ IsFiniteSet(left)
  BY FS_Subset DEF Forest
<1>4. after \in [left -> Node]
  BY DEF Forest
<1>5. ASSUME NEW m \in left PROVE \A x \in Upwards(nodes, m) \cap DOMAIN nodes : x \in left
  BY <1>1, UpAgain
<1> HIDE DEF after, left
<1>6. ASSUME NEW m \in left PROVE Rooted(after, m)
  <2>1. /\ m \in NodeIds /\ Rooted(nodes, m)
        /\ \A x \in Upwards(nodes, m) \cap DOMAIN nodes : x \in DOMAIN after /\ after[x] = nodes[x]
    BY <1>2, <1>3, <1>5 DEF Forest
  <2>2. QED BY <2>1, Fields, KeepsRoot DEF Forest
<1>7. ASSUME NEW m \in left PROVE ValidParent(after, after[m].kind, after[m].parent)
  <2>1. ValidParent(nodes, nodes[m].kind, nodes[m].parent)
    BY <1>3 DEF Forest
  <2>2. CASE nodes[m].kind = "collection"
    BY <1>2, <2>1, <2>2 DEF ValidParent
  <2>3. CASE nodes[m].kind # "collection"
    <3>1. nodes[m].parent \in DOMAIN nodes /\ nodes[nodes[m].parent].kind # "request"
      BY <2>1, <2>3 DEF ValidParent
    <3>2. nodes[m].parent \in Upwards(nodes, m)
      BY <1>3, <3>1, Fields, UpFromParent
    <3>3. nodes[m].parent \in left
      BY <1>5, <3>1, <3>2
    <3>4. QED BY <1>2, <2>3, <3>1, <3>3 DEF ValidParent
  <2>4. QED BY <2>2, <2>3
<1>8. Forest(after)
  BY <1>2, <1>3, <1>4, <1>6, <1>7 DEF Forest
<1>9. QED BY <1>8 DEF after, left

-----------------------------------------------------------------------------
(***************************************************************************)
(* move_node.                                                              *)
(***************************************************************************)

\* `after` is `nodes` with the orders from `from` on under p moved by delta, and nothing else.
IsShifted(nodes, after, p, from, delta) ==
  /\ DOMAIN after = DOMAIN nodes /\ after \in [DOMAIN nodes -> Node]
  /\ \A m \in DOMAIN nodes :
       /\ after[m].parent = nodes[m].parent /\ after[m].kind = nodes[m].kind
       /\ after[m].order = IF nodes[m].parent = p /\ nodes[m].order >= from
                           THEN nodes[m].order + delta ELSE nodes[m].order

\* shift_sibling_orders moves orders, and nothing else.
LEMMA Shifted ==
  ASSUME NEW nodes, nodes \in [DOMAIN nodes -> Node], NEW p, NEW from \in Int, NEW delta \in Int
  PROVE  IsShifted(nodes, ShiftSiblingOrders(nodes, p, from, delta), p, from, delta)
<1> DEFINE after == ShiftSiblingOrders(nodes, p, from, delta)
<1>1. DOMAIN after = DOMAIN nodes /\ after = [m \in DOMAIN nodes |-> after[m]]
  BY DEF ShiftSiblingOrders
<1>2. ASSUME NEW m \in DOMAIN nodes
      PROVE  /\ after[m] \in Node
             /\ after[m].parent = nodes[m].parent /\ after[m].kind = nodes[m].kind
             /\ after[m].order = IF nodes[m].parent = p /\ nodes[m].order >= from
                                 THEN nodes[m].order + delta ELSE nodes[m].order
  <2>1. nodes[m] \in Node
    OBVIOUS
  <2>2. after[m] = IF nodes[m].parent = p /\ nodes[m].order >= from
                   THEN [nodes[m] EXCEPT !.order = nodes[m].order + delta] ELSE nodes[m]
    BY DEF ShiftSiblingOrders
  <2>3. QED BY <2>1, <2>2 DEF Node
<1> HIDE DEF after
<1>3. after \in [DOMAIN nodes -> Node]
  BY <1>1, <1>2
<1>4. QED BY <1>1, <1>2, <1>3 DEF after, IsShifted

\* Closing a gap and making room keep orders apart.
LEMMA CloseGap ==
  ASSUME NEW a \in Int, NEW b \in Int, NEW o \in Int, a # b, a # o, b # o
  PROVE  (IF a > o THEN a - 1 ELSE a) # (IF b > o THEN b - 1 ELSE b)
OBVIOUS

\* The same for making room.
LEMMA MakeRoom ==
  ASSUME NEW a \in Int, NEW b \in Int, NEW k \in Int, NEW d \in Nat, a # b
  PROVE  (IF a >= k THEN a + d ELSE a) # (IF b >= k THEN b + d ELSE b)
OBVIOUS

\* Where a node goes: its own order, and what becomes of those of the others.
Place(nodes, p, before) == IF before = Nothing THEN MaxOrder(nodes, p) + 1 ELSE nodes[before].order

Opened(nodes, p, before) ==
  IF before = Nothing THEN nodes ELSE ShiftSiblingOrders(nodes, p, Place(nodes, p, before), 1)

Closed(nodes, n, p, before) ==
  IF nodes[n].parent # p \/ nodes[n].order < Place(nodes, p, before)
  THEN ShiftSiblingOrders(Opened(nodes, p, before), nodes[n].parent, nodes[n].order + 1, -1)
  ELSE IF nodes[n].order > Place(nodes, p, before)
  THEN ShiftSiblingOrders(Opened(nodes, p, before), nodes[n].parent, Place(nodes, p, before), 1)
  ELSE Opened(nodes, p, before)

\* The two passes over the siblings keep parents and kinds.
LEMMA TwoPasses ==
  ASSUME NEW nodes, Forest(nodes), NEW n, NEW p, NEW before, MoveAllowed(nodes, n, p, before)
  PROVE  /\ Place(nodes, p, before) \in Int
         /\ DOMAIN Opened(nodes, p, before) = DOMAIN nodes
         /\ Opened(nodes, p, before) \in [DOMAIN nodes -> Node]
         /\ DOMAIN Closed(nodes, n, p, before) = DOMAIN nodes
         /\ Closed(nodes, n, p, before) \in [DOMAIN nodes -> Node]
         /\ \A m \in DOMAIN nodes :
              /\ Opened(nodes, p, before)[m].parent = nodes[m].parent
              /\ Closed(nodes, n, p, before)[m].parent = nodes[m].parent
              /\ Opened(nodes, p, before)[m].kind = nodes[m].kind
              /\ Closed(nodes, n, p, before)[m].kind = nodes[m].kind
<1> DEFINE place == Place(nodes, p, before)
           opened == Opened(nodes, p, before)
           closed == Closed(nodes, n, p, before)
<1>1. place \in Int
  BY Fields, MaxOrderBounds DEF Forest, MoveAllowed, Place
<1>2. /\ DOMAIN opened = DOMAIN nodes /\ opened \in [DOMAIN nodes -> Node]
      /\ \A m \in DOMAIN nodes :
           opened[m].parent = nodes[m].parent /\ opened[m].kind = nodes[m].kind
  <2>1. nodes \in [DOMAIN nodes -> Node]
    BY DEF Forest
  <2>2. CASE before = Nothing
    BY <2>1, <2>2 DEF Opened
  <2>3. CASE before # Nothing
    <3>1. opened = ShiftSiblingOrders(nodes, p, place, 1)
      BY <2>3 DEF Opened
    <3> HIDE DEF opened, place
    <3>2. IsShifted(nodes, opened, p, place, 1)
      BY <1>1, <2>1, <3>1, Shifted
    <3>3. QED BY <3>2 DEF IsShifted
  <2>4. QED BY <2>2, <2>3
<1>3. nodes[n].parent \in NodeIds \cup {Nothing} /\ nodes[n].order \in Int
  BY Fields DEF MoveAllowed
<1>4. \/ closed = ShiftSiblingOrders(opened, nodes[n].parent, nodes[n].order + 1, -1)
      \/ closed = ShiftSiblingOrders(opened, nodes[n].parent, place, 1)
      \/ closed = opened
  BY DEF Closed
<1> HIDE DEF opened, place, closed
<1>5. /\ DOMAIN closed = DOMAIN nodes /\ closed \in [DOMAIN nodes -> Node]
      /\ \A m \in DOMAIN nodes :
           closed[m].parent = nodes[m].parent /\ closed[m].kind = nodes[m].kind
  <2>1. opened \in [DOMAIN opened -> Node] /\ nodes[n].order + 1 \in Int
    BY <1>2, <1>3
  <2>2. CASE closed = ShiftSiblingOrders(opened, nodes[n].parent, nodes[n].order + 1, -1)
    <3>1. IsShifted(opened, closed, nodes[n].parent, nodes[n].order + 1, -1)
      BY <2>1, <2>2, Shifted
    <3>2. QED BY <1>2, <3>1 DEF IsShifted
  <2>3. CASE closed = ShiftSiblingOrders(opened, nodes[n].parent, place, 1)
    <3>1. IsShifted(opened, closed, nodes[n].parent, place, 1)
      BY <1>1, <2>1, <2>3, Shifted
    <3>2. QED BY <1>2, <3>1 DEF IsShifted
  <2>4. CASE closed = opened
    BY <1>2, <2>4
  <2>5. QED BY <1>4, <2>2, <2>3, <2>4
<1>6. QED BY <1>1, <1>2, <1>5 DEF opened, place, closed

\* The node has the new parent and place; the others keep their parents.
LEMMA MovedFields ==
  ASSUME NEW nodes, Forest(nodes), NEW n, NEW p, NEW before, MoveAllowed(nodes, n, p, before)
  PROVE  LET after == Moved(nodes, n, p, before)
         IN  /\ DOMAIN after = DOMAIN nodes /\ after \in [DOMAIN nodes -> Node]
             /\ after[n].parent = p /\ after[n].kind = nodes[n].kind
             /\ after[n].order = Place(nodes, p, before)
             /\ \A m \in DOMAIN nodes \ {n} :
                  /\ after[m] = Closed(nodes, n, p, before)[m]
                  /\ after[m].parent = nodes[m].parent /\ after[m].kind = nodes[m].kind
<1> DEFINE place == Place(nodes, p, before)
           closed == Closed(nodes, n, p, before)
           after == Moved(nodes, n, p, before)
<1>1. after = [closed EXCEPT ![n].parent = p, ![n].order = place]
  BY DEF Moved, Closed, Opened, Place
<1> HIDE DEF after, closed, place
<1>2. /\ place \in Int /\ DOMAIN closed = DOMAIN nodes /\ closed \in [DOMAIN nodes -> Node]
      /\ \A m \in DOMAIN nodes :
           closed[m].parent = nodes[m].parent /\ closed[m].kind = nodes[m].kind
  BY TwoPasses DEF place, closed
<1>3. n \in DOMAIN nodes /\ p \in NodeIds
  BY Fields DEF MoveAllowed
<1>4. /\ DOMAIN after = DOMAIN nodes /\ \A m \in DOMAIN nodes \ {n} : after[m] = closed[m]
      /\ after[n] = [closed[n] EXCEPT !.parent = p, !.order = place]
      /\ after = [m \in DOMAIN nodes |-> after[m]]
  BY <1>1, <1>2, <1>3
<1>5. after[n] \in Node /\ after[n].parent = p /\ after[n].kind = nodes[n].kind /\ after[n].order = place
  <2>1. closed[n] \in Node
    BY <1>2, <1>3
  <2>2. QED BY <1>2, <1>3, <1>4, <2>1 DEF Node
<1>6. after \in [DOMAIN nodes -> Node]
  BY <1>2, <1>4, <1>5
<1>7. QED BY <1>2, <1>4, <1>5, <1>6 DEF after, closed, place

\* move_node hangs the node elsewhere, never below itself: all still reach a collection.
LEMMA MovedForest ==
  ASSUME NEW nodes, Forest(nodes), NEW n, NEW p, NEW before, MoveAllowed(nodes, n, p, before)
  PROVE  Forest(Moved(nodes, n, p, before))
<1> DEFINE after == Moved(nodes, n, p, before)
<1>1. /\ n \in DOMAIN nodes /\ n \in NodeIds /\ p \in DOMAIN nodes /\ p \in NodeIds
      /\ n \notin Upwards(nodes, p) /\ ValidParent(nodes, nodes[n].kind, p)
      /\ nodes[n].kind # "collection"
  BY Fields DEF MoveAllowed, WouldCreateCycle
<1>2. /\ DOMAIN after = DOMAIN nodes /\ after \in [DOMAIN nodes -> Node]
      /\ after[n].parent = p /\ after[n].kind = nodes[n].kind
      /\ \A m \in DOMAIN nodes \ {n} :
           after[m].parent = nodes[m].parent /\ after[m].kind = nodes[m].kind
  BY MovedFields
<1> HIDE DEF after
<1>3. ASSUME NEW m \in DOMAIN nodes, n \notin Upwards(nodes, m) PROVE Rooted(after, m)
  <2>1. \A x \in Upwards(nodes, m) \cap DOMAIN nodes :
          x \in DOMAIN after /\ after[x].parent = nodes[x].parent /\ after[x].kind = nodes[x].kind
    BY <1>2, <1>3
  <2>2. m \in NodeIds /\ Rooted(nodes, m)
    BY DEF Forest
  <2>3. QED BY <2>1, <2>2, Fields, KeepsRoot DEF Forest
<1>4. PICK root \in Upwards(after, p) \cap DOMAIN after : after[root].kind = "collection"
  BY <1>1, <1>3 DEF Rooted
<1>5. ASSUME NEW m \in DOMAIN nodes, n \in Upwards(nodes, m) PROVE Rooted(after, m)
  <2>1. ASSUME NEW S \in SUBSET (NodeIds \cup {Nothing}), m \in S, FollowsParents(after, S)
        PROVE  root \in S
    <3>1. n \in S
      <4> SUFFICES ASSUME n \notin S PROVE FALSE
        OBVIOUS
      <4>1. FollowsParents(nodes, S)
        BY <1>2, <2>1 DEF FollowsParents
      <4>2. QED BY <1>5, <2>1, <4>1 DEF Upwards
    <3>2. p \in S
      BY <1>1, <1>2, <2>1, <3>1 DEF FollowsParents
    <3>3. QED BY <1>4, <2>1, <3>2 DEF Upwards
  <2>2. root \in Upwards(after, m)
    BY <1>4, <2>1 DEF Upwards
  <2>3. QED BY <1>4, <2>2 DEF Rooted
<1>6. ASSUME NEW m \in DOMAIN nodes PROVE ValidParent(after, after[m].kind, after[m].parent)
  <2>1. \A x \in DOMAIN nodes : after[x].kind = nodes[x].kind
    BY <1>2
  <2>2. CASE m = n
    BY <1>1, <1>2, <2>1, <2>2 DEF ValidParent
  <2>3. CASE m # n
    <3>1. after[m].kind = nodes[m].kind /\ after[m].parent = nodes[m].parent
      BY <1>2, <2>3
    <3>2. ValidParent(nodes, nodes[m].kind, nodes[m].parent)
      BY DEF Forest
    <3>3. QED BY <1>2, <2>1, <3>1, <3>2 DEF ValidParent
  <2>4. QED BY <2>2, <2>3
<1>7. DOMAIN after \subseteq NodeIds /\ IsFiniteSet(DOMAIN after) /\ after \in [DOMAIN after -> Node]
  BY <1>2 DEF Forest
<1>8. Forest(after)
  BY <1>2, <1>3, <1>5, <1>6, <1>7 DEF Forest
<1>9. QED BY <1>8 DEF after

\* move_node keeps the orders of siblings apart, unless the node goes before a later sibling.
LEMMA MovedNumbered ==
  ASSUME NEW nodes, Forest(nodes), Numbered(nodes), NEW n, NEW p, NEW before,
         MoveAllowed(nodes, n, p, before), ~Forwards(nodes, n, p, before)
  PROVE  Numbered(Moved(nodes, n, p, before))
<1> DEFINE after == Moved(nodes, n, p, before)
           place == Place(nodes, p, before)
           opened == Opened(nodes, p, before)
           closed == Closed(nodes, n, p, before)
           q == nodes[n].parent
           o == nodes[n].order
<1>1. n \in DOMAIN nodes /\ o \in Int /\ place \in Int
  BY Fields, TwoPasses DEF MoveAllowed
<1>2. /\ DOMAIN after = DOMAIN nodes /\ after[n].parent = p /\ after[n].order = place
      /\ \A m \in DOMAIN nodes \ {n} :
           after[m].parent = nodes[m].parent /\ after[m].order = closed[m].order
  BY MovedFields
<1>3. /\ \A m \in DOMAIN nodes : nodes[m].order \in Int
      /\ nodes \in [DOMAIN nodes -> Node]
      /\ opened \in [DOMAIN nodes -> Node] /\ DOMAIN opened = DOMAIN nodes
      /\ \A m \in DOMAIN nodes : opened[m].parent = nodes[m].parent
  BY Fields, TwoPasses DEF Forest
<1>4. \A m \in DOMAIN nodes :
        opened[m].order = IF before # Nothing /\ nodes[m].parent = p /\ nodes[m].order >= place
                          THEN nodes[m].order + 1 ELSE nodes[m].order
  <2>1. CASE before = Nothing
    BY <2>1 DEF Opened
  <2>2. CASE before # Nothing
    <3>1. opened = ShiftSiblingOrders(nodes, p, place, 1)
      BY <2>2 DEF Opened
    <3> HIDE DEF opened, place
    <3>2. IsShifted(nodes, opened, p, place, 1)
      BY <1>1, <1>3, <3>1, Shifted
    <3>3. QED BY <1>1, <1>3, <2>2, <3>2 DEF IsShifted
  <2>3. QED BY <2>1, <2>2
<1>5. before = Nothing => \A m \in DOMAIN nodes : nodes[m].parent = p => nodes[m].order < place
  BY <1>1, <1>3, MaxOrderBounds DEF Place, Children, Forest
<1>6. before # Nothing =>
        before \in DOMAIN nodes /\ nodes[before].parent = p /\ nodes[before].order = place
  BY DEF MoveAllowed, Place
<1>7. ~(before # Nothing /\ q = p /\ o < place)
  BY <1>6 DEF Forwards
<1>8. IF q # p \/ o < place THEN closed = ShiftSiblingOrders(opened, q, o + 1, -1)
      ELSE IF o > place THEN closed = ShiftSiblingOrders(opened, q, place, 1)
      ELSE closed = opened
  BY DEF Closed
<1> HIDE DEF after, place, opened, closed
<1>9. ASSUME NEW m \in DOMAIN nodes, NEW k \in DOMAIN nodes,
              m # k, nodes[m].parent = nodes[k].parent
       PROVE  opened[m].order # opened[k].order
  <2>1. nodes[m].order # nodes[k].order /\ nodes[m].order \in Int /\ nodes[k].order \in Int
    BY <1>3, <1>9 DEF Numbered
  <2>2. CASE before # Nothing /\ nodes[m].parent = p
    <3>1. /\ opened[m].order = IF nodes[m].order >= place THEN nodes[m].order + 1 ELSE nodes[m].order
          /\ opened[k].order = IF nodes[k].order >= place THEN nodes[k].order + 1 ELSE nodes[k].order
      BY <1>4, <1>9, <2>2
    <3>2. QED BY <1>1, <2>1, <3>1, MakeRoom
  <2>3. CASE ~(before # Nothing /\ nodes[m].parent = p)
    BY <1>4, <1>9, <2>1, <2>3
  <2>4. QED BY <2>2, <2>3
<1>10. CASE q # p
  <2>1. \A m \in DOMAIN nodes :
          closed[m].order = IF nodes[m].parent = q /\ opened[m].order >= o + 1
                            THEN opened[m].order - 1 ELSE opened[m].order
    <3>1. closed = ShiftSiblingOrders(opened, q, o + 1, -1) /\ \A m \in DOMAIN nodes : opened[m].order \in Int
      BY <1>1, <1>3, <1>4, <1>8, <1>10
    <3>2. opened \in [DOMAIN opened -> Node] /\ o + 1 \in Int
      BY <1>1, <1>3
    <3>3. IsShifted(opened, closed, q, o + 1, -1)
      BY <1>1, <3>1, <3>2, Shifted
    <3>4. QED BY <1>3, <3>1, <3>3 DEF IsShifted
  <2>2. \A m \in DOMAIN nodes :
          nodes[m].parent = q =>
            closed[m].order = IF nodes[m].order > o THEN nodes[m].order - 1 ELSE nodes[m].order
    BY <1>1, <1>3, <1>4, <1>10, <2>1
  <2>3. \A m \in DOMAIN nodes : nodes[m].parent # q => closed[m].order = opened[m].order
    BY <2>1
  <2>4. \A m \in DOMAIN nodes : nodes[m].parent = p => closed[m].order # place
    BY <1>1, <1>3, <1>4, <1>5, <1>10, <2>3
  <2>5. ASSUME NEW m \in DOMAIN nodes \ {n}, NEW k \in DOMAIN nodes \ {n},
               m # k, nodes[m].parent = nodes[k].parent
        PROVE  closed[m].order # closed[k].order
    <3>1. nodes[m].order # nodes[k].order
      BY <2>5 DEF Numbered
    <3>2. CASE nodes[m].parent = q
      <4>1. nodes[m].order # o /\ nodes[k].order # o
        BY <1>1, <2>5, <3>2 DEF Numbered
      <4>2. /\ closed[m].order = IF nodes[m].order > o THEN nodes[m].order - 1 ELSE nodes[m].order
            /\ closed[k].order = IF nodes[k].order > o THEN nodes[k].order - 1 ELSE nodes[k].order
        BY <2>2, <2>5, <3>2
      <4>3. nodes[m].order \in Int /\ nodes[k].order \in Int
        BY <1>3
      <4>4. QED BY <1>1, <3>1, <4>1, <4>2, <4>3, CloseGap
    <3>3. CASE nodes[m].parent # q
      <4>1. closed[m].order = opened[m].order /\ closed[k].order = opened[k].order
        BY <2>3, <2>5, <3>3
      <4>2. QED BY <1>1, <2>5, <3>1, <4>1, <1>9
    <3>4. QED BY <3>2, <3>3
  <2>6. Numbered(after)
    BY <1>2, <2>4, <2>5 DEF Numbered
  <2>7. QED BY <2>6 DEF after
<1>11. CASE q = p /\ before = Nothing
  <2>1. o < place
    BY <1>1, <1>5, <1>11
  <2>2. \A m \in DOMAIN nodes : opened[m].order = nodes[m].order
    BY <1>4, <1>11
  <2>3. \A m \in DOMAIN nodes :
          closed[m].order = IF nodes[m].parent = p /\ nodes[m].order >= o + 1
                            THEN nodes[m].order - 1 ELSE nodes[m].order
    <3>1. closed = ShiftSiblingOrders(opened, q, o + 1, -1)
      BY <1>1, <1>8, <2>1
    <3>2. opened \in [DOMAIN opened -> Node] /\ o + 1 \in Int
      BY <1>1, <1>3
    <3>3. IsShifted(opened, closed, q, o + 1, -1)
      BY <1>1, <3>1, <3>2, Shifted
    <3>4. QED BY <1>3, <1>11, <2>2, <3>1, <3>3 DEF IsShifted
  <2>4. \A m \in DOMAIN nodes : nodes[m].parent = p => closed[m].order # place
    BY <1>1, <1>3, <1>5, <1>11, <2>3
  <2>5. ASSUME NEW m \in DOMAIN nodes \ {n}, NEW k \in DOMAIN nodes \ {n},
               m # k, nodes[m].parent = nodes[k].parent
        PROVE  closed[m].order # closed[k].order
    <3>1. /\ nodes[m].order # nodes[k].order
          /\ nodes[m].parent = p => nodes[m].order # o /\ nodes[k].order # o
      BY <1>1, <1>11, <2>5 DEF Numbered
    <3>2. nodes[m].order \in Int /\ nodes[k].order \in Int
      BY <1>3
    <3>3. CASE nodes[m].parent = p
      <4>1. /\ closed[m].order = IF nodes[m].order > o THEN nodes[m].order - 1 ELSE nodes[m].order
            /\ closed[k].order = IF nodes[k].order > o THEN nodes[k].order - 1 ELSE nodes[k].order
          <5>1. nodes[k].parent = p
          BY <2>5, <3>3
        <5>2. /\ closed[m].order = IF nodes[m].order >= o + 1 THEN nodes[m].order - 1 ELSE nodes[m].order
              /\ closed[k].order = IF nodes[k].order >= o + 1 THEN nodes[k].order - 1 ELSE nodes[k].order
          BY <2>3, <3>3, <5>1
        <5>3. QED BY <1>1, <3>2, <5>2
      <4>2. QED BY <1>1, <3>1, <3>2, <3>3, <4>1, CloseGap
    <3>4. CASE nodes[m].parent # p
      BY <2>3, <2>5, <3>1, <3>4
    <3>5. QED BY <3>3, <3>4
  <2>6. Numbered(after)
    BY <1>2, <2>4, <2>5 DEF Numbered
  <2>7. QED BY <2>6 DEF after
<1>12. CASE q = p /\ before # Nothing /\ o > place
  <2>1. \A m \in DOMAIN nodes :
          closed[m].order = IF nodes[m].parent = p /\ opened[m].order >= place
                            THEN opened[m].order + 1 ELSE opened[m].order
    <3>1. closed = ShiftSiblingOrders(opened, p, place, 1)
      BY <1>1, <1>8, <1>12
    <3>2. opened \in [DOMAIN opened -> Node] /\ o + 1 \in Int
      BY <1>1, <1>3
    <3>3. IsShifted(opened, closed, p, place, 1)
      BY <1>1, <3>1, <3>2, Shifted
    <3>4. QED BY <1>3, <3>1, <3>3 DEF IsShifted
  <2>2. \A m \in DOMAIN nodes :
          closed[m].order = IF nodes[m].parent = p /\ nodes[m].order >= place
                            THEN nodes[m].order + 2 ELSE nodes[m].order
    BY <1>1, <1>3, <1>4, <1>12, <2>1
  <2>3. \A m \in DOMAIN nodes : nodes[m].parent = p => closed[m].order # place
    BY <1>1, <1>3, <2>2
  <2>4. ASSUME NEW m \in DOMAIN nodes \ {n}, NEW k \in DOMAIN nodes \ {n},
               m # k, nodes[m].parent = nodes[k].parent
        PROVE  closed[m].order # closed[k].order
    <3>1. nodes[m].order # nodes[k].order /\ nodes[m].order \in Int /\ nodes[k].order \in Int
      BY <1>3, <2>4 DEF Numbered
    <3>2. CASE nodes[m].parent = p
      <4>1. /\ closed[m].order = IF nodes[m].order >= place THEN nodes[m].order + 2 ELSE nodes[m].order
            /\ closed[k].order = IF nodes[k].order >= place THEN nodes[k].order + 2 ELSE nodes[k].order
        BY <2>2, <2>4, <3>2
      <4>2. QED BY <1>1, <3>1, <4>1, MakeRoom
    <3>3. CASE nodes[m].parent # p
      BY <2>2, <2>4, <3>1, <3>3
    <3>4. QED BY <3>2, <3>3
  <2>5. Numbered(after)
    BY <1>2, <1>12, <2>3, <2>4 DEF Numbered
  <2>6. QED BY <2>5 DEF after
<1>13. CASE q = p /\ before # Nothing /\ o = place
  <2>1. closed = opened
    BY <1>1, <1>8, <1>13
  <2>2. n = before
    BY <1>1, <1>6, <1>13 DEF Numbered
  <2>3. \A m \in DOMAIN nodes \ {n} : nodes[m].parent = p => nodes[m].order # place
    BY <1>1, <1>13 DEF Numbered
  <2>4. \A m \in DOMAIN nodes \ {n} : nodes[m].parent = p => closed[m].order # place
    BY <1>1, <1>3, <1>4, <1>13, <2>1, <2>3
  <2>5. Numbered(after)
    BY <1>2, <1>13, <1>9, <2>1, <2>4 DEF Numbered
  <2>6. QED BY <2>5 DEF after
<1>14. QED BY <1>1, <1>7, <1>10, <1>11, <1>12, <1>13

-----------------------------------------------------------------------------
(***************************************************************************)
(* The invariant: what the file holds, and every copy that a call is about *)
(* to save over it.                                                        *)
(***************************************************************************)
Phases == {"idle", "write drafts", "remove drafts", "save"}

IsCall(k) ==
  /\ k = [phase |-> k.phase, copy |-> k.copy, due |-> k.due]
  /\ k.phase \in Phases /\ k.due \subseteq NodeIds

Typed ==
  /\ drafts \subseteq NodeIds /\ fresh \subseteq NodeIds
  /\ request = [c \in Callers |-> request[c]] /\ \A c \in Callers : IsCall(request[c])

Trees ==
  /\ Forest(tree) /\ fresh \cap DOMAIN tree = {}
  /\ \A c \in Callers : Forest(request[c].copy) /\ fresh \cap DOMAIN request[c].copy = {}

Orders == ~forward => Numbered(tree) /\ \A c \in Callers : Numbered(request[c].copy)

(***************************************************************************)
(* A call alone at work knows the drafts of the tree it saves: they are    *)
(* there or due to be written, and none of them is due to be removed. As   *)
(* long as it removes none, those of the tree in the file are there too.   *)
(***************************************************************************)
Busy(c) == request[c].phase # "idle"

Drafted ==
  ~disturbed =>
    /\ \A c, d \in Callers : Busy(c) /\ Busy(d) => c = d
    /\ (\A c \in Callers : ~Busy(c)) => Requests(tree) \subseteq drafts
    /\ \A c \in Callers :
         /\ request[c].phase \in {"write drafts", "save"} =>
              Requests(tree) \subseteq drafts /\ Requests(request[c].copy) \subseteq drafts \cup request[c].due
         /\ request[c].phase = "remove drafts" => Requests(request[c].copy) \subseteq drafts \ request[c].due

Inv == Typed /\ Trees /\ Orders /\ Drafted

\* What create, rename, move and delete have in common: an idle caller sets out to save a
\* copy, a tree again, numbered as the file's was, with its drafts there, due or spared.
Sets(c, phase, due, copy) ==
  /\ ~Busy(c) /\ phase \in {"write drafts", "remove drafts", "save"} /\ due \subseteq NodeIds
  /\ Plan(c, phase, due, copy) /\ UNCHANGED <<tree, drafts>>
  /\ Forest(copy) /\ fresh' \subseteq fresh /\ fresh' \cap DOMAIN copy = {}
  /\ ~forward' => ~forward /\ (Numbered(tree) => Numbered(copy))
  /\ ~disturbed' => ~disturbed /\ \A d \in Callers : ~Busy(d)
  /\ Requests(tree) \subseteq drafts =>
       IF phase = "remove drafts" THEN Requests(copy) \subseteq drafts \ due
       ELSE Requests(copy) \subseteq drafts \cup due

\* Loading leaves the history straight only when nobody else is at work.
LEMMA Loaded ==
  ASSUME NEW c \in Callers, Load(c)
  PROVE  /\ ~Busy(c) /\ UNCHANGED <<tree, drafts>>
         /\ ~disturbed' => ~disturbed /\ \A d \in Callers : ~Busy(d)
BY DEF Load, Busy

\* create sets out to save the tree with one more node.
LEMMA CreateSets ==
  ASSUME Inv, NEW c \in Callers, create(c)
  PROVE  \E phase, due, copy : Sets(c, phase, due, copy)
<1>1. PICK n : n \in fresh /\ n = CHOOSE id \in fresh : TRUE
  BY DEF create
<1>2. PICK kind \in CollectionKind, p \in NodeIds \cup {Nothing} :
        /\ Load(c)
        /\ ValidParent(tree, kind, p)
        /\ Plan(c, "write drafts", IF kind = "request" THEN {n} ELSE {}, Created(tree, n, kind, p))
        /\ fresh' = fresh \ {n}
        /\ UNCHANGED forward
  BY <1>1 DEF create
<1> DEFINE due == IF kind = "request" THEN {n} ELSE {}
           copy == Created(tree, n, kind, p)
<1>3. Forest(tree) /\ n \in NodeIds \ DOMAIN tree
  BY <1>1 DEF Inv, Typed, Trees
<1>4. Forest(copy) /\ (Numbered(tree) => Numbered(copy))
  BY <1>2, <1>3, CreatedForest, CreatedNumbered
<1>5. /\ DOMAIN copy = DOMAIN tree \cup {n} /\ copy[n].kind = kind
      /\ \A m \in DOMAIN tree : copy[m] = tree[m]
  BY <1>3 DEF Created
<1>6. fresh' \cap DOMAIN copy = {}
  BY <1>2, <1>5 DEF Inv, Trees
<1>7. Requests(copy) \subseteq Requests(tree) \cup due
  BY <1>5 DEF Requests
<1> HIDE DEF copy
<1>8. Sets(c, "write drafts", due, copy)
  BY <1>2, <1>3, <1>4, <1>6, <1>7, Loaded DEF Sets, copy
<1>9. QED BY <1>8

\* rename sets out to save the tree as it was loaded.
LEMMA RenameSets ==
  ASSUME Inv, NEW c \in Callers, rename(c)
  PROVE  \E phase, due, copy : Sets(c, phase, due, copy)
<1>1. Load(c) /\ Plan(c, "save", {}, tree) /\ UNCHANGED <<fresh, forward>>
  BY DEF rename
<1>2. Sets(c, "save", {}, tree)
  BY <1>1, Loaded DEF Sets, Inv, Trees
<1>3. QED BY <1>2

\* move sets out to save the tree with one node elsewhere, and the same requests.
LEMMA MoveSets ==
  ASSUME Inv, NEW c \in Callers, move(c)
  PROVE  \E phase, due, copy : Sets(c, phase, due, copy)
<1>1. PICK n \in NodeIds, p \in NodeIds, before \in NodeIds \cup {Nothing} :
        /\ Load(c)
        /\ MoveAllowed(tree, n, p, before)
        /\ Plan(c, "save", {}, Moved(tree, n, p, before))
        /\ forward' = (forward \/ Forwards(tree, n, p, before))
        /\ UNCHANGED fresh
  BY DEF move
<1> DEFINE copy == Moved(tree, n, p, before)
<1>2. Forest(tree) /\ Forest(copy)
  BY <1>1, MovedForest DEF Inv, Trees
<1>3. ~forward' => ~forward /\ (Numbered(tree) => Numbered(copy))
  BY <1>1, <1>2, MovedNumbered
<1>4. DOMAIN copy = DOMAIN tree /\ \A m \in DOMAIN tree : copy[m].kind = tree[m].kind
  BY <1>1, <1>2, MovedFields
<1>5. Requests(copy) = Requests(tree)
  BY <1>4 DEF Requests
<1> HIDE DEF copy
<1>6. Sets(c, "save", {}, copy)
  BY <1>1, <1>2, <1>3, <1>4, <1>5, Loaded DEF Sets, Inv, Trees, copy
<1>7. QED BY <1>6

\* delete sets out to save what is left, whose drafts are not among those to remove.
LEMMA DeleteSets ==
  ASSUME Inv, NEW c \in Callers, delete(c)
  PROVE  \E phase, due, copy : Sets(c, phase, due, copy)
<1>1. PICK n \in DOMAIN tree :
        /\ Load(c)
        /\ Plan(c, "remove drafts", {m \in Subtree(tree, n) : tree[m].kind = "request"},
                [m \in DOMAIN tree \ Subtree(tree, n) |-> tree[m]])
        /\ UNCHANGED <<fresh, forward>>
  BY DEF delete
<1> DEFINE due == {m \in Subtree(tree, n) : tree[m].kind = "request"}
           copy == [m \in DOMAIN tree \ Subtree(tree, n) |-> tree[m]]
<1>2. Forest(tree) /\ Forest(copy)
  BY DeletedForest DEF Inv, Trees
<1>3. /\ DOMAIN copy = DOMAIN tree \ Subtree(tree, n) /\ \A m \in DOMAIN copy : copy[m] = tree[m]
      /\ due \subseteq Subtree(tree, n) /\ Subtree(tree, n) \subseteq DOMAIN tree
  BY DEF Subtree
<1> HIDE DEF copy, due
<1>4. Numbered(tree) => Numbered(copy)
  BY <1>3 DEF Numbered
<1>5. Requests(copy) \subseteq Requests(tree) \ due
  BY <1>3 DEF Requests
<1>6. due \subseteq NodeIds /\ fresh \cap DOMAIN copy = {}
  BY <1>2, <1>3 DEF Forest, Inv, Trees
<1>7. Sets(c, "remove drafts", due, copy)
  BY <1>1, <1>2, <1>4, <1>5, <1>6, Loaded DEF Sets, copy, due
<1>8. QED BY <1>7

\* Every step is one of these.
LEMMA Steps ==
  ASSUME Inv, Next
  PROVE  \/ \E c \in Callers :
              \/ \E phase, due, copy : Sets(c, phase, due, copy)
              \/ save_draft(c) \/ Refused(c) \/ DraftStep(c) \/ Save(c) \/ Fails(c)
         \/ StudioCrash
BY CreateSets, RenameSets, MoveSets, DeleteSets DEF Next

-----------------------------------------------------------------------------
(***************************************************************************)
(* Each kind of step keeps the invariant.                                  *)
(***************************************************************************)

\* A call sets out to save a copy.
LEMMA SetsKeeps ==
  ASSUME Inv, NEW c \in Callers, NEW phase, NEW due, NEW copy, Sets(c, phase, due, copy)
  PROVE  Inv'
<1>1. /\ request' = [d \in Callers |-> request'[d]]
      /\ request'[c] = [phase |-> phase, copy |-> copy, due |-> due]
      /\ request'[c].phase = phase /\ request'[c].copy = copy /\ request'[c].due = due
      /\ \A d \in Callers \ {c} : request'[d] = request[d]
      /\ tree' = tree /\ drafts' = drafts /\ fresh' \subseteq fresh
  BY DEF Sets, Plan, Inv, Typed
<1>2. Typed'
  <2>1. IsCall(request'[c])
    BY <1>1 DEF Sets, IsCall, Phases
  <2>2. \A d \in Callers : IsCall(request'[d])
    BY <1>1, <2>1 DEF Inv, Typed
  <2>3. drafts' \subseteq NodeIds /\ fresh' \subseteq NodeIds
    BY <1>1 DEF Inv, Typed
  <2>4. QED BY <1>1, <2>2, <2>3 DEF Typed
<1>3. Trees'
  <2>1. Forest(tree') /\ fresh' \cap DOMAIN tree' = {}
    BY <1>1 DEF Inv, Trees
  <2>2. \A d \in Callers : Forest(request'[d].copy) /\ fresh' \cap DOMAIN request'[d].copy = {}
    <3> SUFFICES ASSUME NEW d \in Callers
                 PROVE  Forest(request'[d].copy) /\ fresh' \cap DOMAIN request'[d].copy = {}
      OBVIOUS
    <3>1. CASE d = c
      BY <1>1, <3>1 DEF Sets
    <3>2. CASE d # c
      BY <1>1, <3>2 DEF Inv, Trees
    <3>3. QED BY <3>1, <3>2
  <2>3. QED BY <2>1, <2>2 DEF Trees
<1>4. Orders'
  <2> SUFFICES ASSUME ~forward' PROVE Numbered(tree') /\ \A d \in Callers : Numbered(request'[d].copy)
    BY DEF Orders
  <2>1. Numbered(tree) /\ Numbered(copy) /\ \A d \in Callers : Numbered(request[d].copy)
    BY DEF Sets, Inv, Orders
  <2>2. QED BY <1>1, <2>1
<1>5. Drafted'
  <2> SUFFICES ASSUME ~disturbed'
               PROVE  /\ \A d, e \in Callers : request'[d].phase # "idle" /\ request'[e].phase # "idle" => d = e
                      /\ (\A d \in Callers : request'[d].phase = "idle") => Requests(tree') \subseteq drafts'
                      /\ \A d \in Callers :
                           /\ request'[d].phase \in {"write drafts", "save"} =>
                                /\ Requests(tree') \subseteq drafts'
                                /\ Requests(request'[d].copy) \subseteq drafts' \cup request'[d].due
                           /\ request'[d].phase = "remove drafts" =>
                                Requests(request'[d].copy) \subseteq drafts' \ request'[d].due
    BY DEF Drafted, Busy
  <2>1. ~disturbed /\ \A d \in Callers : request[d].phase = "idle"
    BY DEF Sets, Busy
  <2>2. Requests(tree) \subseteq drafts
    BY <2>1 DEF Inv, Drafted, Busy
  <2>3. IF phase = "remove drafts" THEN Requests(copy) \subseteq drafts \ due
        ELSE Requests(copy) \subseteq drafts \cup due
    BY <2>2 DEF Sets
  <2>4. \A d \in Callers \ {c} : request'[d].phase = "idle"
    BY <1>1, <2>1
  <2>5. \A d, e \in Callers : request'[d].phase # "idle" /\ request'[e].phase # "idle" => d = e
    BY <2>4
  <2>6. /\ phase \in {"write drafts", "save"} => Requests(copy) \subseteq drafts \cup due
        /\ phase = "remove drafts" => Requests(copy) \subseteq drafts \ due
    BY <2>3
  <2>7. ASSUME NEW d \in Callers
        PROVE  /\ request'[d].phase \in {"write drafts", "save"} =>
                    /\ Requests(tree') \subseteq drafts'
                    /\ Requests(request'[d].copy) \subseteq drafts' \cup request'[d].due
               /\ request'[d].phase = "remove drafts" =>
                    Requests(request'[d].copy) \subseteq drafts' \ request'[d].due
    <3>1. CASE d = c
      BY <1>1, <2>2, <2>6, <3>1
    <3>2. CASE d # c
      <4>1. request'[d].phase = "idle"
        BY <2>4, <3>2
      <4>2. QED BY <4>1
    <3>3. QED BY <3>1, <3>2
  <2>8. QED BY <1>1, <2>2, <2>5, <2>7
<1>6. QED BY <1>2, <1>3, <1>4, <1>5 DEF Inv

\* A draft is saved on its own, or a call is refused.
LEMMA OthersKeep ==
  ASSUME Inv, NEW c \in Callers, save_draft(c) \/ Refused(c)
  PROVE  Inv'
<1>1. /\ UNCHANGED <<tree, fresh, request, forward>> /\ (~disturbed' => ~disturbed)
      /\ drafts \subseteq drafts' /\ drafts' \subseteq NodeIds
  <2>1. drafts \subseteq NodeIds
    BY DEF Inv, Typed
  <2>2. CASE save_draft(c)
    BY <2>1, <2>2 DEF save_draft
  <2>3. CASE Refused(c)
    BY <2>1, <2>3 DEF Refused, Load
  <2>4. QED BY <2>2, <2>3
<1>2. Typed' /\ Trees' /\ Orders'
  BY <1>1 DEF Inv, Typed, Trees, Orders
<1>3. Drafted'
  BY <1>1 DEF Inv, Drafted, Busy
<1>4. QED BY <1>2, <1>3 DEF Inv

\* One draft is written or removed.
LEMMA DraftStepKeeps ==
  ASSUME Inv, NEW c \in Callers, DraftStep(c)
  PROVE  Inv'
<1>1. PICK n \in request[c].due :
        /\ \/ request[c].phase = "write drafts" /\ drafts' = drafts \cup {n}
           \/ request[c].phase = "remove drafts" /\ drafts' = drafts \ {n}
        /\ request' = [request EXCEPT ![c].due = request[c].due \ {n}]
  BY DEF DraftStep
<1>2. IsCall(request[c]) /\ n \in NodeIds
  BY DEF Inv, Typed, IsCall
<1>3. /\ request' = [d \in Callers |-> request'[d]]
      /\ request'[c] = [phase |-> request[c].phase, copy |-> request[c].copy,
                        due |-> request[c].due \ {n}]
      /\ \A d \in Callers \ {c} : request'[d] = request[d]
      /\ UNCHANGED <<tree, fresh, forward, disturbed>>
  BY <1>1, <1>2 DEF Inv, Typed, DraftStep, IsCall
<1>4. \A d \in Callers : request'[d].copy = request[d].copy /\ request'[d].phase = request[d].phase
  BY <1>3
<1>5. Typed'
  <2>1. IsCall(request'[c])
    BY <1>2, <1>3 DEF IsCall
  <2>2. drafts' \subseteq NodeIds
    BY <1>1, <1>2 DEF Inv, Typed
  <2>3. \A d \in Callers : IsCall(request'[d])
    BY <1>3, <2>1 DEF Inv, Typed
  <2>4. QED BY <1>3, <2>2, <2>3 DEF Inv, Typed
<1>6. Trees'
  BY <1>3, <1>4 DEF Inv, Trees
<1>7. Orders'
  BY <1>3, <1>4 DEF Inv, Orders
<1>8. Drafted'
  <2> SUFFICES ASSUME ~disturbed
               PROVE  /\ \A d, e \in Callers : request[d].phase # "idle" /\ request[e].phase # "idle" => d = e
                      /\ (\A d \in Callers : request[d].phase = "idle") => Requests(tree) \subseteq drafts'
                      /\ \A d \in Callers :
                           /\ request[d].phase \in {"write drafts", "save"} =>
                                /\ Requests(tree) \subseteq drafts'
                                /\ Requests(request[d].copy) \subseteq drafts' \cup request'[d].due
                           /\ request[d].phase = "remove drafts" =>
                                Requests(request[d].copy) \subseteq drafts' \ request'[d].due
    BY <1>3, <1>4 DEF Drafted, Busy
  <2>1. \A d, e \in Callers : request[d].phase # "idle" /\ request[e].phase # "idle" => d = e
    BY DEF Inv, Drafted, Busy
  <2>2. request[c].phase # "idle"
    BY <1>1
  <2>3. \A d \in Callers \ {c} : request[d].phase = "idle"
    BY <2>1, <2>2
  <2>4. request'[c].due = request[c].due \ {n}
    BY <1>3
  <2>5. CASE request[c].phase = "write drafts"
    <3>1. /\ Requests(tree) \subseteq drafts
          /\ Requests(request[c].copy) \subseteq drafts \cup request[c].due
      BY <2>5 DEF Inv, Drafted
    <3>2. drafts' = drafts \cup {n}
      BY <1>1, <2>5
    <3>3. QED BY <2>1, <2>3, <2>4, <2>5, <3>1, <3>2
  <2>6. CASE request[c].phase = "remove drafts"
    <3>1. Requests(request[c].copy) \subseteq drafts \ request[c].due
      BY <2>6 DEF Inv, Drafted
    <3>2. drafts' = drafts \ {n}
      BY <1>1, <2>6
    <3>3. QED BY <2>1, <2>3, <2>4, <2>6, <3>1, <3>2
  <2>7. QED BY <1>1, <2>5, <2>6
<1>9. QED BY <1>5, <1>6, <1>7, <1>8 DEF Inv

\* The copy is saved over the file.
LEMMA SaveKeeps ==
  ASSUME Inv, NEW c \in Callers, Save(c)
  PROVE  Inv'
<1>1. /\ request[c].phase # "idle" /\ request[c].due = {} /\ tree' = request[c].copy
      /\ request' = [d \in Callers |-> request'[d]] /\ request'[c] = NoRequest
      /\ \A d \in Callers \ {c} : request'[d] = request[d]
      /\ UNCHANGED <<drafts, fresh, forward, disturbed>>
  BY DEF Save, Inv, Typed
<1>2. Typed'
  <2>1. IsCall(NoRequest)
    BY DEF IsCall, NoRequest, Phases
  <2>2. QED BY <1>1, <2>1 DEF Inv, Typed
<1>3. Forest(NoRequest.copy) /\ Numbered(NoRequest.copy) /\ DOMAIN NoRequest.copy = {}
  BY NoNodes DEF NoRequest
<1>4. Trees'
  BY <1>1, <1>3 DEF Inv, Trees
<1>5. Orders'
  BY <1>1, <1>3 DEF Inv, Orders
<1>6. Drafted'
  <2> SUFFICES ASSUME ~disturbed
               PROVE  /\ \A d, e \in Callers : request'[d].phase # "idle" /\ request'[e].phase # "idle" => d = e
                      /\ (\A d \in Callers : request'[d].phase = "idle") => Requests(tree') \subseteq drafts
                      /\ \A d \in Callers : request'[d].phase \notin {"write drafts", "save", "remove drafts"}
    BY <1>1 DEF Drafted, Busy
  <2>1. \A d \in Callers \ {c} : request[d].phase = "idle"
    BY <1>1 DEF Inv, Drafted, Busy
  <2>2. \A d \in Callers : request'[d].phase = "idle"
    BY <1>1, <2>1 DEF NoRequest
  <2>3. Requests(request[c].copy) \subseteq drafts
    <3>1. request[c].phase \in {"write drafts", "save", "remove drafts"}
      BY <1>1 DEF Inv, Typed, IsCall, Phases
    <3>2. QED BY <1>1, <3>1 DEF Inv, Drafted
  <2>4. QED BY <1>1, <2>2, <2>3
<1>7. QED BY <1>2, <1>4, <1>5, <1>6 DEF Inv

\* A call ends with an error, or the proxy stops: the copies go, the tree stays.
LEMMA StopKeeps ==
  ASSUME Inv, (\E c \in Callers : Fails(c)) \/ StudioCrash
  PROVE  Inv'
<1>1. /\ UNCHANGED <<tree, drafts, fresh, forward>>
      /\ request' = [d \in Callers |-> request'[d]]
      /\ \A d \in Callers : request'[d] = request[d] \/ request'[d] = NoRequest
      /\ ~disturbed' => ~disturbed
      /\ ~disturbed' => \A d \in Callers :
           request[d].phase = "remove drafts" => request'[d] = request[d]
  <2>1. request = [d \in Callers |-> request[d]]
    BY DEF Inv, Typed
  <2>2. CASE \E c \in Callers : Fails(c)
    BY <2>1, <2>2 DEF Fails
  <2>3. CASE StudioCrash
    BY <2>1, <2>3 DEF StudioCrash
  <2>4. QED BY <2>2, <2>3
<1>2. /\ IsCall(NoRequest) /\ NoRequest.phase = "idle"
      /\ Forest(NoRequest.copy) /\ Numbered(NoRequest.copy) /\ DOMAIN NoRequest.copy = {}
  BY NoNodes DEF NoRequest, IsCall, Phases
<1>3. Typed'
  BY <1>1, <1>2 DEF Inv, Typed
<1>4. Trees'
  BY <1>1, <1>2 DEF Inv, Trees
<1>5. Orders'
  BY <1>1, <1>2 DEF Inv, Orders
<1>6. Drafted'
  <2> SUFFICES ASSUME ~disturbed'
               PROVE  /\ \A d, e \in Callers : request'[d].phase # "idle" /\ request'[e].phase # "idle" => d = e
                      /\ (\A d \in Callers : request'[d].phase = "idle") => Requests(tree) \subseteq drafts
                      /\ \A d \in Callers :
                           /\ request'[d].phase \in {"write drafts", "save"} =>
                                /\ Requests(tree) \subseteq drafts
                                /\ Requests(request'[d].copy) \subseteq drafts \cup request'[d].due
                           /\ request'[d].phase = "remove drafts" =>
                                Requests(request'[d].copy) \subseteq drafts \ request'[d].due
    BY <1>1 DEF Drafted, Busy
  <2>1. ~disturbed /\ Drafted
    BY <1>1 DEF Inv
  <2>2. \A d \in Callers : request'[d].phase # "idle" => request'[d] = request[d]
    BY <1>1, <1>2
  <2>3. ASSUME \A d \in Callers : request'[d].phase = "idle" PROVE Requests(tree) \subseteq drafts
    <3>1. \A d \in Callers : request[d].phase # "remove drafts"
      BY <1>1, <2>3
    <3>2. \A d \in Callers : request[d].phase \in Phases
      BY DEF Inv, Typed, IsCall
    <3>3. QED BY <2>1, <3>1, <3>2 DEF Drafted, Busy, Phases
  <2>4. \A d, e \in Callers : request'[d].phase # "idle" /\ request'[e].phase # "idle" => d = e
    BY <2>1, <2>2 DEF Drafted, Busy
  <2>5. QED BY <2>1, <2>2, <2>3, <2>4 DEF Drafted
<1>7. QED BY <1>3, <1>4, <1>5, <1>6 DEF Inv

-----------------------------------------------------------------------------
(***************************************************************************)
(* What holds in every behaviour.                                          *)
(***************************************************************************)

\* The invariant holds.
LEMMA Invariance == Spec => []Inv
<1>1. Init => Inv
  <2> SUFFICES ASSUME Init PROVE Inv
    OBVIOUS
  <2>1. /\ tree = << >> /\ drafts = {} /\ fresh = NodeIds /\ DOMAIN tree = {}
        /\ request = [c \in Callers |-> NoRequest] /\ \A c \in Callers : request[c] = NoRequest
    BY DEF Init
  <2>2. /\ IsCall(NoRequest) /\ NoRequest.phase = "idle" /\ NoRequest.copy = << >>
        /\ Forest(<< >>) /\ Numbered(<< >>) /\ Requests(<< >>) = {} /\ DOMAIN << >> = {}
    BY NoNodes DEF NoRequest, IsCall, Phases
  <2>3. Typed /\ Trees /\ Orders /\ Drafted
    BY <2>1, <2>2 DEF Typed, Trees, Orders, Drafted, Busy
  <2>4. QED BY <2>3 DEF Inv
<1>2. Inv /\ [Next]_vars => Inv'
  <2> SUFFICES ASSUME Inv, [Next]_vars PROVE Inv'
    OBVIOUS
  <2>1. CASE Next
    BY <2>1, Steps, SetsKeeps, OthersKeep, DraftStepKeeps, SaveKeeps, StopKeeps
  <2>2. CASE UNCHANGED vars
    BY <2>2 DEF Inv, Typed, Trees, Orders, Drafted, Busy, vars
  <2>3. QED BY <2>1, <2>2
<1>3. QED BY <1>1, <1>2, PTL DEF Spec

\* The variables keep their types.
THEOREM TypeCorrect == Spec => []TypeOK
<1>1. Inv => TypeOK
  <2> SUFFICES ASSUME Inv PROVE TypeOK
    OBVIOUS
  <2>1. Forest(tree) /\ \A c \in Callers : IsCall(request[c])
    BY DEF Inv, Typed, Trees
  <2>2. \A n \in DOMAIN tree :
          tree[n] \in [parent : NodeIds \cup {Nothing}, kind : CollectionKind, order : Int]
    BY <2>1 DEF Forest, Node
  <2>3. QED BY <2>1, <2>2 DEF TypeOK, Inv, Typed, Forest, IsCall, Phases
<1>2. QED BY <1>1, Invariance, PTL

\* However many calls overlap, fail or are cut off, the file holds a forest under collections,
\* siblings keep distinct orders, and requests their drafts, but for the cases the properties name.
THEOREM CollectionsAreSound == Spec => []CollectionsSound
<1>1. Inv => CollectionsSound
  <2> SUFFICES ASSUME Inv PROVE CollectionsSound
    OBVIOUS
  <2>1. TreeWellFormed
    BY DEF Inv, Trees, Forest, Rooted, TreeWellFormed
  <2>2. SiblingOrdersDistinct
    BY DEF Inv, Orders, Numbered, SiblingOrdersDistinct
  <2>3. RequestsHaveDrafts
    BY DEF Inv, Drafted, Busy, Requests, RequestsHaveDrafts
  <2>4. QED BY <2>1, <2>2, <2>3 DEF CollectionsSound
<1>2. QED BY <1>1, Invariance, PTL

-----------------------------------------------------------------------------
(***************************************************************************)
(* The history of the API studio. The invariant says what each request     *)
(* knows of the directory: who writes an entry is the only one to have it  *)
(* (Apart), a listing names an entry once (Scans), and, while requests     *)
(* come one at a time, each step of append leaves the directory as the     *)
(* next one needs it: one temporary file at most, one entry above the      *)
(* limit at most, and that one due to be removed (Tidy).                   *)
(***************************************************************************)
\* The sizes of sets are those the module of the history speaks of.
LEMMA SameCardinality == \A S : History!Cardinality(S) = Cardinality(S)
BY DEF History!Cardinality, Cardinality

HistoryConstants == EntryIds \subseteq Nat /\ HistoryMax \in Nat

HistoryPhases ==
  {"idle", "list", "open", "write", "rename", "trim", "trim scan", "remove", "clear", "done"}
FileNames == EntryIds \X {"json", "tmp"}
Request == [phase : HistoryPhases, entry : EntryIds \cup {0}, due : SUBSET FileNames,
            seen : SUBSET FileNames, ok : BOOLEAN]

HistoryTyped ==
  /\ kept \in SUBSET EntryIds /\ IsFiniteSet(kept)
  /\ blank \in SUBSET EntryIds /\ staged \in SUBSET EntryIds /\ removed \in SUBSET EntryIds
  /\ job \in [Clients -> Request]
  /\ \A c \in Clients : IsFiniteSet(job[c].seen)

OnePerEntry(S) == \A f, g \in S : f[1] = g[1] => f = g
Writing == {"open", "write", "rename"}

Apart ==
  /\ kept \cap (blank \cup staged) = {} /\ blank \cap staged = {}
  /\ \A c \in Clients : job[c].phase = "idle" => job[c] = History!NoJob
  /\ \A c \in Clients : job[c].phase \in Writing => job[c].entry \in EntryIds \ (kept \cup {0})
  /\ \A c \in Clients : job[c].phase = "open" => job[c].entry \notin staged
  /\ \A c, d \in Clients : job[c].phase \in Writing /\ c # d => job[d].entry # job[c].entry

Scanned(j) ==
  /\ j.phase \in {"list", "trim scan"} => OnePerEntry(j.due \cup j.seen)
  /\ j.phase = "remove" => OnePerEntry(j.seen) /\ j.due \subseteq History!Excess(j.seen)

Scans == \A c \in Clients : Scanned(job[c])

AtWork == {c \in Clients : job[c].phase # "idle"}
Entries(S) == {f[1] : f \in S}
Clean == blank = {} /\ staged = {}
Few(S) == Cardinality(S) <= HistoryMax

TidyJob(j) ==
  /\ j.ok
  /\ j.phase \notin {"write", "rename"} => Clean
  /\ j.phase = "write" => blank = {j.entry} /\ staged = {}
  /\ j.phase = "rename" => staged = {j.entry} /\ blank = {}
  /\ j.phase \notin {"trim", "trim scan", "remove"} => Few(kept)
  /\ j.phase \in {"trim", "trim scan", "remove"} => Cardinality(kept) <= HistoryMax + 1
  /\ j.phase = "trim scan" => j.due \cup j.seen = History!FilesThere
  /\ j.phase \in {"list", "clear"} => j.due \subseteq History!FilesThere
  /\ j.phase = "remove" => Few(kept \ Entries(j.due))

Tidy ==
  ~untidy =>
    /\ \A c, d \in AtWork : c = d
    /\ AtWork = {} => Clean /\ Few(kept)
    /\ \A c \in AtWork : TidyJob(job[c])

HistoryInv == HistoryTyped /\ Apart /\ Scans /\ Tidy

\* The files of the history are named by entries, one by each while none is written over.
LEMMA FilesTyped ==
  ASSUME HistoryTyped
  PROVE  /\ History!FilesThere \in SUBSET FileNames
         /\ Apart => OnePerEntry(History!FilesThere)
         /\ Clean => History!FilesThere = {<<e, "json">> : e \in kept}
<1>1. History!FilesThere \in SUBSET FileNames
  BY DEF HistoryTyped, History!FilesThere, FileNames
<1>2. Apart => OnePerEntry(History!FilesThere)
  BY DEF Apart, OnePerEntry, History!FilesThere
<1>3. Clean => History!FilesThere = {<<e, "json">> : e \in kept}
  BY DEF Clean, History!FilesThere
<1> QED BY <1>1, <1>2, <1>3

\* Requests keep to the types of the directory and of their own state.
LEMMA HistoryTypes ==
  ASSUME HistoryTyped, Apart, [History!Next]_(History!vars)
  PROVE  HistoryTyped'
<1> USE DEF HistoryTyped
<1>n. History!NoJob \in Request /\ IsFiniteSet(History!NoJob.seen)
  BY FS_EmptySet DEF History!NoJob, Request, HistoryPhases
<1>f. History!FilesThere \in SUBSET FileNames
  BY FilesTyped
<1>s. ASSUME NEW c \in Clients, NEW j \in Request, History!Set(c, j), IsFiniteSet(j.seen)
      PROVE  job' \in [Clients -> Request] /\ \A d \in Clients : IsFiniteSet(job'[d].seen)
  BY <1>s DEF History!Set
<1>0. CASE UNCHANGED History!vars
  BY <1>0 DEF History!vars
<1>1. ASSUME NEW c \in Clients, History!list(c) PROVE HistoryTyped'
  <2>1. /\ History!LoadAll(History!NoJob, "list") \in Request
        /\ IsFiniteSet(History!LoadAll(History!NoJob, "list").seen)
    BY <1>n, <1>f, FS_EmptySet DEF History!LoadAll, Request, HistoryPhases
  <2> QED BY <1>1, <1>s, <2>1 DEF History!list, History!Arrive
<1>2. ASSUME NEW c \in Clients, History!append(c) PROVE HistoryTyped'
  <2>1. PICK e \in EntryIds : History!Set(c, [History!NoJob EXCEPT !.phase = "open", !.entry = e])
    BY <1>2 DEF History!append
  <2>2. /\ [History!NoJob EXCEPT !.phase = "open", !.entry = e] \in Request
        /\ IsFiniteSet([History!NoJob EXCEPT !.phase = "open", !.entry = e].seen)
    BY <1>n DEF Request, HistoryPhases
  <2> QED BY <1>2, <1>s, <2>1, <2>2 DEF History!append, History!Arrive
<1>3. ASSUME NEW c \in Clients, History!delete(c) PROVE HistoryTyped'
  BY <1>3, FS_RemoveElement, FS_Subset DEF History!delete
<1>4. ASSUME NEW c \in Clients, History!clear_all(c) PROVE HistoryTyped'
  <2>1. /\ [History!NoJob EXCEPT !.phase = "clear", !.due = History!FilesThere] \in Request
        /\ IsFiniteSet([History!NoJob EXCEPT !.phase = "clear", !.due = History!FilesThere].seen)
    BY <1>n, <1>f DEF Request, HistoryPhases
  <2> QED BY <1>4, <1>s, <2>1 DEF History!clear_all, History!Arrive
<1>5. ASSUME NEW c \in Clients, History!OpenEntry(c) PROVE HistoryTyped'
  <2>1. job[c].entry \in EntryIds
    BY <1>5 DEF History!OpenEntry, Apart, Writing
  <2>2. /\ [job[c] EXCEPT !.phase = "write"] \in Request
        /\ IsFiniteSet([job[c] EXCEPT !.phase = "write"].seen)
    BY DEF Request, HistoryPhases
  <2> QED BY <1>5, <1>s, <2>1, <2>2 DEF History!OpenEntry
<1>6. ASSUME NEW c \in Clients, History!WriteEntry(c) PROVE HistoryTyped'
  <2>1. /\ [job[c] EXCEPT !.phase = "rename"] \in Request
        /\ IsFiniteSet([job[c] EXCEPT !.phase = "rename"].seen)
    BY DEF Request, HistoryPhases
  <2>2. job[c].entry \in blank => job[c].entry \in EntryIds
    OBVIOUS
  <2> QED BY <1>6, <1>s, <2>1, <2>2 DEF History!WriteEntry
<1>7. ASSUME NEW c \in Clients, History!RenameEntry(c) PROVE HistoryTyped'
  <2>1. /\ [job[c] EXCEPT !.phase = "trim"] \in Request
        /\ IsFiniteSet([job[c] EXCEPT !.phase = "trim"].seen)
    BY DEF Request, HistoryPhases
  <2>2. job' \in [Clients -> Request] /\ \A d \in Clients : IsFiniteSet(job'[d].seen)
    BY <1>7, <1>n, <1>s, <2>1 DEF History!RenameEntry, History!Ends
  <2>3. IsFiniteSet(kept \cup {job[c].entry})
    BY FS_AddElement
  <2>4. /\ kept' \in SUBSET EntryIds /\ IsFiniteSet(kept')
        /\ staged' \in SUBSET EntryIds /\ UNCHANGED <<blank, removed>>
    BY <1>7, <2>3 DEF History!RenameEntry
  <2> QED BY <2>2, <2>4
<1>8. ASSUME NEW c \in Clients, History!TrimBegin(c) PROVE HistoryTyped'
  <2>1. /\ History!LoadAll(job[c], "trim scan") \in Request
        /\ IsFiniteSet(History!LoadAll(job[c], "trim scan").seen)
    BY <1>f, FS_EmptySet DEF History!LoadAll, Request, HistoryPhases
  <2> QED BY <1>8, <1>s, <2>1 DEF History!TrimBegin
<1>9. ASSUME NEW c \in Clients, History!ReadEntry(c) PROVE HistoryTyped'
  <2>1. PICK f \in job[c].due :
          \/ History!Set(c, [job[c] EXCEPT !.due = job[c].due \ {f}, !.seen = job[c].seen \cup {f}])
          \/ History!Set(c, [job[c] EXCEPT !.phase = "done", !.due = {}, !.ok = FALSE])
          \/ History!Set(c, [job[c] EXCEPT !.due = job[c].due \ {f}])
    BY <1>9 DEF History!ReadEntry
  <2>2. job[c] \in Request /\ f \in FileNames
    BY DEF Request
  <2>3. IsFiniteSet(job[c].seen \cup {f})
    BY FS_AddElement
  <2>4. /\ [job[c] EXCEPT !.due = job[c].due \ {f}, !.seen = job[c].seen \cup {f}] \in Request
        /\ [job[c] EXCEPT !.phase = "done", !.due = {}, !.ok = FALSE] \in Request
        /\ [job[c] EXCEPT !.due = job[c].due \ {f}] \in Request
    BY <2>2 DEF Request, HistoryPhases
  <2>5. /\ [job[c] EXCEPT !.due = job[c].due \ {f}, !.seen = job[c].seen \cup {f}].seen
           = job[c].seen \cup {f}
        /\ [job[c] EXCEPT !.phase = "done", !.due = {}, !.ok = FALSE].seen = job[c].seen
        /\ [job[c] EXCEPT !.due = job[c].due \ {f}].seen = job[c].seen
    BY <2>2 DEF Request
  <2>6. job' \in [Clients -> Request] /\ \A d \in Clients : IsFiniteSet(job'[d].seen)
    BY <1>s, <2>1, <2>3, <2>4, <2>5
  <2> QED BY <1>9, <2>6 DEF History!ReadEntry
<1>10. ASSUME NEW c \in Clients, History!Loaded(c) PROVE HistoryTyped'
  <2>1. job[c] \in Request /\ History!Excess(job[c].seen) \subseteq FileNames
    BY SameCardinality DEF Request, History!Excess
  <2>2. /\ [job[c] EXCEPT !.phase = "done"] \in Request
        /\ [job[c] EXCEPT !.phase = "remove", !.due = History!Excess(job[c].seen)] \in Request
        /\ [job[c] EXCEPT !.phase = "done"].seen = job[c].seen
        /\ [job[c] EXCEPT !.phase = "remove", !.due = History!Excess(job[c].seen)].seen = job[c].seen
    BY <2>1 DEF Request, HistoryPhases
  <2> QED BY <1>10, <1>s, <2>2 DEF History!Loaded
<1>11. ASSUME NEW c \in Clients, History!RemoveFile(c) PROVE HistoryTyped'
  <2>1. PICK f \in job[c].due :
          /\ removed' \in {removed, removed \cup {f[1]}}
          /\ kept' \in {kept, kept \ {f[1]}}
          /\ blank' \in {blank, blank \ {f[1]}} /\ staged' \in {staged, staged \ {f[1]}}
          /\ \/ History!Set(c, [job[c] EXCEPT !.due = job[c].due \ {f}])
             \/ History!Set(c, [job[c] EXCEPT !.phase = "done", !.due = {}, !.ok = FALSE])
    BY <1>11 DEF History!RemoveFile
  <2>2. job[c] \in Request /\ f \in FileNames /\ f[1] \in EntryIds
    BY DEF Request, FileNames
  <2>3. /\ [job[c] EXCEPT !.phase = "done", !.due = {}, !.ok = FALSE] \in Request
        /\ [job[c] EXCEPT !.due = job[c].due \ {f}] \in Request
        /\ [job[c] EXCEPT !.phase = "done", !.due = {}, !.ok = FALSE].seen = job[c].seen
        /\ [job[c] EXCEPT !.due = job[c].due \ {f}].seen = job[c].seen
    BY <2>2 DEF Request, HistoryPhases
  <2>4. job' \in [Clients -> Request] /\ \A d \in Clients : IsFiniteSet(job'[d].seen)
    BY <1>s, <2>1, <2>3
  <2>5. IsFiniteSet(kept \ {f[1]})
    BY FS_RemoveElement
  <2> QED BY <2>1, <2>2, <2>4, <2>5
<1>12. ASSUME NEW c \in Clients, History!Removed(c) \/ History!Reply(c) PROVE HistoryTyped'
  <2>1. /\ [job[c] EXCEPT !.phase = "done"] \in Request
        /\ [job[c] EXCEPT !.phase = "done"].seen = job[c].seen
    BY DEF Request, HistoryPhases
  <2> QED BY <1>12, <1>n, <1>s, <2>1 DEF History!Removed, History!Reply, History!Ends
<1>13. ASSUME History!HistoryCrash PROVE HistoryTyped'
  BY <1>13, <1>n DEF History!HistoryCrash
<1> QED
  BY <1>0, <1>1, <1>2, <1>3, <1>4, <1>5, <1>6, <1>7, <1>8, <1>9, <1>10, <1>11, <1>12, <1>13 DEF
    History!Next

\* An entry is in one place, and the request that writes it is the only one.
LEMMA ApartStays ==
  ASSUME HistoryTyped, Apart, [History!Next]_(History!vars)
  PROVE  Apart'
<1> USE DEF HistoryTyped
<1>n. History!NoJob.phase = "idle" /\ History!NoJob.entry = 0
  BY DEF History!NoJob
<1>r. \A c \in Clients : job[c] \in Request
  OBVIOUS
<1>s. ASSUME NEW c \in Clients, NEW j, History!Set(c, j)
      PROVE  \A d \in Clients : job'[d] = IF d = c THEN j ELSE job[d]
  BY <1>s DEF History!Set
<1>0. CASE UNCHANGED History!vars
  BY <1>0 DEF History!vars, Apart
<1>2. ASSUME NEW c \in Clients, History!list(c) \/ History!clear_all(c) PROVE Apart'
  <2>1. \A d \in Clients \ {c} : job'[d] = job[d]
    BY <1>2, <1>s DEF History!list, History!clear_all
  <2>2. job'[c].phase \in {"list", "clear"} /\ job'[c].entry = 0
    BY <1>2 DEF History!list, History!clear_all, History!Set, History!LoadAll, History!NoJob
  <2>3. job[c].entry = 0 /\ UNCHANGED <<kept, blank, staged>>
    BY <1>2, <1>n DEF History!list, History!clear_all, History!Arrive, Apart
  <2> QED BY <2>1, <2>2, <2>3 DEF Apart, Writing
<1>3. ASSUME NEW c \in Clients, History!append(c) PROVE Apart'
  <2>1. PICK e \in EntryIds \ (kept \cup blank \cup staged) :
          /\ History!Set(c, [History!NoJob EXCEPT !.phase = "open", !.entry = e])
          /\ \A d \in Clients : job[d].entry # e
    BY <1>3 DEF History!append
  <2>2. UNCHANGED <<kept, blank, staged>>
    BY <1>3 DEF History!append, History!Arrive
  <2>3. \A d \in Clients \ {c} : job'[d] = job[d]
    BY <1>s, <2>1
  <2>4. job'[c].phase = "open" /\ job'[c].entry = e
    BY <2>1 DEF History!Set, History!NoJob
  <2>5. job[c].entry = 0
    BY <1>3, <1>n DEF History!append, History!Arrive, Apart
  <2> QED BY <2>1, <2>2, <2>3, <2>4, <2>5 DEF Apart, Writing
<1>4. ASSUME NEW c \in Clients, History!delete(c) PROVE Apart'
  BY <1>4 DEF History!delete, Apart
<1>5. ASSUME NEW c \in Clients, History!OpenEntry(c) PROVE Apart'
  <2>1. \A d \in Clients \ {c} : job'[d] = job[d]
    BY <1>5, <1>s DEF History!OpenEntry
  <2>2. job[c].phase = "open" /\ job'[c].phase = "write" /\ job'[c].entry = job[c].entry
    BY <1>5, <1>s, <1>r DEF History!OpenEntry, Request
  <2>3. kept' = kept /\ staged' = staged /\ blank' = blank \cup {job[c].entry}
    BY <1>5 DEF History!OpenEntry
  <2>4. job[c].entry \notin kept \cup staged
    BY <2>2 DEF Apart, Writing
  <2>5. kept' \cap (blank' \cup staged') = {} /\ blank' \cap staged' = {}
    BY <2>3, <2>4 DEF Apart
  <2>6. \A d \in Clients :
          job'[d].entry = job[d].entry /\ (job'[d].phase \in Writing => job[d].phase \in Writing)
    BY <2>1, <2>2 DEF Writing
  <2>7. \A d \in Clients : job'[d].phase \in {"idle", "open"} => job'[d] = job[d]
    BY <2>1, <2>2
  <2> QED BY <2>3, <2>5, <2>6, <2>7 DEF Apart
<1>6. ASSUME NEW c \in Clients, History!WriteEntry(c) PROVE Apart'
  <2>1. \A d \in Clients \ {c} : job'[d] = job[d]
    BY <1>6, <1>s DEF History!WriteEntry
  <2>2. job[c].phase = "write" /\ job'[c].phase = "rename" /\ job'[c].entry = job[c].entry
    BY <1>6, <1>s, <1>r DEF History!WriteEntry, Request
  <2>3. kept' = kept /\ blank' \cup staged' \subseteq blank \cup staged
    BY <1>6 DEF History!WriteEntry
  <2>4. staged' \subseteq staged \cup {job[c].entry} /\ blank' \cap staged' = {}
    BY <1>6 DEF History!WriteEntry, Apart
  <2>5. kept' \cap (blank' \cup staged') = {}
    BY <2>3 DEF Apart
  <2>6. \A d \in Clients :
          job'[d].entry = job[d].entry /\ (job'[d].phase \in Writing => job[d].phase \in Writing)
    BY <2>1, <2>2 DEF Writing
  <2>7. \A d \in Clients : job'[d].phase \in {"idle", "open"} => job'[d] = job[d] /\ d # c
    BY <2>1, <2>2
  <2>8. \A d \in Clients : job'[d].phase = "open" => job[d].entry # job[c].entry
    BY <2>2, <2>7 DEF Apart, Writing
  <2>9. /\ \A d \in Clients : job'[d].phase \in Writing => job'[d].entry \in EntryIds \ (kept' \cup {0})
        /\ \A d \in Clients : job'[d].phase = "open" => job'[d].entry \notin staged'
        /\ \A d, e \in Clients : job'[d].phase \in Writing /\ d # e => job'[e].entry # job'[d].entry
    BY <2>3, <2>4, <2>6, <2>7, <2>8 DEF Apart
  <2>10. \A d \in Clients : job'[d].phase = "idle" => job'[d] = History!NoJob
    BY <2>7 DEF Apart
  <2> QED BY <2>4, <2>5, <2>9, <2>10 DEF Apart
<1>7. ASSUME NEW c \in Clients, History!RenameEntry(c) PROVE Apart'
  <2>1. \A d \in Clients \ {c} : job'[d] = job[d]
    BY <1>7, <1>s DEF History!RenameEntry, History!Ends
  <2>2. job[c].phase = "rename" /\ job[c].entry \in EntryIds \ (kept \cup {0})
    BY <1>7 DEF History!RenameEntry, Apart, Writing
  <2>5. \A d \in Clients \ {c} :
          job[d].entry # job[c].entry /\ (job[d].phase \in Writing => job[d].entry # 0)
    BY <2>2 DEF Apart, Writing
  <2>3. CASE job[c].entry \in staged
    <3>1. job'[c].phase = "trim" /\ job'[c].entry = job[c].entry
      BY <1>7, <1>s, <1>r, <2>3 DEF History!RenameEntry, Request
    <3>2. kept' = kept \cup {job[c].entry} /\ staged' = staged \ {job[c].entry} /\ blank' = blank
      BY <1>7, <2>3 DEF History!RenameEntry
    <3>3. job[c].entry \notin blank
      BY <2>3 DEF Apart
    <3> QED BY <2>1, <2>2, <2>5, <3>1, <3>2, <3>3 DEF Apart, Writing
  <2>4. CASE job[c].entry \notin staged
    <3>1. job'[c] = History!NoJob /\ UNCHANGED <<kept, blank, staged>>
      BY <1>7, <1>s, <2>4 DEF History!RenameEntry, History!Ends
    <3> QED BY <1>n, <2>1, <2>5, <3>1 DEF Apart, Writing
  <2> QED BY <2>3, <2>4
<1>8. ASSUME NEW c \in Clients,
             \/ History!TrimBegin(c) \/ History!ReadEntry(c) \/ History!Loaded(c)
             \/ History!RemoveFile(c) \/ History!Removed(c)
      PROVE  Apart'
  <2>1. \A d \in Clients \ {c} : job'[d] = job[d]
    BY <1>8, <1>s DEF History!TrimBegin, History!ReadEntry, History!Loaded, History!RemoveFile,
      History!Removed
  <2>2. job'[c].phase \notin Writing \cup {"idle"} /\ job'[c].entry = job[c].entry
    <3>1. CASE History!TrimBegin(c)
      BY <3>1, <1>r DEF History!TrimBegin, History!Set, History!LoadAll, Request, Writing
    <3>2. CASE History!ReadEntry(c)
      <4>1. PICK f \in job[c].due :
              \/ History!Set(c, [job[c] EXCEPT !.due = job[c].due \ {f}, !.seen = job[c].seen \cup {f}])
              \/ History!Set(c, [job[c] EXCEPT !.phase = "done", !.due = {}, !.ok = FALSE])
              \/ History!Set(c, [job[c] EXCEPT !.due = job[c].due \ {f}])
        BY <3>2 DEF History!ReadEntry
      <4>2. job[c].phase \in {"list", "trim scan"}
        BY <3>2 DEF History!ReadEntry
      <4>3. PICK j \in {[job[c] EXCEPT !.due = job[c].due \ {f}, !.seen = job[c].seen \cup {f}],
                        [job[c] EXCEPT !.phase = "done", !.due = {}, !.ok = FALSE],
                        [job[c] EXCEPT !.due = job[c].due \ {f}]} : History!Set(c, j)
        BY <4>1
      <4>4. j.phase \in {"list", "trim scan", "done"} /\ j.entry = job[c].entry
        BY <1>r, <4>2 DEF Request
      <4> QED BY <4>3, <4>4 DEF History!Set, Writing
    <3>3. CASE History!Loaded(c)
      <4>1. \/ History!Set(c, [job[c] EXCEPT !.phase = "done"])
            \/ History!Set(c, [job[c] EXCEPT !.phase = "remove", !.due = History!Excess(job[c].seen)])
        BY <3>3 DEF History!Loaded
      <4>2. PICK j \in {[job[c] EXCEPT !.phase = "done"],
                        [job[c] EXCEPT !.phase = "remove", !.due = History!Excess(job[c].seen)]} :
          History!Set(c, j)
        BY <4>1
      <4>3. j.phase \in {"done", "remove"} /\ j.entry = job[c].entry
        BY <1>r DEF Request
      <4> QED BY <4>2, <4>3 DEF History!Set, Writing
    <3>4. CASE History!RemoveFile(c)
      <4>1. PICK f \in job[c].due :
              \/ History!Set(c, [job[c] EXCEPT !.due = job[c].due \ {f}])
              \/ History!Set(c, [job[c] EXCEPT !.phase = "done", !.due = {}, !.ok = FALSE])
        BY <3>4 DEF History!RemoveFile
      <4>2. job[c].phase \in {"remove", "clear"}
        BY <3>4 DEF History!RemoveFile
      <4>3. PICK j \in {[job[c] EXCEPT !.due = job[c].due \ {f}],
                        [job[c] EXCEPT !.phase = "done", !.due = {}, !.ok = FALSE]} : History!Set(c, j)
        BY <4>1
      <4>4. j.phase \in {"remove", "clear", "done"} /\ j.entry = job[c].entry
        BY <1>r, <4>2 DEF Request
      <4> QED BY <4>3, <4>4 DEF History!Set, Writing
    <3>5. CASE History!Removed(c)
      BY <3>5, <1>r DEF History!Removed, History!Set, Request, Writing
    <3> QED BY <1>8, <3>1, <3>2, <3>3, <3>4, <3>5
  <2>3. kept' \subseteq kept /\ blank' \subseteq blank /\ staged' \subseteq staged
    BY <1>8 DEF History!TrimBegin, History!ReadEntry, History!Loaded, History!RemoveFile,
      History!Removed
  <2>4. kept' \cap (blank' \cup staged') = {} /\ blank' \cap staged' = {}
    BY <2>3 DEF Apart
  <2>5. \A d \in Clients : job'[d].phase \in Writing => d # c /\ job'[d] = job[d]
    BY <2>1, <2>2
  <2>6. \A d \in Clients : job'[d].entry = job[d].entry
    BY <2>1, <2>2
  <2>7. \A d \in Clients : job'[d].phase = "idle" => d # c /\ job'[d] = job[d]
    BY <2>1, <2>2
  <2>8. \A d \in Clients : job'[d].phase = "open" => job[d].phase = "open" /\ d # c
    BY <2>5 DEF Writing
  <2>9. /\ \A d \in Clients : job'[d].phase \in Writing => job'[d].entry \in EntryIds \ (kept' \cup {0})
        /\ \A d \in Clients : job'[d].phase = "open" => job'[d].entry \notin staged'
        /\ \A d, e \in Clients : job'[d].phase \in Writing /\ d # e => job'[e].entry # job'[d].entry
    BY <2>3, <2>5, <2>6, <2>8 DEF Apart
  <2> QED BY <2>4, <2>7, <2>9 DEF Apart
<1>9. ASSUME NEW c \in Clients, History!Reply(c) PROVE Apart'
  <2>1. \A d \in Clients \ {c} : job'[d] = job[d]
    BY <1>9, <1>s DEF History!Reply, History!Ends
  <2>2. job'[c] = History!NoJob /\ UNCHANGED <<kept, blank, staged>>
    BY <1>9, <1>s DEF History!Reply, History!Ends
  <2>3. \A d \in Clients : job[d].phase \in Writing => job[d].entry # 0
    BY <1>9 DEF Apart, Writing, History!Reply
  <2> QED BY <1>n, <2>1, <2>2, <2>3 DEF Apart, Writing
<1>10. CASE History!HistoryCrash
  BY <1>10, <1>n DEF History!HistoryCrash, Apart, Writing
<1> QED
  BY <1>0, <1>2, <1>3, <1>4, <1>5, <1>6, <1>7, <1>8, <1>9, <1>10 DEF History!Next

\* A listing names each entry once, and trimming removes only what is above the limit.
LEMMA ScansStay ==
  ASSUME HistoryTyped, Apart, Scans, [History!Next]_(History!vars)
  PROVE  Scans'
<1> USE DEF HistoryTyped
<1>r. \A c \in Clients : job[c] \in Request
  OBVIOUS
<1>f. OnePerEntry(History!FilesThere)
  BY FilesTyped
<1>s. ASSUME NEW c \in Clients, NEW j, History!Set(c, j), Scanned(j)
      PROVE  Scans'
  BY <1>s DEF History!Set, Scans
<1>o. ASSUME NEW j, j.phase \notin {"list", "trim scan", "remove"}
      PROVE  Scanned(j)
  BY <1>o DEF Scanned
<1>0. CASE UNCHANGED job
  BY <1>0 DEF Scans
<1>1. ASSUME NEW c \in Clients, History!list(c) PROVE Scans'
  <2>1. Scanned(History!LoadAll(History!NoJob, "list"))
    BY <1>f DEF Scanned, History!LoadAll, History!NoJob
  <2> QED BY <1>1, <1>s, <2>1 DEF History!list
<1>2. ASSUME NEW c \in Clients, History!append(c) PROVE Scans'
  <2>1. PICK e : History!Set(c, [History!NoJob EXCEPT !.phase = "open", !.entry = e])
    BY <1>2 DEF History!append
  <2>2. [History!NoJob EXCEPT !.phase = "open", !.entry = e].phase = "open"
    BY DEF History!NoJob
  <2> QED BY <1>s, <1>o, <2>1, <2>2
<1>3. ASSUME NEW c \in Clients, History!clear_all(c) PROVE Scans'
  <2>1. [History!NoJob EXCEPT !.phase = "clear", !.due = History!FilesThere].phase = "clear"
    BY DEF History!NoJob
  <2> QED BY <1>3, <1>s, <1>o, <2>1 DEF History!clear_all
<1>4. ASSUME NEW c \in Clients, History!OpenEntry(c) \/ History!WriteEntry(c) \/ History!RenameEntry(c)
      PROVE  Scans'
  <2>1. PICK j : History!Set(c, j) /\ j.phase \in {"write", "rename", "trim", "idle"}
    BY <1>4, <1>r DEF History!OpenEntry, History!WriteEntry, History!RenameEntry, History!Ends,
      History!NoJob, Request
  <2> QED BY <1>s, <1>o, <2>1
<1>5. ASSUME NEW c \in Clients, History!TrimBegin(c) PROVE Scans'
  <2>1. Scanned(History!LoadAll(job[c], "trim scan"))
    BY <1>f, <1>r DEF Scanned, History!LoadAll, Request
  <2> QED BY <1>5, <1>s, <2>1 DEF History!TrimBegin
<1>6. ASSUME NEW c \in Clients, History!ReadEntry(c) PROVE Scans'
  <2>1. PICK f \in job[c].due :
          \/ History!Set(c, [job[c] EXCEPT !.due = job[c].due \ {f}, !.seen = job[c].seen \cup {f}])
          \/ History!Set(c, [job[c] EXCEPT !.phase = "done", !.due = {}, !.ok = FALSE])
          \/ History!Set(c, [job[c] EXCEPT !.due = job[c].due \ {f}])
    BY <1>6 DEF History!ReadEntry
  <2>2. job[c].phase \in {"list", "trim scan"} /\ OnePerEntry(job[c].due \cup job[c].seen)
    BY <1>6 DEF History!ReadEntry, Scans, Scanned
  <2>3. Scanned([job[c] EXCEPT !.due = job[c].due \ {f}, !.seen = job[c].seen \cup {f}])
    <3>1. PICK j : j = [job[c] EXCEPT !.due = job[c].due \ {f}, !.seen = job[c].seen \cup {f}]
      OBVIOUS
    <3>2. j.phase = job[c].phase /\ j.due \cup j.seen = job[c].due \cup job[c].seen
      BY <1>r, <3>1 DEF Request
    <3>3. Scanned(j)
      BY <2>2, <3>2 DEF Scanned
    <3> QED BY <3>1, <3>3
  <2>4. Scanned([job[c] EXCEPT !.phase = "done", !.due = {}, !.ok = FALSE])
    BY <1>r DEF Scanned, Request
  <2>5. Scanned([job[c] EXCEPT !.due = job[c].due \ {f}])
    BY <1>r, <2>2 DEF Scanned, OnePerEntry, Request
  <2> QED BY <1>s, <2>1, <2>3, <2>4, <2>5
<1>7. ASSUME NEW c \in Clients, History!Loaded(c) PROVE Scans'
  <2>1. \/ History!Set(c, [job[c] EXCEPT !.phase = "done"])
        \/ /\ job[c].phase = "trim scan"
           /\ History!Set(c, [job[c] EXCEPT !.phase = "remove", !.due = History!Excess(job[c].seen)])
    BY <1>7 DEF History!Loaded
  <2>2. Scanned([job[c] EXCEPT !.phase = "done"])
    BY <1>r DEF Scanned, Request
  <2>3. ASSUME job[c].phase = "trim scan"
        PROVE  Scanned([job[c] EXCEPT !.phase = "remove", !.due = History!Excess(job[c].seen)])
    <3>1. OnePerEntry(job[c].seen)
      BY <2>3 DEF Scans, Scanned, OnePerEntry
    <3> QED BY <1>r, <3>1 DEF Scanned, Request
  <2> QED BY <1>s, <2>1, <2>2, <2>3
<1>8. ASSUME NEW c \in Clients, History!RemoveFile(c) PROVE Scans'
  <2>1. PICK f \in job[c].due :
          \/ History!Set(c, [job[c] EXCEPT !.due = job[c].due \ {f}])
          \/ History!Set(c, [job[c] EXCEPT !.phase = "done", !.due = {}, !.ok = FALSE])
    BY <1>8 DEF History!RemoveFile
  <2>2. job[c].phase \in {"remove", "clear"} /\ Scanned(job[c])
    BY <1>8 DEF History!RemoveFile, Scans
  <2>3. Scanned([job[c] EXCEPT !.phase = "done", !.due = {}, !.ok = FALSE])
    BY <1>r DEF Scanned, Request
  <2>4. Scanned([job[c] EXCEPT !.due = job[c].due \ {f}])
    BY <1>r, <2>2 DEF Scanned, Request
  <2> QED BY <1>s, <2>1, <2>3, <2>4
<1>9. ASSUME NEW c \in Clients, History!Removed(c) \/ History!Reply(c) PROVE Scans'
  <2>1. PICK j : History!Set(c, j) /\ j.phase \in {"done", "idle"}
    BY <1>9, <1>r DEF History!Removed, History!Reply, History!Ends, History!NoJob, Request
  <2> QED BY <1>s, <1>o, <2>1
<1>10. CASE History!HistoryCrash
  BY <1>10, <1>o DEF History!HistoryCrash, History!NoJob, Scans
<1> QED
  BY <1>0, <1>1, <1>2, <1>3, <1>4, <1>5, <1>6, <1>7, <1>8, <1>9, <1>10 DEF History!Next,
    History!vars, History!delete

\* What a trimming takes away had as many newer entries as the limit.
LEMMA TrimTakesOldest ==
  ASSUME HistoryConstants, HistoryTyped, Scans, [History!Next]_(History!vars)
  PROVE  History!TrimSparesNewest
<1> SUFFICES ASSUME NEW c \in Clients, NEW e \in kept \ kept', job[c].phase = "remove", job'[c] # job[c]
             PROVE  Cardinality({f \in job[c].seen : f[1] > e}) >= HistoryMax
  BY SameCardinality DEF History!TrimSparesNewest
<1> USE DEF HistoryTyped
<1> DEFINE seen == job[c].seen
           newer == {f \in seen : f[1] > e}
<1>1. \A d \in Clients : History!RemoveFile(d) => d = c
  BY DEF History!RemoveFile, History!Set
<1>2. History!RemoveFile(c)
  BY <1>1 DEF History!Next, History!vars, History!list, History!append, History!delete,
    History!clear_all, History!Arrive, History!OpenEntry, History!WriteEntry, History!RenameEntry,
    History!TrimBegin, History!ReadEntry, History!Loaded, History!Removed, History!Reply,
    History!HistoryCrash, History!Set
<1>3. PICK f \in job[c].due : kept' = kept \ {f[1]}
  BY <1>2 DEF History!RemoveFile
<1>4. f \in History!Excess(seen) /\ OnePerEntry(seen) /\ f[1] = e
  BY <1>3 DEF Scans, Scanned
<1>r. job[c] \in Request
  OBVIOUS
<1>5. IsFiniteSet(seen) /\ seen \subseteq FileNames /\ \A g \in seen : g[1] \in Nat
  <2>1. seen \subseteq FileNames
    BY <1>r DEF Request
  <2> QED BY <2>1 DEF FileNames, HistoryConstants
<1>6. {g \in seen : g[1] >= f[1]} = newer \cup {f} /\ f \notin newer
  BY <1>4, <1>5, SameCardinality DEF History!Excess, OnePerEntry, HistoryConstants
<1>7. IsFiniteSet(newer)
  BY <1>5, FS_Subset
<1>8. Cardinality(newer \cup {f}) = Cardinality(newer) + 1 /\ Cardinality(newer) \in Nat
  BY <1>6, <1>7, FS_AddElement, FS_CardinalityType
<1>9. Cardinality(newer \cup {f}) > HistoryMax
  BY <1>4, <1>6, SameCardinality DEF History!Excess
<1> QED BY <1>8, <1>9 DEF HistoryConstants

\* One of finitely many entries is the oldest.
LEMMA LeastEntry ==
  ASSUME NEW S \in SUBSET Nat, S # {}
  PROVE  \E m \in S : \A e \in S : m <= e
<1>1. S \subseteq Nat /\ S # {}
  OBVIOUS
<1>2. PICK m \in S : \A e \in S : <<e, m>> \notin OpToRel(<, Nat)
  BY <1>1, WFMin, NatLessThanWellFounded
<1>3. \A e \in S : ~(e < m)
  BY <1>2 DEF OpToRel
<1> QED BY <1>3

\* What is left of few entries is few.
LEMMA FewLeft ==
  ASSUME HistoryConstants, NEW S, IsFiniteSet(S), NEW T \in SUBSET S, NEW n \in Nat, Cardinality(S) <= n
  PROVE  Cardinality(T) <= n /\ IsFiniteSet(T)
BY FS_Subset, FS_CardinalityType

\* Trimming a clean history that is one above the limit takes it below.
LEMMA TrimmingSuffices ==
  ASSUME HistoryConstants, HistoryTyped, Clean, Cardinality(kept) <= HistoryMax + 1
  PROVE  Few(kept \ Entries(History!Excess(History!FilesThere)))
<1> DEFINE gone == Entries(History!Excess(History!FilesThere))
<1>1. kept \subseteq Nat /\ IsFiniteSet(kept) /\ HistoryMax \in Nat /\ Cardinality(kept) \in Nat
  BY FS_CardinalityType DEF HistoryTyped, HistoryConstants
<1>2. CASE Cardinality(kept) <= HistoryMax
  <2>1. kept \ gone \in SUBSET kept
    OBVIOUS
  <2> QED BY <1>1, <1>2, <2>1, FewLeft DEF Few
<1>3. CASE Cardinality(kept) = HistoryMax + 1
  <2>1. kept # {}
    BY <1>1, <1>3, FS_EmptySet
  <2>2. PICK m \in kept : \A e \in kept : m <= e
    BY <1>1, <2>1, LeastEntry
  <2>3. History!FilesThere = {<<e, "json">> : e \in kept}
    BY FilesTyped
  <2>4. {g \in History!FilesThere : g[1] >= m} = History!FilesThere
    BY <1>1, <2>2, <2>3
  <2>5. Cardinality(History!FilesThere) = Cardinality(kept)
    <3> DEFINE name == [e \in kept |-> <<e, "json">>]
    <3>1. name \in [kept -> History!FilesThere]
      BY <2>3
    <3>2. \A d, e \in kept : name[d] = name[e] => d = e
      OBVIOUS
    <3>3. \A f \in History!FilesThere : \E e \in kept : name[e] = f
      BY <2>3
    <3>4. name \in Bijection(kept, History!FilesThere)
      <4> HIDE DEF name
      <4> QED BY <3>1, <3>2, <3>3 DEF Bijection, Injection, Surjection, IsInjective
    <3> QED BY <1>1, <3>4, FS_Bijection DEF ExistsBijection
  <2>6. <<m, "json">> \in History!Excess(History!FilesThere)
    BY <1>1, <1>3, <2>3, <2>4, <2>5, SameCardinality DEF History!Excess
  <2>7. m \in gone
    BY <2>6 DEF Entries
  <2>8. Cardinality(kept \ {m}) = HistoryMax /\ IsFiniteSet(kept \ {m})
    BY <1>1, <1>3, <2>2, FS_RemoveElement
  <2>9. kept \ gone \in SUBSET (kept \ {m})
    BY <2>7
  <2> QED BY <1>1, <2>8, <2>9, FewLeft DEF Few
<1> QED BY <1>1, <1>2, <1>3 DEF HistoryTyped

\* While requests come one at a time each knows what it finds.
LEMMA TidyStays ==
  ASSUME HistoryConstants, HistoryTyped, Apart, Tidy, [History!Next]_(History!vars)
  PROVE  Tidy'
<1> SUFFICES ASSUME ~untidy' PROVE Tidy'
  BY DEF Tidy
<1> USE DEF HistoryTyped
<1>u. ~untidy
  BY DEF History!Next, History!vars, History!list, History!append, History!delete,
    History!clear_all, History!Arrive, History!OpenEntry, History!WriteEntry, History!RenameEntry,
    History!TrimBegin, History!ReadEntry, History!Loaded, History!RemoveFile, History!Removed,
    History!Reply, History!HistoryCrash
<1>k. /\ IsFiniteSet(kept) /\ HistoryMax \in Nat /\ HistoryMax + 1 \in Nat
      /\ \A S \in SUBSET kept : Few(kept) => Few(S)
      /\ \A S \in SUBSET kept : Cardinality(kept) <= HistoryMax + 1 => Cardinality(S) <= HistoryMax + 1
  <2>1. IsFiniteSet(kept) /\ HistoryMax \in Nat /\ HistoryMax + 1 \in Nat
    BY DEF HistoryConstants
  <2>2. ASSUME NEW S \in SUBSET kept, Few(kept) PROVE Few(S)
    BY <2>1, <2>2, FewLeft DEF Few
  <2>3. ASSUME NEW S \in SUBSET kept, Cardinality(kept) <= HistoryMax + 1
        PROVE  Cardinality(S) <= HistoryMax + 1
    BY <2>1, <2>3, FewLeft
  <2> QED BY <2>1, <2>2, <2>3
<1>r. \A c \in Clients : job[c] \in Request
  OBVIOUS
<1>i. ASSUME NEW c \in Clients, job[c].phase # "idle"
      PROVE  (\A d \in Clients \ {c} : job[d].phase = "idle") /\ TidyJob(job[c])
  BY <1>i, <1>u DEF Tidy, AtWork
<1>a. ASSUME NEW c \in Clients, History!Arrive(c)
      PROVE  /\ \A d \in Clients : job[d].phase = "idle"
             /\ Clean /\ Few(kept) /\ UNCHANGED <<kept, blank, staged>>
  BY <1>a, <1>u DEF History!Arrive, Tidy, AtWork
<1>s. ASSUME NEW c \in Clients, NEW j, History!Set(c, j),
             \A d \in Clients \ {c} : job[d].phase = "idle",
             \/ j.phase = "idle" /\ Clean' /\ Few(kept)'
             \/ j.phase # "idle" /\ TidyJob(j)'
      PROVE  Tidy'
  <2>1. job'[c] = j /\ \A d \in Clients \ {c} : job'[d].phase = "idle"
    BY <1>s DEF History!Set
  <2> QED BY <1>s, <2>1 DEF Tidy, AtWork
<1>0. CASE UNCHANGED History!vars
  BY <1>0, <1>u DEF History!vars, Tidy, AtWork, TidyJob, Clean, Few, History!FilesThere
<1>1. ASSUME NEW c \in Clients, History!list(c) PROVE Tidy'
  <2>1. PICK j : j = History!LoadAll(History!NoJob, "list")
    OBVIOUS
  <2>2. j.phase = "list" /\ j.ok /\ j.due = History!FilesThere
    BY <2>1 DEF History!LoadAll, History!NoJob
  <2>3. Clean' /\ Few(kept)' /\ History!FilesThere' = History!FilesThere
    BY <1>1, <1>a DEF History!list, Clean, Few, History!FilesThere
  <2>4. TidyJob(j)'
    BY <2>2, <2>3 DEF TidyJob
  <2> QED BY <1>1, <1>a, <1>s, <2>1, <2>2, <2>4 DEF History!list
<1>2. ASSUME NEW c \in Clients, History!append(c) PROVE Tidy'
  <2>1. PICK e \in EntryIds : History!Set(c, [History!NoJob EXCEPT !.phase = "open", !.entry = e])
    BY <1>2 DEF History!append
  <2>2. PICK j : j = [History!NoJob EXCEPT !.phase = "open", !.entry = e]
    OBVIOUS
  <2>3. j.phase = "open" /\ j.ok
    BY <2>2 DEF History!NoJob
  <2>4. Clean' /\ Few(kept)' /\ \A d \in Clients : job[d].phase = "idle"
    BY <1>2, <1>a DEF History!append, Clean, Few
  <2>5. TidyJob(j)'
    BY <2>3, <2>4 DEF TidyJob
  <2> QED BY <1>s, <2>1, <2>2, <2>3, <2>4, <2>5
<1>3. ASSUME NEW c \in Clients, History!clear_all(c) PROVE Tidy'
  <2>1. PICK j : j = [History!NoJob EXCEPT !.phase = "clear", !.due = History!FilesThere]
    OBVIOUS
  <2>2. j.phase = "clear" /\ j.ok /\ j.due = History!FilesThere
    BY <2>1 DEF History!NoJob
  <2>3. Clean' /\ Few(kept)' /\ History!FilesThere' = History!FilesThere
    BY <1>3, <1>a DEF History!clear_all, Clean, Few, History!FilesThere
  <2>4. TidyJob(j)'
    BY <2>2, <2>3 DEF TidyJob
  <2> QED BY <1>3, <1>a, <1>s, <2>1, <2>2, <2>4 DEF History!clear_all
<1>4. ASSUME NEW c \in Clients, History!delete(c) PROVE Tidy'
  <2>1. \A d \in Clients : job[d].phase = "idle"
    BY <1>4, <1>u DEF History!delete
  <2>2. Clean /\ Few(kept)
    BY <1>u, <2>1 DEF Tidy, AtWork
  <2>3. kept' \in SUBSET kept /\ UNCHANGED <<blank, staged, job>>
    BY <1>4 DEF History!delete
  <2>4. Clean' /\ Few(kept')
    BY <1>k, <2>2, <2>3 DEF Clean
  <2> QED BY <2>1, <2>3, <2>4 DEF Tidy, AtWork, Few
<1>5. ASSUME NEW c \in Clients, History!OpenEntry(c) PROVE Tidy'
  <2>1. PICK j : j = [job[c] EXCEPT !.phase = "write"]
    OBVIOUS
  <2>2. TidyJob(job[c]) /\ job[c].phase = "open" /\ \A d \in Clients \ {c} : job[d].phase = "idle"
    BY <1>5, <1>i DEF History!OpenEntry
  <2>3. j.phase = "write" /\ j.ok /\ j.entry = job[c].entry
    BY <1>r, <2>1, <2>2 DEF Request, TidyJob
  <2>4. blank' = {j.entry} /\ staged' = {} /\ kept' = kept /\ Few(kept)
    BY <1>5, <2>2, <2>3 DEF History!OpenEntry, TidyJob, Clean
  <2>5. TidyJob(j)'
    BY <2>3, <2>4 DEF TidyJob, Few
  <2> QED BY <1>5, <1>s, <2>1, <2>2, <2>3, <2>5 DEF History!OpenEntry
<1>6. ASSUME NEW c \in Clients, History!WriteEntry(c) PROVE Tidy'
  <2>1. PICK j : j = [job[c] EXCEPT !.phase = "rename"]
    OBVIOUS
  <2>2. TidyJob(job[c]) /\ job[c].phase = "write" /\ \A d \in Clients \ {c} : job[d].phase = "idle"
    BY <1>6, <1>i DEF History!WriteEntry
  <2>3. j.phase = "rename" /\ j.ok /\ j.entry = job[c].entry
    BY <1>r, <2>1, <2>2 DEF Request, TidyJob
  <2>4. blank' = {} /\ staged' = {j.entry} /\ kept' = kept /\ Few(kept)
    BY <1>6, <2>2, <2>3 DEF History!WriteEntry, TidyJob
  <2>5. TidyJob(j)'
    BY <2>3, <2>4 DEF TidyJob, Few
  <2> QED BY <1>6, <1>s, <2>1, <2>2, <2>3, <2>5 DEF History!WriteEntry
<1>7. ASSUME NEW c \in Clients, History!RenameEntry(c) PROVE Tidy'
  <2>1. PICK j : j = [job[c] EXCEPT !.phase = "trim"]
    OBVIOUS
  <2>2. TidyJob(job[c]) /\ job[c].phase = "rename" /\ \A d \in Clients \ {c} : job[d].phase = "idle"
    BY <1>7, <1>i DEF History!RenameEntry
  <2>3. j.phase = "trim" /\ j.ok
    BY <1>r, <2>1, <2>2 DEF Request, TidyJob
  <2>4. staged = {job[c].entry} /\ blank = {} /\ Few(kept)
    BY <2>2 DEF TidyJob
  <2>5. staged' = {} /\ blank' = {} /\ kept' = kept \cup {job[c].entry} /\ History!Set(c, j)
    BY <1>7, <2>1, <2>4 DEF History!RenameEntry
  <2>6. Cardinality(kept') <= HistoryMax + 1
    <3>1. Cardinality(kept) \in Nat /\ Cardinality(kept) <= HistoryMax
      BY <1>k, <2>4, FS_CardinalityType DEF Few
    <3>2. \/ Cardinality(kept \cup {job[c].entry}) = Cardinality(kept) + 1
          \/ Cardinality(kept \cup {job[c].entry}) = Cardinality(kept)
      BY <1>k, FS_AddElement
    <3> QED BY <1>k, <2>5, <3>1, <3>2
  <2>7. TidyJob(j)'
    BY <2>3, <2>5, <2>6 DEF TidyJob, Clean
  <2> QED BY <1>s, <2>2, <2>3, <2>5, <2>7
<1>8. ASSUME NEW c \in Clients, History!TrimBegin(c) PROVE Tidy'
  <2>1. PICK j : j = History!LoadAll(job[c], "trim scan")
    OBVIOUS
  <2>2. TidyJob(job[c]) /\ job[c].phase = "trim" /\ \A d \in Clients \ {c} : job[d].phase = "idle"
    BY <1>8, <1>i DEF History!TrimBegin
  <2>3. j.phase = "trim scan" /\ j.ok /\ j.due \cup j.seen = History!FilesThere
    BY <1>r, <2>1, <2>2 DEF Request, TidyJob, History!LoadAll
  <2>4. Clean' /\ Cardinality(kept') <= HistoryMax + 1 /\ History!FilesThere' = History!FilesThere
    BY <1>8, <2>2 DEF History!TrimBegin, TidyJob, Clean, History!FilesThere
  <2>5. TidyJob(j)'
    BY <2>3, <2>4 DEF TidyJob
  <2> QED BY <1>8, <1>s, <2>1, <2>2, <2>3, <2>5 DEF History!TrimBegin
<1>9. ASSUME NEW c \in Clients, History!ReadEntry(c) PROVE Tidy'
  <2>1. TidyJob(job[c]) /\ \A d \in Clients \ {c} : job[d].phase = "idle"
    BY <1>9, <1>i DEF History!ReadEntry
  <2>2. job[c].phase \in {"list", "trim scan"} /\ Clean /\ job[c].due \subseteq History!FilesThere
    BY <1>9, <2>1 DEF History!ReadEntry, TidyJob
  <2>3. PICK f \in job[c].due :
          History!Set(c, [job[c] EXCEPT !.due = job[c].due \ {f}, !.seen = job[c].seen \cup {f}])
    BY <1>9, <2>2 DEF History!ReadEntry, Clean
  <2>4. PICK j : j = [job[c] EXCEPT !.due = job[c].due \ {f}, !.seen = job[c].seen \cup {f}]
    OBVIOUS
  <2>5. /\ j.phase = job[c].phase /\ j.ok = job[c].ok
        /\ j.due \cup j.seen = job[c].due \cup job[c].seen /\ j.due \subseteq job[c].due
    BY <1>r, <2>4 DEF Request
  <2>6. UNCHANGED <<kept, blank, staged, History!FilesThere>>
    BY <1>9 DEF History!ReadEntry, History!FilesThere
  <2>7. TidyJob(j)'
    BY <2>1, <2>2, <2>5, <2>6 DEF TidyJob, Clean, Few
  <2> QED BY <1>s, <2>1, <2>2, <2>3, <2>4, <2>5, <2>7
<1>10. ASSUME NEW c \in Clients, History!Loaded(c) PROVE Tidy'
  <2>1. TidyJob(job[c]) /\ \A d \in Clients \ {c} : job[d].phase = "idle"
    BY <1>10, <1>i DEF History!Loaded
  <2>2. UNCHANGED <<kept, blank, staged, History!FilesThere>>
    BY <1>10 DEF History!Loaded, History!FilesThere
  <2>3. CASE job[c].phase = "list"
    <3>1. PICK j : j = [job[c] EXCEPT !.phase = "done"]
      OBVIOUS
    <3>2. j.phase = "done" /\ j.ok
      BY <1>r, <2>1, <3>1 DEF Request, TidyJob
    <3>3. TidyJob(j)'
      BY <2>1, <2>2, <2>3, <3>2 DEF TidyJob, Clean, Few
    <3> QED BY <1>10, <1>s, <2>1, <2>3, <3>1, <3>2, <3>3 DEF History!Loaded
  <2>4. CASE job[c].phase = "trim scan"
    <3>1. PICK j : j = [job[c] EXCEPT !.phase = "remove", !.due = History!Excess(job[c].seen)]
      OBVIOUS
    <3>2. job[c].seen = History!FilesThere /\ Clean /\ Cardinality(kept) <= HistoryMax + 1
      BY <1>10, <2>1, <2>4 DEF History!Loaded, TidyJob
    <3>3. j.phase = "remove" /\ j.ok /\ j.due = History!Excess(History!FilesThere)
      BY <1>r, <2>1, <3>1, <3>2 DEF Request, TidyJob
    <3>4. Few(kept \ Entries(j.due))
      BY <3>2, <3>3, TrimmingSuffices
    <3>5. TidyJob(j)'
      BY <2>2, <3>2, <3>3, <3>4 DEF TidyJob, Clean, Few
    <3> QED BY <1>10, <1>s, <2>1, <2>4, <3>1, <3>3, <3>5 DEF History!Loaded
  <2> QED BY <1>10, <2>3, <2>4 DEF History!Loaded
<1>11. ASSUME NEW c \in Clients, History!RemoveFile(c) PROVE Tidy'
  <2>1. TidyJob(job[c]) /\ \A d \in Clients \ {c} : job[d].phase = "idle"
    BY <1>11, <1>i DEF History!RemoveFile
  <2>2. Clean /\ History!FilesThere = {<<e, "json">> : e \in kept}
    BY <1>11, <2>1, FilesTyped DEF History!RemoveFile, TidyJob
  <2>3. job[c].phase = "clear" => job[c].due \subseteq History!FilesThere
    BY <2>1 DEF TidyJob
  <2>4. PICK f \in job[c].due :
          /\ History!Set(c, [job[c] EXCEPT !.due = job[c].due \ {f}])
          /\ kept' = kept \ {f[1]} /\ UNCHANGED <<blank, staged>>
    <3>1. job[c].phase \in {"remove", "clear"}
      BY <1>11 DEF History!RemoveFile
    <3>2. \A f \in History!FilesThere : f[2] = "json"
      BY <2>2
    <3> QED BY <1>11, <2>3, <3>1, <3>2 DEF History!RemoveFile
  <2>5. PICK j : j = [job[c] EXCEPT !.due = job[c].due \ {f}]
    OBVIOUS
  <2>6. j.phase = job[c].phase /\ j.phase \in {"remove", "clear"} /\ j.ok /\ j.due = job[c].due \ {f}
    BY <1>r, <1>11, <2>1, <2>5 DEF Request, TidyJob, History!RemoveFile
  <2>7. Clean'
    BY <2>2, <2>4 DEF Clean
  <2>8. CASE j.phase = "clear"
    <3>1. Few(kept')
      BY <1>k, <2>1, <2>4, <2>6, <2>8 DEF TidyJob
    <3>2. j.due \subseteq History!FilesThere'
      <4>1. History!FilesThere' = {<<e, "json">> : e \in kept'}
        BY <2>7 DEF Clean, History!FilesThere
      <4>2. job[c].due \subseteq {<<e, "json">> : e \in kept}
        BY <2>2, <2>3, <2>6, <2>8
      <4> QED BY <2>4, <2>6, <4>1, <4>2
    <3>3. TidyJob(j)'
      BY <2>6, <2>7, <2>8, <3>1, <3>2 DEF TidyJob, Few
    <3> QED BY <1>s, <2>1, <2>4, <2>5, <2>6, <3>3
  <2>9. CASE j.phase = "remove"
    <3>1. Cardinality(kept') <= HistoryMax + 1
      BY <1>k, <2>1, <2>4, <2>6, <2>9 DEF TidyJob
    <3>2. Few(kept \ Entries(job[c].due))
      BY <2>1, <2>6, <2>9 DEF TidyJob
    <3>3. kept' \ Entries(j.due) \subseteq kept \ Entries(job[c].due)
      BY <2>4, <2>6 DEF Entries
    <3>4. IsFiniteSet(kept \ Entries(job[c].due))
      BY <1>k, FS_Subset
    <3>5. Few(kept' \ Entries(j.due))
      BY <1>k, <3>2, <3>3, <3>4, FewLeft DEF Few
    <3>6. TidyJob(j)'
      BY <2>6, <2>7, <2>9, <3>1, <3>5 DEF TidyJob, Few
    <3> QED BY <1>s, <2>1, <2>4, <2>5, <2>6, <3>6
  <2> QED BY <2>6, <2>8, <2>9
<1>12. ASSUME NEW c \in Clients, History!Removed(c) PROVE Tidy'
  <2>1. PICK j : j = [job[c] EXCEPT !.phase = "done"]
    OBVIOUS
  <2>2. TidyJob(job[c]) /\ \A d \in Clients \ {c} : job[d].phase = "idle"
    BY <1>12, <1>i DEF History!Removed
  <2>3. j.phase = "done" /\ j.ok
    BY <1>r, <2>1, <2>2 DEF Request, TidyJob
  <2>4. Clean /\ Few(kept)
    <3>1. job[c].phase \in {"remove", "clear"} /\ job[c].due = {}
      BY <1>12 DEF History!Removed
    <3>2. kept \ Entries({}) = kept
      BY DEF Entries
    <3> QED BY <2>2, <3>1, <3>2 DEF TidyJob
  <2>5. TidyJob(j)'
    BY <1>12, <2>3, <2>4 DEF TidyJob, History!Removed, Clean, Few
  <2> QED BY <1>12, <1>s, <2>1, <2>2, <2>3, <2>5 DEF History!Removed
<1>13. ASSUME NEW c \in Clients, History!Reply(c) PROVE Tidy'
  <2>1. TidyJob(job[c]) /\ job[c].phase = "done" /\ \A d \in Clients \ {c} : job[d].phase = "idle"
    BY <1>13, <1>i DEF History!Reply
  <2>2. Clean' /\ Few(kept)'
    BY <1>13, <2>1 DEF History!Reply, TidyJob, Clean, Few
  <2>3. History!NoJob.phase = "idle" /\ History!Set(c, History!NoJob)
    BY <1>13 DEF History!NoJob, History!Reply, History!Ends
  <2> QED BY <1>s, <2>1, <2>2, <2>3
<1>14. CASE History!HistoryCrash
  BY <1>14 DEF History!HistoryCrash
<1> QED
  BY <1>0, <1>1, <1>2, <1>3, <1>4, <1>5, <1>6, <1>7, <1>8, <1>9, <1>10, <1>11, <1>12, <1>13, <1>14
    DEF History!Next

\* The directory begins empty, and nobody is at work.
LEMMA HistoryInvStarts ==
  ASSUME HistoryConstants, History!Init
  PROVE  HistoryInv
<1>1. Cardinality({}) = 0 /\ IsFiniteSet({})
  BY FS_EmptySet
<1>2. \A c \in Clients : job[c] = History!NoJob /\ History!NoJob \in Request
  BY DEF History!Init, History!NoJob, Request, HistoryPhases
<1>3. HistoryTyped
  BY <1>1, <1>2 DEF History!Init, HistoryTyped, History!NoJob
<1>4. Apart /\ Scans
  BY <1>2 DEF History!Init, History!NoJob, Apart, Scans, Scanned, Writing
<1>5. AtWork = {}
  BY <1>2 DEF AtWork, History!NoJob
<1>6. Tidy
  BY <1>1, <1>5 DEF History!Init, Tidy, Clean, Few, HistoryConstants
<1> QED BY <1>3, <1>4, <1>6 DEF HistoryInv

\* What the requests know of the directory bounds it.
LEMMA TidyIsBounded ==
  ASSUME HistoryConstants, HistoryInv
  PROVE  History!HistoryBounded
<1> SUFFICES ASSUME ~untidy PROVE History!HistoryBounded
  BY SameCardinality DEF History!HistoryBounded
<1> USE DEF HistoryInv
<1>1. Cardinality(kept) \in Nat /\ HistoryMax \in Nat
  BY FS_CardinalityType DEF HistoryTyped, HistoryConstants
<1>2. ASSUME NEW c \in Clients PROVE job[c].ok
  <2>1. CASE job[c].phase = "idle"
    BY <2>1 DEF Apart, History!NoJob
  <2>2. CASE job[c].phase # "idle"
    BY <2>2 DEF Tidy, AtWork, TidyJob
  <2> QED BY <2>1, <2>2
<1>3. CASE AtWork = {}
  <2>1. Cardinality(AtWork) = 0 /\ Clean /\ Few(kept)
    BY <1>3, FS_EmptySet DEF Tidy
  <2> QED BY <1>1, <1>2, <2>1, SameCardinality DEF History!HistoryBounded, AtWork, Few, Clean
<1>4. ASSUME NEW c \in AtWork PROVE History!HistoryBounded
  <2>1. AtWork = {c}
    BY DEF Tidy
  <2>2. Cardinality(AtWork) = 1
    BY <2>1, FS_Singleton
  <2>3. Cardinality(kept) <= HistoryMax + 1
    <3>1. TidyJob(job[c])
      BY <1>4 DEF Tidy
    <3>2. Cardinality(kept) <= HistoryMax \/ Cardinality(kept) <= HistoryMax + 1
      BY <3>1 DEF TidyJob, Few
    <3> QED BY <1>1, <3>2
  <2> QED BY <1>2, <1>4, <2>2, <2>3, SameCardinality DEF History!HistoryBounded, AtWork
<1> QED BY <1>3, <1>4

\* Requests that come one at a time leave the history within its limit and all succeed, and a
\* trimming removes the oldest, whatever else is at work (append, trim_to_limit), for any
\* clients, entries and limit.
THEOREM HistoryIsTrimmed == ASSUME HistoryConstants PROVE History!Spec => History!HistoryTrimmed
<1>1. History!Init => HistoryInv
  BY HistoryInvStarts
<1>2. HistoryInv /\ [History!Next]_(History!vars) => HistoryInv'
  BY HistoryTypes, ApartStays, ScansStay, TidyStays DEF HistoryInv
<1>3. HistoryInv' => History!HistoryBounded'
  <2>1. HistoryInv => History!HistoryBounded
    BY TidyIsBounded
  <2> QED BY <2>1, PTL
<1>4. HistoryInv /\ HistoryInv' /\ [History!Next]_(History!vars)
      => [History!HistoryBounded' /\ History!TrimSparesNewest]_(History!vars)
  BY <1>3, TrimTakesOldest DEF HistoryInv
<1> QED BY <1>1, <1>2, <1>4, PTL
  DEF History!Spec, History!HistoryTrimmed

\* The listings of the history name entries and their temporary files only, and what is kept,
\* blank, staged or removed are entries (append, trim_to_limit, clear_all), for any clients,
\* entries and limit.
THEOREM HistoryTypeCorrect ==
  ASSUME HistoryConstants PROVE History!Spec => []History!TypeOK
<1>1. History!Init => HistoryInv
  BY HistoryInvStarts
<1>2. HistoryInv /\ [History!Next]_(History!vars) => HistoryInv'
  BY HistoryTypes, ApartStays, ScansStay, TidyStays DEF HistoryInv
<1>3. HistoryInv => History!TypeOK
  <2> SUFFICES ASSUME HistoryTyped PROVE History!TypeOK
    BY DEF HistoryInv
  <2>1. ASSUME NEW c \in Clients PROVE job[c].seen \subseteq FileNames
    BY <2>1 DEF HistoryTyped, Request
  <2> QED BY <2>1 DEF HistoryTyped, History!TypeOK, FileNames
<1> QED BY <1>1, <1>2, <1>3, PTL DEF History!Spec

=============================================================================
