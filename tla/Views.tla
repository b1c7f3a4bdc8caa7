-------------------------------- MODULE Views --------------------------------
(* Lookup of nodes, Browse and TranslateBrowsePathsToNodeIds. node_id.c,      *)
(* mu_resolve_node of base_nodes.c, browse.c and view_handler.c. A behaviour  *)
(* takes one address space and answers one request.                           *)
EXTENDS Integers, SequencesExt, FiniteSetsExt

CONSTANTS
  Spaces,      \* address spaces: user, runtime and base nodes, dynamic references
  Browses,     \* Browse requests
  Paths,       \* paths to translate
  Ids,         \* the node ids looked up
  IndexCap,    \* MU_INTERN_MAX_ADDRESS_SPACE_NODES
  PoolSize     \* MU_DISPATCH_MAX_BROWSE_REFS

VARIABLES space, request, pool, results, path, found

vars == <<space, request, pool, results, path, found>>

NoNode == [id |-> <<-1>>, class |-> 0, name |-> "", refs |-> <<>>]

-----------------------------------------------------------------------------
(* A NodeId is <<namespace, identifier type, number or length>> followed by    *)
(* the bytes of a string: mu_nodeid_compare_direct compares in that order.     *)
RECURSIVE Compare(_, _)
Compare(a, b) ==
  IF a = <<>> /\ b = <<>> THEN 0
  ELSE IF a = <<>> THEN -1
  ELSE IF b = <<>> THEN 1
  ELSE IF a[1] # b[1] THEN a[1] - b[1]
  ELSE Compare(Tail(a), Tail(b))

(* One round of the insertion sort: node i goes behind every node not greater. *)
Inserted(nodes, order, i) ==
  LET before == {p \in DOMAIN order : Compare(nodes[order[p]].id, nodes[i].id) <= 0}
  IN InsertAt(order, IF before = {} THEN 1 ELSE Max(before) + 1, i)

(* mu_address_space_rebuild_index *)
Index(nodes) == FoldLeft(LAMBDA order, i : Inserted(nodes, order, i), <<>>, [i \in DOMAIN nodes |-> i])

Upper(mid) == mid

(* The binary search between positions left and right (excluded). *)
RECURSIVE Search(_, _, _, _, _)
Search(nodes, order, id, left, right) ==
  IF left >= right THEN NoNode
  ELSE LET mid == left + (right - left) \div 2
           c == Compare(nodes[order[mid]].id, id)
       IN IF c < 0 THEN Search(nodes, order, id, mid + 1, right)
          ELSE IF c > 0 THEN Search(nodes, order, id, left, Upper(mid))
          ELSE nodes[order[mid]]

FindLinear(nodes, id) ==
  LET at == {i \in DOMAIN nodes : nodes[i].id = id}
  IN IF at = {} THEN NoNode ELSE nodes[Min(at)]

(* mu_address_space_find_node with the index of the user's space *)
FindIndexed(nodes, id) ==
  IF Len(nodes) > IndexCap THEN FindLinear(nodes, id)
  ELSE Search(nodes, Index(nodes), id, 1, Len(nodes) + 1)

OrElse(n, m) == IF n # NoNode THEN n ELSE m

(* The base space is searched as if sorted, and again one by one on a miss. *)
FindBase(nodes, id) ==
  OrElse(Search(nodes, [i \in DOMAIN nodes |-> i], id, 1, Len(nodes) + 1), FindLinear(nodes, id))

(* mu_resolve_node *)
Resolve(s, id) ==
  OrElse(FindIndexed(s.user, id), OrElse(FindLinear(s.runtime, id), FindBase(s.base, id)))

-----------------------------------------------------------------------------
(* ref_type_supertype; 0 where the hierarchy ends. *)
Supertype(t) ==
  CASE t \in {32, 33} -> 31
    [] t \in 34..36 -> 33
    [] t \in 37..40 -> 32
    [] t \in {44, 45} -> 34
    [] t \in {46, 47} -> 44
    [] t = 48 -> 36
    [] OTHER -> 0

RECURSIVE IsSubtype(_, _)
IsSubtype(child, parent) == child = parent \/ (child # 0 /\ IsSubtype(Supertype(child), parent))

TypeMatches(d, r) ==
  IF d.type = 0 THEN TRUE ELSE IF d.subtypes THEN IsSubtype(r.type, d.type) ELSE r.type = d.type

(* direction: 0 forward, 1 inverse, 2 both *)
DirectionMatches(d, r) == ~(d.direction = 0 /\ ~r.forward) /\ ~(d.direction = 1 /\ r.forward)

ClassMatches(d, n) == n # NoNode /\ (d.classes = {} \/ n.class \in d.classes)

Described(r, n, mask) ==
  [node |-> n.id, type |-> IF "type" \in mask THEN r.type ELSE 0, name |-> IF "name" \in mask THEN n.name ELSE ""]

(* The references of a node that pass, its own and then the dynamic ones. *)
Passing(s, d) ==
  LET own == Resolve(s, d.node).refs
      all == own \o s.dynamic
      passes(r) == /\ r.source = d.node
                   /\ DirectionMatches(d, r) /\ TypeMatches(d, r)
                   /\ ClassMatches(d, Resolve(s, r.target))
  IN SelectSeq(all, passes)

(* Mutant: what a node cut short has used of the pool is not counted. *)
UsedAfterCut(used, n) == used

UsedAfter(used, n) == used + n

Refused(acc, status) == [acc EXCEPT !.results = Append(@, [status |-> status, from |-> 0, n |-> 0])]

(* The references found are described in the pool behind those of the nodes before, up to the limit. *)
Written(s, acc, mask, passing, limit) ==
  LET cut == Len(passing) > limit
      n == IF cut THEN limit ELSE Len(passing)
  IN [pool |-> [k \in 1..PoolSize |->
                  IF k \in acc.used + 1..acc.used + n
                  THEN LET r == passing[k - acc.used] IN Described(r, Resolve(s, r.target), mask)
                  ELSE acc.pool[k]],
      used |-> IF cut THEN UsedAfter(acc.used, n) ELSE acc.used + n,
      results |-> Append(acc.results, [status |-> IF cut THEN "NoContinuationPoints" ELSE "Good",
                                       from |-> acc.used, n |-> n])]

(* One round of mu_browse_process_with_user_index: acc holds the pool, what is used of it, the results. *)
BrowseNode(s, req, acc, d) ==
  LET room == PoolSize - acc.used
  IN CASE d.direction > 2 -> Refused(acc, "BrowseDirectionInvalid")
       [] d.direction <= 2 /\ Resolve(s, d.node) = NoNode -> Refused(acc, "NodeIdUnknown")
       [] OTHER -> Written(s, acc, d.mask, Passing(s, d), IF req.max > 0 THEN Min({req.max, room}) ELSE room)

EmptyPool == [k \in 1..PoolSize |-> [node |-> <<-1>>, type |-> 0, name |-> ""]]

Browse ==
  LET start == [pool |-> EmptyPool, used |-> 0, results |-> <<>>]
      refused == [k \in DOMAIN request.nodes |-> [status |-> "ViewIdUnknown", from |-> 0, n |-> 0]]
      done == FoldLeft(LAMBDA acc, d : BrowseNode(space, request, acc, d), start, request.nodes)
  IN /\ results = <<>> /\ request.nodes # <<>>
     /\ pool' = IF request.view # 0 THEN EmptyPool ELSE done.pool
     /\ results' = IF request.view # 0 THEN refused ELSE done.results
     /\ UNCHANGED <<space, request, path, found>>

-----------------------------------------------------------------------------
(* Whether reference r of the static space leads where element e of a path says. *)
Leads(s, e, r) ==
  /\ IF e.inverse THEN ~r.forward ELSE r.forward
  /\ IF e.subtypes THEN IsSubtype(r.type, e.type) ELSE r.type = e.type
  /\ FindIndexed(s.user, r.target) # NoNode
  /\ e.ns = 0 /\ FindIndexed(s.user, r.target).name = e.name

Followed(s, n, e) ==
  LET fit == {k \in DOMAIN n.refs : Leads(s, e, n.refs[k])}
  IN IF fit = {} THEN NoNode ELSE FindIndexed(s.user, n.refs[Min(fit)].target)

(* handle_translate_browse_paths for one path *)
Translate ==
  LET es == path.elements
      nameless == es # <<>> /\ Last(es).name = ""
      end == FoldLeft(LAMBDA n, e : Followed(space, n, e), FindIndexed(space.user, path.start), es)
  IN /\ found.status = "none" /\ request.nodes = <<>>
     /\ found' = IF nameless THEN [status |-> "BrowseNameInvalid", node |-> <<-1>>]
                 ELSE [status |-> IF end = NoNode THEN "NoMatch" ELSE "Good", node |-> end.id]
     /\ UNCHANGED <<space, request, pool, results, path>>

Init ==
  /\ space \in Spaces
  /\ \/ request \in Browses /\ path = [start |-> <<0>>, elements |-> <<>>]
     \/ request = [view |-> 0, max |-> 0, nodes |-> <<>>] /\ path \in Paths
  /\ pool = EmptyPool
  /\ results = <<>>
  /\ found = [status |-> "none", node |-> <<-1>>]

Next == Browse \/ Translate

Spec == Init /\ [][Next]_vars

-----------------------------------------------------------------------------
(* The index finds a node exactly where a search from one end to the other     *)
(* does, for numeric and string ids and for spaces beyond the index's size.    *)
LookupExact == \A id \in Ids : FindIndexed(space.user, id) = FindLinear(space.user, id)

(* Every result of a Browse still holds, when all are encoded, the first       *)
(* references that pass its own description, and says Good only when these are *)
(* all; the results share one pool.                                            *)
BrowseExact ==
  request.view = 0 =>
    \A i \in DOMAIN results :
      LET d == request.nodes[i]
          all == Passing(space, d)
          res == results[i]
      IN res.status \in {"Good", "NoContinuationPoints"} =>
           /\ \A k \in 1..res.n : pool[res.from + k] = Described(all[k], Resolve(space, all[k].target), d.mask)
           /\ res.status = "Good" <=> res.n = Len(all)

(* The nodes the elements of a path lead to, from any of a set of nodes. *)
Reached(S, e) ==
  {FindLinear(space.user, r.target) :
     r \in UNION {{n.refs[k] : k \in {k \in DOMAIN n.refs : Leads(space, e, n.refs[k])}} : n \in S}}

Branches(e) ==
  \E i \in DOMAIN space.user :
    Cardinality({k \in DOMAIN space.user[i].refs : Leads(space, e, space.user[i].refs[k])}) > 1

(* A translated path leads to a node that the path describes, and NoMatch      *)
(* means there is none unless some step could have gone two ways.              *)
TranslateExact ==
  LET ends == FoldLeft(Reached, {FindLinear(space.user, path.start)} \ {NoNode}, path.elements)
  IN /\ found.status = "Good" => \E n \in ends : n.id = found.node
     /\ found.status = "NoMatch" => ends = {} \/ \E k \in DOMAIN path.elements : Branches(path.elements[k])

(* Lookup, Browse and TranslateBrowsePaths answer what the plain definitions   *)
(* over the whole address space say: the sorted index, the shared pool of      *)
(* references and the walk along a path leave nothing out and add nothing.     *)
ViewsExact == LookupExact /\ BrowseExact /\ TranslateExact
=============================================================================
