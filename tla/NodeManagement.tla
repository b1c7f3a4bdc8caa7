---------------------------- MODULE NodeManagement ----------------------------
(* Nodes and references that clients add at run time, and the queries that    *)
(* list them. add_nodes.c, add_references.c, delete.c and query.c. A stored   *)
(* string lives in a buffer of the entry's own slot, so an entry that moves   *)
(* must take its bytes along: a table is the seats its entries point to and   *)
(* what is written there.                                                     *)
EXTENDS Integers, SequencesExt, FiniteSetsExt, Bags

CONSTANTS
  StaticIds,   \* the ids of the configured address space, in index order
  Ids,         \* the ids clients ask for; 0 asks the server to choose
  FirstAuto,   \* 1000, the first id the server chooses
  Names,       \* the names that fit their buffer
  MaxNodes,    \* MU_INTERN_MAX_DYNAMIC_NODES
  MaxRefs,     \* MU_INTERN_MAX_DYNAMIC_REFERENCES
  MaxPoints,   \* MU_INTERN_MAX_QUERY_CONTINUATION_POINTS
  PageSize,    \* the 16 data sets of a response
  MaxSteps     \* bound on the requests

VARIABLES
  nodes, refs, \* the dynamic nodes and references
  points,      \* next_index of every continuation point, 0 when it is free
  built,       \* whether a lookup has built user_address_space_index
  answer,      \* the last response
  granted,     \* what the requests so far have left behind: nodes ...
  linked,      \* ... and references
  steps

vars == <<nodes, refs, points, built, answer, granted, linked, steps>>

LongName == "long"
Unset == [id |-> 0, name |-> LongName]
NoRef == [source |-> 0, target |-> 0]
NoAnswer == [op |-> "none", asked |-> <<>>, got |-> <<>>]

Init ==
  /\ nodes = [seat |-> <<>>, store |-> [k \in 1..MaxNodes |-> Unset]]
  /\ refs = [seat |-> <<>>, store |-> [k \in 1..MaxRefs |-> NoRef]]
  /\ points = [k \in 1..MaxPoints |-> 0]
  /\ built = FALSE
  /\ answer = NoAnswer
  /\ granted = {}
  /\ linked = EmptyBag
  /\ steps = 0

Entry(t, i) == t.store[t.seat[i]]

Entries(t) == [i \in DOMAIN t.seat |-> Entry(t, i)]

(* An entry is appended into the buffers of the first free slot. *)
Added(t, e) == LET i == Len(t.seat) + 1 IN [seat |-> Append(t.seat, i), store |-> [t.store EXCEPT ![i] = e]]

(* Mutant: the record moves and its strings stay in the buffer of the slot it leaves. *)
MovedRecord(t, i, j) == [t EXCEPT !.seat[i] = t.seat[j]]

Moved(t, i, j) == [t EXCEPT !.store[i] = Entry(t, j)]

(* Removal by putting the last entry in the place of the one removed. *)
Removed(t, i) ==
  LET last == Len(t.seat)
      m == IF i = last THEN t ELSE Moved(t, i, last)
  IN [m EXCEPT !.seat = Front(m.seat)]

-----------------------------------------------------------------------------
NewId(t, it) == IF it.id = 0 THEN FirstAuto + Len(t.seat) ELSE it.id

Exists(t, id) == (\E k \in DOMAIN StaticIds : StaticIds[k] = id) \/ \E i \in DOMAIN t.seat : Entry(t, i).id = id

AddStatus(t, it) ==
  CASE it.class = 0 -> "NodeClassInvalid"
    [] Len(t.seat) >= MaxNodes -> "OutOfMemory"
    [] it.name \notin Names -> "OutOfMemory"
    [] Exists(t, NewId(t, it)) -> "NodeIdExists"
    [] OTHER -> "Good"

AddNode(acc, it) ==
  LET status == AddStatus(acc.t, it)
      id == NewId(acc.t, it)
  IN [t |-> IF status = "Good" THEN Added(acc.t, [id |-> id, name |-> it.name]) ELSE acc.t,
      got |-> Append(acc.got, [status |-> status, id |-> IF status = "Good" THEN id ELSE 0])]

Answered(op, asked, got) == answer' = [op |-> op, asked |-> asked, got |-> got]

Step == steps' = steps + 1

(* mu_add_nodes_process. Nothing is undone when the response does not fit. *)
AddNodes(items, fits) ==
  LET r == FoldLeft(AddNode, [t |-> nodes, got |-> <<>>], items)
      good == {k \in DOMAIN items : r.got[k].status = "Good"}
  IN /\ Step
     /\ nodes' = r.t
     /\ Answered("add", items, IF fits THEN r.got ELSE <<>>)
     /\ granted' = granted \union {[id |-> r.got[k].id, name |-> items[k].name] : k \in good}
     /\ UNCHANGED <<refs, points, built, linked>>

(* mu_add_references_process: neither end has to exist, and duplicates are kept. *)
AddReference(r) ==
  LET room == Len(refs.seat) < MaxRefs
  IN /\ Step
     /\ refs' = IF room THEN Added(refs, r) ELSE refs
     /\ linked' = IF room THEN linked (+) SetToBag({r}) ELSE linked
     /\ Answered("addReference", <<r>>, <<[status |-> IF room THEN "Good" ELSE "OutOfMemory", id |-> 0]>>)
     /\ UNCHANGED <<nodes, points, built, granted>>

Touches(r, id) == r.source = id \/ r.target = id

AfterRemoval(k) == k

PurgeStep(acc, id) ==
  IF acc.k > Len(acc.t.seat) THEN acc
  ELSE IF Touches(Entry(acc.t, acc.k), id) THEN [t |-> Removed(acc.t, acc.k), k |-> AfterRemoval(acc.k)]
  ELSE [acc EXCEPT !.k = acc.k + 1]

(* The loop over the references of a node that goes; every round removes or passes one. *)
Purged(t, id) == FoldLeft(LAMBDA acc, n : PurgeStep(acc, id), [t |-> t, k |-> 1], [n \in 1..Len(t.seat) |-> n]).t

DeleteNode(acc, it) ==
  LET at == {i \in DOMAIN acc.n.seat : Entry(acc.n, i).id = it.id}
  IN IF at = {} THEN [acc EXCEPT !.got = Append(acc.got, [status |-> "NodeIdUnknown", id |-> it.id])]
     ELSE [n |-> Removed(acc.n, Min(at)),
           r |-> IF it.references THEN Purged(acc.r, it.id) ELSE acc.r,
           got |-> Append(acc.got, [status |-> "Good", id |-> it.id])]

(* mu_delete_nodes_process *)
DeleteNodes(items, fits) ==
  LET r == FoldLeft(DeleteNode, [n |-> nodes, r |-> refs, got |-> <<>>], items)
      good == {k \in DOMAIN items : r.got[k].status = "Good"}
      gone == {items[k].id : k \in good}
      purged == {items[k].id : k \in {k \in good : items[k].references}}
  IN /\ Step
     /\ nodes' = r.n
     /\ refs' = r.r
     /\ Answered("delete", items, IF fits THEN r.got ELSE <<>>)
     /\ granted' = {g \in granted : g.id \notin gone}
     /\ linked' = [x \in {x \in DOMAIN linked : \A id \in purged : ~Touches(x, id)} |-> linked[x]]
     /\ UNCHANGED <<points, built>>

(* mu_delete_references_process: the first match goes; delete_bidirectional is not looked at. *)
DeleteReference(r) ==
  LET at == {i \in DOMAIN refs.seat : Entry(refs, i) = r}
  IN /\ Step
     /\ refs' = IF at = {} THEN refs ELSE Removed(refs, Min(at))
     /\ linked' = linked (-) SetToBag({r})
     /\ Answered("deleteReference", <<r>>, <<[status |-> IF at = {} THEN "NotFound" ELSE "Good", id |-> 0]>>)
     /\ UNCHANGED <<nodes, points, built, granted>>

-----------------------------------------------------------------------------
(* Any Read, Write or Browse looks a node up and so builds the index. *)
Lookup ==
  /\ ~built
  /\ built' = TRUE
  /\ UNCHANGED <<nodes, refs, points, answer, granted, linked, steps>>

Limit(max) == IF max > 0 /\ max < PageSize THEN max ELSE PageSize

(* What a query scans: the index of the static nodes, empty until it is built, *)
(* and the dynamic nodes. Every content filter lets every node pass.           *)
Indexed == IF built THEN StaticIds ELSE <<>>

Scanned == Indexed \o [i \in DOMAIN nodes.seat |-> Entry(nodes, i).id]

(* next_index counts the dynamic nodes on from the static ones. *)
DynamicIndex(i) == Len(Indexed) + i

(* mu_query_first_process. Without a free point the response carries whatever  *)
(* its continuation point happens to hold.                                     *)
QueryFirst(max) ==
  LET more == Len(Scanned) > Limit(max)
      free == {k \in 1..MaxPoints : points[k] = 0}
      static == Len(Indexed)
      next == IF Limit(max) < static THEN Limit(max) ELSE DynamicIndex(Limit(max) - static)
  IN /\ Step
     /\ points' = IF more /\ free # {} THEN [points EXCEPT ![Min(free)] = next] ELSE points
     /\ \E point \in IF ~more THEN {"none"} ELSE IF free # {} THEN {"given"} ELSE {"undefined"} :
          Answered(point, <<[max |-> max]>>, IF more THEN SubSeq(Scanned, 1, Limit(max)) ELSE Scanned)
     /\ UNCHANGED <<nodes, refs, built, granted, linked>>

(* mu_query_next_process: a point is named by its next_index, the answer is always empty. *)
QueryNext(point, release) ==
  LET at == {k \in 1..MaxPoints : points[k] = point}
  IN /\ Step
     /\ points' = IF at # {} /\ release THEN [points EXCEPT ![Min(at)] = 0] ELSE points
     /\ Answered("next", <<[point |-> point]>>, IF at = {} THEN <<"ContinuationPointInvalid">> ELSE <<>>)
     /\ UNCHANGED <<nodes, refs, built, granted, linked>>

NodeItems == [id : Ids, class : {0, 1}, name : Names \union {LongName}]
DeleteItems == [id : Ids \union FirstAuto..FirstAuto + MaxNodes - 1, references : BOOLEAN]
References == [source : Ids \ {0}, target : Ids \ {0}]

Next ==
  /\ steps < MaxSteps
  /\ \/ \E it \in NodeItems, fits \in BOOLEAN : AddNodes(<<it>>, fits)
     \/ \E n \in Names : AddNodes(<<[id |-> 0, class |-> 1, name |-> n], [id |-> 0, class |-> 1, name |-> n]>>, TRUE)
     \/ \E r \in References : AddReference(r) \/ DeleteReference(r)
     \/ \E it \in DeleteItems, fits \in BOOLEAN : DeleteNodes(<<it>>, fits)
     \/ Lookup
     \/ \E max \in 0..2 : QueryFirst(max)
     \/ \E point \in 1..PageSize, release \in BOOLEAN : QueryNext(point, release)

Spec == Init /\ [][Next]_vars

-----------------------------------------------------------------------------
(* The dynamic nodes are the ones clients were granted and have not deleted,   *)
(* each once and under the name it was given, whatever was removed and moved   *)
(* since and whether or not a response reached its client.                     *)
NodesKept ==
  /\ {Entry(nodes, i) : i \in DOMAIN nodes.seat} = granted
  /\ Cardinality(granted) = Len(nodes.seat)

(* The references are the ones added, as often as they were added, less the    *)
(* ones deleted and every reference of a node deleted with its references.     *)
ReferencesKept == FoldLeft(LAMBDA b, r : b (+) SetToBag({r}), EmptyBag, Entries(refs)) = linked

QueriesCoverStep ==
  /\ answer'.op = "none" /\ steps' # steps => answer'.got = Scanned
  /\ answer'.op = "given" /\ steps' # steps =>
       /\ answer'.asked[1].max > 0 => Len(answer'.got) <= answer'.asked[1].max
       /\ \E k \in 1..MaxPoints :
            /\ points'[k] # points[k]
            /\ answer'.got = SubSeq(Scanned, 1, points'[k])

(* An answer of QueryFirst without a continuation point lists every node the   *)
(* scan covers. One with a point lists no more than the request allows, and    *)
(* the point's number is the place of the first node left out, whichever of    *)
(* the two tables it is in.                                                    *)
QueriesCover == [][QueriesCoverStep]_vars

NodesServedStep == NodesKept' /\ ReferencesKept' /\ QueriesCoverStep

(* The tables hold what clients were granted (NodesKept, ReferencesKept) and   *)
(* Query lists them (QueriesCover), whatever was removed and moved before.     *)
NodesServed == [][NodesServedStep]_vars
=============================================================================
