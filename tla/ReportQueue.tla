---------------------------- MODULE ReportQueue ----------------------------
(* What the queue of a MonitoredItem promises its client, without the ring.   *)
(* Each item has a list of reports of bounded length. A report is appended;   *)
(* in a full list the oldest or the newest is lost, and the loss is marked.   *)
(* A notification carries, for each item, the front of its list, and exactly  *)
(* that leaves the list. Reports go away in no other manner as long as the    *)
(* item lives. Nothing is promised once a list that holds reports has been    *)
(* resized.                                                                   *)
EXTENDS Integers, Sequences, FiniteSets

CONSTANTS Place, Report

VARIABLES
  owner,    \* the id of the item at each place, 0 if there is none
  list,     \* its reports
  size,     \* the length the list may have
  discard,  \* whether a full list loses its oldest report or its newest
  message,  \* what the last notification carried
  resized   \* a list was resized while it held reports

qvars == <<owner, list, size, discard, message, resized>>

Init ==
  /\ list = [p \in Place |-> <<>>]
  /\ message = <<>>
  /\ ~resized

Marked(report) == [report EXCEPT !.ovf = TRUE]

Added(s, report, p) ==
  IF Len(s) < size[p] THEN Append(s, report)
  ELSE IF Len(s) = 1 THEN <<Marked(report)>>
  ELSE IF discard[p] THEN <<Marked(s[2])>> \o Append(SubSeq(s, 3, Len(s)), report)
  ELSE [s EXCEPT ![Len(s)] = Marked(report)]

(* A sample; for an empty list also the report still owed and then a sample. *)
Enqueue ==
  /\ \A p \in Place :
       \/ list'[p] = list[p]
       \/ \E a \in Report : list'[p] = Added(list[p], a, p)
       \/ list[p] = <<>> /\ \E a, b \in Report : list'[p] = Added(Added(<<>>, a, p), b, p)
  /\ message' = <<>>
  /\ UNCHANGED <<owner, size, discard, resized>>

(* How many of the first k reports of the notification belong to place p. *)
Carried(p, k) == Cardinality({i \in 1 .. k : message'[i].place = p})

Notify ==
  /\ \A p \in Place :
       LET n == Carried(p, Len(message'))
       IN /\ n <= Len(list[p])
          /\ list'[p] = SubSeq(list[p], n + 1, Len(list[p]))
  /\ \A k \in 1 .. Len(message') :
       LET p == message'[k].place
       IN p \in Place /\ message'[k].report = list[p][Carried(p, k)]
  /\ UNCHANGED <<owner, size, discard, resized>>

(* Items come and go; an item that stays keeps its list. *)
Renew ==
  /\ \A p \in Place :
       IF owner'[p] = owner[p] THEN UNCHANGED <<list[p], size[p], discard[p]>>
                               ELSE list'[p] = <<>>
  /\ message' = <<>>
  /\ UNCHANGED resized

Modify ==
  /\ resized' = (resized \/ \E p \in Place : size'[p] # size[p] /\ list[p] # <<>>)
  /\ resized' \/ list' = list
  /\ message' = <<>>
  /\ UNCHANGED owner

Next == Notify \/ Renew \/ Modify \/ Enqueue \/ (resized /\ resized')

Spec == Init /\ [][Next]_qvars
=============================================================================
