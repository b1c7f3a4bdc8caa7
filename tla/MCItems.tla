------------------------------ MODULE MCItems ------------------------------
(* Three small instances of MonitoredItems over the same variables, one per   *)
(* behaviour: "filters" (the configuration's own constants) varies values,    *)
(* deadbands and triggers; "queues" the sizes, discard policies and limits;   *)
(* "linked" the modes and triggering links.                                   *)
EXTENDS ItemQueues

VARIABLE part

Queueing ==
  INSTANCE MonitoredItems WITH
    MaxLinks <- 0, Value <- {0, 1}, Texts <- {}, Modes <- {"reporting"}, Limits <- {0, 1}, Sizes <- {1, 3},
    Discards <- BOOLEAN,
    Deadbands <- {0}, Triggers <- {"value"}, Created <- {0, 2}, MaxId <- 3, MaxSteps <- 1

Linking ==
  INSTANCE MonitoredItems WITH Value <- {0}, Texts <- {}, Limits <- {0, 1},
    Modes <- {"sampling", "reporting"}, Discards <- {FALSE}, Deadbands <- {0},
    Triggers <- {"value"}, Created <- {2}

PartInit ==
  \/ part = "filters" /\ Init
  \/ part = "queues" /\ Queueing!Init
  \/ part = "linked" /\ Linking!Init

PartNext ==
  /\ UNCHANGED part
  /\ \/ part = "filters" /\ Next
     \/ part = "queues" /\ Queueing!Next
     \/ part = "linked" /\ Linking!Next

PartSpec == PartInit /\ [][PartNext]_<<vars, part>>
=============================================================================
