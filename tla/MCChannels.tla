----------------------------- MODULE MCChannels -----------------------------
(* Three small instances of Channel over the same variables. "part" tells     *)
(* which one a behaviour belongs to: "numbers" has the constants of the       *)
(* configuration, "parts" has one connection and messages of several chunks,  *)
(* "mistakes" has a secured channel and clients that misnumber.               *)
EXTENDS Channel

VARIABLE part

Split ==
  INSTANCE Channel WITH NConns <- 1, MultiConn <- FALSE, Secured <- FALSE, IdMod <- 2, TokMod <- 2, SeqMod <- 3,
    WrapFloor <- 1, WrapCeil <- 1, MaxParts <- 4, CountsAll <- FALSE, Mistakes <- FALSE, MaxQueue <- 2

Mistaken ==
  INSTANCE Channel WITH NConns <- 1, MultiConn <- TRUE, Secured <- TRUE, IdMod <- 2, TokMod <- 2, SeqMod <- 4,
    WrapFloor <- 2, WrapCeil <- 1, MaxParts <- 1, CountsAll <- TRUE, Mistakes <- TRUE, MaxQueue <- 2

PartInit ==
  \/ part = "numbers" /\ Init
  \/ part = "parts" /\ Split!Init
  \/ part = "mistakes" /\ Mistaken!Init

PartNext ==
  /\ UNCHANGED part
  /\ \/ part = "numbers" /\ Next
     \/ part = "parts" /\ Split!Next
     \/ part = "mistakes" /\ Mistaken!Next

PartSpec == PartInit /\ [][PartNext]_<<part, vars>>

-----------------------------------------------------------------------------
(* Properties, each in the instance that is made for it. Agreement is checked *)
(* in all of them.                                                            *)

(* A client that follows the protocol is served: its chunks are never refused *)
(* and its requests never left without an answer, across renewals and wraps,  *)
(* and a message of several chunks is dispatched whole or not at all.         *)
GoodClientsServed ==
  /\ part = "numbers" => NoFalseAbort /\ AlwaysAnswered
  /\ part = "parts" => Split!TypeOK /\ Split!DispatchedWhole

(* Response numbers follow one another across renewals and wraps, and a       *)
(* misnumbered chunk of a client ends its connection.                         *)
NumbersKept ==
  [][/\ part = "numbers" => ResponsesFollowStep
     /\ part = "mistakes" => Mistaken!AbortOnViolationStep]_<<part, vars>>
=============================================================================
