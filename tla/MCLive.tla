------------------------------- MODULE MCLive -------------------------------
(* What must go on for ever, in four parts that do not meet: "publishing" is  *)
(* a small instance of Publishing, "channel" one of Channel, "items" one of   *)
(* MonitoredItems and "pubsub" one of PubSub. A behaviour belongs to one      *)
(* part; the variables of the others keep their initial values.               *)
EXTENDS MCPublishing

VARIABLES part, item, itemId, active, limit, enabled, resend, more, source, phase, bitmap,
          sent, told, resized, reenabled, steps, groups, clock, unpolled, published,
          at, rx, live, est, idle, age, chan, parked, asm, wire, back, peer, aborted, whole

Items ==
  INSTANCE MonitoredItems WITH nextId <- itemId, Depth <- 2, NItems <- 2, MaxLinks <- 0,
    Node <- {"n", "m"}, Value <- {0, 1}, Texts <- {}, Limits <- {1}, Sizes <- {2}, Discards <- {TRUE}, Deadbands <- {0},
    Triggers <- {"value"}, Modes <- {"reporting"}, Created <- {2}, MaxId <- 2, MaxSteps <- 1

Groups ==
  INSTANCE PubSub WITH now <- clock, Intervals <- {1, 2}, MaxGroups <- 2,
    Modulus <- 5, MaxGap <- 2

Connections ==
  INSTANCE Channel WITH NConns <- 2, MultiConn <- TRUE, Secured <- FALSE, IdMod <- 2, Stride <- 1,
    TokMod <- 1, SeqMod <- 1, WrapFloor <- 0, WrapCeil <- 0, AsmCap <- 2, ConnectLimit <- 0,
    Lifetime <- 1, MaxParts <- 1, CountsAll <- TRUE, Mistakes <- FALSE, MaxQueue <- 1, MaxPend <- 1,
    MaxAge <- 2

itemVars == <<item, itemId, active, limit, enabled, resend, more, source, phase, bitmap,
              sent, told, resized, reenabled, steps>>
groupVars == <<groups, clock, unpolled, published>>
channelVars == <<at, rx, live, est, idle, age, chan, parked, asm, wire, back, peer, aborted, whole>>
all == <<part, vars, itemVars, groupVars, channelVars>>

PartInit ==
  /\ part \in {"publishing", "channel", "items", "pubsub"}
  /\ Init
  /\ Items!Init
  /\ item[1].node = "n" /\ item[2].node = "m"
  /\ part # "items" => source = [n \in {"n", "m"} |-> Items!Bad]
  /\ Groups!Init
  /\ part # "pubsub" => clock = 0
  /\ Connections!Init

PartNext ==
  \/ part = "publishing" /\ Next /\ UNCHANGED <<part, itemVars, groupVars, channelVars>>
  \/ part = "channel" /\ Connections!Next /\ UNCHANGED <<part, vars, itemVars, groupVars>>
  \/ part = "items" /\ Items!Next /\ UNCHANGED <<part, vars, groupVars, channelVars>>
  \/ part = "pubsub" /\ Groups!Next /\ UNCHANGED <<part, vars, itemVars, channelVars>>

(* The fairness of each part, for the behaviours of that part. Those of the   *)
(* others change for ever.                                                    *)
PublishingFair ==
  /\ WF_all(part = "publishing" /\ \E T \in SUBSET Session, sampled \in SUBSET SubSlot : BeginPublish(T, sampled)
              /\ UNCHANGED <<part, itemVars, groupVars, channelVars>>)
  /\ WF_all(part = "publishing" /\ (SkipSlot \/ \E i \in SubSlot : PublishSlot(i))
              /\ UNCHANGED <<part, itemVars, groupVars, channelVars>>)
  /\ \A i \in SubSlot : SF_all(part = "publishing" /\ PublishSlot(i) /\ UNCHANGED <<part, itemVars, groupVars, channelVars>>)

OfChannel(action) == part = "channel" /\ action /\ UNCHANGED <<part, vars, itemVars, groupVars>>

ChannelFair ==
  /\ WF_all(OfChannel(Connections!Polls))
  /\ WF_all(OfChannel(Connections!Tick))
  /\ SF_all(OfChannel(Connections!NoAccept /\ at' = 1))
  /\ \A c \in {1, 2} : SF_all(OfChannel(Connections!Reads(c)))

ItemsFair ==
  /\ \A s \in {1, 2} :
       []<><<part # "items" \/ \E due \in SUBSET {1, 2} : s \in due /\ Items!SampleItems(due)>>_all
  /\ []<><<part # "items" \/ (phase = "publish" /\ Items!PrepareNotification)>>_all
  /\ []<><<part # "items" \/ (phase = "emit" /\ Items!EmitNotification(TRUE))>>_all

GroupsFair ==
  /\ WF_all(part = "pubsub" /\ Groups!Poll /\ UNCHANGED <<part, vars, itemVars, channelVars>>)
  /\ WF_all(part = "pubsub" /\ Groups!Tick /\ UNCHANGED <<part, vars, itemVars, channelVars>>)

PartSpec == PartInit /\ [][PartNext]_all /\ PublishingFair /\ ChannelFair /\ ItemsFair /\ GroupsFair

(* MonitoredItems: what a reporting item owes its client is sent in the end,  *)
(* unless the sources of items in lower slots go on making reports.           *)
Delivered == part = "items" => Items!Delivered

(* Channel: open channels of live connections have different ids.            *)
UniqueChannels == Connections!UniqueChannels

(* Channel: a request is answered or its connection ends, and a connection    *)
(* whose client falls silent does not keep its slot.                          *)
Served == Connections!Served /\ Connections!QuietDropped

(* PubSub: a group before which no group fails is published for ever.         *)
Republished == Groups!Republished
=============================================================================
