------------------------------- MODULE PubSub -------------------------------
(***************************************************************************)
(* The PubSub publisher: writer groups registered with the server, and the *)
(* pass over them that mu_server_poll makes.  The clock is a counter of    *)
(* Modulus ticks (32 bits in the code); a pass ends at the first group     *)
(* whose message cannot be encoded or sent.                                *)
(***************************************************************************)
EXTENDS Integers, Sequences, SequencesExt

CONSTANTS
    Intervals,     \* publishing intervals a group may have
    MaxGroups,     \* MU_MAX_WRITER_GROUPS
    Modulus,       \* range of the tick counter
    MaxGap         \* the application polls at least every MaxGap ticks; an interval
                   \* and a gap together stay below Modulus (49 days in the code)

VARIABLES
    groups,        \* writer_groups: interval, last_publish_time_ms, whether it can fail
    now,           \* get_tick_ms
    unpolled,      \* ticks since the last pass
    published      \* groups whose message left in the last step

vars == <<groups, now, unpolled, published>>

Init ==
    /\ groups = <<>>
    /\ now \in {0, Modulus - 1}
    /\ unpolled = 0
    /\ published = {}

\* mu_server_add_writer_group: the group counts as published at tick zero.
AddWriterGroup(interval, fails) ==
    /\ Len(groups) < MaxGroups
    /\ groups' = Append(groups, [interval |-> interval, last |-> 0, fails |-> fails])
    /\ published' = {}
    /\ UNCHANGED <<now, unpolled>>

\* Mutant: the difference is not taken modulo the counter's range.
DueUnwrapped(group) == now - group.last >= group.interval

Due(group) == (now - group.last) % Modulus >= group.interval

\* One group of the pass: it is stamped first, then encoded and sent; a
\* failure ends the pass.
Visit(pass, i, failing) ==
    IF pass.ended \/ ~Due(groups[i]) THEN pass
    ELSE IF i \in failing
         THEN [pass EXCEPT !.groups[i].last = now, !.ended = TRUE]
         ELSE [pass EXCEPT !.groups[i].last = now, !.published = @ \cup {i}]

Poll ==
    \E failing \in SUBSET (1..MaxGroups) :
        LET pass == FoldLeft(LAMBDA p, i : Visit(p, i, failing),
                             [groups |-> groups, published |-> {}, ended |-> FALSE],
                             [i \in DOMAIN groups |-> i])
        IN /\ failing \subseteq {i \in DOMAIN groups : groups[i].fails}
           /\ groups' = pass.groups
           /\ published' = pass.published
           /\ unpolled' = 0
           /\ UNCHANGED now

Tick ==
    /\ unpolled < MaxGap
    /\ now' = (now + 1) % Modulus
    /\ unpolled' = unpolled + 1
    /\ published' = {}
    /\ UNCHANGED groups

Next ==
    \/ \E interval \in Intervals, fails \in BOOLEAN : AddWriterGroup(interval, fails)
    \/ Poll
    \/ Tick

Spec == Init /\ [][Next]_vars /\ WF_vars(Poll) /\ WF_vars(Tick)

-----------------------------------------------------------------------------
\* A group before which no group fails is published again and again,
\* whatever the tick counter's value when it was added and however often
\* the counter wraps; later groups may be starved by a failing one.
Republished ==
    \A i \in 1..MaxGroups :
        []<>(i \in DOMAIN groups /\ \A j \in 1..i : ~groups[j].fails) => []<>(i \in published)
=============================================================================
