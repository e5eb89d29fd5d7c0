------------------------------ MODULE CommandOnce ------------------------------
(***************************************************************************)
(* What the bridge promises about every command it gives to T3             *)
(* (docs/architecture.md, "Persistence model"): the command is recorded    *)
(* before it is sent, it is sent at most once whatever crashes and         *)
(* timeouts do, and the user hears that it succeeded only after T3 has     *)
(* been seen to have executed it.                                          *)
(***************************************************************************)
EXTENDS Naturals

CONSTANT Commands

VARIABLES
    recorded,  \* commands in the durable record
    sends,     \* how often each command was sent
    executed,  \* commands T3 has executed
    reported   \* commands reported to the user as executed

vars == <<recorded, sends, executed, reported>>

Init ==
    /\ recorded = {}
    /\ sends = [c \in Commands |-> 0]
    /\ executed = {}
    /\ reported = {}

Record ==
    /\ UNCHANGED <<sends, executed, reported>>
    /\ \E C \in SUBSET (Commands \ recorded) : recorded' = recorded \cup C

Send(c) ==
    /\ c \in recorded /\ sends[c] = 0
    /\ sends' = [sends EXCEPT ![c] = 1]
    /\ UNCHANGED <<recorded, executed, reported>>

Execute(c) ==
    /\ sends[c] = 1
    /\ executed' = executed \cup {c}
    /\ UNCHANGED <<recorded, sends, reported>>

Report(c) ==
    /\ c \in executed
    /\ reported' = reported \cup {c}
    /\ UNCHANGED <<recorded, sends, executed>>

Next == Record \/ \E c \in Commands : Send(c) \/ Execute(c) \/ Report(c)

Spec == Init /\ [][Next]_vars
=============================================================================
