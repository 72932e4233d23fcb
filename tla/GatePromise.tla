----------------------------- MODULE GatePromise -----------------------------
(***************************************************************************)
(* What an approval gate of autonomous-execution.ts promises to the run    *)
(* that waits behind it: one decision, made after the run began to wait    *)
(* and never taken back.  HumanGate implements it; AutonomousTask uses it. *)
(***************************************************************************)
CONSTANT Gates

VARIABLE decision   \* per gate: what waitForGateResolution() resolves with

Undecided == {"unasked", "open"}
Answers == {"approved", "denied", "skipped"}

\* "timeout" stands for null, "lost" for a promise that is never settled.
Decisions == Answers \cup {"expired", "timeout", "lost"}

Init == decision = [g \in Gates |-> "unasked"]

Ask(g) ==
    /\ decision[g] = "unasked"
    /\ decision' = [decision EXCEPT ![g] = "open"]

Decide(g) ==
    /\ decision[g] = "open"
    /\ \E d \in Decisions : decision' = [decision EXCEPT ![g] = d]

Next == \E g \in Gates : Ask(g) \/ Decide(g)

Spec == Init /\ [][Next]_decision
=============================================================================
