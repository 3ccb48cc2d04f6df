---------------------------- MODULE CallLifecycle ----------------------------
(***************************************************************************)
(* What gating a tool call promises, without requests, locks or memory:    *)
(* the life of a proposed call as an auditor can tell it from the log      *)
(* (ADR-0004, ADR-0009).                                                   *)
(*                                                                         *)
(*     free -> denied                                                      *)
(*     free -> cleared -> done                                             *)
(*     free -> waiting -> cleared -> done                                  *)
(*     free -> waiting -> rejected                                         *)
(*                                                                         *)
(* A tool runs only for a cleared call.  The log of a process may be blind: *)
(* it missed a row of its own.  Then no call changes its stage until the   *)
(* process starts again, and the one thing that can still happen is that a *)
(* call that is done, unknown to the process, runs.                        *)
(***************************************************************************)
CONSTANT Id             \* one per place in the log

VARIABLES
    stage,              \* [Id -> Stage]
    ran,                \* the calls whose tool was invoked
    blind               \* the process has lost track of its log

Stage == {"free", "denied", "waiting", "rejected", "cleared", "done"}

LInit ==
    /\ stage = [d \in Id |-> "free"]
    /\ ran = {}
    /\ blind = FALSE

MoveTo(d, s) ==
    /\ ~blind
    /\ stage' = [stage EXCEPT ![d] = s]
    /\ blind' \in BOOLEAN
    /\ UNCHANGED ran

Propose(d) == stage[d] = "free" /\ \E s \in {"denied", "waiting", "cleared"} : MoveTo(d, s)

Answer(d) == stage[d] = "waiting" /\ \E s \in {"rejected", "cleared"} : MoveTo(d, s)

Finish(d) == stage[d] = "cleared" /\ MoveTo(d, "done")

Run(d) ==
    /\ stage[d] = "cleared" \/ (blind /\ stage[d] = "done")
    /\ ran' = ran \cup {d}
    /\ UNCHANGED <<stage, blind>>

Recover ==
    /\ blind' = FALSE
    /\ UNCHANGED <<stage, ran>>

LNext ==
    \/ \E d \in Id : Propose(d) \/ Answer(d) \/ Finish(d) \/ Run(d)
    \/ Recover

LSpec == LInit /\ [][LNext]_<<stage, ran, blind>>
=============================================================================
