----------------------------- MODULE KernelLock -----------------------------
(***************************************************************************)
(* What the firmware relies on when it guards data with a kernel mutex: a   *)
(* task that asks for it either comes to own it or gives up, at most one     *)
(* task owns it, and only its owner releases it.                            *)
(***************************************************************************)
EXTENDS Naturals, FiniteSets

CONSTANTS Clients

VARIABLE stage     \* client -> "out", "asking", "owner"

LockInit == stage = [c \in Clients |-> "out"]

Ask(c) == stage[c] = "out" /\ stage' = [stage EXCEPT ![c] = "asking"]

Acquire(c) ==
    /\ stage[c] = "asking"
    /\ \A d \in Clients : stage[d] # "owner"
    /\ stage' = [stage EXCEPT ![c] = "owner"]

GiveUp(c) == stage[c] = "asking" /\ stage' = [stage EXCEPT ![c] = "out"]

Release(c) == stage[c] = "owner" /\ stage' = [stage EXCEPT ![c] = "out"]

LockNext == \E c \in Clients : Ask(c) \/ Acquire(c) \/ GiveUp(c) \/ Release(c)

LockSpec == LockInit /\ [][LockNext]_stage
=============================================================================
