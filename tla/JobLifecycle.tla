---------------------------- MODULE JobLifecycle ----------------------------
(***************************************************************************)
(* What the assessment service promises about a job, whatever happens to   *)
(* its workers: a job that has been accepted is settled exactly once, with *)
(* one of the outcomes, and its outcome never changes afterwards.          *)
(***************************************************************************)
CONSTANTS Jobs,      \* job ids
          Outcomes   \* the ways a job can end: a verdict, or FAILURE;
                     \* "unknown" and "pending" are none of them

VARIABLE life        \* life[j]: "unknown", "pending", or the outcome of j

Init == life = [j \in Jobs |-> "unknown"]

Accept(j) ==
  /\ life[j] = "unknown"
  /\ life' = [life EXCEPT ![j] = "pending"]

Settle(j) ==
  /\ life[j] = "pending"
  /\ \E o \in Outcomes : life' = [life EXCEPT ![j] = o]

Next == \E j \in Jobs : Accept(j) \/ Settle(j)

Fairness == \A j \in Jobs : WF_life(Settle(j))

SafeSpec == Init /\ [][Next]_life
Spec     == SafeSpec /\ Fairness
=============================================================================
