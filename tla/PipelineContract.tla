--------------------------- MODULE PipelineContract ---------------------------
(***************************************************************************)
(* What run_diagnostic promises its callers: the stages are passed in      *)
(* order, and a call is over once, with a payload only after all of them.  *)
(***************************************************************************)
VARIABLES stage,    \* "idle" until the call is made, "over" when it returned
          outcome   \* how it ended

contractVars == <<stage, outcome>>

ContractInit == stage \in {"idle", "connecting"} /\ outcome = "none"

Begin == stage = "idle" /\ stage' = "connecting" /\ UNCHANGED outcome

Forward == /\ \/ stage = "connecting" /\ stage' = "matching"
              \/ stage = "matching" /\ stage' = "stressing"
              \/ stage = "stressing" /\ stage' = "closing"
           /\ UNCHANGED outcome

\* An exception after the connections were made: they are closed first.  A
\* cancellation may also strike while they are being closed.
Raise == /\ stage \in {"matching", "stressing", "closing"}
         /\ stage' = "unwinding"
         /\ UNCHANGED outcome

Return == stage = "closing" /\ stage' = "over" /\ outcome' = "payload"

GiveUp == /\ stage \in {"connecting", "matching", "stressing", "closing", "unwinding"}
          /\ stage' = "over"
          /\ \/ outcome' = "cancelled"
             \/ outcome' = "raised" /\ stage \in {"connecting", "unwinding"}

ContractSpec ==
    ContractInit /\ [][Begin \/ Forward \/ Raise \/ Return \/ GiveUp]_contractVars
=============================================================================
