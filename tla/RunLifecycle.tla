----------------------------- MODULE RunLifecycle -----------------------------
(***************************************************************************)
(* What a client of the service is promised about diagnostic runs: a run   *)
(* is created pending, is seen to move forward only, ends completed with a *)
(* readable report or failed without one, and once removed it is never     *)
(* seen again.                                                             *)
(***************************************************************************)
EXTENDS Integers

CONSTANT Runs

VARIABLES visible,   \* the status a client sees, "absent" before, "gone" after
          percent,   \* the progress it sees, 0 when it sees no run
          readable   \* the runs whose report it can read

lifecycleVars == <<visible, percent, readable>>

Terminal == {"completed", "failed"}
Visible == {"pending", "running"} \cup Terminal

LifecycleInit == /\ visible = [r \in Runs |-> "absent"]
                 /\ percent = [r \in Runs |-> 0]
                 /\ readable = {}

\* The progress of a run moves to a percentage between low and 99.
Moves(r, low) == /\ percent'[r] \in low..99
                 /\ percent' = [percent EXCEPT ![r] = percent'[r]]

Create(r) == /\ visible[r] = "absent"
             /\ visible' = [visible EXCEPT ![r] = "pending"]
             /\ UNCHANGED <<percent, readable>>

Start(r) == /\ visible[r] = "pending"
            /\ visible' = [visible EXCEPT ![r] = "running"]
            /\ Moves(r, 0)
            /\ UNCHANGED readable

Advance(r) == /\ visible[r] = "running"
              /\ Moves(r, percent[r])
              /\ UNCHANGED <<visible, readable>>

Complete(r) == /\ visible[r] = "running"
               /\ visible' = [visible EXCEPT ![r] = "completed"]
               /\ percent' = [percent EXCEPT ![r] = 100]
               /\ readable' = readable \cup {r}

Fail(r) == /\ visible[r] = "running"
           /\ visible' = [visible EXCEPT ![r] = "failed"]
           /\ Moves(r, percent[r])
           /\ UNCHANGED readable

Remove(r) == /\ visible[r] \in Visible
             /\ visible' = [visible EXCEPT ![r] = "gone"]
             /\ percent' = [percent EXCEPT ![r] = 0]
             /\ readable' = readable \ {r}

LifecycleNext == \E r \in Runs : \/ Create(r)
                                 \/ Start(r)
                                 \/ Advance(r)
                                 \/ Complete(r)
                                 \/ Fail(r)
                                 \/ Remove(r)

LifecycleSpec == LifecycleInit /\ [][LifecycleNext]_lifecycleVars
=============================================================================
