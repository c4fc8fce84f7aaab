---------------------------- MODULE RunLifecycle ----------------------------
(***************************************************************************)
(* What a Run promises to everybody who reads it, whatever executes it:    *)
(* a Run is admitted once, alternates between queued and running, and ends *)
(* exactly once; the answer appears in the step that completes the Run,    *)
(* out of status running, and never changes.  Several Runs may move in one *)
(* transaction, because a claim also expires every overdue Run.            *)
(***************************************************************************)
EXTENDS Naturals

CONSTANT Runs

VARIABLES status, answer

lifecycleVars == <<status, answer>>

LifecycleInit ==
    /\ status = [r \in Runs |-> "absent"]
    /\ answer = [r \in Runs |-> 0]

Edges ==
    {<<"absent", "queued">>,
     <<"queued", "running">>, <<"running", "queued">>,
     <<"running", "completed">>,
     <<"queued", "failed">>, <<"running", "failed">>,
     <<"queued", "cancelled">>, <<"running", "cancelled">>}

\* What one step may do to one Run.
Moves(r) ==
    \/ status'[r] = status[r] /\ answer'[r] = answer[r]
    \/ /\ <<status[r], status'[r]>> \in Edges
       /\ IF status'[r] = "completed"
          THEN answer[r] = 0 /\ answer'[r] # 0
          ELSE answer'[r] = answer[r]

LifecycleNext == \A r \in Runs : Moves(r)

LifecycleSpec == LifecycleInit /\ [][LifecycleNext]_lifecycleVars
=============================================================================
