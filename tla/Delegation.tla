----------------------------- MODULE Delegation -----------------------------
(***************************************************************************)
(* One delegation: a parent Run (the chat leader) hands a question to a    *)
(* child Run (source discovery) and waits for it without a lease           *)
(* (internal/agent/delegation_kernel.go, configured_delegation_action.go,  *)
(* leader_executor.go, with the claims of internal/jobs/queue.go).         *)
(*                                                                         *)
(* A waiting parent is a running Run whose Job has status "waiting": no    *)
(* claim selects it, only the transaction that ends the child queues it    *)
(* again.  Both Runs share one deadline.  A lease token is the number of   *)
(* the Attempt it was given to; "late" is a lease that ran out and that    *)
(* nobody took over yet.                                                   *)
(***************************************************************************)
EXTENDS Naturals, FiniteSets

CONSTANTS
    MaxAttempts,    \* failed Attempts a Run may have (definition.limits.attempts)
    Legacy          \* TRUE for rows of runtime_kind 'legacy_role'

\* Of the constants; the MC modules that instantiate this one assume it.
DelegationAssumption == MaxAttempts \in Nat \ {0} /\ Legacy \in BOOLEAN

VARIABLES
    run,         \* agent_runs.status of the two Runs, "absent" before insertion
    job,         \* agent_jobs.status
    attemptNo,   \* agent_jobs.attempt_no
    failed,      \* agent_jobs.failed_attempts
    lease,       \* "none", "live" or "late", held by Attempt attemptNo
    acting,      \* Attempts whose process still executes: <<Run, number>>
    checked,     \* Attempts past requireLease, before their updates
    delegation,  \* agent_run_delegations.state, "none" before insertion
    consumed,    \* agent_run_delegations.consumed_at
    outcome,     \* the child's discovery session and Agent Result are stored
    accepted,    \* Attempt that accepted the delegation Action, 0 if none
    answer,      \* stored result of that Action
    overdue,     \* the deadline of the tree has passed
    reply        \* what the Member was told when cancelling

rows == <<run, job, attemptNo, failed, lease>>
link == <<delegation, consumed, outcome>>
log  == <<accepted, answer>>
vars == <<rows, acting, checked, link, log, overdue, reply>>

Runs           == {"parent", "child"}
Active         == {"queued", "running"}
Ended          == {"completed", "failed", "cancelled"}
Waiting        == {"queued", "running", "waiting"}
MaxLeases      == 2 * MaxAttempts + 1

Init ==
    /\ run       = [r \in Runs |-> IF r = "parent" THEN "queued" ELSE "absent"]
    /\ job       = run
    /\ attemptNo = [r \in Runs |-> 0]
    /\ failed    = [r \in Runs |-> 0]
    /\ lease     = [r \in Runs |-> "none"]
    /\ acting = {} /\ checked = {}
    /\ delegation = "none" /\ consumed = FALSE /\ outcome = FALSE
    /\ accepted = 0 /\ answer = "none"
    /\ overdue = FALSE /\ reply = "none"

----------------------------------------------------------------------------
(* Rows                                                                    *)

JobOf(status) == IF status = "completed" THEN "succeeded" ELSE status

\* Run r and its Job end together, the lease is cleared.
EndRow(r, status) ==
    /\ run'   = [run EXCEPT ![r] = status]
    /\ job'   = [job EXCEPT ![r] = JobOf(status)]
    /\ lease' = [lease EXCEPT ![r] = "none"]

\* The Job carries the token of Attempt n, whether or not it ran out.
HoldsToken(r, n) == job[r] = "running" /\ lease[r] # "none" /\ attemptNo[r] = n

HoldsLease(r, n) == HoldsToken(r, n) /\ lease[r] = "live"

\* lockCheckpointAuthority and requireLease ask the same question; the first
\* one locks the rows it reads.
Authority(r, n) == HoldsLease(r, n) /\ run[r] = "running" /\ ~overdue

----------------------------------------------------------------------------
(* Claims                                                                  *)

LeaseLost(r) == job[r] = "running" /\ run[r] = "running" /\ lease[r] = "late"

Claimable(r) ==
    /\ ~overdue
    /\ \/ job[r] = "queued" /\ run[r] = "queued"
       \/ LeaseLost(r)

Exhausted(r) == LeaseLost(r) /\ failed[r] + 1 >= MaxAttempts

Claim(r) ==
    /\ Claimable(r) /\ ~Exhausted(r)
    /\ run'       = [run EXCEPT ![r] = "running"]
    /\ job'       = [job EXCEPT ![r] = "running"]
    /\ attemptNo' = [attemptNo EXCEPT ![r] = @ + 1]
    /\ failed'    = [failed EXCEPT ![r] = IF LeaseLost(r) THEN @ + 1 ELSE @]
    /\ lease'     = [lease EXCEPT ![r] = "live"]
    /\ acting'    = acting \cup {<<r, attemptNo[r] + 1>>}
    /\ UNCHANGED <<checked, link, log, overdue, reply>>

\* Mutant: a child that ends leaves the Job of its parent waiting.
TerminalizeAsleep(status) ==
    /\ run'   = [run EXCEPT !["child"] = status]
    /\ job'   = [job EXCEPT !["child"] = JobOf(status)]
    /\ lease' = [lease EXCEPT !["child"] = "none"]
    /\ delegation' = IF status = "completed" THEN "succeeded" ELSE status

\* TerminalizeInTx, once the child's rows, token and delegation were found:
\* the child and the delegation end, and a parent that is not overdue goes
\* back to the queue.
Terminalize(status) ==
    LET wakes == run["parent"] = "running" /\ ~overdue IN
    /\ run'   = [run EXCEPT !["child"] = status,
                            !["parent"] = IF wakes THEN "queued" ELSE @]
    /\ job'   = [job EXCEPT !["child"] = JobOf(status),
                            !["parent"] = IF @ = "waiting" /\ run'["parent"] = "queued" /\ ~overdue
                                          THEN "queued" ELSE @]
    /\ lease' = [lease EXCEPT !["child"] = "none"]
    /\ delegation' = IF status = "completed" THEN "succeeded" ELSE status

\* The rows TerminalizeInTx insists on, without looking at the lease's age.
MayTerminalize(n) ==
    /\ delegation = "waiting"
    /\ run["child"] = "running"
    /\ HoldsToken("child", n)

\* TerminalizeAttemptStateInTx: by executor, a child through its delegation,
\* the leader through its own rows.
TerminalizeAttempt(r, n) ==
    \/ /\ r = "child" /\ MayTerminalize(n)
       /\ Terminalize("failed")
       /\ UNCHANGED <<consumed, outcome>>
    \/ /\ r = "parent" /\ HoldsToken(r, n) /\ run[r] = "running"
       /\ EndRow(r, "failed")
       /\ UNCHANGED link

ClaimExhausted(r) ==
    /\ Claimable(r) /\ Exhausted(r)
    /\ TerminalizeAttempt(r, attemptNo[r])
    /\ UNCHANGED <<attemptNo, failed, acting, checked, log, overdue, reply>>

\* ExpireIfOverdue runs in front of every claim and in a Member's reads.  The
\* deadline is the tree's, so it ends both Runs; nobody wakes a parent.
ExpireIfOverdue ==
    LET expired(r) == run[r] \in Active /\ job[r] \in Waiting IN
    /\ overdue
    /\ \E r \in Runs : expired(r)
    /\ run'   = [r \in Runs |-> IF expired(r) THEN "failed" ELSE run[r]]
    /\ job'   = [r \in Runs |-> IF expired(r) THEN "failed" ELSE job[r]]
    /\ lease' = [r \in Runs |-> IF expired(r) THEN "none" ELSE lease[r]]
    /\ delegation' = IF expired("child") /\ delegation = "waiting" THEN "failed" ELSE delegation
    /\ UNCHANGED <<attemptNo, failed, acting, checked, consumed, outcome, log, overdue, reply>>

PassDeadline ==
    /\ ~overdue
    /\ overdue' = TRUE
    /\ UNCHANGED <<rows, acting, checked, link, log, reply>>

\* A lease runs out: its holder died, or its heartbeat is late.
LapseLease(r) ==
    /\ lease[r] = "live"
    /\ lease' = [lease EXCEPT ![r] = "late"]
    /\ UNCHANGED <<run, job, attemptNo, failed, acting, checked, link, log, overdue, reply>>

\* Heartbeat extends a lease that has not run out and changes nothing else; a
\* process that dies just stops here.
Crash(r, n) ==
    /\ <<r, n>> \in acting
    /\ acting'  = acting \ {<<r, n>>}
    /\ checked' = checked \ {<<r, n>>}
    /\ UNCHANGED <<rows, link, log, overdue, reply>>

----------------------------------------------------------------------------
(* The parent's Attempts                                                   *)

Pending == accepted # 0 /\ answer = "none"

\* The model asks for the exclusive delegation tool: Available refuses it to
\* a leader that already has a child.
AcceptDelegation(n) ==
    /\ ~Legacy
    /\ <<"parent", n>> \in acting /\ Authority("parent", n)
    /\ ~Pending
    /\ delegation = "none"
    /\ accepted' = n
    /\ answer' = "none"
    /\ UNCHANGED <<rows, acting, checked, link, overdue, reply>>

\* schedule and CreateInTx: the child, its Job and the delegation are stored
\* and the parent's lease is given up, in one transaction.  The Controller
\* gets here only in the Attempt that accepted the Action.
Delegate(n) ==
    /\ <<"parent", n>> \in acting /\ Authority("parent", n)
    /\ delegation = "none"
    /\ Legacy \/ (Pending /\ accepted = n)
    /\ run'   = [run EXCEPT !["child"] = "queued"]
    /\ job'   = [job EXCEPT !["child"] = "queued", !["parent"] = "waiting"]
    /\ lease' = [lease EXCEPT !["parent"] = "none"]
    /\ delegation' = "waiting"
    /\ UNCHANGED <<attemptNo, failed, acting, checked, consumed, outcome, log, overdue, reply>>

\* closeUnknownRecoveredActions: the delegation is not safe to replay, so the
\* next Attempt stores "action_interrupted" as its result, whatever came of it.
CloseRecovered(n) ==
    /\ ~Legacy
    /\ <<"parent", n>> \in acting /\ Authority("parent", n)
    /\ Pending /\ accepted < n
    /\ answer' = "action_interrupted"
    /\ UNCHANGED <<rows, acting, checked, link, accepted, overdue, reply>>

\* The leader answers, or gives up.
PublishParent(n) ==
    /\ ~Legacy
    /\ <<"parent", n>> \in acting /\ Authority("parent", n)
    /\ ~Pending
    /\ EndRow("parent", "completed")
    /\ UNCHANGED <<attemptNo, failed, acting, checked, link, log, overdue, reply>>

FailParent(n) ==
    /\ ~Legacy
    /\ <<"parent", n>> \in acting /\ Authority("parent", n)
    /\ EndRow("parent", "failed")
    /\ UNCHANGED <<attemptNo, failed, acting, checked, link, log, overdue, reply>>

\* resumeDelegated, from requireLease on: a leader of the legacy kind whose
\* delegation ended adopts its outcome and marks it consumed.
ResumeDelegated(n) ==
    /\ Legacy
    /\ <<"parent", n>> \in checked
    /\ run["parent"] = "running" /\ HoldsToken("parent", n)
    /\ \/ /\ delegation = "succeeded" /\ outcome /\ ~consumed
          /\ EndRow("parent", "completed")
       \/ /\ delegation \in {"failed", "cancelled"} /\ ~consumed
          /\ EndRow("parent", "failed")
    /\ consumed' = TRUE
    /\ checked'  = checked \ {<<"parent", n>>}
    /\ UNCHANGED <<attemptNo, failed, acting, delegation, outcome, log, overdue, reply>>

----------------------------------------------------------------------------
(* The child's Attempts                                                    *)

\* requireLease reads without locking what the updates rely on.
RequireLease(r, n) ==
    /\ <<r, n>> \in acting \ checked
    /\ Authority(r, n)
    /\ r = "child" \/ (Legacy /\ delegation # "none")
    /\ checked' = checked \cup {<<r, n>>}
    /\ UNCHANGED <<rows, acting, link, log, overdue, reply>>

CompleteResearch(n) ==
    /\ <<"child", n>> \in checked
    /\ MayTerminalize(n)
    /\ Terminalize("completed")
    /\ outcome' = TRUE
    /\ checked' = checked \ {<<"child", n>>}
    /\ UNCHANGED <<attemptNo, failed, acting, consumed, log, overdue, reply>>

\* failResearch: the Member lost the right to edit the Notebook.
FailResearch(n) ==
    /\ <<"child", n>> \in checked
    /\ MayTerminalize(n)
    /\ Terminalize("failed")
    /\ checked' = checked \ {<<"child", n>>}
    /\ UNCHANGED <<attemptNo, failed, acting, consumed, outcome, log, overdue, reply>>

\* The transaction rolls back: its updates found other rows, a statement or
\* the commit failed, or it was the victim of a deadlock with Cancel, which
\* locks the parent first.  The executor returns the error.
Aborted(r, n) ==
    /\ <<r, n>> \in checked
    /\ checked' = checked \ {<<r, n>>}
    /\ UNCHANGED <<rows, acting, link, log, overdue, reply>>

----------------------------------------------------------------------------
(* ResolveAttempt                                                          *)

\* A retryable error puts the Job back as long as failures and time allow.
Retry(r, n) ==
    /\ <<r, n>> \in acting \ checked
    /\ HoldsToken(r, n) /\ run[r] = "running"
    /\ failed[r] + 1 < MaxAttempts /\ ~overdue
    /\ run'    = [run EXCEPT ![r] = "queued"]
    /\ job'    = [job EXCEPT ![r] = "queued"]
    /\ lease'  = [lease EXCEPT ![r] = "none"]
    /\ failed' = [failed EXCEPT ![r] = @ + 1]
    /\ acting' = acting \ {<<r, n>>}
    /\ UNCHANGED <<attemptNo, checked, link, log, overdue, reply>>

ResolveTerminal(r, n) ==
    /\ <<r, n>> \in acting \ checked
    /\ TerminalizeAttempt(r, n)
    /\ acting' = acting \ {<<r, n>>}
    /\ UNCHANGED <<attemptNo, failed, checked, log, overdue, reply>>

\* The Job has moved on: the actual state of the row is reported.
ResolveStale(r, n) ==
    /\ <<r, n>> \in acting \ checked
    /\ ~HoldsToken(r, n)
    /\ acting' = acting \ {<<r, n>>}
    /\ UNCHANGED <<rows, checked, link, log, overdue, reply>>

----------------------------------------------------------------------------
(* A Member cancels the parent                                             *)

\* CancelWithMetrics selects the child whatever the delegation's state, and
\* CancelTreeInTx then insists on a waiting one: without it the statement
\* returns no row and the request fails.  It also fails as the victim of a
\* deadlock with the end of the child, which locks the child first.
Cancel ==
    /\ reply = "none"
    /\ \/ /\ run["parent"] \in Active /\ delegation = "none"
          /\ EndRow("parent", "cancelled")
          /\ reply' = "cancelled"
          /\ UNCHANGED link
       \/ /\ run["parent"] \in Active /\ delegation = "waiting" /\ run["child"] \in Active
          /\ run'   = [r \in Runs |-> "cancelled"]
          /\ job'   = [r \in Runs |-> "cancelled"]
          /\ lease' = [r \in Runs |-> "none"]
          /\ delegation' = "cancelled"
          /\ reply' = "cancelled"
          /\ UNCHANGED <<consumed, outcome>>
       \/ /\ run["parent"] \in Active
          /\ \/ delegation \notin {"none", "waiting"}
             \/ \E n \in 1..MaxLeases : <<"child", n>> \in checked /\ MayTerminalize(n)
          /\ reply' = "error"
          /\ UNCHANGED <<run, job, lease, link>>
       \/ /\ run["parent"] \in Ended
          /\ reply' = "refused"
          /\ UNCHANGED <<run, job, lease, link>>
    /\ UNCHANGED <<attemptNo, failed, acting, checked, log, overdue>>

----------------------------------------------------------------------------
Attempts == 1..MaxLeases

AttemptStep(n) ==
    \/ AcceptDelegation(n) \/ Delegate(n) \/ CloseRecovered(n)
    \/ PublishParent(n) \/ FailParent(n) \/ ResumeDelegated(n)
    \/ CompleteResearch(n) \/ FailResearch(n)
    \/ \E r \in Runs : RequireLease(r, n) \/ Aborted(r, n)
                       \/ Retry(r, n) \/ ResolveTerminal(r, n) \/ ResolveStale(r, n)

QueueStep == ExpireIfOverdue \/ \E r \in Runs : Claim(r) \/ ClaimExhausted(r)

Next ==
    \/ QueueStep
    \/ \E n \in Attempts : AttemptStep(n)
    \/ PassDeadline \/ Cancel
    \/ \E r \in Runs : LapseLease(r) \/ \E n \in Attempts : Crash(r, n)

Spec == Init /\ [][Next]_vars

\* Workers poll the queue, time passes, and a lease without a heartbeat runs
\* out.  Nothing is assumed of Attempts: each may crash at any point.
Fairness ==
    /\ WF_vars(QueueStep)
    /\ WF_vars(PassDeadline)

FairSpec == Spec /\ Fairness

----------------------------------------------------------------------------
(* Properties                                                              *)

(* The row of agent_run_delegations.                                       *)
Delegations == {"none", "waiting", "succeeded", "failed", "cancelled"}
TypeOK ==
    /\ run \in [Runs -> {"absent"} \cup Active \cup Ended]
    /\ job \in [Runs -> {"absent", "succeeded", "failed", "cancelled"} \cup Waiting]
    /\ attemptNo \in [Runs -> 0..MaxLeases]
    /\ failed \in [Runs -> 0..(MaxAttempts - 1)]
    /\ lease \in [Runs -> {"none", "live", "late"}]
    /\ acting \subseteq Runs \X Attempts /\ checked \subseteq acting
    /\ delegation \in Delegations
    /\ consumed \in BOOLEAN /\ outcome \in BOOLEAN
    /\ accepted \in 0..MaxLeases /\ answer \in {"none", "action_interrupted"}
    /\ overdue \in BOOLEAN /\ reply \in {"none", "cancelled", "refused", "error"}

\* A parent waits without a lease while its child is at work and no longer:
\* nothing but the end of the child takes its Job out of "waiting", so a wait
\* for a child that ended would last.  Only past the deadline, when the expiry
\* is due, may a child end without waking it.
WaitsOnlyForActiveChild ==
    /\ job["parent"] = "waiting" => run["child"] \in Active \/ overdue
    /\ run["child"] \in Active => job["parent"] = "waiting"

\* Whatever order of claims, ends, expiries and cancellations: a Run and its
\* Job agree, "waiting" being the one state in which a running Run has no
\* lease.
RunJobAgree ==
    \A r \in Runs :
        /\ run[r] \notin Active => job[r] = JobOf(run[r])
        /\ run[r] = "queued"    => job[r] = "queued"
        /\ run[r] = "running"   => job[r] \in {"running", "waiting"}
        /\ (lease[r] # "none") <=> (job[r] = "running")

\* The delegation tells the end of the child, and its outcome exists exactly
\* when the child succeeded: the parent decides by these two rows.
DelegationTellsChild ==
    /\ (delegation = "none") <=> (run["child"] = "absent")
    /\ (delegation = "waiting") <=> (run["child"] \in Active)
    /\ (delegation = "succeeded") <=> (run["child"] = "completed")
    /\ delegation \in {"failed", "cancelled"} => run["child"] = delegation
    /\ outcome <=> (delegation = "succeeded")

\* No child works for a parent that ended, and a parent ends by itself only
\* when its child has ended.
NoOrphanChild == run["parent"] \in Ended => run["child"] \notin Active

\* A delegation is consumed by the parent's own end: once, and only after the
\* child ended; the state the parent saw never changes afterwards.
ConsumedWithParent ==
    [][/\ consumed => consumed' /\ delegation' = delegation
       /\ (~consumed /\ consumed') =>
            /\ delegation \in {"succeeded", "failed", "cancelled"}
            /\ run["parent"] = "running" /\ run'["parent"] \in {"completed", "failed"}
            /\ (run'["parent"] = "completed") <=> (delegation = "succeeded")]_vars

\* Ended Runs stay as they are: a late Attempt of the child, a second worker
\* or a cancellation does not rewrite them.
EndsAreFinal ==
    [][\A r \in Runs : run[r] \in Ended => run'[r] = run[r] /\ job'[r] = job[r]]_vars

\* Both Runs end although any Attempt may crash at any point: the parent's
\* wait is bounded by the deadline it shares with its child.
BothEnd == <>[](run["parent"] \in Ended /\ run["child"] \in Ended \cup {"absent"})

\* A Member who cancels a Run that is queued or running gets the cancelled
\* Run (checked to be violated: a parent whose delegation ended cannot be
\* cancelled).
\* Does not hold: see "Disagreements" in the README.
CancelAnswers == reply # "error"

\* After the child succeeded, the result of the delegation Action is the
\* child's Agent Result (checked to be violated: the resumed Attempt finds an
\* Action it cannot replay and stores action_interrupted).
\* Does not hold: see "Disagreements" in the README.
ResultReachesParent == delegation = "succeeded" => answer # "action_interrupted"
=============================================================================
