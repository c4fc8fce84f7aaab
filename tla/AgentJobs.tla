----------------------------- MODULE AgentJobs -----------------------------
(***************************************************************************)
(* Agent Runs and the leased Jobs that execute them.                       *)
(*                                                                         *)
(* A Run (table agent_runs) owns exactly one Job (table agent_jobs).       *)
(* Worker slots lease Jobs (internal/jobs/queue.go), execute them under a  *)
(* heartbeat (internal/worker/service.go), publish or fail the Run under   *)
(* the lease (internal/agent/postgres_runtime.go) and resolve the Attempt. *)
(* The control plane admits, cancels and expires Runs                      *)
(* (internal/agent/store.go).  Every action that touches the tables is one *)
(* PostgreSQL transaction of the code: the rows it reads are locked FOR    *)
(* UPDATE, so a transaction is one atomic step.                            *)
(*                                                                         *)
(* Runs here have no delegated child: a Job in status 'waiting' belongs to *)
(* module Delegation.  Runs that yield in wait_agent are included, because *)
(* they are what lets a Job be leased more often than it may fail.         *)
(***************************************************************************)
EXTENDS Integers

CONSTANTS
    Runs,           \* Run identities
    Workers,        \* worker slots (maxConcurrency goroutines of all workers)
    NoRun,          \* what an idle worker slot holds
    MaxAttempts,    \* limits.attempts of the Run's definition
    MaxAgentLeases, \* bound on all leases of one Job
    LeaseDuration,  \* DefaultLeaseDuration
    RunTimeout,     \* deadline_at - created_at
    Backoffs,       \* delays a retryable Attempt may ask for
    WaitTimeouts,   \* timeouts wait_agent may ask for
    MaxTime         \* bound on the clock (model checking only)

ASSUME ConstantAssumption ==
    /\ NoRun \notin Runs
    /\ MaxAttempts \in Nat \ {0}
    /\ MaxAgentLeases \in Nat \ {0}
    /\ LeaseDuration \in Nat \ {0}
    /\ RunTimeout \in Nat \ {0}
    /\ Backoffs \subseteq Nat
    /\ WaitTimeouts \subseteq Nat
    /\ MaxTime \in Nat

VARIABLES
    now,            \* PostgreSQL's clock
    runStatus,      \* agent_runs.status ("absent" before admission)
    errorCode,      \* agent_runs.error_code
    outputBy,       \* attempt that wrote output_message_id, 0 when null
    deadline,       \* agent_runs.deadline_at
    jobStatus,      \* agent_jobs.status
    attemptNo,      \* agent_jobs.attempt_no
    failedAttempts, \* agent_jobs.failed_attempts
    leaseToken,     \* agent_jobs.lease_token, 0 when null
    leaseExpires,   \* agent_jobs.lease_expires_at
    availableAt,    \* agent_jobs.available_at
    waits,          \* history: times the Run yielded its lease in wait_agent
    phase,          \* what a worker slot is doing
    heldRun,        \* ClaimedJob.RunID of a busy slot
    heldToken,      \* ClaimedJob.LeaseToken of a busy slot
    heartbeat,      \* what the slot's heartbeat goroutine reported
    result          \* Attempt disposition the Role Executor returned

runVars    == <<runStatus, errorCode, outputBy, deadline>>
jobVars    == <<jobStatus, attemptNo, failedAttempts, leaseToken, leaseExpires,
                availableAt, waits>>
workerVars == <<phase, heldRun, heldToken, heartbeat, result>>
vars       == <<now, runVars, jobVars, workerVars>>

----------------------------------------------------------------------------
ActiveStatus   == {"queued", "running"}
TerminalStatus == {"completed", "failed", "cancelled"}
RunStatuses    == {"absent"} \cup ActiveStatus \cup TerminalStatus
JobStatuses    == {"absent"} \cup ActiveStatus \cup {"succeeded", "failed", "cancelled"}
ErrorCodes     == {"none", "run_deadline_exceeded", "retry_exhausted",
                   "recovery_exhausted", "agent_execution_failed"}
Phases         == {"idle", "claim_error", "executing", "returned"}
Results        == {"none", "completed", "retryable", "terminal",
                   "lease_lost", "cancelled"}

\* Mutant: the Job gets the Run's status literally.
JobStatusOfVerbatim(status) == status

JobStatusOf(status) == IF status = "completed" THEN "succeeded" ELSE status

\* Every lease gets a fresh uuid and increments attempt_no in the same
\* statement, so a token is identified with the attempt it was minted for.
Init ==
    /\ now            = 0
    /\ runStatus      = [r \in Runs |-> "absent"]
    /\ errorCode      = [r \in Runs |-> "none"]
    /\ outputBy       = [r \in Runs |-> 0]
    /\ deadline       = [r \in Runs |-> 0]
    /\ jobStatus      = [r \in Runs |-> "absent"]
    /\ attemptNo      = [r \in Runs |-> 0]
    /\ failedAttempts = [r \in Runs |-> 0]
    /\ leaseToken     = [r \in Runs |-> 0]
    /\ leaseExpires   = [r \in Runs |-> 0]
    /\ availableAt    = [r \in Runs |-> 0]
    /\ waits          = [r \in Runs |-> 0]
    /\ phase          = [w \in Workers |-> "idle"]
    /\ heldRun        = [w \in Workers |-> NoRun]
    /\ heldToken      = [w \in Workers |-> 0]
    /\ heartbeat      = [w \in Workers |-> "ok"]
    /\ result         = [w \in Workers |-> "none"]

Tick ==
    /\ now < MaxTime
    /\ now' = now + 1
    /\ UNCHANGED <<runVars, jobVars, workerVars>>

\* The Run and its Job end together and the lease is cleared.
EndRun(r, status, code) ==
    /\ runStatus'    = [runStatus EXCEPT ![r] = status]
    /\ errorCode'    = [errorCode EXCEPT ![r] = code]
    /\ jobStatus'    = [jobStatus EXCEPT ![r] = JobStatusOf(status)]
    /\ leaseToken'   = [leaseToken EXCEPT ![r] = 0]
    /\ leaseExpires' = [leaseExpires EXCEPT ![r] = 0]
    /\ UNCHANGED <<now, deadline, attemptNo, failedAttempts, availableAt, waits>>

\* The Run and its Job go back to the queue without a lease.
Requeue(r, at) ==
    /\ runStatus'    = [runStatus EXCEPT ![r] = "queued"]
    /\ jobStatus'    = [jobStatus EXCEPT ![r] = "queued"]
    /\ leaseToken'   = [leaseToken EXCEPT ![r] = 0]
    /\ leaseExpires' = [leaseExpires EXCEPT ![r] = 0]
    /\ availableAt'  = [availableAt EXCEPT ![r] = at]
    /\ UNCHANGED <<now, errorCode, outputBy, deadline, attemptNo>>

----------------------------------------------------------------------------
(* Control plane: admission, cancellation, expiry.                         *)

Admit(r) ==
    /\ runStatus[r] = "absent"
    /\ now + RunTimeout <= MaxTime
    /\ runStatus'   = [runStatus EXCEPT ![r] = "queued"]
    /\ deadline'    = [deadline EXCEPT ![r] = now + RunTimeout]
    /\ jobStatus'   = [jobStatus EXCEPT ![r] = "queued"]
    /\ availableAt' = [availableAt EXCEPT ![r] = now]
    /\ UNCHANGED <<now, errorCode, outputBy, attemptNo, failedAttempts,
                   leaseToken, leaseExpires, waits, workerVars>>

\* Mutant: the Run is cancelled and its Job stays leased.
CancelRunOnly(r) ==
    /\ runStatus[r] \in ActiveStatus
    /\ runStatus' = [runStatus EXCEPT ![r] = "cancelled"]
    /\ UNCHANGED <<now, errorCode, outputBy, deadline, jobVars, workerVars>>

\* Cancelling a cancelled Run returns it unchanged and a completed or failed
\* Run is refused: both leave every row alone.
Cancel(r) ==
    /\ runStatus[r] \in ActiveStatus
    /\ EndRun(r, "cancelled", "none")
    /\ UNCHANGED <<outputBy, workerVars>>

\* Mutant: expiry does not look at the Run's status.
OverdueAnyStatus(r) == runStatus[r] # "absent" /\ deadline[r] <= now

\* Mutant: expiry looks at running Runs only.
OverdueRunningOnly(r) == runStatus[r] = "running" /\ deadline[r] <= now

Overdue(r) ==
    /\ runStatus[r] \in ActiveStatus
    /\ jobStatus[r] \in ActiveStatus
    /\ deadline[r] <= now

\* A column of the Runs after ExpireIfOverdue wrote v for the overdue ones.
AfterExpiry(column, v) == [r \in Runs |-> IF Overdue(r) THEN v ELSE column[r]]

\* A Member reading a Run's projection expires it when it is overdue.
ExpireOnRead(r) ==
    /\ Overdue(r)
    /\ EndRun(r, "failed", "run_deadline_exceeded")
    /\ UNCHANGED <<outputBy, workerVars>>

----------------------------------------------------------------------------
(* Queue.ClaimNext: expire every overdue Run, then lease one Job.          *)

LeaseLost(r) == jobStatus[r] = "running"

\* FOR UPDATE SKIP LOCKED passes over rows another transaction holds, so any
\* eligible Job may be the one selected.
Claimable(r) ==
    /\ ~Overdue(r)
    /\ \/ jobStatus[r] = "queued" /\ runStatus[r] = "queued" /\ availableAt[r] <= now
       \/ jobStatus[r] = "running" /\ runStatus[r] = "running" /\ leaseExpires[r] <= now

Exhausted(r) ==
    \/ LeaseLost(r) /\ failedAttempts[r] + 1 >= MaxAttempts
    \/ attemptNo[r] >= MaxAgentLeases

CanClaim(w) == phase[w] \in {"idle", "claim_error"}

ClaimNothing(w) ==
    /\ CanClaim(w)
    /\ \A r \in Runs : ~Claimable(r)
    /\ runStatus'    = AfterExpiry(runStatus, "failed")
    /\ errorCode'    = AfterExpiry(errorCode, "run_deadline_exceeded")
    /\ jobStatus'    = AfterExpiry(jobStatus, "failed")
    /\ leaseToken'   = AfterExpiry(leaseToken, 0)
    /\ leaseExpires' = AfterExpiry(leaseExpires, 0)
    /\ phase'        = [phase EXCEPT ![w] = "idle"]
    /\ UNCHANGED <<now, outputBy, deadline, attemptNo, failedAttempts,
                   availableAt, waits, heldRun, heldToken, heartbeat, result>>

\* Mutant: an expired lease is taken over with its old token.
NewTokenUnlessReclaimed(r) == IF LeaseLost(r) THEN attemptNo[r] ELSE attemptNo[r] + 1

\* The fresh token, and the attempt number that goes with it.
NewToken(r) == attemptNo[r] + 1

ClaimLease(w, r) ==
    /\ CanClaim(w)
    /\ Claimable(r)
    /\ ~Exhausted(r)
    /\ runStatus'      = [AfterExpiry(runStatus, "failed") EXCEPT ![r] = "running"]
    /\ errorCode'      = AfterExpiry(errorCode, "run_deadline_exceeded")
    /\ jobStatus'      = [AfterExpiry(jobStatus, "failed") EXCEPT ![r] = "running"]
    /\ attemptNo'      = [attemptNo EXCEPT ![r] = NewToken(r)]
    /\ failedAttempts' = [failedAttempts EXCEPT ![r] = IF LeaseLost(r) THEN @ + 1 ELSE @]
    /\ leaseToken'     = [AfterExpiry(leaseToken, 0) EXCEPT ![r] = NewToken(r)]
    /\ leaseExpires'   = [AfterExpiry(leaseExpires, 0) EXCEPT ![r] = now + LeaseDuration]
    /\ phase'          = [phase EXCEPT ![w] = "executing"]
    /\ heldRun'        = [heldRun EXCEPT ![w] = r]
    /\ heldToken'      = [heldToken EXCEPT ![w] = NewToken(r)]
    /\ heartbeat'      = [heartbeat EXCEPT ![w] = "ok"]
    /\ result'         = [result EXCEPT ![w] = "none"]
    /\ UNCHANGED <<now, outputBy, deadline, availableAt, waits>>

\* exhaustRecovery on a Job whose last lease expired: terminal, and the loop
\* goes on to the next Job.
ClaimExhausted(w, r) ==
    /\ CanClaim(w)
    /\ Claimable(r)
    /\ Exhausted(r)
    /\ leaseToken[r] # 0
    /\ runStatus'    = [AfterExpiry(runStatus, "failed") EXCEPT ![r] = "failed"]
    /\ errorCode'    = [AfterExpiry(errorCode, "run_deadline_exceeded")
                           EXCEPT ![r] = "recovery_exhausted"]
    /\ jobStatus'    = [AfterExpiry(jobStatus, "failed") EXCEPT ![r] = "failed"]
    /\ leaseToken'   = [AfterExpiry(leaseToken, 0) EXCEPT ![r] = 0]
    /\ leaseExpires' = [AfterExpiry(leaseExpires, 0) EXCEPT ![r] = 0]
    /\ phase'        = [phase EXCEPT ![w] = "idle"]
    /\ UNCHANGED <<now, outputBy, deadline, attemptNo, failedAttempts,
                   availableAt, waits, heldRun, heldToken, heartbeat, result>>

\* exhaustRecovery on a queued Job: it has no lease token, so
\* TerminalizeAttemptStateInTx refuses it, ClaimNext returns the error and the
\* transaction, expiries included, rolls back.
ClaimFails(w, r) ==
    /\ CanClaim(w)
    /\ Claimable(r)
    /\ Exhausted(r)
    /\ leaseToken[r] = 0
    /\ phase' = [phase EXCEPT ![w] = "claim_error"]
    /\ UNCHANGED <<now, runVars, jobVars, heldRun, heldToken, heartbeat, result>>

ClaimNext(w) ==
    \/ ClaimNothing(w)
    \/ \E r \in Runs : ClaimLease(w, r) \/ ClaimExhausted(w, r) \/ ClaimFails(w, r)

----------------------------------------------------------------------------
(* An executing Attempt.  Slot w may be a straggler: its lease may have    *)
(* expired and been given to another slot.                                 *)

\* Mutant: any running lease of the Run passes the fence.
HoldsAnyToken(w) == heldRun[w] \in Runs /\ jobStatus[heldRun[w]] = "running"

\* The row still carries the lease this slot was given.
HoldsToken(w) ==
    LET r == heldRun[w] IN
    /\ r \in Runs
    /\ jobStatus[r] = "running"
    /\ leaseToken[r] = heldToken[w]

\* ... and the lease has not expired.
HoldsLease(w) == HoldsToken(w) /\ leaseExpires[heldRun[w]] > now

\* lockCheckpointAuthority: a live lease, a running Run without output, and a
\* deadline that has not passed.
Authority(w) ==
    /\ HoldsLease(w)
    /\ runStatus[heldRun[w]] = "running"
    /\ outputBy[heldRun[w]] = 0
    /\ deadline[heldRun[w]] > now

ReturnFrom(w, res) ==
    /\ phase'  = [phase EXCEPT ![w] = "returned"]
    /\ result' = [result EXCEPT ![w] = res]
    /\ UNCHANGED <<heldRun, heldToken, heartbeat>>

\* The heartbeat goroutine extends a live lease or reports it lost, which
\* cancels the Attempt's context.
Heartbeat(w) ==
    /\ phase[w] = "executing"
    /\ heartbeat[w] = "ok"
    /\ IF HoldsLease(w)
       THEN /\ leaseExpires' = [leaseExpires EXCEPT ![heldRun[w]] = now + LeaseDuration]
            /\ UNCHANGED heartbeat
       ELSE /\ heartbeat' = [heartbeat EXCEPT ![w] = "lost"]
            /\ UNCHANGED leaseExpires
    /\ UNCHANGED <<now, runVars, jobStatus, attemptNo, failedAttempts, leaseToken,
                   availableAt, waits, phase, heldRun, heldToken, result>>

\* The heartbeat statement itself fails.
HeartbeatError(w) ==
    /\ phase[w] = "executing"
    /\ heartbeat[w] = "ok"
    /\ heartbeat' = [heartbeat EXCEPT ![w] = "error"]
    /\ UNCHANGED <<now, runVars, jobVars, phase, heldRun, heldToken, result>>

\* publishOnce: the answer, the completed Run and the succeeded Job commit
\* together.
Publish(w) ==
    /\ phase[w] = "executing"
    /\ Authority(w)
    /\ EndRun(heldRun[w], "completed", "none")
    /\ outputBy' = [outputBy EXCEPT ![heldRun[w]] = heldToken[w]]
    /\ ReturnFrom(w, "completed")

\* PostgresRuntime.Fail: the controller fails the Run itself and then returns
\* the cause, which is classified terminal.
FailRun(w) ==
    /\ phase[w] = "executing"
    /\ HoldsLease(w)
    /\ runStatus[heldRun[w]] = "running"
    /\ outputBy[heldRun[w]] = 0
    /\ EndRun(heldRun[w], "failed", "agent_execution_failed")
    /\ UNCHANGED outputBy
    /\ ReturnFrom(w, "terminal")

\* wait_agent with no finished child: the Run goes back to the queue until the
\* wait's deadline and the Attempt ends as if its lease were lost.
YieldForWait(w, timeout) ==
    /\ phase[w] = "executing"
    /\ Authority(w)
    /\ Requeue(heldRun[w], now + timeout)
    /\ waits' = [waits EXCEPT ![heldRun[w]] = @ + 1]
    /\ UNCHANGED failedAttempts
    /\ ReturnFrom(w, "lease_lost")

\* nano_sync_runtime_subagents: a child that ends makes its waiting parent's
\* queued Job available at once.
WakeWaiting(r) ==
    /\ waits[r] > 0
    /\ jobStatus[r] = "queued"
    /\ availableAt[r] > now
    /\ availableAt' = [availableAt EXCEPT ![r] = now]
    /\ UNCHANGED <<now, runVars, jobStatus, attemptNo, failedAttempts, leaseToken,
                   leaseExpires, waits, workerVars>>

\* The Role Executor returns without having committed an end of its own: a
\* transient error or timeout, a permanent error, a fence it ran into, or a
\* cancelled context.
Return(w, res) ==
    /\ phase[w] = "executing"
    /\ ReturnFrom(w, res)
    /\ UNCHANGED <<now, runVars, jobVars>>

Interruptions == {"retryable", "terminal", "lease_lost", "cancelled"}

----------------------------------------------------------------------------
(* The tail of executeClaim and Queue.ResolveAttempt.                      *)

FreeSlot(w) ==
    /\ phase'     = [phase EXCEPT ![w] = "idle"]
    /\ heldRun'   = [heldRun EXCEPT ![w] = NoRun]
    /\ heldToken' = [heldToken EXCEPT ![w] = 0]
    /\ heartbeat' = [heartbeat EXCEPT ![w] = "ok"]
    /\ result'    = [result EXCEPT ![w] = "none"]

\* A lost lease is somebody else's: the slot writes nothing.
AbandonLost(w) ==
    /\ phase[w] = "returned"
    /\ heartbeat[w] = "lost" \/ (heartbeat[w] = "ok" /\ result[w] = "lease_lost")
    /\ FreeSlot(w)
    /\ UNCHANGED <<now, runVars, jobVars>>

\* A failed heartbeat or a cancelled context gives the lease back early.
ReleaseLease(w) ==
    /\ phase[w] = "returned"
    /\ heartbeat[w] = "error" \/ (heartbeat[w] = "ok" /\ result[w] = "cancelled")
    /\ leaseExpires' = IF HoldsToken(w)
                       THEN [leaseExpires EXCEPT ![heldRun[w]] = now]
                       ELSE leaseExpires
    /\ FreeSlot(w)
    /\ UNCHANGED <<now, runVars, jobStatus, attemptNo, failedAttempts, leaseToken,
                   availableAt, waits>>

Resolving(w) ==
    /\ phase[w] = "returned"
    /\ heartbeat[w] = "ok"
    /\ result[w] \in {"completed", "retryable", "terminal"}

\* The Job ended or was leased again: the stored outcome stands.
ResolveStale(w) ==
    /\ Resolving(w)
    /\ ~HoldsToken(w)
    /\ FreeSlot(w)
    /\ UNCHANGED <<now, runVars, jobVars>>

OutOfAttempts(w) ==
    \/ failedAttempts[heldRun[w]] + 1 >= MaxAttempts
    \/ heldToken[w] >= MaxAgentLeases

ResolveRetry(w, backoff) ==
    LET r == heldRun[w] IN
    /\ Resolving(w)
    /\ HoldsToken(w)
    /\ result[w] = "retryable"
    /\ ~OutOfAttempts(w)
    /\ now + backoff < deadline[r]
    /\ Requeue(r, now + backoff)
    /\ failedAttempts' = [failedAttempts EXCEPT ![r] = @ + 1]
    /\ UNCHANGED waits
    /\ FreeSlot(w)

\* TerminalizeAttemptStateInTx with the code ResolveAttempt chose.
Terminalize(w, code) ==
    /\ runStatus[heldRun[w]] = "running"
    /\ outputBy[heldRun[w]] = 0
    /\ EndRun(heldRun[w], "failed", code)
    /\ UNCHANGED outputBy
    /\ FreeSlot(w)

ResolveTerminal(w, backoff) ==
    /\ Resolving(w)
    /\ HoldsToken(w)
    /\ \/ result[w] = "terminal" /\ Terminalize(w, "agent_execution_failed")
       \/ /\ result[w] = "retryable"
          /\ OutOfAttempts(w)
          /\ Terminalize(w, "retry_exhausted")
       \/ /\ result[w] = "retryable"
          /\ ~OutOfAttempts(w)
          /\ now + backoff >= deadline[heldRun[w]]
          /\ Terminalize(w, "run_deadline_exceeded")

\* The process dies, or the database cannot be reached for the last write.
Crash(w) ==
    /\ phase[w] \in {"executing", "returned"}
    /\ FreeSlot(w)
    /\ UNCHANGED <<now, runVars, jobVars>>

Finish(w) ==
    \/ AbandonLost(w)
    \/ ReleaseLease(w)
    \/ ResolveStale(w)
    \/ \E b \in Backoffs : ResolveRetry(w, b) \/ ResolveTerminal(w, b)

----------------------------------------------------------------------------
WorkerStep(w) ==
    \/ ClaimNext(w)
    \/ Heartbeat(w)
    \/ HeartbeatError(w)
    \/ Publish(w)
    \/ FailRun(w)
    \/ \E t \in WaitTimeouts : YieldForWait(w, t)
    \/ \E res \in Interruptions : Return(w, res)
    \/ Finish(w)
    \/ Crash(w)

RunStep(r) == Admit(r) \/ Cancel(r) \/ ExpireOnRead(r) \/ WakeWaiting(r)

Next ==
    \/ Tick
    \/ \E r \in Runs : RunStep(r)
    \/ \E w \in Workers : WorkerStep(w)

Spec == Init /\ [][Next]_vars

\* The clock runs; a worker drains the queue on every scan interval; runTimeout
\* ends every Attempt and executeClaim then runs to its end.
Fairness ==
    /\ WF_vars(Tick)
    /\ \A w \in Workers :
          /\ WF_vars(ClaimNext(w))
          /\ WF_vars(\E res \in Interruptions : Return(w, res))
          /\ WF_vars(Finish(w))

FairSpec == Spec /\ Fairness

----------------------------------------------------------------------------
Terminal(r) == runStatus[r] \in TerminalStatus

\* Type invariant of the tables and of the worker slots.
TypeOK ==
    /\ now \in Nat
    /\ runStatus \in [Runs -> RunStatuses]
    /\ errorCode \in [Runs -> ErrorCodes]
    /\ outputBy \in [Runs -> Nat]
    /\ deadline \in [Runs -> Nat]
    /\ jobStatus \in [Runs -> JobStatuses]
    /\ attemptNo \in [Runs -> Nat]
    /\ failedAttempts \in [Runs -> Nat]
    /\ leaseToken \in [Runs -> Nat]
    /\ leaseExpires \in [Runs -> Nat]
    /\ availableAt \in [Runs -> Nat]
    /\ waits \in [Runs -> Nat]
    /\ phase \in [Workers -> Phases]
    /\ heldRun \in [Workers -> Runs \cup {NoRun}]
    /\ heldToken \in [Workers -> Nat]
    /\ heartbeat \in [Workers -> {"ok", "lost", "error"}]
    /\ result \in [Workers -> Results]

\* Run and Job move together whatever transactions interleave: the Job's
\* status is the Run's, a lease token is stored exactly while the Job runs, and
\* an answer exactly when the Run completed (the row counts every update of
\* queue.go, store.go and postgres_runtime.go checks).
RunJobAgree ==
    \A r \in Runs :
        /\ jobStatus[r] = JobStatusOf(runStatus[r])
        /\ (leaseToken[r] # 0) <=> (jobStatus[r] = "running")
        /\ (outputBy[r] # 0) <=> (runStatus[r] = "completed")

\* A running Job carries the token of its newest Attempt, and no two slots
\* ever hold the same token: at most one Attempt can pass a lease fence.
LeaseFence ==
    /\ \A r \in Runs : leaseToken[r] \in {0, attemptNo[r]}
    /\ \A w \in Workers :
          phase[w] \in {"executing", "returned"} =>
              /\ heldRun[w] \in Runs
              /\ heldToken[w] \in 1..attemptNo[heldRun[w]]
              /\ \A v \in Workers \ {w} :
                    heldRun[v] = heldRun[w] => heldToken[v] # heldToken[w]

\* Every lease of an active Job is accounted for: beyond the one it holds, it
\* was either a counted failure or a resumption after wait_agent, and the
\* counted failures stay below the definition's attempts (queue.go: "A running
\* Job claimed here lost its lease, which counts as a failed Attempt;
\* resumptions after a wait do not").
AttemptAccounting ==
    \A r \in Runs :
        runStatus[r] \in ActiveStatus =>
            /\ attemptNo[r] = failedAttempts[r] + waits[r]
                              + (IF jobStatus[r] = "running" THEN 1 ELSE 0)
            /\ failedAttempts[r] < MaxAttempts
            /\ attemptNo[r] <= MaxAgentLeases

\* The answer of a completed Run was written by its newest Attempt: a
\* straggler whose Job was leased again never publishes.
PublishedByNewestAttempt ==
    \A r \in Runs : runStatus[r] = "completed" => outputBy[r] = attemptNo[r]

Row(r) == <<runStatus[r], errorCode[r], outputBy[r], deadline[r], jobStatus[r],
            attemptNo[r], failedAttempts[r], leaseToken[r], leaseExpires[r],
            availableAt[r], waits[r]>>

\* A terminal Run is never reopened: no claim, resolution, publication,
\* cancellation or expiry changes its row or its Job's row any more.
TerminalIsFinal ==
    [][\A r \in Runs : Terminal(r) => Row(r)' = Row(r)]_vars

\* A slot whose token is no longer the stored one changes neither row of the
\* Run it still believes to execute.
StaleAttemptInert ==
    [][\A w \in Workers, r \in Runs :
          (/\ phase[w] \in {"executing", "returned"}
           /\ heldRun[w] = r
           /\ leaseToken[r] # heldToken[w]
           /\ <<phase[w], heartbeat[w]>>' # <<phase[w], heartbeat[w]>>)
              => Row(r)' = Row(r)]_vars

\* No Run is leased or completed at or after its deadline, although nothing but
\* the next claim or read notices that the deadline passed.
DeadlineHolds ==
    [][\A r \in Runs :
          (attemptNo'[r] # attemptNo[r] \/ (runStatus'[r] = "completed" /\ ~Terminal(r)))
              => now < deadline[r]]_vars

\* Detailed Runs implement the abstract life of a Run (module RunLifecycle).
Lifecycle == INSTANCE RunLifecycle WITH status <- runStatus, answer <- outputBy

\* Whatever leases, crashes and retries do, a reader of agent_runs sees only the
\* abstract life of a Run, with one answer written when it completes.
RefinesRunLifecycle == Lifecycle!LifecycleSpec

\* Every admitted Run ends, whatever crashes, lost leases, failed heartbeats
\* and retries happen on the way.
AdmittedRunsEnd ==
    \A r \in Runs : (runStatus[r] # "absent") ~> Terminal(r)

\* ARCHITECTURE.md: "An Agent Job permits at most three total execution
\* attempts, including its initial claim."
\* Does not hold: see "Disagreements" in the README.
AtMostMaxAttempts == \A r \in Runs : attemptNo[r] <= MaxAttempts

\* A Job at a bound is failed with recovery_exhausted by the claim that selects
\* it: no claim of an eligible Job ends in an error.
ClaimNeverErrors == \A w \in Workers : phase[w] # "claim_error"
============================================================================
