----------------------------- MODULE Subagents -----------------------------
(***************************************************************************)
(* A research root Run and the runtime subagents it spawns                 *)
(* (internal/agent/runtime_subagent.go, research_reader_queue.go), with    *)
(* the triggers that tie their rows together                               *)
(* (internal/app/runtime_subagent_schema.go).                              *)
(*                                                                         *)
(* The grain is the row lock.  A transaction takes the rows of one Run     *)
(* (agent_runs and agent_jobs, always locked together) after another, may  *)
(* wait for each, and its writes become visible when it commits.           *)
(* Statements read what is committed when they start.  PostgreSQL breaks a *)
(* cycle of waiting transactions by aborting one of them.                  *)
(*                                                                         *)
(* Leases and Attempts are in module AgentJobs, checkpoints in module      *)
(* Checkpoints: here the root executes one Action after another, and one   *)
(* whose result is not stored is executed again.                           *)
(***************************************************************************)
EXTENDS Integers, FiniteSets

CONSTANTS
    MaxChildren,   \* bound on the child Runs a behaviour may create
    MaxActive,     \* runtimeSubagentMaxActive
    MaxTotal,      \* runtimeSubagentMaxTotal
    MaxActions,    \* bound on the Actions of the root
    Timeouts,      \* values of timeout_ms
    Backoff,       \* retry delay of the queue
    Deadline,      \* absolute_deadline of the tree
    MaxTime        \* bound on the clock

\* Of the constants; the MC modules that instantiate this one assume it.
SubagentsAssumption ==
    /\ MaxChildren \in Nat
    /\ MaxActive \in Nat
    /\ MaxTotal \in Nat
    /\ MaxActions \in Nat
    /\ Timeouts \subseteq Nat
    /\ Backoff \in Nat
    /\ Deadline \in Nat
    /\ MaxTime \in Nat

\* Runs, and the transactions: one per Run (its worker's), the cancel request
\* of the Member and the expiry scan.
Root     == 0
Children == 1..MaxChildren
Runs     == {Root} \cup Children
Member   == -1
Sweeper  == -2
None     == -3
Txs      == Runs \cup {Member, Sweeper}

Active   == {"queued", "running"}
Terminal == {"completed", "failed", "cancelled"}

VARIABLES
    status,       \* committed agent_runs.status, "absent" before the insert
    availableAt,  \* agent_jobs.available_at of the root
    waits,        \* agent_subagent_waits: [agents, deadline] by Action, or None
    childOf,      \* agent_subagents: child by Action, or None
    act,          \* the root's last proposed Action, "none" when answered
    excerpts,     \* read_url Actions answered reader_capacity_excerpt
    now,          \* PostgreSQL time
    lock,         \* transaction that holds the rows of a Run
    want,         \* Run whose rows a transaction waits for
    step,         \* where a transaction is
    began,        \* now() of a worker's transaction: its start
    endAs,        \* status a transaction is about to commit
    parked        \* history: the root yielded in a wait and was not claimed since

rows  == <<status, availableAt, waits, childOf>>
root  == <<act, excerpts>>
locks == <<lock, want>>
txs   == <<step, began, endAs>>
vars  == <<rows, root, now, locks, txs, parked>>

NoRow   == [agents |-> {}, deadline |-> -1]
Actions == 1..MaxActions

Init ==
    /\ status      = [r \in Runs |-> IF r = Root THEN "running" ELSE "absent"]
    /\ availableAt = 0
    /\ waits       = [a \in Actions |-> NoRow]
    /\ childOf     = [a \in Actions |-> None]
    /\ act         = [no |-> 0, kind |-> "none", agents |-> {}, timeout |-> 0]
    /\ excerpts    = {}
    /\ now         = 0
    /\ lock        = [r \in Runs |-> None]
    /\ want        = [t \in Txs |-> None]
    /\ step        = [t \in Txs |-> "idle"]
    /\ began       = [t \in Txs |-> 0]
    /\ endAs       = [t \in Txs |-> "none"]
    /\ parked      = FALSE

----------------------------------------------------------------------------
(* Transactions and row locks.                                             *)

Unlocked(r) == lock[r] = None

Locked(t) == {r \in Runs : lock[r] = t}

\* t locks the rows of r, or starts to wait for them.
Take(t, r) ==
    IF Unlocked(r) THEN lock' = [lock EXCEPT ![r] = t] /\ UNCHANGED want
                   ELSE want' = [want EXCEPT ![t] = r] /\ UNCHANGED lock

Acquire(t) ==
    /\ want[t] # None
    /\ Unlocked(want[t])
    /\ lock' = [lock EXCEPT ![want[t]] = t]
    /\ want' = [want EXCEPT ![t] = None]
    /\ UNCHANGED <<rows, root, now, txs, parked>>

\* t ends: its locks are free and it goes on in where.
Close(t, where) ==
    /\ lock'  = [r \in Runs |-> IF lock[r] = t THEN None ELSE lock[r]]
    /\ want'  = [want EXCEPT ![t] = None]
    /\ step'  = [step EXCEPT ![t] = where]
    /\ began' = [began EXCEPT ![t] = 0]
    /\ endAs' = [endAs EXCEPT ![t] = "none"]

\* t begins by locking r.
Open(t, r, where, as) ==
    /\ step[t] = "idle"
    /\ Unlocked(r)
    /\ lock'  = [lock EXCEPT ![r] = t]
    /\ step'  = [step EXCEPT ![t] = where]
    /\ began' = [began EXCEPT ![t] = IF t \in Runs THEN now ELSE 0]
    /\ endAs' = [endAs EXCEPT ![t] = as]
    /\ UNCHANGED want

Blocker(t) == IF want[t] = None THEN None ELSE lock[want[t]]

InCycle(t) ==
    /\ want[t] # None
    /\ \E S \in SUBSET Txs :
          /\ t \in S
          /\ \A s \in S : Blocker(s) \in S
          /\ \A s \in S : \E u \in S : Blocker(u) = s

\* A worker whose transaction failed starts again in another Attempt, unless
\* the deadline has passed: an overdue Run is not claimed.
Restart(t) == IF t \in Runs /\ now >= Deadline THEN "gone" ELSE "idle"

\* The deadlock detector aborts a transaction.  A worker's or the scan's is
\* tried again; the Member's request has failed.
AbortVictim(t) ==
    /\ InCycle(t)
    /\ Close(t, IF t = Member THEN "error" ELSE Restart(t))
    /\ UNCHANGED <<rows, root, now, parked>>

\* The process dies or loses its connection: the server rolls back.
Crash(t) ==
    /\ t \in Runs
    /\ step[t] \notin {"idle", "gone"}
    /\ Close(t, Restart(t))
    /\ UNCHANGED <<rows, root, now, parked>>

Tick ==
    /\ now < MaxTime
    /\ now' = now + 1
    /\ UNCHANGED <<rows, root, locks, txs, parked>>

----------------------------------------------------------------------------
(* The root's Actions.                                                     *)

Created == {c \in Children : status[c] # "absent"}

ActiveChildren == {c \in Children : status[c] \in Active}

\* Mutant: off by one.
FullLate ==
    \/ Cardinality(ActiveChildren) > MaxActive
    \/ Cardinality(Created) > MaxTotal

Full ==
    \/ Cardinality(ActiveChildren) >= MaxActive
    \/ Cardinality(Created) >= MaxTotal

\* lockCheckpointAuthority of the root's worker.
Authority == status[Root] = "running" /\ now < Deadline /\ Unlocked(Root)

Proposed(kind) == step[Root] = "idle" /\ act.kind = kind

Propose(kind, agents, timeout) ==
    /\ Proposed("none")
    /\ Authority
    /\ act.no < MaxActions
    /\ act' = [no |-> act.no + 1, kind |-> kind, agents |-> agents, timeout |-> timeout]
    /\ UNCHANGED <<rows, excerpts, now, locks, txs, parked>>

Answer(how) == step' = [step EXCEPT ![Root] = how]

\* spawn_agent, or a read_url that hands a long document to a reader.  At
\* capacity the first is refused and the second returns an excerpt.
Spawn ==
    /\ Proposed("spawn")
    /\ Authority
    /\ \/ /\ childOf[act.no] # None
          /\ Answer("result")
          /\ UNCHANGED <<status, childOf>>
       \/ /\ childOf[act.no] = None
          /\ Full
          /\ Answer("result") \/ Answer("excerpt")
          /\ UNCHANGED <<status, childOf>>
       \/ /\ childOf[act.no] = None
          /\ ~Full
          /\ \E c \in Children \ Created :
                /\ status'  = [status EXCEPT ![c] = "queued"]
                /\ childOf' = [childOf EXCEPT ![act.no] = c]
          /\ Answer("result")
    /\ UNCHANGED <<availableAt, waits, root, now, locks, began, endAs, parked>>

BeginWait ==
    /\ Proposed("wait")
    /\ Authority
    /\ Open(Root, Root, "observing", "none")
    /\ UNCHANGED <<rows, root, now, parked>>

\* Mutant: the children are read without locking them.
ObserveUnlocked == {}

\* Children the wait has to lock before it reads them.
Observe == act.agents

Unobserved == Observe \ Locked(Root)

ObserveChild ==
    /\ step[Root] = "observing"
    /\ want[Root] = None
    /\ Unobserved # {}
    /\ Take(Root, CHOOSE c \in Unobserved : \A d \in Unobserved : c <= d)
    /\ UNCHANGED <<rows, root, now, txs, parked>>

\* Queued reads the wait gives to new readers, oldest first, while slots are
\* free.
Dispatched ==
    LET K == {a \in excerpts : childOf[a] = None} IN
    {a \in K : LET before == Cardinality({b \in K : b < a}) IN
               /\ Cardinality(ActiveChildren) + before < MaxActive
               /\ Cardinality(Created) + before < MaxTotal}

\* insert ... on conflict do nothing, then select.
WaitRow ==
    IF waits[act.no] # NoRow THEN waits[act.no]
    ELSE [agents |-> act.agents, deadline |-> began[Root] + act.timeout]

\* The wait reads its children: it will return when one of them has ended.
LoadAgents ==
    /\ step[Root] = "observing"
    /\ want[Root] = None
    /\ Unobserved = {}
    /\ LET ready == \E c \in act.agents : status[c] \in Terminal
       IN  Answer(IF ready \/ act.timeout = 0 THEN "returning" ELSE "yielding")
    /\ UNCHANGED <<rows, root, now, locks, began, endAs, parked>>

\* The rest of wait: return what was read, or give the worker back until the
\* deadline.
FinishWait ==
    /\ step[Root] \in {"returning", "yielding"}
    /\ \E f \in [Dispatched -> Children \ Created] :
          /\ \A a, b \in Dispatched : f[a] = f[b] => a = b
          /\ childOf' = [a \in Actions |-> IF a \in Dispatched THEN f[a] ELSE childOf[a]]
          /\ LET spawned == [r \in Runs |-> IF \E a \in Dispatched : f[a] = r
                                            THEN "queued" ELSE status[r]]
             IN  \/ /\ step[Root] = "returning"
                    /\ status' = spawned
                    /\ Close(Root, "result")
                    /\ UNCHANGED <<availableAt, waits, parked>>
                 \/ /\ step[Root] = "yielding"
                    /\ waits' = [waits EXCEPT ![act.no] = WaitRow]
                    /\ IF WaitRow.deadline <= began[Root]
                       THEN /\ status' = spawned
                            /\ Close(Root, "result")
                            /\ UNCHANGED <<availableAt, parked>>
                       ELSE /\ status' = [spawned EXCEPT ![Root] = "queued"]
                            /\ availableAt' = WaitRow.deadline
                            /\ parked' = TRUE
                            /\ Close(Root, "idle")
    /\ UNCHANGED <<root, now>>

\* The Action Result is appended.
StoreResult ==
    /\ step[Root] \in {"result", "excerpt"}
    /\ Authority
    /\ excerpts' = IF step[Root] = "excerpt" THEN excerpts \cup {act.no} ELSE excerpts
    /\ act' = [act EXCEPT !.kind = "none"]
    /\ Close(Root, "idle")
    /\ UNCHANGED <<rows, now, parked>>

\* ResolveAttempt requeues a failed Attempt.
RetryRoot ==
    /\ step[Root] = "idle"
    /\ status[Root] = "running"
    /\ Unlocked(Root)
    /\ status' = [status EXCEPT ![Root] = "queued"]
    /\ availableAt' = now + Backoff
    /\ UNCHANGED <<waits, childOf, root, now, locks, txs, parked>>

\* ClaimNext, which skips locked rows.
ClaimRoot ==
    /\ status[Root] = "queued"
    /\ availableAt <= now
    /\ now < Deadline
    /\ Unlocked(Root)
    /\ status' = [status EXCEPT ![Root] = "running"]
    /\ parked' = FALSE
    /\ UNCHANGED <<availableAt, waits, childOf, root, now, locks, txs>>

----------------------------------------------------------------------------
(* The end of the root: its worker publishes or fails it, or the Member     *)
(* cancels it.  The trigger cancels the children one row after another.    *)

BeginEnd(t, as) ==
    /\ \/ t = Root /\ as = "completed" /\ Authority /\ act.kind = "none"
       \/ t = Root /\ as = "failed" /\ status[Root] = "running"
       \/ t = Member /\ as = "cancelled" /\ status[Root] \in Active
    /\ Open(t, Root, "ending", as)
    /\ UNCHANGED <<rows, root, now, parked>>

\* Mutant: only children that run are cancelled.
OutstandingRunning == {c \in Children : status[c] = "running"}

\* Children the trigger has to cancel.
Outstanding == {c \in Children : status[c] \in Active}

CancelChild(t) ==
    /\ step[t] = "ending"
    /\ want[t] = None
    /\ \E c \in Outstanding \ Locked(t) : Take(t, c)
    /\ UNCHANGED <<rows, root, now, txs, parked>>

FinishEnd(t) ==
    /\ step[t] = "ending"
    /\ want[t] = None
    /\ Outstanding \subseteq Locked(t)
    /\ status' = [r \in Runs |-> IF r = Root THEN endAs[t]
                                 ELSE IF r \in Outstanding THEN "cancelled" ELSE status[r]]
    /\ Close(t, "idle")
    /\ UNCHANGED <<availableAt, waits, childOf, root, now, parked>>

----------------------------------------------------------------------------
(* ExpireIfOverdue: the children of the tree are locked before the root.   *)

\* Mutant: only running Runs expire.
OverdueRunning == {r \in Runs : status[r] = "running"}

Overdue == {r \in Runs : status[r] \in Active}

BeginExpiry ==
    /\ step[Sweeper] = "idle"
    /\ now >= Deadline
    /\ Overdue # {}
    /\ step' = [step EXCEPT ![Sweeper] = "sweeping"]
    /\ UNCHANGED <<rows, root, now, locks, began, endAs, parked>>

SweepNext ==
    /\ step[Sweeper] = "sweeping"
    /\ want[Sweeper] = None
    /\ LET left == Overdue \ Locked(Sweeper)
           pick == IF left = {Root} THEN left ELSE left \ {Root}
       IN  /\ left # {}
           /\ Take(Sweeper, CHOOSE r \in pick : \A s \in pick : r <= s)
    /\ UNCHANGED <<rows, root, now, txs, parked>>

FinishExpiry ==
    /\ step[Sweeper] = "sweeping"
    /\ want[Sweeper] = None
    /\ Overdue \subseteq Locked(Sweeper)
    /\ status' = [r \in Runs |-> IF r \in Overdue THEN "failed" ELSE status[r]]
    /\ Close(Sweeper, "idle")
    /\ UNCHANGED <<availableAt, waits, childOf, root, now, parked>>

----------------------------------------------------------------------------
(* A child Run.                                                            *)

ClaimChild(c) ==
    /\ status[c] = "queued"
    /\ now < Deadline
    /\ Unlocked(c)
    /\ status' = [status EXCEPT ![c] = "running"]
    /\ UNCHANGED <<availableAt, waits, childOf, root, now, locks, txs, parked>>

RetryChild(c) ==
    /\ status[c] = "running"
    /\ step[c] = "idle"
    /\ Unlocked(c)
    /\ status' = [status EXCEPT ![c] = "queued"]
    /\ UNCHANGED <<availableAt, waits, childOf, root, now, locks, txs, parked>>

BeginChildEnd(c, as) ==
    /\ status[c] = "running"
    /\ as = "completed" => now < Deadline
    /\ Open(c, c, "ended", as)
    /\ UNCHANGED <<rows, root, now, parked>>

\* The Action has an action_result.
Answered(a) == a < act.no \/ act.kind = "none"

\* The trigger finds the parent queued in an unanswered wait for c.
Wakes(c) ==
    /\ status[Root] = "queued"
    /\ \E a \in Actions : c \in waits[a].agents /\ ~Answered(a)

ChildEnds(c, wakes) ==
    /\ status' = [status EXCEPT ![c] = endAs[c]]
    /\ availableAt' = IF wakes THEN began[c] ELSE availableAt
    /\ Close(c, "idle")
    /\ UNCHANGED <<waits, childOf, root, now, parked>>

\* The child's terminal update and the trigger it fires, up to the commit or
\* to the wait for the parent's Job.
FinishChildEnd(c) ==
    /\ step[c] = "ended"
    /\ \/ ~Wakes(c) /\ ChildEnds(c, FALSE)
       \/ Wakes(c) /\ Unlocked(Root) /\ ChildEnds(c, TRUE)
       \/ /\ Wakes(c) /\ ~Unlocked(Root)
          /\ want' = [want EXCEPT ![c] = Root]
          /\ step' = [step EXCEPT ![c] = "waking"]
          /\ UNCHANGED <<rows, root, now, lock, began, endAs, parked>>

\* With the parent's Job at last, its status is read again.
FinishWake(c) ==
    /\ step[c] = "waking"
    /\ want[c] = None
    /\ ChildEnds(c, status[Root] = "queued")

----------------------------------------------------------------------------
RootStep ==
    \/ Propose("spawn", {}, 0)
    \/ \E S \in (SUBSET Created) \ {{}} : \E m \in Timeouts : Propose("wait", S, m)
    \/ Spawn
    \/ BeginWait \/ ObserveChild \/ LoadAgents \/ FinishWait
    \/ StoreResult
    \/ RetryRoot

EndStep(t) ==
    \/ \E as \in Terminal : BeginEnd(t, as)
    \/ CancelChild(t)
    \/ FinishEnd(t)

Expiry == BeginExpiry \/ SweepNext \/ FinishExpiry

ChildStep(c) ==
    \/ ClaimChild(c)
    \/ RetryChild(c)
    \/ \E as \in {"completed", "failed"} : BeginChildEnd(c, as)
    \/ FinishChildEnd(c)
    \/ FinishWake(c)

Next ==
    \/ Tick
    \/ RootStep
    \/ ClaimRoot
    \/ EndStep(Root) \/ EndStep(Member)
    \/ Expiry
    \/ \E c \in Children : ChildStep(c)
    \/ \E t \in Txs : Acquire(t) \/ AbortVictim(t) \/ Crash(t)

Spec == Init /\ [][Next]_vars

\* Time passes, a transaction that started goes on, a lock queue is served in
\* order, deadlocks are broken, and workers keep scanning for expired Runs.
\* Nothing is assumed of the models, the Member or the claims.
Fairness ==
    /\ WF_vars(Tick)
    /\ WF_vars(ObserveChild) /\ WF_vars(LoadAgents) /\ WF_vars(FinishWait)
    /\ WF_vars(Expiry)
    /\ \A t \in {Root, Member} : WF_vars(CancelChild(t)) /\ WF_vars(FinishEnd(t))
    /\ \A c \in Children : WF_vars(FinishChildEnd(c)) /\ WF_vars(FinishWake(c))
    /\ \A t \in Txs : SF_vars(Acquire(t)) /\ WF_vars(AbortVictim(t))

LiveSpec == Spec /\ Fairness

----------------------------------------------------------------------------
\* Type invariant; only a transaction in progress holds or awaits locks.
TypeOK ==
    /\ status \in [Runs -> Active \cup Terminal \cup {"absent"}]
    /\ availableAt \in Nat
    /\ \A a \in Actions : /\ waits[a].agents \subseteq Created
                          /\ childOf[a] \in Created \cup {None}
    /\ act.no \in 0..MaxActions /\ act.kind \in {"none", "spawn", "wait"}
    /\ excerpts \subseteq Actions
    /\ now \in 0..MaxTime
    /\ parked \in BOOLEAN
    /\ lock \in [Runs -> Txs \cup {None}]
    /\ want \in [Txs -> Runs \cup {None}]
    /\ \A t \in Txs : step[t] \in {"idle", "result", "excerpt", "gone", "error"}
                          => Locked(t) = {} /\ want[t] = None

\* A root that yielded in wait_agent is runnable as soon as a child it waits
\* for has ended, whichever of the two transactions came first.
NoLostWakeup ==
    (parked /\ status[Root] = "queued"
        /\ \E c \in act.agents : status[c] \in Terminal)
      => availableAt <= now

\* It resumes only for the children of the wait it yields in, or at its
\* deadline: the end of a child of an earlier wait does not wake it.
ResumesForItsWait ==
    [][(parked /\ ~parked') =>
          \/ waits[act.no].deadline <= now
          \/ \E c \in act.agents : status[c] \in Terminal]_vars

\* A root that ended leaves no child at work.
NoOrphans == status[Root] \in Terminal => ActiveChildren = {}

\* Spawns, replayed spawns and dispatched readers together stay within the
\* limits of the tree.
WithinCapacity ==
    Cardinality(ActiveChildren) <= MaxActive /\ Cardinality(Created) <= MaxTotal

\* Every child belongs to one Action, however often the Action is executed.
OneChildPerAction ==
    \A c \in Created : Cardinality({a \in Actions : childOf[a] = c}) = 1

\* Every tree ends, deadlocks and crashes notwithstanding.
TreeEnds == <>(\A r \in Runs : status[r] \notin Active)

\* ARCHITECTURE.md: "Cancelling queued or running work atomically returns the
\* terminal `cancelled` Run snapshot".
\* Does not hold: see "Disagreements" in the README.
CancelReturns == step[Member] # "error"
============================================================================
