---------------------------- MODULE Checkpoints ----------------------------
(***************************************************************************)
(* The durable execution of one Run: the Controller loop                   *)
(* (internal/agent/controller.go) rebuilds its position from the           *)
(* append-only checkpoints of the Run, extends them under the lease        *)
(* (internal/agent/postgres_checkpoint_store.go), delivers Steering        *)
(* Messages at decision boundaries (internal/agent/steering.go) and        *)
(* publishes the accepted Final Draft                                      *)
(* (internal/agent/postgres_runtime.go).                                   *)
(*                                                                         *)
(* Attempts are processes: one whose lease expired keeps running until a   *)
(* fence stops it.  A commit whose answer the client lost stays in flight: *)
(* the server still holds the row locks and later applies or drops it,     *)
(* while the client already reads the tables to find out.                  *)
(*                                                                         *)
(* Module AgentJobs has the queue in detail; here a lease is granted,      *)
(* expires and is given back.  The clock is abstracted to the facts the    *)
(* code compares it for: leaseLive and overdue.                            *)
(***************************************************************************)
EXTENDS Integers, Sequences, FiniteSets

CONSTANTS
    MaxAttempts,    \* bound on the leases of the Run
    MaxDecisions,   \* ActionDecisionLimit of the Run
    MaxActions,     \* ActionBatchLimit of the Run
    Batches,        \* Action batches a model may propose: sequences of kinds
    ReplaySafe,     \* kinds whose action has CrashReplaySafe() = true
    Parallel,       \* kinds scheduled ToolParallel
    Messages,       \* Steering Messages a Member may send
    NoMessage

ASSUME CheckpointsAssumption ==
    /\ MaxAttempts \in Nat \ {0}
    /\ MaxDecisions \in Nat
    /\ MaxActions \in Nat
    /\ \A b \in Batches : \E n \in 1..MaxActions : DOMAIN b = 1..n
    /\ NoMessage \notin Messages

VARIABLES
    run,        \* agent_runs.status
    attemptNo,  \* agent_jobs.attempt_no
    lease,      \* attempt whose token agent_jobs stores, 0 when null
    leaseLive,  \* lease_expires_at > now()
    overdue,    \* deadline_at <= now()
    log,        \* agent_run_checkpoints of the Run, by sequence_no
    answer,     \* draft behind output_message_id, 0 when null
    steering,   \* chat_messages with steering_run_id, with the log length then
    inFlight,   \* attempt whose commit the server has not decided, 0 for none
    pc,         \* where an Attempt's Controller is
    seen,       \* checkpoint prefix an Attempt last loaded
    queue,      \* checkpoints an Attempt still has to append
    tries,      \* appendTry / publishTry
    failing,    \* an Action of the batch failed
    boundary,   \* recoveryBoundary
    running,    \* Action indexes an Attempt is executing
    asked,      \* history: messages sent when the Attempt last read steering
    started     \* history: executions started of <<decision, index>>

rows     == <<run, attemptNo, lease, leaseLive, overdue, answer, steering>>
attempts == <<pc, seen, queue, tries, failing, boundary, running, asked>>
vars     == <<rows, log, inFlight, attempts, started>>

Attempts == 1..MaxAttempts
NoWrite  == 0

----------------------------------------------------------------------------
(* Checkpoints.  A payload is abstracted to the Attempt that produced it,  *)
(* because a model or a tool asked again may answer differently.           *)

Checkpoint(kind, decision, index, msg, batch, payload) ==
    [kind |-> kind, decision |-> decision, index |-> index, msg |-> msg,
     batch |-> batch, payload |-> payload]

Proposal(d, b, a)  == Checkpoint("proposal", d, 0, NoMessage, b, a)
FinalDraft(d, a)   == Checkpoint("final", d, 0, NoMessage, <<>>, a)
Result(d, i, a)    == Checkpoint("result", d, i, NoMessage, <<>>, a)
Interrupted(d, i)  == Checkpoint("result", d, i, NoMessage, <<>>, 0)
Steer(d, m)        == Checkpoint("steering", d, 0, m, <<>>, 0)

Identity(c) == <<c.kind, c.decision, c.index, c.msg>>

Positions(l, kind) == {i \in DOMAIN l : l[i].kind = kind}

AcceptedDecisions(l) == Cardinality(Positions(l, "proposal") \cup Positions(l, "final"))

LastProposal(l) ==
    LET P == Positions(l, "proposal") IN l[CHOOSE i \in P : \A j \in P : j <= i]

HasResult(l, d, i) ==
    \E p \in Positions(l, "result") : l[p].decision = d /\ l[p].index = i

\* Mutant: everything from the first missing result on is taken as pending.
PendingFromFirstGap(l) ==
    IF Positions(l, "proposal") = {} THEN {}
    ELSE LET p == LastProposal(l) IN
         {i \in DOMAIN p.batch : \E j \in 1..i : ~HasResult(l, p.decision, j)}

\* Indexes of the last proposal that have no result yet.
PendingActions(l) ==
    IF Positions(l, "proposal") = {} THEN {}
    ELSE LET p == LastProposal(l) IN
         {i \in DOMAIN p.batch : ~HasResult(l, p.decision, i)}

Delivered(l) == {l[i].msg : i \in Positions(l, "steering")}

\* One turn of the loop of LoadCheckpointPrefix: may c follow the prefix l?
MayFollow(l, c) ==
    /\ Positions(l, "final") = {}
    /\ CASE c.kind = "result" ->
              /\ Positions(l, "proposal") # {}
              /\ c.decision = LastProposal(l).decision
              /\ c.index \in PendingActions(l)
         [] c.kind = "steering" ->
              /\ PendingActions(l) = {}
              /\ c.decision = AcceptedDecisions(l) + 1
              /\ c.msg \notin Delivered(l)
         [] OTHER ->
              /\ PendingActions(l) = {}
              /\ c.decision = AcceptedDecisions(l) + 1

----------------------------------------------------------------------------
Init ==
    /\ run       = "queued"
    /\ attemptNo = 0
    /\ lease     = 0
    /\ leaseLive = FALSE
    /\ overdue   = FALSE
    /\ log       = <<>>
    /\ answer    = 0
    /\ steering  = <<>>
    /\ inFlight  = NoWrite
    /\ pc        = [a \in Attempts |-> "none"]
    /\ seen      = [a \in Attempts |-> <<>>]
    /\ queue     = [a \in Attempts |-> <<>>]
    /\ tries     = [a \in Attempts |-> 0]
    /\ failing   = [a \in Attempts |-> FALSE]
    /\ boundary  = [a \in Attempts |-> TRUE]
    /\ running   = [a \in Attempts |-> {}]
    /\ asked     = [a \in Attempts |-> {}]
    /\ started   = [id \in (1..MaxDecisions) \X (1..MaxActions) |-> 0]

\* No undecided transaction holds the Run's row locks.
Unlocked == inFlight = NoWrite

\* lockCheckpointAuthority.
Authority(a) ==
    /\ run = "running"
    /\ answer = 0
    /\ lease = a
    /\ leaseLive
    /\ ~overdue

Goto(a, where) == pc' = [pc EXCEPT ![a] = where]

----------------------------------------------------------------------------
(* The queue, the clock and the Member.                                    *)

\* ClaimNext leases a queued Run or takes over an expired lease; rows another
\* transaction has locked are skipped.
Claim ==
    /\ Unlocked
    /\ attemptNo < MaxAttempts
    /\ ~overdue
    /\ run = "queued" \/ (run = "running" /\ ~leaseLive)
    /\ run'       = "running"
    /\ attemptNo' = attemptNo + 1
    /\ lease'     = attemptNo + 1
    /\ leaseLive' = TRUE
    /\ Goto(attemptNo + 1, "load")
    /\ UNCHANGED <<overdue, answer, steering, log, inFlight, seen, queue, tries,
                   failing, boundary, running, asked, started>>

\* No heartbeat came in time.
ExpireLease ==
    /\ leaseLive
    /\ leaseLive' = FALSE
    /\ UNCHANGED <<run, attemptNo, lease, overdue, answer, steering, log, inFlight,
                   attempts, started>>

PassDeadline ==
    /\ ~overdue
    /\ overdue' = TRUE
    /\ UNCHANGED <<run, attemptNo, lease, leaseLive, answer, steering, log, inFlight,
                   attempts, started>>

End(status) ==
    /\ run'       = status
    /\ lease'     = 0
    /\ leaseLive' = FALSE

\* Cancellation, or expiry of an overdue Run.
Stop(status) ==
    /\ Unlocked
    /\ run \in {"queued", "running"}
    /\ status = "failed" => overdue
    /\ End(status)
    /\ UNCHANGED <<attemptNo, overdue, answer, steering, log, inFlight, attempts, started>>

Sent == {steering[i].msg : i \in DOMAIN steering}

\* steerRun locks the Run and refuses one that ended.
SendSteering(m) ==
    /\ Unlocked
    /\ run \in {"queued", "running"}
    /\ m \notin Sent
    /\ steering' = Append(steering, [msg |-> m, at |-> Len(log)])
    /\ UNCHANGED <<run, attemptNo, lease, leaseLive, overdue, answer, log, inFlight,
                   attempts, started>>

----------------------------------------------------------------------------
(* AppendCheckpoint.                                                       *)

Write(a) == Head(queue[a])

\* The Controller goes on when a checkpoint is known to be stored.
Accepted(a) ==
    /\ queue' = [queue EXCEPT ![a] = Tail(@)]
    /\ tries' = [tries EXCEPT ![a] = 0]
    /\ Goto(a, IF Len(queue[a]) > 1 THEN "append"
               ELSE IF failing[a] THEN "failed_action" ELSE "load")
    /\ UNCHANGED <<seen, failing, boundary, running, asked>>

Leave(a, where) ==
    /\ Goto(a, where)
    /\ UNCHANGED <<seen, queue, tries, failing, boundary, running, asked>>

Stored(c) == {i \in DOMAIN log : Identity(log[i]) = Identity(c)}

\* The lease, the deadline or the Run is gone.
AppendRefused(a) ==
    /\ pc[a] = "append"
    /\ Unlocked
    /\ ~Authority(a)
    /\ Leave(a, "stopped")
    /\ UNCHANGED <<rows, log, inFlight, started>>

\* The identity is already stored: the same payload is a success, another one
\* fails the Run with checkpoint_invalid.
AppendExisting(a) ==
    /\ pc[a] = "append"
    /\ Unlocked
    /\ Authority(a)
    /\ \E i \in Stored(Write(a)) :
          IF log[i] = Write(a) THEN Accepted(a) ELSE Leave(a, "invalid")
    /\ UNCHANGED <<rows, log, inFlight, started>>

\* A checkpoint that may not follow the log fails the Run; otherwise the insert
\* goes through and its commit is acknowledged, or the answer is lost.
AppendInsert(a) ==
    /\ pc[a] = "append"
    /\ Unlocked
    /\ Authority(a)
    /\ Stored(Write(a)) = {}
    /\ IF ~MayFollow(log, Write(a)) THEN Leave(a, "invalid") /\ UNCHANGED <<log, inFlight>>
       ELSE \/ /\ log' = Append(log, Write(a))
               /\ Accepted(a)
               /\ UNCHANGED inFlight
            \/ /\ inFlight' = a
               /\ Leave(a, "reconcile")
               /\ UNCHANGED log
    /\ UNCHANGED <<rows, started>>

\* The server decides a commit whose client is gone.  The write is the one
\* the Attempt had first in its queue, or its publication.
Decided(a, commits) ==
    /\ inFlight = a
    /\ inFlight' = NoWrite
    /\ IF ~commits THEN UNCHANGED <<rows, log>>
       ELSE IF queue[a] # <<>>
       THEN log' = Append(log, Write(a)) /\ UNCHANGED rows
       ELSE /\ answer' = LET i == CHOOSE i \in Positions(log, "final") : TRUE
                         IN  log[i].payload
            /\ End("completed")
            /\ UNCHANGED <<attemptNo, overdue, steering, log>>
    /\ UNCHANGED <<attempts, started>>

\* reconcileCheckpoint reads without locks: it may run while the commit is
\* still undecided.
Reconcile(a) ==
    /\ pc[a] = "reconcile"
    /\ LET found == Stored(Write(a)) IN
       \/ \E i \in found :
             IF log[i] = Write(a) THEN Accepted(a) ELSE Leave(a, "invalid")
       \/ /\ found = {}
          /\ ~Authority(a)
          /\ Leave(a, "stopped")
       \/ /\ found = {}
          /\ Authority(a)
          /\ tries' = [tries EXCEPT ![a] = @ + 1]
          /\ Goto(a, IF tries[a] = 0 THEN "append" ELSE "error")
          /\ UNCHANGED <<seen, queue, failing, boundary, running, asked>>
    /\ UNCHANGED <<rows, log, inFlight, started>>

----------------------------------------------------------------------------
(* The Controller loop.                                                    *)

\* LoadCheckpointPrefix takes the authority locks and reads the whole log.
Load(a) ==
    /\ pc[a] = "load"
    /\ Unlocked
    /\ IF Authority(a)
       THEN seen' = [seen EXCEPT ![a] = log] /\ Goto(a, "decide")
       ELSE Goto(a, "stopped") /\ UNCHANGED seen
    /\ UNCHANGED <<rows, log, inFlight, queue, tries, failing, boundary, running,
                   asked, started>>

HasFinal(l) == Positions(l, "final") # {}

\* The checkpoints s are appended next; without any the Controller goes on.
Enqueue(a, s, otherwise) ==
    /\ queue' = [queue EXCEPT ![a] = s]
    /\ tries' = [tries EXCEPT ![a] = 0]
    /\ Goto(a, IF s = <<>> THEN otherwise ELSE "append")

\* The one enumeration of the positions S in their order, in a set.
InOrder(S) ==
    {s \in [1..Cardinality(S) -> S] : \A j, k \in DOMAIN s : j < k => s[j] < s[k]}

\* Mutant: pending Actions are always executed again.
UnknownNever(a) == {}

UnknownActions(a) ==
    {i \in PendingActions(seen[a]) : LastProposal(seen[a]).batch[i] \notin ReplaySafe}

Recovering(a) == boundary[a] /\ a > 1

\* closeUnknownRecoveredActions: a later Attempt does not know whether the
\* pending Actions ran, and closes those that may not run twice.
CloseUnknown(a) ==
    /\ pc[a] = "decide"
    /\ PendingActions(seen[a]) # {}
    /\ Recovering(a)
    /\ boundary' = [boundary EXCEPT ![a] = FALSE]
    /\ \E s \in InOrder(UnknownActions(a)) :
          LET d == LastProposal(seen[a]).decision
          IN  Enqueue(a, [k \in DOMAIN s |-> Interrupted(d, s[k])], "decide")
    /\ UNCHANGED <<rows, log, inFlight, seen, failing, running, asked, started>>

AllParallel(l, S) == \A i \in S : LastProposal(l).batch[i] \in Parallel

\* One Action, or the whole pending batch when all of it is parallel.  No
\* authority is checked: the tool is called by whoever believes it is current.
StartActions(a) ==
    /\ pc[a] = "decide"
    /\ ~HasFinal(seen[a])
    /\ PendingActions(seen[a]) # {}
    /\ ~Recovering(a)
    /\ LET l == seen[a]
           P == PendingActions(l)
           d == LastProposal(l).decision
           S == IF Cardinality(P) > 1 /\ AllParallel(l, P) THEN P
                ELSE {CHOOSE i \in P : \A j \in P : i <= j}
       IN  /\ running' = [running EXCEPT ![a] = S]
           /\ started' = [id \in DOMAIN started |->
                             IF id \in {<<d, i>> : i \in S} THEN started[id] + 1
                             ELSE started[id]]
    /\ boundary' = [boundary EXCEPT ![a] = FALSE]
    /\ Goto(a, "executing")
    /\ UNCHANGED <<rows, log, inFlight, seen, queue, tries, failing, asked>>

\* The tools return.  Results are appended in index order; an Action that
\* failed stays without one.
FinishActions(a, ok) ==
    /\ pc[a] = "executing"
    /\ ok \subseteq running[a]
    /\ failing' = [failing EXCEPT ![a] = ok # running[a]]
    /\ \E s \in InOrder(ok) :
          LET d == LastProposal(seen[a]).decision
          IN  Enqueue(a, [k \in DOMAIN s |-> Result(d, s[k], a)], "failed_action")
    /\ running' = [running EXCEPT ![a] = {}]
    /\ UNCHANGED <<rows, log, inFlight, seen, boundary, asked, started>>

\* PendingSteering: the messages the stored log does not deliver.
Undelivered == {i \in DOMAIN steering : steering[i].msg \notin Delivered(log)}

\* Mutant: a later Attempt does not look for new messages.
ReadSteeringFirstAttempt(a) ==
    /\ pc[a] = "decide"
    /\ ~HasFinal(seen[a])
    /\ PendingActions(seen[a]) = {}
    /\ asked' = [asked EXCEPT ![a] = Sent]
    /\ \E s \in InOrder({i \in Undelivered : a = 1}) :
          LET d == AcceptedDecisions(seen[a]) + 1
          IN  Enqueue(a, [k \in DOMAIN s |-> Steer(d, steering[s[k]].msg)], "model")
    /\ boundary' = [boundary EXCEPT ![a] = FALSE]
    /\ UNCHANGED <<rows, log, inFlight, seen, failing, running, started>>

\* A complete batch is the steering boundary.  PendingSteering reads without
\* the authority locks.
ReadSteering(a) ==
    /\ pc[a] = "decide"
    /\ ~HasFinal(seen[a])
    /\ PendingActions(seen[a]) = {}
    /\ asked' = [asked EXCEPT ![a] = Sent]
    /\ \E s \in InOrder(Undelivered) :
          LET d == AcceptedDecisions(seen[a]) + 1
          IN  Enqueue(a, [k \in DOMAIN s |-> Steer(d, steering[s[k]].msg)], "model")
    /\ boundary' = [boundary EXCEPT ![a] = FALSE]
    /\ UNCHANGED <<rows, log, inFlight, seen, failing, running, started>>

\* CheckAuthority before and after the model call.
CheckAuthority(a, from, to) ==
    /\ pc[a] = from
    /\ Unlocked
    /\ Leave(a, IF Authority(a) THEN to ELSE "stopped")
    /\ UNCHANGED <<rows, log, inFlight, started>>

\* The model proposes a batch within the decision limit, or a Final Draft.
Decide(a) ==
    /\ pc[a] = "decided"
    /\ LET d == AcceptedDecisions(seen[a]) + 1 IN
       \E c \in {FinalDraft(d, a)}
                \cup {Proposal(d, b, a) : b \in IF d <= MaxDecisions THEN Batches ELSE {}} :
          Enqueue(a, <<c>>, "append")
    /\ UNCHANGED <<rows, log, inFlight, seen, failing, boundary, running, asked, started>>

----------------------------------------------------------------------------
(* PublishFinal.                                                           *)

StartPublish(a) ==
    /\ pc[a] = "decide"
    /\ HasFinal(seen[a])
    /\ tries' = [tries EXCEPT ![a] = 0]
    /\ Goto(a, "publish")
    /\ UNCHANGED <<rows, log, inFlight, seen, queue, failing, boundary, running, asked,
                   started>>

FinalOf(l) == l[CHOOSE i \in Positions(l, "final") : TRUE].payload

\* publishOnce: the draft must be the accepted one; the answer, the Run and
\* the Job commit together, acknowledged or not.
PublishTx(a) ==
    /\ pc[a] = "publish"
    /\ Unlocked
    /\ Authority(a)
    /\ IF HasFinal(log) /\ FinalOf(log) = FinalOf(seen[a])
       THEN \/ /\ answer' = FinalOf(log)
               /\ End("completed")
               /\ Leave(a, "completed")
               /\ UNCHANGED <<attemptNo, overdue, steering, log, inFlight>>
            \/ /\ inFlight' = a
               /\ Leave(a, "reconcile_publish")
               /\ UNCHANGED <<rows, log>>
       ELSE Leave(a, "invalid") /\ UNCHANGED <<rows, log, inFlight>>
    /\ UNCHANGED started

PublishRefused(a) ==
    /\ pc[a] = "publish"
    /\ Unlocked
    /\ ~Authority(a)
    /\ Leave(a, "stopped")
    /\ UNCHANGED <<rows, log, inFlight, started>>

\* Mutant: a Run that is no longer running counts as published.
ReconcilePublishEnded(a) ==
    /\ pc[a] = "reconcile_publish"
    /\ IF run # "running" THEN Leave(a, "completed") ELSE Leave(a, "error")
    /\ UNCHANGED <<rows, log, inFlight, started>>

\* reconcilePublication, again without locks.
ReconcilePublish(a) ==
    /\ pc[a] = "reconcile_publish"
    /\ \/ run = "completed" /\ Leave(a, "completed")
       \/ run # "completed" /\ ~Authority(a) /\ Leave(a, "stopped")
       \/ /\ Authority(a)
          /\ tries' = [tries EXCEPT ![a] = @ + 1]
          /\ Goto(a, IF tries[a] = 0 THEN "publish" ELSE "error")
          /\ UNCHANGED <<seen, queue, failing, boundary, running, asked>>
    /\ UNCHANGED <<rows, log, inFlight, started>>

----------------------------------------------------------------------------
(* The end of an Attempt.                                                  *)

Working == {"load", "decide", "append", "reconcile", "executing", "model", "thinking",
            "decided", "publish", "reconcile_publish"}

\* The process dies, or its context is cancelled and it returns early; the
\* Controller returns an error, as of an append whose Membership was lost; or
\* the model, the context, grounding or a budget makes it fail the Run.
Exits == {"gone", "error", "terminal"}
Interrupt(a, where) ==
    /\ pc[a] \in Working
    /\ where = "terminal" =>
          pc[a] \in {"decide", "executing", "model", "thinking", "decided"}
    /\ Leave(a, where)
    /\ UNCHANGED <<rows, log, inFlight, started>>

\* Controller.fail, of an invalid checkpoint or a failed Action too; a failed
\* tool call may also be returned to the worker for a retry.
FailRun(a) ==
    /\ pc[a] \in {"invalid", "failed_action", "terminal"}
    /\ Unlocked
    /\ IF run = "running" /\ answer = 0 /\ lease = a /\ leaseLive
       THEN End("failed") ELSE UNCHANGED <<run, lease, leaseLive>>
    /\ Leave(a, "gone")
    /\ UNCHANGED <<attemptNo, overdue, answer, steering, log, inFlight, started>>

ReturnToolError(a) ==
    /\ pc[a] = "failed_action"
    /\ Leave(a, "error")
    /\ UNCHANGED <<rows, log, inFlight, started>>

\* ResolveAttempt when the token is still the stored one: a retryable error
\* puts the Job back to the queue while Attempts remain, any other, or the last
\* one (retry_exhausted), fails the Run.
Resolve(a) ==
    /\ pc[a] = "error"
    /\ Unlocked
    /\ IF lease = a
       THEN End("failed") \/ (a < MaxAttempts /\ End("queued"))
       ELSE UNCHANGED <<run, lease, leaseLive>>
    /\ Leave(a, "gone")
    /\ UNCHANGED <<attemptNo, overdue, answer, steering, log, inFlight, started>>

----------------------------------------------------------------------------
AttemptStep(a) ==
    \/ Load(a)
    \/ StartPublish(a) \/ PublishTx(a) \/ PublishRefused(a) \/ ReconcilePublish(a)
    \/ CloseUnknown(a)
    \/ StartActions(a)
    \/ \E ok \in SUBSET running[a] : FinishActions(a, ok)
    \/ ReadSteering(a)
    \/ CheckAuthority(a, "model", "thinking") \/ CheckAuthority(a, "thinking", "decided")
    \/ Decide(a)
    \/ AppendRefused(a) \/ AppendExisting(a) \/ AppendInsert(a)
    \/ Reconcile(a)
    \/ \E commits \in BOOLEAN : Decided(a, commits)
    \/ \E where \in Exits : Interrupt(a, where)
    \/ FailRun(a) \/ ReturnToolError(a)
    \/ Resolve(a)

Next ==
    \/ Claim \/ ExpireLease \/ PassDeadline
    \/ \E status \in {"cancelled", "failed"} : Stop(status)
    \/ \E m \in Messages : SendSteering(m)
    \/ \E a \in Attempts : AttemptStep(a)

Spec == Init /\ [][Next]_vars

----------------------------------------------------------------------------
Phases == Working \cup {"none", "stopped", "invalid", "error", "failed_action",
                        "terminal", "completed", "gone"}

\* Type invariant; an append or a publication is tried at most twice.
TypeOK ==
    /\ run \in {"queued", "running", "completed", "failed", "cancelled"}
    /\ attemptNo \in 0..MaxAttempts
    /\ lease \in 0..attemptNo
    /\ leaseLive \in BOOLEAN
    /\ overdue \in BOOLEAN
    /\ answer \in 0..attemptNo
    /\ inFlight \in 0..attemptNo
    /\ \A i \in DOMAIN log : /\ log[i].decision \in 1..(MaxDecisions + 1)
                             /\ log[i].msg \in Messages \cup {NoMessage}
                             /\ log[i].payload \in 0..attemptNo
    /\ pc \in [Attempts -> Phases]
    /\ tries \in [Attempts -> 0..2]
    /\ boundary \in [Attempts -> BOOLEAN]
    /\ failing \in [Attempts -> BOOLEAN]

\* The Attempt that holds the lease never meets a conflicting or misplaced
\* checkpoint, so no Run fails as checkpoint_invalid because of how its own
\* Attempts interleave.  A straggler may: reconciling its lost append it can
\* find the checkpoint its successor stored under the same identity.
HolderNeverInvalid == \A a \in Attempts : pc[a] = "invalid" => lease # a

\* An Action that is not safe to replay after a crash is started at most once,
\* over all Attempts of the Run, stragglers included.
UnsafeAtMostOnce ==
    \A p \in Positions(log, "proposal") : \A i \in DOMAIN log[p].batch :
        log[p].batch[i] \notin ReplaySafe => started[<<log[p].decision, i>>] <= 1

\* The published answer is the one Final Draft the Run accepted, whichever
\* Attempt wrote it and whichever published it.
AnswerIsAcceptedDraft ==
    answer # 0 =>
        /\ run = "completed"
        /\ Positions(log, "final") = {Len(log)}
        /\ answer = log[Len(log)].payload

\* An Attempt that reports success knows the Run completed: an uncertain
\* publication is never reported as done when it did not land.
NoFalseCompletion == \A a \in Attempts : pc[a] = "completed" => run = "completed"

\* What is published: the one accepted Final Draft, by an Attempt that knows;
\* and no Run fails because of how its own Attempts stored their checkpoints.
PublicationHolds == NoFalseCompletion /\ AnswerIsAcceptedDraft /\ HolderNeverInvalid

\* The Controller goes on past a checkpoint only when it is stored, although
\* the answer to its commit may be lost.
AcceptedIsStored ==
    [][\A a \in Attempts :
          (queue[a] # <<>> /\ queue'[a] = Tail(queue[a]))
              => \E i \in DOMAIN log' : log'[i] = Write(a)]_vars

\* The Attempt that holds the lease never starts an Action whose result is
\* accepted, also when a parallel batch left a gap before it.
AcceptedActionsNotRepeated ==
    [][\A a \in Attempts :
          (lease = a /\ pc[a] = "decide" /\ pc'[a] = "executing")
              => \A i \in running'[a] :
                    ~HasResult(log, LastProposal(log).decision, i)]_vars

\* What is accepted: the Controller goes on only past a stored checkpoint, and
\* the Attempt with the lease repeats no Action whose result is there.
LogHolds == AcceptedIsStored /\ AcceptedActionsNotRepeated

\* A message that was sent when the Attempt passed the steering boundary is
\* delivered before the decision that follows.
SteeringPrecedesDecision ==
    [][\A i \in DOMAIN log' \ DOMAIN log :
          log'[i].kind \in {"proposal", "final"}
              => asked[log'[i].payload] \subseteq Delivered(log)]_vars

\* ARCHITECTURE.md: "Cancellation, lease loss, and infrastructure faults retain
\* their runtime semantics and are never converted into Action Results."
\* Does not hold: see "Disagreements" in the README.
FaultsAreNotResults == \A i \in Positions(log, "result") : log[i].payload # 0

\* mid-run-steering-messages-design.md: only a message that arrives after the
\* Final Draft is accepted stays undelivered.
\* Does not hold: see "Disagreements" in the README.
SentBeforeFinalDelivered ==
    \A f \in Positions(log, "final") : \A i \in DOMAIN steering :
        steering[i].at < f => steering[i].msg \in Delivered(log)
============================================================================
