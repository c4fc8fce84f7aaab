-------------------------- MODULE AgentJobsProofs --------------------------
(***************************************************************************)
(* Theorems about AgentJobs, for every set of Runs and Workers and every   *)
(* value of the limits.                                                    *)
(***************************************************************************)
EXTENDS AgentJobs, TLAPS

Busy == {"executing", "returned"}

\* A free slot holds no Run, and a Run that was never admitted has no history.
Blank ==
    /\ \A w \in Workers : phase[w] \notin Busy => heldRun[w] = NoRun
    /\ \A r \in Runs : runStatus[r] = "absent" =>
          attemptNo[r] = 0 /\ failedAttempts[r] = 0 /\ waits[r] = 0

\* The inductive invariant.
IInv ==
    /\ TypeOK
    /\ RunJobAgree
    /\ LeaseFence
    /\ AttemptAccounting
    /\ PublishedByNewestAttempt
    /\ Blank

----------------------------------------------------------------------------
\* The initial tables and slots satisfy the inductive invariant.
LEMMA InitIInv == Init => IInv
<1> SUFFICES ASSUME Init PROVE IInv
  OBVIOUS
<1> USE ConstantAssumption DEF Init
<1>1. TypeOK
  BY DEF TypeOK, RunStatuses, JobStatuses, ActiveStatus, TerminalStatus, ErrorCodes, Phases, Results
<1>2. RunJobAgree
  BY DEF RunJobAgree, JobStatusOf
<1>3. LeaseFence
  BY DEF LeaseFence
<1>4. AttemptAccounting
  BY DEF AttemptAccounting, ActiveStatus
<1>5. PublishedByNewestAttempt
  BY DEF PublishedByNewestAttempt
<1>6. Blank
  BY DEF Blank, Busy
<1> QED
  BY <1>1, <1>2, <1>3, <1>4, <1>5, <1>6 DEF IInv

\* Every step keeps the types of the tables and of the slots.
LEMMA TypeStep == IInv /\ [Next]_vars => TypeOK'
<1> SUFFICES ASSUME IInv, [Next]_vars PROVE TypeOK'
  OBVIOUS
<1> USE ConstantAssumption
<1>0. TypeOK /\ LeaseFence
  BY DEF IInv
<1> USE <1>0 DEF TypeOK, RunStatuses, JobStatuses, ActiveStatus, TerminalStatus, ErrorCodes,
        Phases, Results, runVars, jobVars, workerVars, EndRun, Requeue, JobStatusOf,
        ReturnFrom, FreeSlot, AfterExpiry
<1>1. CASE Tick
  BY <1>1 DEF Tick
<1>2. ASSUME NEW r \in Runs, RunStep(r) PROVE TypeOK'
  <2>1. CASE Admit(r)         BY <2>1 DEF Admit
  <2>2. CASE Cancel(r)        BY <2>2 DEF Cancel
  <2>3. CASE ExpireOnRead(r)  BY <2>3 DEF ExpireOnRead
  <2>4. CASE WakeWaiting(r)   BY <2>4 DEF WakeWaiting
  <2> QED
    BY <1>2, <2>1, <2>2, <2>3, <2>4 DEF RunStep
<1>3. ASSUME NEW w \in Workers, WorkerStep(w) PROVE TypeOK'
  <2>1. CASE ClaimNothing(w)
    BY <2>1 DEF ClaimNothing
  <2>2. ASSUME NEW r \in Runs, ClaimLease(w, r) PROVE TypeOK'
    BY <2>2 DEF ClaimLease, NewToken
  <2>3. ASSUME NEW r \in Runs, ClaimExhausted(w, r) PROVE TypeOK'
    BY <2>3 DEF ClaimExhausted
  <2>4. ASSUME NEW r \in Runs, ClaimFails(w, r) PROVE TypeOK'
    BY <2>4 DEF ClaimFails
  <2>5. CASE Heartbeat(w)
    BY <2>5 DEF Heartbeat
  <2>6. CASE HeartbeatError(w)
    BY <2>6 DEF HeartbeatError
  <2>7. CASE Publish(w)
    BY <2>7 DEF Publish
  <2>8. CASE FailRun(w)
    BY <2>8 DEF FailRun
  <2>9. ASSUME NEW t \in WaitTimeouts, YieldForWait(w, t) PROVE TypeOK'
    BY <2>9 DEF YieldForWait, Authority, HoldsLease, HoldsToken
  <2>10. ASSUME NEW res \in Interruptions, Return(w, res) PROVE TypeOK'
    BY <2>10 DEF Return, Interruptions
  <2>11. CASE AbandonLost(w)
    BY <2>11 DEF AbandonLost
  <2>12. CASE ReleaseLease(w)
    BY <2>12 DEF ReleaseLease
  <2>13. CASE ResolveStale(w)
    BY <2>13 DEF ResolveStale
  <2>14. ASSUME NEW b \in Backoffs, ResolveRetry(w, b) PROVE TypeOK'
    BY <2>14 DEF ResolveRetry, HoldsToken
  <2>15. ASSUME NEW b \in Backoffs, ResolveTerminal(w, b) PROVE TypeOK'
    <3>1. PICK code \in ErrorCodes : Terminalize(w, code)
      BY <2>15 DEF ResolveTerminal
    <3> QED
      BY <3>1 DEF Terminalize
  <2>16. CASE Crash(w)
    BY <2>16 DEF Crash
  <2> QED
    BY <1>3, <2>1, <2>2, <2>3, <2>4, <2>5, <2>6, <2>7, <2>8, <2>9, <2>10, <2>11,
       <2>12, <2>13, <2>14, <2>15, <2>16 DEF WorkerStep, ClaimNext, Finish
<1>4. CASE UNCHANGED vars
  BY <1>4 DEF vars
<1> QED
  BY <1>1, <1>2, <1>3, <1>4 DEF Next

\* The step obligation of the inductive invariant beyond its types.
Rest == RunJobAgree /\ LeaseFence /\ AttemptAccounting /\ PublishedByNewestAttempt /\ Blank

\* A slot that still holds the stored token executes the newest Attempt of a
\* Run in status running that has no answer yet.
LEMMA TokenIsNewest ==
    ASSUME IInv, NEW w \in Workers, HoldsToken(w), phase[w] \in Busy
    PROVE  /\ heldRun[w] \in Runs
           /\ runStatus[heldRun[w]] = "running"
           /\ jobStatus[heldRun[w]] = "running"
           /\ outputBy[heldRun[w]] = 0
           /\ heldToken[w] = attemptNo[heldRun[w]]
           /\ heldToken[w] # 0
  BY DEF IInv, TypeOK, RunStatuses, ActiveStatus, TerminalStatus, HoldsToken, RunJobAgree, LeaseFence, JobStatusOf, Busy

\* Ending an active Run without an answer keeps the invariant, whatever the slots do
\* apart from taking a Job.
LEMMA EndKeepsRest ==
    ASSUME IInv, NEW r \in Runs, runStatus[r] \in ActiveStatus,
           NEW status \in {"failed", "cancelled"}, NEW code, EndRun(r, status, code),
           UNCHANGED outputBy, LeaseFence', \A w \in Workers : phase'[w] \notin Busy => heldRun'[w] = NoRun
    PROVE  Rest'
  BY DEF IInv, TypeOK, Rest, RunJobAgree, AttemptAccounting, PublishedByNewestAttempt, Blank,
         EndRun, JobStatusOf, ActiveStatus, RunStatuses, TerminalStatus

\* What every step but a lease does to slots and tokens: slots keep or drop
\* what they hold, tokens stay or are cleared.
SlotsKeepOrDrop ==
    /\ UNCHANGED attemptNo
    /\ \A r \in Runs : leaseToken'[r] \in {0, leaseToken[r]}
    /\ \A w \in Workers :
          \/ /\ phase'[w] \in Busy /\ phase[w] \in Busy
             /\ heldRun'[w] = heldRun[w] /\ heldToken'[w] = heldToken[w]
          \/ phase'[w] \notin Busy /\ heldRun'[w] = NoRun

\* Such a step keeps the fence.
LEMMA FenceFrame ==
    ASSUME IInv, TypeOK', SlotsKeepOrDrop
    PROVE  LeaseFence' /\ \A w \in Workers : phase'[w] \notin Busy => heldRun'[w] = NoRun
<1> USE ConstantAssumption
<1>1. \A r \in Runs : leaseToken'[r] \in {0, attemptNo'[r]}
  BY DEF IInv, TypeOK, LeaseFence, SlotsKeepOrDrop
<1>2. ASSUME NEW w \in Workers, phase'[w] \in Busy
      PROVE  /\ heldRun'[w] \in Runs
             /\ heldToken'[w] \in 1..attemptNo'[heldRun'[w]]
             /\ \A v \in Workers \ {w} :
                   heldRun'[v] = heldRun'[w] => heldToken'[v] # heldToken'[w]
  BY <1>2 DEF IInv, TypeOK, LeaseFence, SlotsKeepOrDrop, Busy, Phases
<1> QED
  BY <1>1, <1>2 DEF LeaseFence, SlotsKeepOrDrop, Busy

\* A step that changes no row but available_at or lease_expires_at keeps the
\* rest when slots keep or drop what they hold.
LEMMA RowsKeepRest ==
    ASSUME IInv, TypeOK', SlotsKeepOrDrop,
           UNCHANGED <<runStatus, outputBy, jobStatus, failedAttempts, leaseToken, waits>>
    PROVE  Rest'
<1>1. LeaseFence' /\ \A w \in Workers : phase'[w] \notin Busy => heldRun'[w] = NoRun
  BY FenceFrame
<1> QED
  BY <1>1 DEF IInv, Rest, RunJobAgree, AttemptAccounting, PublishedByNewestAttempt, Blank, SlotsKeepOrDrop

\* Every step keeps the rest of the inductive invariant.
LEMMA RestStep == IInv /\ TypeOK' /\ [Next]_vars => Rest'
<1> SUFFICES ASSUME IInv, TypeOK', [Next]_vars PROVE Rest'
  OBVIOUS
<1> USE ConstantAssumption DEF runVars, jobVars, workerVars
<1>0. /\ TypeOK
      /\ \A w \in Workers : phase[w] \notin Busy => heldRun[w] = NoRun
  BY DEF IInv, Blank
<1>1. CASE Tick
  BY <1>0, <1>1, RowsKeepRest DEF Tick, SlotsKeepOrDrop
<1>2. ASSUME NEW r \in Runs, RunStep(r) PROVE Rest'
  <2>1. CASE Admit(r)
    <3>1. LeaseFence' /\ \A w \in Workers : phase'[w] \notin Busy => heldRun'[w] = NoRun
      BY <1>0, <2>1, FenceFrame DEF Admit, SlotsKeepOrDrop
    <3> QED
      BY <2>1, <3>1 DEF Admit, IInv, TypeOK, Rest, RunJobAgree, AttemptAccounting,
         PublishedByNewestAttempt, Blank, JobStatusOf, ActiveStatus
  <2>2. CASE Cancel(r) \/ ExpireOnRead(r)
    <3>1. SlotsKeepOrDrop
      BY <1>0, <2>2 DEF Cancel, ExpireOnRead, EndRun, SlotsKeepOrDrop, TypeOK
    <3> QED
      BY <2>2, <3>1, FenceFrame, EndKeepsRest DEF Cancel, ExpireOnRead, Overdue
  <2>3. CASE WakeWaiting(r)
    BY <1>0, <2>3, RowsKeepRest DEF WakeWaiting, SlotsKeepOrDrop
  <2> QED
    BY <1>2, <2>1, <2>2, <2>3 DEF RunStep
<1>3. ASSUME NEW w \in Workers, WorkerStep(w) PROVE Rest'
  <2>1. CASE ClaimNothing(w)
    <3>1. SlotsKeepOrDrop
      BY <1>0, <2>1 DEF ClaimNothing, CanClaim, AfterExpiry, SlotsKeepOrDrop, TypeOK, Busy
    <3>2. LeaseFence' /\ \A v \in Workers : phase'[v] \notin Busy => heldRun'[v] = NoRun
      BY <3>1, FenceFrame
    <3> QED
      BY <2>1, <3>2 DEF ClaimNothing, AfterExpiry, Overdue, IInv, TypeOK, Rest, RunJobAgree,
         AttemptAccounting, PublishedByNewestAttempt, Blank, JobStatusOf, ActiveStatus
  <2>2. ASSUME NEW r \in Runs, ClaimLease(w, r) PROVE Rest'
    <3>1. /\ runStatus[r] = jobStatus[r] /\ jobStatus[r] \in ActiveStatus /\ outputBy[r] = 0
          /\ \A q \in Runs : Overdue(q) => q # r
      BY <2>2 DEF ClaimLease, NewToken, Claimable, ActiveStatus, IInv, RunJobAgree
    <3>2. RunJobAgree'
      BY <1>0, <2>2, <3>1 DEF ClaimLease, NewToken, AfterExpiry, Overdue, IInv, TypeOK, RunJobAgree,
         JobStatusOf, ActiveStatus
    <3>3. LeaseFence'
      <4>1. \A q \in Runs : leaseToken'[q] \in {0, attemptNo'[q]}
        BY <1>0, <2>2 DEF ClaimLease, NewToken, AfterExpiry, IInv, TypeOK, LeaseFence
      <4>2. ASSUME NEW u \in Workers, phase'[u] \in {"executing", "returned"}
            PROVE  /\ heldRun'[u] \in Runs
                   /\ heldToken'[u] \in 1..attemptNo'[heldRun'[u]]
                   /\ \A v \in Workers \ {u} :
                         heldRun'[v] = heldRun'[u] => heldToken'[v] # heldToken'[u]
        <5>1. CASE u = w
          BY <1>0, <2>2, <4>2, <5>1 DEF ClaimLease, NewToken, IInv, TypeOK, LeaseFence, Busy
        <5>2. CASE u # w
          BY <1>0, <2>2, <4>2, <5>2 DEF ClaimLease, NewToken, IInv, TypeOK, LeaseFence, Busy
        <5> QED
          BY <5>1, <5>2
      <4> QED
        BY <4>1, <4>2 DEF LeaseFence
    <3>4. AttemptAccounting'
      BY <1>0, <2>2, <3>1 DEF ClaimLease, NewToken, AfterExpiry, Overdue, LeaseLost, Exhausted, IInv, TypeOK,
         AttemptAccounting, ActiveStatus
    <3>5. PublishedByNewestAttempt'
      BY <1>0, <2>2, <3>1 DEF ClaimLease, NewToken, AfterExpiry, IInv, TypeOK, PublishedByNewestAttempt
    <3>6. Blank'
      BY <1>0, <2>2, <3>1 DEF ClaimLease, NewToken, AfterExpiry, IInv, TypeOK, Blank, Busy, ActiveStatus
    <3> QED
      BY <3>2, <3>3, <3>4, <3>5, <3>6 DEF Rest
  <2>3. ASSUME NEW r \in Runs, ClaimExhausted(w, r) PROVE Rest'
    <3>1. SlotsKeepOrDrop
      BY <1>0, <2>3 DEF ClaimExhausted, CanClaim, AfterExpiry, SlotsKeepOrDrop, TypeOK, Busy
    <3>2. LeaseFence' /\ \A v \in Workers : phase'[v] \notin Busy => heldRun'[v] = NoRun
      BY <3>1, FenceFrame
    <3>3. runStatus[r] \in ActiveStatus /\ outputBy[r] = 0
      BY <2>3 DEF ClaimExhausted, Claimable, ActiveStatus, IInv, RunJobAgree
    <3> QED
      BY <2>3, <3>2, <3>3 DEF ClaimExhausted, AfterExpiry, Overdue, IInv, TypeOK, Rest, RunJobAgree,
         AttemptAccounting, PublishedByNewestAttempt, Blank, JobStatusOf, ActiveStatus
  <2>4. ASSUME NEW r \in Runs, ClaimFails(w, r) PROVE Rest'
    BY <1>0, <2>4, RowsKeepRest DEF ClaimFails, CanClaim, SlotsKeepOrDrop, TypeOK, Busy
  <2>5. CASE Heartbeat(w)
    BY <1>0, <2>5, RowsKeepRest DEF Heartbeat, SlotsKeepOrDrop
  <2>6. CASE HeartbeatError(w)
    BY <1>0, <2>6, RowsKeepRest DEF HeartbeatError, SlotsKeepOrDrop
  <2>7. CASE Publish(w)
    <3>1. SlotsKeepOrDrop
      BY <1>0, <2>7 DEF Publish, EndRun, ReturnFrom, SlotsKeepOrDrop, TypeOK, Busy
    <3>2. LeaseFence' /\ \A v \in Workers : phase'[v] \notin Busy => heldRun'[v] = NoRun
      BY <3>1, FenceFrame
    <3>3. /\ heldRun[w] \in Runs
          /\ heldToken[w] = attemptNo[heldRun[w]]
          /\ heldToken[w] # 0
      BY <2>7, TokenIsNewest DEF Publish, Authority, HoldsLease, Busy
    <3> QED
      BY <2>7, <3>2, <3>3 DEF Publish, EndRun, IInv, TypeOK, Rest, RunJobAgree,
         AttemptAccounting, PublishedByNewestAttempt, Blank, JobStatusOf, ActiveStatus
  <2>8. CASE FailRun(w)
    <3>1. SlotsKeepOrDrop
      BY <1>0, <2>8 DEF FailRun, EndRun, ReturnFrom, SlotsKeepOrDrop, TypeOK, Busy
    <3>2. heldRun[w] \in Runs /\ runStatus[heldRun[w]] \in ActiveStatus
      BY <2>8 DEF FailRun, HoldsLease, HoldsToken, ActiveStatus
    <3> QED
      BY <2>8, <3>1, <3>2, FenceFrame, EndKeepsRest DEF FailRun
  <2>9. ASSUME NEW t \in WaitTimeouts, YieldForWait(w, t) PROVE Rest'
    <3>1. SlotsKeepOrDrop
      BY <1>0, <2>9 DEF YieldForWait, Requeue, ReturnFrom, SlotsKeepOrDrop, TypeOK, Busy
    <3>2. LeaseFence' /\ \A v \in Workers : phase'[v] \notin Busy => heldRun'[v] = NoRun
      BY <3>1, FenceFrame
    <3>3. /\ heldRun[w] \in Runs
          /\ runStatus[heldRun[w]] = "running" /\ jobStatus[heldRun[w]] = "running"
          /\ outputBy[heldRun[w]] = 0
      BY <2>9, TokenIsNewest DEF YieldForWait, Authority, HoldsLease, Busy
    <3> QED
      BY <2>9, <3>2, <3>3 DEF YieldForWait, Requeue, IInv, TypeOK, Rest, RunJobAgree,
         AttemptAccounting, PublishedByNewestAttempt, Blank, JobStatusOf, ActiveStatus
  <2>10. ASSUME NEW res \in Interruptions, Return(w, res) PROVE Rest'
    BY <1>0, <2>10, RowsKeepRest DEF Return, ReturnFrom, SlotsKeepOrDrop, TypeOK, Busy
  <2>11. CASE AbandonLost(w)
    BY <1>0, <2>11, RowsKeepRest DEF AbandonLost, FreeSlot, SlotsKeepOrDrop, TypeOK, Busy
  <2>12. CASE ReleaseLease(w)
    BY <1>0, <2>12, RowsKeepRest DEF ReleaseLease, FreeSlot, SlotsKeepOrDrop, TypeOK, Busy
  <2>13. CASE ResolveStale(w)
    BY <1>0, <2>13, RowsKeepRest DEF ResolveStale, FreeSlot, SlotsKeepOrDrop, TypeOK, Busy
  <2>14. ASSUME NEW b \in Backoffs, ResolveRetry(w, b) PROVE Rest'
    <3>1. SlotsKeepOrDrop
      BY <1>0, <2>14 DEF ResolveRetry, Requeue, FreeSlot, SlotsKeepOrDrop, TypeOK, Busy
    <3>2. LeaseFence' /\ \A v \in Workers : phase'[v] \notin Busy => heldRun'[v] = NoRun
      BY <3>1, FenceFrame
    <3>3. /\ heldRun[w] \in Runs
          /\ runStatus[heldRun[w]] = "running" /\ jobStatus[heldRun[w]] = "running"
          /\ outputBy[heldRun[w]] = 0
      BY <2>14, TokenIsNewest DEF ResolveRetry, Resolving, Busy
    <3> QED
      BY <2>14, <3>2, <3>3 DEF ResolveRetry, OutOfAttempts, Requeue, IInv, TypeOK, Rest, RunJobAgree,
         AttemptAccounting, PublishedByNewestAttempt, Blank, JobStatusOf, ActiveStatus
  <2>15. ASSUME NEW b \in Backoffs, ResolveTerminal(w, b) PROVE Rest'
    <3>1. PICK code : Terminalize(w, code)
      BY <2>15 DEF ResolveTerminal
    <3>2. SlotsKeepOrDrop
      BY <1>0, <3>1 DEF Terminalize, EndRun, FreeSlot, SlotsKeepOrDrop, TypeOK, Busy
    <3>3. heldRun[w] \in Runs /\ runStatus[heldRun[w]] \in ActiveStatus
      BY <2>15, <3>1 DEF ResolveTerminal, Terminalize, HoldsToken, ActiveStatus
    <3> QED
      BY <3>1, <3>2, <3>3, FenceFrame, EndKeepsRest DEF Terminalize
  <2>16. CASE Crash(w)
    BY <1>0, <2>16, RowsKeepRest DEF Crash, FreeSlot, SlotsKeepOrDrop, TypeOK, Busy
  <2> QED
    BY <1>3, <2>1, <2>2, <2>3, <2>4, <2>5, <2>6, <2>7, <2>8, <2>9, <2>10, <2>11,
       <2>12, <2>13, <2>14, <2>15, <2>16 DEF WorkerStep, ClaimNext, Finish
<1>4. CASE UNCHANGED vars
  BY <1>0, <1>4, RowsKeepRest DEF vars, SlotsKeepOrDrop
<1> QED
  BY <1>1, <1>2, <1>3, <1>4 DEF Next

\* IInv is an invariant of the specification.
THEOREM Invariance == Spec => []IInv
<1>1. IInv /\ [Next]_vars => IInv'
  BY TypeStep, RestStep DEF IInv, Rest
<1> QED
  BY InitIInv, <1>1, PTL DEF Spec

\* The type invariant of AgentJobs.
THEOREM TypeCorrect == Spec => []TypeOK
  BY Invariance, PTL DEF IInv

\* Run and Job never disagree.
THEOREM RunJobAgreement == Spec => []RunJobAgree
  BY Invariance, PTL DEF IInv

\* No two slots hold the same token, and the stored one is the newest.
THEOREM LeaseFencing == Spec => []LeaseFence
  BY Invariance, PTL DEF IInv

\* Leases are accounted for, failures stay below the limit.
THEOREM AttemptsAccounted == Spec => []AttemptAccounting
  BY Invariance, PTL DEF IInv

\* Only the newest Attempt publishes.
THEOREM PublicationFencing == Spec => []PublishedByNewestAttempt
  BY Invariance, PTL DEF IInv

----------------------------------------------------------------------------
\* What one step may do to Run q: nothing once it is terminal, otherwise one
\* edge of its abstract life.
Lawful(q) == (Terminal(q) => Row(q)' = Row(q)) /\ Lifecycle!Moves(q)

\* Every step treats every Run lawfully.
LEMMA StepLawful == IInv /\ [Next]_vars => \A q \in Runs : Lawful(q)
<1> SUFFICES ASSUME IInv, [Next]_vars, NEW q \in Runs PROVE Lawful(q)
  OBVIOUS
<1> USE ConstantAssumption DEF runVars, jobVars, workerVars, Lawful, Row, Lifecycle!Moves,
        Lifecycle!Edges, Terminal, TerminalStatus, ActiveStatus, JobStatusOf, EndRun, Requeue
<1>0. TypeOK /\ RunJobAgree
  BY DEF IInv
<1>1. ASSUME UNCHANGED <<runVars, jobStatus, attemptNo, failedAttempts, leaseToken, waits>>,
             Terminal(q) => UNCHANGED <<leaseExpires[q], availableAt[q]>>
      PROVE  Lawful(q)
  BY <1>1
<1>2. CASE Tick
  BY <1>1, <1>2 DEF Tick
<1>3. ASSUME NEW r \in Runs, RunStep(r) PROVE Lawful(q)
  <2>1. CASE Admit(r)         BY <1>0, <2>1 DEF Admit, TypeOK
  <2>2. CASE Cancel(r)        BY <1>0, <2>2 DEF Cancel, TypeOK
  <2>3. CASE ExpireOnRead(r)  BY <1>0, <2>3 DEF ExpireOnRead, Overdue, TypeOK
  <2>4. CASE WakeWaiting(r)   BY <1>0, <2>4 DEF WakeWaiting, RunJobAgree, TypeOK
  <2> QED
    BY <1>3, <2>1, <2>2, <2>3, <2>4 DEF RunStep
<1>4. ASSUME NEW w \in Workers, WorkerStep(w) PROVE Lawful(q)
  <2>0. ASSUME HoldsToken(w), phase[w] \in Busy
        PROVE  /\ heldRun[w] \in Runs
               /\ runStatus[heldRun[w]] = "running" /\ jobStatus[heldRun[w]] = "running"
               /\ outputBy[heldRun[w]] = 0
               /\ heldToken[w] # 0
    BY <2>0, TokenIsNewest
  <2>1. CASE ClaimNothing(w)
    BY <1>0, <2>1 DEF ClaimNothing, AfterExpiry, Overdue, TypeOK
  <2>2. ASSUME NEW r \in Runs, ClaimLease(w, r) PROVE Lawful(q)
    BY <1>0, <2>2 DEF ClaimLease, NewToken, Claimable, AfterExpiry, Overdue, TypeOK
  <2>3. ASSUME NEW r \in Runs, ClaimExhausted(w, r) PROVE Lawful(q)
    BY <1>0, <2>3 DEF ClaimExhausted, Claimable, AfterExpiry, Overdue, TypeOK
  <2>4. ASSUME NEW r \in Runs, ClaimFails(w, r) PROVE Lawful(q)
    BY <1>1, <2>4 DEF ClaimFails
  <2>5. CASE Heartbeat(w)
    BY <1>0, <1>1, <2>5 DEF Heartbeat, HoldsLease, HoldsToken, RunJobAgree, TypeOK
  <2>6. CASE HeartbeatError(w)
    BY <1>1, <2>6 DEF HeartbeatError
  <2>7. CASE Publish(w)
    BY <1>0, <2>0, <2>7 DEF Publish, Authority, HoldsLease, Busy, TypeOK
  <2>8. CASE FailRun(w)
    BY <1>0, <2>0, <2>8 DEF FailRun, HoldsLease, Busy, TypeOK
  <2>9. ASSUME NEW t \in WaitTimeouts, YieldForWait(w, t) PROVE Lawful(q)
    BY <1>0, <2>0, <2>9 DEF YieldForWait, Authority, HoldsLease, Busy, TypeOK
  <2>10. ASSUME NEW res \in Interruptions, Return(w, res) PROVE Lawful(q)
    BY <1>1, <2>10 DEF Return
  <2>11. CASE AbandonLost(w) \/ ResolveStale(w) \/ Crash(w)
    BY <1>1, <2>11 DEF AbandonLost, ResolveStale, Crash
  <2>12. CASE ReleaseLease(w)
    BY <1>0, <1>1, <2>12 DEF ReleaseLease, HoldsToken, RunJobAgree, TypeOK
  <2>14. ASSUME NEW b \in Backoffs, ResolveRetry(w, b) PROVE Lawful(q)
    BY <1>0, <2>0, <2>14 DEF ResolveRetry, Resolving, Busy, TypeOK
  <2>15. ASSUME NEW b \in Backoffs, ResolveTerminal(w, b) PROVE Lawful(q)
    <3>1. PICK code : Terminalize(w, code)
      BY <2>15 DEF ResolveTerminal
    <3> QED
      BY <1>0, <2>0, <2>15, <3>1 DEF ResolveTerminal, Resolving, Terminalize, Busy, TypeOK
  <2> QED
    BY <1>4, <2>1, <2>2, <2>3, <2>4, <2>5, <2>6, <2>7, <2>8, <2>9, <2>10, <2>11,
       <2>12, <2>14, <2>15 DEF WorkerStep, ClaimNext, Finish
<1>5. CASE UNCHANGED vars
  BY <1>1, <1>5 DEF vars
<1> QED
  BY <1>2, <1>3, <1>4, <1>5 DEF Next

\* A terminal Run is never reopened.
THEOREM TerminalFinality == Spec => TerminalIsFinal
<1>1. IInv /\ [Next]_vars => [\A r \in Runs : Terminal(r) => Row(r)' = Row(r)]_vars
  BY StepLawful DEF Lawful
<1> QED
  BY <1>1, Invariance, PTL DEF Spec, TerminalIsFinal

\* AgentJobs implements RunLifecycle under status <- runStatus and
\* answer <- outputBy.
THEOREM ImplementsRunLifecycle == Spec => RefinesRunLifecycle
<1>1. Init => Lifecycle!LifecycleInit
  BY DEF Init, Lifecycle!LifecycleInit
<1>2. IInv /\ [Next]_vars => [Lifecycle!LifecycleNext]_(Lifecycle!lifecycleVars)
  BY StepLawful DEF Lawful, Lifecycle!LifecycleNext
<1> QED
  BY <1>1, <1>2, Invariance, PTL DEF Spec, RefinesRunLifecycle, Lifecycle!LifecycleSpec

----------------------------------------------------------------------------
\* The step formula of StaleAttemptInert for slot u.
Inert(u) ==
    (/\ phase[u] \in {"executing", "returned"}
     /\ ~HoldsToken(u)
     /\ <<phase[u], heartbeat[u]>>' # <<phase[u], heartbeat[u]>>)
        => \A r \in Runs : heldRun[u] = r => Row(r)' = Row(r)

\* Only the slot itself moves its phase and heartbeat, and without the token no
\* action of a busy slot is enabled that writes a row.
LEMMA StepInert == IInv /\ [Next]_vars => \A u \in Workers : Inert(u)
<1> SUFFICES ASSUME IInv, [Next]_vars, NEW u \in Workers PROVE Inert(u)
  OBVIOUS
<1>0. TypeOK
  BY DEF IInv
<1> USE <1>0 DEF runVars, jobVars, workerVars, Inert
<1>1. ASSUME UNCHANGED <<phase, heartbeat>> PROVE Inert(u)
  BY <1>1
<1>2. ASSUME UNCHANGED <<runVars, jobVars>> PROVE Inert(u)
  BY <1>2 DEF Row
<1>3. CASE Tick
  BY <1>1, <1>3 DEF Tick
<1>4. ASSUME NEW r \in Runs, RunStep(r) PROVE Inert(u)
  BY <1>1, <1>4 DEF RunStep, Admit, Cancel, ExpireOnRead, WakeWaiting
<1>5. ASSUME NEW w \in Workers, WorkerStep(w) PROVE Inert(u)
  <2>1. CASE ClaimNext(w)
    BY <2>1 DEF ClaimNext, ClaimNothing, ClaimLease, NewToken, ClaimExhausted, ClaimFails, CanClaim, TypeOK
  <2>2. CASE Heartbeat(w)
    BY <2>2 DEF Heartbeat, HoldsLease, HoldsToken, Row, TypeOK
  <2>3. CASE HeartbeatError(w) \/ AbandonLost(w) \/ ResolveStale(w) \/ Crash(w)
             \/ \E res \in Interruptions : Return(w, res)
    BY <1>2, <2>3 DEF HeartbeatError, AbandonLost, ResolveStale, Crash, Return
  <2>4. CASE Publish(w) \/ FailRun(w) \/ \E t \in WaitTimeouts : YieldForWait(w, t)
    BY <2>4 DEF Publish, FailRun, YieldForWait, Authority, HoldsLease, ReturnFrom, TypeOK
  <2>5. CASE ReleaseLease(w)
    <3>1. CASE u = w
      BY <2>5, <3>1 DEF ReleaseLease, Row
    <3>2. CASE u # w
      BY <2>5, <3>2 DEF ReleaseLease, FreeSlot, TypeOK
    <3> QED
      BY <3>1, <3>2
  <2>6. CASE \E b \in Backoffs : ResolveRetry(w, b) \/ ResolveTerminal(w, b)
    BY <2>6 DEF ResolveRetry, ResolveTerminal, Terminalize, FreeSlot, TypeOK
  <2> QED
    BY <1>5, <2>1, <2>2, <2>3, <2>4, <2>5, <2>6 DEF WorkerStep, Finish
<1>6. CASE UNCHANGED vars
  BY <1>1, <1>6 DEF vars
<1> QED
  BY <1>3, <1>4, <1>5, <1>6 DEF Next

\* A straggler changes nothing.
THEOREM StaleAttemptsAreInert == Spec => StaleAttemptInert
<1>1. IInv /\ [Next]_vars =>
        [\A w \in Workers, r \in Runs :
          (/\ phase[w] \in {"executing", "returned"}
           /\ heldRun[w] = r
           /\ leaseToken[r] # heldToken[w]
           /\ <<phase[w], heartbeat[w]>>' # <<phase[w], heartbeat[w]>>)
              => Row(r)' = Row(r)]_vars
  BY StepInert DEF Inert, HoldsToken
<1> QED
  BY <1>1, Invariance, PTL DEF Spec, StaleAttemptInert

\* The step formula of DeadlineHolds for Run q.
Timely(q) ==
    (attemptNo'[q] # attemptNo[q] \/ (runStatus'[q] = "completed" /\ ~Terminal(q)))
        => now < deadline[q]

\* A lease needs a Run the same transaction did not expire, a publication needs
\* the authority check.
LEMMA StepTimely == IInv /\ [Next]_vars => \A q \in Runs : Timely(q)
<1> SUFFICES ASSUME IInv, [Next]_vars, NEW q \in Runs PROVE Timely(q)
  OBVIOUS
<1>0. TypeOK
  BY DEF IInv
<1> USE <1>0 DEF runVars, jobVars, workerVars, Timely, TypeOK, Terminal, TerminalStatus,
        EndRun, Requeue, AfterExpiry
<1>1. CASE Tick
  BY <1>1 DEF Tick
<1>2. ASSUME NEW r \in Runs, RunStep(r) PROVE Timely(q)
  BY <1>2 DEF RunStep, Admit, Cancel, ExpireOnRead, WakeWaiting
<1>3. ASSUME NEW w \in Workers, WorkerStep(w) PROVE Timely(q)
  <2>1. CASE ClaimNothing(w)
    BY <2>1 DEF ClaimNothing
  <2>2. ASSUME NEW r \in Runs, ClaimLease(w, r) PROVE Timely(q)
    BY <2>2 DEF ClaimLease, NewToken, Claimable, Overdue, ActiveStatus
  <2>3. ASSUME NEW r \in Runs, ClaimExhausted(w, r) \/ ClaimFails(w, r) PROVE Timely(q)
    BY <2>3 DEF ClaimExhausted, ClaimFails
  <2>4. CASE Heartbeat(w) \/ HeartbeatError(w) \/ FailRun(w) \/ Finish(w) \/ Crash(w)
             \/ (\E res \in Interruptions : Return(w, res))
             \/ (\E t \in WaitTimeouts : YieldForWait(w, t))
    BY <2>4 DEF Heartbeat, HeartbeatError, FailRun, Crash, Return, YieldForWait, Finish, AbandonLost,
       ReleaseLease, ResolveStale, ResolveRetry, ResolveTerminal, Terminalize
  <2>5. CASE Publish(w)
    BY <2>5 DEF Publish, Authority
  <2> QED
    BY <1>3, <2>1, <2>2, <2>3, <2>4, <2>5 DEF WorkerStep, ClaimNext
<1>4. CASE UNCHANGED vars
  BY <1>4 DEF vars
<1> QED
  BY <1>1, <1>2, <1>3, <1>4 DEF Next

\* Nothing is leased or published past its deadline.
THEOREM DeadlinesHold == Spec => DeadlineHolds
<1>1. IInv /\ [Next]_vars =>
        [\A r \in Runs :
          (attemptNo'[r] # attemptNo[r] \/ (runStatus'[r] = "completed" /\ ~Terminal(r)))
              => now < deadline[r]]_vars
  BY StepTimely DEF Timely
<1> QED
  BY <1>1, Invariance, PTL DEF Spec, DeadlineHolds
============================================================================
