-------------------------- MODULE DelegationProofs --------------------------
(***************************************************************************)
(* Theorems about Delegation, for every number of Attempts and both kinds  *)
(* of rows.                                                                *)
(***************************************************************************)
EXTENDS Delegation, Integers, TLAPS

----------------------------------------------------------------------------
(* The inductive invariant.                                                *)

Statuses == {"absent"} \cup Active \cup Ended

\* The rows have their types; Attempts are numbered without a bound.
Typed ==
    /\ run \in [Runs -> Statuses]
    /\ job \in [Runs -> {"absent", "succeeded", "failed", "cancelled"} \cup Waiting]
    /\ attemptNo \in [Runs -> Nat]
    /\ failed \in [Runs -> 0..(MaxAttempts - 1)]
    /\ lease \in [Runs -> {"none", "live", "late"}]
    /\ delegation \in Delegations
    /\ consumed \in BOOLEAN /\ outcome \in BOOLEAN /\ overdue \in BOOLEAN

\* A Run is claimed once for each time it was queued and once more for each
\* failure: a parent is queued again when its child ends.
Resumed(r) == IF r = "parent" /\ delegation \notin {"none", "waiting"} THEN 1 ELSE 0

Started(r) == IF job[r] \in {"queued", "absent"} THEN 0 ELSE 1

Counted == \A r \in Runs : attemptNo[r] <= failed[r] + Started(r) + Resumed(r)

\* What the rows of the two Runs and of their delegation tell of each other.
Agree ==
    /\ RunJobAgree
    /\ WaitsOnlyForActiveChild
    /\ DelegationTellsChild
    /\ consumed => delegation \notin {"none", "waiting"}

\* Processes have the tokens that were given out.
Processes ==
    /\ acting \subseteq Runs \X Nat /\ checked \subseteq acting
    /\ \A r \in Runs, n \in Nat : <<r, n>> \in acting => 1 <= n /\ n <= attemptNo[r]
    /\ accepted \in Nat /\ accepted <= attemptNo["parent"]
    /\ answer \in {"none", "action_interrupted"}
    /\ reply \in {"none", "cancelled", "refused", "error"}

IInv == Typed /\ Counted /\ Agree /\ Processes

\* The part of it about rows.
Rows == Typed /\ Counted /\ Agree

----------------------------------------------------------------------------
(* The steps that write rows.                                              *)

\* The numbers of failures and leases.
LEMMA Numbers ==
    ASSUME DelegationAssumption, Typed, NEW r \in Runs
    PROVE  attemptNo[r] \in Nat /\ failed[r] \in Nat /\ failed[r] <= MaxAttempts - 1 /\ MaxAttempts \in Nat
  BY DEF DelegationAssumption, Typed

\* Rows that do not change.
LEMMA RowsSame ==
    ASSUME Rows, UNCHANGED <<rows, link>>, overdue' = overdue \/ overdue' = TRUE
    PROVE  Rows'
<1>1. UNCHANGED <<run, job, attemptNo, failed, lease, delegation, consumed, outcome>>
  BY DEF rows, link
<1>2. Typed'
  BY <1>1 DEF Rows, Typed
<1>3. Counted'
  BY <1>1 DEF Rows, Counted, Resumed, Started
<1>4. Agree'
  BY <1>1 DEF Rows, Agree, RunJobAgree, WaitsOnlyForActiveChild, DelegationTellsChild
<1> QED
  BY <1>2, <1>3, <1>4 DEF Rows

\* The parent ends by its own transaction: it holds its lease, so its child has
\* ended or never was.
LEMMA EndParent ==
    ASSUME DelegationAssumption, Rows, NEW status \in Ended, EndRow("parent", status),
           job["parent"] = "running" \/ delegation = "none",
           UNCHANGED <<attemptNo, failed, delegation, outcome, overdue>>,
           consumed' = consumed \/ (consumed' = TRUE /\ delegation \notin {"none", "waiting"})
    PROVE  Rows'
<1>1. /\ run'["parent"] = status /\ run'["child"] = run["child"]
      /\ job'["parent"] = JobOf(status) /\ job'["child"] = job["child"]
      /\ lease'["parent"] = "none" /\ lease'["child"] = lease["child"]
  BY DEF EndRow, Rows, Typed, Runs
<1>2. Typed'
  BY DEF Rows, Typed, EndRow, Statuses, Ended, JobOf, Waiting, Runs
<1>3. Counted'
  <2> SUFFICES ASSUME NEW r \in Runs
               PROVE  attemptNo'[r] <= failed'[r] + Started(r)' + Resumed(r)'
    BY DEF Counted
  <2>1. Started(r)' \in {0, 1} /\ Started(r) \in {0, 1} /\ Started(r) <= Started(r)'
    BY <1>1 DEF Started, JobOf, Ended, Runs
  <2>2. Resumed(r)' = Resumed(r) /\ Resumed(r) \in {0, 1}
    BY DEF Resumed
  <2>3. attemptNo[r] <= failed[r] + Started(r) + Resumed(r)
    BY DEF Rows, Counted
  <2> QED
    BY <2>1, <2>2, <2>3, Numbers DEF Rows
<1>4. Agree'
  <2>1. run["child"] \notin Active
    BY DEF Rows, Agree, WaitsOnlyForActiveChild, DelegationTellsChild, Active
  <2>2. RunJobAgree'
    BY <1>1 DEF Rows, Agree, RunJobAgree, Runs, JobOf, Ended, Active
  <2>3. WaitsOnlyForActiveChild'
    BY <1>1, <2>1 DEF WaitsOnlyForActiveChild, JobOf, Ended, Active
  <2>4. DelegationTellsChild'
    BY <1>1 DEF Rows, Agree, DelegationTellsChild
  <2> QED
    BY <2>2, <2>3, <2>4 DEF Rows, Agree
<1> QED
  BY <1>2, <1>3, <1>4 DEF Rows

\* The end of the child: the parent, which waits, is queued again unless the
\* deadline has passed.
LEMMA EndChild ==
    ASSUME DelegationAssumption, Rows, NEW status \in {"completed", "failed"},
           delegation = "waiting", Terminalize(status),
           UNCHANGED <<attemptNo, failed, consumed, overdue>>,
           outcome' = (status = "completed")
    PROVE  Rows'
<1>1. /\ run["child"] \in Active /\ job["parent"] = "waiting"
      /\ run["parent"] = "running" /\ lease["parent"] = "none"
  BY DEF Rows, Agree, DelegationTellsChild, WaitsOnlyForActiveChild, RunJobAgree, Runs, Active,
     Typed, Statuses, Ended, JobOf, Waiting
<1>2. /\ run'["child"] = status /\ job'["child"] = JobOf(status) /\ lease'["child"] = "none"
      /\ run'["parent"] = IF overdue THEN "running" ELSE "queued"
      /\ job'["parent"] = IF overdue THEN "waiting" ELSE "queued"
      /\ lease'["parent"] = "none"
      /\ delegation' = IF status = "completed" THEN "succeeded" ELSE status
  BY <1>1 DEF Terminalize, Rows, Typed, Runs
<1>3. Typed'
  <2>1. run' \in [Runs -> Statuses] /\ lease' \in [Runs -> {"none", "live", "late"}]
    BY DEF Terminalize, Rows, Typed, Statuses, Ended, Active
  <2>2. job' \in [Runs -> {"absent", "succeeded", "failed", "cancelled"} \cup Waiting]
    BY DEF Terminalize, Rows, Typed, JobOf, Waiting
  <2>3. delegation' \in Delegations /\ outcome' \in BOOLEAN
    BY <1>2 DEF Delegations
  <2> QED
    BY <2>1, <2>2, <2>3 DEF Rows, Typed
<1>4. Counted'
  <2> SUFFICES ASSUME NEW r \in Runs
               PROVE  attemptNo'[r] <= failed'[r] + Started(r)' + Resumed(r)'
    BY DEF Counted
  <2>1. attemptNo[r] <= failed[r] + Started(r) + Resumed(r)
    BY DEF Rows, Counted
  <2>2. Started(r) + Resumed(r) <= Started(r)' + Resumed(r)'
    BY <1>1, <1>2 DEF Started, Resumed, Runs, JobOf
  <2>3. Started(r) \in Int /\ Resumed(r) \in Int /\ Started(r)' \in Int /\ Resumed(r)' \in Int
    BY DEF Started, Resumed
  <2> QED
    BY <2>1, <2>2, <2>3, Numbers DEF Rows
<1>5. Agree'
  <2>1. RunJobAgree'
    BY <1>2 DEF RunJobAgree, Runs, JobOf, Active
  <2>2. WaitsOnlyForActiveChild'
    BY <1>2 DEF WaitsOnlyForActiveChild, Active
  <2>3. DelegationTellsChild'
    BY <1>2 DEF DelegationTellsChild, Active
  <2>4. ~consumed
    BY DEF Rows, Agree
  <2> QED
    BY <2>1, <2>2, <2>3, <2>4 DEF Agree
<1> QED
  BY <1>3, <1>4, <1>5 DEF Rows

\* An Attempt that fails for good ends its Run, the child through its delegation.
LEMMA EndAttempt ==
    ASSUME DelegationAssumption, Rows, NEW r \in Runs, NEW n, TerminalizeAttempt(r, n),
           UNCHANGED <<attemptNo, failed, overdue>>
    PROVE  Rows'
<1>1. CASE MayTerminalize(n) /\ Terminalize("failed") /\ UNCHANGED <<consumed, outcome>>
  <2>1. outcome' = FALSE
    BY <1>1 DEF MayTerminalize, Rows, Agree, DelegationTellsChild, Typed
  <2> QED
    BY <1>1, <2>1, EndChild DEF MayTerminalize
<1>2. CASE HoldsToken("parent", n) /\ EndRow("parent", "failed") /\ UNCHANGED link
  BY <1>2, EndParent DEF HoldsToken, link, Ended
<1> QED
  BY <1>1, <1>2 DEF TerminalizeAttempt

\* A claim gives out the next token.
LEMMA ClaimRows ==
    ASSUME DelegationAssumption, Rows, NEW r \in Runs, Claim(r)
    PROVE  Rows'
<1>1. /\ UNCHANGED <<delegation, consumed, outcome, overdue>>
      /\ run' = [run EXCEPT ![r] = "running"] /\ job' = [job EXCEPT ![r] = "running"]
      /\ lease' = [lease EXCEPT ![r] = "live"]
      /\ attemptNo' = [attemptNo EXCEPT ![r] = @ + 1]
      /\ failed' = [failed EXCEPT ![r] = IF LeaseLost(r) THEN @ + 1 ELSE @]
  BY DEF Claim, link
<1>2. \/ job[r] = "queued" /\ run[r] = "queued" /\ ~LeaseLost(r)
      \/ job[r] = "running" /\ run[r] = "running" /\ LeaseLost(r) /\ failed[r] + 1 < MaxAttempts
  BY Numbers DEF Claim, Claimable, LeaseLost, Exhausted, Rows
<1>3. \A q \in Runs : /\ run'[q] = IF q = r THEN "running" ELSE run[q]
                      /\ job'[q] = IF q = r THEN "running" ELSE job[q]
                      /\ lease'[q] = IF q = r THEN "live" ELSE lease[q]
                      /\ attemptNo'[q] = IF q = r THEN attemptNo[q] + 1 ELSE attemptNo[q]
                      /\ failed'[q] = IF q = r /\ LeaseLost(r) THEN failed[q] + 1 ELSE failed[q]
  BY <1>1 DEF Rows, Typed
<1>4. Typed'
  <2>1. failed' \in [Runs -> 0..(MaxAttempts - 1)]
    BY <1>1, <1>2, Numbers DEF Rows, Typed
  <2>2. attemptNo' \in [Runs -> Nat]
    BY <1>1 DEF Rows, Typed
  <2> QED
    BY <1>1, <2>1, <2>2 DEF Rows, Typed, Statuses, Active, Waiting
<1>5. Counted'
  <2> SUFFICES ASSUME NEW q \in Runs
               PROVE  attemptNo'[q] <= failed'[q] + Started(q)' + Resumed(q)'
    BY DEF Counted
  <2>1. attemptNo[q] <= failed[q] + Started(q) + Resumed(q) /\ Resumed(q)' = Resumed(q)
    BY <1>1 DEF Rows, Counted, Resumed
  <2>2. Started(q)' = IF q = r THEN 1 ELSE Started(q)
    BY <1>3 DEF Started
  <2>3. q = r => Started(q) = IF LeaseLost(r) THEN 1 ELSE 0
    BY <1>2 DEF Started
  <2>4. Started(q) \in Int /\ Resumed(q) \in Int
    BY DEF Started, Resumed
  <2>5. attemptNo'[q] = IF q = r THEN attemptNo[q] + 1 ELSE attemptNo[q]
    BY <1>3
  <2>6. failed'[q] = IF q = r /\ LeaseLost(r) THEN failed[q] + 1 ELSE failed[q]
    BY <1>3
  <2>7. attemptNo[q] \in Nat /\ failed[q] \in Nat
    BY Numbers DEF Rows
  <2> QED
    BY <2>1, <2>2, <2>3, <2>4, <2>5, <2>6, <2>7
<1>6. Agree'
  <2>1. RunJobAgree'
    BY <1>3 DEF Rows, Agree, RunJobAgree, Active, JobOf
  <2>2. WaitsOnlyForActiveChild'
    BY <1>1, <1>2, <1>3 DEF Rows, Agree, WaitsOnlyForActiveChild, Active, Runs
  <2>3. DelegationTellsChild'
    BY <1>1, <1>2, <1>3 DEF Rows, Agree, DelegationTellsChild, Active, Runs
  <2> QED
    BY <1>1, <2>1, <2>2, <2>3 DEF Rows, Agree
<1> QED
  BY <1>4, <1>5, <1>6 DEF Rows

\* The deadline ends both Runs at once.
LEMMA ExpiryRows ==
    ASSUME DelegationAssumption, Rows, ExpireIfOverdue
    PROVE  Rows'
<1> DEFINE expired(r) == run[r] \in Active /\ job[r] \in Waiting
<1>1. /\ UNCHANGED <<attemptNo, failed, consumed, outcome, overdue>> /\ overdue
      /\ run' = [r \in Runs |-> IF expired(r) THEN "failed" ELSE run[r]]
      /\ job' = [r \in Runs |-> IF expired(r) THEN "failed" ELSE job[r]]
      /\ lease' = [r \in Runs |-> IF expired(r) THEN "none" ELSE lease[r]]
      /\ delegation' = IF expired("child") /\ delegation = "waiting" THEN "failed" ELSE delegation
  BY DEF ExpireIfOverdue
<1>2. \A r \in Runs : expired(r) <=> run[r] \in Active
  BY DEF Rows, Agree, RunJobAgree, Waiting, Active
<1>3. \A r \in Runs : /\ run'[r] = IF run[r] \in Active THEN "failed" ELSE run[r]
                      /\ job'[r] = IF run[r] \in Active THEN "failed" ELSE job[r]
                      /\ lease'[r] = IF run[r] \in Active THEN "none" ELSE lease[r]
  <2> HIDE DEF expired
  <2> QED
    BY <1>1, <1>2
<1>4. delegation' = IF delegation = "waiting" THEN "failed" ELSE delegation
  BY <1>1, <1>2 DEF Rows, Agree, DelegationTellsChild, Runs
<1>5. Typed'
  <2>1. run' \in [Runs -> Statuses] /\ lease' \in [Runs -> {"none", "live", "late"}]
        /\ job' \in [Runs -> {"absent", "succeeded", "failed", "cancelled"} \cup Waiting]
    BY <1>1 DEF Rows, Typed, Statuses, Ended
  <2> QED
    BY <1>1, <1>4, <2>1 DEF Rows, Typed, Delegations
<1>6. Counted'
  <2> SUFFICES ASSUME NEW r \in Runs
               PROVE  attemptNo'[r] <= failed'[r] + Started(r)' + Resumed(r)'
    BY DEF Counted
  <2>1. attemptNo[r] <= failed[r] + Started(r) + Resumed(r)
    BY DEF Rows, Counted
  <2>2. Started(r) <= Started(r)' /\ Resumed(r) <= Resumed(r)'
    BY <1>3, <1>4 DEF Started, Resumed
  <2>3. Started(r) \in Int /\ Resumed(r) \in Int /\ Started(r)' \in Int /\ Resumed(r)' \in Int
    BY DEF Started, Resumed
  <2> QED
    BY <1>1, <2>1, <2>2, <2>3, Numbers DEF Rows
<1>7. Agree'
  <2>1. RunJobAgree'
    BY <1>3 DEF Rows, Agree, RunJobAgree, Active, JobOf
  <2>2. WaitsOnlyForActiveChild'
    BY <1>1, <1>3 DEF Rows, Agree, WaitsOnlyForActiveChild, Active, Runs
  <2>3. DelegationTellsChild'
    BY <1>1, <1>3, <1>4 DEF Rows, Agree, DelegationTellsChild, Active, Runs
  <2>4. consumed' => delegation' \notin {"none", "waiting"}
    BY <1>1, <1>4 DEF Rows, Agree
  <2> QED
    BY <2>1, <2>2, <2>3, <2>4 DEF Agree
<1> QED
  BY <1>5, <1>6, <1>7 DEF Rows

\* A lease that runs out changes its age only.
LEMMA LapseRows ==
    ASSUME DelegationAssumption, Rows, NEW r \in Runs, LapseLease(r)
    PROVE  Rows'
<1>1. UNCHANGED <<run, job, attemptNo, failed, delegation, consumed, outcome, overdue>>
  BY DEF LapseLease, link
<1>2. \A q \in Runs : lease'[q] # "none" <=> lease[q] # "none"
  BY DEF LapseLease, Rows, Typed
<1>3. Typed'
  BY <1>1 DEF LapseLease, Rows, Typed
<1>4. Counted'
  BY <1>1 DEF Rows, Counted, Resumed, Started
<1>5. Agree'
  <2>1. RunJobAgree'
    BY <1>1, <1>2 DEF Rows, Agree, RunJobAgree
  <2> QED
    BY <1>1, <2>1 DEF Rows, Agree, WaitsOnlyForActiveChild, DelegationTellsChild
<1> QED
  BY <1>3, <1>4, <1>5 DEF Rows

\* The parent gives its lease to wait for the child it creates.
LEMMA DelegateRows ==
    ASSUME DelegationAssumption, Rows, NEW n, Delegate(n)
    PROVE  Rows'
<1>1. /\ UNCHANGED <<attemptNo, failed, consumed, outcome, overdue>> /\ delegation = "none"
      /\ run["child"] = "absent" /\ job["child"] = "absent"
      /\ lease["child"] = "none" /\ run["parent"] = "running" /\ job["parent"] = "running"
  BY DEF Delegate, Authority, HoldsLease, HoldsToken, Rows, Typed, Agree, DelegationTellsChild,
     RunJobAgree, Runs, Active, JobOf
<1>2. /\ run'["child"] = "queued" /\ run'["parent"] = "running"
      /\ job'["child"] = "queued" /\ job'["parent"] = "waiting"
      /\ lease'["child"] = "none" /\ lease'["parent"] = "none" /\ delegation' = "waiting"
  BY <1>1 DEF Delegate, Rows, Typed, Runs
<1>3. Typed'
  <2>1. run' \in [Runs -> Statuses] /\ lease' \in [Runs -> {"none", "live", "late"}]
        /\ job' \in [Runs -> {"absent", "succeeded", "failed", "cancelled"} \cup Waiting]
    BY DEF Delegate, Rows, Typed, Statuses, Active, Waiting
  <2> QED
    BY <1>1, <1>2, <2>1 DEF Rows, Typed, Delegations
<1>4. Counted'
  <2> SUFFICES ASSUME NEW r \in Runs
               PROVE  attemptNo'[r] <= failed'[r] + Started(r)' + Resumed(r)'
    BY DEF Counted
  <2>1. attemptNo[r] <= failed[r] + Started(r) + Resumed(r)
    BY DEF Rows, Counted
  <2>2. Started(r)' = Started(r) /\ Resumed(r)' = Resumed(r)
    BY <1>1, <1>2 DEF Started, Resumed, Runs
  <2> QED
    BY <1>1, <2>1, <2>2
<1>5. Agree'
  <2>1. RunJobAgree'
    BY <1>2 DEF RunJobAgree, Active, Runs
  <2>2. WaitsOnlyForActiveChild'
    BY <1>2 DEF WaitsOnlyForActiveChild, Active
  <2>3. DelegationTellsChild'
    BY <1>1, <1>2 DEF Rows, Agree, DelegationTellsChild, Active
  <2> QED
    BY <1>1, <2>1, <2>2, <2>3 DEF Rows, Agree
<1> QED
  BY <1>3, <1>4, <1>5 DEF Rows

\* A retry queues the Run again, one failure later.
LEMMA RetryRows ==
    ASSUME DelegationAssumption, Rows, NEW r \in Runs, NEW n, Retry(r, n)
    PROVE  Rows'
<1>1. /\ UNCHANGED <<attemptNo, delegation, consumed, outcome, overdue>>
      /\ job[r] = "running" /\ run[r] = "running" /\ failed[r] + 1 < MaxAttempts
      /\ run' = [run EXCEPT ![r] = "queued"] /\ job' = [job EXCEPT ![r] = "queued"]
      /\ lease' = [lease EXCEPT ![r] = "none"] /\ failed' = [failed EXCEPT ![r] = @ + 1]
  BY DEF Retry, HoldsToken, link
<1>2. \A q \in Runs : /\ run'[q] = IF q = r THEN "queued" ELSE run[q]
                      /\ job'[q] = IF q = r THEN "queued" ELSE job[q]
                      /\ lease'[q] = IF q = r THEN "none" ELSE lease[q]
                      /\ failed'[q] = IF q = r THEN failed[q] + 1 ELSE failed[q]
  BY <1>1 DEF Rows, Typed
<1>3. Typed'
  <2>1. failed' \in [Runs -> 0..(MaxAttempts - 1)]
    BY <1>1, Numbers DEF Rows, Typed
  <2> QED
    BY <1>1, <2>1 DEF Rows, Typed, Statuses, Active, Waiting
<1>4. Counted'
  <2> SUFFICES ASSUME NEW q \in Runs
               PROVE  attemptNo'[q] <= failed'[q] + Started(q)' + Resumed(q)'
    BY DEF Counted
  <2>1. attemptNo[q] <= failed[q] + Started(q) + Resumed(q) /\ Resumed(q)' = Resumed(q)
    BY <1>1 DEF Rows, Counted, Resumed
  <2>2. q = r => Started(q) = 1 /\ Started(q)' = 0 /\ failed'[q] = failed[q] + 1
    BY <1>1, <1>2 DEF Started
  <2>3. q # r => Started(q)' = Started(q) /\ failed'[q] = failed[q]
    BY <1>2 DEF Started
  <2>4. Started(q) \in Int /\ Resumed(q) \in Int /\ attemptNo[q] \in Nat /\ failed[q] \in Nat
    BY Numbers DEF Started, Resumed, Rows
  <2> QED
    BY <1>1, <2>1, <2>2, <2>3, <2>4
<1>5. Agree'
  <2>1. RunJobAgree'
    BY <1>2 DEF Rows, Agree, RunJobAgree, Active
  <2>2. WaitsOnlyForActiveChild'
    BY <1>1, <1>2 DEF Rows, Agree, WaitsOnlyForActiveChild, Active, Runs
  <2>3. DelegationTellsChild'
    BY <1>1, <1>2 DEF Rows, Agree, DelegationTellsChild, Active, Runs
  <2> QED
    BY <1>1, <2>1, <2>2, <2>3 DEF Rows, Agree
<1> QED
  BY <1>3, <1>4, <1>5 DEF Rows

\* The Member cancels the parent, and with it a child that it waits for.
LEMMA CancelRows ==
    ASSUME DelegationAssumption, Rows, Cancel
    PROVE  Rows'
<1>1. UNCHANGED <<attemptNo, failed, overdue>>
  BY DEF Cancel
<1>2. CASE delegation = "none" /\ EndRow("parent", "cancelled") /\ UNCHANGED link
  BY <1>1, <1>2, EndParent DEF link, Ended
<1>3. CASE UNCHANGED <<run, job, lease, link>>
  BY <1>1, <1>3, RowsSame DEF rows
<1>4. CASE /\ run["parent"] \in Active /\ delegation = "waiting" /\ run["child"] \in Active
           /\ run' = [r \in Runs |-> "cancelled"] /\ job' = [r \in Runs |-> "cancelled"]
           /\ lease' = [r \in Runs |-> "none"] /\ delegation' = "cancelled"
           /\ UNCHANGED <<consumed, outcome>>
  <2>1. Typed'
    BY <1>1, <1>4 DEF Rows, Typed, Statuses, Ended, Delegations
  <2>2. Counted'
    <3> SUFFICES ASSUME NEW r \in Runs
                 PROVE  attemptNo'[r] <= failed'[r] + Started(r)' + Resumed(r)'
      BY DEF Counted
    <3>1. attemptNo[r] <= failed[r] + Started(r) + Resumed(r)
      BY DEF Rows, Counted
    <3>2. Started(r) <= Started(r)' /\ Resumed(r) <= Resumed(r)'
      BY <1>4 DEF Started, Resumed
    <3>3. Started(r) \in Int /\ Resumed(r) \in Int /\ Started(r)' \in Int /\ Resumed(r)' \in Int
      BY DEF Started, Resumed
    <3> QED
      BY <1>1, <3>1, <3>2, <3>3, Numbers DEF Rows
  <2>3. RunJobAgree'
    BY <1>4 DEF RunJobAgree, Active, JobOf
  <2>4. WaitsOnlyForActiveChild' /\ DelegationTellsChild'
    BY <1>4 DEF Rows, Agree, WaitsOnlyForActiveChild, DelegationTellsChild, Active, Runs
  <2>5. ~consumed'
    BY <1>4 DEF Rows, Agree
  <2>6. Agree'
    BY <2>3, <2>4, <2>5 DEF Agree
  <2> QED
    BY <2>1, <2>2, <2>6 DEF Rows
<1> QED
  BY <1>2, <1>3, <1>4 DEF Cancel

\* Every step keeps the rows.
LEMMA RowsStep ==
    ASSUME DelegationAssumption, Rows, [Next]_vars
    PROVE  Rows'
<1>1. CASE QueueStep
  BY <1>1, ClaimRows, ExpiryRows, EndAttempt DEF QueueStep, ClaimExhausted
<1>2. ASSUME NEW n \in Attempts, AttemptStep(n) PROVE Rows'
  <2>1. CASE AcceptDelegation(n) \/ CloseRecovered(n)
    BY <2>1, RowsSame DEF AcceptDelegation, CloseRecovered
  <2>2. CASE Delegate(n)
    BY <2>2, DelegateRows
  <2>3. CASE PublishParent(n) \/ FailParent(n)
    <3>1. /\ job["parent"] = "running" /\ UNCHANGED <<attemptNo, failed, overdue, link>>
          /\ EndRow("parent", "completed") \/ EndRow("parent", "failed")
      BY <2>3 DEF PublishParent, FailParent, Authority, HoldsLease, HoldsToken
    <3> QED
      BY <3>1, EndParent DEF link, Ended
  <2>4. CASE ResumeDelegated(n)
    <3>1. /\ job["parent"] = "running" /\ UNCHANGED <<attemptNo, failed, overdue, delegation, outcome>>
          /\ EndRow("parent", "completed") \/ EndRow("parent", "failed")
          /\ consumed' = TRUE /\ delegation \notin {"none", "waiting"}
      BY <2>4 DEF ResumeDelegated, HoldsToken
    <3> QED
      BY <3>1, EndParent DEF Ended
  <2>5. CASE CompleteResearch(n)
    <3>1. /\ delegation = "waiting" /\ Terminalize("completed") /\ outcome' = TRUE
          /\ UNCHANGED <<attemptNo, failed, consumed, overdue>>
      BY <2>5 DEF CompleteResearch, MayTerminalize
    <3> QED
      BY <3>1, EndChild
  <2>6. CASE FailResearch(n)
    <3>1. /\ delegation = "waiting" /\ Terminalize("failed") /\ outcome' = outcome
          /\ UNCHANGED <<attemptNo, failed, consumed, overdue>>
      BY <2>6 DEF FailResearch, MayTerminalize
    <3>2. outcome = FALSE
      BY <3>1 DEF Rows, Agree, DelegationTellsChild, Typed
    <3> QED
      BY <3>1, <3>2, EndChild
  <2>7. ASSUME NEW r \in Runs,
               RequireLease(r, n) \/ Aborted(r, n) \/ Retry(r, n) \/ ResolveTerminal(r, n) \/ ResolveStale(r, n)
        PROVE  Rows'
    <3>1. CASE RequireLease(r, n) \/ Aborted(r, n) \/ ResolveStale(r, n)
      BY <3>1, RowsSame DEF RequireLease, Aborted, ResolveStale
    <3>2. CASE Retry(r, n)
      BY <3>2, RetryRows
    <3>3. CASE ResolveTerminal(r, n)
      BY <3>3, EndAttempt DEF ResolveTerminal
    <3> QED
      BY <2>7, <3>1, <3>2, <3>3
  <2> QED
    BY <1>2, <2>1, <2>2, <2>3, <2>4, <2>5, <2>6, <2>7 DEF AttemptStep
<1>3. CASE PassDeadline \/ UNCHANGED vars
  BY <1>3, RowsSame DEF PassDeadline, vars
<1>4. CASE Cancel
  BY <1>4, CancelRows
<1>5. ASSUME NEW r \in Runs, LapseLease(r) \/ \E n \in Attempts : Crash(r, n) PROVE Rows'
  BY <1>5, LapseRows, RowsSame DEF Crash
<1> QED
  BY <1>1, <1>2, <1>3, <1>4, <1>5 DEF Next

----------------------------------------------------------------------------
(* Tokens.                                                                 *)

\* Every step keeps processes to tokens that were given out.
LEMMA ProcessesStep ==
    ASSUME DelegationAssumption, IInv, [Next]_vars
    PROVE  Processes'
<1>0. Processes /\ attemptNo \in [Runs -> Nat] /\ "parent" \in Runs
  BY DEF IInv, Typed, Runs
<1>1. \/ attemptNo' = attemptNo /\ acting' \subseteq acting
      \/ \E r \in Runs : /\ attemptNo' = [attemptNo EXCEPT ![r] = @ + 1]
                         /\ acting' = acting \cup {<<r, attemptNo[r] + 1>>}
  <2>1. CASE \E r \in Runs : Claim(r)
    BY <2>1 DEF Claim
  <2>2. CASE ~\E r \in Runs : Claim(r)
    BY <2>2, ZenonT(60) DEF Next, QueueStep, AttemptStep, ClaimExhausted, ExpireIfOverdue, PassDeadline, LapseLease,
       Crash, AcceptDelegation, Delegate, CloseRecovered, PublishParent, FailParent, ResumeDelegated,
       RequireLease, CompleteResearch, FailResearch, Aborted, Retry, ResolveTerminal, ResolveStale,
       Cancel, vars, rows
  <2> QED
    BY <2>1, <2>2
<1>2. checked' \subseteq acting'
  <2>0. checked \subseteq acting
    BY <1>0 DEF Processes
  <2>1. ASSUME NEW n \in Attempts, AttemptStep(n) PROVE checked' \subseteq acting'
    <3>1. CASE \/ AcceptDelegation(n) \/ Delegate(n) \/ CloseRecovered(n)
               \/ PublishParent(n) \/ FailParent(n)
      BY <2>0, <3>1 DEF AcceptDelegation, Delegate, CloseRecovered, PublishParent, FailParent
    <3>2. CASE \/ ResumeDelegated(n) \/ CompleteResearch(n) \/ FailResearch(n)
               \/ \E r \in Runs : Aborted(r, n)
      BY <2>0, <3>2 DEF ResumeDelegated, CompleteResearch, FailResearch, Aborted
    <3>3. ASSUME NEW r \in Runs, RequireLease(r, n) PROVE checked' \subseteq acting'
      BY <2>0, <3>3 DEF RequireLease
    <3>4. ASSUME NEW r \in Runs, Retry(r, n) \/ ResolveTerminal(r, n) \/ ResolveStale(r, n)
          PROVE  checked' \subseteq acting'
      BY <2>0, <3>4 DEF Retry, ResolveTerminal, ResolveStale
    <3> QED
      BY <2>1, <3>1, <3>2, <3>3, <3>4 DEF AttemptStep
  <2>2. CASE QueueStep
    BY <2>0, <2>2 DEF QueueStep, Claim, ClaimExhausted, ExpireIfOverdue
  <2>3. CASE PassDeadline \/ Cancel \/ UNCHANGED vars \/ \E r \in Runs : LapseLease(r)
    BY <2>0, <2>3 DEF PassDeadline, Cancel, LapseLease, vars
  <2>4. CASE \E r \in Runs, n \in Attempts : Crash(r, n)
    BY <2>0, <2>4 DEF Crash
  <2> QED
    BY <2>1, <2>2, <2>3, <2>4 DEF Next
<1>3. /\ acting' \subseteq Runs \X Nat
      /\ \A r \in Runs, n \in Nat : <<r, n>> \in acting' => 1 <= n /\ n <= attemptNo'[r]
      /\ \A r \in Runs : attemptNo'[r] \in Nat /\ attemptNo[r] <= attemptNo'[r]
  <2>1. CASE attemptNo' = attemptNo /\ acting' \subseteq acting
    BY <1>0, <2>1 DEF Processes
  <2>2. ASSUME NEW r \in Runs, attemptNo' = [attemptNo EXCEPT ![r] = @ + 1],
               acting' = acting \cup {<<r, attemptNo[r] + 1>>}
        PROVE  /\ acting' \subseteq Runs \X Nat
               /\ \A q \in Runs, n \in Nat : <<q, n>> \in acting' => 1 <= n /\ n <= attemptNo'[q]
               /\ \A q \in Runs : attemptNo'[q] \in Nat /\ attemptNo[q] <= attemptNo'[q]
    BY <1>0, <2>2 DEF Processes
  <2> QED
    BY <1>1, <2>1, <2>2
<1>4. accepted' = accepted \/ (\E n \in Nat : accepted' = n /\ <<"parent", n>> \in acting /\ acting' = acting)
  <2>1. CASE \E n \in Attempts : AcceptDelegation(n)
    BY <2>1 DEF AcceptDelegation, Attempts
  <2>2. CASE ~\E n \in Attempts : AcceptDelegation(n)
    BY <2>2 DEF Next, QueueStep, AttemptStep, Claim, ClaimExhausted, ExpireIfOverdue, PassDeadline,
       LapseLease, Crash, Delegate, CloseRecovered, PublishParent, FailParent, ResumeDelegated,
       RequireLease, CompleteResearch, FailResearch, Aborted, Retry, ResolveTerminal, ResolveStale,
       Cancel, vars, log
  <2> QED
    BY <2>1, <2>2
<1>5. accepted' \in Nat /\ accepted' <= attemptNo'["parent"]
  <2>1. accepted \in Nat /\ accepted <= attemptNo["parent"]
    BY <1>0 DEF Processes
  <2>2. attemptNo["parent"] \in Nat
    BY <1>0
  <2>3. CASE accepted' = accepted
    BY <1>0, <1>3, <2>1, <2>2, <2>3
  <2>4. ASSUME NEW n \in Nat, accepted' = n, <<"parent", n>> \in acting, acting' = acting
        PROVE  accepted' \in Nat /\ accepted' <= attemptNo'["parent"]
    BY <1>0, <1>3, <2>4
  <2> QED
    BY <1>4, <2>3, <2>4
<1>6. answer' \in {"none", "action_interrupted"} /\ reply' \in {"none", "cancelled", "refused", "error"}
  <2>1. answer' \in {answer, "none", "action_interrupted"}
        /\ reply' \in {reply, "none", "cancelled", "refused", "error"}
    BY DEF Next, QueueStep, AttemptStep, Claim, ClaimExhausted, ExpireIfOverdue, PassDeadline, LapseLease,
       Crash, AcceptDelegation, Delegate, CloseRecovered, PublishParent, FailParent, ResumeDelegated,
       RequireLease, CompleteResearch, FailResearch, Aborted, Retry, ResolveTerminal, ResolveStale,
       Cancel, vars, log
  <2> QED
    BY <1>0, <2>1 DEF Processes
<1> QED
  BY <1>2, <1>3, <1>5, <1>6 DEF Processes

----------------------------------------------------------------------------
(* The theorems.                                                           *)

\* The first state has the inductive invariant.
LEMMA InitIInv ==
    ASSUME DelegationAssumption, Init
    PROVE  IInv
<1>1. Typed
  <2>1. run \in [Runs -> {"queued", "absent"}] /\ job = run
    BY DEF Init
  <2>2. attemptNo \in [Runs -> Nat] /\ failed \in [Runs -> 0..(MaxAttempts - 1)]
    BY DEF Init, DelegationAssumption
  <2> QED
    BY <2>1, <2>2 DEF Init, Typed, Statuses, Active, Waiting, Delegations
<1>2. Counted
  BY DEF Init, Counted, Started, Resumed, Runs
<1>3. Agree
  BY DEF Init, Agree, RunJobAgree, WaitsOnlyForActiveChild, DelegationTellsChild, Active, Runs, JobOf
<1>4. Processes
  BY DEF Init, Processes, Runs
<1> QED
  BY <1>1, <1>2, <1>3, <1>4 DEF IInv

\* Every step keeps it.
LEMMA NextIInv ==
    ASSUME DelegationAssumption, IInv, [Next]_vars
    PROVE  IInv'
  BY RowsStep, ProcessesStep DEF IInv, Rows

\* It has the types, and bounds the leases.
LEMMA TypeFollows ==
    ASSUME DelegationAssumption, IInv
    PROVE  TypeOK
<1>1. Typed /\ Counted /\ Processes /\ MaxAttempts \in Nat
  BY DEF IInv, DelegationAssumption
<1>2. ASSUME NEW r \in Runs PROVE attemptNo[r] \in 0..MaxLeases
  <2>1. attemptNo[r] <= failed[r] + Started(r) + Resumed(r)
    BY <1>1 DEF Counted
  <2>2. Started(r) \in {0, 1} /\ Resumed(r) \in {0, 1}
    BY DEF Started, Resumed
  <2>3. attemptNo[r] \in Nat /\ failed[r] \in 0..(MaxAttempts - 1)
    BY <1>1 DEF Typed
  <2>4. MaxAttempts >= 1
    BY DEF DelegationAssumption
  <2> QED
    BY <1>1, <2>1, <2>2, <2>3, <2>4 DEF MaxLeases
<1>3. attemptNo \in [Runs -> 0..MaxLeases]
  BY <1>1, <1>2 DEF Typed
<1>4. acting \subseteq Runs \X Attempts
  <2> SUFFICES ASSUME NEW r \in Runs, NEW n \in Nat, <<r, n>> \in acting PROVE n \in Attempts
    BY <1>1 DEF Processes
  <2>1. 1 <= n /\ n <= attemptNo[r]
    BY <1>1 DEF Processes
  <2>2. MaxLeases \in Nat
    BY <1>1 DEF MaxLeases
  <2> QED
    BY <1>2, <2>1, <2>2 DEF Attempts
<1>5. accepted \in 0..MaxLeases
  <2>1. accepted \in Nat /\ accepted <= attemptNo["parent"] /\ attemptNo["parent"] \in 0..MaxLeases
    BY <1>1, <1>2 DEF Processes, Runs
  <2>2. MaxLeases \in Nat
    BY <1>1 DEF MaxLeases
  <2> QED
    BY <2>1, <2>2
<1> QED
  BY <1>1, <1>3, <1>4, <1>5 DEF TypeOK, Typed, Processes, Statuses

\* What it says of the properties.
LEMMA Consequences ==
    ASSUME DelegationAssumption, IInv
    PROVE  /\ TypeOK /\ RunJobAgree /\ WaitsOnlyForActiveChild /\ DelegationTellsChild
           /\ NoOrphanChild
  BY TypeFollows DEF IInv, Agree, NoOrphanChild, WaitsOnlyForActiveChild, RunJobAgree, JobOf, Ended,
     Active, Runs

\* The delegation is consumed by the parent's own end.
LEMMA ConsumedStep ==
    ASSUME IInv, [Next]_vars
    PROVE  /\ consumed => consumed' /\ delegation' = delegation
           /\ (~consumed /\ consumed') =>
                /\ delegation \in {"succeeded", "failed", "cancelled"}
                /\ run["parent"] = "running" /\ run'["parent"] \in {"completed", "failed"}
                /\ (run'["parent"] = "completed") <=> (delegation = "succeeded")
<1>0. /\ run \in [Runs -> Statuses] /\ "parent" \in Runs /\ consumed \in BOOLEAN
      /\ consumed => delegation \notin {"none", "waiting"}
  BY DEF IInv, Typed, Agree, Runs
<1>1. CASE \E n \in Attempts : ResumeDelegated(n)
  BY <1>0, <1>1 DEF ResumeDelegated, EndRow
<1>2. CASE Next /\ ~\E n \in Attempts : ResumeDelegated(n)
  <2>1. consumed' = consumed
    BY <1>2 DEF Next, QueueStep, AttemptStep, Claim, ClaimExhausted, TerminalizeAttempt,
       ExpireIfOverdue, PassDeadline, LapseLease, Crash, AcceptDelegation, Delegate, CloseRecovered,
       PublishParent, FailParent, RequireLease, CompleteResearch, FailResearch, Aborted, Retry,
       ResolveTerminal, ResolveStale, Cancel, link
  <2>2. delegation' = delegation \/ delegation \in {"none", "waiting"}
    BY <1>2 DEF Next, QueueStep, AttemptStep, Claim, ClaimExhausted, TerminalizeAttempt,
       ExpireIfOverdue, PassDeadline, LapseLease, Crash, AcceptDelegation, Delegate, CloseRecovered,
       PublishParent, FailParent, RequireLease, CompleteResearch, FailResearch, Aborted, Retry,
       ResolveTerminal, ResolveStale, Cancel, link, MayTerminalize
  <2> QED
    BY <1>0, <2>1, <2>2
<1>3. CASE UNCHANGED vars
  BY <1>3 DEF vars, link
<1> QED
  BY <1>1, <1>2, <1>3

\* A Run that ended is written no more.
LEMMA EndsStep ==
    ASSUME IInv, [Next]_vars, NEW r \in Runs, run[r] \in Ended
    PROVE  run'[r] = run[r] /\ job'[r] = job[r]
<1>0. /\ run \in [Runs -> Statuses] /\ DOMAIN job = Runs /\ run[r] \notin Active
      /\ job[r] \notin Waiting /\ job[r] # "waiting"
      /\ delegation = "none" => run["child"] = "absent"
      /\ delegation = "waiting" => run["child"] \in Active
  BY DEF IInv, Typed, Agree, RunJobAgree, DelegationTellsChild, Ended, Active, JobOf, Waiting
<1>1. ASSUME NEW q \in Runs, NEW s, EndRow(q, s), run[q] \in Active
      PROVE  run'[r] = run[r] /\ job'[r] = job[r]
  BY <1>0, <1>1 DEF EndRow
<1>2. ASSUME NEW s, Terminalize(s), delegation = "waiting"
      PROVE  run'[r] = run[r] /\ job'[r] = job[r]
  BY <1>0, <1>2 DEF Terminalize, Runs, Active
<1>3. ASSUME NEW q \in Runs, NEW n, TerminalizeAttempt(q, n)
      PROVE  run'[r] = run[r] /\ job'[r] = job[r]
  BY <1>1, <1>2, <1>3 DEF TerminalizeAttempt, MayTerminalize, Active
<1>4. CASE QueueStep
  <2>1. ASSUME NEW q \in Runs, Claim(q) PROVE run'[r] = run[r] /\ job'[r] = job[r]
    BY <1>0, <2>1 DEF Claim, Claimable, LeaseLost, Active
  <2> QED
    BY <1>0, <1>3, <1>4, <2>1 DEF QueueStep, ClaimExhausted, ExpireIfOverdue
<1>5. ASSUME NEW n \in Attempts, AttemptStep(n) PROVE run'[r] = run[r] /\ job'[r] = job[r]
  <2>1. CASE AcceptDelegation(n) \/ CloseRecovered(n)
    BY <2>1 DEF AcceptDelegation, CloseRecovered, rows
  <2>2. CASE Delegate(n)
    BY <1>0, <2>2 DEF Delegate, Authority, HoldsLease, HoldsToken, Runs, Ended
  <2>3. CASE PublishParent(n) \/ FailParent(n) \/ ResumeDelegated(n)
    BY <1>1, <2>3 DEF PublishParent, FailParent, ResumeDelegated, Authority, Runs, Active
  <2>4. CASE CompleteResearch(n) \/ FailResearch(n)
    BY <1>2, <2>4 DEF CompleteResearch, FailResearch, MayTerminalize
  <2>5. ASSUME NEW q \in Runs,
               RequireLease(q, n) \/ Aborted(q, n) \/ Retry(q, n) \/ ResolveTerminal(q, n) \/ ResolveStale(q, n)
        PROVE  run'[r] = run[r] /\ job'[r] = job[r]
    <3>1. CASE RequireLease(q, n) \/ Aborted(q, n) \/ ResolveStale(q, n)
      BY <3>1 DEF RequireLease, Aborted, ResolveStale, rows
    <3>2. CASE Retry(q, n)
      BY <1>0, <3>2 DEF Retry, Active
    <3>3. CASE ResolveTerminal(q, n)
      BY <1>3, <3>3 DEF ResolveTerminal
    <3> QED
      BY <2>5, <3>1, <3>2, <3>3
  <2> QED
    BY <1>5, <2>1, <2>2, <2>3, <2>4, <2>5 DEF AttemptStep
<1>6. CASE PassDeadline \/ \E q \in Runs : LapseLease(q) \/ \E n \in Attempts : Crash(q, n)
  BY <1>6 DEF PassDeadline, LapseLease, Crash, rows
<1>7. CASE Cancel
  <2>1. CASE run["parent"] \in Active /\ EndRow("parent", "cancelled")
    BY <1>1, <2>1 DEF Runs
  <2>2. CASE UNCHANGED <<run, job>>
    BY <2>2
  <2>3. run["parent"] \in Active /\ run["child"] \in Active => FALSE
    BY <1>0 DEF Runs
  <2> QED
    BY <1>7, <2>1, <2>2, <2>3 DEF Cancel
<1>8. CASE UNCHANGED vars
  BY <1>8 DEF vars, rows
<1> QED
  BY <1>4, <1>5, <1>6, <1>7, <1>8 DEF Next

\* The inductive invariant holds in every state.
THEOREM Invariance ==
    ASSUME DelegationAssumption
    PROVE  Spec => []IInv
<1>1. Init => IInv
  BY InitIInv
<1>2. IInv /\ [Next]_vars => IInv'
  BY NextIInv
<1> QED
  BY <1>1, <1>2, PTL DEF Spec

\* The rows have their types, no Attempt is counted beyond its limit, and the
\* leases that a Run is given stay within MaxLeases: it is claimed once more than
\* it fails, a parent once more again when its child ends.
THEOREM TypeCorrect ==
    ASSUME DelegationAssumption
    PROVE  Spec => []TypeOK
<1>1. IInv => TypeOK
  BY Consequences
<1> QED
  BY <1>1, Invariance, PTL

\* Whatever claims, ends, expiries and cancellations interleave, a Run and its
\* Job agree.
THEOREM RunsAgree ==
    ASSUME DelegationAssumption
    PROVE  Spec => []RunJobAgree
<1>1. IInv => RunJobAgree
  BY Consequences
<1> QED
  BY <1>1, Invariance, PTL

\* A Job in "waiting", which no claim selects, has a child at work that will
\* queue it again, or the deadline has passed.
THEOREM NobodyWaitsForNothing ==
    ASSUME DelegationAssumption
    PROVE  Spec => []WaitsOnlyForActiveChild
<1>1. IInv => WaitsOnlyForActiveChild
  BY Consequences
<1> QED
  BY <1>1, Invariance, PTL

\* The parent can decide by the delegation's row: it tells how the child ended.
THEOREM DelegationTells ==
    ASSUME DelegationAssumption
    PROVE  Spec => []DelegationTellsChild
<1>1. IInv => DelegationTellsChild
  BY Consequences
<1> QED
  BY <1>1, Invariance, PTL

\* A parent that ends has no child at work: while one is, the parent has no
\* lease to end by, and a cancellation or the deadline ends both.
THEOREM NoChildIsOrphaned ==
    ASSUME DelegationAssumption
    PROVE  Spec => []NoOrphanChild
<1>1. IInv => NoOrphanChild
  BY Consequences
<1> QED
  BY <1>1, Invariance, PTL

\* The parent's own end consumes the delegation, once, after the child ended,
\* and says what the delegation says.
THEOREM ConsumedOnce ==
    ASSUME DelegationAssumption
    PROVE  Spec => ConsumedWithParent
<1>1. IInv /\ [Next]_vars =>
        [/\ consumed => consumed' /\ delegation' = delegation
         /\ (~consumed /\ consumed') =>
              /\ delegation \in {"succeeded", "failed", "cancelled"}
              /\ run["parent"] = "running" /\ run'["parent"] \in {"completed", "failed"}
              /\ (run'["parent"] = "completed") <=> (delegation = "succeeded")]_vars
  BY ConsumedStep
<1> QED
  BY <1>1, Invariance, PTL DEF Spec, ConsumedWithParent

\* No late Attempt, second worker, deadline or cancellation rewrites a Run that
\* ended.
THEOREM EndsStay ==
    ASSUME DelegationAssumption
    PROVE  Spec => EndsAreFinal
<1>1. IInv /\ [Next]_vars =>
        [\A r \in Runs : run[r] \in Ended => run'[r] = run[r] /\ job'[r] = job[r]]_vars
  BY EndsStep
<1> QED
  BY <1>1, Invariance, PTL DEF Spec, EndsAreFinal
============================================================================
