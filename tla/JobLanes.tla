------------------------------ MODULE JobLanes ------------------------------
(* How a worker process comes to work on a Job: the loop of                 *)
(* internal/worker/service.go for Agent Jobs, and of                        *)
(* sourceprocessing/service.go for Source Jobs.  It listens for             *)
(* notifications, drains the queue whenever one arrives or the scan         *)
(* interval has passed, and works on several Jobs at once.  A drain claims  *)
(* until the queue has nothing due (or the claim fails), then waits for all *)
(* it has in flight before it listens again.                                *)
(*                                                                          *)
(* Jobs that are due by time (a backoff, an expired lease) come without a   *)
(* notification, and notifications of a lost connection are lost.  The      *)
(* queue itself, its leases and Attempts are AgentJobs and SourceJobs.      *)
EXTENDS Naturals, FiniteSets

CONSTANTS JobIds, Lanes,
          Slots,       \* maxConcurrency
          MaxDelays,   \* bound: times a Job is scheduled for later
          MaxFaults    \* bound: connections lost and claims that fail

JobLanesAssumption == Slots \in Nat \ {0} /\ MaxDelays \in Nat /\ MaxFaults \in Nat

VARIABLES
    job,        \* [JobIds -> {"none", "later", "due", "taken", "done"}]
    at,         \* [Lanes -> {"down", "draining", "resting"}]
    claiming,   \* [Lanes -> BOOLEAN]: the drain still claims
    inFlight,   \* [Lanes -> SUBSET JobIds]
    listening,  \* [Lanes -> BOOLEAN]: the connection is up
    notified,   \* [Lanes -> BOOLEAN]: a notification waits on it
    delays, faults

vars == <<job, at, claiming, inFlight, listening, notified, delays, faults>>

Due == {j \in JobIds : job[j] = "due"}

Init ==
    /\ job = [j \in JobIds |-> "none"]
    /\ at = [l \in Lanes |-> "down"] /\ claiming = [l \in Lanes |-> FALSE]
    /\ inFlight = [l \in Lanes |-> {}]
    /\ listening = [l \in Lanes |-> FALSE] /\ notified = [l \in Lanes |-> FALSE]
    /\ delays = 0 /\ faults = 0

-----------------------------------------------------------------------------
(* A transaction notifies whoever listens.                                  *)
Told == [l \in Lanes |-> notified[l] \/ listening[l]]

(* A transaction queues a Job.                                              *)
Enqueue(j) ==
    /\ job[j] = "none"
    /\ job' = [job EXCEPT ![j] = "due"]
    /\ notified' = Told
    /\ UNCHANGED <<at, claiming, inFlight, listening, delays, faults>>

(* available_at or lease_until passes: nobody is told.                      *)
Mature(j) ==
    /\ job[j] = "later"
    /\ job' = [job EXCEPT ![j] = "due"]
    /\ UNCHANGED <<at, claiming, inFlight, listening, notified, delays, faults>>

Drain(l) ==
    /\ at' = [at EXCEPT ![l] = "draining"]
    /\ claiming' = [claiming EXCEPT ![l] = TRUE]

(* Connect and LISTEN; whatever is due by then is claimed before the wait.  *)
Listen(l) ==
    /\ at[l] = "down"
    /\ listening' = [listening EXCEPT ![l] = TRUE]
    /\ Drain(l)
    /\ UNCHANGED <<job, inFlight, notified, delays, faults>>

Free(l) == Cardinality(inFlight[l]) < Slots

Claim(l) ==
    /\ at[l] = "draining" /\ claiming[l] /\ Free(l)
    /\ \E j \in Due :
          /\ job' = [job EXCEPT ![j] = "taken"]
          /\ inFlight' = [inFlight EXCEPT ![l] = @ \cup {j}]
    /\ UNCHANGED <<at, claiming, listening, notified, delays, faults>>

(* The queue has nothing due, or the claim fails: this drain claims no more.*)
StopClaiming(l) ==
    /\ at[l] = "draining" /\ claiming[l] /\ Free(l)
    /\ \/ Due = {} /\ UNCHANGED faults
       \/ faults < MaxFaults /\ faults' = faults + 1
    /\ claiming' = [claiming EXCEPT ![l] = FALSE]
    /\ UNCHANGED <<job, at, inFlight, listening, notified, delays>>

(* A Job in flight ends, is to be tried again after a backoff or when its   *)
(* lease has run out, or is released at once.  A retry or a release may     *)
(* notify, in the case of a retry before the Job is due.                    *)
Outcome(j) ==
    \/ job' = [job EXCEPT ![j] = "done"] /\ UNCHANGED <<notified, delays>>
    \/ /\ delays < MaxDelays /\ delays' = delays + 1
       /\ \/ job' = [job EXCEPT ![j] = "later"] /\ notified' \in {notified, Told}
          \/ job' = [job EXCEPT ![j] = "due"] /\ notified' = Told

Complete(l) ==
    /\ at[l] = "draining" /\ (claiming[l] => ~Free(l))
    /\ \E j \in inFlight[l] :
          /\ Outcome(j)
          /\ inFlight' = [inFlight EXCEPT ![l] = @ \ {j}]
    /\ UNCHANGED <<at, claiming, listening, faults>>

Rest(l) ==
    /\ at[l] = "draining" /\ ~claiming[l] /\ inFlight[l] = {}
    /\ at' = [at EXCEPT ![l] = "resting"]
    /\ UNCHANGED <<job, claiming, inFlight, listening, notified, delays, faults>>

(* WaitForNotification returns a notification, one at a time.               *)
Notified(l) ==
    /\ at[l] = "resting" /\ listening[l] /\ notified[l]
    /\ notified' \in {notified, [notified EXCEPT ![l] = FALSE]}
    /\ Drain(l)
    /\ UNCHANGED <<job, inFlight, listening, delays, faults>>

(* The scan interval passes.                                                *)
\* Mutant: the wait has no time limit.
ScanNever(l) == FALSE /\ UNCHANGED vars

Scan(l) ==
    /\ at[l] = "resting" /\ listening[l]
    /\ Drain(l)
    /\ UNCHANGED <<job, inFlight, listening, notified, delays, faults>>

(* The connection is lost; the wait finds out, and a second later the lane  *)
(* connects again.                                                          *)
Disconnect(l) ==
    /\ listening[l] /\ faults < MaxFaults
    /\ listening' = [listening EXCEPT ![l] = FALSE]
    /\ notified' = [notified EXCEPT ![l] = FALSE]
    /\ faults' = faults + 1
    /\ UNCHANGED <<job, at, claiming, inFlight, delays>>

WaitFails(l) ==
    /\ at[l] = "resting" /\ ~listening[l]
    /\ at' = [at EXCEPT ![l] = "down"]
    /\ UNCHANGED <<job, claiming, inFlight, listening, notified, delays, faults>>

Goes(l) ==
    \/ Listen(l) \/ Claim(l) \/ StopClaiming(l) \/ Complete(l) \/ Rest(l)
    \/ Notified(l) \/ Scan(l) \/ WaitFails(l)

Next ==
    \/ \E j \in JobIds : Enqueue(j) \/ Mature(j)
    \/ \E l \in Lanes : Goes(l) \/ Disconnect(l)

Spec == Init /\ [][Next]_vars

LiveSpec == Spec /\ (\A l \in Lanes : WF_vars(Goes(l)))

-----------------------------------------------------------------------------
(* The states are well typed, and no lane has more in flight than slots.    *)
TypeOK ==
    /\ job \in [JobIds -> {"none", "later", "due", "taken", "done"}]
    /\ at \in [Lanes -> {"down", "draining", "resting"}]
    /\ claiming \in [Lanes -> BOOLEAN] /\ listening \in [Lanes -> BOOLEAN]
    /\ notified \in [Lanes -> BOOLEAN]
    /\ inFlight \in [Lanes -> SUBSET JobIds]
    /\ \A l \in Lanes : Cardinality(inFlight[l]) <= Slots
    /\ delays \in 0..MaxDelays /\ faults \in 0..MaxFaults

(* What is due is taken in the end, although lanes miss notifications, lose *)
(* their connections and stop draining too early.                           *)
DueIsTaken == \A j \in JobIds : job[j] = "due" ~> job[j] # "due"

=============================================================================
