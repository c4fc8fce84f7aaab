----------------------------- MODULE PurgeOutbox -----------------------------
(* How the deletion of a Run reaches the Agent Trace Processor: a trigger   *)
(* of the deleting transaction writes a purge command to an outbox in       *)
(* PostgreSQL (app/db.go), the sender of a worker process claims commands   *)
(* under a lease, produces them to Kafka, deletes what is staged for their  *)
(* Traces and marks them published (internal/agentoutbox).  A worker that   *)
(* still executes a deleted Run goes on to stage Replay payloads            *)
(* (replay/object_stager.go).  TraceStore takes over at the topic.          *)
EXTENDS Naturals, FiniteSets, FiniteSetsExt

CONSTANTS Traces,        \* a Trace is of one Run
          Senders,       \* one per worker process
          MaxCommands,   \* of one claim
          MaxFaults      \* bound: failed calls, deaths, leases lost while at work

PurgeOutboxAssumption == MaxCommands \in Nat \ {0} /\ MaxFaults \in Nat

VARIABLES
    command,   \* [Traces -> ...]: row of agentobs_outbox_commands
    tokens,    \* lease tokens given out; a token is its number
    staged,    \* [Traces -> ...]: what the staging store holds of the Trace
    working,   \* Traces whose Run some process still executes
    topic,     \* Traces whose command is in the purge topic
    sender,    \* [Senders -> ...]: SendOnce in progress
    faults

vars == <<command, tokens, staged, working, topic, sender, faults>>

NoCommand == [state |-> "none", token |-> 0, expired |-> FALSE, due |-> FALSE]
Ready == [state |-> "ready", token |-> 0, expired |-> FALSE, due |-> TRUE]
Leased(token) == [state |-> "leased", token |-> token, expired |-> FALSE, due |-> TRUE]
Published == [state |-> "published", token |-> 0, expired |-> FALSE, due |-> FALSE]
Idle == [pc |-> "idle", token |-> 0, batch |-> {}, todo |-> {}]

Init ==
    /\ command = [t \in Traces |-> NoCommand] /\ tokens = 0
    /\ staged = [t \in Traces |-> "none"] /\ working \in SUBSET Traces
    /\ topic = {} /\ sender = [s \in Senders |-> Idle] /\ faults = 0

Fault == faults < MaxFaults /\ faults' = faults + 1
\* The rows of T become row, in one transaction.
Write(T, row) == command' = [t \in Traces |-> IF t \in T THEN row ELSE command[t]]

-----------------------------------------------------------------------------
(* A payload of a model call is sealed and stored, whether or not the Run   *)
(* is still there: the call checks no authority.                            *)
Stage(t) ==
    /\ t \in working /\ staged[t] # "staged"
    /\ staged' = [staged EXCEPT ![t] = "staged"]
    /\ UNCHANGED <<command, tokens, working, topic, sender, faults>>

StopWorking(t) ==
    /\ t \in working
    /\ working' = working \ {t}
    /\ UNCHANGED <<command, tokens, staged, topic, sender, faults>>

\* A Run, a Chat or a Notebook is deleted.  The triggers of all three write the
\* command of each Trace; the first insert stands.
DeleteRuns(T) ==
    /\ T # {} /\ \A t \in T : command[t].state = "none"
    /\ Write(T, Ready)
    /\ UNCHANGED <<tokens, staged, working, topic, sender, faults>>

-----------------------------------------------------------------------------
(* The sender: SendOnce. *)

\* A claim first makes expired leases ready, in the same transaction.
Freed == {t \in Traces : command[t].state = "leased" /\ command[t].expired}
Claimable == Freed \cup {t \in Traces : command[t].state = "ready" /\ command[t].due}

\* The first of them in the order of next_attempt_at, which the delays of
\* retries make any order.
ClaimPurgeBatch(s) ==
    /\ sender[s].pc = "idle" /\ Claimable # {}
    /\ tokens' = tokens + 1
    /\ \E batch \in kSubset(Min({MaxCommands, Cardinality(Claimable)}), Claimable) :
          /\ command' = [t \in Traces |-> IF t \in batch THEN Leased(tokens')
                                          ELSE IF t \in Freed THEN Ready ELSE command[t]]
          /\ sender' = [sender EXCEPT ![s] = [pc |-> "produce", token |-> tokens',
                                              batch |-> batch, todo |-> batch]]
    /\ UNCHANGED <<staged, working, topic, faults>>

\* Every message is acknowledged, or the whole claim is released: those Kafka
\* took, acknowledged or not, stay in the topic.
ProduceSync(s) ==
    /\ sender[s].pc = "produce"
    /\ \/ /\ topic' = topic \cup sender[s].batch
          /\ sender' = [sender EXCEPT ![s].pc = "unstage"] /\ UNCHANGED faults
       \/ /\ \E taken \in SUBSET sender[s].batch : topic' = topic \cup taken
          /\ sender' = [sender EXCEPT ![s].pc = "release"] /\ Fault
    /\ UNCHANGED <<command, tokens, staged, working>>

Holds(s) == \A t \in sender[s].batch :
                command[t].state = "leased" /\ command[t].token = sender[s].token

\* Back to ready after a delay, all of them or, when one is held no more, none.
ReleasePurgeBatch(s) ==
    /\ sender[s].pc = "release"
    /\ IF Holds(s) THEN Write(sender[s].batch, [Ready EXCEPT !.due = FALSE]) ELSE UNCHANGED command
    /\ sender' = [sender EXCEPT ![s] = Idle]
    /\ UNCHANGED <<tokens, staged, working, topic, faults>>

\* MarkPurgePublished, before its transaction: command by command, the objects
\* below the prefix of the Trace are listed and deleted.
Unstage(s) ==
    /\ sender[s].pc = "unstage"
    /\ \E t \in sender[s].todo :
          /\ staged' = [staged EXCEPT ![t] = IF @ = "staged" THEN "deleted" ELSE @]
          /\ sender' = [sender EXCEPT ![s].todo = @ \ {t},
                                      ![s].pc = IF sender[s].todo = {t} THEN "mark" ELSE @]
    /\ UNCHANGED <<command, tokens, working, topic, faults>>

\* ... and its transaction.  Without the lease it changes nothing; an error of
\* either part leaves the lease to expire.
MarkPurgePublished(s) ==
    /\ sender[s].pc = "mark"
    /\ IF Holds(s) THEN Write(sender[s].batch, Published) ELSE UNCHANGED command
    /\ sender' = [sender EXCEPT ![s] = Idle]
    /\ UNCHANGED <<tokens, staged, working, topic, faults>>

\* The process dies, or a call fails and SendOnce returns.
GiveUp(s) ==
    /\ sender[s].pc # "idle" /\ Fault
    /\ sender' = [sender EXCEPT ![s] = Idle]
    /\ UNCHANGED <<command, tokens, staged, working, topic>>

\* The lease of commands claimed together ends for all of them at once.
Lease(token) == {t \in Traces : command[t].state = "leased" /\ command[t].token = token}
LeaseExpires(token) ==
    /\ \E t \in Lease(token) : ~command[t].expired
    /\ IF \E s \in Senders : sender[s].token = token THEN Fault ELSE UNCHANGED faults
    /\ Write(Lease(token), [Leased(token) EXCEPT !.expired = TRUE])
    /\ UNCHANGED <<tokens, staged, working, topic, sender>>

LeaseRunsOut == \E token \in 1..tokens : LeaseExpires(token)

BecomeDue(t) ==
    /\ command[t].state = "ready" /\ ~command[t].due
    /\ Write({t}, Ready)
    /\ UNCHANGED <<tokens, staged, working, topic, sender, faults>>

SendOnce(s) ==
    \/ ClaimPurgeBatch(s) \/ ProduceSync(s) \/ ReleasePurgeBatch(s)
    \/ Unstage(s) \/ MarkPurgePublished(s)

Next ==
    \/ \E t \in Traces : Stage(t) \/ StopWorking(t) \/ BecomeDue(t)
    \/ \E T \in SUBSET Traces : DeleteRuns(T)
    \/ \E s \in Senders : SendOnce(s) \/ GiveUp(s)
    \/ LeaseRunsOut

Spec == Init /\ [][Next]_vars
(* The senders poll and go on, delays and the leases of the dead run out.   *)
LiveSpec ==
    /\ Spec
    /\ \A s \in Senders : WF_vars(SendOnce(s))
    /\ \A t \in Traces : WF_vars(BecomeDue(t))
    /\ WF_vars(LeaseRunsOut)

-----------------------------------------------------------------------------
(* Properties. *)

(* Every variable has its type, and the shape of a row is as its check      *)
(* demands: a token exactly while it is leased.                             *)
TypeOK ==
    /\ \A t \in Traces :
          /\ command[t].state \in {"none", "ready", "leased", "published"}
          /\ command[t].token \in 0..tokens
          /\ (command[t].token # 0) = (command[t].state = "leased")
          /\ command[t].expired => command[t].state = "leased"
          /\ staged[t] \in {"none", "staged", "deleted"}
    /\ working \subseteq Traces /\ topic \subseteq Traces /\ faults \in 0..MaxFaults
    /\ \A s \in Senders :
          /\ sender[s].pc \in {"idle", "produce", "release", "unstage", "mark"}
          /\ sender[s].todo \subseteq sender[s].batch /\ sender[s].token \in 0..tokens

(* kafka.go, SendOnce: a command counts as published, and what is staged    *)
(* for its Trace is deleted, only when the topic has the command: over      *)
(* partial acknowledgements, deaths, and senders that lost their lease.     *)
PublishedIsInTopic ==
    \A t \in Traces : command[t].state = "published" \/ staged[t] = "deleted" => t \in topic

(* A command that was published stays so, and a lease that still runs is    *)
(* not taken away: a sender that was overtaken changes no row.              *)
OvertakenIsInert ==
    [][\A t \in Traces :
          /\ command[t].state = "published" => command'[t] = command[t]
          /\ command[t].state = "leased" /\ ~command[t].expired /\ command'[t].token # command[t].token =>
                \E s \in Senders : sender[s].token = command[t].token /\ sender'[s] = Idle]_vars

(* The command of every deleted Run gets to the topic and is marked.        *)
EveryPurgeIsPublished ==
    \A t \in Traces : command[t].state # "none" ~> command[t].state = "published"

(* docs/technical-architecture/ARCHITECTURE.md: purge Jobs remove relevant  *)
(* Trace payloads.  Nothing is staged for a Trace whose purge is published. *)
(* Does not hold: see "Disagreements" in the README.                        *)
NothingStaysStaged ==
    \A t \in Traces : command[t].state = "published" => staged[t] # "staged"

=============================================================================
