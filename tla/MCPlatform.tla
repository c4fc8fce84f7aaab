----------------------------- MODULE MCPlatform -----------------------------
(* What every Run rests on: the Traces it records, in two instances of       *)
(* TraceStore (consumers that lose their sessions, and one consumer with     *)
(* more records, deliveries and failures), and the outbox of purge commands. *)
EXTENDS Naturals, Sequences

Item1(trace, rec, att) == [trace |-> trace, rec |-> rec, att |-> att]
TwoRecords == <<Item1("t", 1, TRUE), Item1("t", 2, FALSE)>>
Three == <<Item1("t", 1, TRUE), Item1("u", 1, FALSE), Item1("t", 2, FALSE)>>

VARIABLE scene     \* the component, and the instance of it, a behaviour is of
VARIABLES   \* of TraceStore
    ts_produced, ts_committed, ts_owner, ts_con, ts_at, ts_raw, ts_refs,
    ts_sum, ts_objects, ts_staging, ts_stage, ts_tomb, ts_faults
VARIABLES   \* of PurgeOutbox
    po_command, po_tokens, po_staged, po_working, po_topic, po_sender,
    po_faults

Group == INSTANCE TraceStore WITH
    Consumers <- {1, 2}, Log <- TwoRecords, Purged <- "t", Copies <- 1,
    MaxFaults <- 1, Crashes <- TRUE, Kicks <- TRUE, produced <- ts_produced,
    committed <- ts_committed, owner <- ts_owner, con <- ts_con,
    at <- ts_at, raw <- ts_raw, refs <- ts_refs, sum <- ts_sum,
    objects <- ts_objects, staging <- ts_staging, stage <- ts_stage,
    tomb <- ts_tomb, faults <- ts_faults

Single == INSTANCE TraceStore WITH
    Consumers <- {1}, Log <- Three, Purged <- "t", Copies <- 2,
    MaxFaults <- 2, Crashes <- TRUE, Kicks <- FALSE,
    produced <- ts_produced, committed <- ts_committed, owner <- ts_owner,
    con <- ts_con, at <- ts_at, raw <- ts_raw, refs <- ts_refs,
    sum <- ts_sum, objects <- ts_objects, staging <- ts_staging,
    stage <- ts_stage, tomb <- ts_tomb, faults <- ts_faults

Outbox == INSTANCE PurgeOutbox WITH
    Traces <- {1, 2}, Senders <- {1, 2}, MaxCommands <- 2, MaxFaults <- 2,
    command <- po_command, tokens <- po_tokens, staged <- po_staged,
    working <- po_working, topic <- po_topic, sender <- po_sender,
    faults <- po_faults

ASSUME PlatformAssumption ==
    /\ Group!TraceStoreAssumption /\ Single!TraceStoreAssumption /\ Outbox!PurgeOutboxAssumption

ts_vars == <<ts_produced, ts_committed, ts_owner, ts_con, ts_at, ts_raw,
             ts_refs, ts_sum, ts_objects, ts_staging, ts_stage, ts_tomb,
             ts_faults>>
po_vars == <<po_command, po_tokens, po_staged, po_working, po_topic,
             po_sender, po_faults>>
vars == <<scene, ts_vars, po_vars>>

Init ==
    \/ scene = "group" /\ Group!Init /\ Outbox!Init /\ po_working = {}
    \/ scene = "single" /\ Single!Init /\ Outbox!Init /\ po_working = {}
    \/ scene = "outbox" /\ Outbox!Init /\ Group!Init

Next ==
    \/ scene = "group" /\ Group!Next /\ UNCHANGED <<scene, po_vars>>
    \/ scene = "single" /\ Single!Next /\ UNCHANGED <<scene, po_vars>>
    \/ scene = "outbox" /\ Outbox!Next /\ UNCHANGED <<scene, ts_vars>>

Spec == Init /\ [][Next]_vars

-----------------------------------------------------------------------------
(* No offset passes a record that is not stored, nor a purge that is not    *)
(* complete, over failures, rebalances and stragglers; a Trace has no hole  *)
(* and no double, and its summary covers it once all is committed; a query  *)
(* that follows a reference finds the object it names; and with one         *)
(* consumer nothing of a purged Trace is left in the tables.  A purge is    *)
(* marked, and its staging emptied, only when the topic has its command,    *)
(* and a sender that lost its lease changes no command.                     *)
TracesHold ==
    /\ [](scene = "single" => /\ Single!NothingLost /\ Single!NoRowsAfterPurge
                             /\ Single!SequenceContiguous /\ Single!SummaryIsFresh)
    /\ [](scene = "group" => /\ Group!TypeOK /\ Group!NothingLost /\ Group!ReferencedIsStored
                            /\ Group!SequenceContiguous /\ Group!SummaryIsFresh)
    /\ [](scene = "outbox" => Outbox!TypeOK /\ Outbox!PublishedIsInTopic)
    /\ Outbox!OvertakenIsInert

=============================================================================
