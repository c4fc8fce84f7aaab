----------------------------- MODULE MCLiveness -----------------------------
(* What must happen in the end, on small instances of the components, under *)
(* the fairness each of them states.  The scene guards the fairness, because *)
(* the components a behaviour is not of stand still.                         *)
EXTENDS Naturals, Sequences

Follows == [a |-> "t", b |-> "t"]
Plain == <<[trace |-> "t", rec |-> 1, att |-> FALSE], [trace |-> "u", rec |-> 1, att |-> FALSE]>>

VARIABLE scene     \* the component, and the instance of it, a behaviour is of
VARIABLES   \* of Subagents
    sa_status, sa_availableAt, sa_waits, sa_childOf, sa_act, sa_excerpts,
    sa_now, sa_lock, sa_want, sa_step, sa_began, sa_endAs, sa_parked
VARIABLES   \* of SourceJobs
    sj_src, sj_job, sj_rev, sj_build, sj_report, sj_store, sj_points,
    sj_purge, sj_w, sj_retries
VARIABLES   \* of DiscoverySessions
    ds_ses, ds_cand, ds_job, ds_expired, ds_claims, ds_w, ds_act, ds_run,
    ds_keys, ds_req, ds_started
VARIABLES   \* of TraceStore
    ts_produced, ts_committed, ts_owner, ts_con, ts_at, ts_raw, ts_refs,
    ts_sum, ts_objects, ts_staging, ts_stage, ts_tomb, ts_faults
VARIABLES   \* of PurgeOutbox
    po_command, po_tokens, po_staged, po_working, po_topic, po_sender,
    po_faults
VARIABLES   \* of Streams
    st_row, st_listener, st_inbox, st_hub, st_token, st_pc, st_shown,
    st_gauges, st_drops, st_opens
VARIABLES   \* of JobLanes
    jl_job, jl_at, jl_claiming, jl_inFlight, jl_listening, jl_notified,
    jl_delays, jl_faults
VARIABLES   \* of Delegation
    dl_run, dl_job, dl_attemptNo, dl_failed, dl_lease, dl_acting,
    dl_checked, dl_delegation, dl_consumed, dl_outcome, dl_accepted,
    dl_answer, dl_overdue, dl_reply
VARIABLES   \* of SourceImports
    si_src, si_end, si_imports, si_imp, si_run, si_pins, si_due, si_overlooked
VARIABLES   \* of SourceUploads
    up_intent, up_due, up_staged, up_final, up_sources, up_purge, up_req,
    up_purger, up_faults
VARIABLES   \* of IndexVersions
    iv_version, iv_passed, iv_src, iv_build, iv_w, iv_rx, iv_run,
    iv_failures
VARIABLES   \* of MailOutbox
    mo_row, mo_holds, mo_mailed, mo_crashes

Tree == INSTANCE Subagents WITH
    MaxChildren <- 2, MaxActive <- 1, MaxTotal <- 2, MaxActions <- 2,
    Timeouts <- {1}, Backoff <- 1, Deadline <- 1, MaxTime <- 1,
    status <- sa_status, availableAt <- sa_availableAt, waits <- sa_waits,
    childOf <- sa_childOf, act <- sa_act, excerpts <- sa_excerpts,
    now <- sa_now, lock <- sa_lock, want <- sa_want, step <- sa_step,
    began <- sa_began, endAs <- sa_endAs, parked <- sa_parked

Jobs == INSTANCE SourceJobs WITH
    Workers <- {1, 2}, NoWorker <- 0, Contents <- {1, 2}, AttemptLimit <- 2,
    MaxRetries <- 0, Discovered <- TRUE, src <- sj_src, job <- sj_job,
    rev <- sj_rev, build <- sj_build, report <- sj_report,
    store <- sj_store, points <- sj_points, purge <- sj_purge, w <- sj_w,
    retries <- sj_retries

Manual == INSTANCE DiscoverySessions WITH
    Origin <- "manual", Workers <- {1, 2}, Requests <- {1},
    Keys <- {"k1", "k2"}, MaxAttempts <- 3, ses <- ds_ses, cand <- ds_cand,
    job <- ds_job, expired <- ds_expired, claims <- ds_claims, w <- ds_w,
    act <- ds_act, run <- ds_run, keys <- ds_keys, req <- ds_req,
    started <- ds_started

Research == INSTANCE DiscoverySessions WITH
    Origin <- "research_agent", Workers <- {1}, Requests <- {1},
    Keys <- {"k1", "k2"}, MaxAttempts <- 3, ses <- ds_ses, cand <- ds_cand,
    job <- ds_job, expired <- ds_expired, claims <- ds_claims, w <- ds_w,
    act <- ds_act, run <- ds_run, keys <- ds_keys, req <- ds_req,
    started <- ds_started

Storage == INSTANCE TraceStore WITH
    Consumers <- {1}, Log <- Plain, Purged <- "t", Copies <- 1,
    MaxFaults <- 1, Crashes <- TRUE, Kicks <- FALSE,
    produced <- ts_produced, committed <- ts_committed, owner <- ts_owner,
    con <- ts_con, at <- ts_at, raw <- ts_raw, refs <- ts_refs,
    sum <- ts_sum, objects <- ts_objects, staging <- ts_staging,
    stage <- ts_stage, tomb <- ts_tomb, faults <- ts_faults

Outbox == INSTANCE PurgeOutbox WITH
    Traces <- {1, 2}, Senders <- {1, 2}, MaxCommands <- 2, MaxFaults <- 1,
    command <- po_command, tokens <- po_tokens, staged <- po_staged,
    working <- po_working, topic <- po_topic, sender <- po_sender,
    faults <- po_faults

Pages == INSTANCE Streams WITH
    Streams <- {"a", "b"}, Topics <- {"t"}, Topic <- Follows,
    Kind <- [a |-> "run", b |-> "studio"], Last <- 2, MaxDrops <- 1,
    MaxOpens <- 1, row <- st_row, listener <- st_listener,
    inbox <- st_inbox, hub <- st_hub, token <- st_token, pc <- st_pc,
    shown <- st_shown, gauges <- st_gauges, drops <- st_drops,
    opens <- st_opens

Notebook == INSTANCE Streams WITH
    Streams <- {"a", "b"}, Topics <- {"t"}, Topic <- Follows,
    Kind <- [a |-> "sources", b |-> "run"], Last <- 2, MaxDrops <- 1,
    MaxOpens <- 1, row <- st_row, listener <- st_listener,
    inbox <- st_inbox, hub <- st_hub, token <- st_token, pc <- st_pc,
    shown <- st_shown, gauges <- st_gauges, drops <- st_drops,
    opens <- st_opens

Deaf == INSTANCE Streams WITH
    Streams <- {"a", "b"}, Topics <- {"t"}, Topic <- Follows,
    Kind <- [a |-> "run", b |-> "studio"], Last <- 1, MaxDrops <- 1,
    MaxOpens <- 1, row <- st_row, listener <- st_listener,
    inbox <- st_inbox, hub <- st_hub, token <- st_token, pc <- st_pc,
    shown <- st_shown, gauges <- st_gauges, drops <- st_drops,
    opens <- st_opens

Worker == INSTANCE JobLanes WITH
    JobIds <- {1, 2}, Lanes <- {1, 2}, Slots <- 1, MaxDelays <- 1,
    MaxFaults <- 1, job <- jl_job, at <- jl_at, claiming <- jl_claiming,
    inFlight <- jl_inFlight, listening <- jl_listening,
    notified <- jl_notified, delays <- jl_delays, faults <- jl_faults

Hires == INSTANCE Delegation WITH
    MaxAttempts <- 2, Legacy <- FALSE, run <- dl_run, job <- dl_job,
    attemptNo <- dl_attemptNo, failed <- dl_failed, lease <- dl_lease,
    acting <- dl_acting, checked <- dl_checked, delegation <- dl_delegation,
    consumed <- dl_consumed, outcome <- dl_outcome, accepted <- dl_accepted,
    answer <- dl_answer, overdue <- dl_overdue, reply <- dl_reply

Imports == INSTANCE SourceImports WITH
    Sources <- {1}, Enders <- 1, MayRemove <- FALSE, ScopeLimit <- 1,
    src <- si_src, end <- si_end, imports <- si_imports, imp <- si_imp,
    run <- si_run, pins <- si_pins, due <- si_due, overlooked <- si_overlooked

Uploads == INSTANCE SourceUploads WITH
    Intents <- {1}, Twins <- {1}, Requests <- {1}, Purgers <- {1, 2},
    NoPurger <- 0, Quota <- 1, PurgeLimit <- 2, MaxFaults <- 1,
    intent <- up_intent, due <- up_due, staged <- up_staged,
    final <- up_final, sources <- up_sources, purge <- up_purge,
    req <- up_req, purger <- up_purger, faults <- up_faults

Versions == INSTANCE IndexVersions WITH
    Sources <- {1}, Versions <- {1, 2}, Runs <- {}, Baseline <- 1,
    NoVersion <- 0, MaxFailures <- 1, version <- iv_version,
    passed <- iv_passed, src <- iv_src, build <- iv_build, w <- iv_w,
    rx <- iv_rx, run <- iv_run, failures <- iv_failures

Mails == INSTANCE MailOutbox WITH
    Messages <- {1}, Senders <- {1, 2}, MaxAttempts <- 2, MaxCrashes <- 1,
    row <- mo_row, holds <- mo_holds, mailed <- mo_mailed,
    crashes <- mo_crashes

ASSUME LivenessAssumption ==
    /\ Tree!SubagentsAssumption /\ Jobs!SourceJobsAssumption /\ Storage!TraceStoreAssumption /\ Outbox!PurgeOutboxAssumption
    /\ Manual!DiscoverySessionsAssumption /\ Research!DiscoverySessionsAssumption
    /\ Pages!StreamsAssumption /\ Notebook!StreamsAssumption /\ Deaf!StreamsAssumption /\ Worker!JobLanesAssumption
    /\ Hires!DelegationAssumption /\ Imports!SourceImportsAssumption /\ Uploads!SourceUploadsAssumption
    /\ Versions!IndexVersionsAssumption /\ Mails!MailAssumption

sa_vars == <<sa_status, sa_availableAt, sa_waits, sa_childOf, sa_act,
             sa_excerpts, sa_now, sa_lock, sa_want, sa_step, sa_began,
             sa_endAs, sa_parked>>
sj_vars == <<sj_src, sj_job, sj_rev, sj_build, sj_report, sj_store,
             sj_points, sj_purge, sj_w, sj_retries>>
ds_vars == <<ds_ses, ds_cand, ds_job, ds_expired, ds_claims, ds_w, ds_act,
             ds_run, ds_keys, ds_req, ds_started>>
ts_vars == <<ts_produced, ts_committed, ts_owner, ts_con, ts_at, ts_raw,
             ts_refs, ts_sum, ts_objects, ts_staging, ts_stage, ts_tomb,
             ts_faults>>
po_vars == <<po_command, po_tokens, po_staged, po_working, po_topic,
             po_sender, po_faults>>
st_vars == <<st_row, st_listener, st_inbox, st_hub, st_token, st_pc,
             st_shown, st_gauges, st_drops, st_opens>>
jl_vars == <<jl_job, jl_at, jl_claiming, jl_inFlight, jl_listening,
             jl_notified, jl_delays, jl_faults>>
dl_vars == <<dl_run, dl_job, dl_attemptNo, dl_failed, dl_lease, dl_acting,
             dl_checked, dl_delegation, dl_consumed, dl_outcome,
             dl_accepted, dl_answer, dl_overdue, dl_reply>>
si_vars == <<si_src, si_end, si_imports, si_imp, si_run, si_pins, si_due,
             si_overlooked>>
up_vars == <<up_intent, up_due, up_staged, up_final, up_sources, up_purge,
             up_req, up_purger, up_faults>>
iv_vars == <<iv_version, iv_passed, iv_src, iv_build, iv_w, iv_rx, iv_run,
             iv_failures>>
mo_vars == <<mo_row, mo_holds, mo_mailed, mo_crashes>>
vars == <<scene, sa_vars, sj_vars, ds_vars, ts_vars, po_vars, st_vars, jl_vars, dl_vars, si_vars, up_vars, iv_vars, mo_vars>>

Init ==
    \/ scene = "tree" /\ Tree!Init /\ Jobs!Init /\ Manual!Init /\ Storage!Init /\
          Outbox!Init /\ po_working = {} /\ Pages!Init /\ Worker!Init /\ Hires!Init /\
          Imports!Init /\ si_src[1] = "none" /\ Uploads!Init /\ Versions!Init /\
          Mails!Init
    \/ scene = "processing" /\ Jobs!Init /\ Tree!Init /\ Manual!Init /\ Storage!Init /\
          Outbox!Init /\ po_working = {} /\ Pages!Init /\ Worker!Init /\ Hires!Init /\
          Imports!Init /\ si_src[1] = "none" /\ Uploads!Init /\ Versions!Init /\
          Mails!Init
    \/ scene = "manual" /\ Manual!Init /\ Tree!Init /\ Jobs!Init /\ Storage!Init /\
          Outbox!Init /\ po_working = {} /\ Pages!Init /\ Worker!Init /\ Hires!Init /\
          Imports!Init /\ si_src[1] = "none" /\ Uploads!Init /\ Versions!Init /\
          Mails!Init
    \/ scene = "research" /\ Research!Init /\ Tree!Init /\ Jobs!Init /\ Storage!Init /\
          Outbox!Init /\ po_working = {} /\ Pages!Init /\ Worker!Init /\ Hires!Init /\
          Imports!Init /\ si_src[1] = "none" /\ Uploads!Init /\ Versions!Init /\
          Mails!Init
    \/ scene = "traces" /\ Storage!Init /\ Tree!Init /\ Jobs!Init /\ Manual!Init /\
          Outbox!Init /\ po_working = {} /\ Pages!Init /\ Worker!Init /\ Hires!Init /\
          Imports!Init /\ si_src[1] = "none" /\ Uploads!Init /\ Versions!Init /\
          Mails!Init
    \/ scene = "outbox" /\ Outbox!Init /\ po_working = {} /\ Tree!Init /\ Jobs!Init /\ Manual!Init /\
          Storage!Init /\ Pages!Init /\ Worker!Init /\ Hires!Init /\ Imports!Init /\
          si_src[1] = "none" /\ Uploads!Init /\ Versions!Init /\ Mails!Init
    \/ scene = "outputs" /\ Pages!Init /\ Tree!Init /\ Jobs!Init /\ Manual!Init /\
          Storage!Init /\ Outbox!Init /\ po_working = {} /\ Worker!Init /\ Hires!Init /\
          Imports!Init /\ si_src[1] = "none" /\ Uploads!Init /\ Versions!Init /\
          Mails!Init
    \/ scene = "notebook" /\ Notebook!Init /\ Tree!Init /\ Jobs!Init /\ Manual!Init /\
          Storage!Init /\ Outbox!Init /\ po_working = {} /\ Worker!Init /\ Hires!Init /\
          Imports!Init /\ si_src[1] = "none" /\ Uploads!Init /\ Versions!Init /\
          Mails!Init
    \/ scene = "deaf" /\ Deaf!Init /\ Tree!Init /\ Jobs!Init /\ Manual!Init /\
          Storage!Init /\ Outbox!Init /\ po_working = {} /\ Worker!Init /\ Hires!Init /\
          Imports!Init /\ si_src[1] = "none" /\ Uploads!Init /\ Versions!Init /\
          Mails!Init
    \/ scene = "lanes" /\ Worker!Init /\ Tree!Init /\ Jobs!Init /\ Manual!Init /\
          Storage!Init /\ Outbox!Init /\ po_working = {} /\ Pages!Init /\ Hires!Init /\
          Imports!Init /\ si_src[1] = "none" /\ Uploads!Init /\ Versions!Init /\
          Mails!Init
    \/ scene = "delegation" /\ Hires!Init /\ Tree!Init /\ Jobs!Init /\ Manual!Init /\
          Storage!Init /\ Outbox!Init /\ po_working = {} /\ Pages!Init /\ Worker!Init /\
          Imports!Init /\ si_src[1] = "none" /\ Uploads!Init /\ Versions!Init /\
          Mails!Init
    \/ scene = "imports" /\ Imports!Init /\ Tree!Init /\ Jobs!Init /\ Manual!Init /\
          Storage!Init /\ Outbox!Init /\ po_working = {} /\ Pages!Init /\ Worker!Init /\
          Hires!Init /\ Uploads!Init /\ Versions!Init /\ Mails!Init
    \/ scene = "upload" /\ Uploads!Init /\ Tree!Init /\ Jobs!Init /\ Manual!Init /\
          Storage!Init /\ Outbox!Init /\ po_working = {} /\ Pages!Init /\ Worker!Init /\
          Hires!Init /\ Imports!Init /\ si_src[1] = "none" /\ Versions!Init /\ Mails!Init
    \/ scene = "index" /\ Versions!Init /\ Tree!Init /\ Jobs!Init /\ Manual!Init /\
          Storage!Init /\ Outbox!Init /\ po_working = {} /\ Pages!Init /\ Worker!Init /\
          Hires!Init /\ Imports!Init /\ si_src[1] = "none" /\ Uploads!Init /\ Mails!Init
    \/ scene = "mail" /\ Mails!Init /\ Tree!Init /\ Jobs!Init /\ Manual!Init /\
          Storage!Init /\ Outbox!Init /\ po_working = {} /\ Pages!Init /\ Worker!Init /\
          Hires!Init /\ Imports!Init /\ si_src[1] = "none" /\ Uploads!Init /\
          Versions!Init

Next ==
    \/ scene = "tree" /\ Tree!Next /\ UNCHANGED <<scene, sj_vars, ds_vars, ts_vars,
          po_vars, st_vars, jl_vars, dl_vars, si_vars, up_vars, iv_vars, mo_vars>>
    \/ scene = "processing" /\ Jobs!Next /\ UNCHANGED <<scene, sa_vars, ds_vars, ts_vars,
          po_vars, st_vars, jl_vars, dl_vars, si_vars, up_vars, iv_vars, mo_vars>>
    \/ scene = "manual" /\ Manual!Next /\ UNCHANGED <<scene, sa_vars, sj_vars, ts_vars,
          po_vars, st_vars, jl_vars, dl_vars, si_vars, up_vars, iv_vars, mo_vars>>
    \/ scene = "research" /\ Research!Next /\ UNCHANGED <<scene, sa_vars, sj_vars,
          ts_vars, po_vars, st_vars, jl_vars, dl_vars, si_vars, up_vars, iv_vars,
          mo_vars>>
    \/ scene = "traces" /\ Storage!Next /\ UNCHANGED <<scene, sa_vars, sj_vars, ds_vars,
          po_vars, st_vars, jl_vars, dl_vars, si_vars, up_vars, iv_vars, mo_vars>>
    \/ scene = "outbox" /\ Outbox!Next /\ UNCHANGED <<scene, sa_vars, sj_vars, ds_vars,
          ts_vars, st_vars, jl_vars, dl_vars, si_vars, up_vars, iv_vars, mo_vars>>
    \/ scene = "outputs" /\ Pages!Next /\ UNCHANGED <<scene, sa_vars, sj_vars, ds_vars,
          ts_vars, po_vars, jl_vars, dl_vars, si_vars, up_vars, iv_vars, mo_vars>>
    \/ scene = "notebook" /\ Notebook!Next /\ UNCHANGED <<scene, sa_vars, sj_vars,
          ds_vars, ts_vars, po_vars, jl_vars, dl_vars, si_vars, up_vars, iv_vars,
          mo_vars>>
    \/ scene = "deaf" /\ Deaf!Next /\ UNCHANGED <<scene, sa_vars, sj_vars, ds_vars,
          ts_vars, po_vars, jl_vars, dl_vars, si_vars, up_vars, iv_vars, mo_vars>>
    \/ scene = "lanes" /\ Worker!Next /\ UNCHANGED <<scene, sa_vars, sj_vars, ds_vars,
          ts_vars, po_vars, st_vars, dl_vars, si_vars, up_vars, iv_vars, mo_vars>>
    \/ scene = "delegation" /\ Hires!Next /\ UNCHANGED <<scene, sa_vars, sj_vars, ds_vars,
          ts_vars, po_vars, st_vars, jl_vars, si_vars, up_vars, iv_vars, mo_vars>>
    \/ scene = "imports" /\ Imports!Next /\ UNCHANGED <<scene, sa_vars, sj_vars, ds_vars,
          ts_vars, po_vars, st_vars, jl_vars, dl_vars, up_vars, iv_vars, mo_vars>>
    \/ scene = "upload" /\ Uploads!Next /\ UNCHANGED <<scene, sa_vars, sj_vars, ds_vars,
          ts_vars, po_vars, st_vars, jl_vars, dl_vars, si_vars, iv_vars, mo_vars>>
    \/ scene = "index" /\ Versions!Next /\ UNCHANGED <<scene, sa_vars, sj_vars, ds_vars,
          ts_vars, po_vars, st_vars, jl_vars, dl_vars, si_vars, up_vars, mo_vars>>
    \/ scene = "mail" /\ Mails!Next /\ UNCHANGED <<scene, sa_vars, sj_vars, ds_vars,
          ts_vars, po_vars, st_vars, jl_vars, dl_vars, si_vars, up_vars, iv_vars>>

Spec == Init /\ [][Next]_vars

(* The fairness of each component, in the behaviours that are of it.       *)
LiveSpec ==
    /\ Spec
    /\ WF_sa_vars(scene = "tree" /\ Tree!Tick)
    /\ WF_sa_vars(scene = "tree" /\ Tree!ObserveChild)
    /\ WF_sa_vars(scene = "tree" /\ Tree!LoadAgents)
    /\ WF_sa_vars(scene = "tree" /\ Tree!FinishWait)
    /\ WF_sa_vars(scene = "tree" /\ Tree!Expiry)
    /\ \A t \in {Tree!Root, Tree!Member} :
          /\ WF_sa_vars(scene = "tree" /\ Tree!CancelChild(t))
          /\ WF_sa_vars(scene = "tree" /\ Tree!FinishEnd(t))
    /\ \A c \in 1..2 :
          /\ WF_sa_vars(scene = "tree" /\ Tree!FinishChildEnd(c))
          /\ WF_sa_vars(scene = "tree" /\ Tree!FinishWake(c))
    /\ \A t \in Tree!Txs :
          /\ SF_sa_vars(scene = "tree" /\ Tree!Acquire(t))
          /\ WF_sa_vars(scene = "tree" /\ Tree!AbortVictim(t))
    /\ \A p \in {1, 2} :
          /\ WF_sj_vars(scene = "processing" /\ Jobs!Claim(p))
          /\ WF_sj_vars(scene = "processing" /\ Jobs!Step(p))
    /\ WF_sj_vars(scene = "processing" /\ Jobs!LeaseExpires /\ sj_w[sj_job.holder].pc = "idle")
    /\ WF_sj_vars(scene = "processing" /\ Jobs!Purge)
    /\ WF_ds_vars(scene = "manual" /\ Manual!LeaseExpires)
    /\ \A x \in {1, 2} :
          /\ WF_ds_vars(scene = "manual" /\ Manual!Claim(x))
          /\ WF_ds_vars(scene = "manual" /\ Manual!WorkerStep(x))
    /\ WF_ds_vars(scene = "research" /\ Research!LeaseExpires)
    /\ WF_ds_vars(scene = "research" /\ Research!RunEnds)
    /\ WF_ds_vars(scene = "research" /\ Research!Claim(1))
    /\ WF_ds_vars(scene = "research" /\ Research!WorkerStep(1))
    /\ WF_ts_vars(scene = "traces" /\ Storage!Polls(1))
    /\ WF_ts_vars(scene = "traces" /\ Storage!Commit(1))
    /\ \A k \in {"t", "u"} : WF_ts_vars(scene = "traces" /\ Storage!Process(1, k))
    /\ \A s \in {1, 2} : WF_po_vars(scene = "outbox" /\ Outbox!SendOnce(s))
    /\ \A t \in {1, 2} : WF_po_vars(scene = "outbox" /\ Outbox!BecomeDue(t))
    /\ WF_po_vars(scene = "outbox" /\ Outbox!LeaseRunsOut)
    /\ WF_st_vars(\/ scene = "outputs" /\ Pages!Runs("a")
                  \/ scene = "notebook" /\ Notebook!Runs("a")
                  \/ scene = "deaf" /\ Deaf!Runs("a"))
    /\ WF_st_vars(scene = "outputs" /\ Pages!Runs("b"))
    /\ WF_st_vars((scene = "outputs" /\ Pages!Listens) \/ (scene = "notebook" /\ Notebook!Listens))
    /\ \A l \in {1, 2} : WF_jl_vars(scene = "lanes" /\ Worker!Goes(l))
    /\ WF_dl_vars(scene = "delegation" /\ Hires!QueueStep)
    /\ WF_dl_vars(scene = "delegation" /\ Hires!PassDeadline)
    /\ WF_si_vars(scene = "imports" /\ Imports!Deadline)
    /\ WF_si_vars(scene = "imports" /\ Imports!EndCommits(1))
    /\ \A r \in Imports!Runs : WF_si_vars(scene = "imports" /\ Imports!ExpireDeadlines(r))
    /\ WF_up_vars(scene = "upload" /\ Uploads!Expire(1))
    /\ WF_up_vars(scene = "upload" /\ Uploads!materializeExpiredUpload(1))
    /\ WF_up_vars(scene = "upload" /\ Uploads!LeaseExpires(1))
    /\ \A p \in {1, 2} :
          /\ WF_up_vars(scene = "upload" /\ Uploads!Claim(p))
          /\ WF_up_vars(scene = "upload" /\ Uploads!Purging(p))
    /\ WF_iv_vars(scene = "index" /\ Versions!Work(1))
    /\ WF_mo_vars(scene = "mail" /\ Mails!Lapse(1))
    /\ \A x \in {1, 2} :
          /\ WF_mo_vars(scene = "mail" /\ Mails!Claims(x))
          /\ WF_mo_vars(scene = "mail" /\ Mails!SendOnce(x))

-----------------------------------------------------------------------------
(* Every tree of Runs ends, deadlocks and crashes notwithstanding, and so   *)
(* do a delegation and the wait for imported Sources.                       *)
TreeEnds ==
    /\ scene = "tree" => Tree!TreeEnds
    /\ scene = "delegation" => Hires!BothEnd
    /\ scene = "imports" => Imports!WaitEnds

(* Every Source settles: ready, failed, removed, or held for a reviewer,    *)
(* also when a promotion overtakes it; and so does every upload.            *)
SourceSettles ==
    /\ scene = "processing" => Jobs!Settles
    /\ scene = "upload" => Uploads!Settles
    /\ scene = "index" => Versions!Settles

(* A search ends, although workers crash and Runs end.                      *)
SearchEnds == scene \in {"manual", "research"} => Manual!SearchEnds

(* The purge of every deleted Run is published, over lost leases and failed *)
(* calls, and a published one completes, over crashes and outages; the      *)
(* records of other Traces are stored (no attachment is staged here, see    *)
(* the README).                                                             *)
PurgeEnds ==
    /\ scene = "outbox" => Outbox!EveryPurgeIsPublished
    /\ scene = "traces" => Storage!PurgeEnds /\ Storage!OthersStored

(* A stream never waits on an old version without a wake on its way, its    *)
(* subscription and gauges go with it, it comes to show the last version,   *)
(* and that of a Run ends with the Run, even if no notification ever comes. *)
StreamsFollow ==
    /\ [](scene = "outputs" => Pages!TypeOK /\ Pages!WaitsOnlyIfTold /\ Pages!NothingLeaks)
    /\ [](scene = "notebook" => Notebook!WaitsOnlyIfTold /\ Notebook!NothingLeaks)
    /\ scene = "outputs" => Pages!RunStreamsClose /\ Pages!SnapshotsCatchUp
    /\ scene = "notebook" => Notebook!SnapshotsCatchUp
    /\ scene = "deaf" => Deaf!RunStreamsClose

(* A Job that is due is taken, over lost notifications and connections, and *)
(* every mail ends as sent or failed.                                       *)
JobsStart ==
    /\ scene = "lanes" => Worker!DueIsTaken
    /\ scene = "mail" => Mails!MailSettles

=============================================================================
