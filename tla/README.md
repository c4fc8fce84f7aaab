# Nano Notebook in TLA+

Specifications, model-checking runs and machine-checked proofs of Nano Notebook:
the durable Agent runtime, the life of a Source from upload to citation, the
research sessions, and the services around them. The repository is a Go modular
monolith: control planes (`src/cmd/control-plane`) and workers
(`src/cmd/worker`) that meet in PostgreSQL. Every hard promise of the product
(a Run survives restarts, one answer per Run, answers cite what was found, what
is removed is gone) is kept by transactions, leases and fences over a few
tables, and these are the subject.

## Inventory

Paths are below `src/internal`. For each component: its state, its operations,
what makes it hard, and when it is correct.

### The Agent runtime

| Part | Code | State | Operations |
|---|---|---|---|
| Run store | `agent/store.go` | `agent_runs`, `agent_jobs`, `agent_trees` | admit, retry as a new Run, cancel, expire, pin evidence |
| Job queue | `jobs/queue.go` | `agent_jobs`: status, lease token and expiry, attempt counters, `available_at` | ClaimNext, Heartbeat, ReleaseLease, ResolveAttempt |
| Worker | `worker/service.go` | slots, one heartbeat goroutine per Attempt | listen, drain the queue, execute, classify the end |
| Controller | `agent/controller.go` | none that outlives a process | replay the log, propose, execute Actions, publish |
| Checkpoints | `agent/postgres_checkpoint_store.go`, `checkpoint_prefix.go` | `agent_run_checkpoints`, append-only | load, append, reconcile an uncertain commit |
| Steering | `agent/steering.go`, `app/server.go` | `chat_messages.steering_run_id` | send, deliver at a decision boundary |
| Publication | `agent/postgres_runtime.go` | the answer message, Run and Job | publish, reconcile, fail |
| Runtime subagents | `agent/runtime_subagent.go`, `research_reader_queue.go`, `app/runtime_subagent_schema.go` | `agent_subagents`, `agent_subagent_waits` | spawn, wait, dispatch readers, triggers |
| Delegation | `agent/delegation_kernel.go`, `configured_delegation_action.go` | `agent_run_delegations`, Jobs in status `waiting` | create, hand off, consume, cancel the pair |
| Context | `agent/postgres_compaction.go`, `research_compaction.go`, `tool_result_cache.go` | compactions, capsules, task memories, cached results | project, summarise, externalize, read pages |
| Catalogs and releases | `app/*_registry.go`, `promptcatalog`, `skillcatalog`, `agentcatalog` | registered rows, pins of Runs | register, verify, bind, execute as pinned |

A Run owns one Job. A worker slot leases the Job (an Attempt), executes the
Controller under the lease, and every write of the Attempt first checks the
lease token, its expiry, the Run's status and its deadline under row locks
(`lockCheckpointAuthority`). Processes notify each other with `pg_notify`, which
is a hint only: workers also scan. What is hard: an Attempt whose lease was
taken over keeps running (a straggler); a commit may fail without saying
whether it happened; a model or a tool answers late; deadlines are noticed by
whoever claims or reads next; triggers run inside other components'
transactions and lock rows in another order; builds are at work side by side.

It is correct when a Run and its Job agree, ends once, and its end stands; only
the newest Attempt writes; no accepted work is done twice and no unsafe work is
repeated after a crash; what was accepted is what is published; a waiting root
is woken, no child outlives its root, and everything ends at its deadline.

### Sources, retrieval and answers

| Part | Code | State | Operations |
|---|---|---|---|
| Uploads | `source/store.go`, `app/source_routes.go`, `app/server.go` | intents, staged and final objects, Sources | create, post, finalize, expire, remove |
| Purge | `sourcepurge/processor.go` | purge Jobs with their manifests | materialize, claim, delete, complete |
| Processing | `sourcejobs`, `sourceprocessing`, `evidence`, `sourceadmission` | Source state, Job, revision, report, points | claim, extract, publish, assess, review, project, activate |
| Source Map | `sourcemap/materializer.go` | map objects and rows | build, put, append, clean |
| Index versions | `retrieval/version_store.go`, `sourceprojection` | versions, builds, pins | create, reindex, evaluate, promote, pin |
| Search | `agent/evidence_search.go`, `retrieval/pipeline.go`, `rrf.go`, `chunker.go` | none; reads chunks and points | two channels, fuse, reload, rerank, project |
| Reading | `agent/source_inspection.go`, `source_text.go`, `read_source_action.go`, `search_text_action.go`, `sourcemap/artifact.go` | none; reads units, maps, cached pages | inspect, search text, read on |
| Grounding | `agent/grounding.go`, `grounding_publication.go` | stored plan, Final, citations | normalise, store the plan, publish |
| Discovery and URL imports | `sourcediscovery`, `app/source_discovery_routes.go` | sessions, jobs, candidates, admissions | search, retry, import |
| Research imports | `researchsource`, `agent/research_source_import_barrier.go` | imports of a Run | import, wait, wake, attach |

Hard: a worker that lost its lease still writes objects and points; an index is
promoted between verification and activation; an object is promoted before the
transaction that admits it; a second Attempt finds the Source, the map or the
plan where the first left it; Sources go while a search or an answer relies on
them; a reply ends before the Source does. Correct when a ready Source has its original, its map and one verified
revision in the active version, nothing unreviewed is searchable, a search finds
what is pinned and asked for and is honest about finding nothing, what a tool says can
be read on is reached by following its locators, and an answer
cites only what its Run found in Sources that are still ready.

### Research

`app/research_routes.go` and `agent/research_*.go` keep sessions, plan versions,
three kinds of Runs per session, claim cards, report sections and an Evidence
Ledger, all of it derived from checkpoints that Attempts append. Hard: Runs end
beside the sessions they belong to; the ledger is written after the log; URLs
alias documents; cards are verified by readers while the root assembles. Correct
when a session follows its Run, what is published is what was declared, and what
was read stays read.

### Product and delivery

`notebook` (invitations, membership, ownership, deletion), `studio` (Outputs),
`mailoutbox` (mails under leases, at most ten), `realtime` and `app/run_hub.go`
(streams), `agentoutbox`, `agenttraceprocessor` and `collector` (Traces to
ClickHouse and their purge). Hard: two requests with one key, offers that lapse
and come back, lost notifications, redelivered records, rebalances, partial
purges. Correct when there is one Owner and no oversubscription, an Output is
published only with authority and well formed, a stream always comes to show the
last version, and a purged Trace stays gone.

`PROJECT.json` lists every component, also those that are not modelled.

## How the project is built

Each component is a module with its state as VARIABLES, one action per
transaction, handler or step, and its assumptions on constants. The properties
of a component stand at the end of its module. Components that share no row are
not multiplied with each other: a suite module (`MCTrees`, `MCSources`,
`MCNotebooks`, `MCPlatform`, `MCResearch`, `MCLiveness`) holds an instance of
each, or several instances with other constants, and the variable `scene` says
of which instance a behaviour is; the variables of the others stand still. A
suite property is a conjunction over scenes of properties of the modules, with
each TypeOK among its parts. This explores the same states as separate runs
would. `MCAgentJobs` and `MCCheckpoints` instantiate their modules directly.
Theorems stand in modules of their own; `MCTrees` instantiates the modules with
the theorems of its components, so that `MCTreesProofs` can cite them.
So does `MCResearch` for `ResearchSessions`, whose two instances share one proof.
`MCTrees` takes the constants of reading and of releases from its cfg, one record for
each of their scenes; they are instances of `ResearchReading` and of `Rollout` with that
record as parameter, and `MCTreesProofs` proves about any such record.
`MCNotebooks` takes the constants of offers, searches, the mail outbox, the imports of
pages and the research imports from its cfg, and `MCResearch` those of the reports, of
long results, of the context of a chat and of the memory of a Run; `MCNotebooksProofs` and
`MCResearchProofs` prove about these instances themselves.

Where components do share rows the composition is in one module: Run, Job and
worker slots in `AgentJobs`; parent, child, Member, expiry and the triggers in
`Subagents`; Source worker, reviewer, Member and purge in `SourceJobs`; Source
workers, Reindexer, promotion and pinning Runs in `IndexVersions`; research Runs
and Source transactions in `SourceImports`; the session and its Runs in
`ResearchSessions`; Attempts, Members and the publication in `Grounding`.

## Modules

### AgentJobs, RunLifecycle, AgentJobsProofs, MCAgentJobs

`AgentJobs` is the queue, the worker slots and the control plane's operations on
Runs. Rows are locked `FOR UPDATE`, so one transaction is one action.

| Code | Action |
|---|---|
| `Store.CreateQueued` | `Admit` |
| `Store.CancelWithMetrics` | `Cancel` |
| `ExpireIfOverdueWithMetrics` on a read, in a claim | `ExpireOnRead`, `AfterExpiry` in each claim |
| `Queue.ClaimNext` | `ClaimNothing`, `ClaimLease`, `ClaimExhausted`, `ClaimFails` |
| heartbeat goroutine of `executeClaim` | `Heartbeat`, `HeartbeatError` |
| `publishOnce`, `PostgresRuntime.Fail`, `wait` | `Publish`, `FailRun`, `YieldForWait` |
| the subagent trigger, on the parent's Job | `WakeWaiting` |
| tail of `executeClaim`, `ReleaseLease`, `ResolveAttempt` | `AbandonLost`, `ReleaseLease`, `ResolveStale`, `ResolveRetry`, `ResolveTerminal` |
| process death, unreachable database | `Crash` |

The lease token is a fresh uuid stored in the statement that increments
`attempt_no`, and is identified with that number. `waits` is history: how often
the Run yielded. `RunLifecycle` is what a reader of `agent_runs` is promised;
`RefinesRunLifecycle` maps its `status` to `runStatus` and `answer` to
`outputBy`.

### Checkpoints, CheckpointsProofs, MCCheckpoints

One Run with several Attempts, each an interleaved process executing the
Controller loop statement by statement: load, recover, execute, read steering,
check authority, call the model, append, publish. The log is a sequence of
records; a payload is the number of the Attempt that produced it, because a
model or tool asked again may answer differently. `inFlight` is a transaction
whose client lost the connection at commit: the server still holds its locks
and decides later (`Decided`), while `Reconcile` already reads without locks.
Leases and deadlines are Booleans that an action flips, so no clock is needed.

### Trees and releases: Subagents, Delegation, ResearchReading, Rollout, SubagentsProofs, DelegationProofs, MCTrees, MCTreesProofs

`Subagents`: a root, its children, the Member who cancels and the expiry scan, at
the grain of row locks: a transaction takes the rows of one Run after another
(`Open`, `Take`, `Acquire`), commits in one step (`Close`), and PostgreSQL breaks
cycles (`AbortVictim`). The wait is `BeginWait`, `ObserveChild`, `LoadAgents`,
`FinishWait`, in the order of the code; the end of a child is `BeginChildEnd`,
`FinishChildEnd` with the trigger's wake-up, which may have to wait for the
parent's Job (`FinishWake`). The end of the root is `BeginEnd`, `CancelChild`,
`FinishEnd`. A statement reads what is committed when it starts; a trigger's
statement reads again after a lock wait.

`Delegation`: a parent and the child it hires, with the two Jobs, the
delegation row and its outcome; claims, takeovers, retries, the hand-off, the end
of the child and its wake-up, consumption, expiry, cancellation; also for rows
of the legacy runtime kind.

`ResearchReading`: the root's and its readers' calls of read_url, the queue of
documents that found no free reader, scouts, recommended sources, the guard
against repeats, and the Evidence Ledger with the Attempts that write it.

`Rollout`: builds as data, processes that start, register or verify, bind, admit,
delegate, execute and die. Of a Run it keeps the pin, which none of the other three
reads or writes, and whether it is at work.

### Sources: SourceUploads, SourceJobs, SourceMaps, IndexVersions, EvidenceSearch, SourceReading, Grounding, MCSources

`SourceUploads`: intents, their objects, finalize requests that decide on the
time they read first (`Request`), the expiry and purge workers under leases.
`SourceJobs`: the Job queue, the Processor with the state it copied, artifact,
revision, report, projection, retry, review, removal and purge. `SourceMaps`: the
map object and row as attempts of one Job write and delete them. `IndexVersions`:
candidates, the Reindexer, promotion under its lock, workers that project into
the version they read, and the queries that pin. `EvidenceSearch`: one search,
from the scope to what later decisions show; documents are sequences of units
with their runes, a chunk's identity is its content, scores are any order and the
fusion leaves equal ones in any; the
chunker is checked over all small documents and all ways to cut them.
`SourceReading`: how the entries of a map are derived from outlines and headings,
and the calls that inspect a map, search text and read units, each as the
transactions it consists of, with the locators its reply offers; Sources are
removed and results expire between and during the calls.
`Grounding`: drafts as sequences of pieces, so that markers may be broken,
nested or unended; the plan, the Final, the Message and its citations, over
Attempts, crashes, removals and a departing Member.

### Notebooks: Sharing, MailOutbox, UrlImports, DiscoverySessions, SourceImports, Studio, MCNotebooks, MCNotebooksProofs

`Sharing`: a command that takes the advisory lock of the Notebook is one step;
what it read before is a step of its own (`AcceptReads`). `MailOutbox`: Senders,
leases and an SMTP server whose acknowledgement may be lost. `UrlImports`: URL
admissions and the candidate imports around them, by handlers whose client may
disconnect. `DiscoverySessions`: the session, its job, the workers, the Attempts
of an Agent Run that fill one, and retries under keys. `SourceImports`: a
transaction that ends a Source is two steps, what it reads and its commit.
`Studio`: Outputs with their Runs, and what normalisation and validation make of
every artifact of a bounded shape.

### Platform: PurgeOutbox, TraceStore, MCPlatform

`PurgeOutbox`: the command a deletion writes, the senders of the worker processes
that claim, produce, empty the staging of the Trace and mark, with a lease each may
lose on the way, and the Attempts that go on staging. `TraceStore` begins at the
topic: consumers, batches, commits and rebalances; records with
attachments; a purge in its transactions: its state is loaded, the tombstone is
written, its first stage recorded, each stage executed and recorded. The stage that
deletes span analytics has no effect here, since these rows are not modelled, and a
purge refused because its command id was used with other content, which is quarantined
and committed, cannot occur with the one command there is.

### Research: ResearchSessions, ResearchReports, ResearchMemory, ToolResults, ChatContext, ResearchSessionsProofs, MCResearch, MCResearchProofs

`ResearchSessions`: sessions, plan versions, planning questions and answers, and
what a session sees of its Runs. `ResearchReports`: cards, sections, assembly,
imports, the declaration and the Final. `ResearchMemory` and `ChatContext`: what
an Attempt loads, summarises, checks and appends, each in a transaction of its
own. `ToolResults`: one long result, its preview, pages, eviction, ageing and
replay, with characters of different sizes.

### MCLiveness: Streams, JobLanes and the fairness of all others

`Streams`: handlers, hub, listener and lost notifications. `JobLanes`: the loops
that listen, drain and wait. `MCLiveness` instantiates these and ten other
modules on small instances and states their fairness.

## Runs

The violation runs are findings, see below. Every property of a passing run is a
conjunction of named properties of the modules, guarded by the scene.

| Run | Module | Shows |
|---|---|---|
| `agent_jobs` | `MCAgentJobs` | one Run, two slots, up to three leases: takeovers, stragglers, failed heartbeats, deaths, waits, cancellation and expiry. `TypeOK`, `RunJobAgree`, `LeaseFence`, `PublishedByNewestAttempt`, `StaleAttemptInert`, refinement of `RunLifecycle`, and the end of every admitted Run |
| `checkpoints` | `MCCheckpoints` | two Attempts of one Run, crashes, commits of unknown outcome, batches with ordered, parallel and unsafe Actions, steering: `UnsafeAtMostOnce`, `LogHolds`, `PublicationHolds`, `SteeringPrecedesDecision` |
| `trees` | `MCTrees` | `waits` and `full` (Subagents under row locks), `delegation` and `legacy` (Delegation), `repeats`, `batches` and `readers` (ResearchReading), `rolling`, `upgrade` and `mistakes` (Rollout): `WakeupsHold`, `WithinCapacity`, `NoOrphans`, `DelegationHolds`, `ReadsHold`, `PinsResolve` |
| `sources` | `MCSources` | `processing`, `map`, `upload`, `index`, `search`, `chunks`, `reading`, `inspecting`, `answer`: `ProcessedAsReviewed`, `SourcesAreWhole`, `SearchableAsPromised`, `SearchAnswers`, `AnswersCite` |
| `notebooks` | `MCNotebooks` | `sharing`, `resend`, `mail`, `redirects`, `session`, `discovery`, `chat`, `imports`, `output`, `outputs`, `artifacts`: `OffersHold`, `VerdictIsTrue`, `OneImportPerCandidate`, `ReadyIsFinal`, `WaitsForItsSources`, `OutputsHold` |
| `platform` | `MCPlatform` | `outbox` (PurgeOutbox), `group` and `single` (TraceStore): `TracesHold` |
| `research` | `MCResearch` | `member` and `attempts` (ResearchSessions), `report`, `result`, `chat`, `memory`, `stalling`: `SessionFollowsRun`, `PublishedAsDeclared`, `FollowedIsTheResult`, `NothingForgotten`, `MemoryHolds` |
| `liveness` | `MCLiveness` | fifteen scenes under `LiveSpec`: `TreeEnds`, `SourceSettles`, `SearchEnds`, `PurgeEnds`, `StreamsFollow`, `JobsStart` |
| `agent_jobs_lease_bound` | `MCAgentJobs` | finding: a queued Job at the lease bound makes claims fail |
| `source_imports_concurrent` | `SourceImports` | finding: two last Sources that end at once wake nobody |
| `index_versions_mixed` | `IndexVersions` | finding: one admission pins two index versions |
| `source_jobs_artifact` | `SourceJobs` | finding: a straggler replaces the artifact of a published revision |

Every property has a mutant in `PROJECT.json`: a change of one definition, of
the kind a slip in the code would be, that makes the property fail in the same
configuration.

### Bounds

The constants of a scene stand in its INSTANCE. They are the smallest for which
the hard case occurs, and the actions of every module are reached.

- `AgentJobs`: `MaxAttempts = 2` and `MaxAgentLeases = 3` let each limit be
  reached alone and together; a lease of one tick, a Run of four and a clock of
  five let a lease expire, be taken over and expire again, and the deadline fall
  inside an Attempt. Two slots are a holder and a straggler. One Run: Runs do not
  interact but through the choice of the claim, which the proofs cover for any
  number.
- `Checkpoints`: a straggler and a holder, one decision with a batch of two and
  then the Final Draft, one message. A gap before a stored result needs a batch
  of two and no more.
- `Subagents`: `waits` has two children and four Actions, for two spawns and two
  waits on different children; `full` three possible children at limits of one
  and two, so that each limit can be exceeded by one. The liveness scene has one
  active child at a time.
- `Delegation`: three Attempts per Run, so that both resumption and retry fit.
- `ResearchReading`: three URLs of two documents; two decisions of two calls, or
  four of one.
- `SourceJobs`, `SourceMaps`: two workers, two contents, two or three attempts.
  `SourceUploads`: two intents that are twins, two requests, one fault.
  `IndexVersions`: two Sources and three versions, so that a candidate is
  replaced while another is built.
- `EvidenceSearch`: the `search` scene has two Sources of three and two units;
  the `chunks` scene all documents of up to three units that are shorter than a
  chunk, as long or longer, and all ways to cut them; it takes only the step that
  loads them, since nothing else depends on the cut.
- `SourceReading`: `reading` has Sources and pages whose units exceed a reply
  alone, fit one by one or fit together, with at most four matches to a reply and
  two to a unit, so that each limit truncates; `inspecting` has outlines and
  headings with gaps, returns to an earlier page and more entries than the limit
  of three. A behaviour has one call that names its place and those that follow the
  locators of its replies.
- `Grounding`: drafts with no marker, one, more than the limit, a nested one and an
  unended one.
- `Sharing`: `WithinLimit` and `OfferedIsNoMember` are checked where no offer is
  resent, see Disagreements; `resend` checks the rest with resending.
- `SourceImports`: two imported Sources, two transactions that end them at once,
  and removals. `NoLostWakeup` does not hold there; what the barrier keeps is
  `WaitsForItsSources`: a Run waits for nothing only if, in this wait, two of its
  Sources were being ended at once or one was removed, which the history variable
  `overlooked` records. The scope holds one Source, so that it is met; with that
  limit a refusal for another index version shows nothing more than a full scope,
  the proof takes any limit.
- `PurgeOutbox`: two commands claimed together and two senders, so that one is
  acknowledged and the other not, and a sender finishes what another has taken over.
- `TraceStore`: `group` has two consumers, rebalances and stragglers, `single` one
  consumer and more failures; `NothingLost` is checked in both. `NoRowsAfterPurge`
  is checked with one consumer; `OthersStored` without a staged attachment.
- `Rollout`: builds that follow one another, and builds with an edited definition, a
  replaced context policy or a definition that no Executor supports.
- `ResearchMemory`, `ChatContext`, `ToolResults`: sizes are small numbers around
  the triggers and limits of the code, in their order.
- `Streams`: one lost notification or connection and one reopening for each
  stream; `deaf` never hears a notification.

`CHECK_DEADLOCK FALSE` is set where a system may stop: a Run ended, a Source
settled, a mail sent. `AgentJobs` never stops before its clock, and deadlock is
checked there.

### Fairness

`AgentJobs` (`FairSpec`): the clock runs, each slot keeps claiming (workers scan on
an interval whatever notifications do), the Attempt's timeout makes the executor
return, and the tail of `executeClaim` runs. Heartbeats, publication,
cancellation and admission are not fair.

`MCLiveness!LiveSpec` states the others, each only for behaviours of its scene:

- `Subagents`: time passes, a started transaction goes on, the lock queue serves
  a waiter it could serve again and again (strong fairness of `Acquire`:
  PostgreSQL queues waiters), deadlocks are broken after `deadlock_timeout`, and
  workers keep scanning for expired Runs. Claims of children, their models and
  the Member are not fair: the deadline alone ends the tree.
- `Delegation`: the scan of the queue and the clock. `SourceImports`: a started
  transaction commits, the deadline passes, expired waits are claimed.
- `SourceJobs`, `DiscoverySessions`, `SourceUploads`, `IndexVersions`,
  `MailOutbox`: each worker claims what is due (all poll) and goes on with what
  it holds until it crashes, and the lease of a worker that died runs out.
  Crashes are bounded by the attempts of a Job. The expiry of uploads is
  a loop of the worker command.
- `PurgeOutbox`: senders poll and go on, delays and the leases of the dead run out;
  failed calls, deaths and leases lost at work are bounded by `MaxFaults`.
- `TraceStore`: the consumer polls, processes each key of a batch and commits;
  faults and crashes are bounded by `MaxFaults`. The processor retries for ever.
- `Streams`: the handler of a stream runs, and the listener delivers or
  reconnects. Notifications themselves are not fair. `JobLanes`: the loop of each
  lane goes on. Execution of a Job ends.

## Proofs

A theorem holds for every value of the constants that satisfies the component's
assumption; no other fact is assumed. The assumptions ask only what the code
fixes: limits are numbers, batches are not longer than `ActionBatchLimit`, a
Message is no empty value. Every inductive invariant was first checked by TLC on
the instances of the runs.

| Module | Proves |
|---|---|
| `AgentJobsProofs` | all safety, the action properties and the refinement of `RunLifecycle` |
| `CheckpointsProofs` | the type invariant and `UnsafeAtMostOnce`, `PublicationHolds`, `LogHolds`, `SteeringPrecedesDecision` |
| `SubagentsProofs` | the type invariant, `WithinCapacity`, `OneChildPerAction`, `NoOrphans`, `NoLostWakeup`, `ResumesForItsWait` |
| `DelegationProofs` | the type invariant, `RunJobAgree`, `WaitsOnlyForActiveChild`, `DelegationTellsChild`, `NoOrphanChild`, `ConsumedWithParent`, `EndsAreFinal` |
| `MCTreesProofs` | the properties the run `trees` checks of the last two, for its scenes, and `ReadsHold` (ResearchReading) and `PinsResolve` (Rollout) for any value of their constants |
| `MCNotebooksProofs` | `OffersHold` (Sharing), `ReadyIsFinal` (DiscoverySessions), `VerdictIsTrue` (MailOutbox), `OneImportPerCandidate` (UrlImports) and `WaitsForItsSources` (SourceImports) of the run `notebooks`, for any value of their constants |
| `ResearchSessionsProofs` | the type invariant, `OneRunAtWork`, `SessionFollowsRun` |
| `MCResearchProofs` | `SessionFollowsRun` of the run `research` from those, and `PublishedAsDeclared` (ResearchReports), `FollowedIsTheResult` (ToolResults), `NothingForgotten` (ChatContext) and `MemoryHolds` (ResearchMemory) for any value of their constants |

### AgentJobsProofs

The inductive invariant `IInv` is the conjunction of the five invariants and
`Blank` (a free slot holds no Run, a Run not yet admitted has no history).
They need each other: a write under a token (`HoldsToken`) is by the newest
Attempt because of `LeaseFence`, meets a running Run without an answer because
of `RunJobAgree`, and keeps the accounting because a claim that raises
`attempt_no` also counts the lost lease. `TypeStep` and `RestStep` prove that
each action preserves it, one step per action. The action properties follow
from `IInv` in one step each: `StepLawful` (nothing after the end, otherwise an
edge of the abstract life; it gives finality and the refinement), `StepInert`
and `StepTimely`.

### CheckpointsProofs

The invariant is about the stored log and, for each Attempt, about what it has
loaded, queued or left in flight. `Typed`, `Fence`, `Flight` and `Log` are
global: the holder of the lease is the newest Attempt; a commit nobody has
decided yet is of an Attempt that holds the locks, so what it writes still fits
the log when the server decides; a log has at most one proposal per decision, a
Final only at its end, no checkpoint twice. For each Attempt `Shape` says what
its position requires, `Known` that the log it loaded is a prefix of the stored
one, `Holder` that for the lease holder it is the whole log and what it will
store fits it, `Informed` that it decides with the messages of the last
boundary, `Closed` that what another Attempt may have executed is closed before
it goes on, and `Mine` that only the proposer starts an Action that must not
run twice. `UnsafeAtMostOnce` needs all of them: an Attempt that lost its lease
may still execute the Actions it proposed, and what keeps the next Attempt from
repeating them is that it stores `unknown` for them before it passes its
recovery boundary (`Closed`), with a log nobody else can have extended
(`Holder`).

### SubagentsProofs

The invariant says what each transaction holds at each of its steps (`Holding`),
what the rows of the waits are (`WaitRows`), what a wait that has read its agents
can rely on (`Observed`), when a root that yielded is runnable (`Parked`), and
that children have one owner and fit in the tree (`Tree`). The argument rests on
`Movers`: the rows of a Run at work change only by the holder of its locks or by a
child that wakes its root. So between the statement that reads the agents and
the commit that parks the root no child can end, and a child that ends later
finds the wait parked. That a child which wakes the root belongs to the current
wait (`WakesItsWait`) is what `ResumesForItsWait` needs. For the capacity, a
dispatch of several queued reads is counted by the injection of reads into free
slots (`DispatchFits`, `CapacityKept`).

### DelegationProofs

`Agree` relates the two Runs, their Jobs and the delegation: `RunJobAgree`, a
parent waits only for a child at work, the delegation tells how the child ended,
what is consumed has ended. `Counted` bounds `attempt_no` by the failures, the
first lease and the lease after the child's end, which gives the bound in
`TypeOK` although Attempts are not bounded in the invariant. `Processes` says
that tokens in use were given out. Actions that end a row share the lemmas
`EndParent`, `EndChild` and `EndAttempt`; both kinds of rows, the legacy one
included, are covered by one proof.

### MCTreesProofs

In each scene one component acts, so its `NextIInv` applies, and the rows of the
others do not change. Nothing is proved again of subagents and delegations: the
theorems are those of the components at the constants of the scene, which
`TreesAssumption` admits.

Reading is proved here, for any record of constants. The steps fall in three kinds.
Most store no Result and write no ledger (`QuietKeeps`, with the crash of the root):
they mark a call as run and may add children, and all that matters of these is that
they are new rows without a result, of documents nobody reads (`Grown`). `ChildAdded`
says this of one reader; the dispatch of the queue and of the leads add one after
another by a recursive function, so that it exists and keeps `Grown` is by induction
on the number of steps (`Folding`, `Induction`). Storing a Result only makes more
pages `Shown`, which are never taken back (`ShownStays`). And a recorded decision is a
recursion over its Results: by the same induction a row that is read stays so, becomes
so by a text of its URL only, and each text leaves its row read (`MaterializedRead`).
The invariant needs the order besides: every decision but the last is complete, and
only the last is due (`ReadOrder`); so, while nothing died, a page that was shown is
read, or its decision is the last and due or not complete, or its reader is due
(`LedgerKeeps`). Crashes cost only this part: `LedgerShown`, that what is read was
shown, needs nobody alive, and with it the links of a report were read whoever died.
One reader per document is a claim about one transaction at a time: whoever adds a
reader holds the root's Run and Job (`lockCheckpointAuthority`), so one step does here.

Releases are proved for any builds and catalogs, valid or not, and any number of
processes, Runs and starts. What is registered only grows (`Grows`), so what a process
once found to agree keeps agreeing: `PassedBy` says for each phase of a start what the
checks before it left behind, above all that every version the build embeds is the one
registered. A pin is of what is registered (`PinStands`), since only a process that
agrees admits, and so two processes that both agree mean the same by it without ever
meeting. The context policy a worker derives is the pinned one because a model policy
has one (`OneContext`): that needs the unique policy of the table for what other builds
registered and, for two new versions of one build, that its catalog loads. Runs of the
earlier runtime have no pin; `ExecutesFormer` says that who passed
VerifyAgentConfigurationReady can execute all that are left, which stays true because an
ended one is never unfinished again.

### MCNotebooksProofs

For the mail outbox `MailCounted` says that what was mailed and the Senders that
may still mail it are together no more than the attempts: a claim adds both an
attempt and a Sender, a hand-over to SMTP turns a Sender into a mail, a crash or
a lost lease only removes a Sender. Senders whose lease was taken are counted
too, so the bound on mails holds whoever completes. `MailSent` says that only a
Sender that has sent completes, and `MailSpent` that a row fails for good at its
last attempt.

The imports of pages have two instances in the suite, with redirects and with a
session. What is proved is about `Web`, an instance with keys, redirects, limit
and removals as parameters; `RedirectsAre` and `SessionsAre` say that the steps of
the two are steps of it. `PagesImporting` says that a candidate has the status
`importing` as long as a handler of its session is at work on it, so the guard of
BeginCandidateImport lets no second one begin; for that no other step may
take a candidate out of `importing`, and a Source that fails takes only linked
ones, which were imported. `PagesOwned` says that an admission is carried out by
one handler and stays pending until that handler finalizes it, so the object
discarded after a redirect was found taken is no Source's. `PagesUnique` follows
from the lookup by final page, once a Source's final page is known to be that of
its page (`WebSources`).

For the imports of research `ImportWaits` says that a waiting Run which is neither due
nor `overlooked` has a Source at work, and that a transaction ending the last of
them has already decided to wake it. Any number of transactions may end Sources at
once, be rolled back, and Members may remove and reopen Sources meanwhile: the
decision to wake stays right because nobody else ends one of the Sources between
the look and the commit, or the Run is recorded as overlooked when that somebody
looked; the wait itself begins with the locks of all its Sources, so none is
being ended then, and it starts with nothing overlooked. So the two lost wakeups under Disagreements
are the only ones. `ImportFamily` keeps
what root and child have pinned equal while both live, also where a full scope or another index
version refuses a Source, since both refuse alike. Sources, the number of
transactions and the limit of the scope are arbitrary.

For the offers `Notes` is the instance of `Sharing` with users, resends, transfers,
writers and deletes as parameters; `SharesAre` and `ResendsAre` say that both
scenes are instances of it. `OwnersHold` (one Owner while the Notebook lives,
none after) and `SingleOffers` (one open offer per email) hold in either.
`PlacesHold` is claimed where nothing is sent again: those joined and the
standing offers together keep the limit, and a standing offer is to somebody who
is no Member. An acceptance takes its place from the offer it ends, so
neither half is inductive without the other. A resend breaks both, which are
the disagreements `WithinLimit` and `OfferedIsNoMember`. The action properties follow
from the steps: a token is accepted as long as nothing replaced it
(`TokensAreNewest`), and where offers are sent again nothing is deleted
(`NothingDeleted`).

For the searches `SearchIInv` says what a Job tells of its session (`JobTells`) and
that a key stands for a session begun with it (`KeysStarted`). That a ready search
keeps its candidates needs no more: every write asks for a session that is
searching, and a retry for one that failed.

### ResearchSessionsProofs

`SessionFollowsRun` is nearly inductive by itself, with what it needs about the
others: one Run is at work (`AtMostOne`), so an end or an admission concerns no
other Run; a session that has begun names a planning Run of its own
(`SessionHolds`), so an answer resumes the Run that asked; a Job to do is of a Run
at work, and an Attempt that failed its Run is of one at work no more
(`RunHolds`), so a straggler that tells the session late tells it nothing about the
Run that works in it then. All ends of a Run share `EndStep`, all admissions, with
the expiries in their transaction, `AdmitStep`, and suspending and resuming a
planner `PlannerStep`. That a session has at most one report is part of the types:
a report is there only with the status completed, which no step leaves.

### MCResearchProofs

Sessions: as in `MCTreesProofs`. For a report `ReportDeclared` says that the
accepted declaration is of the report assembled last: cards are only added, what
`complete_research` has seen of them is a part of them (a stale reading can
refuse, not accept wrongly), and another assembly withdraws the declaration.
`ReportNumbers` bounds the numbers of the cards the root still may record, which
the types of the ids need.

For the memory of a Run `Memory` is one instance with its length and `Stalls` as
parameters. `MemoryKnown` says of each Attempt, a straggler too, that every
capsule it has loaded is still the stored one and that what it is about to
archive was old when it was selected; an insert keeps this for the other Attempt
because it refuses to replace a capsule. The sizes of texts play no part: the
argument holds whatever a request weighs. That memories stay legible needs
`MemoryCurrent` besides: the Attempt at work has loaded all capsules there are,
and the range it is about to cover meets no memory. This is inductive only while
a lost lease stops its Attempt; with stalls the first half is lost, and the
instance `stalling` claims the capsules only.

The context of a Chat: its units, the closed turns of all Runs, have one order, and a
step leaves the `Whole` of them as it is or adds units after all others (`Grows`).
So what was a beginning remains one and a compaction that stood keeps standing
(`Stands`: it covers exactly what goes before its suffix). What an Attempt
projected is a beginning of the Whole (`ChatKnown`), and all of it for the Attempt
that holds the Run (`ChatCurrent`); whoever appends a compaction with its predecessor
compared therefore goes on where the last one ended, a straggler too. Sizes of texts
and limits play no part: where the cut falls, what is left is contiguous.

A long result: `Bytes` is a sum over a recursive function, so its laws need
induction, which is had without the library's induction theorems: a set of
numbers that contains 0 and with each its successor contains all up to a limit,
or it had a least exception (`Induction`). Any running sum over a text is the one
`Bytes` chooses (`BytesAre`), every text has one (`Weighed`), it grows with each
character and adds up (`Weights`), so an offset names one beginning, and a page read
there continues it (`GoesOn`). `ToolIInv` then says that an outcome shows a beginning
of its text (`Outcome`), that its reference holds this text for ever, since no
reference is used twice, and that who follows has a beginning of what the result
can show (`Follows`). Where a page is cut plays no part, only that it is a beginning
of the rest.

### Only model-checked

Liveness and `ENABLED`, which the proof system does not reach; what recursive
operators compute (`Grounding` declares one, and with it every property of
`MCSources` stays with TLC); Studio, the last component of `MCNotebooks`, and the
components of `MCPlatform` (`OutputsHold`, `TracesHold`), which no proof has been
attempted of. Whether a duplicate ran before, in `ResearchReading`,
does not hold at all; see "Disagreements".

## Findings

- At the lease bound a queued Job blocks the queue until its deadline
  (`agent_jobs_lease_bound`). Its claim rolls back, and the expiries with it.
- Two transactions that end the last Sources of a waiting Run at once each see
  the other as unfinished; the Run sleeps until its deadline
  (`source_imports_concurrent`).
- The Sources of an admission are pinned by one query each, and a promotion
  between two of them pins two versions; every search then fails
  (`index_versions_mixed`).
- The key of an artifact does not name the extraction, and a worker that lost its
  lease writes it before the lease is checked (`source_jobs_artifact`).

## Disagreements

What a document says and the code does not keep, beyond the four runs. The
definition named states what the document says; no run checks it, since it does
not hold. Paths of code are below `src/internal`, of documents below `src`.

- `Checkpoints!FaultsAreNotResults` (agent/controller.go:609):
  closeUnknownRecoveredActions stores an Action Result with the error
  action_interrupted for every pending Action that is not crash-replay safe,
  that is, because the previous Attempt lost its lease or its process;
  docs/technical-architecture/ARCHITECTURE.md:213 says "Cancellation, lease
  loss, and infrastructure faults retain their runtime semantics and are never
  converted into Action Results".
- `Checkpoints!SentBeforeFinalDelivered` (agent/controller.go:219): messages are
  read once before the model is called, so one sent during the call that returns
  the Final Draft is stored for the Run and never delivered, although it arrived
  before the Draft was accepted;
  docs/superpowers/specs/2026-11-03-mid-run-steering-messages-design.md:53 says
  "A Run that already accepted a Final Draft publishes it; a Steering Message
  that arrives after that point stays undelivered".
- `Subagents!CancelReturns` (app/runtime_subagent_schema.go:93): cancelling a
  root that waits for its subagents locks the root and then, in the trigger, its
  children, while a child that ends locks itself and then, in the same trigger,
  the queued Job of the root; PostgreSQL aborts one of the two and nothing
  retries the cancellation, so the Member gets a 500;
  docs/technical-architecture/ARCHITECTURE.md:273 says "Cancelling queued or
  running work atomically returns the terminal `cancelled` Run snapshot".
- `Delegation!CancelAnswers` (agent/delegation_kernel.go:253): CancelWithMetrics
  looks for a delegated child in any state and CancelTreeInTx then requires a
  waiting delegation, so cancelling a queued or running parent whose child has
  ended fails with "no rows in result set";
  docs/technical-architecture/ARCHITECTURE.md:273 says "Cancelling queued or
  running work atomically returns the terminal `cancelled` Run snapshot".
- `Delegation!ResultReachesParent` (agent/controller.go:609): no code reads the
  result of a terminal delegation for a configured parent: the resumed Attempt
  closes the pending delegation Action as action_interrupted;
  docs/superpowers/specs/2026-07-27-configured-agent-framework-design.md:380
  says "On its next leased Attempt it resolves the terminal Delegation and
  Result from PostgreSQL, validates the Result reference or safe error, and
  checkpoints that reference as the original Action Result".
- `SourceJobs!PurgeIsComplete` (evidence/publisher.go:91): Publish writes
  normalized.json (and Build the points) before the row that the purge manifest
  is made of exists, so a Source removed in between keeps its artifact or its
  points after its purge succeeded;
  docs/technical-architecture/ARCHITECTURE.md:325 says "Purge Jobs remove Qdrant
  projections, Blob Store objects, derived artifacts, private Chat content, and
  relevant Trace payloads according to ownership and references".
- `SourceJobs!DiscoveredFailureVanishes` (sourcejobs/queue.go:65): Claim marks a
  Source whose attempts are exhausted failed without the purge that finish
  makes;
  docs/superpowers/specs/2026-07-25-discovery-admission-and-citation-identity-design.md:40
  says "A terminally failed discovered URL import leaves no Source row visible
  and no selectable Discovery row".
- `SourceMaps!MapPermanent` (sourcemap/materializer.go:123): after a failed
  Append the object is deleted by its key, which every attempt with the same
  parser outcome shares with the row already stored (or with a row whose commit
  was reported failed): a ready PDF is left with a row whose object is gone;
  docs/superpowers/specs/2026-08-31-research-source-inspection-notes.md:348 says
  "Because the Source Map is permanent and immutable, the model can inspect the
  same revision again if genuinely needed after compaction".
- `SourceMaps!ParserFailureHarmless` (sourcemap/postgres.go:65): a map built
  from page samples because the parser failed differs from the one an earlier
  attempt stored, Append refuses it with ErrPersistenceConflict and ProcessLease
  ends with it;
  docs/superpowers/specs/2026-08-31-research-source-inspection-notes.md:274 says
  "A failed rich structure parse should not make an otherwise searchable Source
  unusable unless the underlying Source normalization itself failed".
- `SourceUploads!AbandonedIsPurged` (objectstore/direct_upload.go:130):
  PromoteUpload moves the object to its final key before the intent is
  finalized; when the transaction does not follow (a crash, a duplicate, the
  quota) a retry finds no staged object and the expiry purges the staged key
  only; docs/sprint/SPRINT-6-PRD.md:195 says "Abandoned intents expire and their
  objects are purged".
- `IndexVersions!PromotionKeepsPublishable` (agent/studio_executor.go:300): the
  Studio executor counts only pins of the version that is active when it
  publishes, so a promotion during the Run fails it although its pins still
  hold; docs/technical-architecture/ARCHITECTURE.md:131 says "Agent Runs pin
  their Evidence Revisions and Retrieval Index Version so processing changes
  cannot alter evidence mid-run".
- `SourceImports!NoLostWakeup` (source/store.go:789): Remove deletes a Source
  without waking the Runs that wait for it, although the wake counts a removed
  Source as terminal;
  docs/superpowers/specs/2026-08-31-research-pdf-source-persistence-design.md:321
  says "requeues the Agent Job when every dependency is terminal or the Run
  deadline is reached".
- `SourceImports!ReadyIsAttached` (researchsource/service.go:172): commitImport
  reads the state of an existing Source without a lock before it inserts its
  import, so one that becomes ready in between is attached neither by its
  completion, which finds no import, nor by the import, which read processing;
  docs/superpowers/specs/2026-08-31-research-pdf-source-persistence-design.md:426
  says "After Ready, a query retrieves bounded original PDF passages with
  Source, Evidence Revision, chunk, and page authority".
- `DiscoverySessions!SearchEnds` (agent/store.go:216): cancelling or expiring a
  Run fails the Discovery session of a research Run only, so the session of a
  Chat Run that ends while it searches stays searching and a Member's retry,
  which wants a failed session, is refused;
  docs/superpowers/specs/2026-09-04-chat-discovery-and-agent-activity-design.md:94
  says "completes the session as `ready` or `failed` according to the existing
  Discovery lifecycle".
- `UrlImports!RetrySafe` (app/source_routes.go:293): a Finalize that is refused
  because the Notebook is full leaves the admission pending, and every retry of
  its key is answered that it is in progress; docs/sprint/SPRINT-1-PRD.md:222
  says "Create operations are retry-safe through an idempotency key or an
  equivalent durable uniqueness mechanism".
- `UrlImports!ImportIsAtomic` (app/source_discovery_routes.go:237): the
  candidate is completed in a transaction after the one that created its Source,
  so a disconnect between them leaves the Source and a candidate that is
  importing for ever;
  docs/superpowers/specs/2026-07-24-web-source-discovery-and-delegated-research-design.md:414
  says "The Candidate reaches `imported` only in the transaction that commits a
  real Source or resolves a final-URL collision to an existing Source".
- `UrlImports!ReadyIsSelected` (sourcediscovery/store.go:447): a Source is
  selected in the originating Chat by the transaction that makes it ready,
  through its candidate; one that is ready already when the candidate is linked
  is never selected; docs/sprint/SPRINT-8-PRD.md:53 says "a Ready imported
  Source becomes selected only in the private Chat that originated its Discovery
  session".
- `PurgeOutbox!NothingStaysStaged` (agent/instrumentation_adapters.go:99): a worker
  that executes a Run while it is deleted stages the decision of the model call it
  is in before it looks at its authority; the objects of the Trace are listed and
  deleted once, when its purge is published, and nothing else removes what is staged
  later; docs/technical-architecture/ARCHITECTURE.md:325 says "Purge Jobs remove
  Qdrant projections, Blob Store objects, derived artifacts, private Chat content,
  and relevant Trace payloads according to ownership and references".
- `TraceStore!NoObjectAfterPurge` (collector/clickhouse_purge.go:208): the purge
  deletes the objects that references name, while an attachment is copied into
  custody before its reference is written, so one whose consumer died in between
  is never deleted;
  docs/superpowers/specs/2026-08-18-kafka-clickhouse-default-trace-cutover-design.md:163
  says "mark the purge command complete only when all physical deletion steps
  succeed".
- `TraceStore!NoRowsAfterPurge` (collector/clickhouse_store.go:86): the
  tombstone is looked for before the record is written, in no transaction with
  it, so a consumer that looked early stores the record after another consumer
  completed the purge;
  docs/superpowers/specs/2026-08-16-kafka-clickhouse-observability-migration-evaluation-design.md:157
  says the processor "marks the purge complete only after every owned store
  succeeds" and :93 that it is "independently scalable".
- `TraceStore!OthersStored` (agenttraceprocessor/consumer_franz.go:109):
  publishing a purge deletes the staged attachments of the Trace; a message of
  it that is consumed afterwards fails as retryable for ever, and the consumer
  fetches nothing while it is pending; docs/sprint/SPRINT-5-PRD.md:399 says
  "invalid Trace group does not poison unrelated groups".
- `Sharing!WithinLimit` (notebook/invitation.go:181): ResendInvitation makes an
  overdue offer pending again without counting the Members and offers;
  docs/superpowers/specs/2026-07-21-sprint-7-sharing-design.md:151 says "Resend
  applies only after expiry when the email is not a Member and capacity
  remains".
- `Sharing!OfferedIsNoMember` (notebook/invitation.go:181): ResendInvitation
  does not look whether the email is a Member;
  docs/superpowers/specs/2026-07-21-sprint-7-sharing-design.md:151 says "Resend
  applies only after expiry when the email is not a Member and capacity
  remains".
- `Sharing!ChatsOfMembers` (app/db.go:2824): a departure deletes the Chats it
  sees; one that is inserted under the old membership and commits later remains;
  docs/superpowers/specs/2026-07-21-sprint-7-sharing-design.md:161 says "Access
  revocation, active Run/Job cancellation, private Chat deletion, Membership
  deletion, listener notification, and Trace purge intent share one
  authoritative transaction boundary".
- `Sharing!StableOutcome` (notebook/invitation.go:352): AcceptInvitation looks
  for its key before it waits for the lock, so the second of two concurrent
  requests with one key is told that the offer is unavailable;
  docs/superpowers/specs/2026-07-21-sprint-7-sharing-design.md:147 says
  "Concurrent replay creates exactly one Membership and returns one stable
  outcome".
- `Sharing!ReplayIsOfRequest` (app/sharing_routes.go:81): the request hash of an
  invitation covers email, role and locale and not the Notebook, so a key used
  again for another Notebook replays the first invitation;
  docs/superpowers/specs/2026-07-21-sprint-7-sharing-design.md:143 says
  "Transport replay returns the same Invitation; reusing a key for another
  request conflicts".
- `MailOutbox!TokenGoes` (mailoutbox/queue.go:148): a row that failed for good
  keeps its payload with the token;
  docs/superpowers/specs/2026-07-21-sprint-7-sharing-design.md:123 says "Raw
  Invitation tokens exist in the Outbox only until successful delivery or
  terminal expiry".
- `AgentJobs!AtMostMaxAttempts` (jobs/queue.go:127): the attempt limit is
  compared with failed_attempts only, and each resumption after wait_agent
  leases the Job once more, so a Job is executed more often than the limit of
  its definition (app/db.go:2404 says "attempt_no counts every lease, including
  resumptions after a wait"); docs/technical-architecture/ARCHITECTURE.md:183
  says "An Agent Job permits at most three total execution attempts, including
  its initial claim".
- `ResearchSessions!RunFollowsSession` (agent/store.go): a Run that exceeds its
  deadline, or whose Attempt dies inside Fail, ends alone and leaves its session
  planning or queued for ever;
  docs/superpowers/specs/2026-08-22-chat-and-research-mode-design.md:121-133
  derives the status of the session from the Run.
- `ResearchReading!RefusedOnlyIfRan` (agent/research_action_guard.go:14-18,
  94-99): a call that was refused as paused, or the identical twin of one batch,
  counts as a call that already ran.

Further observations, made while modelling and without a definition of their own:

- A failed Run that was steered cannot be retried; Studio Runs
  cannot be cancelled through `cancelRun`, and deleting an active Output does not
  cancel its Run and Job (studio/store.go, Delete), although
  docs/superpowers/specs/2026-07-28-sprint-11-studio-structured-outputs-design.md:276
  and :305 say so (`Studio` takes either, constant `LocksOutput`). A deleted
  Output frees its idempotency key, and missing row ids repaired to `row_N` can
  collide.
- Claim identifiers of a child are shifted into the namespace of the root in a way
  that differs from the comment (agent/research_claims.go:901-926 and 234-236).
- The ledger is materialized in a transaction after the append
  (agent/research_runtime.go:202-222) and never again for a complete decision, so a
  crash between the two leaves a read link unread; `LedgerTellsReads` is stated
  without crashes. A document whose reader failed counts as being read
  (agent/runtime_subagent.go:288-296).
- A `not_cached` result of the shell offers the full result while only the preview
  can be read, with complete = true. A claim review may join pages that do not
  follow one another (agent/research_claims.go:379-412).
- Chat compaction: the compaction a straggler accepted may exceed the safe size
  and end the Run; above the trigger with nothing new to summarise the Run ends
  although its request fits. Task memories and capsules check authority and
  insert in two transactions.
- Grounding: a plan is stored before its Final with `on conflict do nothing`; a
  crash in between and another draft end the Run as grounding_failed, and the same
  draft after further searches is accepted as Final but never publishable
  (agent/grounding_publication.go:106-162). Normalisation of markers is not
  idempotent, and publication requires a normalized text. A database error while
  the draft is prepared ends the Run (agent/controller.go:433).
- Retrieval: the threshold filter sets CompleteEmpty also for a degraded search
  (retrieval/pipeline.go:217-233); what the Agent is told is decided later and is
  honest (`EmptyIsHonest`). A failed query embedding fails the whole search
  (agent/evidence_search.go:147-155). One purged Source fails the reload of all.
- Source Maps: `inferredEntries` keeps the open entries of deeper levels which
  `outlineEntries` closes, so an inferred entry may get a parent in an earlier
  section (sourcemap/artifact.go:269-281 and 233-248); an outline entry whose
  successor starts on the same page extends to the end of the document. The
  inspection drops entries from the end until the reply fits, so a conclusion
  that was given priority goes first when headings are long. A unit longer than a
  whole reply is shown truncated and no locator leads to its rest.
- Startup: `VerifyAgentConfigurationReady` and `prepareRetrievalAuthority` are not
  retried, although cmd/worker/main.go:200-205 says races are. A worker of an
  older build that claims a Run of a newer definition ends it, and a control
  plane admits Runs no worker can bind.
- Streams: deleting an Output notifies nobody; the first failed read of a Run's
  stream is recorded as server_shutdown. Lanes: a drain that found nothing due
  claims no more until all in flight has ended (worker/service.go:67-115); a retry
  notifies before it is due, so only the scan finds it.

## Not modelled

Membership checks at each fence (a departure cancels the Run, which is modelled; a Run
it does not reach is refused at the fence, which ends its Attempt like any error), the notice of a deleted Output, the sums of the
tree budget, TODO lists, trace recording and metrics, titles and the wording of
prompts, listing and renaming, selections of a Chat, routing, authentication and
sessions of users, conversion of files, what extractors, models, tools, mail and
search services return (a choice), analytics queries, evaluation, benchmarks and
the web client. `PROJECT.json` gives the reason with each component.

Concurrency control of PostgreSQL is modelled where it decides: row locks and
deadlocks in `Subagents`, read-committed statements in `IndexVersions`,
`SourceImports`, `Sharing` and `UrlImports`; elsewhere a transaction that locks
what it writes is one step.

## What is left

1. In `Checkpoints`, decisions that change only the TODO list: they do not count for the
   limit of decisions, and all that are modelled do.
2. Proofs for `Studio` (`OutputsHold`), `TraceStore` (`TracesHold`) and `IndexVersions` (`ReadyIsIndexed`).
3. The sums of the tree budget inside `Subagents`, Membership changes during a Run.
4. The recording of Traces and the shutdown of their producers.
