----------------------------- MODULE SourceJobs -----------------------------
(***************************************************************************)
(* One Source on its way from upload to ready: the processing Job queue    *)
(* (internal/sourcejobs), the Processor that runs a lease                  *)
(* (internal/sourceprocessing), the Evidence Publisher, the admission      *)
(* report and its review (internal/sourceadmission), the projection into   *)
(* the vector store (internal/sourceprojection) and the Member's retry and *)
(* removal (internal/source).                                              *)
(*                                                                         *)
(* A worker keeps the Source state it read when its lease began and works  *)
(* from that copy.  Database transactions are single steps; everything     *)
(* between two of them, the writes to the object store and to the vector   *)
(* store above all, interleaves with every other actor.  Only one          *)
(* retrieval index version exists here; IndexVersions has several.         *)
(***************************************************************************)
EXTENDS Naturals, FiniteSets

CONSTANTS Workers,       \* goroutines that process leases
          NoWorker,      \* no lease
          Contents,      \* what extracting the original may yield (models, web reader)
          AttemptLimit,  \* leases a Job gets before it is failed: 3 in queue.go
          MaxRetries,    \* bound: retries a Member asks for
          Discovered     \* TRUE for a url Source imported from a discovery

\* Of the constants; the MC modules that instantiate this one assume it.
SourceJobsAssumption ==
    /\ NoWorker \notin Workers
    /\ Contents \subseteq Nat \ {0}
    /\ AttemptLimit \in Nat \ {0}
    /\ MaxRetries \in Nat
    /\ Discovered \in BOOLEAN

VARIABLES
    src,      \* source_sources.state, or "removed"
    job,      \* source_processing_jobs: status, attempt, holder of the lease, live
    rev,      \* source_evidence_revisions: status and content (its sha)
    build,    \* retrieval_source_index_builds.status
    report,   \* source_admission_reports and its review
    store,    \* object store: original present, content of normalized.json
    points,   \* the vector store holds the points of the revision
    purge,    \* source_purge_jobs: state, keys and scope of the manifest
    w,        \* workers: pc, the state they hold, the content they extracted
    retries

vars == <<src, job, rev, build, report, store, points, purge, w, retries>>

Pipeline == <<"uploaded", "validating", "normalizing", "segmenting",
              "qualifying", "indexing", "verifying">>
Idle == [pc |-> "idle", at |-> "uploaded", content |-> 0]
NoRevision == [status |-> "none", content |-> 0]
Next_(s) == LET i == CHOOSE i \in DOMAIN Pipeline : Pipeline[i] = s IN Pipeline[i + 1]

Init ==
    /\ src = "uploaded"
    /\ job = [status |-> "queued", attempt |-> 0, holder |-> NoWorker, live |-> FALSE]
    /\ rev = NoRevision
    /\ build = "none"
    /\ report = "none"
    /\ store = [original |-> TRUE, artifact |-> 0]
    /\ points = FALSE
    /\ purge = [state |-> "none", artifact |-> FALSE, scope |-> FALSE]
    /\ w = [p \in Workers |-> Idle]
    /\ retries = 0

(* The predicate every lease-checked statement carries. *)
HasLease(p) == job.status = "running" /\ job.holder = p /\ job.live

Goto(p, pc) == w' = [w EXCEPT ![p].pc = pc]
GiveUp(p) == w' = [w EXCEPT ![p] = Idle]
Ended(status) == [job EXCEPT !.status = status, !.holder = NoWorker, !.live = FALSE]

-----------------------------------------------------------------------------
(* The queue. *)

\* Mutant: an expired lease is requeued whatever the attempts.
OverdueRequeued == Ended("queued")

(* What the first two statements of Claim make of an overdue Job. *)
Overdue ==
    IF job.attempt >= AttemptLimit THEN Ended("failed") ELSE Ended("queued")

(* The Job as Claim's third statement finds it. *)
Swept == IF job.status = "running" /\ ~job.live THEN Overdue ELSE job

Claim(p) ==
    /\ w[p].pc = "idle"
    /\ src # "removed"
    /\ \/ /\ Swept.status = "queued" /\ Swept.attempt < AttemptLimit
          /\ job' = [Swept EXCEPT !.status = "running", !.attempt = @ + 1,
                                  !.holder = p, !.live = TRUE]
          /\ Goto(p, "load")
          /\ UNCHANGED src
       \/ /\ Swept.status = "failed" /\ Swept # job
          /\ job' = Swept
          /\ src' = "failed"
          /\ UNCHANGED w
    /\ UNCHANGED <<rev, build, report, store, points, purge, retries>>

(* The lease runs out: the worker stalls, or died without a heartbeat. *)
LeaseExpires ==
    /\ job.status = "running" /\ job.live
    /\ job' = [job EXCEPT !.live = FALSE]
    /\ UNCHANGED <<src, rev, build, report, store, points, purge, w, retries>>

(* A worker dies, its heartbeat cancels it, or a call returns a plain      *)
(* error: the lease is left to expire.                                     *)
Abandon(p) ==
    /\ w[p].pc # "idle"
    /\ GiveUp(p)
    /\ UNCHANGED <<src, job, rev, build, report, store, points, purge, retries>>

\* Mutant: a worker acts on the state it cached, without comparing the row.
AdvanceUnchecked(p) ==
    /\ w[p].pc = "advance"
    /\ src # "removed"
    /\ src' = Next_(w[p].at)
    /\ w' = [w EXCEPT ![p].at = src',
                      ![p].pc = CASE src' = "validating" -> "advance"
                                  [] src' = "normalizing" -> "extract"
                                  [] src' = "qualifying" -> "qualify"
                                  [] src' = "indexing" -> "verify"
                                  [] src' = "verifying" -> "complete"]
    /\ UNCHANGED <<job, rev, build, report, store, points, purge, retries>>

(* Where the Processor goes on after Advance reached state s. *)
AfterAdvance(s) ==
    CASE s = "validating" -> "advance"
      [] s = "normalizing" -> "extract"
      [] s = "qualifying" -> "qualify"
      [] s = "indexing" -> "verify"
      [] s = "verifying" -> "complete"

Advance(p) ==
    /\ w[p].pc = "advance"
    /\ \/ /\ HasLease(p) /\ src = w[p].at
          /\ src' = Next_(src)
          /\ w' = [w EXCEPT ![p].at = src', ![p].pc = AfterAdvance(src')]
       \/ /\ ~(HasLease(p) /\ src = w[p].at)
          /\ GiveUp(p)
          /\ UNCHANGED src
    /\ UNCHANGED <<job, rev, build, report, store, points, purge, retries>>

(* What finish and Remove delete with the Source, and the manifest of what *)
(* they know to be stored.                                                 *)
DeleteSource ==
    /\ src' = "removed"
    /\ job' = Ended("none")
    /\ rev' = NoRevision
    /\ build' = "none"
    /\ report' = "none"
    /\ purge' = [state |-> "pending", artifact |-> rev.status # "none",
                 scope |-> build # "none"]

Fail(p) ==
    /\ w[p].pc = "fail"
    /\ GiveUp(p)
    /\ \/ /\ HasLease(p) /\ Discovered
          /\ DeleteSource
       \/ /\ HasLease(p) /\ ~Discovered
          /\ src' = "failed"
          /\ job' = Ended("failed")
          /\ UNCHANGED <<rev, build, report, purge>>
       \/ /\ ~HasLease(p)
          /\ UNCHANGED <<src, job, rev, build, report, purge>>
    /\ UNCHANGED <<store, points, retries>>

HoldForReview(p) ==
    /\ w[p].pc = "hold"
    /\ GiveUp(p)
    /\ job' = IF HasLease(p) /\ src = "qualifying" THEN Ended("succeeded") ELSE job
    /\ UNCHANGED <<src, rev, build, report, store, points, purge, retries>>

CompleteEvidence(p) ==
    /\ w[p].pc = "complete"
    /\ GiveUp(p)
    /\ IF HasLease(p) /\ src = "verifying" /\ rev.status = "building" /\ build = "verified"
       THEN /\ rev' = [rev EXCEPT !.status = "active"]
            /\ src' = "ready"
            /\ job' = Ended("succeeded")
       ELSE UNCHANGED <<src, job, rev>>
    /\ UNCHANGED <<build, report, store, points, purge, retries>>

-----------------------------------------------------------------------------
(* The Processor between its calls of the queue. *)

(* loadSource, and the read of the original object. *)
Load(p) ==
    /\ w[p].pc = "load"
    /\ \/ /\ HasLease(p)
          /\ w' = [w EXCEPT ![p].at = src,
                ![p].pc = IF src \in {"uploaded", "validating"} THEN "advance" ELSE "extract"]
       \/ /\ HasLease(p)           \* missing, too large, or another digest
          /\ Goto(p, "fail")
       \/ /\ ~HasLease(p)
          /\ GiveUp(p)
    /\ UNCHANGED <<src, job, rev, build, report, store, points, purge, retries>>

(* Where the Processor goes on from state s once it has the artifact. *)
AfterExtract(s) ==
    CASE s = "normalizing" -> "authorize"
      [] s = "segmenting" -> "advance"
      [] s = "qualifying" -> "qualify"
      [] s = "indexing" -> "verify"
      [] s = "verifying" -> "complete"

(* The original is extracted on every attempt, whatever the state; the     *)
(* content matters where it is published or compared.                      *)
Extract(p) ==
    /\ w[p].pc = "extract"
    /\ \/ \E c \in Contents :
            w' = [w EXCEPT
              ![p].content = IF w[p].at \in {"indexing", "verifying"} THEN 0 ELSE c,
              ![p].pc = AfterExtract(w[p].at)]
       \/ Goto(p, "fail")
    /\ UNCHANGED <<src, job, rev, build, report, store, points, purge, retries>>

(* Publish, first transaction. *)
AuthorizeLease(p) ==
    /\ w[p].pc = "authorize"
    /\ IF HasLease(p) THEN Goto(p, "put") ELSE GiveUp(p)
    /\ UNCHANGED <<src, job, rev, build, report, store, points, purge, retries>>

(* Publish, between its transactions: the key is the same for every        *)
(* extraction of the Source.                                               *)
PutArtifact(p) ==
    /\ w[p].pc = "put"
    /\ store' = [store EXCEPT !.artifact = w[p].content]
    /\ Goto(p, "publish")
    /\ UNCHANGED <<src, job, rev, build, report, points, purge, retries>>

(* Publish, second transaction. *)
Publish(p) ==
    /\ w[p].pc = "publish"
    /\ IF HasLease(p) /\ src = "normalizing"
          /\ (rev.status = "none" \/ rev = [status |-> "building", content |-> w[p].content])
       THEN /\ rev' = [status |-> "building", content |-> w[p].content]
            /\ src' = "segmenting"
            /\ w' = [w EXCEPT ![p].at = "segmenting", ![p].pc = "advance"]
       ELSE GiveUp(p) /\ UNCHANGED <<src, rev>>
    /\ UNCHANGED <<job, build, report, store, points, purge, retries>>

(* qualificationFromStored under enforcement. *)
Pauses(r) == r \in {"review_required", "rejected"}

(* Qualify: the stored report is read without the lease, a new one is      *)
(* published under it and only for the extraction that was published.      *)
Qualify(p) ==
    /\ w[p].pc = "qualify"
    /\ \/ /\ report # "none"
          /\ w' = [w EXCEPT ![p].content = 0,
                            ![p].pc = IF Pauses(report) THEN "hold" ELSE "units"]
          /\ UNCHANGED report
       \/ /\ report = "none"
          /\ HasLease(p) /\ src = "qualifying" /\ rev.content = w[p].content
          /\ report' \in {"passed", "review_required"}
          /\ w' = [w EXCEPT ![p].content = 0,
                            ![p].pc = IF Pauses(report') THEN "hold" ELSE "units"]
       \/ /\ report = "none"
          /\ ~(HasLease(p) /\ src = "qualifying" /\ rev.content = w[p].content)
          /\ GiveUp(p)
          /\ UNCHANGED report
    /\ UNCHANGED <<src, job, rev, build, store, points, purge, retries>>

(* Build: loadUnits, the points, then the row under the promotion lock.    *)
LoadUnits(p) ==
    /\ w[p].pc = "units"
    /\ Goto(p, IF HasLease(p) /\ rev.status = "building" /\ src = "qualifying"
               THEN "upsert" ELSE "fail")
    /\ UNCHANGED <<src, job, rev, build, report, store, points, purge, retries>>

Upsert(p) ==
    /\ w[p].pc = "upsert"
    /\ points' = TRUE
    /\ Goto(p, "persist")
    /\ UNCHANGED <<src, job, rev, build, report, store, purge, retries>>

(* An existing row must carry the same checksum; another embedding of the  *)
(* same text has another one.                                              *)
PersistBuild(p) ==
    /\ w[p].pc = "persist"
    /\ \/ /\ HasLease(p) /\ src = "qualifying"
          /\ build' = IF build = "none" THEN "building" ELSE build
          /\ Goto(p, "advance")
       \/ /\ ~(HasLease(p) /\ src = "qualifying") \/ build # "none"
          /\ Goto(p, "fail")
          /\ UNCHANGED build
    /\ UNCHANGED <<src, job, rev, report, store, points, purge, retries>>

(* Verify: loadBuild and the count of the points, then markVerified. *)
Verify(p) ==
    /\ w[p].pc = "verify"
    /\ Goto(p, IF HasLease(p) /\ src = "indexing" /\ build # "none" /\ points
               THEN "mark" ELSE "fail")
    /\ UNCHANGED <<src, job, rev, build, report, store, points, purge, retries>>

MarkVerified(p) ==
    /\ w[p].pc = "mark"
    /\ IF HasLease(p) /\ src = "indexing" /\ build # "none"
       THEN build' = "verified" /\ Goto(p, "advance")
       ELSE UNCHANGED build /\ Goto(p, "fail")
    /\ UNCHANGED <<src, job, rev, report, store, points, purge, retries>>

-----------------------------------------------------------------------------
(* The Member, and the purge of what a deleted Source left. *)

RetryFailed ==
    /\ src = "failed" /\ job.status = "failed"
    /\ retries < MaxRetries
    /\ retries' = retries + 1
    /\ src' = "uploaded"
    /\ job' = [Ended("queued") EXCEPT !.attempt = 0]
    /\ UNCHANGED <<rev, build, report, store, points, purge, w>>

Review ==
    /\ report = "review_required" /\ src = "qualifying" /\ job.status = "succeeded"
    /\ \/ report' = "approved" /\ job' = [Ended("queued") EXCEPT !.attempt = 0]
       \/ report' = "rejected" /\ UNCHANGED job
    /\ UNCHANGED <<src, rev, build, store, points, purge, w, retries>>

Remove ==
    /\ src # "removed"
    /\ DeleteSource
    /\ UNCHANGED <<store, points, w, retries>>

(* The purge processor, in one step: SourcePurge has its leases.           *)
Purge ==
    /\ purge.state = "pending"
    /\ purge' = [purge EXCEPT !.state = "succeeded"]
    /\ store' = [original |-> FALSE,
                 artifact |-> IF purge.artifact THEN 0 ELSE store.artifact]
    /\ points' = (points /\ ~purge.scope)
    /\ UNCHANGED <<src, job, rev, build, report, w, retries>>

-----------------------------------------------------------------------------
Step(p) ==
    \/ Load(p) \/ Advance(p) \/ Extract(p) \/ AuthorizeLease(p) \/ PutArtifact(p)
    \/ Publish(p) \/ Qualify(p) \/ HoldForReview(p) \/ LoadUnits(p) \/ Upsert(p)
    \/ PersistBuild(p) \/ Verify(p) \/ MarkVerified(p) \/ CompleteEvidence(p) \/ Fail(p)

Next ==
    \/ \E p \in Workers : Claim(p) \/ Step(p) \/ Abandon(p)
    \/ LeaseExpires
    \/ RetryFailed \/ Review \/ Remove \/ Purge

Spec == Init /\ [][Next]_vars

(* Workers poll and go on with what they claimed; time expires the lease   *)
(* of one that stopped; the purge processor polls.                         *)
FairSpec ==
    /\ Spec
    /\ \A p \in Workers : WF_vars(Claim(p)) /\ WF_vars(Step(p))
    /\ WF_vars(LeaseExpires /\ w[job.holder].pc = "idle")
    /\ WF_vars(Purge)

-----------------------------------------------------------------------------
(* Type correctness. *)
(* The rows, with the checks of their tables.                              *)
SourceRows == {Pipeline[i] : i \in DOMAIN Pipeline} \cup {"ready", "failed", "removed"}
JobRows == [status : {"queued", "running", "succeeded", "failed", "none"},
            attempt : 0..AttemptLimit, holder : Workers \cup {NoWorker}, live : BOOLEAN]
\* What the object store has under the keys of a Source.
Objects == [original : BOOLEAN, artifact : Contents \cup {0}]
RevisionRows == [status : {"none", "building", "active"}, content : Contents \cup {0}]
BuildRows == {"none", "building", "verified"}
ReportRows == {"none", "passed", "review_required", "approved", "rejected"}
PurgeRows == [state : {"none", "pending", "succeeded"}, artifact : BOOLEAN, scope : BOOLEAN]
TypeOK ==
    /\ src \in SourceRows /\ job \in JobRows /\ rev \in RevisionRows
    /\ build \in BuildRows /\ report \in ReportRows /\ purge \in PurgeRows
    /\ store \in Objects
    /\ points \in BOOLEAN
    /\ \A p \in Workers :
        /\ w[p].at \in {Pipeline[i] : i \in DOMAIN Pipeline}
        /\ w[p].content \in Contents \cup {0}
    /\ retries \in 0..MaxRetries

(* A Source and its Job tell the same story (queue.go writes them in       *)
(* separate statements): a ready Source has an active revision in a        *)
(* verified build and a succeeded Job, a failed one a failed Job, and a    *)
(* succeeded Job of an unfinished Source is one held for review.           *)
SourceJobAgree ==
    /\ src = "ready" => job.status = "succeeded" /\ rev.status = "active" /\ build = "verified"
    /\ src = "failed" <=> job.status = "failed"
    /\ job.status = "succeeded" => src = "ready" \/ (src = "qualifying" /\ Pauses(report))

(* The worker that holds the lease works from the state the row has:       *)
(* ProcessLease reads it once and then counts its own transitions.         *)
LeaseStateFresh ==
    \A p \in Workers :
        HasLease(p) /\ w[p].pc \notin {"idle", "load", "fail"} => w[p].at = src

(* Nothing of a Source under review is searchable: neither its points nor  *)
(* a later state exist until the report passed or a Member approved it.    *)
UnreviewedNeverProjected ==
    points \/ src \in {"indexing", "verifying", "ready"} =>
        src = "removed" \/ report \in {"passed", "approved"}

(* A revision keeps the extraction it was published with while its Source  *)
(* exists, and the report stays the one of that extraction: attempts that  *)
(* extract something else never replace it.                                *)
RevisionImmutable ==
    [][rev.status # "none" /\ src' # "removed" =>
        rev'.content = rev.content /\ rev'.status # "none"]_vars

(* The Source moves along the pipeline one state at a time; only a         *)
(* Member's retry of a failed Source starts it again, and a ready Source   *)
(* can only be removed.                                                    *)
MovesForward ==
    [][src' # src =>
        \/ \E i \in 1..6 : src = Pipeline[i] /\ src' = Pipeline[i + 1]
        \/ src = "verifying" /\ src' = "ready"
        \/ src' = "failed" /\ src # "ready"
        \/ src = "failed" /\ src' = "uploaded" /\ job.status = "failed"
        \/ src' = "removed"]_vars

(* A review is never lost: the decision of a Member changes a Job only     *)
(* when no worker holds it.                                                *)
ReviewNeverInterrupts ==
    [][report = "review_required" /\ report' \in {"approved", "rejected"} =>
        job.status # "running"]_vars

(* Every Source settles: ready, failed, removed, or held for a reviewer,   *)
(* whatever the workers crash (sourcejobs: attempts are bounded).          *)
Settles ==
    <>[](src \in {"ready", "failed", "removed"} \/ (job.status = "succeeded" /\ Pauses(report)))

(* ARCHITECTURE.md:325: "Purge Jobs remove Qdrant projections, Blob Store  *)
(* objects, derived artifacts, ...".                                       *)
(* Does not hold: see "Disagreements" in the README.                        *)
PurgeIsComplete ==
    purge.state = "succeeded" => store.artifact = 0 /\ ~points

(* CONTEXT.md:194: a revision is an immutable version of the normalized    *)
(* artifact: the object a ready Source points to is the one it was         *)
(* published with.                                                         *)
ArtifactMatchesRevision ==
    src = "ready" => store.artifact = rev.content

(* Discovery design :40: "A terminally failed discovered URL import leaves *)
(* no Source row visible".                                                 *)
(* Does not hold: see "Disagreements" in the README.                        *)
DiscoveredFailureVanishes == Discovered => src # "failed"
=============================================================================
