--------------------------- MODULE IndexVersions ---------------------------
(***************************************************************************)
(* Retrieval index versions (internal/retrieval/version_store.go): a       *)
(* candidate is created, filled by the offline Reindexer, evaluated and    *)
(* promoted, while Source workers project new Sources into the version     *)
(* that was active when they read it and Runs pin the version their        *)
(* evidence is searched in.                                                *)
(*                                                                         *)
(* A Source is between `qualifying` and `ready` here and always holds its  *)
(* lease: SourceJobs has the rest.  Transactions that take the promotion   *)
(* lock are single steps; what a worker, the Reindexer or a pinning        *)
(* request read before is kept in their variables.                         *)
(***************************************************************************)
EXTENDS Naturals, FiniteSets

CONSTANTS Sources, Versions, Runs,
          Baseline,      \* the version BootstrapDevelopment made active
          NoVersion,
          MaxFailures    \* bound: Sources that are failed and retried

\* Of the constants; the MC modules that instantiate this one assume it.
IndexVersionsAssumption ==
    /\ Baseline \in Versions /\ NoVersion \notin Versions /\ MaxFailures \in Nat

VARIABLES
    version,   \* retrieval_index_versions.status
    passed,    \* versions with a passed retrieval_eval_runs row
    src,       \* source_sources.state
    build,     \* retrieval_source_index_builds.status of each Source and version
    w,         \* the worker of each Source: where it is and the version it read
    rx,        \* the Reindexer: its candidate and the Sources it still has to do
    run,       \* Runs: the Sources still to be pinned and the pins
    failures

vars == <<version, passed, src, build, w, rx, run, failures>>

Resting == [pc |-> "idle", v |-> NoVersion]
NoRun == [pc |-> "none", left |-> {}, pins |-> {}, selected |-> 0]
Active == {v \in Versions : version[v] = "active"}
Ready == {s \in Sources : src[s] = "ready"}

Init ==
    /\ version = [v \in Versions |-> IF v = Baseline THEN "active" ELSE "none"]
    /\ passed = {}
    /\ src = [s \in Sources |-> "qualifying"]
    /\ build = [s \in Sources |-> [v \in Versions |-> "none"]]
    /\ w = [s \in Sources |-> Resting]
    /\ rx = [v |-> NoVersion, left |-> {}]
    /\ run = [r \in Runs |-> NoRun]
    /\ failures = 0

-----------------------------------------------------------------------------
(* The offline harness. *)

CreateCandidate(v) ==
    /\ version[v] = "none"
    /\ version' = [version EXCEPT ![v] = "candidate"]
    /\ UNCHANGED <<passed, src, build, w, rx, run, failures>>

RecordEval(v) ==
    /\ version[v] # "none" /\ v \notin passed
    /\ passed' = passed \cup {v}
    /\ UNCHANGED <<version, src, build, w, rx, run, failures>>

loadActiveRevisions(v) ==
    /\ rx.v = NoVersion /\ version[v] = "candidate"
    /\ rx' = [v |-> v, left |-> Ready]
    /\ UNCHANGED <<version, passed, src, build, w, run, failures>>

(* One revision of the snapshot; a version that is no candidate any more   *)
(* or a Source that is gone ends the reindexing with an error.             *)
persistVerified ==
    /\ rx.v # NoVersion
    /\ \E s \in rx.left :
          IF version[rx.v] = "candidate" /\ src[s] = "ready"
          THEN /\ build' = [build EXCEPT ![s][rx.v] = "verified"]
               /\ rx' = [rx EXCEPT !.left = @ \ {s}]
          ELSE /\ rx' = [v |-> NoVersion, left |-> {}]
               /\ UNCHANGED build
    /\ UNCHANGED <<version, passed, src, w, run, failures>>

ReindexEnds ==
    /\ rx.v # NoVersion /\ rx.left = {}
    /\ rx' = [v |-> NoVersion, left |-> {}]
    /\ UNCHANGED <<version, passed, src, build, w, run, failures>>

(* The gate: every ready Source is verified in v. *)
Complete(v) == \A s \in Ready : build[s][v] = "verified"

(* Promote; on the active version it changes nothing. *)
Promote(v) ==
    /\ version[v] = "candidate" /\ v \in passed /\ Complete(v)
    /\ version' = [u \in Versions |-> IF u = v THEN "active"
                                      ELSE IF version[u] = "active" THEN "retired"
                                      ELSE version[u]]
    /\ UNCHANGED <<passed, src, build, w, rx, run, failures>>

-----------------------------------------------------------------------------
(* The worker that projects Source s. *)

Fails(s) ==
    /\ src' = [src EXCEPT ![s] = "failed"]
    /\ w' = [w EXCEPT ![s] = Resting]

(* Build reads the active version, then embeds every chunk. *)
BuildBegins(s) ==
    /\ src[s] = "qualifying" /\ w[s] = Resting
    /\ \E v \in Active : w' = [w EXCEPT ![s] = [pc |-> "persist", v |-> v]]
    /\ UNCHANGED <<version, passed, src, build, rx, run, failures>>

PersistBuild(s) ==
    /\ w[s].pc = "persist"
    /\ IF w[s].v \in Active
       THEN /\ build' = [build EXCEPT ![s][w[s].v] =
                            IF @ = "none" THEN "building" ELSE @]
            /\ src' = [src EXCEPT ![s] = "indexing"]
            /\ w' = [w EXCEPT ![s] = Resting]
       ELSE Fails(s) /\ UNCHANGED build
    /\ UNCHANGED <<version, passed, rx, run, failures>>

(* Verify reads the build of the active version and counts its points. *)
VerifyBegins(s) ==
    /\ src[s] = "indexing" /\ w[s] = Resting
    /\ \/ \E v \in Active :
            /\ build[s][v] # "none"
            /\ w' = [w EXCEPT ![s] = [pc |-> "mark", v |-> v]]
            /\ UNCHANGED src
       \/ /\ \A v \in Active : build[s][v] = "none"
          /\ Fails(s)
    /\ UNCHANGED <<version, passed, build, rx, run, failures>>

MarkVerified(s) ==
    /\ w[s].pc = "mark"
    /\ IF w[s].v \in Active
       THEN /\ build' = [build EXCEPT ![s][w[s].v] = "verified"]
            /\ src' = [src EXCEPT ![s] = "verifying"]
            /\ w' = [w EXCEPT ![s] = Resting]
       ELSE Fails(s) /\ UNCHANGED build
    /\ UNCHANGED <<version, passed, rx, run, failures>>

\* Mutant: a verified build of whatever version completes the Source.
CompleteEvidenceAnywhere(s) ==
    /\ src[s] = "verifying" /\ w[s] = Resting
    /\ IF \E v \in Versions : build[s][v] = "verified"
       THEN src' = [src EXCEPT ![s] = "ready"] /\ UNCHANGED w
       ELSE Fails(s)
    /\ UNCHANGED <<version, passed, build, rx, run, failures>>

(* CompleteEvidence; the conflict leaves the lease to expire, which every  *)
(* later attempt meets again until the attempts are exhausted.             *)
CompleteEvidence(s) ==
    /\ src[s] = "verifying" /\ w[s] = Resting
    /\ IF \E v \in Active : build[s][v] = "verified"
       THEN src' = [src EXCEPT ![s] = "ready"] /\ UNCHANGED w
       ELSE Fails(s)
    /\ UNCHANGED <<version, passed, build, rx, run, failures>>

RetryFailed(s) ==
    /\ src[s] = "failed" /\ failures < MaxFailures
    /\ failures' = failures + 1
    /\ src' = [src EXCEPT ![s] = "qualifying"]
    /\ UNCHANGED <<version, passed, build, w, rx, run>>

(* The builds of the Source go with it; the pins on it stay behind.        *)
Remove(s) ==
    /\ src[s] # "removed"
    /\ src' = [src EXCEPT ![s] = "removed"]
    /\ build' = [build EXCEPT ![s] = [v \in Versions |-> "none"]]
    /\ w' = [w EXCEPT ![s] = Resting]
    /\ UNCHANGED <<version, passed, rx, run, failures>>

-----------------------------------------------------------------------------
(* Runs. *)

(* The admission's transaction begins to pin the Sources of the request. *)
PinBegins(r) ==
    /\ run[r].pc = "none"
    /\ \E chosen \in (SUBSET Sources) \ {{}} :
          run' = [run EXCEPT ![r] = [pc |-> "pinning", left |-> chosen, pins |-> {},
                                     selected |-> Cardinality(chosen)]]
    /\ UNCHANGED <<version, passed, src, build, w, rx, failures>>

(* One query for each Source, each with a snapshot of its own; a Source    *)
(* that has no verified build in the active version refuses the admission. *)
pinEvidenceSet(r) ==
    /\ run[r].pc = "pinning"
    /\ \E s \in run[r].left :
          \/ \E v \in Active :
                /\ src[s] = "ready" /\ build[s][v] = "verified"
                /\ run' = [run EXCEPT ![r].left = @ \ {s}, ![r].pins = @ \cup {<<s, v>>}]
          \/ /\ ~\E v \in Active : src[s] = "ready" /\ build[s][v] = "verified"
             /\ run' = [run EXCEPT ![r] = [NoRun EXCEPT !.pc = "refused"]]
    /\ UNCHANGED <<version, passed, src, build, w, rx, failures>>

Admitted(r) ==
    /\ run[r].pc = "pinning" /\ run[r].left = {}
    /\ run' = [run EXCEPT ![r].pc = "live"]
    /\ UNCHANGED <<version, passed, src, build, w, rx, failures>>

OneVersion(r) == \A p, q \in run[r].pins : p[2] = q[2]

(* loadPinnedEvidenceRows: every selected Source is still there, ready and *)
(* verified in the pinned version, retired or not, and there is one such   *)
(* version.                                                                *)
PinHolds(p) == src[p[1]] = "ready" /\ build[p[1]][p[2]] = "verified"
Searchable(r) ==
    /\ OneVersion(r)
    /\ Cardinality({p \in run[r].pins : PinHolds(p)}) = run[r].selected

(* The Studio executor publishes over pins of the active version only. *)
Publishable(r) ==
    Cardinality({p \in run[r].pins : src[p[1]] = "ready" /\ p[2] \in Active}) = run[r].selected

-----------------------------------------------------------------------------
Harness ==
    \/ \E v \in Versions :
          CreateCandidate(v) \/ RecordEval(v) \/ loadActiveRevisions(v) \/ Promote(v)
    \/ persistVerified \/ ReindexEnds
Work(s) ==
    BuildBegins(s) \/ PersistBuild(s) \/ VerifyBegins(s) \/ MarkVerified(s) \/ CompleteEvidence(s)
Next ==
    \/ Harness
    \/ \E s \in Sources : Work(s) \/ RetryFailed(s) \/ Remove(s)
    \/ \E r \in Runs : PinBegins(r) \/ pinEvidenceSet(r) \/ Admitted(r)

Spec == Init /\ [][Next]_vars
(* Workers claim what is queued; reindexing is one call of the harness.    *)
LiveSpec ==
    Spec /\ \A s \in Sources : WF_vars(Work(s))

-----------------------------------------------------------------------------
(* Properties. *)

(* Every variable has its type, and a worker is where its Source is. *)
(* The rows of retrieval_index_versions, retrieval_source_index_builds and *)
(* retrieval_eval_runs, and the pins of a Run.                             *)
VersionRows == {"none", "candidate", "active", "retired"}
BuildRows == {"none", "building", "verified"}
Evaluated == SUBSET Versions
Pins == SUBSET (Sources \X Versions)
TypeOK ==
    /\ version \in [Versions -> VersionRows]
    /\ passed \in Evaluated
    /\ src \in [Sources -> {"qualifying", "indexing", "verifying", "ready", "failed", "removed"}]
    /\ build \in [Sources -> [Versions -> BuildRows]]
    /\ \A s \in Sources :
          \/ w[s].pc = "idle"
          \/ w[s].pc = "persist" /\ src[s] = "qualifying"
          \/ w[s].pc = "mark" /\ src[s] = "indexing"
    /\ rx.v \in Versions \cup {NoVersion} /\ rx.left \subseteq Sources
    /\ \A r \in Runs : run[r].pins \in Pins

(* There is always exactly one active version: queries never find none     *)
(* while a promotion replaces it, nor two.                                 *)
OneActive == Cardinality(Active) = 1

(* Every ready Source is verified in the active version, although Sources  *)
(* become ready during a promotion and a promotion comes while Sources     *)
(* become ready: what a Member sees as ready can be searched.              *)
ReadyIsIndexed == \A s \in Ready, v \in Active : build[s][v] = "verified"

(* A promotion never takes evidence from a Run that has pinned it: as long *)
(* as none of its Sources is removed, a Run that pinned one version can    *)
(* search it, promoted away or not.                                        *)
PinnedStaysSearchable ==
    \A r \in Runs :
        /\ run[r].pc = "live" /\ OneVersion(r)
        /\ \A p \in run[r].pins : src[p[1]] # "removed"
        => Searchable(r)

(* A Source a promotion overtakes ends too: ready, or failed for a retry.  *)
Settles == \A s \in Sources :
    src[s] = "qualifying" ~> src[s] \in {"ready", "failed", "removed"}

(* docs/technical-architecture/ARCHITECTURE.md:131: Runs pin their         *)
(* Evidence Revisions and Retrieval Index Version.  The pins of one Run    *)
(* are read by one query each, and a promotion between two of them pins    *)
(* two versions, which no search accepts.                                  *)
RunPinsOneVersion == \A r \in Runs : run[r].pc = "live" => OneVersion(r)

(* The same line: processing changes cannot alter evidence mid-run.  A     *)
(* Studio Run cannot be published any more once another version is active. *)
(* Does not hold: see "Disagreements" in the README.                        *)
PromotionKeepsPublishable ==
    [][\A r \in Runs :
          run[r].pc = "live" /\ run'[r] = run[r] /\ Publishable(r) /\ src' = src
          => Publishable(r)']_vars

=============================================================================
