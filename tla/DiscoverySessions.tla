-------------------------- MODULE DiscoverySessions -------------------------
(***************************************************************************)
(* One Source Discovery session (internal/sourcediscovery): a Member's     *)
(* query, the leased job that searches for it, the Discovery workers, and  *)
(* the retries a Member asks for under idempotency keys                    *)
(* (internal/app/source_discovery_routes.go).  A session that an Agent Run *)
(* created is filled by the Run's own Attempts, without a job, until a     *)
(* Member retries it.                                                      *)
(*                                                                         *)
(* What a search found is who found it: an Attempt or a claim of the job.  *)
(***************************************************************************)
EXTENDS Naturals, FiniteSets

CONSTANTS Origin,        \* "manual", "research_agent" or "chat_agent"
          Workers, Requests, Keys,
          MaxAttempts    \* claims of a job before it is exhausted: 3

\* Of the constants; the MC modules that instantiate this one assume it.
DiscoverySessionsAssumption ==
    /\ Origin \in {"manual", "research_agent", "chat_agent"}
    /\ MaxAttempts \in Nat \ {0}

Attempts == {1, 2}     \* of the Agent Run: the second takes over

VARIABLES
    ses,       \* source_discovery_sessions.status
    cand,      \* whose search source_discovery_candidates holds
    job,       \* source_discovery_jobs
    expired,   \* the lease of the job has lapsed
    claims,    \* lease tokens drawn so far
    w,         \* ProcessNext in each worker
    act,       \* the search of each Attempt of the Agent Run
    run,       \* the Attempt that holds the Run's lease, 0 after the Run
    keys,      \* platform_idempotency_keys of retry_source_discovery
    req,       \* retry requests between their two transactions
    started    \* history: how many searches each key started

vars == <<ses, cand, job, expired, claims, w, act, run, keys, req, started>>
agentVars == <<act, run>>
retryVars == <<keys, req, started>>

NoJob == [status |-> "none", attempt |-> 0, token |-> 0]
Queued == [status |-> "queued", attempt |-> 0, token |-> 0]
Nothing == [by |-> "none", no |-> 0]
Idle == [pc |-> "idle", token |-> 0]

Init ==
    /\ ses = "none" /\ cand = Nothing /\ job = NoJob
    /\ expired = FALSE /\ claims = 0
    /\ w = [x \in Workers |-> Idle]
    /\ act = [a \in Attempts |-> "idle"]
    /\ run = IF Origin = "manual" THEN 0 ELSE 1
    /\ keys = {}
    /\ req = [r \in Requests |-> "idle"]
    /\ started = [k \in Keys |-> 0]

-----------------------------------------------------------------------------
(* Sessions of a Member and of an Agent Run. *)

CreateSession ==
    /\ Origin = "manual" /\ ses = "none"
    /\ ses' = "searching" /\ job' = Queued
    /\ UNCHANGED <<cand, expired, claims, w, agentVars, retryVars>>

(* EnsureResearchSession, EnsureChatAgentSession: found or created. *)
Ensure(a) ==
    /\ run = a /\ act[a] = "idle"
    /\ ses' = IF ses = "none" THEN "searching" ELSE ses
    /\ act' = [act EXCEPT ![a] = IF ses' = "searching" THEN "searching" ELSE "done"]
    /\ UNCHANGED <<cand, job, expired, claims, w, run, retryVars>>

AttemptSearches(a, outcome) ==
    /\ act[a] = "searching"
    /\ act' = [act EXCEPT ![a] = outcome]
    /\ UNCHANGED <<ses, cand, job, expired, claims, w, run, retryVars>>

(* A research Attempt completes under its lease and ends its Run; a Chat   *)
(* Attempt completes whatever has become of its lease.                     *)
MayEnd(a) == Origin = "chat_agent" \/ run = a
AfterEnd == IF Origin = "chat_agent" THEN run ELSE 0

\* Mutant: an Attempt that finds the session ready replaces what it holds.
CompleteAgentSessionAnew(a) ==
    /\ act[a] = "found"
    /\ act' = [act EXCEPT ![a] = "done"]
    /\ IF MayEnd(a) /\ ses # "failed"
       THEN ses' = "ready" /\ cand' = [by |-> "run", no |-> a] /\ run' = AfterEnd
       ELSE UNCHANGED <<ses, cand, run>>
    /\ UNCHANGED <<job, expired, claims, w, retryVars>>
CompleteAgentSession(a) ==
    /\ act[a] = "found"
    /\ act' = [act EXCEPT ![a] = "done"]
    /\ IF MayEnd(a) /\ ses = "searching"
       THEN ses' = "ready" /\ cand' = [by |-> "run", no |-> a] /\ run' = AfterEnd
       ELSE UNCHANGED <<ses, cand, run>>
    /\ UNCHANGED <<job, expired, claims, w, retryVars>>

FailAgentSession(a) ==
    /\ act[a] = "refused"
    /\ act' = [act EXCEPT ![a] = "done"]
    /\ IF MayEnd(a) /\ ses = "searching"
       THEN ses' = "failed" /\ run' = AfterEnd
       ELSE UNCHANGED <<ses, run>>
    /\ UNCHANGED <<cand, job, expired, claims, w, retryVars>>

(* The lease of the first Attempt is lost, it may still be running.        *)
TakeOver ==
    /\ run = 1 /\ run' = 2
    /\ UNCHANGED <<ses, cand, job, expired, claims, w, act, retryVars>>
AttemptStops(a) ==
    /\ act[a] \in {"searching", "found", "refused"} /\ run # a
    /\ act' = [act EXCEPT ![a] = "done"]
    /\ UNCHANGED <<ses, cand, job, expired, claims, w, run, retryVars>>

(* Cancellation, deadline and exhaustion: only the session of a research   *)
(* Run is failed with it.                                                  *)
RunEnds ==
    /\ run # 0 /\ run' = 0
    /\ ses' = IF Origin = "research_agent" /\ ses = "searching" THEN "failed" ELSE ses
    /\ UNCHANGED <<cand, job, expired, claims, w, act, retryVars>>

-----------------------------------------------------------------------------
(* The job queue and its workers. *)

Lapsed == job.status = "running" /\ expired
Exhausted == Lapsed /\ job.attempt >= MaxAttempts

Exhaust ==
    /\ Exhausted
    /\ job' = [job EXCEPT !.status = "failed", !.token = 0]
    /\ ses' = IF ses = "searching" THEN "failed" ELSE ses
    /\ UNCHANGED <<claims, w, expired>>

\* Mutant: a job whose lease lapsed is not put back.
TakeQueued(x) ==
    /\ job.status = "queued" /\ job.attempt < MaxAttempts /\ ses = "searching"
    /\ claims' = claims + 1 /\ expired' = FALSE
    /\ job' = [status |-> "running", attempt |-> job.attempt + 1, token |-> claims + 1]
    /\ w' = [w EXCEPT ![x] = [pc |-> "searching", token |-> claims + 1]]
    /\ UNCHANGED ses
Take(x) ==
    /\ job.status = "queued" \/ Lapsed
    /\ job.attempt < MaxAttempts /\ ses = "searching"
    /\ claims' = claims + 1 /\ expired' = FALSE
    /\ job' = [status |-> "running", attempt |-> job.attempt + 1, token |-> claims + 1]
    /\ w' = [w EXCEPT ![x] = [pc |-> "searching", token |-> claims + 1]]
    /\ UNCHANGED ses

(* A job of a session that no longer searches is put back and stays.       *)
PutBack ==
    /\ Lapsed /\ ~Exhausted /\ ses # "searching"
    /\ job' = [job EXCEPT !.status = "queued", !.token = 0]
    /\ UNCHANGED <<ses, claims, w, expired>>

Claim(x) ==
    /\ w[x].pc = "idle"
    /\ Exhaust \/ Take(x) \/ PutBack
    /\ UNCHANGED <<cand, agentVars, retryVars>>

LeaseExpires ==
    /\ job.status = "running" /\ ~expired
    /\ expired' = TRUE
    /\ UNCHANGED <<ses, cand, job, claims, w, agentVars, retryVars>>

(* The provider answers, and the candidates are validated page by page.    *)
WorkerSearches(x, outcome) ==
    /\ w[x].pc = "searching"
    /\ w' = [w EXCEPT ![x].pc = outcome]
    /\ UNCHANGED <<ses, cand, job, expired, claims, agentVars, retryVars>>

Holds(x) ==
    /\ job.status = "running" /\ job.token = w[x].token /\ ~expired
    /\ ses = "searching"

CompleteSearch(x) ==
    /\ w[x].pc = "found"
    /\ w' = [w EXCEPT ![x] = Idle]
    /\ IF Holds(x)
       THEN /\ ses' = "ready" /\ cand' = [by |-> "job", no |-> w[x].token]
            /\ job' = [job EXCEPT !.status = "succeeded", !.token = 0]
       ELSE UNCHANGED <<ses, cand, job>>
    /\ UNCHANGED <<expired, claims, agentVars, retryVars>>

FailSearch(x) ==
    /\ w[x].pc = "refused"
    /\ w' = [w EXCEPT ![x] = Idle]
    /\ IF Holds(x)
       THEN ses' = "failed" /\ job' = [job EXCEPT !.status = "failed", !.token = 0]
       ELSE UNCHANGED <<ses, job>>
    /\ UNCHANGED <<cand, expired, claims, agentVars, retryVars>>

Crash(x) ==
    /\ w[x].pc # "idle"
    /\ w' = [w EXCEPT ![x] = Idle]
    /\ UNCHANGED <<ses, cand, job, expired, claims, agentVars, retryVars>>

-----------------------------------------------------------------------------
(* A Member's retry: the key and the session are read, then both are       *)
(* checked again in the transaction that holds the key's lock.             *)

RetryReads(r, k) ==
    /\ req[r] = "idle" /\ k \notin keys /\ ses = "failed"
    /\ req' = [req EXCEPT ![r] = k]
    /\ UNCHANGED <<ses, cand, job, expired, claims, w, agentVars, keys, started>>

RetryFailedSession(k) ==
    /\ ses' = "searching" /\ cand' = Nothing /\ job' = Queued
    /\ keys' = keys \cup {k} /\ started' = [started EXCEPT ![k] = @ + 1]

RetryCommits(r) ==
    /\ req[r] # "idle"
    /\ IF req[r] \notin keys /\ ses = "failed" THEN RetryFailedSession(req[r])
       ELSE UNCHANGED <<ses, cand, job, keys, started>>
    /\ req' = [req EXCEPT ![r] = "idle"]
    /\ UNCHANGED <<expired, claims, w, agentVars>>

-----------------------------------------------------------------------------
Outcomes == {"found", "refused"}
WorkerStep(x) == (\E o \in Outcomes : WorkerSearches(x, o)) \/ CompleteSearch(x) \/ FailSearch(x)
AttemptStep(a) ==
    \/ Ensure(a) \/ \E o \in Outcomes : AttemptSearches(a, o)
    \/ CompleteAgentSession(a) \/ FailAgentSession(a)
Next ==
    \/ CreateSession
    \/ \E a \in Attempts : AttemptStep(a) \/ AttemptStops(a)
    \/ TakeOver \/ RunEnds \/ LeaseExpires
    \/ \E x \in Workers : Claim(x) \/ WorkerStep(x) \/ Crash(x)
    \/ \E r \in Requests : RetryCommits(r) \/ \E k \in Keys : RetryReads(r, k)

Spec == Init /\ [][Next]_vars
(* Leases lapse, workers poll and finish a search unless they crash, and   *)
(* the deadline of a Run ends it.                                          *)
LiveSpec ==
    /\ Spec
    /\ WF_vars(LeaseExpires) /\ WF_vars(RunEnds)
    /\ \A x \in Workers : WF_vars(Claim(x)) /\ WF_vars(WorkerStep(x))

-----------------------------------------------------------------------------
(* Properties. *)

(* Every variable has its type; only a running job has a token.            *)
(* The rows, with the checks of their tables.                              *)
SessionRows == {"none", "searching", "ready", "failed"}
JobStatuses == {"none", "queued", "running", "succeeded", "failed"}
KeyRows == SUBSET Keys        \* platform_idempotency_keys
TypeOK ==
    /\ ses \in SessionRows
    /\ job.status \in JobStatuses
    /\ job.attempt \in 0..MaxAttempts /\ (job.token # 0 <=> job.status = "running")
    /\ \A x \in Workers : w[x].token <= claims
    /\ \A a \in Attempts : act[a] \in {"idle", "searching", "done"} \cup Outcomes
    /\ keys \in KeyRows

(* docs/technical-architecture/web-source-discovery-contract.md: searching *)
(* -> ready, searching -> failed -> searching.  What a Member was shown is *)
(* never replaced by a second search, of another worker, a straggler or an *)
(* Attempt of the Run beside the job of a retry.                           *)
ReadyIsFinal == [][ses = "ready" => UNCHANGED <<ses, cand>>]_vars

(* A Member's session searches exactly as long as a job can end it.        *)
JobTellsSession ==
    Origin = "manual" => (ses = "searching" <=> job.status \in {"queued", "running"})

(* A retry key starts one search, however often its request is repeated    *)
(* and even when the search it started has failed again in between.        *)
OneSearchPerKey == \A k \in Keys : started[k] <= 1

(* A search ends, although workers crash and Runs end. *)
SearchEnds == ses = "searching" ~> ses # "searching"

=============================================================================
