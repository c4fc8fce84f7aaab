--------------------------- MODULE SourceImports ---------------------------
(***************************************************************************)
(* PDFs a Research Run saves as Sources of its Notebook                    *)
(* (internal/researchsource), the barrier that makes the Run wait for them *)
(* before it reports, the transactions that end a Source and wake the      *)
(* waiting Runs, and the evidence pins they add to the whole family of the *)
(* Run (internal/agent/research_source_import_barrier.go).                 *)
(*                                                                         *)
(* One Notebook, one family: a root and a child it may spawn.  A           *)
(* transaction that ends a Source is two steps, what it reads and its      *)
(* commit: under read committed it sees other Sources as they were before  *)
(* transactions still open.  The row locks of the code are guards.         *)
(***************************************************************************)
EXTENDS Naturals, FiniteSets

CONSTANTS Sources,
          Enders,        \* ending transactions open at once: Source worker goroutines
          MayRemove,     \* whether a Member removes Sources meanwhile
          ScopeLimit     \* Sources a Run may pin: 50 in the code

\* Of the constants; the MC modules that instantiate this one assume it.
SourceImportsAssumption ==
    Enders \in Nat \ {0} /\ MayRemove \in BOOLEAN /\ ScopeLimit \in Nat

Runs == {"root", "child"}

VARIABLES
    src,      \* source_sources.state; "review" is qualifying with a succeeded Job
    end,      \* the open transaction that ends a Source
    imports,  \* research_source_imports: run, source, observed, error
    imp,      \* the import transaction that holds the Notebook's lock
    run,      \* agent_runs and agent_jobs of the family
    pins,     \* agent_run_evidence_set
    due,      \* the absolute deadline of the tree has passed
    overlooked \* history: Runs that met, while they wait, two of their Sources
               \* being ended at once, or the removal of one

vars == <<src, end, imports, imp, run, pins, due, overlooked>>

NoEnd == [to |-> "none", wakes |-> {}, pins |-> {}]
NoImport == [run |-> "none", seen |-> "none", src |-> {}]
Alive(r) == run[r] \in {"queued", "running", "waiting"}
Terminal == {"ready", "failed", "review"}

(* The imports Run r waits for: the root waits for those of its family.    *)
Scope(r) == {i \in imports : i.run = r \/ r = "root"}
ScopeSources(r) == {i.src : i \in Scope(r)}
Importers(s) == {i.run : i \in {j \in imports : j.src = s}}

Init ==
    /\ src \in [Sources -> {"none", "processing"}]   \* a Member may have added it
    /\ end = [s \in Sources |-> NoEnd]
    /\ imports = {}
    /\ imp = NoImport
    /\ run = [r \in Runs |-> IF r = "root" THEN "running" ELSE "none"]
    /\ pins = [r \in Runs |-> {}]
    /\ due = FALSE
    /\ overlooked = {}

-----------------------------------------------------------------------------
(* Attaching a ready Source to the live Runs of the family. *)

\* A Run's scope is full, or what it has pinned is of an index version that
\* another was promoted over; which version that is, root and child share.
Refuses(r, promoted) == Cardinality(pins[r]) >= ScopeLimit \/ (promoted /\ pins[r] # {})
Attached(s, rs, promoted) ==
    [r \in Runs |-> IF r \in rs /\ ~Refuses(r, promoted) THEN pins[r] \cup {s} ELSE pins[r]]
(* A Run that refuses keeps the reason on its own import.                  *)
Marked(is, s, rs, promoted) ==
    {IF i.src = s /\ i.run \in rs THEN [i EXCEPT !.error = Refuses(i.run, promoted)] ELSE i : i \in is}

-----------------------------------------------------------------------------
(* save_url_as_source, in the transaction that holds the Notebook's lock.  *)
(* Bound: a Run saves a Source by one action.                              *)

ImportReads(r, s) ==
    /\ imp = NoImport
    /\ run[r] = "running" /\ ~due
    /\ src[s] # "removed"
    /\ s \notin {i.src : i \in {j \in imports : j.run = r}}
    /\ imp' = [run |-> r, src |-> {s}, seen |-> src[s]]
    /\ UNCHANGED <<src, end, imports, run, pins, due, overlooked>>

(* The import's reference to the Source needs its row; a Source that was   *)
(* ready when it was read is attached, another one when it ends.           *)
ImportCommits ==
    /\ imp # NoImport
    /\ \E s \in imp.src :
        /\ end[s] = NoEnd
        /\ LET family == {r \in Runs : Alive(r)}
               new == imports \cup {[run |-> imp.run, src |-> s, observed |-> FALSE,
                                     error |-> FALSE]}
           IN IF src[s] = "removed" \/ run[imp.run] # "running"
              THEN UNCHANGED <<src, imports, pins>>
              ELSE /\ src' = [src EXCEPT ![s] = IF @ = "none" THEN "processing" ELSE @]
                   /\ IF imp.seen = "ready"
                      THEN \E promoted \in BOOLEAN :
                              /\ pins' = Attached(s, family, promoted)
                              /\ imports' = Marked(new, s, family, promoted)
                      ELSE imports' = new /\ UNCHANGED pins
    /\ imp' = NoImport
    /\ UNCHANGED <<end, run, due, overlooked>>

-----------------------------------------------------------------------------
(* Source workers: CompleteEvidence, Fail, HoldForReview, exhaustion.      *)

(* The Runs that wait, for Source s among others. *)
Waiting(s) == {r \in Runs : run[r] = "waiting" /\ s \in ScopeSources(r)}

(* The waiting Runs whose other imports are terminal, as this transaction  *)
(* sees them.                                                              *)
Wakes(s) ==
    {r \in Importers(s) \cup (IF Importers(s) = {} THEN {} ELSE {"root"}) :
        /\ run[r] = "waiting" /\ ~due
        /\ \A t \in ScopeSources(r) \ {s} : src[t] \in Terminal \cup {"removed"}}

(* CompleteEvidence holds the promotion lock, so one ends as ready at once.*)
EndReads(s, to) ==
    /\ src[s] = "processing" /\ end[s] = NoEnd
    /\ Cardinality({t \in Sources : end[t] # NoEnd}) < Enders
    /\ to = "ready" => \A t \in Sources : end[t].to # "ready"
    /\ end' = [end EXCEPT ![s] =
          [to |-> to, wakes |-> Wakes(s),
           pins |-> IF to = "ready" /\ Importers(s) # {}
                    THEN {r \in Runs : Alive(r)} ELSE {}]]
    /\ overlooked' = overlooked \cup
          {r \in Waiting(s) : \E t \in ScopeSources(r) \ {s} : end[t] # NoEnd}
    /\ UNCHANGED <<src, imports, imp, run, pins, due>>

EndCommits(s) ==
    /\ end[s] # NoEnd
    /\ src' = [src EXCEPT ![s] = end[s].to]
    /\ run' = [r \in Runs |-> IF r \in end[s].wakes /\ run[r] = "waiting"
                              THEN "queued" ELSE run[r]]
    /\ \E promoted \in BOOLEAN :
          /\ pins' = Attached(s, end[s].pins, promoted)
          /\ imports' = Marked(imports, s, end[s].pins, promoted)
    /\ end' = [end EXCEPT ![s] = NoEnd]
    /\ overlooked' = overlooked \ end[s].wakes
    /\ UNCHANGED <<imp, due>>

(* The transaction is rolled back; another attempt ends the Source. *)
EndAborts(s) ==
    /\ end[s] # NoEnd
    /\ end' = [end EXCEPT ![s] = NoEnd]
    /\ UNCHANGED <<src, imports, imp, run, pins, due, overlooked>>

(* A Member retries a failed Source, or a reviewer approves one. *)
Reopen(s) ==
    /\ src[s] \in {"failed", "review"} /\ end[s] = NoEnd
    /\ src' = [src EXCEPT ![s] = "processing"]
    /\ UNCHANGED <<end, imports, imp, run, pins, due, overlooked>>

(* The imports of a removed Source keep no reference to it. *)
Remove(s) ==
    /\ MayRemove
    /\ src[s] \notin {"none", "removed"} /\ end[s] = NoEnd
    /\ src' = [src EXCEPT ![s] = "removed"]
    /\ overlooked' = overlooked \cup Waiting(s)
    /\ UNCHANGED <<end, imports, imp, run, pins, due>>

-----------------------------------------------------------------------------
(* The Runs. *)

Observed(r) == {IF i \in Scope(r) THEN [i EXCEPT !.observed = TRUE] ELSE i : i \in imports}
Pending(r) == \E s \in ScopeSources(r) : src[s] \notin Terminal \cup {"removed"}
Unobserved(r) == \E i \in Scope(r) : ~i.observed /\ src[i.src] # "removed"

\* Mutant: the Sources are looked at without their locks.
WaitIfPendingUnlocked(r) ==
    /\ run[r] = "running" /\ ~due
    /\ IF Pending(r) \/ Unobserved(r)
       THEN /\ imports' = Observed(r)
            /\ run' = [run EXCEPT ![r] = IF Pending(r) THEN "waiting" ELSE "queued"]
       ELSE run' = [run EXCEPT ![r] = "reported"] /\ UNCHANGED imports
    /\ overlooked' = overlooked \ {r}
    /\ UNCHANGED <<src, end, imp, pins, due>>

(* assemble_research_report: the barrier locks every imported Source and   *)
(* its Job, then the Run waits, or is requeued with what it had not seen,  *)
(* or reports.                                                             *)
WaitIfPending(r) ==
    /\ run[r] = "running" /\ ~due
    /\ \A s \in ScopeSources(r) : end[s] = NoEnd
    /\ IF Pending(r) \/ Unobserved(r)
       THEN /\ imports' = Observed(r)
            /\ run' = [run EXCEPT ![r] = IF Pending(r) THEN "waiting" ELSE "queued"]
       ELSE run' = [run EXCEPT ![r] = "reported"] /\ UNCHANGED imports
    /\ overlooked' = overlooked \ {r}
    /\ UNCHANGED <<src, end, imp, pins, due>>

Claim(r) ==
    /\ run[r] = "queued" /\ ~due
    /\ run' = [run EXCEPT ![r] = "running"]
    /\ UNCHANGED <<src, end, imports, imp, pins, due, overlooked>>

(* spawn_agent copies the pins under the lock of the root, which a         *)
(* transaction that attaches a Source holds until it commits.              *)
Spawn ==
    /\ run["root"] = "running" /\ run["child"] = "none" /\ ~due
    /\ \A s \in Sources : end[s].pins = {}
    /\ run' = [run EXCEPT !["child"] = "running"]
    /\ pins' = [pins EXCEPT !["child"] = pins["root"]]
    /\ UNCHANGED <<src, end, imports, imp, due, overlooked>>

Deadline ==
    /\ ~due /\ due' = TRUE
    /\ UNCHANGED <<src, end, imports, imp, run, pins, overlooked>>

ExpireDeadlines(r) ==
    /\ due /\ Alive(r)
    /\ \A s \in Sources : r \notin end[s].wakes
    /\ run' = [run EXCEPT ![r] = "failed"]
    /\ UNCHANGED <<src, end, imports, imp, pins, due, overlooked>>

-----------------------------------------------------------------------------
Ending(s) == (\E to \in Terminal : EndReads(s, to)) \/ EndCommits(s) \/ EndAborts(s)
Next ==
    \/ \E r \in Runs, s \in Sources : ImportReads(r, s)
    \/ ImportCommits
    \/ \E s \in Sources : Ending(s) \/ Reopen(s) \/ Remove(s)
    \/ \E r \in Runs : WaitIfPending(r) \/ Claim(r) \/ ExpireDeadlines(r)
    \/ Spawn \/ Deadline

Spec == Init /\ [][Next]_vars
(* Time passes, open transactions end, and the worker's sweep expires what *)
(* is overdue.                                                             *)
LiveSpec ==
    /\ Spec
    /\ WF_vars(Deadline)
    /\ \A s \in Sources : WF_vars(EndCommits(s))
    /\ \A r \in Runs : WF_vars(ExpireDeadlines(r))

-----------------------------------------------------------------------------
(* Properties. *)

Quiet == imp = NoImport /\ \A s \in Sources : end[s] = NoEnd

(* Every variable has its type and a Run pins no more than its limit.      *)
(* The rows of research_source_imports.                                    *)
ImportRows == [run : Runs, src : Sources, observed : BOOLEAN, error : BOOLEAN]
TypeOK ==
    /\ src \in [Sources -> Terminal \cup {"none", "processing", "removed"}]
    /\ imports \subseteq ImportRows
    /\ run \in [Runs -> {"none", "queued", "running", "waiting", "reported", "failed"}]
    /\ \A r \in Runs : pins[r] \subseteq Sources /\ Cardinality(pins[r]) <= ScopeLimit
    /\ \A s \in Sources : end[s] # NoEnd => src[s] = "processing"
    /\ overlooked \subseteq Runs

(* A Run that waits has something to wait for: between the look at its     *)
(* Sources and the wait none of them ends unnoticed, and the transaction   *)
(* that ends the last one requeues the Run.                                *)
(* Does not hold when two transactions each end one of the last Sources,   *)
(* see "Disagreements" in the README.                                      *)
NoLostWakeup ==
    \A r \in Runs : run[r] = "waiting" /\ ~due /\ Quiet => Pending(r)

(* The same up to the two ways a wakeup is lost, with any number of        *)
(* transactions that end Sources and with removals: only a Run that met,   *)
(* in this wait, two of its Sources being ended at once or the removal of  *)
(* one (store.go's Remove wakes nobody) waits for nothing.                 *)
WaitsForItsSources ==
    \A r \in Runs :
        run[r] = "waiting" /\ ~due /\ Quiet => Pending(r) \/ r \in overlooked

(* A child sees at least what its root has pinned when scopes have room:   *)
(* neither a Source that becomes ready while the child is spawned nor one  *)
(* imported later is missing in one of the two.                            *)
FamilyShares ==
    Alive("child") /\ Alive("root") => pins["root"] \subseteq pins["child"]

(* Waiting ends, by the last Source or by the deadline. *)
WaitEnds == \A r \in Runs : run[r] = "waiting" ~> run[r] # "waiting"

(* docs/superpowers/specs/2026-08-31-research-pdf-source-persistence-      *)
(* design.md: after Ready, a query retrieves passages of the imported      *)
(* Source.  The import reads the Source's state before it references it; a *)
(* Source that becomes ready in between is attached by neither.            *)
(* Does not hold: see "Disagreements" in the README.                        *)
ReadyIsAttached ==
    Quiet => \A i \in imports :
        src[i.src] = "ready" /\ Alive(i.run) => i.src \in pins[i.run] \/ i.error

=============================================================================
