---------------------------- MODULE ResearchReading ----------------------------
(***************************************************************************)
(* What a research Run has read: read_url of the root, the readers and     *)
(* scouts it starts (internal/agent/read_url_action.go,                    *)
(* research_reader_queue.go, research_scouts.go), the guard against        *)
(* repeated calls (research_action_guard.go), and the Evidence Ledger that *)
(* is written from accepted Results (research_runtime.go) and decides      *)
(* which links of the report are published.                                *)
(*                                                                         *)
(* Several URLs may be one document (research_reader_dedupe.go: an arXiv   *)
(* abstract, its HTML), and a URL may lead to another.                     *)
(***************************************************************************)
EXTENDS Naturals, Sequences, FiniteSets

CONSTANTS Urls,
          Document,       \* researchDocumentKey, by URL
          Final,          \* the URL a fetch ends at, by URL
          Long,           \* URLs of documents beyond researchDelegatedReadMinRune
          Scouts,         \* scouts of the Run
          MaxDecisions, BatchMax,
          MaxActive,      \* runtimeSubagentMaxActive
          MaxTotal,       \* runtimeSubagentMaxTotal
          MaxRecommended, \* researchRecommendedReadMax
          MaxCrashes      \* Attempts of the root and of children that die

\* Of the constants; the MC modules that instantiate this one assume it.
ResearchReadingAssumption ==
    /\ Urls # {} /\ Final \in [Urls -> Urls] /\ DOMAIN Document = Urls /\ Long \subseteq Urls
    /\ {Scouts, MaxDecisions, BatchMax, MaxActive, MaxTotal, MaxRecommended, MaxCrashes} \subseteq Nat
    /\ Scouts < MaxActive /\ MaxActive <= MaxTotal

VARIABLES
    log,        \* decisions of the root, each a sequence of calls with their Results
    started,    \* StartRun has happened
    children,   \* agent_subagents, in the order of creation
    ledger,     \* research_evidence_ledger, by URL
    due,        \* complete decisions the Attempt has not materialized yet
    late,       \* those a dead Attempt may still materialize
    crashes,
    published   \* links of the report, {} before

vars == <<log, started, children, ledger, due, late, crashes, published>>

NoRow == [status |-> "none", final |-> FALSE, recommended |-> FALSE]

Init ==
    /\ log = <<>>
    /\ started = FALSE
    /\ children = <<>>
    /\ ledger = [u \in Urls |-> NoRow]
    /\ due = {}
    /\ late = {}
    /\ crashes = 0
    /\ published = {}

-----------------------------------------------------------------------------
(* The log. *)

Read(u) == [tool |-> "read_url", url |-> u]
Other(tool) == [tool |-> tool, url |-> CHOOSE u \in Urls : TRUE]
Calls == {Read(u) : u \in Urls} \union {Other("web_search"), Other("wait_agent"), Other("record_claim")}

\* done: the tool has run, its Result is not stored.
Entry(call) == [call |-> call, done |-> "none", result |-> "none"]
Now == Len(log)
Complete(d) == \A i \in DOMAIN log[d] : log[d][i].result # "none"
Running == started /\ published = {}

(* researchPausedForAction: what the trailing decisions, two or more, only *)
(* repeated.                                                               *)
OnlyRepeats(d) == \A i \in DOMAIN log[d] : log[d][i].result \in {"duplicate", "paused"}
Trailing(d) == {e \in 1..(d - 1) : \A f \in e..(d - 1) : OnlyRepeats(f)}
Paused(d, tool) ==
    /\ Cardinality(Trailing(d)) >= 2
    /\ \E e \in Trailing(d) : \E i \in DOMAIN log[e] : log[e][i].call.tool = tool

(* repeatedResearchAction: the call is in the log twice, once for itself.  *)
Occurrences(call) ==
    {at \in (1..Now) \X (1..BatchMax) : at[2] \in DOMAIN log[at[1]] /\ log[at[1]][at[2]].call = call}
Repeated(call) == Cardinality(Occurrences(call)) > 1

Outcomes == {"none", "paused", "duplicate", "found", "noted", "failed", "pdf", "text", "delegated",
             "excerpt", "waited"}
Entries == [call : Calls, done : Outcomes, result : Outcomes]
ChildRows == [task : {"reader", "scout"}, url : Urls, by : (0..MaxDecisions) \X (0..(BatchMax + Scouts)),
              status : {"running", "completed", "failed"}, result : {"none", "text", "failed"}, due : BOOLEAN]
LedgerRows == [status : {"none", "discovered", "read", "failed"}, final : BOOLEAN, recommended : BOOLEAN]

(* The log and the tables hold rows of their types.                        *)
TypeOK ==
    /\ \A d \in DOMAIN log : \A i \in DOMAIN log[d] : log[d][i] \in Entries
    /\ \A c \in DOMAIN children : children[c] \in ChildRows
    /\ ledger \in [Urls -> LedgerRows]

-----------------------------------------------------------------------------
(* Children. *)

Child(task, url, by) == [task |-> task, url |-> url, by |-> by, status |-> "running",
                         result |-> "none", due |-> FALSE]
Active(cs) == Cardinality({c \in DOMAIN cs : cs[c].status = "running"})
Free(cs) == Active(cs) < MaxActive /\ Len(cs) < MaxTotal
Readers(cs) == {c \in DOMAIN cs : cs[c].task = "reader"}
Reading(cs) == {Document[cs[c].url] : c \in Readers(cs)}        \* researchReaderDocumentKeysInTx

(* loadResearchQueuedReads: excerpts no reader's task names, one per       *)
(* document, in the order of the log.                                      *)
Excerpts ==
    {at \in (1..Now) \X (1..BatchMax) : at[2] \in DOMAIN log[at[1]] /\ log[at[1]][at[2]].result = "excerpt"}
Named(u, cs) == \E c \in Readers(cs) : cs[c].url \in {u, Final[u]}
UrlAt(x) == log[x[1]][x[2]].call.url
Queued(cs) == {x \in Excerpts : ~Named(UrlAt(x), cs) /\ Document[UrlAt(x)] \notin Reading(cs)}
Sooner(x, y) == x[1] < y[1] \/ (x[1] = y[1] /\ x[2] < y[2])
NextQueued(cs) == CHOOSE x \in Queued(cs) : \A y \in Queued(cs) : ~Sooner(y, x)

(* dispatchQueuedResearchReadsInTx, while slots are free.                  *)
DispatchQueued(cs) ==
    LET more[n \in 0..Cardinality(Excerpts)] ==
          IF n = 0 THEN cs
          ELSE LET now == more[n - 1] IN
               IF Queued(now) = {} \/ ~Free(now) THEN now
               ELSE Append(now, Child("reader", UrlAt(NextQueued(now)), NextQueued(now)))
    IN  more[Cardinality(Excerpts)]

(* dispatchRecommendedResearchReadsInTx: unread leads no URL of whose      *)
(* document was tried or is read, whatever their order.                    *)
Tried == {Document[u] : u \in {u \in Urls : ledger[u].status \in {"read", "failed"}}}
         \union {Document[Final[u]] : u \in {u \in Urls : ledger[u].status \in {"read", "failed"} /\ ledger[u].final}}
Lead(u, cs) == /\ ledger[u].status = "discovered" /\ ledger[u].recommended
               /\ Document[u] \notin Tried \union Reading(cs)
ByRuntime(cs) == {c \in DOMAIN cs : cs[c].by = <<0, 0>> /\ cs[c].task = "reader"}
Recommends(cs) == {u \in Urls : Lead(u, cs) /\ Free(cs) /\ Cardinality(ByRuntime(cs)) < MaxRecommended}
OneRecommended(cs) ==
    IF Recommends(cs) = {} THEN {cs}
    ELSE {Append(cs, Child("reader", u, <<0, 0>>)) : u \in Recommends(cs)}
DispatchRecommended(cs) ==
    LET more[n \in 0..MaxRecommended] ==
          IF n = 0 THEN {cs} ELSE UNION {OneRecommended(now) : now \in more[n - 1]}
    IN  more[MaxRecommended]

(* StartRun, once.                                                         *)
StartRun ==
    /\ ~started
    /\ started' = TRUE
    /\ children' = [s \in 1..Scouts |-> Child("scout", CHOOSE u \in Urls : TRUE, <<0, s>>)]
    /\ UNCHANGED <<log, ledger, due, late, crashes, published>>

-----------------------------------------------------------------------------
(* Decisions and tools. *)

Propose(calls) ==
    /\ Running /\ Now < MaxDecisions
    /\ Now > 0 => Complete(Now)
    /\ due = {}
    /\ log' = Append(log, [i \in DOMAIN calls |-> Entry(calls[i])])
    /\ UNCHANGED <<started, children, ledger, due, late, crashes, published>>

Pending(i) == /\ Running /\ Now > 0 /\ i \in DOMAIN log[Now]
              /\ log[Now][i].result = "none" /\ log[Now][i].done = "none"
              /\ \A j \in 1..(i - 1) : "wait_agent" \in {log[Now][i].call.tool, log[Now][j].call.tool}
                                         => log[Now][j].result # "none"
Ran(i, outcome) == log' = [log EXCEPT ![Now][i].done = outcome]

(* The guard of read_url and web_search.                                   *)
Guarded(i) == log[Now][i].call.tool \in {"read_url", "web_search"}
Refuse(i) ==
    LET call == log[Now][i].call IN
    /\ Pending(i) /\ Guarded(i)
    /\ \/ Paused(Now, call.tool) /\ Ran(i, "paused")
       \/ ~Paused(Now, call.tool) /\ Repeated(call) /\ Ran(i, "duplicate")
    /\ UNCHANGED <<started, children, ledger, due, late, crashes, published>>
Passes(i, tool) == /\ Pending(i) /\ log[Now][i].call.tool = tool
                   /\ ~Paused(Now, tool) /\ ~Repeated(log[Now][i].call)

Search(i) ==
    /\ Passes(i, "web_search")
    /\ Ran(i, "found")
    /\ UNCHANGED <<started, children, ledger, due, late, crashes, published>>

RecordClaim(i) ==
    /\ Pending(i) /\ log[Now][i].call.tool = "record_claim"
    /\ Ran(i, "noted")
    /\ UNCHANGED <<started, children, ledger, due, late, crashes, published>>

FetchFails(i) ==
    /\ Passes(i, "read_url")
    /\ \E outcome \in {"failed", "pdf"} : Ran(i, outcome)
    /\ UNCHANGED <<started, children, ledger, due, late, crashes, published>>

Fetch(i) ==
    /\ Passes(i, "read_url") /\ log[Now][i].call.url \notin Long
    /\ Ran(i, "text")
    /\ UNCHANGED <<started, children, ledger, due, late, crashes, published>>

(* delegateLongRead: the document has a reader, this call's or another's,  *)
(* gets one, or the root sees an excerpt.                                  *)
Delegate(i) ==
    LET u == log[Now][i].call.url IN
    /\ Passes(i, "read_url") /\ u \in Long
    /\ \/ /\ Document[u] \in Reading(children)
          /\ Ran(i, "delegated")
          /\ UNCHANGED children
       \/ /\ Document[u] \notin Reading(children) /\ Free(children)
          /\ children' = Append(children, Child("reader", u, <<Now, i>>))
          /\ Ran(i, "delegated")
       \/ /\ Document[u] \notin Reading(children) /\ ~Free(children)
          /\ Ran(i, "excerpt")
          /\ UNCHANGED children
    /\ UNCHANGED <<started, ledger, due, late, crashes, published>>

(* wait_agent starts readers of the queue, then of the leads; it returns,  *)
(* or yields and runs again.                                               *)
WaitAgent(i) ==
    /\ Pending(i) /\ log[Now][i].call.tool = "wait_agent" /\ children # <<>>
    /\ children' \in DispatchRecommended(DispatchQueued(children))
    /\ Ran(i, "waited") \/ (UNCHANGED log /\ children' # children)
    /\ UNCHANGED <<started, ledger, due, late, crashes, published>>

(* AppendCheckpoint; with the last Result of a decision its evidence is    *)
(* due.                                                                    *)
AppendCheckpoint(i) ==
    /\ Running /\ Now > 0 /\ i \in DOMAIN log[Now]
    /\ log[Now][i].result = "none" /\ log[Now][i].done # "none"
    /\ log' = [log EXCEPT ![Now][i].result = log[Now][i].done]
    /\ due' = IF \A j \in DOMAIN log[Now] \ {i} : log[Now][j].result # "none" THEN {Now} ELSE {}
    /\ UNCHANGED <<started, children, ledger, late, crashes, published>>

(* The Attempt dies, or only loses its lease; what it was about to write   *)
(* may still be written.                                                   *)
Crash ==
    /\ Running /\ crashes < MaxCrashes
    /\ crashes' = crashes + 1
    /\ log' = IF Now = 0 THEN log
              ELSE [log EXCEPT ![Now] = [i \in DOMAIN log[Now] |-> [log[Now][i] EXCEPT !.done = log[Now][i].result]]]
    /\ due' = {}
    /\ \E stays \in SUBSET due : late' = late \union stays
    /\ UNCHANGED <<started, children, ledger, published>>

-----------------------------------------------------------------------------
(* The ledger. *)

(* materializeResearchEvidence of a Result; the cache may have lost the    *)
(* text, and with it the final URL.                                        *)
\* Mutant: a read that fails is recorded as such, whoever read the URL before.
RowDowngraded(row, result, cached) ==
    [row EXCEPT !.status = CASE result = "text" -> "read" [] result = "excerpt" -> "read"
                             [] result = "failed" -> "failed" [] OTHER -> IF row.status = "read" THEN "read" ELSE "discovered",
                !.final = IF result \in {"text", "excerpt"} /\ ~cached THEN row.final
                          ELSE row.final \/ result # "failed"]
Row(row, result, cached) ==
    CASE result \in {"text", "excerpt"} -> [row EXCEPT !.status = "read", !.final = row.final \/ cached]
      [] result = "failed" -> [row EXCEPT !.status = IF row.status = "read" THEN "read" ELSE "failed"]
      [] result = "pdf" -> [row EXCEPT !.status = IF row.status = "read" THEN "read" ELSE "discovered", !.final = TRUE]
      [] result = "delegated" -> [row EXCEPT !.status = IF row.status = "none" THEN "discovered" ELSE row.status,
                                             !.final = TRUE]
      [] OTHER -> row
Discovered(row) == [row EXCEPT !.status = IF row.status = "read" THEN "read" ELSE "discovered"]

(* A duplicate or paused read is a failed one to the ledger.               *)
Evidence(result) == IF result \in {"duplicate", "paused"} THEN "failed" ELSE result
Recorded(rows, entry, cached) ==
    LET result == Evidence(entry.result) IN
    CASE entry.call.tool = "read_url" -> [rows EXCEPT ![entry.call.url] = Row(@, result, cached)]
      [] entry.call.tool = "web_search" /\ entry.result = "found" -> [u \in Urls |-> Discovered(rows[u])]
      [] OTHER -> rows
Materialized(d, cached) ==
    LET rows[i \in 0..Len(log[d])] ==
          IF i = 0 THEN ledger ELSE Recorded(rows[i - 1], log[d][i], cached)
    IN  rows[Len(log[d])]

Materialize(d, cached) ==
    /\ d \in due \union late
    /\ ledger' = IF Running THEN Materialized(d, cached) ELSE ledger
    /\ due' = due \ {d} /\ late' = late \ {d}
    /\ UNCHANGED <<log, started, children, crashes, published>>

-----------------------------------------------------------------------------
(* A reader reads its document; a scout recommends. *)

ChildIs(c, task) == Running /\ children[c].status = "running" /\ children[c].task = task /\ ~children[c].due

ChildReads(c, result) ==
    /\ ChildIs(c, "reader") /\ children[c].result = "none"
    /\ children' = [children EXCEPT ![c].result = result, ![c].due = TRUE]
    /\ UNCHANGED <<log, started, ledger, due, late, crashes, published>>

ChildMaterializes(c, cached) ==
    /\ Running /\ children[c].due
    /\ children' = [children EXCEPT ![c].due = FALSE]
    /\ ledger' = [ledger EXCEPT ![children[c].url] = Row(@, children[c].result, cached)]
    /\ UNCHANGED <<log, started, due, late, crashes, published>>

ChildCrashes(c) ==
    /\ Running /\ children[c].due /\ crashes < MaxCrashes
    /\ crashes' = crashes + 1
    /\ children' = [children EXCEPT ![c].due = FALSE]
    /\ UNCHANGED <<log, started, ledger, due, late, published>>

(* publishRuntimeSubagentFinal with recordResearchSubagentLeadsInTx; a     *)
(* reader has recorded a card.                                             *)
Recommended(row) == [row EXCEPT !.status = IF row.status = "none" THEN "discovered" ELSE row.status,
                                !.recommended = TRUE]
ChildCompletes(c, leads) ==
    /\ \E task \in {"reader", "scout"} : ChildIs(c, task)
    /\ children[c].task = "reader" => children[c].result = "text"
    /\ children' = [children EXCEPT ![c].status = "completed"]
    /\ ledger' = [u \in Urls |-> IF u \in leads THEN Recommended(ledger[u]) ELSE ledger[u]]
    /\ UNCHANGED <<log, started, due, late, crashes, published>>

ChildFails(c) ==
    /\ \E task \in {"reader", "scout"} : ChildIs(c, task)
    /\ children' = [children EXCEPT ![c].status = "failed"]
    /\ UNCHANGED <<log, started, ledger, due, late, crashes, published>>

-----------------------------------------------------------------------------
(* sanitizeResearchReportLinks: links that are not of a read row become    *)
(* text.                                                                   *)
Eligible == LET read == {u \in Urls : ledger[u].status = "read"} IN
            read \union {Final[u] : u \in {u \in read : ledger[u].final}}
PublishFinal ==
    /\ Running /\ Now > 0 /\ Complete(Now) /\ due = {}
    /\ \E links \in SUBSET Urls :
          /\ links \intersect Eligible # {}
          /\ published' = links \intersect Eligible
    /\ UNCHANGED <<log, started, children, ledger, due, late, crashes>>

Batches == UNION {[1..n -> Calls] : n \in 1..BatchMax}

Next ==
    \/ StartRun
    \/ \E calls \in Batches : Propose(calls)
    \/ \E i \in 1..BatchMax :
          \/ Refuse(i)
          \/ Search(i)
          \/ RecordClaim(i)
          \/ FetchFails(i)
          \/ Fetch(i)
          \/ Delegate(i)
          \/ WaitAgent(i)
          \/ AppendCheckpoint(i)
    \/ Crash
    \/ \E d \in 1..MaxDecisions, cached \in BOOLEAN : Materialize(d, cached)
    \/ \E c \in DOMAIN children :
          \/ \E result \in {"text", "failed"} : ChildReads(c, result)
          \/ \E cached \in BOOLEAN : ChildMaterializes(c, cached)
          \/ ChildCrashes(c)
          \/ \E leads \in SUBSET Urls : ChildCompletes(c, leads)
          \/ ChildFails(c)
    \/ PublishFinal

Spec == Init /\ [][Next]_vars

-----------------------------------------------------------------------------
(* One document gets one reader, whatever URL it is met under and whoever  *)
(* starts the reader: a read, the queue, or the leads, in whatever order.  *)
OneReaderPerDocument ==
    \A c, e \in Readers(children) : Document[children[c].url] = Document[children[e].url] => c = e

(* A link is published only of a page somebody was shown text of, and      *)
(* whose URL or final URL it is.                                           *)
Shown == {log[x[1]][x[2]].call.url : x \in {x \in (1..Now) \X (1..BatchMax) :
                x[2] \in DOMAIN log[x[1]] /\ log[x[1]][x[2]].result \in {"text", "excerpt"}}}
         \union {children[c].url : c \in {c \in Readers(children) : children[c].result = "text"}}
LinksWereRead == published \subseteq Shown \union {Final[u] : u \in Shown}

(* As long as no Attempt dies, every page that was shown is read in the    *)
(* ledger once its decision is recorded, whatever failed, was searched or  *)
(* recommended before and after.                                           *)
LedgerTellsReads ==
    (crashes = 0 /\ due = {} /\ (Now > 0 => Complete(Now)) /\ \A c \in DOMAIN children : ~children[c].due)
        => \A u \in Shown : ledger[u].status = "read"

(* What a duplicate is told: an identical call ran before.  It does not    *)
(* hold: one that was refused as paused, or its twin of the same batch,    *)
(* counts as well.                                                         *)
(* Does not hold: see "Disagreements" in the README.                        *)
RefusedOnlyIfRan ==
    \A x \in (1..Now) \X (1..BatchMax) :
       (x[2] \in DOMAIN log[x[1]] /\ log[x[1]][x[2]].result = "duplicate") =>
          \E y \in Occurrences(log[x[1]][x[2]].call) :
             Sooner(y, x) /\ log[y[1]][y[2]].result \notin {"duplicate", "paused", "none"}

=============================================================================
