------------------------------- MODULE Studio -------------------------------
(***************************************************************************)
(* Studio Outputs (internal/studio, internal/app/studio_routes, the Studio *)
(* Executor of internal/agent): a Member who maintains the Sources of a    *)
(* Notebook asks for a report, flashcards, a mind map or a data table of   *)
(* some of them; a Run pinned to these Sources generates it, and its       *)
(* publication validates the artifact and completes Output, Run and Job.   *)
(*                                                                         *)
(* One Notebook.  Every request and every statement of the worker that is  *)
(* a transaction is one step; what a worker learnt in one and uses in the  *)
(* next is the state of its Attempt.  An Output and its Run share a slot.  *)
(***************************************************************************)
EXTENDS Naturals, Sequences, FiniteSets
LOCAL INSTANCE Graphs

CONSTANTS Users, Sources,
          Requests,      \* what is asked for: kind and Sources
          Keys,          \* idempotency keys of the clients
          Drafts,        \* artifacts the model may generate
          Least, Most,   \* elements of an artifact, by kind
          MaxDepth,      \* of a mind map, 4 in the code
          MaxRefs,       \* references of one element, 8 in the code
          LocksOutput,   \* whether the FOR UPDATE of Delete sees the row
          Outputs, MaxAttempts, MaxVersions, Changes  \* bounds

\* Of the constants; the MC modules that instantiate this one assume it.
StudioAssumption ==
    /\ {MaxDepth, MaxRefs, MaxAttempts, MaxVersions, Changes} \subseteq Nat
    /\ LocksOutput \in BOOLEAN /\ Outputs \subseteq Nat
    /\ \A q \in Requests : q.sources \subseteq Sources /\ q.sources # {}

VARIABLES
    role,     \* notebook_memberships
    source,   \* source_sources.state: processing, ready or gone
    index,    \* the active retrieval_index_versions row
    output,   \* studio_outputs
    run,      \* the root Run of an Output with its Job
    pins,     \* agent_run_evidence_set
    prefix,   \* agent_run_checkpoints: nothing, the search, the Final Draft
    attempt,  \* what each Attempt of a Run is about to do
    changes

vars == <<role, source, index, output, run, pins, prefix, attempt, changes>>
notebook == <<role, source, index, changes>>

Attempts == 1..MaxAttempts
NoDraft == [kind |-> "none", items |-> <<>>, columns |-> <<>>, fits |-> TRUE]
NoRequest == [kind |-> "none", sources |-> {}]
NoOutput == [live |-> FALSE, by |-> "none", key |-> 0, asked |-> NoRequest, status |-> "none", artifact |-> NoDraft]
NoRun == [status |-> "none", attempt |-> 0, lapsed |-> FALSE, overdue |-> FALSE, code |-> "none"]
Reads(u) == role[u] # "none"
Maintains(u) == role[u] \in {"owner", "editor"}
Active(o) == run[o].status \in {"queued", "running"}

Init ==
    /\ role = [u \in Users |-> "editor"]
    /\ source \in [Sources -> {"processing", "ready"}]
    /\ index = 1 /\ changes = 0
    /\ output = [o \in Outputs |-> NoOutput] /\ run = [o \in Outputs |-> NoRun]
    /\ pins = [o \in Outputs |-> {}] /\ prefix = [o \in Outputs |-> <<>>]
    /\ attempt = [o \in Outputs |-> [a \in Attempts |-> "none"]]

-----------------------------------------------------------------------------
(* Artifacts.  An element of one has an id of some JSON type, a parent and *)
(* a label (mind map), cells (data table) and references to Sources.       *)

Text(v) == [type |-> "text", value |-> v]
NoId == [type |-> "none", value |-> 0]

(* What NormalizeGeneratedArtifact repairs; anything it does not expect    *)
(* leaves the whole payload as it was.                                     *)
Repaired(kind, item, n) ==
    CASE kind = "flashcards" /\ item.id.type = "number" -> [item EXCEPT !.id.type = "text"]
      [] kind = "mind_map" -> [item EXCEPT !.label = IF @ \in {"text", "both"} THEN "label" ELSE @]
      [] kind = "data_table" /\ item.id = NoId -> [item EXCEPT !.id = Text(n)]
      [] OTHER -> item
Repairable(kind, item) ==
    /\ kind = "flashcards" => item.id.type # "fraction"
    /\ kind = "mind_map" => item.label # "none"
Normalized(d) ==
    IF \A n \in DOMAIN d.items : Repairable(d.kind, d.items[n])
    THEN [d EXCEPT !.items = [n \in DOMAIN d.items |-> Repaired(d.kind, d.items[n], n)]]
    ELSE d

Distinct(seq) == \A m, n \in DOMAIN seq : seq[m] = seq[n] => m = n
ValidReferences(refs, pinned) ==
    /\ Len(refs) \in 1..MaxRefs /\ Distinct(refs)
    /\ \A n \in DOMAIN refs : refs[n] \in pinned

Parents(items, n) == {m \in DOMAIN items : items[m].id = items[n].parent}
(* From every node the parents lead to the root in at most MaxDepth steps; *)
(* a cycle is refused when it closes, or when it has used up the depth.    *)
Climbs(items) ==
    LET climb[depth \in 0..MaxDepth, n \in DOMAIN items] ==
            \/ items[n].parent = NoId
            \/ depth > 0 /\ \E m \in Parents(items, n) : climb[depth - 1, m]
    IN \A n \in DOMAIN items : climb[MaxDepth, n]
ValidMindMap(items) ==
    /\ Cardinality({n \in DOMAIN items : items[n].parent = NoId}) = 1
    /\ \A n \in DOMAIN items : items[n].label = "label"
    /\ Climbs(items)

ValidDataTable(d) ==
    /\ Len(d.columns) \in 2..12 /\ Distinct(d.columns)
    /\ \A n \in DOMAIN d.items : d.items[n].cells = Len(d.columns)

(* Strict decoding wants the ids to be strings, the validators want them   *)
(* distinct and not empty.                                                 *)
ValidArtifact(kind, d, pinned) ==
    /\ pinned # {} /\ d.kind = kind
    /\ Len(d.items) \in Least[kind]..Most[kind]
    /\ \A n \in DOMAIN d.items : d.items[n].id.type = "text" /\ ValidReferences(d.items[n].refs, pinned)
    /\ Distinct([n \in DOMAIN d.items |-> d.items[n].id])
    /\ kind = "mind_map" => ValidMindMap(d.items)
    /\ kind = "data_table" => ValidDataTable(d)

-----------------------------------------------------------------------------
(* Requests of the Members. *)

(* The trigger on agent_runs mirrors its status into the Output.           *)
Mirrored(o, status) == IF output[o].live THEN [output EXCEPT ![o].status = status] ELSE output

(* PinEvidenceSet: every Source ready and verified in the active index     *)
(* version (promotion sees to it that the ready ones are).                 *)
Pinnable(sources) == \A s \in sources : source[s] = "ready"
Pinned(sources) == {[source |-> s, index |-> index] : s \in sources}

Holder(u, k) == {o \in Outputs : output[o].live /\ output[o].by = u /\ output[o].key = k}
(* A key that is known answers with its Output, or with 409 when it asked  *)
(* for something else; both leave everything as it is.                     *)
Fresh(u, k) == Holder(u, k) = {}
Free == {o \in Outputs : run[o] = NoRun}
CreateOutput(u, k, q) ==
    /\ Maintains(u) /\ Fresh(u, k) /\ Pinnable(q.sources) /\ Free # {}
    /\ LET o == CHOOSE f \in Free : \A g \in Free : f <= g
       IN /\ output' = [output EXCEPT ![o] = [live |-> TRUE, by |-> u, key |-> k, asked |-> q,
                                                status |-> "queued", artifact |-> NoDraft]]
          /\ run' = [run EXCEPT ![o] = [NoRun EXCEPT !.status = "queued"]]
          /\ pins' = [pins EXCEPT ![o] = Pinned(q.sources)]
    /\ UNCHANGED <<notebook, prefix, attempt>>

(* The row that FOR UPDATE returns decides which Run and Job the statement *)
(* cancels.  The schema gives nano_app no UPDATE policy on studio_outputs, *)
(* so it returns none, and the Run of a deleted Output goes on.            *)
Locked(o) == IF LocksOutput THEN {o} ELSE {}
DeleteOutput(u, o) ==
    /\ output[o].live /\ Maintains(u)
    /\ output' = [output EXCEPT ![o] = NoOutput]
    /\ run' = [r \in Outputs |-> IF r \in Locked(o) /\ Active(r) THEN [run[r] EXCEPT !.status = "cancelled"] ELSE run[r]]
    /\ UNCHANGED <<notebook, pins, prefix, attempt>>

-----------------------------------------------------------------------------
(* The Notebook changes under the Run. *)

Change == changes < Changes /\ changes' = changes + 1 /\ UNCHANGED <<output, run, pins, prefix, attempt>>
ChangeRole(u, r) == Change /\ role' = [role EXCEPT ![u] = r] /\ role' # role /\ UNCHANGED <<source, index>>
SourceReady(s) ==
    /\ Change /\ source[s] = "processing" /\ source' = [source EXCEPT ![s] = "ready"]
    /\ UNCHANGED <<role, index>>
SourceRemoved(s) ==
    /\ Change /\ source[s] # "gone" /\ source' = [source EXCEPT ![s] = "gone"]
    /\ UNCHANGED <<role, index>>
Promote == Change /\ index < MaxVersions /\ index' = index + 1 /\ UNCHANGED <<role, source>>

-----------------------------------------------------------------------------
(* The Job and the Attempts of a Run. *)

EndRun(o, status, code) ==
    /\ run' = [run EXCEPT ![o].status = status, ![o].code = code]
    /\ output' = Mirrored(o, status)

Claim(o) ==
    /\ run[o].status = "queued" \/ (run[o].status = "running" /\ run[o].lapsed)
    /\ ~run[o].overdue /\ run[o].attempt < MaxAttempts
    /\ run' = [run EXCEPT ![o].status = "running", ![o].attempt = @ + 1, ![o].lapsed = FALSE]
    /\ output' = Mirrored(o, "running")
    /\ attempt' = [attempt EXCEPT ![o][run[o].attempt + 1] = "load"]
    /\ UNCHANGED <<notebook, pins, prefix>>
(* The worker crashes or is too slow; it may wake up again.                *)
LeaseLapses(o) ==
    /\ run[o].status = "running" /\ ~run[o].lapsed
    /\ run' = [run EXCEPT ![o].lapsed = TRUE]
    /\ UNCHANGED <<notebook, output, pins, prefix, attempt>>
DeadlinePasses(o) ==
    /\ Active(o) /\ ~run[o].overdue
    /\ run' = [run EXCEPT ![o].overdue = TRUE]
    /\ UNCHANGED <<notebook, output, pins, prefix, attempt>>
(* Claim and the pollers end what is overdue or out of Attempts.           *)
Ends(o) ==
    /\ Active(o)
    /\ run[o].overdue \/ (run[o].lapsed /\ run[o].attempt = MaxAttempts)
    /\ EndRun(o, "failed", "other")
    /\ UNCHANGED <<notebook, pins, prefix, attempt>>

HoldsLease(o, a) == run[o].status = "running" /\ run[o].attempt = a /\ ~run[o].lapsed
(* lockCheckpointAuthority: the Output is there and its creator a Member.  *)
Authorized(o) == output[o].live /\ Reads(output[o].by)
Authority(o, a) == HoldsLease(o, a) /\ ~run[o].overdue /\ Authorized(o)

Goes(o, a, where) == attempt' = [attempt EXCEPT ![o][a] = where]
(* An Attempt without its lease leaves the Run alone, any other error ends *)
(* the Run.                                                                *)
Abandons(o, a) == ~HoldsLease(o, a) /\ Goes(o, a, "gone") /\ UNCHANGED <<run, output>>
Fails(o, a, code) == HoldsLease(o, a) /\ Goes(o, a, "gone") /\ EndRun(o, "failed", code)
Refused(o, a) == ~Authority(o, a) /\ (Abandons(o, a) \/ Fails(o, a, "other"))

(* Load: an Output that is gone looks like a lease that is lost.           *)
Load(o, a) ==
    /\ attempt[o][a] = "load"
    /\ \/ Authority(o, a) /\ Goes(o, a, "work") /\ UNCHANGED <<run, output>>
       \/ ~(HoldsLease(o, a) /\ output[o].live) /\ Goes(o, a, "gone") /\ UNCHANGED <<run, output>>
       \/ ~Authority(o, a) /\ output[o].live /\ Fails(o, a, "other")
    /\ UNCHANGED <<notebook, pins, prefix>>

(* One search, then one Final Draft, each a Checkpoint that the next       *)
(* Attempt goes on from; what fits neither ends the Run.                   *)
Search(o, a) ==
    /\ attempt[o][a] = "work" /\ prefix[o] = <<>>
    /\ \/ Authority(o, a) /\ prefix' = [prefix EXCEPT ![o] = <<NoDraft>>] /\ UNCHANGED <<run, output, attempt>>
       \/ Refused(o, a) /\ UNCHANGED prefix
    /\ UNCHANGED <<notebook, pins>>
Generate(o, a) ==
    /\ attempt[o][a] = "work" /\ Len(prefix[o]) = 1
    /\ \/ /\ Authority(o, a)
          /\ \E d \in Drafts : prefix' = [prefix EXCEPT ![o] = Append(@, d)]
          /\ UNCHANGED <<run, output, attempt>>
       \/ Refused(o, a) /\ UNCHANGED prefix
    /\ UNCHANGED <<notebook, pins>>
(* The model fails for good; an outage gives the Job back instead.         *)
ModelFails(o, a) ==
    /\ attempt[o][a] = "work" /\ Len(prefix[o]) < 2
    /\ Abandons(o, a) \/ Fails(o, a, "other")
    /\ UNCHANGED <<notebook, pins, prefix>>
Retry(o, a) ==
    /\ attempt[o][a] = "work" /\ Len(prefix[o]) < 2 /\ HoldsLease(o, a)
    /\ run[o].attempt < MaxAttempts
    /\ run' = [run EXCEPT ![o].status = "queued"] /\ output' = Mirrored(o, "queued")
    /\ Goes(o, a, "gone")
    /\ UNCHANGED <<notebook, pins, prefix>>

\* Mutant: the Sources pinned at admission are those of publication.
PublishableAlways(o) == pins[o]
(* The pinned Sources that still are what was pinned.                      *)
Publishable(o) == {p \in pins[o] : source[p.source] = "ready" /\ p.index = index}
Draft(o) == Normalized(prefix[o][2])
Accepts(o) == ValidArtifact(output[o].asked.kind, Draft(o), {p.source : p \in Publishable(o)})
PublishFinal(o, a) ==
    /\ attempt[o][a] = "work" /\ Len(prefix[o]) = 2
    /\ \/ Refused(o, a)
       \/ Authority(o, a) /\ Publishable(o) # pins[o] /\ Fails(o, a, "snapshot")
       \/ Authority(o, a) /\ Publishable(o) = pins[o] /\ ~Accepts(o) /\ Fails(o, a, "artifact")
       \/ Authority(o, a) /\ Publishable(o) = pins[o] /\ Accepts(o) /\ ~Draft(o).fits /\ Fails(o, a, "other")
       \/ /\ Authority(o, a) /\ Publishable(o) = pins[o] /\ Accepts(o) /\ Draft(o).fits
          /\ run' = [run EXCEPT ![o].status = "completed"]
          /\ output' = [output EXCEPT ![o].status = "completed", ![o].artifact = Draft(o)]
          /\ Goes(o, a, "gone")
    /\ UNCHANGED <<notebook, pins, prefix>>

Member(u) ==
    \/ \E k \in Keys, q \in Requests : CreateOutput(u, k, q)
    \/ \E o \in Outputs : DeleteOutput(u, o)
    \/ \E r \in {"none", "viewer"} : ChangeRole(u, r)
Executes(o, a) ==
    Load(o, a) \/ Search(o, a) \/ Generate(o, a) \/ ModelFails(o, a) \/ Retry(o, a) \/ PublishFinal(o, a)
Next ==
    \/ \E u \in Users : Member(u)
    \/ \E s \in Sources : SourceReady(s) \/ SourceRemoved(s)
    \/ Promote
    \/ \E o \in Outputs : Claim(o) \/ LeaseLapses(o) \/ DeadlinePasses(o) \/ Ends(o)
    \/ \E o \in Outputs, a \in Attempts : Executes(o, a)

Spec == Init /\ [][Next]_vars

-----------------------------------------------------------------------------
TypeOK ==
    /\ role \in [Users -> {"owner", "editor", "viewer", "none"}]
    /\ source \in [Sources -> {"processing", "ready", "gone"}]
    /\ index \in 1..MaxVersions /\ changes \in 0..Changes
    /\ \A o \in Outputs :
          /\ output[o].live => output[o].by \in Users /\ output[o].asked \in Requests
          /\ run[o].status \in {"none", "queued", "running", "completed", "failed", "cancelled"}
          /\ run[o].attempt \in 0..MaxAttempts
          /\ pins[o] \subseteq [source : Sources, index : 1..MaxVersions]
          /\ Len(prefix[o]) \in 0..2
          /\ attempt[o] \in [Attempts -> {"none", "load", "work", "gone"}]

(* An Output shows the status of its Run, and an artifact exactly when it  *)
(* is completed.                                                           *)
OutputMirrorsRun ==
    \A o \in Outputs : output[o].live =>
        /\ output[o].status = run[o].status
        /\ (output[o].artifact # NoDraft) = (run[o].status = "completed")

(* A repeated request never makes a second Output while the first exists.  *)
OneOutputPerKey ==
    \A o, p \in Outputs :
        output[o].live /\ output[p].live /\ output[o].by = output[p].by /\ output[o].key = output[p].key => o = p

(* The mind map a Member opens is a tree: one root, above every other node *)
(* at no more than MaxDepth levels, and no node above itself.              *)
Tree(items) == [node |-> DOMAIN items, edge |-> UNION {{<<n, m>> : m \in Parents(items, n)} : n \in DOMAIN items}]
IsMindMap(items) ==
    \E root \in DOMAIN items :
        /\ items[root].parent = NoId
        /\ \A n \in DOMAIN items \ {root} :
              LET above == Descendants(Tree(items), n)
              IN root \in above /\ n \notin above /\ Cardinality(above) <= MaxDepth
(* What is published has the kind that was asked for, refers to nothing    *)
(* but its pinned Sources, and is a tree when it is a mind map.            *)
PublishedIsWellFormed ==
    \A o \in Outputs : output[o].live /\ run[o].status = "completed" =>
        LET d == output[o].artifact
        IN /\ d.kind = output[o].asked.kind
           /\ \A n \in DOMAIN d.items : {d.items[n].refs[m] : m \in DOMAIN d.items[n].refs} \subseteq output[o].asked.sources
           /\ d.kind = "mind_map" => IsMindMap(d.items)
(* And no tree of that depth is refused for its shape.                     *)
TreesAreAccepted ==
    \A o \in Outputs : Len(prefix[o]) = 2 /\ prefix[o][2].kind = "mind_map" =>
        LET items == Draft(o).items
        IN Distinct([n \in DOMAIN items |-> items[n].id]) /\ IsMindMap(items) => Climbs(items)

(* A Run completes only while its creator is a Member, its Output exists   *)
(* and every Source it was asked to use is still ready, whatever happened  *)
(* between the steps of the Attempt that completes it.                     *)
PublishedWithAuthority ==
    [][\A o \in DOMAIN run : run[o].status # "completed" /\ run'[o].status = "completed" =>
          /\ output'[o].live /\ role'[output'[o].by] # "none"
          /\ \A s \in output'[o].asked.sources : source'[s] = "ready"]_vars

=============================================================================
