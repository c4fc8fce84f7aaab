----------------------------- MODULE UrlImports -----------------------------
(***************************************************************************)
(* Web pages that become Sources of one Notebook: URL admissions under     *)
(* idempotency keys (BeginURLAdmission, FinalizeURLAdmission,              *)
(* FailURLAdmission of internal/source/store.go), the request handlers     *)
(* that carry them out (importURLSource), and the import of the candidates *)
(* of a Source Discovery session, which adds two transactions around an    *)
(* admission (importDiscoveryCandidate).                                   *)
(*                                                                         *)
(* A request is "direct" or the import of the session under one of its     *)
(* keys; the admission of a page by a request, and the Source it reserves, *)
(* are named by the request and the page.  A page may redirect.            *)
(***************************************************************************)
EXTENDS Naturals, FiniteSets

CONSTANTS Pages,         \* request URLs; each is the URL of a candidate
          Requests,      \* idempotency keys of session imports
          Handlers,      \* goroutines at work at once
          Final,         \* where a page's redirects end
          Limit,         \* Sources of a Notebook: 50
          Cuts,          \* whether clients disconnect and servers stop
          Removals       \* whether Members remove Sources

\* Of the constants; the MC modules that instantiate this one assume it.
UrlImportsAssumption ==
    /\ Final \in [Pages -> Pages] /\ \A p \in Pages : Final[Final[p]] = Final[p]
    /\ Limit \in Nat \ {0} /\ {Cuts, Removals} \subseteq BOOLEAN
    /\ "direct" \notin Requests

Ids == (Requests \cup {"direct"}) \X Pages
Page(i) == i[2]
Direct(i) == i[1] = "direct"

VARIABLES
    adm,       \* source_url_admissions: state, and the Source of a completed one
    sources,   \* source_sources of the Notebook: id, page, final page
    state,     \* "processing", "ready" or "failed" for each Source
    objects,   \* original objects, by the Source they were written for
    cand,      \* source_discovery_candidates by page
    chat,      \* the originating Chat selects these Sources
    h          \* request handlers, one goroutine for an admission

vars == <<adm, sources, state, objects, cand, chat, h>>

NoAdm == [state |-> "none", src |-> {}]
Idle == [id |-> <<"none", "none">>, pc |-> "idle"]
At(i, pc) == IF pc = "idle" THEN Idle ELSE [id |-> i, pc |-> pc]
Discovered == [status |-> "discovered", selected |-> TRUE, src |-> {}]
SourceIds == {s.id : s \in sources}
WithFinal(p) == {s.id : s \in {t \in sources : t.final = p}}
WithUrl(p) == {s.id : s \in {t \in sources : t.page = p \/ t.final = p}}

Init ==
    /\ adm = [i \in Ids |-> NoAdm]
    /\ sources = {} /\ objects = {} /\ chat = {}
    /\ state = [i \in Ids |-> "none"]
    /\ cand = [p \in Pages |-> [Discovered EXCEPT !.status = "absent"]]
    /\ h = [x \in Handlers |-> Idle]

-----------------------------------------------------------------------------
(* The candidates of the session. *)

(* insertCandidates: a page that is a Source already is imported.          *)
CompleteSearch ==
    /\ \A p \in Pages : cand[p].status = "absent"
    /\ cand' = [p \in Pages |->
          IF WithUrl(p) = {} THEN Discovered
          ELSE [status |-> "imported", selected |-> FALSE, src |-> {CHOOSE i \in WithUrl(p) : TRUE}]]
    /\ UNCHANGED <<adm, sources, state, objects, chat, h>>

ReplaceSelection(ps) ==
    /\ \A p \in ps : cand[p].status = "discovered"
    /\ cand' = [p \in Pages |-> [cand[p] EXCEPT !.selected = p \in ps]]
    /\ UNCHANGED <<adm, sources, state, objects, chat, h>>

-----------------------------------------------------------------------------
(* A request handler, transaction by transaction. *)

(* A direct import starts at its admission.                                *)
Start(x, i) ==
    /\ h[x] = Idle /\ Direct(i)
    /\ h' = [h EXCEPT ![x] = At(i, "admit")]
    /\ UNCHANGED <<adm, sources, state, objects, cand, chat>>

\* Mutant: any selected candidate may be imported.
BeginCandidateImportAny(x, i) ==
    /\ h[x] = Idle /\ ~Direct(i)
    /\ cand[Page(i)].selected /\ cand[Page(i)].status \in {"discovered", "importing"}
    /\ cand' = [cand EXCEPT ![Page(i)].status = "importing"]
    /\ h' = [h EXCEPT ![x] = At(i, "admit")]
    /\ UNCHANGED <<adm, sources, state, objects, chat>>
BeginCandidateImport(x, i) ==
    /\ h[x] = Idle /\ ~Direct(i)
    /\ cand[Page(i)].selected /\ cand[Page(i)].status = "discovered"
    /\ cand' = [cand EXCEPT ![Page(i)].status = "importing"]
    /\ h' = [h EXCEPT ![x] = At(i, "admit")]
    /\ UNCHANGED <<adm, sources, state, objects, chat>>

(* Where a handler goes when its admission has ended. *)
Linked(i) == IF Direct(i) THEN "idle" ELSE "link"
Dropped(i) == IF Direct(i) THEN "idle" ELSE "drop"

Admits(x, i) ==
    /\ h' = [h EXCEPT ![x] = At(i, "fetch")]
    /\ adm' = [adm EXCEPT ![i] = [state |-> "pending", src |-> {i}]]
Reuses(x, i) ==
    /\ adm[i].state = "none" /\ WithUrl(Page(i)) # {}
    /\ h' = [h EXCEPT ![x] = At(i, "lookup")]
    /\ adm' = [adm EXCEPT ![i] =
          [state |-> "completed", src |-> {CHOOSE j \in WithUrl(Page(i)) : TRUE}]]
Replays(x, i) ==
    /\ adm[i].state = "completed"
    /\ h' = [h EXCEPT ![x] = At(i, "lookup")]
    /\ UNCHANGED adm

(* The key decides first: a pending admission is refused as in progress,   *)
(* a completed one is replayed, a failed one starts again.                 *)
BeginURLAdmission(x, i) ==
    /\ h[x] = At(i, "admit")
    /\ \/ adm[i].state = "failed" /\ Admits(x, i)
       \/ adm[i].state = "none" /\ WithUrl(Page(i)) = {} /\ Admits(x, i)
       \/ Reuses(x, i) \/ Replays(x, i)
       \/ /\ adm[i].state = "pending"
          /\ h' = [h EXCEPT ![x] = At(i, Dropped(i))] /\ UNCHANGED adm
    /\ UNCHANGED <<sources, state, objects, cand, chat>>

(* The Source of a reused admission is read in a transaction of its own.   *)
Lookup(x, i) ==
    /\ h[x] = At(i, "lookup")
    /\ h' = [h EXCEPT ![x] = At(i, IF adm[i].src \subseteq SourceIds THEN Linked(i) ELSE Dropped(i))]
    /\ UNCHANGED <<adm, sources, state, objects, cand, chat>>

(* The page is read and its snapshot written, or the admission fails.      *)
Fetch(x, i) ==
    /\ h[x] = At(i, "fetch")
    /\ h' = [h EXCEPT ![x] = At(i, "finalize")] /\ objects' = objects \cup {i}
    /\ UNCHANGED <<adm, sources, state, cand, chat>>
FailURLAdmission(x, i) ==
    /\ h[x] = At(i, "fetch")
    /\ h' = [h EXCEPT ![x] = At(i, Dropped(i))]
    /\ adm' = [adm EXCEPT ![i].state = "failed"]
    /\ UNCHANGED <<sources, state, objects, cand, chat>>

Completed(i, s) == adm' = [adm EXCEPT ![i] = [state |-> "completed", src |-> {s}]]
Creates(x, i) ==
    /\ Cardinality(sources) < Limit
    /\ sources' = sources \cup {[id |-> i, page |-> Page(i), final |-> Final[Page(i)]]}
    /\ state' = [state EXCEPT ![i] = "processing"]
    /\ Completed(i, i)
    /\ h' = [h EXCEPT ![x] = At(i, Linked(i))]

(* A page that another admission has made a Source meanwhile is that       *)
(* Source, and the object written in vain is deleted afterwards.  At the   *)
(* limit nothing is stored and the handler returns.                        *)
FinalizeURLAdmission(x, i) ==
    /\ h[x] = At(i, "finalize")
    /\ \/ /\ adm[i].state = "completed"
          /\ h' = [h EXCEPT ![x] = At(i, "discard")] /\ UNCHANGED <<adm, sources, state>>
       \/ /\ adm[i].state = "pending" /\ WithFinal(Final[Page(i)]) # {}
          /\ Completed(i, CHOOSE j \in WithFinal(Final[Page(i)]) : TRUE)
          /\ h' = [h EXCEPT ![x] = At(i, "discard")] /\ UNCHANGED <<sources, state>>
       \/ adm[i].state = "pending" /\ WithFinal(Final[Page(i)]) = {} /\ Creates(x, i)
       \/ /\ adm[i].state = "pending" /\ WithFinal(Final[Page(i)]) = {}
          /\ Cardinality(sources) >= Limit
          /\ h' = [h EXCEPT ![x] = At(i, Dropped(i))] /\ UNCHANGED <<adm, sources, state>>
    /\ UNCHANGED <<objects, cand, chat>>

Discard(x, i) ==
    /\ h[x] = At(i, "discard")
    /\ objects' = objects \ {i}
    /\ h' = [h EXCEPT ![x] = At(i, Linked(i))]
    /\ UNCHANGED <<adm, sources, state, cand, chat>>

(* The candidate's reference needs its Source: removed meanwhile, the      *)
(* transaction fails.                                                      *)
CompleteCandidateImport(x, i) ==
    /\ h[x] = At(i, "link")
    /\ h' = [h EXCEPT ![x] = At(i, "idle")]
    /\ cand' = IF cand[Page(i)].status = "importing" /\ adm[i].src \subseteq SourceIds
               THEN [cand EXCEPT ![Page(i)].status = "imported", ![Page(i)].src = adm[i].src]
               ELSE cand
    /\ UNCHANGED <<adm, sources, state, objects, chat>>

DropCandidateImport(x, i) ==
    /\ h[x] = At(i, "drop")
    /\ h' = [h EXCEPT ![x] = At(i, "idle")]
    /\ cand' = IF cand[Page(i)].status = "importing"
               THEN [cand EXCEPT ![Page(i)] = [status |-> "deleted", selected |-> FALSE, src |-> {}]]
               ELSE cand
    /\ UNCHANGED <<adm, sources, state, objects, chat>>

(* The client disconnects, which fails every later call of the handler, or *)
(* the server stops.                                                       *)
Cut(x) ==
    /\ Cuts /\ h[x] # Idle
    /\ h' = [h EXCEPT ![x] = Idle]
    /\ UNCHANGED <<adm, sources, state, objects, cand, chat>>

-----------------------------------------------------------------------------
(* What becomes of a Source. *)

LinkedTo(i) == {p \in Pages : cand[p].src = {i}}
Unlinked(i) == [p \in Pages |-> [cand[p] EXCEPT !.src = @ \ {i}]]

(* CompleteEvidence selects the Source in the Chat of its candidate.       *)
BecomesReady(i) ==
    /\ i \in SourceIds /\ state[i] = "processing"
    /\ state' = [state EXCEPT ![i] = "ready"]
    /\ chat' = IF \E p \in LinkedTo(i) : cand[p].status = "imported" THEN chat \cup {i} ELSE chat
    /\ UNCHANGED <<adm, sources, objects, cand, h>>

(* A discovered Source that fails is purged with its candidate.            *)
Fails(i) ==
    /\ i \in SourceIds /\ state[i] = "processing"
    /\ state' = [state EXCEPT ![i] = "failed"]
    /\ IF LinkedTo(i) = {}
       THEN UNCHANGED <<sources, objects, cand>>
       ELSE /\ sources' = {s \in sources : s.id # i}
            /\ objects' = objects \ {i}
            /\ cand' = [p \in Pages |-> IF p \in LinkedTo(i)
                        THEN [status |-> "deleted", selected |-> FALSE, src |-> {}] ELSE cand[p]]
    /\ UNCHANGED <<adm, chat, h>>

Remove(i) ==
    /\ Removals /\ i \in SourceIds
    /\ sources' = {s \in sources : s.id # i}
    /\ objects' = objects \ {i}
    /\ cand' = Unlinked(i)
    /\ chat' = chat \ {i}
    /\ UNCHANGED <<adm, state, h>>

-----------------------------------------------------------------------------
Handler(x, i) ==
    \/ Start(x, i) \/ BeginCandidateImport(x, i) \/ BeginURLAdmission(x, i) \/ Lookup(x, i)
    \/ Fetch(x, i) \/ FailURLAdmission(x, i) \/ FinalizeURLAdmission(x, i) \/ Discard(x, i)
    \/ CompleteCandidateImport(x, i) \/ DropCandidateImport(x, i)
Next ==
    \/ CompleteSearch \/ \E ps \in SUBSET Pages : ReplaceSelection(ps)
    \/ \E x \in Handlers : Cut(x) \/ \E i \in Ids : Handler(x, i)
    \/ \E i \in Ids : BecomesReady(i) \/ Fails(i) \/ Remove(i)

Spec == Init /\ [][Next]_vars

-----------------------------------------------------------------------------
(* Properties. *)

(* The handlers at work on a page's candidate, and on an admission. *)
Importing(p) == {x \in Handlers : h[x] # Idle /\ Page(h[x].id) = p /\ ~Direct(h[x].id)}
Working(i) == {x \in Handlers : h[x] # Idle /\ h[x].id = i}

(* Every variable has its type, and the Notebook keeps its limit.          *)
(* The states of source_url_admissions, source_discovery_candidates and    *)
(* chat_source_selections.                                                 *)
AdmissionStates == {"none", "pending", "completed", "failed"}
CandidateStates == {"absent", "discovered", "importing", "imported", "deleted"}
Selections == SUBSET Ids
TypeOK ==
    /\ \A i \in Ids :
          /\ adm[i].state \in AdmissionStates
          /\ adm[i].src = {} <=> adm[i].state = "none"
    /\ chat \in Selections /\ SourceIds \cup objects \subseteq Ids /\ Cardinality(sources) <= Limit
    /\ \A p \in Pages : cand[p].status \in CandidateStates

(* docs/sprint/SPRINT-8-PRD.md: origin and final URL identities prevent    *)
(* duplicate Notebook Sources under concurrent or redirected imports.      *)
OneSourcePerPage == \A s, t \in sources : s.final = t.final \/ s.page = t.page => s = t

(* The object deleted after an admission found an existing Source is never *)
(* the original of a Source.                                               *)
OriginalStays == SourceIds \subseteq objects

(* A candidate leaves "importing" by the request that is importing it.     *)
(* Two imports of the session never work on one candidate.                 *)
OneImportPerCandidate ==
    \A p \in Pages : Cardinality(Importing(p)) <= 1

(* docs/sprint/SPRINT-1-PRD.md: create operations are retry-safe through   *)
(* an idempotency key.  A key whose request has ended is never refused as  *)
(* in progress.                                                            *)
(* Does not hold: see "Disagreements" in the README.                        *)
RetrySafe == \A i \in Ids : adm[i].state = "pending" => Working(i) # {}

(* The discovery design: the candidate reaches imported only in the        *)
(* transaction that commits a real Source.  No Source is left behind by an *)
(* import that its candidate does not show.                                *)
(* Does not hold: see "Disagreements" in the README.                        *)
ImportIsAtomic ==
    \A i \in Ids :
        ~Direct(i) /\ adm[i].state = "completed" /\ adm[i].src \subseteq SourceIds
            /\ Importing(Page(i)) = {} => cand[Page(i)].status # "importing"

(* docs/sprint/SPRINT-8-PRD.md: a Ready imported Source becomes selected   *)
(* in the Chat that originated its session.                                *)
(* Does not hold: see "Disagreements" in the README.                        *)
ReadyIsSelected ==
    \A p \in Pages : cand[p].status = "imported" /\ cand[p].selected =>
        \A i \in cand[p].src : state[i] = "ready" => i \in chat

=============================================================================
