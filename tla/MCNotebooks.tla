---------------------------- MODULE MCNotebooks -----------------------------
(* What Members do to a Notebook: sharing it and the mails that tells of,    *)
(* importing pages, searching for Sources, and the Sources a research Run    *)
(* waits for.  A behaviour is of one of the components.                      *)
EXTENDS Naturals, Sequences

CONSTANTS SharedNotebooks, NotebookFounder, Sharers, OfferedUsers,   \* of Sharing
          OfferKeys, OfferAcceptKeys, MemberLimit, OfferBound, OfferResends,
          OwnerTransfers, OfferHandlers, ChatWriters,
          MailMessages, MailSenders, MailAttempts, MailCrashes,  \* of MailOutbox
          WebPages, RedirectPage, SessionKeys, PageHandlers,     \* of UrlImports
          RedirectLimit, SessionLimit,
          SearchWorkers, SearchKeys, SearchAttempts,   \* of DiscoverySessions
          Retries, ChatRetries,
          ImportedSources, PinnedSources, SourceEnders,          \* of SourceImports
          SourceRemovals

\* Artifacts of Studio: mind maps of three and four nodes with any parents,
\* and the other kinds with every repair and every refusal.
Kinds == {"report", "flashcards", "mind_map", "data_table"}
Element(id, up, label, cells, refs) == [id |-> id, parent |-> up, label |-> label, cells |-> cells, refs |-> refs]
Made(kind, items, columns) == [kind |-> kind, items |-> items, columns |-> columns, fits |-> TRUE]
Id(n) == [type |-> "text", value |-> n]
None == [type |-> "none", value |-> 0]
Node(n, up) == Element(Id(n), up, "label", 0, <<"s">>)
Report(s) == Made("report", <<Element(Id(1), None, "label", 0, <<s>>)>>, <<>>)
Maps == {Made("mind_map", [n \in 1..3 |-> Node(n, up[n])], <<>>) : up \in [1..3 -> {Id(m) : m \in 1..4} \cup {None}]}
          \cup {Made("mind_map", [n \in 1..4 |-> Node(n, up[n])], <<>>)
                : up \in {u \in [1..4 -> {Id(m) : m \in 1..3} \cup {None}] : u[1] = None}}
Labels == {Made("mind_map", <<Element(Id(1), None, l, 0, r), Node(2, Id(1))>>, <<>>)
             : l \in {"label", "text", "both", "none"}, r \in {<<"s">>, <<"s", "s">>, <<"t">>, <<>>}}
Cards == {Made("flashcards", <<Element([type |-> t, value |-> 1], None, "label", 0, <<"s">>), Node(n, None)>>, <<>>)
            : t \in {"text", "number", "fraction"}, n \in {1, 2}}
Tables == {Made("data_table", <<Element(i, None, "label", c, <<"s">>), Element(None, None, "label", 2, <<"s">>)>>, cs)
             : i \in {None, Id(1), Id(2)}, c \in {1, 2}, cs \in {<<"a">>, <<"a", "a">>, <<"a", "b">>}}
One == {Report("s")}
Few == {Report("s"), Report("t")}
Many == Maps \cup Labels \cup Cards \cup Tables \cup {Report("s"), [Report("s") EXCEPT !.fits = FALSE]}
Asks(kind, sources) == [kind |-> kind, sources |-> sources]
OneReport == {Asks("report", {"s"})}
Reports == OneReport \cup {Asks("report", {"s", "t"})}
EveryKind == {Asks(k, {"s"}) : k \in Kinds}
Least == [k \in Kinds |-> IF k = "report" THEN 1 ELSE 2]
Most == [k \in Kinds |-> 4]


VARIABLE scene     \* the component, and the instance of it, a behaviour is of
VARIABLES   \* of Sharing
    sh_alive, sh_role, sh_inv, sh_created, sh_accepted, sh_requests,
    sh_answer, sh_chats, sh_inserted, sh_deleting, sh_told, sh_resends,
    sh_transfers
VARIABLES   \* of MailOutbox
    mo_row, mo_holds, mo_mailed, mo_crashes
VARIABLES   \* of UrlImports
    ui_adm, ui_sources, ui_state, ui_objects, ui_cand, ui_chat, ui_h
VARIABLES   \* of DiscoverySessions
    ds_ses, ds_cand, ds_job, ds_expired, ds_claims, ds_w, ds_act, ds_run,
    ds_keys, ds_req, ds_started
VARIABLES   \* of SourceImports
    si_src, si_end, si_imports, si_imp, si_run, si_pins, si_due, si_overlooked
VARIABLES   \* of Studio
    st_role, st_source, st_index, st_output, st_run, st_pins, st_prefix,
    st_attempt, st_changes

Shares == INSTANCE Sharing WITH
    Founder <- NotebookFounder, Users <- Sharers,
    Notebooks <- SharedNotebooks, Keys <- OfferKeys,
    AcceptKeys <- OfferAcceptKeys, Limit <- MemberLimit,
    MaxInvites <- OfferBound, MaxResends <- 0,
    MaxTransfers <- OwnerTransfers, Handlers <- OfferHandlers,
    Writers <- ChatWriters, Deletes <- TRUE, alive <- sh_alive, role <- sh_role, inv <- sh_inv,
    created <- sh_created, accepted <- sh_accepted, requests <- sh_requests,
    answer <- sh_answer, chats <- sh_chats, inserted <- sh_inserted,
    deleting <- sh_deleting, told <- sh_told, resends <- sh_resends,
    transfers <- sh_transfers

Resends == INSTANCE Sharing WITH
    Founder <- NotebookFounder, Users <- OfferedUsers,
    Notebooks <- SharedNotebooks, Keys <- OfferKeys,
    AcceptKeys <- OfferAcceptKeys, Limit <- MemberLimit,
    MaxInvites <- OfferBound, MaxResends <- OfferResends, MaxTransfers <- 0,
    Handlers <- OfferHandlers, Writers <- {}, Deletes <- FALSE,
    alive <- sh_alive, role <- sh_role, inv <- sh_inv,
    created <- sh_created, accepted <- sh_accepted, requests <- sh_requests,
    answer <- sh_answer, chats <- sh_chats, inserted <- sh_inserted,
    deleting <- sh_deleting, told <- sh_told, resends <- sh_resends,
    transfers <- sh_transfers

Mails == INSTANCE MailOutbox WITH
    Messages <- MailMessages, Senders <- MailSenders,
    MaxAttempts <- MailAttempts, MaxCrashes <- MailCrashes, row <- mo_row,
    holds <- mo_holds, mailed <- mo_mailed, crashes <- mo_crashes

\* Pages that all redirect to one, and the pages of the candidates of a session.
Redirected == [p \in WebPages |-> RedirectPage]
Unmoved == [p \in WebPages |-> p]

Redirects == INSTANCE UrlImports WITH
    Pages <- WebPages, Requests <- {}, Final <- Redirected,
    Handlers <- PageHandlers, Limit <- RedirectLimit, Cuts <- TRUE,
    Removals <- TRUE, adm <- ui_adm, sources <- ui_sources,
    state <- ui_state, objects <- ui_objects, cand <- ui_cand,
    chat <- ui_chat, h <- ui_h

Sessions == INSTANCE UrlImports WITH
    Pages <- WebPages, Requests <- SessionKeys, Final <- Unmoved,
    Handlers <- PageHandlers, Limit <- SessionLimit, Cuts <- TRUE, Removals <- FALSE,
    adm <- ui_adm, sources <- ui_sources, state <- ui_state,
    objects <- ui_objects, cand <- ui_cand, chat <- ui_chat, h <- ui_h

Manual == INSTANCE DiscoverySessions WITH
    Origin <- "manual", Workers <- SearchWorkers, Requests <- Retries,
    Keys <- SearchKeys, MaxAttempts <- SearchAttempts, ses <- ds_ses, cand <- ds_cand,
    job <- ds_job, expired <- ds_expired, claims <- ds_claims, w <- ds_w,
    act <- ds_act, run <- ds_run, keys <- ds_keys, req <- ds_req,
    started <- ds_started

Chats == INSTANCE DiscoverySessions WITH
    Origin <- "chat_agent", Workers <- SearchWorkers, Requests <- ChatRetries,
    Keys <- SearchKeys, MaxAttempts <- SearchAttempts, ses <- ds_ses, cand <- ds_cand,
    job <- ds_job, expired <- ds_expired, claims <- ds_claims, w <- ds_w,
    act <- ds_act, run <- ds_run, keys <- ds_keys, req <- ds_req,
    started <- ds_started

Imports == INSTANCE SourceImports WITH
    Sources <- ImportedSources, Enders <- SourceEnders, MayRemove <- SourceRemovals,
    ScopeLimit <- PinnedSources, src <- si_src, end <- si_end,
    imports <- si_imports, imp <- si_imp, run <- si_run, pins <- si_pins,
    due <- si_due, overlooked <- si_overlooked

Output == INSTANCE Studio WITH
    Users <- {"u"}, Sources <- {"s", "t"}, Requests <- Reports, Keys <- {1},
    Drafts <- Few, Least <- Least, Most <- Most, MaxDepth <- 2,
    MaxRefs <- 1, LocksOutput <- FALSE, Outputs <- {1}, MaxAttempts <- 2,
    MaxVersions <- 2, Changes <- 2, role <- st_role, source <- st_source,
    index <- st_index, output <- st_output, run <- st_run, pins <- st_pins,
    prefix <- st_prefix, attempt <- st_attempt, changes <- st_changes

TwoOutputs == INSTANCE Studio WITH
    Users <- {"u", "v"}, Sources <- {"s"}, Requests <- OneReport,
    Keys <- {1}, Drafts <- One, Least <- Least, Most <- Most, MaxDepth <- 2,
    MaxRefs <- 1, LocksOutput <- TRUE, Outputs <- {1, 2}, MaxAttempts <- 1,
    MaxVersions <- 1, Changes <- 1, role <- st_role, source <- st_source,
    index <- st_index, output <- st_output, run <- st_run, pins <- st_pins,
    prefix <- st_prefix, attempt <- st_attempt, changes <- st_changes

Artifacts == INSTANCE Studio WITH
    Users <- {"u"}, Sources <- {"s"}, Requests <- EveryKind, Keys <- {1},
    Drafts <- Many, Least <- Least, Most <- Most, MaxDepth <- 2,
    MaxRefs <- 2, LocksOutput <- FALSE, Outputs <- {1}, MaxAttempts <- 1,
    MaxVersions <- 1, Changes <- 0, role <- st_role, source <- st_source,
    index <- st_index, output <- st_output, run <- st_run, pins <- st_pins,
    prefix <- st_prefix, attempt <- st_attempt, changes <- st_changes

ASSUME NotebooksAssumption ==
    /\ Shares!SharingAssumption /\ Resends!SharingAssumption
    /\ Mails!MailAssumption /\ Imports!SourceImportsAssumption
    /\ Redirects!UrlImportsAssumption /\ Sessions!UrlImportsAssumption
    /\ Manual!DiscoverySessionsAssumption /\ Chats!DiscoverySessionsAssumption
    /\ Output!StudioAssumption /\ TwoOutputs!StudioAssumption /\ Artifacts!StudioAssumption

sh_vars == <<sh_alive, sh_role, sh_inv, sh_created, sh_accepted,
             sh_requests, sh_answer, sh_chats, sh_inserted, sh_deleting,
             sh_told, sh_resends, sh_transfers>>
mo_vars == <<mo_row, mo_holds, mo_mailed, mo_crashes>>
ui_vars == <<ui_adm, ui_sources, ui_state, ui_objects, ui_cand, ui_chat,
             ui_h>>
ds_vars == <<ds_ses, ds_cand, ds_job, ds_expired, ds_claims, ds_w, ds_act,
             ds_run, ds_keys, ds_req, ds_started>>
si_vars == <<si_src, si_end, si_imports, si_imp, si_run, si_pins, si_due,
             si_overlooked>>
st_vars == <<st_role, st_source, st_index, st_output, st_run, st_pins,
             st_prefix, st_attempt, st_changes>>
vars == <<scene, sh_vars, mo_vars, ui_vars, ds_vars, si_vars, st_vars>>

NothingImported == Imports!Init /\ \A s \in ImportedSources : si_src[s] = "none"
Init ==
    \/ scene = "sharing" /\ Shares!Init /\ Mails!Init /\ Redirects!Init
          /\ Manual!Init /\ NothingImported /\ Artifacts!Init
          /\ st_source["s"] = "ready"
    \/ scene = "resend" /\ Resends!Init /\ Mails!Init /\ Redirects!Init
          /\ Manual!Init /\ NothingImported /\ Artifacts!Init
          /\ st_source["s"] = "ready"
    \/ scene = "mail" /\ Mails!Init /\ Shares!Init /\ Redirects!Init
          /\ Manual!Init /\ NothingImported /\ Artifacts!Init
          /\ st_source["s"] = "ready"
    \/ scene = "redirects" /\ Redirects!Init /\ Shares!Init /\ Mails!Init
          /\ Manual!Init /\ NothingImported /\ Artifacts!Init
          /\ st_source["s"] = "ready"
    \/ scene = "session" /\ Sessions!Init /\ Shares!Init /\ Mails!Init
          /\ Manual!Init /\ NothingImported /\ Artifacts!Init
          /\ st_source["s"] = "ready"
    \/ scene = "discovery" /\ Manual!Init /\ Shares!Init /\ Mails!Init
          /\ Redirects!Init /\ NothingImported /\ Artifacts!Init
          /\ st_source["s"] = "ready"
    \/ scene = "chat" /\ Chats!Init /\ Shares!Init /\ Mails!Init
          /\ Redirects!Init /\ NothingImported /\ Artifacts!Init
          /\ st_source["s"] = "ready"
    \/ scene = "imports" /\ Imports!Init /\ Shares!Init /\ Mails!Init
          /\ Redirects!Init /\ Manual!Init /\ Artifacts!Init
          /\ st_source["s"] = "ready"
    \/ scene = "output" /\ Output!Init /\ Shares!Init /\ Mails!Init
          /\ Redirects!Init /\ Manual!Init /\ NothingImported
    \/ scene = "outputs" /\ TwoOutputs!Init /\ Shares!Init /\ Mails!Init
          /\ Redirects!Init /\ Manual!Init /\ NothingImported
    \/ scene = "artifacts" /\ Artifacts!Init /\ Shares!Init /\ Mails!Init
          /\ Redirects!Init /\ Manual!Init /\ NothingImported

Next ==
    \/ scene = "sharing" /\ Shares!Next /\ UNCHANGED <<scene, mo_vars, ui_vars, ds_vars,
          si_vars, st_vars>>
    \/ scene = "resend" /\ Resends!Next /\ UNCHANGED <<scene, mo_vars, ui_vars, ds_vars,
          si_vars, st_vars>>
    \/ scene = "mail" /\ Mails!Next /\ UNCHANGED <<scene, sh_vars, ui_vars, ds_vars,
          si_vars, st_vars>>
    \/ scene = "redirects" /\ Redirects!Next /\ UNCHANGED <<scene, sh_vars, mo_vars,
          ds_vars, si_vars, st_vars>>
    \/ scene = "session" /\ Sessions!Next /\ UNCHANGED <<scene, sh_vars, mo_vars, ds_vars,
          si_vars, st_vars>>
    \/ scene = "discovery" /\ Manual!Next /\ UNCHANGED <<scene, sh_vars, mo_vars, ui_vars,
          si_vars, st_vars>>
    \/ scene = "chat" /\ Chats!Next /\ UNCHANGED <<scene, sh_vars, mo_vars, ui_vars,
          si_vars, st_vars>>
    \/ scene = "imports" /\ Imports!Next /\ UNCHANGED <<scene, sh_vars, mo_vars, ui_vars,
          ds_vars, st_vars>>
    \/ scene = "output" /\ Output!Next /\ UNCHANGED <<scene, sh_vars, mo_vars, ui_vars,
          ds_vars, si_vars>>
    \/ scene = "outputs" /\ TwoOutputs!Next /\ UNCHANGED <<scene, sh_vars, mo_vars,
          ui_vars, ds_vars, si_vars>>
    \/ scene = "artifacts" /\ Artifacts!Next /\ UNCHANGED <<scene, sh_vars, mo_vars,
          ui_vars, ds_vars, si_vars>>

Spec == Init /\ [][Next]_vars

-----------------------------------------------------------------------------
(* Members and effective offers stay within the limit (as long as no offer  *)
(* is made again, see the README), an email has one offer, whoever joins    *)
(* presented the newest token of it, and there is one Owner, over           *)
(* transfers, departures and deletion of the Notebook, which every Member   *)
(* is told.                                                                 *)
OffersHold ==
    /\ [](scene = "sharing" => /\ Shares!WithinLimit /\ Shares!OneOwner /\ Shares!OneOffer
                               /\ Shares!OfferedIsNoMember)
    /\ [](scene = "resend" => Resends!OneOwner /\ Resends!OneOffer)
    /\ Shares!DeletedIsTold /\ Resends!JoinedByNewest

(* A mail marked sent was mailed, one marked failed had all its attempts,   *)
(* and a recipient gets at most one mail for each.                          *)
VerdictIsTrue == scene = "mail" => Mails!TypeOK /\ Mails!VerdictIsTrue /\ Mails!MailsBounded

(* Two imports of one session never work on one candidate, over redirects,  *)
(* disconnects and retries; a page has one Source in the Notebook, with its *)
(* original.                                                                *)
OneImportPerCandidate ==
    /\ scene = "session" => /\ Sessions!TypeOK /\ Sessions!OneImportPerCandidate
                            /\ Sessions!OneSourcePerPage /\ Sessions!OriginalStays
    /\ scene = "redirects" => /\ Redirects!TypeOK /\ Redirects!OneSourcePerPage /\ Redirects!OriginalStays

(* What a Member was shown is never replaced by a second search, of another *)
(* worker, a straggler or an Attempt of the Run; a session searches exactly *)
(* as long as a job can end it, and a retry key starts one search.          *)
ReadyIsFinal ==
    /\ Manual!ReadyIsFinal
    /\ [](scene = "discovery" => Manual!JobTellsSession /\ Manual!OneSearchPerKey)

(* With any number of transactions that end Sources, and removals, no       *)
(* research Run waits for Sources that have all ended, except one that met, *)
(* in this wait, two of them being ended at once or the removal of one; and *)
(* a child sees at least what its root has pinned.                          *)
WaitsForItsSources ==
    scene = "imports" => Imports!TypeOK /\ Imports!WaitsForItsSources /\ Imports!FamilyShares

(* A Studio Output agrees with its Run, its key and the Sources it was      *)
(* asked for, and is published only by an Attempt that still may; what it   *)
(* shows was validated, and a tree is never refused for its shape.          *)
OutputsHold ==
    /\ [](scene = "output" => /\ Output!TypeOK /\ Output!OutputMirrorsRun
                              /\ Output!PublishedIsWellFormed)
    /\ [](scene = "outputs" => TwoOutputs!OutputMirrorsRun /\ TwoOutputs!OneOutputPerKey)
    /\ [](scene = "artifacts" => Artifacts!PublishedIsWellFormed /\ Artifacts!TreesAreAccepted)
    /\ Output!PublishedWithAuthority

=============================================================================
