----------------------------- MODULE MCSources ------------------------------
(* The life of a Source: admission of an upload and its purge, processing,   *)
(* the Source Map a parser adds, the retrieval index versions, the search    *)
(* that finds its chunks, the tools that read it and the answer that cites   *)
(* it.  Each is kept apart by the rows it locks, so a behaviour is of one.   *)
EXTENDS Naturals, Sequences

CONSTANT None     \* a model value

\* Two Sources, a heading in the first, over two pages; an entry of the map
\* that covers the second page and one that covers nothing.
Unit(r, h, p) == [runes |-> r, heading |-> h, page |-> p]
TwoSources == {<<<<Unit(2, TRUE, 1), Unit(3, FALSE, 1), Unit(4, FALSE, 2)>>,
                 <<Unit(3, FALSE, 1), Unit(1, FALSE, 2)>>>>}
OneChunking == [max |-> 6, overlap |-> 2, headings |-> TRUE]
Pages == {[first |-> 2, last |-> 2], [first |-> 5, last |-> 5]}

\* Two Sources to read, a PDF with a unit that no reply has room for and a text;
\* its sections, and one page stored with escapes.
Passage(r, p, h, n) == [runes |-> r, page |-> p, heading |-> h, hits |-> n]
Section(l, p, pr) == [level |-> l, page |-> p, priority |-> pr, runes |-> 2]
Parsed(p, o, h) == [parsed |-> TRUE, pages |-> p, outline |-> o, headings |-> h]
ReadDocs == {<<<<Passage(2, 1, TRUE, 0), Passage(3, 1, FALSE, 3), Passage(9, 2, FALSE, 1), Passage(1, 3, FALSE, 0)>>,
               <<Passage(8, 0, FALSE, 1), Passage(2, 0, FALSE, 2)>>>>}
ReadNavs == {Parsed(3, <<Section(1, 1, 3), Section(2, 2, 3), Section(2, 2, 3)>>, <<>>)}
Token(w, l, h) == [width |-> w, line |-> l, hit |-> h]
ReadBodies == {<<>>, <<Token(1, FALSE, TRUE), Token(6, FALSE, FALSE), Token(2, TRUE, FALSE), Token(2, TRUE, FALSE),
                       Token(12, FALSE, FALSE), Token(1, FALSE, TRUE)>>}

\* Outlines and headings of up to three sections, and no structure at all.
InspectedDocs == {<<<<Passage(2, 1, TRUE, 0), Passage(9, 2, FALSE, 0), Passage(3, 2, FALSE, 0)>>>>,
                  <<<<Passage(6, 1, FALSE, 0), Passage(2, 3, TRUE, 0)>>>>}
Outlines == UNION {[1..n -> {Section(1, 1, 3), Section(1, 2, 0), Section(2, 2, 3), Section(2, 3, 2), Section(1, 5, 1), Section(3, 1, 3)}] : n \in 0..3}
Five == <<Section(1, 1, 3), Section(2, 1, 0), Section(2, 2, 3), Section(1, 2, 3), Section(1, 3, 1)>>
Wide == [Section(1, 2, 3) EXCEPT !.runes = 20]
InspectedNavs ==
    {Parsed(3, o, <<>>) : o \in Outlines \cup {Five, <<Wide>>, <<Section(1, 1, 0), Wide>>}}
    \cup {Parsed(5, <<>>, h) : h \in {s \in Outlines : \A i \in 2..Len(s) : s[i - 1].page <= s[i].page}}
    \cup {[Parsed(n, <<>>, <<>>) EXCEPT !.parsed = FALSE] : n \in 1..12}

\* All documents of up to three units that are shorter than a chunk, as long,
\* or longer, and all ways to cut them.
Units == {Unit(r, h, 1) : r \in {1, 2, 5, 9}, h \in BOOLEAN}
SmallDocuments == {<<d>> : d \in UNION {[1..n -> Units] : n \in 1..3}}
AllChunkings == [max : {5}, overlap : {0, 1, 3}, headings : BOOLEAN]

\* Drafts without a marker, with one, with more markers than the limit, with
\* one that appears once a bad one is removed, and with an unended one.
Mark(id) == <<"[sou", "rce:", id, "]">>
Texts == {<<"word">>, Mark("s1"), Mark("s2") \o Mark("s1") \o Mark("s2") \o Mark("s1"),
          <<"word", "[sou">> \o Mark("x") \o <<"rce:", "s1", "]">>,
          <<"word", "[sou", "rce:", "[sou", "rce:">>}
Result(tool, ok, found, degraded) ==
    [tool |-> tool, ok |-> ok, found |-> found, degraded |-> degraded, empty |-> found = <<>> /\ ~degraded]
Results == {Result("search", TRUE, <<"s1">>, FALSE), Result("search", TRUE, <<>>, TRUE),
            Result("search", FALSE, <<>>, FALSE), Result("text", TRUE, <<"s2", "s1">>, FALSE)}

VARIABLE scene     \* the component, and the instance of it, a behaviour is of
VARIABLES   \* of SourceJobs
    sj_src, sj_job, sj_rev, sj_build, sj_report, sj_store, sj_points,
    sj_purge, sj_w, sj_retries
VARIABLES   \* of SourceMaps
    sm_row, sm_objects, sm_w, sm_source, sm_attempts, sm_holder
VARIABLES   \* of SourceUploads
    up_intent, up_due, up_staged, up_final, up_sources, up_purge, up_req,
    up_purger, up_faults
VARIABLES   \* of IndexVersions
    iv_version, iv_passed, iv_src, iv_build, iv_w, iv_rx, iv_run,
    iv_failures
VARIABLES   \* of EvidenceSearch
    es_doc, es_chunking, es_source, es_points, es_lease, es_ask, es_pc,
    es_scope, es_channel, es_hits, es_result, es_shown
VARIABLES   \* of SourceReading
    sr_doc, sr_nav, sr_body, sr_source, sr_objects, sr_expired, sr_lease,
    sr_call, sr_pc, sr_chain, sr_reply
VARIABLES   \* of Grounding
    gr_pins, gr_ready, gr_member, gr_run, gr_lease, gr_log, gr_final,
    gr_plan, gr_cited, gr_work, gr_answer

Jobs == INSTANCE SourceJobs WITH
    Workers <- {1, 2}, NoWorker <- 0, Contents <- {1, 2}, AttemptLimit <- 2,
    MaxRetries <- 1, Discovered <- FALSE, src <- sj_src, job <- sj_job,
    rev <- sj_rev, build <- sj_build, report <- sj_report,
    store <- sj_store, points <- sj_points, purge <- sj_purge, w <- sj_w,
    retries <- sj_retries

(* What ParsePDF yields, and the page samples for a parser that is         *)
(* unavailable or returns an invalid document: one key, two bodies.        *)
Outline == [key |-> "embedded_outline", body |-> "outline"]
Unavailable == [key |-> "page_samples", body |-> "parser_unavailable"]
Invalid == [key |-> "page_samples", body |-> "parser_invalid"]
AllMaps == {Outline, Unavailable, Invalid}

Maps == INSTANCE SourceMaps WITH
    Workers <- {1, 2}, Maps <- AllMaps, NoMap <- None, AttemptLimit <- 3,
    Faults <- TRUE, row <- sm_row, objects <- sm_objects, w <- sm_w,
    source <- sm_source, attempts <- sm_attempts, holder <- sm_holder

Uploads == INSTANCE SourceUploads WITH
    Intents <- {1, 2}, Twins <- {1, 2}, Requests <- {1, 2}, Purgers <- {1},
    NoPurger <- 0, Quota <- 2, PurgeLimit <- 1, MaxFaults <- 1,
    intent <- up_intent, due <- up_due, staged <- up_staged,
    final <- up_final, sources <- up_sources, purge <- up_purge,
    req <- up_req, purger <- up_purger, faults <- up_faults

Versions == INSTANCE IndexVersions WITH
    Sources <- {1, 2}, Versions <- {1, 2, 3}, Runs <- {1}, Baseline <- 1,
    NoVersion <- 0, MaxFailures <- 1, version <- iv_version,
    passed <- iv_passed, src <- iv_src, build <- iv_build, w <- iv_w,
    rx <- iv_rx, run <- iv_run, failures <- iv_failures

Searches == INSTANCE EvidenceSearch WITH
    Sources <- {1, 2}, Removable <- {1}, Docs <- TwoSources,
    Chunkings <- {OneChunking}, Entries <- Pages, ChannelLimit <- 2,
    RerankLimit <- 3, RRFK <- 1, Threshold <- TRUE, ByteLimit <- 12,
    doc <- es_doc, chunking <- es_chunking, source <- es_source,
    points <- es_points, lease <- es_lease, ask <- es_ask, pc <- es_pc,
    scope <- es_scope, channel <- es_channel, hits <- es_hits,
    result <- es_result, shown <- es_shown

Chunks == INSTANCE EvidenceSearch WITH
    Sources <- {1}, Removable <- {}, Docs <- SmallDocuments,
    Chunkings <- AllChunkings, Entries <- {}, ChannelLimit <- 2,
    RerankLimit <- 3, RRFK <- 1, Threshold <- TRUE, ByteLimit <- 12,
    doc <- es_doc, chunking <- es_chunking, source <- es_source,
    points <- es_points, lease <- es_lease, ask <- es_ask, pc <- es_pc,
    scope <- es_scope, channel <- es_channel, hits <- es_hits,
    result <- es_result, shown <- es_shown

Reads == INSTANCE SourceReading WITH
    Sources <- {1, 2}, Removable <- {1}, Docs <- ReadDocs, Navs <- ReadNavs,
    Bodies <- ReadBodies, Tools <- {"read", "search", "result", "inspect"},
    Research <- TRUE, PageRange <- 2, Neighbors <- {0, 2}, ReadLimit <- 12,
    ReplyBase <- 2, ReplyNext <- 2, UnitCost <- 1, MaxMatches <- 4,
    MaxPerUnit <- 2, SearchLimit <- 6, MatchCost <- 2, MaxEntries <- 3,
    MaxSamples <- 5, PreviewRunes <- 8, MinPreview <- 2, InspectLimit <- 18,
    EntryCost <- 1, doc <- sr_doc, nav <- sr_nav, body <- sr_body,
    source <- sr_source, objects <- sr_objects, expired <- sr_expired,
    lease <- sr_lease, call <- sr_call, pc <- sr_pc, chain <- sr_chain,
    reply <- sr_reply

Inspects == INSTANCE SourceReading WITH
    Sources <- {1}, Removable <- {}, Docs <- InspectedDocs,
    Navs <- InspectedNavs, Bodies <- {<<>>}, Tools <- {"inspect"},
    Research <- TRUE, PageRange <- 2, Neighbors <- {0, 2}, ReadLimit <- 12,
    ReplyBase <- 2, ReplyNext <- 2, UnitCost <- 1, MaxMatches <- 4,
    MaxPerUnit <- 2, SearchLimit <- 6, MatchCost <- 2, MaxEntries <- 3,
    MaxSamples <- 5, PreviewRunes <- 8, MinPreview <- 2, InspectLimit <- 18,
    EntryCost <- 1, doc <- sr_doc, nav <- sr_nav, body <- sr_body,
    source <- sr_source, objects <- sr_objects, expired <- sr_expired,
    lease <- sr_lease, call <- sr_call, pc <- sr_pc, chain <- sr_chain,
    reply <- sr_reply

Answers == INSTANCE Grounding WITH
    Sources <- {"s1", "s2"}, Selected <- {{}, {"s1", "s2"}},
    Drafts <- Texts, Findings <- Results, MaxActs <- 2, MaxAttempts <- 2,
    MarkerLimit <- 3, pins <- gr_pins, ready <- gr_ready,
    member <- gr_member, run <- gr_run, lease <- gr_lease, log <- gr_log,
    final <- gr_final, plan <- gr_plan, cited <- gr_cited, work <- gr_work,
    answer <- gr_answer

ASSUME SourcesAssumption ==
    /\ Jobs!SourceJobsAssumption /\ Maps!SourceMapsAssumption
    /\ Uploads!SourceUploadsAssumption /\ Versions!IndexVersionsAssumption
    /\ Searches!EvidenceSearchAssumption /\ Chunks!EvidenceSearchAssumption
    /\ Reads!SourceReadingAssumption /\ Inspects!SourceReadingAssumption /\ Answers!GroundingAssumption

sj_vars == <<sj_src, sj_job, sj_rev, sj_build, sj_report, sj_store,
             sj_points, sj_purge, sj_w, sj_retries>>
sm_vars == <<sm_row, sm_objects, sm_w, sm_source, sm_attempts, sm_holder>>
up_vars == <<up_intent, up_due, up_staged, up_final, up_sources, up_purge,
             up_req, up_purger, up_faults>>
iv_vars == <<iv_version, iv_passed, iv_src, iv_build, iv_w, iv_rx, iv_run,
             iv_failures>>
es_vars == <<es_doc, es_chunking, es_source, es_points, es_lease, es_ask,
             es_pc, es_scope, es_channel, es_hits, es_result, es_shown>>
sr_vars == <<sr_doc, sr_nav, sr_body, sr_source, sr_objects, sr_expired,
             sr_lease, sr_call, sr_pc, sr_chain, sr_reply>>
gr_vars == <<gr_pins, gr_ready, gr_member, gr_run, gr_lease, gr_log,
             gr_final, gr_plan, gr_cited, gr_work, gr_answer>>
vars == <<scene, sj_vars, sm_vars, up_vars, iv_vars, es_vars, sr_vars, gr_vars>>

Init ==
    \/ scene = "processing" /\ Jobs!Init /\ Maps!Init /\ Uploads!Init /\ Versions!Init /\
          Searches!Init /\ es_ask.source = 0 /\ Reads!Init /\ sr_body = <<>> /\
          Answers!Init /\ gr_pins = {}
    \/ scene = "map" /\ Maps!Init /\ Jobs!Init /\ Uploads!Init /\ Versions!Init /\
          Searches!Init /\ es_ask.source = 0 /\ Reads!Init /\ sr_body = <<>> /\
          Answers!Init /\ gr_pins = {}
    \/ scene = "upload" /\ Uploads!Init /\ Jobs!Init /\ Maps!Init /\ Versions!Init /\
          Searches!Init /\ es_ask.source = 0 /\ Reads!Init /\ sr_body = <<>> /\
          Answers!Init /\ gr_pins = {}
    \/ scene = "index" /\ Versions!Init /\ Jobs!Init /\ Maps!Init /\ Uploads!Init /\
          Searches!Init /\ es_ask.source = 0 /\ Reads!Init /\ sr_body = <<>> /\
          Answers!Init /\ gr_pins = {}
    \/ scene = "search" /\ Searches!Init /\ Jobs!Init /\ Maps!Init /\ Uploads!Init /\
          Versions!Init /\ Reads!Init /\ sr_body = <<>> /\ Answers!Init /\ gr_pins = {}
    \/ scene = "chunks" /\ Chunks!Init /\ Jobs!Init /\ Maps!Init /\ Uploads!Init /\
          Versions!Init /\ Reads!Init /\ sr_body = <<>> /\ Answers!Init /\ gr_pins = {}
    \/ scene = "reading" /\ Reads!Init /\ Jobs!Init /\ Maps!Init /\ Uploads!Init /\
          Versions!Init /\ Searches!Init /\ es_ask.source = 0 /\ Answers!Init /\ gr_pins =
          {}
    \/ scene = "inspecting" /\ Inspects!Init /\ Jobs!Init /\ Maps!Init /\ Uploads!Init /\
          Versions!Init /\ Searches!Init /\ es_ask.source = 0 /\ Answers!Init /\ gr_pins =
          {}
    \/ scene = "answer" /\ Answers!Init /\ Jobs!Init /\ Maps!Init /\ Uploads!Init /\
          Versions!Init /\ Searches!Init /\ es_ask.source = 0 /\ Reads!Init /\ sr_body =
          <<>>

Next ==
    \/ scene = "processing" /\ Jobs!Next /\ UNCHANGED <<scene, sm_vars, up_vars, iv_vars,
          es_vars, sr_vars, gr_vars>>
    \/ scene = "map" /\ Maps!Next /\ UNCHANGED <<scene, sj_vars, up_vars, iv_vars,
          es_vars, sr_vars, gr_vars>>
    \/ scene = "upload" /\ Uploads!Next /\ UNCHANGED <<scene, sj_vars, sm_vars, iv_vars,
          es_vars, sr_vars, gr_vars>>
    \/ scene = "index" /\ Versions!Next /\ UNCHANGED <<scene, sj_vars, sm_vars, up_vars,
          es_vars, sr_vars, gr_vars>>
    \/ scene = "search" /\ Searches!Next /\ UNCHANGED <<scene, sj_vars, sm_vars, up_vars,
          iv_vars, sr_vars, gr_vars>>
    \/ scene = "chunks" /\ Chunks!LoadScope /\ UNCHANGED <<scene, sj_vars, sm_vars, up_vars,
          iv_vars, sr_vars, gr_vars>>
    \/ scene = "reading" /\ Reads!Next /\ UNCHANGED <<scene, sj_vars, sm_vars, up_vars,
          iv_vars, es_vars, gr_vars>>
    \/ scene = "inspecting" /\ Inspects!Next /\ UNCHANGED <<scene, sj_vars, sm_vars,
          up_vars, iv_vars, es_vars, gr_vars>>
    \/ scene = "answer" /\ Answers!Next /\ UNCHANGED <<scene, sj_vars, sm_vars, up_vars,
          iv_vars, es_vars, sr_vars>>

Spec == Init /\ [][Next]_vars

-----------------------------------------------------------------------------
(* The worker that holds the lease works from the state the row has, and    *)
(* nothing of a Source under review is searchable: its points are written   *)
(* and its later states reached only with a passed or approved report.  A   *)
(* Source and its Job tell the same story, and a published revision keeps   *)
(* its extraction, over lost leases, retries, review and removal.           *)
ProcessedAsReviewed ==
    /\ [](scene = "processing" => /\ Jobs!TypeOK /\ Jobs!LeaseStateFresh /\ Jobs!SourceJobAgree
                                  /\ Jobs!UnreviewedNeverProjected)
    /\ Jobs!RevisionImmutable /\ Jobs!MovesForward /\ Jobs!ReviewNeverInterrupts

(* A Source always has its original, whatever intents, requests and purges  *)
(* run at once, and no twin in its Notebook; an expired intent never        *)
(* becomes a Source, and a purge that ended deleted what it names and stays *)
(* ended.  A ready Source has the map its workers built, which no row       *)
(* replaces.                                                                *)
SourcesAreWhole ==
    /\ [](scene = "upload" => /\ Uploads!TypeOK /\ Uploads!OriginalPresent /\ Uploads!AdmittedOnce
                              /\ Uploads!NothingForgotten /\ Uploads!PurgedIsGone)
    /\ [](scene = "map" => Maps!TypeOK /\ Maps!ReadyHasMap)
    /\ Uploads!ExpiredStaysOut /\ Uploads!PurgeEndsOnce /\ Maps!RowImmutable

(* Every ready Source is verified in the active version, although Sources   *)
(* become ready during a promotion, which never takes evidence from a Run   *)
(* that has pinned it.                                                      *)
SearchableAsPromised ==
    scene = "index" => /\ Versions!TypeOK /\ Versions!OneActive /\ Versions!ReadyIsIndexed
                       /\ Versions!PinnedStaysSearchable

(* A search finds what the pinned Sources hold and was asked for, in an     *)
(* order both channels stand behind; it says that nothing was found only    *)
(* when no channel was down, and what was found is found again when it is   *)
(* read.  Every document is cut into chunks without a rune lost.  Reading   *)
(* on shows all that was selected, once and in order; a match can be read   *)
(* at; and the table of contents says what it leaves out.                   *)
SearchAnswers ==
    /\ [](/\ scene = "search" => /\ Searches!TypeOK /\ Searches!FoundInScope /\ Searches!EmptyIsHonest
                                 /\ Searches!AgreementHolds /\ Searches!ShownIsTheBest
          /\ scene = "chunks" => Chunks!ChunksHold
          /\ scene = "reading" => /\ Reads!TypeOK /\ Reads!ReadsInOrder /\ Reads!MatchesAreReachable
                                  /\ Reads!InspectionIsHonest
          /\ scene = "inspecting" => Inspects!MapReachesAll /\ Inspects!InspectionIsHonest)
    /\ Searches!HitsResolve

(* An answer cites what its Run found in Sources that are still ready, as   *)
(* the stored plan says, whichever Attempt wrote plan, Final and Message;   *)
(* and an accepted Final of the research its plan was made after is not     *)
(* refused publication unless a Source or the Membership went.              *)
AnswersCite ==
    /\ [](scene = "answer" => /\ Answers!TypeOK /\ Answers!CitesWhatWasFound
                              /\ Answers!FinalIsPlanned /\ Answers!RefusedForLoss)
    /\ Answers!PublishedWhileReady

=============================================================================
