--------------------------- MODULE EvidenceSearch ---------------------------
(* One search_evidence Action of a running Attempt                          *)
(* (agent/evidence_search.go, retrieval/pipeline.go): the pinned Sources,   *)
(* narrowed to one of them or to an entry of its Source Map; the dense and  *)
(* the BM25 channel at once; their fusion; the reload of the hits from the  *)
(* tables, where the chunks are built again (retrieval/chunker.go); the     *)
(* reranker; the manifest the checkpoint keeps; and what later decisions    *)
(* show the model of it.  Meanwhile Members remove Sources.                 *)
(*                                                                          *)
(* The text of a unit is its number of runes, the id of a chunk (a hash of  *)
(* all it holds) is the chunk itself, and the scores of the models are the  *)
(* order they put the chunks in.                                            *)
EXTENDS Integers, Sequences, FiniteSets, FiniteSetsExt

CONSTANTS Sources,      \* the pinned Sources, 1..n
          Removable,    \* those a Member may remove meanwhile
          Docs,         \* contents of the Sources: units [runes, heading, page]
          Chunkings,    \* ChunkConfigs [max, overlap, headings]
          Entries,      \* page ranges [first, last] of entries of the Source Map
          ChannelLimit, \* DenseCandidates and SparseCandidates
          RerankLimit,  \* RerankCandidates, at most maxSearchEvidenceCandidates
          RRFK,         \* the rank constant of the fusion
          Threshold,    \* RerankRelevanceThreshold is set
          ByteLimit     \* runes of a projection for the model

EvidenceSearchAssumption ==
    /\ Sources \subseteq Nat \ {0} /\ Sources # {} /\ Removable \subseteq Sources
    /\ \A d \in Docs, s \in Sources : Len(d[s]) > 0 /\ \A u \in DOMAIN d[s] : d[s][u].runes > 0
    /\ \A c \in Chunkings : c.max > 0 /\ c.overlap \in 0..(c.max - 1)
    /\ {ChannelLimit, RerankLimit, RRFK, ByteLimit} \subseteq Nat \ {0}
    /\ Threshold \in BOOLEAN

VARIABLES
    doc,       \* one of Docs: the units of the active revisions
    chunking,  \* the ChunkConfig of the pinned index version
    source,    \* [Sources -> ...]: "ready", "deleting" or "purged" (units gone)
    points,    \* [Sources -> BOOLEAN]: its chunks are in Qdrant
    lease,     \* BOOLEAN: the Attempt still has its Job
    ask,       \* [source, entry]: what the model asked for; 0 and NoEntry are all
    pc,        \* where the Action is
    scope,     \* [sources, chunks]: what may be found
    channel,   \* ["dense", "bm25" -> [state, got]]
    hits,      \* the chunks found, in the order they have so far
    result,    \* [code, empty, degraded, dropped]: SearchResult
    shown      \* [items, cut, omitted]: what the model was shown of the manifest

vars == <<doc, chunking, source, points, lease, ask, pc, scope, channel, hits, result, shown>>
world == <<doc, chunking, source, points, lease>>

-----------------------------------------------------------------------------
(* BuildChunks.  A segment is a run of runes of one unit.                   *)

NoEntry == [first |-> 0, last |-> 0]
Channels == {"dense", "bm25"}

\* The segments of unit u: the unit, or windows that overlap when it is too long.
Pieces(d, u, c) ==
    LET runes == d[u].runes
        step  == c.max - c.overlap
        count == IF runes <= c.max THEN 1 ELSE 1 + (runes - c.max + step - 1) \div step
    IN  [k \in 1..count |-> [unit |-> u, from |-> (k - 1) * step,
                             to |-> Min({(k - 1) * step + c.max, runes})]]

Segments(d, c) ==
    LET upTo[u \in 0..Len(d)] == IF u = 0 THEN <<>> ELSE upTo[u - 1] \o Pieces(d, u, c)
    IN  upTo[Len(d)]

\* A blank line, two runes, joins two segments.
Runes(s) ==
    LET sum[i \in 0..Len(s)] == IF i = 0 THEN 0 ELSE sum[i - 1] + s[i].to - s[i].from
    IN  sum[Len(s)] + 2 * Max({Len(s) - 1, 0})

OverlapTail(s, max) ==
    LET from == Min({k \in 1..(Len(s) + 1) : Runes(SubSeq(s, k, Len(s))) <= max})
    IN  IF max = 0 THEN <<>> ELSE SubSeq(s, from, Len(s))

\* What a new chunk takes over from the last one: its tail, with the last
\* heading before it when there is room; nothing when next would not fit.
Carried(st, next, c) ==
    LET Fits(s)  == Runes(Append(s, next)) <= c.max
        tail     == OverlapTail(st.current, c.overlap)
        headed   == st.heading \o tail
        withHead == c.headings /\ st.heading # <<>> /\ Fits(headed)
                    /\ \A i \in DOMAIN tail : tail[i] # st.heading[1]
        kept     == IF withHead THEN headed ELSE tail
    IN  IF Fits(kept) THEN kept ELSE <<>>

Take(d, st, next, c) ==
    LET full == st.current # <<>> /\ Runes(Append(st.current, next)) > c.max IN
    [chunks  |-> IF full THEN Append(st.chunks, st.current) ELSE st.chunks,
     current |-> Append(IF full THEN Carried(st, next, c) ELSE st.current, next),
     heading |-> IF d[next.unit].heading THEN <<next>> ELSE st.heading]

BuildChunks(d, c) ==
    LET segments == Segments(d, c)
        after[i \in 0..Len(segments)] ==
            IF i = 0 THEN [chunks |-> <<>>, current |-> <<>>, heading |-> <<>>]
            ELSE Take(d, after[i - 1], segments[i], c)
        last == after[Len(segments)]
    IN  Append(last.chunks, last.current)

ChunksOf(s) ==
    LET built == BuildChunks(doc[s], chunking)
    IN  {[source |-> s, ordinal |-> i, refs |-> built[i]] : i \in DOMAIN built}

Overlaps(chunk, entry) ==
    \E i \in DOMAIN chunk.refs :
        doc[chunk.source][chunk.refs[i].unit].page \in entry.first..entry.last

-----------------------------------------------------------------------------
Init ==
    /\ doc \in Docs /\ chunking \in Chunkings
    /\ source = [s \in Sources |-> "ready"] /\ points = [s \in Sources |-> TRUE]
    /\ lease = TRUE
    /\ ask \in [source : {0}, entry : {NoEntry}]
               \cup [source : Sources, entry : Entries \cup {NoEntry}]
    /\ pc = "start"
    /\ scope = [sources |-> {}, chunks |-> {}]
    /\ channel = [c \in Channels |-> [state |-> "pending", got |-> <<>>]]
    /\ hits = <<>>
    /\ result = [code |-> "none", empty |-> FALSE, degraded |-> FALSE, dropped |-> FALSE]
    /\ shown = [items |-> <<>>, cut |-> FALSE, omitted |-> 0]

(* Members remove a Source; its purge deletes its points, then its rows.    *)
RemoveSource(s) ==
    /\ s \in Removable /\ source[s] = "ready"
    /\ source' = [source EXCEPT ![s] = "deleting"]
    /\ UNCHANGED <<doc, chunking, points, lease, ask, pc, scope, channel, hits, result, shown>>

DropPoints(s) ==
    /\ source[s] = "deleting" /\ points[s]
    /\ points' = [points EXCEPT ![s] = FALSE]
    /\ UNCHANGED <<doc, chunking, source, lease, ask, pc, scope, channel, hits, result, shown>>

Purge(s) ==
    /\ source[s] = "deleting" /\ ~points[s]
    /\ source' = [source EXCEPT ![s] = "purged"]
    /\ UNCHANGED <<doc, chunking, points, lease, ask, pc, scope, channel, hits, result, shown>>

LoseLease ==
    /\ lease
    /\ lease' = FALSE
    /\ UNCHANGED <<doc, chunking, source, points, ask, pc, scope, channel, hits, result, shown>>

-----------------------------------------------------------------------------
End(code) == /\ pc' = IF code = "none" THEN "done" ELSE "failed"
             /\ result' = [result EXCEPT !.code = code]

\* Every pinned Source must still be ready, with the revision and the build
\* that were pinned: some of them are not a scope.
Pinned == \A s \in Sources : source[s] = "ready"
AuthorityOf(next) ==
    IF ~lease THEN End("lease_lost") ELSE IF ~Pinned THEN End("retrieval_unavailable") ELSE next

LoadScope ==
    /\ pc = "start"
    /\ AuthorityOf(pc' = "scoped" /\ UNCHANGED result)
    /\ scope' = IF lease /\ Pinned THEN [sources |-> Sources, chunks |-> UNION {ChunksOf(s) : s \in Sources}]
                ELSE scope
    /\ UNCHANGED <<world, ask, channel, hits, shown>>

\* The chunks of the requested Source, and of the entry if one is asked for.
Requested == {k \in ChunksOf(ask.source) : ask.entry # NoEntry => Overlaps(k, ask.entry)}

\* The map of the Source is read again for an entry; one without chunks is refused.
EntryUnknown == ask.entry # NoEntry /\ (source[ask.source] # "ready" \/ Requested = {})

Narrow ==
    /\ pc = "scoped"
    /\ \/ ask.source = 0 /\ pc' = "searching" /\ UNCHANGED <<scope, result>>
       \/ ask.source # 0 /\ EntryUnknown /\ End("evidence_scope_unavailable") /\ UNCHANGED scope
       \/ /\ ask.source # 0 /\ ~EntryUnknown
          /\ scope' = [sources |-> {ask.source}, chunks |-> Requested]
          /\ pc' = "searching" /\ UNCHANGED result
    /\ UNCHANGED <<world, ask, channel, hits, shown>>

\* The query is embedded and encoded before either channel runs.
EmbedFails ==
    /\ pc = "searching" /\ \A c \in Channels : channel[c].state = "pending"
    /\ End("retrieval_unavailable")
    /\ UNCHANGED <<world, ask, scope, channel, hits, shown>>

\* Qdrant ranks points of the filter; a point outside it, or one twice, is an
\* error of the channel.
Rankings(S, limit) ==
    UNION {{f \in [1..n -> S] : \A i, j \in 1..n : i # j => f[i] # f[j]} : n \in 0..limit}
Search(c) ==
    /\ pc = "searching" /\ channel[c].state = "pending"
    /\ \/ \E got \in Rankings({k \in scope.chunks : points[k.source]},
                              Min({ChannelLimit, Cardinality(scope.chunks)})) :
             channel' = [channel EXCEPT ![c] = [state |-> "answered", got |-> got]]
       \/ channel' = [channel EXCEPT ![c].state = "down"]
    /\ UNCHANGED <<world, ask, pc, scope, hits, result, shown>>

-----------------------------------------------------------------------------
(* FuseRRF: 1 / (k + rank) of each channel, scaled to whole numbers.        *)

Found(c) == {channel[c].got[i] : i \in DOMAIN channel[c].got}
Rank(c, x) == CHOOSE i \in DOMAIN channel[c].got : channel[c].got[i] = x
Scale == LET times[i \in 0..ChannelLimit] == IF i = 0 THEN 1 ELSE (RRFK + i) * times[i - 1]
         IN  times[ChannelLimit]
Score(x) == LET of(c) == IF x \in Found(c) THEN Scale \div (RRFK + Rank(c, x)) ELSE 0
            IN  of("dense") + of("bm25")

\* The best first; chunks of one score in the order of their ids, which are
\* hashes: any order.
FuseRRF ==
    LET S == Found("dense") \cup Found("bm25")
    IN  {f \in [1..Cardinality(S) -> S] :
            \A i, j \in DOMAIN f : i < j => f[i] # f[j] /\ Score(f[i]) >= Score(f[j])}

Down == {c \in Channels : channel[c].state = "down"}
Cut(s, n) == SubSeq(s, 1, Min({n, Len(s)}))

\* Mutant: a channel that is down counts as one that found nothing.
FuseBlind ==
    /\ pc = "searching" /\ \A c \in Channels : channel[c].state # "pending"
    /\ \E fused \in FuseRRF : hits' = Cut(fused, RerankLimit)
    /\ IF hits' = <<>> THEN pc' = "done" /\ result' = [result EXCEPT !.empty = TRUE]
       ELSE pc' = "fused" /\ UNCHANGED result
    /\ UNCHANGED <<world, ask, scope, channel, shown>>

\* Both channels that found nothing are an empty answer; a channel that is
\* down is not, and the other must have found something.
Fuse ==
    /\ pc = "searching" /\ \A c \in Channels : channel[c].state # "pending"
    /\ \E fused \in FuseRRF :
       \/ /\ fused # <<>>
          /\ hits' = Cut(fused, RerankLimit)
          /\ result' = [result EXCEPT !.degraded = Down # {}]
          /\ pc' = "fused"
       \/ /\ fused = <<>> /\ Down = {}
          /\ pc' = "done" /\ result' = [result EXCEPT !.empty = TRUE] /\ UNCHANGED hits
       \/ /\ fused = <<>> /\ Down # {}
          /\ End("retrieval_unavailable") /\ UNCHANGED hits
    /\ UNCHANGED <<world, ask, scope, channel, shown>>

\* reloadCandidates does not ask for the lease or the state of the Sources: it
\* builds the chunks of the scope again and fails when a Source has no units.
Rebuilt(S) == UNION {ChunksOf(s) : s \in S}
\* The hits that are found again, in the order they had.
Authoritative ==
    SelectSeq(hits, LAMBDA k : k \in Rebuilt(scope.sources) /\ (ask.entry # NoEntry => Overlaps(k, ask.entry)))
Reload ==
    /\ pc = "fused"
    /\ LET gone == \E s \in scope.sources : source[s] = "purged"
           kept == IF gone THEN <<>> ELSE Authoritative
       IN  \/ kept # <<>> /\ hits' = kept /\ pc' = "loaded" /\ UNCHANGED result
           \/ kept = <<>> /\ (gone \/ result.degraded) /\ End("retrieval_unavailable") /\ UNCHANGED hits
           \/ /\ kept = <<>> /\ ~gone /\ ~result.degraded
              /\ hits' = <<>> /\ pc' = "done" /\ result' = [result EXCEPT !.empty = TRUE]
    /\ UNCHANGED <<world, ask, scope, channel, shown>>

\* The reranker orders the candidates and may rate some below the threshold;
\* without it their order stays.  Anything but a permutation is an error.
Reranks(s) == {f \in [DOMAIN s -> {s[i] : i \in DOMAIN s}] : \A i, j \in DOMAIN s : i # j => f[i] # f[j]}
Rerank ==
    /\ pc = "loaded"
    /\ \/ \E order \in Reranks(hits) :
             \E relevant \in IF Threshold THEN SUBSET DOMAIN hits ELSE {DOMAIN hits} :
                LET kept == SelectSeq(order, LAMBDA k : \E i \in relevant : order[i] = k) IN
                /\ hits' = kept
                /\ result' = [result EXCEPT !.empty = kept = <<>>, !.dropped = kept # order]
                /\ pc' = "done"
       \/ /\ result' = [result EXCEPT !.degraded = TRUE]
          /\ pc' = "done" /\ UNCHANGED hits
       \/ /\ End("retrieval_unavailable") /\ UNCHANGED hits
    /\ UNCHANGED <<world, ask, scope, channel, shown>>

-----------------------------------------------------------------------------
(* Every later decision loads the pinned scope and the chunks of the        *)
(* manifest again, and shows as many of them as fit.                        *)

Size(s) == LET sum[i \in 0..Len(s)] == IF i = 0 THEN 0 ELSE sum[i - 1] + Runes(s[i].refs)
           IN  sum[Len(s)]
\* The longest prefix that fits; or the first preview cut short.
Projection(s) ==
    LET fits == {k \in 1..Len(s) : Size(Cut(s, k)) <= ByteLimit}
        keep == IF fits # {} THEN Max(fits) ELSE Min({1, Len(s)})
    IN  [items |-> Cut(s, keep), cut |-> fits = {} /\ s # <<>>, omitted |-> Len(s) - keep]

Project ==
    /\ pc = "done" /\ hits # <<>> /\ shown.items = <<>>
    /\ AuthorityOf(/\ Range(hits) \subseteq Rebuilt(Sources)
                   /\ pc' = "shown" /\ UNCHANGED result)
    /\ shown' = IF lease /\ Pinned THEN Projection(hits) ELSE shown
    /\ UNCHANGED <<world, ask, scope, channel, hits>>

-----------------------------------------------------------------------------
Next ==
    \/ LoseLease
    \/ \E s \in Sources : RemoveSource(s) \/ DropPoints(s) \/ Purge(s)
    \/ LoadScope \/ Narrow \/ EmbedFails
    \/ \E c \in Channels : Search(c)
    \/ Fuse \/ Reload \/ Rerank \/ Project

Spec == Init /\ [][Next]_vars

-----------------------------------------------------------------------------
TypeOK ==
    /\ pc \in {"start", "scoped", "searching", "fused", "loaded", "done", "shown", "failed"}
    /\ source \in [Sources -> {"ready", "deleting", "purged"}]
    /\ points \in [Sources -> BOOLEAN] /\ lease \in BOOLEAN
    /\ scope.sources \subseteq Sources /\ scope.chunks \subseteq Rebuilt(Sources)
    /\ Len(hits) <= RerankLimit
    /\ (pc = "failed") = (result.code # "none")

(* No rune of a Source is lost to retrieval: BuildChunks puts each in a     *)
(* chunk of at most MaxRunes, in the order of the document, and every chunk *)
(* has something the ones before it do not.                                 *)
ChunksHold ==
    \A s \in Sources :
        LET built == BuildChunks(doc[s], chunking)
            Has(k, u, r) == \E i \in DOMAIN built[k] :
                               built[k][i].unit = u /\ built[k][i].from < r /\ r <= built[k][i].to
            After(x, y) == x.unit > y.unit \/ (x.unit = y.unit /\ x.from > y.from)
        IN  /\ \A u \in DOMAIN doc[s] : \A r \in 1..doc[s][u].runes : \E k \in DOMAIN built : Has(k, u, r)
            /\ \A k \in DOMAIN built :
                  /\ Runes(built[k]) <= chunking.max
                  /\ \A i \in 2..Len(built[k]) : After(built[k][i], built[k][i - 1])
                  /\ \A j \in 1..(k - 1) : After(built[k][Len(built[k])], built[j][Len(built[j])])

(* Evidence is of the Source and the entry that were asked for, and no      *)
(* chunk is in the manifest twice.                                          *)
FoundInScope ==
    pc \in {"done", "shown"} =>
        /\ \A i, j \in DOMAIN hits : i # j => hits[i] # hits[j]
        /\ \A i \in DOMAIN hits :
              /\ ask.source # 0 => hits[i].source = ask.source
              /\ ask.entry # NoEntry => Overlaps(hits[i], ask.entry)

(* "Nothing found" is said only when both channels answered, or the         *)
(* reranker judged what was found irrelevant; a manifest is never empty     *)
(* without saying so.                                                       *)
EmptyIsHonest ==
    pc \in {"done", "shown"} =>
        /\ (hits = <<>>) = result.empty
        /\ (result.empty /\ ~result.dropped) => Down = {} /\ ~result.degraded
        /\ Down # {} => result.degraded

(* Fusion respects what the channels agree on: no chunk is above another    *)
(* unless a channel ranks it higher, or found it and not the other.         *)
AgreementHolds ==
    pc = "fused" =>
        \A i, j \in DOMAIN hits : \E c \in Channels :
            i < j => \/ hits[j] \notin Found(c) /\ hits[i] \in Found(c)
                     \/ /\ {hits[i], hits[j]} \subseteq Found(c)
                        /\ Rank(c, hits[i]) < Rank(c, hits[j])

(* As long as the rows of its Sources are there, every hit is found again:  *)
(* the chunks that are built now are the ones that were indexed.            *)
HitsResolve ==
    [][pc = "fused" /\ pc' \in {"loaded", "done"} => hits' = hits]_vars

(* What the model is shown of a manifest is its best part, in order, and it *)
(* is told how much it was not shown.                                       *)
ShownIsTheBest ==
    pc = "shown" =>
        /\ shown.items = Cut(hits, Len(shown.items)) /\ shown.items # <<>>
        /\ Len(shown.items) + shown.omitted = Len(hits)
        /\ shown.cut \/ Size(shown.items) <= ByteLimit

=============================================================================
