----------------------------- MODULE ToolResults -----------------------------
(***************************************************************************)
(* One long result of a tool: it is put into the cache and replaced by a   *)
(* preview (internal/agent/tool_result_cache.go, redis_tool_result_store), *)
(* read page by page by the model (read_tool_result_action.go), aged out   *)
(* of the request (tool_result_aging.go, compacted_tool_result.go), and    *)
(* read as a whole for the ledger and for quotes (research_runtime.go).    *)
(*                                                                         *)
(* A text is a sequence of characters with their bytes in UTF-8 and what   *)
(* they take in JSON; limits count what the characters take and leave the  *)
(* fixed rest of an envelope out.                                          *)
(***************************************************************************)
EXTENDS Naturals, Sequences

CONSTANTS Texts,        \* what the tool may yield
          InlineLimit,  \* inlineByteLimit
          MaximumValue, \* MaximumValueBytes
          PageBytes,    \* MaximumPageBytes, and MaximumOutputBytes
          MaxRefs,      \* executions that reach the cache
          MaxReads      \* calls of read_tool_result

Chars == UNION {{t[i] : i \in DOMAIN t} : t \in Texts}
\* Of the constants; the MC modules that instantiate this one assume it.
ToolResultsAssumption ==
    /\ {InlineLimit, MaximumValue, PageBytes, MaxRefs, MaxReads} \subseteq Nat
    /\ \A t \in Texts : t \in Seq(Chars)
    /\ \A c \in Chars : c.bytes \in 1..4 /\ c.cost \in c.bytes..PageBytes
    /\ PageBytes >= 4

VARIABLES
    cache,      \* the two keys of each reference in Redis
    pending,    \* the projection of a result that has no checkpoint yet
    result,     \* its checkpoint
    aged,       \* the request shows the shell of the result
    trail,      \* what the model has read following next_offset
    reads,      \* calls of read_tool_result
    hydration   \* hydrateExternalizedResearchProposal

vars == <<cache, pending, result, aged, trail, reads, hydration>>

Refs == 1..MaxRefs
NoText == <<>>
NoResult == [state |-> "none", ref |-> 0, of |-> NoText, preview |-> NoText]
Gone == [put |-> FALSE, meta |-> FALSE, body |-> FALSE, text |-> NoText]

Init ==
    /\ cache = [r \in Refs |-> Gone]
    /\ pending = NoResult
    /\ result = NoResult
    /\ aged = FALSE
    /\ trail = [at |-> 0, text |-> NoText, complete |-> FALSE]
    /\ reads = 0
    /\ hydration = [pc |-> "idle", at |-> 0, text |-> NoText]

CacheRows == [put : BOOLEAN, meta : BOOLEAN, body : BOOLEAN, text : Texts \union {NoText}]

(* Of a reference there is something in Redis only once it was put.        *)
TypeOK ==
    /\ cache \in [Refs -> CacheRows]
    /\ \A r \in Refs : cache[r].meta \/ cache[r].body => cache[r].put
    /\ {pending.state, result.state} \subseteq {"none", "inline", "externalized", "not_cached"}
    /\ {pending.ref, result.ref} \subseteq Refs \union {0}

-----------------------------------------------------------------------------
(* Texts. *)

Sum(t, Size(_)) == LET upTo[k \in 0..Len(t)] == IF k = 0 THEN 0 ELSE upTo[k - 1] + Size(t[k])
                   IN  upTo[Len(t)]
Bytes(t) == Sum(t, LAMBDA c : c.bytes)
Cost(t) == Sum(t, LAMBDA c : c.cost)
Prefixes(t) == {SubSeq(t, 1, k) : k \in 0..Len(t)}
Longest(S) == CHOOSE t \in S : \A u \in S : Len(u) <= Len(t)
From(t, offset) == LET p == CHOOSE p \in Prefixes(t) : Bytes(p) = offset
                   IN  SubSeq(t, Len(p) + 1, Len(t))

(* ToolResultReader.Read cuts a page back to the end of a character.       *)
Cut(rest, limit) == Longest({p \in Prefixes(rest) : Bytes(p) <= limit})

(* marshalBoundedToolResultPage, boundedToolResultPreview.                 *)
Bounded(t, limit) == Longest({p \in Prefixes(t) : Cost(p) <= limit})

Page(t, offset, limit) == Bounded(Cut(From(t, offset), limit), PageBytes)

-----------------------------------------------------------------------------
(* The tool runs. *)

FreeRef(r) == ~cache[r].put /\ \A s \in 1..(r - 1) : cache[s].put
Projection(state, r, t) ==
    [state |-> state, ref |-> r, of |-> t, preview |-> Bounded(t, InlineLimit)]

Inline(t) ==
    /\ pending.state = "none" /\ result.state = "none"
    /\ Cost(t) <= InlineLimit
    /\ pending' = [state |-> "inline", ref |-> 0, of |-> t, preview |-> t]
    /\ UNCHANGED <<cache, result, aged, trail, reads, hydration>>

(* Too large, or the cache failed, whether or not it has the value.        *)
NotCached(t, r, stored) ==
    /\ pending.state = "none" /\ result.state = "none"
    /\ Cost(t) > InlineLimit
    /\ stored => Bytes(t) <= MaximumValue
    /\ pending' = Projection("not_cached", 0, t)
    /\ IF stored
       THEN FreeRef(r) /\ cache' = [cache EXCEPT ![r] = [put |-> TRUE, meta |-> TRUE, body |-> TRUE, text |-> t]]
       ELSE r = 1 /\ cache' = cache
    /\ UNCHANGED <<result, aged, trail, reads, hydration>>

Externalize(t, r) ==
    /\ pending.state = "none" /\ result.state = "none"
    /\ Cost(t) > InlineLimit /\ Bytes(t) <= MaximumValue /\ FreeRef(r)
    /\ cache' = [cache EXCEPT ![r] = [put |-> TRUE, meta |-> TRUE, body |-> TRUE, text |-> t]]
    /\ pending' = Projection("externalized", r, t)
    /\ UNCHANGED <<result, aged, trail, reads, hydration>>

(* The process dies before the checkpoint is there: the tool, which is     *)
(* safe to replay, runs again, and may yield another text.                 *)
Crash ==
    /\ pending.state # "none"
    /\ pending' = NoResult
    /\ UNCHANGED <<cache, result, aged, trail, reads, hydration>>

\* Mutant: the continuation of a preview counts characters.
AppendCountingRunes ==
    /\ pending.state # "none"
    /\ result' = pending /\ pending' = NoResult
    /\ trail' = [at |-> Len(pending.preview), text |-> pending.preview,
                 complete |-> pending.preview = pending.of]
    /\ UNCHANGED <<cache, aged, reads, hydration>>
AppendCheckpoint ==
    /\ pending.state # "none"
    /\ result' = pending /\ pending' = NoResult
    /\ trail' = [at |-> Bytes(pending.preview), text |-> pending.preview,
                 complete |-> pending.preview = pending.of]
    /\ UNCHANGED <<cache, aged, reads, hydration>>

(* Redis evicts either key, or both expire.                                *)
Evict(r) ==
    /\ cache[r].meta \/ cache[r].body
    /\ \E meta, body \in BOOLEAN :
          /\ meta => cache[r].meta
          /\ body => cache[r].body
          /\ cache' = [cache EXCEPT ![r].meta = meta, ![r].body = body]
    /\ cache' # cache
    /\ UNCHANGED <<pending, result, aged, trail, reads, hydration>>

-----------------------------------------------------------------------------
(* read_tool_result. *)

(* ageOldToolResults, once enough steps came after the result.             *)
Age ==
    /\ result.state # "none" /\ ~aged
    /\ aged' = TRUE
    /\ UNCHANGED <<cache, pending, result, trail, reads, hydration>>

(* What a reference stands for: the cached text, or what the checkpoint    *)
(* has itself.  A result that was not cached has its preview only.         *)
Held(r) == cache[r].meta /\ cache[r].body
Readable == IF result.state = "externalized" THEN Held(result.ref) ELSE aged
ReadText == IF result.state = "externalized" THEN cache[result.ref].text ELSE result.preview

(* The model goes on where the preview or the last page ended, or begins   *)
(* again with the reference of the shell.                                  *)
Read(offset, limit) ==
    LET text == Page(ReadText, offset, limit)
        next == offset + Bytes(text)
    IN  /\ result.state # "none" /\ Readable /\ reads < MaxReads
        /\ \/ offset = trail.at /\ ~trail.complete
           \/ offset = 0 /\ aged
        /\ reads' = reads + 1
        /\ trail' = [at |-> next, complete |-> next = Bytes(ReadText),
                     text |-> IF offset = 0 THEN text ELSE trail.text \o text]
        /\ UNCHANGED <<cache, pending, result, aged, hydration>>

(* Nothing is held under the reference any more: a domain error.           *)
ReadExpired ==
    /\ result.state # "none" /\ ~Readable /\ reads < MaxReads
    /\ reads' = reads + 1
    /\ UNCHANGED <<cache, pending, result, aged, trail, hydration>>

-----------------------------------------------------------------------------
(* hydrateExternalizedResearchProposal: all pages, one at a time. *)

Hydrate ==
    /\ hydration.pc \in {"idle", "expired"} /\ result.state = "externalized"
    /\ hydration' = [pc |-> "reading", at |-> 0, text |-> NoText]
    /\ UNCHANGED <<cache, pending, result, aged, trail, reads>>

HydratePage ==
    /\ hydration.pc = "reading"
    /\ IF ~Held(result.ref)
       THEN hydration' = [pc |-> "expired", at |-> 0, text |-> NoText]
       ELSE LET page == Cut(From(ReadText, hydration.at), PageBytes)
                text == hydration.text \o page
                next == hydration.at + Bytes(page)
            IN  hydration' = [pc |-> IF next < Bytes(ReadText) THEN "reading"
                                     ELSE IF text = result.of THEN "whole" ELSE "corrupt",
                              at |-> next, text |-> text]
    /\ UNCHANGED <<cache, pending, result, aged, trail, reads>>

Next ==
    \/ \E t \in Texts :
          \/ Inline(t)
          \/ \E r \in Refs, stored \in BOOLEAN : NotCached(t, r, stored)
          \/ \E r \in Refs : Externalize(t, r)
    \/ Crash
    \/ AppendCheckpoint
    \/ \E r \in Refs : Evict(r)
    \/ Age
    \/ \E offset \in 0..MaximumValue, limit \in 4..PageBytes : Read(offset, limit)
    \/ ReadExpired
    \/ Hydrate
    \/ HydratePage

Spec == Init /\ [][Next]_vars

-----------------------------------------------------------------------------
(* Whoever follows next_offset from the preview, with pages of any size,   *)
(* over evictions and repeated executions, has read exactly the beginning  *)
(* of the result the checkpoint is of, and all of it when told so - but    *)
(* for a result that was not cached, whose shell offers the full result    *)
(* and whose preview is then called complete.  What the ledger takes for   *)
(* the whole result is, and is never found corrupt.                        *)
FollowedIsTheResult ==
    /\ trail.text \in Prefixes(result.of) /\ trail.at = Bytes(trail.text)
    /\ trail.complete /\ result.state # "not_cached" => trail.text = result.of
    /\ hydration.pc = "whole" => hydration.text = result.of
    /\ hydration.pc # "corrupt"

=============================================================================
