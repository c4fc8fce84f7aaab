--------------------------- MODULE SourceReading ----------------------------
(* How a research Run reads its pinned Sources besides search_evidence: the *)
(* table of contents a Source Map gives a PDF (sourcemap/artifact.go),      *)
(* inspect_source, search_text over Sources or over a page read before, and *)
(* read_source, whose replies name where to go on.  Each call loads the     *)
(* pinned scope, the units and the map in transactions of their own, while  *)
(* Members remove Sources and results expire.                               *)
(*                                                                          *)
(* The text of a unit is its number of runes and of matches of the pattern; *)
(* the size of a reply is a sum of such numbers.                            *)
EXTENDS Integers, Sequences, FiniteSets, SequencesExt

CONSTANTS Sources,       \* the pinned Sources, 1..n; the first may be a PDF
          Removable,     \* those a Member may remove meanwhile
          Docs,          \* [Sources -> units [runes, page, heading, hits]]
          Navs,          \* what the parser found: [parsed, pages, outline, headings]
          Bodies,        \* markdown of externalized pages: tokens [size, width, line, hit]
          Tools,         \* what the model may call: "read", "search", "result", "inspect"
          Research,      \* the Run is of a research executor that may inspect
          PageRange,     \* readSourceMaxPages
          Neighbors,     \* counts of units before and after, the defaults among them
          ReadLimit, ReplyBase, ReplyNext, UnitCost,        \* sizes of read_source
          MaxMatches, MaxPerUnit, SearchLimit, MatchCost,   \* of search_text
          MaxEntries, MaxSamples, PreviewRunes, MinPreview, \* of inspect_source
          InspectLimit, EntryCost

SourceReadingAssumption ==
    /\ Sources \subseteq Nat \ {0} /\ 1 \in Sources /\ Removable \subseteq Sources
    /\ \A d \in Docs, s \in Sources : Len(d[s]) > 0 /\ \A u \in DOMAIN d[s] : d[s][u].runes > 0
    /\ \A n \in Navs : n.pages > 0 /\ \A b \in DOMAIN n.headings : n.headings[b].page \in 1..n.pages
    /\ Neighbors \subseteq Nat
    /\ {PageRange, UnitCost, MaxMatches, MaxPerUnit, MatchCost, MaxSamples, MinPreview} \subseteq Nat \ {0}
    /\ ReadLimit > ReplyBase + ReplyNext + UnitCost /\ MaxEntries > 1 /\ InspectLimit >= EntryCost + 2
    /\ Research \in BOOLEAN

VARIABLES
    doc, nav, body,   \* one of Docs, Navs and Bodies
    source,    \* [Sources -> ...]: "ready", "deleting" or "purged" (rows gone)
    objects,   \* BOOLEAN: the artifact of the map is in the object store
    expired,   \* BOOLEAN: the externalized page is gone
    lease,     \* BOOLEAN: the Attempt still has its Job
    call,      \* [tool, source, locator, from]: the input; source 0 is all of them
    pc,        \* where the Action is
    chain,     \* units shown since a locator was given, over every next followed
    reply      \* the result of the call

world == <<doc, nav, body, source, objects, expired, lease>>
vars == <<world, call, pc, chain, reply>>

Least(a, b) == IF a < b THEN a ELSE b
Longest(a, b) == IF a > b THEN a ELSE b
Sum(s) == FoldLeft(LAMBDA a, b : a + b, 0, s)

-----------------------------------------------------------------------------
(* The entries of a Source Map.  An entry ends before the page the next one *)
(* starts on, or with the document when that is no later page.              *)

Usable == SelectSeq(nav.outline, LAMBDA o : o.level \in 1..6 /\ o.page \in 1..nav.pages)
Ends(s, i) == IF i < Len(s) /\ s[i + 1].page > s[i].page THEN s[i + 1].page - 1 ELSE nav.pages

Above(s, i) == {j \in 1..(i - 1) : s[j].level = s[i].level - 1}
Latest(J) == IF J = {} THEN 0 ELSE CHOOSE j \in J : \A k \in J : k <= j
\* In an outline a section closes those below it; among headings it does not.
OutlineParents(s) ==
    [i \in DOMAIN s |-> Latest({j \in Above(s, i) : \A k \in (j + 1)..(i - 1) : s[k].level >= s[j].level})]
HeadingParents(s) == [i \in DOMAIN s |-> Latest(Above(s, i))]

Sections(s, parents) ==
    [i \in DOMAIN s |-> [first |-> s[i].page, last |-> Ends(s, i), parent |-> parents[i],
                         priority |-> s[i].priority, runes |-> s[i].runes]]

\* Distinct pages, evenly distributed from the first to the last.
SamplePages ==
    LET count == Least(nav.pages, MaxSamples)
    IN  {IF count = 1 THEN 1 ELSE 1 + (i * (nav.pages - 1) + (count - 1) \div 2) \div (count - 1)
            : i \in 0..(count - 1)}
Samples == LET pages == SetToSortSeq(SamplePages, <)
           IN  [i \in DOMAIN pages |-> [first |-> pages[i], last |-> pages[i], parent |-> 0,
                                        priority |-> 3, runes |-> 1]]

Entries ==
    IF nav.parsed /\ Usable # <<>> THEN Sections(Usable, OutlineParents(Usable))
    ELSE IF nav.parsed /\ nav.headings # <<>> THEN Sections(nav.headings, HeadingParents(nav.headings))
    ELSE Samples

\* The narrowest entry that holds the page, the last of them; 0 when none does.
Holding(page) == {i \in DOMAIN Entries : page \in Entries[i].first..Entries[i].last}
InnermostEntry(page) ==
    Latest({i \in Holding(page) : \A j \in Holding(page) :
               Entries[i].last - Entries[i].first <= Entries[j].last - Entries[j].first})

-----------------------------------------------------------------------------
NoLocator == [kind |-> "none", at |-> 0, first |-> 0, last |-> 0]
NoCall == [tool |-> "none", source |-> 0, locator |-> NoLocator, from |-> 0]
Nothing == [code |-> "none"]

Init ==
    /\ doc \in Docs /\ nav \in Navs /\ body \in Bodies
    /\ source = [s \in Sources |-> "ready"] /\ objects = TRUE /\ expired = FALSE /\ lease = TRUE
    /\ call = NoCall /\ pc = "idle" /\ chain = <<>> /\ reply = Nothing

RemoveSource(s) ==
    /\ s \in Removable /\ source[s] = "ready"
    /\ source' = [source EXCEPT ![s] = "deleting"]
    /\ UNCHANGED <<doc, nav, body, objects, expired, lease, call, pc, chain, reply>>

DropObjects ==
    /\ source[1] = "deleting" /\ objects
    /\ objects' = FALSE
    /\ UNCHANGED <<doc, nav, body, source, expired, lease, call, pc, chain, reply>>

Purge(s) ==
    /\ source[s] = "deleting" /\ (s = 1 => ~objects)
    /\ source' = [source EXCEPT ![s] = "purged"]
    /\ UNCHANGED <<doc, nav, body, objects, expired, lease, call, pc, chain, reply>>

Expire ==
    /\ "result" \in Tools /\ ~expired
    /\ expired' = TRUE
    /\ UNCHANGED <<doc, nav, body, source, objects, lease, call, pc, chain, reply>>

LoseLease ==
    /\ lease /\ Removable # {}
    /\ lease' = FALSE
    /\ UNCHANGED <<doc, nav, body, source, objects, expired, call, pc, chain, reply>>

-----------------------------------------------------------------------------
\* What decodeReadSourceInput lets pass: a range of pages, an entry, or a unit
\* with first units before and last units after it.
Locators(s) ==
    {l \in [kind : {"pages"}, at : {0}, first : 1..nav.pages, last : 1..(nav.pages + 1)] :
        l.first <= l.last /\ l.last - l.first < PageRange}
    \cup [kind : {"entry"}, at : 1..(Len(Entries) + 1), first : {0}, last : {0}]
    \cup [kind : {"unit"}, at : 1..(Len(doc[s]) + 1), first : Neighbors, last : Neighbors]

Calls ==
    UNION {[tool : {"read"} \cap Tools, source : {s}, locator : Locators(s), from : 0..Len(doc[s])] : s \in Sources}
    \cup [tool : {"search"} \cap Tools, source : Sources \cup {0}, locator : {NoLocator}, from : {0}]
    \cup [tool : {"result", "inspect"} \cap Tools, source : {1}, locator : {NoLocator}, from : {0}]

\* One input of the model, and those that continue it: another one would start
\* from the same world.
Ask ==
    /\ call = NoCall /\ lease
    /\ call' \in Calls /\ pc' = "start"
    /\ UNCHANGED <<world, chain, reply>>

\* The model follows the next input that a reply gave it.
Continue ==
    /\ pc = "idle" /\ lease /\ reply.code = "read" /\ reply.next # 0
    /\ call' = [call EXCEPT !.from = reply.next]
    /\ pc' = "start" /\ reply' = Nothing
    /\ UNCHANGED <<world, chain>>

End(r) == pc' = "idle" /\ reply' = r
Fail(code) == End([code |-> code]) /\ UNCHANGED chain

\* A Source that is no longer ready takes all the pinned scope with it.
Pinned == \A s \in Sources : source[s] = "ready"
Asked == IF call.source = 0 THEN Sources ELSE {call.source}

LoadScope ==
    /\ pc = "start" /\ call.tool \in {"read", "search"}
    /\ \/ ~lease /\ Fail("lease_lost")
       \/ lease /\ ~Pinned /\ Fail("source_text_unavailable")
       \/ lease /\ Pinned /\ pc' = "scoped" /\ UNCHANGED <<chain, reply>>
    /\ UNCHANGED <<world, call>>

\* The units are read by revision, whatever the Source is by now.
LoadUnits ==
    /\ pc = "scoped"
    /\ \/ (\E s \in Asked : source[s] = "purged") /\ Fail("source_text_unavailable")
       \/ (\A s \in Asked : source[s] # "purged") /\ pc' = "loaded" /\ UNCHANGED <<chain, reply>>
    /\ UNCHANGED <<world, call>>

HasMap(s) == s = 1 /\ source[1] = "ready" /\ objects

-----------------------------------------------------------------------------
(* read_source.                                                             *)

Page(s, u) == doc[s][u].page
PageCount(s) == FoldLeft(LAMBDA n, u : Longest(n, u.page), 0, doc[s])
OnPages(s, first, last) == SetToSortSeq({u \in DOMAIN doc[s] : Page(s, u) \in first..last}, <)

\* The units a locator selects, in the order of the document.
Selected(c) ==
    LET l == c.locator
        s == c.source IN
    CASE l.kind = "unit" ->
            IF l.at \notin DOMAIN doc[s] THEN <<>>
            ELSE LET first == Longest(1, l.at - l.first)
                 IN  [i \in 1..(Least(Len(doc[s]), l.at + l.last) - first + 1) |-> first + i - 1]
      [] l.kind = "entry" ->
            IF l.at \notin DOMAIN Entries THEN <<>> ELSE OnPages(s, Entries[l.at].first, Entries[l.at].last)
      [] OTHER -> OnPages(s, l.first, l.last)

SelectCode(c) ==
    LET l == c.locator IN
    CASE l.kind = "pages" /\ PageCount(c.source) = 0 -> "page_range_unsupported"
      [] l.kind = "pages" /\ (l.last > PageCount(c.source) \/ Selected(c) = <<>>) -> "invalid_page_range"
      [] l.kind = "entry" /\ ~HasMap(c.source) -> "evidence_scope_unavailable"
      [] Selected(c) = <<>> -> "evidence_scope_unavailable"
      [] c.from # 0 /\ c.from \notin Range(Selected(c)) -> "evidence_scope_unavailable"
      [] OTHER -> "none"

\* Selected, from the unit to resume at.
Remaining(c) == SelectSeq(Selected(c), LAMBDA u : u >= c.from)

Shown(u, runes, cut) == [unit |-> u, runes |-> runes, cut |-> cut]
Whole(s, units) == [i \in DOMAIN units |-> Shown(units[i], doc[s][units[i]].runes, FALSE)]
\* The size of a reply that shows these and names what follows, if anything does.
ReadSize(units, rest) ==
    ReplyBase + Sum([i \in DOMAIN units |-> UnitCost + units[i].runes]) + IF rest THEN ReplyNext ELSE 0

\* Units are added as long as the reply fits; a first unit that does not fit is
\* cut to the longest prefix that does.
FitRead(s, units) ==
    LET Fits(n) == ReadSize(Whole(s, SubSeq(units, 1, n)), n < Len(units)) <= ReadLimit
        n == CHOOSE k \in 0..Len(units) : (\A j \in 1..k : Fits(j)) /\ (k < Len(units) => ~Fits(k + 1))
        runes == CHOOSE r \in 0..doc[s][units[1]].runes :
                    /\ ReadSize(<<Shown(units[1], r, TRUE)>>, Len(units) > 1) <= ReadLimit
                    /\ ReadSize(<<Shown(units[1], r + 1, TRUE)>>, Len(units) > 1) > ReadLimit
    IN  IF n > 0 THEN Whole(s, SubSeq(units, 1, n)) ELSE <<Shown(units[1], runes, TRUE)>>

ReadSource ==
    /\ pc = "loaded" /\ call.tool = "read"
    /\ \/ SelectCode(call) # "none" /\ Fail(SelectCode(call))
       \/ /\ SelectCode(call) = "none"
          /\ LET units == Remaining(call)
                 shown == FitRead(call.source, units)
             IN  /\ End([code |-> "read", units |-> shown, complete |-> Len(shown) = Len(units),
                         next |-> IF Len(shown) = Len(units) THEN 0 ELSE units[Len(shown) + 1]])
                 /\ chain' = chain \o shown
    /\ UNCHANGED <<world, call>>

-----------------------------------------------------------------------------
(* search_text.                                                             *)

Match(s, u) == [source |-> s, unit |-> u, page |-> Page(s, u),
                entry |-> IF Page(s, u) > 0 /\ HasMap(s) THEN InnermostEntry(Page(s, u)) ELSE 0]
\* A unit shows its first matches, and so does the whole.
MatchesOf(s) == FlattenSeq([u \in DOMAIN doc[s] |->
                    [k \in 1..Least(doc[s][u].hits, MaxPerUnit) |-> Match(s, u)]])
Hits(s) == Sum([u \in DOMAIN doc[s] |-> doc[s][u].hits])
Found(S) == LET order == SetToSortSeq(S, <) IN FlattenSeq([i \in DOMAIN order |-> MatchesOf(order[i])])
First(s, n) == SubSeq(s, 1, Least(n, Len(s)))

\* Matches are dropped from the end until the reply fits.
FitSearch(total, matches) ==
    LET room == (SearchLimit - ReplyBase) \div MatchCost
        kept == First(matches, room)
    IN  [code |-> "found", total |-> total, matches |-> kept, truncated |-> total > Len(kept)]

SearchSources ==
    /\ pc = "loaded" /\ call.tool = "search"
    /\ End(FitSearch(Sum([i \in 1..Cardinality(Asked) |-> Hits(SetToSortSeq(Asked, <)[i])]),
                     First(Found(Asked), MaxMatches)))
    /\ UNCHANGED <<world, call, chain>>

\* Where a token of the markdown starts in the stored result, and the line it
\* is in: escapes make a rune longer than it is.
Offset(i) == Sum([k \in 1..(i - 1) |-> body[k].width])
LineStart(i) == Latest({k \in 2..i : body[k - 1].line} \cup {1})
Hitting == SetToSortSeq({i \in DOMAIN body : body[i].hit}, <)

\* The result is put together from its pages, each of which may have expired.
SearchResult ==
    /\ pc = "start" /\ call.tool = "result"
    /\ \/ expired /\ Fail("tool_result_expired")
       \/ ~expired /\ pc' = "paged" /\ UNCHANGED <<chain, reply>>
    /\ UNCHANGED <<world, call>>
SearchPages ==
    /\ pc = "paged"
    /\ \/ expired /\ Fail("tool_result_expired")
       \/ ~expired /\ body = <<>> /\ Fail("result_ref_not_searchable")
       \/ /\ ~expired /\ body # <<>>
          /\ LET matches == [i \in DOMAIN Hitting |-> [at |-> Hitting[i], offset |-> Offset(LineStart(Hitting[i]))]]
             IN  End(FitSearch(Len(matches), First(matches, MaxMatches)))
          /\ UNCHANGED chain
    /\ UNCHANGED <<world, call>>

-----------------------------------------------------------------------------
(* inspect_source: the entries, each with a preview, and the pages they     *)
(* stand for, shortened until the reply fits.                               *)

\* Headings of interest first, then both ends, then evenly between them, then
\* the rest, as long as there is room; shown in the order of the document.
Selection ==
    LET n     == Len(Entries)
        ids   == [i \in 1..n |-> i]
        order == SelectSeq(ids, LAMBDA i : Entries[i].priority < 3) \o <<1, n>>
                 \o [k \in 1..MaxEntries |-> 1 + ((k - 1) * (n - 1)) \div (MaxEntries - 1)] \o ids
        taken == {order[k] : k \in {j \in DOMAIN order : Cardinality({order[i] : i \in 1..j}) <= MaxEntries}}
    IN  SetToSortSeq(taken, <)

\* The first unit of its pages that is no heading; or the first.
PreviewUnit(e) ==
    LET on   == {u \in DOMAIN doc[1] : Page(1, u) > 0 /\ Page(1, u) \in Entries[e].first..Entries[e].last}
        text == {u \in on : ~doc[1][u].heading}
        pick == IF text # {} THEN text ELSE on
    IN  IF pick = {} THEN 0 ELSE CHOOSE u \in pick : \A v \in pick : u <= v

Preview(e) ==
    LET u == PreviewUnit(e)
        ids == Range(Selection)
    IN  [entry |-> e, unit |-> u, had |-> u # 0,
         parent |-> IF Entries[e].parent \in ids THEN Entries[e].parent ELSE 0,
         runes |-> IF u = 0 THEN 0 ELSE Least(doc[1][u].runes, PreviewRunes)]

AbstractOf(shown) ==
    LET at == {i \in DOMAIN shown : Entries[shown[i].entry].priority = 0}
        i  == CHOOSE x \in at : \A y \in at : x <= y
    IN  IF at = {} \/ shown[i].runes = 0 THEN -1 ELSE shown[i].runes

\* Ranges are merged when they overlap or touch, and the gaps are the rest.
Merged(shown) ==
    LET Before(a, b) == a[1] < b[1] \/ (a[1] = b[1] /\ a[2] < b[2])
        ranges == SetToSortSeq({<<Entries[x.entry].first, Entries[x.entry].last>> : x \in Range(shown)}, Before)
        Join(m, r) == IF m = <<>> \/ r[1] > Last(m)[2] + 1 THEN Append(m, r)
                      ELSE [m EXCEPT ![Len(m)] = <<@[1], Longest(@[2], r[2])>>]
    IN  FoldLeft(Join, <<>>, ranges)
Gaps(merged) ==
    LET Step(a, r) == [next |-> Longest(a.next, r[2] + 1),
                       gaps |-> IF a.next < r[1] THEN Append(a.gaps, <<a.next, r[1] - 1>>) ELSE a.gaps]
        end == FoldLeft(Step, [next |-> 1, gaps |-> <<>>], merged)
    IN  IF end.next <= nav.pages THEN Append(end.gaps, <<end.next, nav.pages>>) ELSE end.gaps

Covered(r) ==
    LET uncovered == Gaps(Merged(r.shown))
        omitted   == Cardinality({i \in DOMAIN r.shown : r.shown[i].had /\ r.shown[i].runes = 0})
    IN  [r EXCEPT !.represented = Merged(r.shown), !.uncovered = uncovered,
                  !.truncated = Len(r.shown) < Len(Entries) \/ omitted > 0 \/ uncovered # <<>>]

InspectSource ==
    /\ pc = "start" /\ call.tool = "inspect"
    /\ \/ ~lease /\ Fail("lease_lost")
       \/ lease /\ (~Research \/ source[1] # "ready" \/ PageCount(1) = 0) /\ Fail("source_not_inspectable")
       \/ lease /\ Research /\ source[1] = "ready" /\ PageCount(1) > 0 /\ pc' = "inspecting" /\ UNCHANGED <<chain, reply>>
    /\ UNCHANGED <<world, call>>

\* The artifact is read after the transaction; the object may be gone.
BuildProjection ==
    /\ pc = "inspecting"
    /\ \/ ~objects /\ Fail("source_inspection_unavailable")
       \/ /\ objects /\ pc' = "fitting"
          /\ LET shown == [i \in DOMAIN Selection |-> Preview(Selection[i])]
             IN  reply' = [code |-> "inspected", shown |-> shown, abstract |-> AbstractOf(shown),
                           represented |-> <<>>, uncovered |-> <<>>, truncated |-> FALSE]
          /\ UNCHANGED chain
    /\ UNCHANGED <<world, call>>

InspectSize(r) ==
    Sum([i \in DOMAIN r.shown |-> EntryCost + Entries[r.shown[i].entry].runes + r.shown[i].runes])
      + IF r.abstract = -1 THEN 0 ELSE 1 + r.abstract

\* One round of fitSourceInspectionResult: the longest text is halved, an
\* abstract before a preview; then entries go, the last one first.
Shorter(r) ==
    LET most == FoldLeft(LAMBDA n, x : Longest(n, x.runes), 0, r.shown)
        i    == CHOOSE k \in DOMAIN r.shown : r.shown[k].runes = most /\ \A j \in 1..(k - 1) : r.shown[j].runes < most
        half == IF most \div 2 < MinPreview THEN 0 ELSE most \div 2
    IN  IF r.abstract > most THEN [r EXCEPT !.abstract = @ \div 2]
        ELSE IF most > 0
        THEN [r EXCEPT !.shown[i] = [@ EXCEPT !.runes = half, !.unit = IF half = 0 THEN 0 ELSE @]]
        ELSE IF r.abstract # -1 THEN [r EXCEPT !.abstract = -1]
        ELSE [r EXCEPT !.shown = Front(@)]

FitInspection ==
    /\ pc = "fitting"
    /\ \/ InspectSize(reply) <= InspectLimit /\ End(Covered(reply)) /\ UNCHANGED chain
       \/ InspectSize(reply) > InspectLimit /\ Shorter(reply).shown # <<>>
            /\ reply' = Shorter(reply) /\ UNCHANGED <<pc, chain>>
       \/ InspectSize(reply) > InspectLimit /\ Shorter(reply).shown = <<>> /\ Fail("source_inspection_unavailable")
    /\ UNCHANGED <<world, call>>

-----------------------------------------------------------------------------
Next ==
    \/ \E s \in Sources : RemoveSource(s) \/ Purge(s)
    \/ DropObjects \/ Expire \/ LoseLease
    \/ Ask \/ Continue
    \/ LoadScope \/ LoadUnits \/ ReadSource \/ SearchSources
    \/ SearchResult \/ SearchPages
    \/ InspectSource \/ BuildProjection \/ FitInspection

Spec == Init /\ [][Next]_vars

-----------------------------------------------------------------------------
TypeOK ==
    /\ pc \in {"idle", "start", "scoped", "loaded", "paged", "inspecting", "fitting"}
    /\ source \in [Sources -> {"ready", "deleting", "purged"}]
    /\ call \in Calls \cup {NoCall}
    /\ pc \in {"start", "scoped", "loaded", "paged", "inspecting"} => reply = Nothing

(* Following next reads what the locator selects, every unit once and in    *)
(* order, and says complete exactly at its end; each reply shows something, *)
(* and a unit is shown in part only when no reply has room for all of it.   *)
ReadsInOrder ==
    reply.code = "read" =>
        LET units == Selected(call)
            start == CHOOSE i \in DOMAIN units : units[i] = chain[1].unit
        IN  /\ chain # <<>> /\ reply.units # <<>>
            /\ ReadSize(reply.units, ~reply.complete) <= ReadLimit
            /\ start + Len(chain) - 1 <= Len(units)
            /\ \A i \in DOMAIN chain : chain[i].unit = units[start + i - 1]
            /\ reply.complete = (start + Len(chain) - 1 = Len(units))
            /\ \A i \in DOMAIN chain :
                  LET whole == doc[call.source][chain[i].unit].runes IN
                  IF chain[i].cut
                  THEN chain[i].runes < whole /\ chain[i].runes > 0
                       /\ ReadSize(<<Shown(chain[i].unit, whole, FALSE)>>, start + i - 1 < Len(units)) > ReadLimit
                  ELSE chain[i].runes = whole

(* A search that does not say truncated shows every match; whatever it      *)
(* shows can be read at: the entry it names has the unit on its pages, and  *)
(* the offset it names is that of the line the match is in.                 *)
MatchesAreReachable ==
    reply.code = "found" =>
        /\ reply.truncated = (Len(reply.matches) < reply.total)
        /\ call.tool = "search" => \A i \in DOMAIN reply.matches :
              LET x == reply.matches[i] IN
              /\ x.source \in Asked
              /\ x.entry # 0 => x.unit \in Range(Selected([call EXCEPT !.source = x.source,
                                    !.locator = [NoLocator EXCEPT !.kind = "entry", !.at = x.entry]]))
        /\ call.tool = "result" => \A i \in DOMAIN reply.matches :
              LET x == reply.matches[i] IN
              \E k \in 1..x.at : /\ Offset(k) = x.offset
                                 /\ \A j \in k..(x.at - 1) : ~body[j].line
                                 /\ k = 1 \/ body[k - 1].line

(* The map reaches every page from the first section on, in page samples    *)
(* from the first page to the last; a parent precedes its sections.         *)
MapReachesAll ==
    LET pages == UNION {Entries[i].first..Entries[i].last : i \in DOMAIN Entries}
        first == CHOOSE p \in pages : \A q \in pages : p <= q
    IN  /\ \A i \in DOMAIN Entries : Entries[i].first <= Entries[i].last /\ Entries[i].parent < i
        /\ Entries # Samples => pages = first..nav.pages
        /\ Entries = Samples => {1, nav.pages} \subseteq pages /\ Len(Entries) = Least(nav.pages, MaxSamples)

(* What an inspection leaves out it says: the pages it stands for and the   *)
(* others are the document, and one that is not truncated has every entry   *)
(* with a preview where there is text.  A preview is of the entry's pages,  *)
(* and a parent is shown above its sections.                                *)
PagesOf(ranges) == UNION {r[1]..r[2] : r \in Range(ranges)}
InspectionIsHonest ==
    pc = "idle" /\ reply.code = "inspected" =>
        LET shown == [i \in DOMAIN reply.shown |-> reply.shown[i].entry] IN
        /\ PagesOf(reply.represented) = UNION {Entries[e].first..Entries[e].last : e \in Range(shown)}
        /\ PagesOf(reply.represented) \cup PagesOf(reply.uncovered) = 1..nav.pages
        /\ PagesOf(reply.represented) \cap PagesOf(reply.uncovered) = {}
        /\ \A i \in 2..Len(reply.represented) : reply.represented[i][1] > reply.represented[i - 1][2] + 1
        /\ InspectSize(reply) <= InspectLimit
        /\ \A i \in DOMAIN shown :
              LET x == reply.shown[i] IN
              /\ x.parent = 0 \/ \E j \in 1..(i - 1) : shown[j] = x.parent
              /\ (x.runes = 0) = (x.unit = 0)
              /\ x.unit # 0 => Page(1, x.unit) \in Entries[x.entry].first..Entries[x.entry].last
        /\ ~reply.truncated =>
              /\ shown = [i \in DOMAIN Entries |-> i]
              /\ \A i \in DOMAIN shown : PreviewUnit(i) # 0 => reply.shown[i].runes > 0

=============================================================================
