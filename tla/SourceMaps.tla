----------------------------- MODULE SourceMaps -----------------------------
(***************************************************************************)
(* The Source Map of a PDF (internal/sourcemap): every attempt of the      *)
(* processing Job builds the map again, writes it to the object store      *)
(* under a key made of the parser's identity and the kind of navigation,   *)
(* appends the row that refers to it, and deletes the object when the row  *)
(* could not be appended.                                                  *)
(***************************************************************************)
EXTENDS Naturals

CONSTANTS Workers,       \* attempts that may overlap
          Maps,          \* maps the parser or its fallback may yield: [key, body]
          NoMap,
          AttemptLimit,  \* leases of the processing Job
          Faults         \* TRUE: a statement may fail or its outcome be unknown

\* Of the constants; the MC modules that instantiate this one assume it.
SourceMapsAssumption ==
    /\ AttemptLimit \in Nat \ {0}
    /\ Faults \in BOOLEAN
    /\ NoMap \notin Maps

VARIABLES
    row,       \* source_maps: the map the row describes
    objects,   \* object store: the map under each key
    w,         \* workers: pc and the map they built
    source,    \* processing, ready or failed
    attempts,  \* leases taken
    holder     \* worker of the newest lease

vars == <<row, objects, w, source, attempts, holder>>

Keys == {x.key : x \in Maps}

Init ==
    /\ row = NoMap
    /\ objects = [k \in Keys |-> NoMap]
    /\ w = [p \in Workers |-> [pc |-> "idle", map |-> NoMap]]
    /\ source = "processing"
    /\ attempts = 0
    /\ holder = NoMap

(* The Job is leased, or leased again after an attempt that did not end it.*)
Claim(p) ==
    /\ source = "processing" /\ attempts < AttemptLimit
    /\ w[p].pc = "idle"
    /\ attempts' = attempts + 1
    /\ holder' = p
    /\ w' = [w EXCEPT ![p] = [pc |-> "build", map |-> NoMap]]
    /\ UNCHANGED <<row, objects, source>>

Exhausted ==
    /\ source = "processing" /\ attempts = AttemptLimit
    /\ source' = "failed"
    /\ holder' = NoMap
    /\ UNCHANGED <<row, objects, w, attempts>>

(* ParsePDF, or the page samples that stand in for it. *)
BuildArtifact(p) ==
    /\ w[p].pc = "build"
    /\ \E x \in Maps : w' = [w EXCEPT ![p] = [pc |-> "put", map |-> x]]
    /\ UNCHANGED <<row, objects, source, attempts, holder>>

Put(p) ==
    /\ w[p].pc = "put"
    /\ objects' = [objects EXCEPT ![w[p].map.key] = w[p].map]
    /\ w' = [w EXCEPT ![p].pc = "append"]
    /\ UNCHANGED <<row, source, attempts, holder>>

(* on conflict do nothing, and an existing row must describe the same map. *)
Append(p) ==
    /\ w[p].pc = "append"
    /\ \/ /\ row \in {NoMap, w[p].map}
          /\ row' = w[p].map
          /\ \/ w' = [w EXCEPT ![p].pc = "mapped"]
             \/ Faults /\ w' = [w EXCEPT ![p].pc = "clean"]
       \/ /\ row \notin {NoMap, w[p].map} \/ Faults
          /\ w' = [w EXCEPT ![p].pc = "clean"]
          /\ UNCHANGED row
    /\ UNCHANGED <<objects, source, attempts, holder>>

(* The object is deleted without looking at who else refers to its key;    *)
(* an idle worker that still names a map is one whose map was refused.     *)
Clean(p) ==
    /\ w[p].pc = "clean"
    /\ objects' = [objects EXCEPT ![w[p].map.key] = NoMap]
    /\ w' = [w EXCEPT ![p].pc = "idle"]
    /\ UNCHANGED <<row, source, attempts, holder>>

(* The rest of ProcessLease, under the lease. *)
Finish(p) ==
    /\ w[p].pc = "mapped" /\ holder = p
    /\ source' = "ready"
    /\ holder' = NoMap
    /\ w' = [w EXCEPT ![p] = [pc |-> "idle", map |-> NoMap]]
    /\ UNCHANGED <<row, objects, attempts>>

(* The worker dies, or the rest of its attempt ends without an outcome. *)
Crash(p) ==
    /\ w[p].pc # "idle"
    /\ Faults \/ w[p].pc = "mapped"
    /\ w' = [w EXCEPT ![p] = [pc |-> "idle", map |-> NoMap]]
    /\ UNCHANGED <<row, objects, source, attempts, holder>>

Next ==
    \/ \E p \in Workers :
        Claim(p) \/ BuildArtifact(p) \/ Put(p) \/ Append(p) \/ Clean(p) \/ Finish(p) \/ Crash(p)
    \/ Exhausted

Spec == Init /\ [][Next]_vars

(* Type correctness. *)
(* The row of source_maps: there is one of a revision.                     *)
MapRows == Maps \cup {NoMap}
TypeOK ==
    /\ row \in MapRows
    /\ \A k \in Keys : objects[k] = NoMap \/ (objects[k] \in Maps /\ objects[k].key = k)
    /\ \A p \in Workers :
        /\ w[p].pc \in {"idle", "build", "put", "append", "clean", "mapped"}
        /\ w[p].map \in Maps \cup {NoMap}
    /\ source \in {"processing", "ready", "failed"}
    /\ attempts \in 0..AttemptLimit

(* The row, once there, is never rewritten (trigger source_maps_immutable  *)
(* and on conflict do nothing), and a ready PDF has one.                   *)
RowImmutable == [][row # NoMap => row' = row]_vars
ReadyHasMap == source = "ready" => row # NoMap

(* An object without a row is one an attempt still works on: a refused map *)
(* is cleaned by the attempt that wrote it.                                *)
NoOrphans ==
    \A k \in Keys :
        objects[k] # NoMap /\ (row = NoMap \/ row.key # k) =>
            \E p \in Workers : w[p].pc \in {"append", "clean", "put"} /\ w[p].map.key = k

(* inspection notes :348: "the Source Map is permanent and immutable": the *)
(* object of a ready PDF is the one its row describes.                     *)
(* Does not hold: see "Disagreements" in the README.                        *)
MapPermanent == source = "ready" => objects[row.key] = row

(* inspection notes :274: "A failed rich structure parse should not make   *)
(* an otherwise searchable Source unusable": no Source fails with its last *)
(* word a refused map.                                                     *)
(* Does not hold: see "Disagreements" in the README.                        *)
ParserFailureHarmless ==
    source = "failed" => ~\E p \in Workers : w[p].pc = "idle" /\ w[p].map # NoMap
=============================================================================
