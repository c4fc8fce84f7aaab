--------------------------- MODULE MCCheckpoints ---------------------------
(* Small instances of Checkpoints for TLC: read is replay-safe and parallel, *)
(* effect is parallel but must not run twice, note is replay-safe and        *)
(* ordered.                                                                  *)
EXTENDS Checkpoints

MCBatches   == {<<"read", "effect">>, <<"note", "read">>}
MCReplaySafe == {"read", "note"}
MCParallel  == {"read", "effect"}
=============================================================================
