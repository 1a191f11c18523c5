--------------------------- MODULE MCObservability ---------------------------
(***************************************************************************)
(* A small instance of Observability: a chart reads the catalogue first,   *)
(* and the summary competes with both for two entries of the cache.        *)
(***************************************************************************)
EXTENDS Observability

CONSTANTS catalog, metric, summary, v1, v2, v3

MCKeys == {catalog, metric, summary}
MCWants == {<<catalog, metric>>, <<summary>>}
MCViewers == {v1, v2, v3}
=============================================================================
