------------------------- MODULE MCPipelineResolver -------------------------
(* Pipelines as the templates of dag_builder.py shape them, for TLC. *)
EXTENDS PipelineResolver, TLC

CONSTANTS a, b, c, d, MaxPauses, MaxStale, MaxReaps, MaxTask, MaxPipe

\* One task feeding two that are joined: embeddings and BM25 index, then summary.
Diamond == [n \in {a, b, c, d} |-> CASE n = a -> {} [] n \in {b, c} -> {a} [] n = d -> {b, c}]
\* Two independent parents of one task.
Join == [n \in {a, b, c} |-> IF n = c THEN {a, b} ELSE {}]
\* A chain with a shortcut: c needs both its parent and its grandparent.
Shortcut == [n \in {a, b, c} |-> CASE n = a -> {} [] n = b -> {a} [] n = c -> {a, b}]
\* One task after another.
Chain == [n \in {a, b} |-> IF n = a THEN {} ELSE {a}]

MCLimit == [r \in Request |-> CASE r = "pause" -> MaxPauses
                                [] r = "stalePause" -> MaxStale
                                [] r = "reap"  -> MaxReaps
                                [] r \in {"cancel", "retry"} -> MaxTask
                                [] OTHER       -> MaxPipe]
=============================================================================
