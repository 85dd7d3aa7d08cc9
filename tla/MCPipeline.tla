----------------------------- MODULE MCPipeline -----------------------------
(* Pipeline on small instances: a room with one recording, or with two.    *)
EXTENDS Pipeline

CONSTANTS e1, e2, none
=============================================================================
