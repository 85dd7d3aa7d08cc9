----------------------------- MODULE MCJobQueue -----------------------------
(* JobQueue on a small instance: two jobs that share a queue, and a worker  *)
(* and a delayed scheduler in each of two processes.                        *)
EXTENDS JobQueue, TLC

CONSTANTS j1, j2, w1, w2, p1, p2

OneType == {"transcribe"}
TwoOfOneType == (j1 :> "transcribe" @@ j2 :> "transcribe")
HomeTwo == (w1 :> p1 @@ w2 :> p2)
ServeOne == (w1 :> "transcribe" @@ w2 :> "transcribe")
=============================================================================
