------------------------------ MODULE MapReduce ------------------------------
(***************************************************************************)
(* Summarising a transcript that may be too long for one call of the       *)
(* model: the window that slides over it, the call for each chunk, and the *)
(* call that merges the partial summaries.  Positions count runes.         *)
(***************************************************************************)
EXTENDS Integers, Sequences

CONSTANTS
  Lengths,   \* lengths of transcripts
  Windows    \* what splitIntoChunks is called with: maxSize and overlap

ASSUME MapReduceAssumption ==
  /\ Lengths \subseteq Nat
  /\ Windows \subseteq [max : Nat \ {0}, overlap : Nat]

VARIABLES
  doc,      \* length of the transcript, and the window
  phase,    \* where Summarize is
  start,    \* where the next chunk starts
  chunks,   \* chunks so far, [from, to)
  partials  \* the chunk that each partial summary is of

mapReduceVars == <<doc, phase, start, chunks, partials>>

Phases == {"called", "whole", "split", "map", "reduce", "done", "failed"}
MapReduceTypeOK ==
  /\ doc \in [len : Lengths, window : Windows]
  /\ phase \in Phases
  /\ start \in Nat
  /\ chunks \in Seq([from : Nat, to : Nat])
  /\ partials \in Seq(Nat)

MapReduceInit ==
  /\ doc \in [len : Lengths, window : Windows]
  /\ phase = "called" /\ start = 0 /\ chunks = <<>> /\ partials = <<>>

\* A transcript that fits is sent in one call.
Summarize ==
  /\ phase = "called"
  /\ phase' = IF doc.len <= doc.window.max THEN "whole" ELSE "split"
  /\ UNCHANGED <<doc, start, chunks, partials>>

\* A step that trusts the overlap to be smaller than the chunk.
StepUnguarded(w) == w.max - w.overlap

Step(w) == IF w.max - w.overlap <= 0 THEN w.max ELSE w.max - w.overlap

\* A loop that stops where the next chunk would start at the end or after it,
\* without looking at where this one ended.
LastChunkByStart(to) == start + Step(doc.window) >= doc.len

\* The loop breaks at the chunk that reaches the end.
LastChunk(to) == to = doc.len \/ start + Step(doc.window) >= doc.len

\* One turn of the loop of splitIntoChunks.
Split ==
  /\ phase = "split"
  /\ LET end == start + doc.window.max
         to == IF end > doc.len THEN doc.len ELSE end
     IN /\ chunks' = Append(chunks, [from |-> start, to |-> to])
        /\ phase' = IF LastChunk(to) THEN "map" ELSE "split"
  /\ start' = start + Step(doc.window)
  /\ UNCHANGED <<doc, partials>>

\* A failed chunk that is left out of the summary.
MapChunkSkips ==
  /\ phase = "map"
  /\ \E read \in {<<>>, <<Len(partials) + 1>>} :
       /\ partials' = partials \o read
       /\ phase' = IF read = <<>> \/ Len(partials) + 1 = Len(chunks) THEN "reduce" ELSE "map"
  /\ UNCHANGED <<doc, start, chunks>>

\* One call per chunk, in order; one that fails fails the whole.
MapChunk ==
  /\ phase = "map"
  /\ \/ /\ partials' = Append(partials, Len(partials) + 1)
        /\ phase' = IF Len(partials) + 1 = Len(chunks) THEN "reduce" ELSE "map"
     \/ phase' = "failed" /\ UNCHANGED partials
  /\ UNCHANGED <<doc, start, chunks>>

\* chat: the last call, on the whole transcript or on the partial summaries.  It
\* fails on a transport error, a status, an answer cut at max_tokens or not JSON.
Chat ==
  /\ phase \in {"whole", "reduce"}
  /\ phase' \in {"done", "failed"}
  /\ UNCHANGED <<doc, start, chunks, partials>>

\* The job is retried from the start: nothing of a failed attempt is kept.
SummarizeAgain ==
  /\ phase = "failed"
  /\ phase' = "called" /\ start' = 0 /\ chunks' = <<>> /\ partials' = <<>>
  /\ UNCHANGED doc

MapReduceNext == Summarize \/ Split \/ MapChunk \/ Chat \/ SummarizeAgain
MapReduceSpec == MapReduceInit /\ [][MapReduceNext]_mapReduceVars

-----------------------------------------------------------------------------
Overlap == IF doc.window.overlap < doc.window.max THEN doc.window.overlap ELSE 0

\* The chunks so far cover the transcript from its start without a gap, each
\* begins in the tail of the one before by exactly the overlap, none is larger
\* than the model takes, and none lies inside the one before it: a last chunk
\* that only repeats what was sent would cost a call and count its words twice.
\* When the loop has ended they reach the end.
ChunksCover ==
  /\ \A i \in 1..Len(chunks) :
       chunks[i].from < chunks[i].to /\ chunks[i].to - chunks[i].from <= doc.window.max
  /\ \A i \in 1..(Len(chunks) - 1) :
       /\ chunks[i].to - chunks[i + 1].from = Overlap
       /\ chunks[i].from < chunks[i + 1].from /\ chunks[i].to < chunks[i + 1].to
  /\ chunks # <<>> => chunks[1].from = 0
  /\ chunks # <<>> /\ phase # "split" => chunks[Len(chunks)].to = doc.len

\* A summary rests on the whole transcript: it is made of one partial summary of
\* each chunk, in the order of the meeting, or of one call that saw all of it.
SummaryRestsOnAll == phase \in {"reduce", "done"} =>
  /\ partials = [i \in 1..Len(chunks) |-> i]
  /\ chunks = <<>> => doc.len <= doc.window.max
=============================================================================
