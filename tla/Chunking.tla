------------------------------ MODULE Chunking ------------------------------
(***************************************************************************)
(* How src/src/memory/chunk.ts cuts the text of a message into slices for  *)
(* the embedding model: splitBody, one step for each turn of its loop.     *)
(* Positions count UTF-16 code units, of which only the halves of a        *)
(* surrogate pair matter.  MemoryIndex knows the number of the slices.     *)
(***************************************************************************)
EXTENDS Integers, Sequences

CONSTANTS
  Texts,         \* texts to cut, as sequences of code units
  ChunkSize,     \* CHUNK_SIZE (1500)
  ChunkOverlap   \* CHUNK_OVERLAP (200)

CodeUnits == {"high", "low", "other"}

\* With a smaller difference the next slice could start where this one does.
ASSUME ChunkingAssumption ==
  /\ Texts \subseteq Seq(CodeUnits)
  /\ ChunkSize \in Nat /\ ChunkOverlap \in Nat
  /\ ChunkOverlap + 2 < ChunkSize

VARIABLES
  text,
  start,
  slices,   \* from the first code unit after `from` to the one at `to`
  split     \* the loop has ended

chunking == <<text, start, slices, split>>

ChunkingInit == text \in Texts /\ start = 0 /\ slices = <<>> /\ split = FALSE

\* A defect: the text is cut wherever the size says.
SnapSplitIndex_Never(index) == index

SnapSplitIndex(index) ==
  IF index \in 1 .. Len(text) - 1 /\ text[index] = "high" THEN index - 1 ELSE index

WholeBody ==
  /\ ~split /\ Len(text) <= ChunkSize
  /\ slices' = <<[from |-> 0, to |-> Len(text)]>>
  /\ split' = TRUE
  /\ UNCHANGED <<text, start>>

NextSlice ==
  /\ ~split /\ Len(text) > ChunkSize
  /\ LET size == IF start + ChunkSize < Len(text) THEN start + ChunkSize ELSE Len(text)
         end  == SnapSplitIndex(size)
         one  == end <= start
         to   == IF one THEN start + 1 ELSE end
         next == IF one THEN start + 1 ELSE SnapSplitIndex(end - ChunkOverlap)
     IN /\ slices' = Append(slices, [from |-> start, to |-> to])
        /\ split' = (to >= Len(text) \/ next >= Len(text))
        /\ start' = IF split' THEN start ELSE next
  /\ UNCHANGED text

ChunkingNext == WholeBody \/ NextSlice

ChunkingSpec == ChunkingInit /\ [][ChunkingNext]_chunking

-----------------------------------------------------------------------------
CutsPair(index) ==
  index \in 1 .. Len(text) - 1 /\ text[index] = "high" /\ text[index + 1] = "low"

(* "So a sentence that spans a chunk boundary appears intact in at least   *)
(* one chunk" and "splits must not cut a UTF-16 surrogate pair"            *)
(* (memory_contract.md): no slice is longer than the chunk size or begins  *)
(* or ends inside a pair, and when the text has been cut every stretch no  *)
(* longer than the overlap lies whole in some slice, so nothing is lost.   *)
SlicesWhole ==
  /\ \A k \in DOMAIN slices :
       /\ slices[k].to - slices[k].from <= ChunkSize
       /\ ~CutsPair(slices[k].from) /\ ~CutsPair(slices[k].to)
  /\ split => \A a \in 0 .. Len(text) : \A b \in a .. Len(text) :
       b <= a + ChunkOverlap =>
         \E k \in DOMAIN slices : slices[k].from <= a /\ b <= slices[k].to

(* What makes it inductive: the slices follow one another from the start   *)
(* of the text, each further on than the last and overlapping it, and the  *)
(* next one will.                                                          *)
Follows(from, slice) == slice.from < from /\ from + ChunkOverlap <= slice.to

SlicesFollow ==
  /\ text \in Texts /\ split \in BOOLEAN
  /\ slices \in Seq([from : Nat, to : Nat]) /\ start \in 0 .. Len(text)
  /\ \A k \in DOMAIN slices :
       /\ slices[k].to <= Len(text) /\ slices[k].to - slices[k].from <= ChunkSize
       /\ ~CutsPair(slices[k].from) /\ ~CutsPair(slices[k].to)
  /\ \A k \in DOMAIN slices :
       IF k = 1 THEN slices[k].from = 0 ELSE Follows(slices[k].from, slices[k - 1])
  /\ IF split THEN slices # <<>> /\ slices[Len(slices)].to = Len(text)
     ELSE /\ ~CutsPair(start)
          /\ IF slices = <<>> THEN start = 0
             ELSE start < Len(text) /\ Follows(start, slices[Len(slices)])
=============================================================================
