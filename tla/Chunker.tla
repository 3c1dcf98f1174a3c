------------------------------ MODULE Chunker ------------------------------
(***************************************************************************)
(* Chunker.split: the sliding window over a text.  A text is a length and  *)
(* the set of its blank positions; a position is a token, or a character   *)
(* where tiktoken is not installed.  A chunk is the range of positions     *)
(* that strip() leaves of a window.                                        *)
(***************************************************************************)
EXTENDS Integers, Sequences

CONSTANTS
  Sizes,     \* chunk_token_size, any of these
  Overlaps,  \* chunk_overlap_tokens, any of these
  Lengths    \* the lengths of the texts

\* The constructor checks neither: both are settings nobody sets below this.
ASSUME SettingsAssumption == Sizes \subseteq Nat \ {0} /\ Overlaps \subseteq Nat

ASSUME LengthsAssumption == Lengths \subseteq Nat

VARIABLES
  size, overlap,  \* the chunker's settings, in positions
  len, blank,     \* the text
  phase,          \* where split is
  start,          \* the loop variable
  chunks          \* the result so far

input == <<size, overlap, len, blank>>
vars == <<size, overlap, len, blank, phase, start, chunks>>

Positions == 0..(len - 1)
Solid == Positions \ blank
Chunk == [from : Nat, to : Nat]

Least(a, b) == IF a <= b THEN a ELSE b

\* _CHARS_PER_TOKEN: what a token counts for in characters.
CharsPerToken == 4

\* Mutants: the next window starts where this one ends, the difference is
\* taken the wrong way round, or the overlap is taken for the stride.
StrideOfSize == size
StrideNegated == overlap - size
StrideOfOverlap == overlap

Stride == size - overlap

\* The end of the window at start, exclusive.
WindowEnd == Least(start + size, len)

\* Mutant: the end is taken to be inclusive.
WindowWithEnd == {p \in Solid : start <= p /\ p <= WindowEnd}

\* What is not blank in the window.
Window == {p \in Solid : start <= p /\ p < WindowEnd}

\* strip(): f is the first position of w, and t the last.
Stripped(f, t, w) == \A p \in w : f <= p /\ p <= t

-----------------------------------------------------------------------------

\* The constructor's only check is overlap < size.
Init ==
  /\ \E s \in Sizes, o \in Overlaps, unit \in {1, CharsPerToken} :
       /\ o < s
       /\ size = s * unit
       /\ overlap = o * unit
  /\ len \in Lengths
  /\ blank \in SUBSET Positions
  /\ phase = "begin"
  /\ start = 0
  /\ chunks = <<>>

\* A blank text has no chunks.
Begin ==
  /\ phase = "begin"
  /\ phase' = IF Solid = {} THEN "done" ELSE "loop"
  /\ UNCHANGED <<input, start, chunks>>

\* Mutant: a text that fills its last window exactly gets one window more.
AdvanceOnEqual ==
  IF start + size > len
  THEN phase' = "done" /\ UNCHANGED start
  ELSE start' = start + Stride /\ UNCHANGED phase

\* The break when the window has reached the end of the text.
Advance ==
  IF WindowEnd = len
  THEN phase' = "done" /\ UNCHANGED start
  ELSE start' = start + Stride /\ UNCHANGED phase

\* One turn of the loop.  A window that is all blank is skipped.
Slide ==
  /\ phase = "loop"
  /\ start < len
  /\ IF Window = {}
     THEN UNCHANGED chunks
     ELSE \E f, t \in Window :
            /\ Stripped(f, t, Window)
            /\ chunks' = Append(chunks, [from |-> f, to |-> t])
  /\ Advance
  /\ UNCHANGED input

Next == Begin \/ Slide

Spec == Init /\ [][Next]_vars

\* split() runs to its end without waiting for anything.
FairSpec == Spec /\ WF_vars(Next)

-----------------------------------------------------------------------------
\* Properties.

\* The variables keep to their types; the window never moves below 0.
TypeOK ==
  /\ size \in Nat \ {0} /\ overlap \in Nat /\ overlap < size
  /\ len \in Nat /\ blank \subseteq Positions
  /\ phase \in {"begin", "loop", "done"}
  /\ start \in Nat
  /\ chunks \in Seq(Chunk)

\* Positions p and q are in the same chunk.
Together(p, q) ==
  \E i \in DOMAIN chunks : chunks[i].from <= p /\ q <= chunks[i].to

\* What the overlap is for: two positions at most an overlap apart are in
\* one chunk, wherever the windows fall and however much of them strip()
\* and the skipping of blank windows take away.  With p = q: nothing of the
\* text is lost.
ContextKept ==
  phase = "done" =>
    \A p, q \in Solid : p <= q /\ q <= p + overlap => Together(p, q)

\* No chunk is longer than the embedding model has been promised, and none
\* begins or ends with a blank.
ChunksFit ==
  \A i \in DOMAIN chunks :
    /\ chunks[i].to - chunks[i].from < size
    /\ {chunks[i].from, chunks[i].to} \subseteq Solid

\* The loop ends by its break: the window never starts past the end of the
\* text, so nothing is cut off and no chunk repeats only the last overlap.
BreaksInTime == phase = "loop" => start < len /\ (start > 0 => start + overlap < len)

\* No chunk is embedded that the text does not need: the last one starts
\* where more than an overlap was left, after as many strides as there are
\* chunks before it.
NoneTooMany == Len(chunks) > 1 => (Len(chunks) - 1) * Stride + overlap < len

\* What split has still to do: to look at the text, and then to pass what the
\* windows have not left behind.
Left ==
  CASE phase = "begin" -> len + 1
    [] phase = "loop"  -> len - start
    [] phase = "done"  -> 0

\* No turn of the loop leaves as much to do as it found, and none goes past
\* the end: a text of n positions takes at most n turns, whatever the
\* settings.
TurnsShorten == [][Left' \in Nat /\ Left' < Left]_vars

\* split returns, for every text and setting.
Returns == <>(phase = "done")

=============================================================================
