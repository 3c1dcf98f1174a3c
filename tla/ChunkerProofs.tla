--------------------------- MODULE ChunkerProofs ---------------------------
(***************************************************************************)
(* Proofs about Chunker, for every setting and every text.                 *)
(***************************************************************************)
EXTENDS Chunker, TLAPS

\* What the windows before start have kept together.
KeptSoFar ==
  phase = "loop" =>
    \A p, q \in Solid : p < start /\ p <= q /\ q <= p + overlap => Together(p, q)

Unstarted == phase = "begin" => start = 0

\* Every chunk was followed by a stride, except the last one of a finished
\* text, whose window started where more than an overlap was left.
StridesTaken ==
  /\ phase = "begin" => Len(chunks) = 0
  /\ phase = "loop" => Len(chunks) * Stride <= start
  /\ NoneTooMany

Inv ==
  /\ TypeOK /\ Unstarted /\ BreaksInTime
  /\ KeptSoFar /\ ContextKept /\ ChunksFit /\ StridesTaken

\* Two solid positions are in a window when its ends enclose them, and in a
\* chunk of the window then.
LEMMA WindowCovers ==
  ASSUME TypeOK, NEW f \in Window, NEW t \in Window, Stripped(f, t, Window),
         chunks' = Append(chunks, [from |-> f, to |-> t]),
         NEW p \in Solid, NEW q \in Solid,
         start <= p, p <= q, q < WindowEnd
  PROVE  Together(p, q)'
<1>1. p \in Window /\ q \in Window
  BY DEF TypeOK, Window, WindowEnd, Least, Solid, Positions
<1>2. f <= p /\ q <= t
  BY <1>1 DEF Stripped
<1>3. [from |-> f, to |-> t] \in Chunk
  BY DEF TypeOK, Window, Solid, Positions, Chunk
<1>4. /\ Len(chunks) + 1 \in DOMAIN chunks'
      /\ chunks'[Len(chunks) + 1] = [from |-> f, to |-> t]
  BY <1>3 DEF TypeOK
<1> QED
  BY <1>2, <1>4 DEF Together

\* Appending a chunk separates nothing.
LEMMA TogetherStays ==
  ASSUME TypeOK, NEW c \in Chunk, chunks' = Append(chunks, c), NEW p, NEW q, Together(p, q)
  PROVE  Together(p, q)'
<1>1. PICK i \in DOMAIN chunks : chunks[i].from <= p /\ q <= chunks[i].to
  BY DEF Together
<1>2. i \in DOMAIN chunks' /\ chunks'[i] = chunks[i]
  BY DEF TypeOK
<1> QED
  BY <1>1, <1>2 DEF Together

\* One chunk and one stride more.
LEMMA OneMore ==
  ASSUME NEW n \in Nat, NEW s \in Nat
  PROVE  (n + 1) * s = n * s + s
OBVIOUS

LEMMA InitEstablishes == Init => Inv
<1> SUFFICES ASSUME Init PROVE Inv
  OBVIOUS
<1> USE SettingsAssumption, LengthsAssumption
<1>1. size \in Nat \ {0} /\ overlap \in Nat /\ overlap < size
  <2>1. PICK s \in Sizes, o \in Overlaps, unit \in {1, CharsPerToken} :
          o < s /\ size = s * unit /\ overlap = o * unit
    BY DEF Init
  <2>2. CASE unit = 1
    BY <2>1, <2>2
  <2>3. CASE unit = 4
    BY <2>1, <2>3
  <2> QED
    BY <2>1, <2>2, <2>3 DEF CharsPerToken
<1>2. TypeOK
  BY <1>1 DEF Init, TypeOK
<1> QED
  BY <1>2 DEF Init, Inv, Unstarted, BreaksInTime, KeptSoFar, ContextKept, ChunksFit,
              StridesTaken, NoneTooMany

LEMMA BeginPreserves == Inv /\ Begin => Inv'
<1> SUFFICES ASSUME Inv, Begin PROVE Inv'
  OBVIOUS
<1>1. TypeOK'
  BY DEF Inv, TypeOK, Begin, input, Positions
<1>2. Solid' = Solid
  BY DEF Begin, input, Solid, Positions
<1>3. ChunksFit'
  BY <1>2 DEF Inv, ChunksFit, Begin, input
<1>4. BreaksInTime' /\ KeptSoFar' /\ ContextKept'
  <2>. USE <1>2 DEF Begin, input
  <2>1. CASE Solid = {}
    BY <2>1 DEF BreaksInTime, KeptSoFar, ContextKept
  <2>2. CASE Solid # {}
    <3>1. phase' = "loop"
      BY <2>2
    <3>2. start' = 0 /\ len' > 0
      BY <2>2 DEF Solid, Positions, Inv, TypeOK, Unstarted
    <3> QED
      BY <3>1, <3>2 DEF BreaksInTime, KeptSoFar, ContextKept, Solid, Positions, Inv, TypeOK
  <2> QED
    BY <2>1, <2>2
<1>5. Unstarted'
  BY DEF Begin, Unstarted
<1>6. StridesTaken'
  <2>1. chunks' = chunks /\ Len(chunks) = 0 /\ start' = 0
    BY DEF Begin, input, Inv, StridesTaken, Unstarted
  <2>2. Stride' \in Nat
    BY DEF Begin, input, Inv, TypeOK, Stride
  <2>3. phase' \in {"loop", "done"}
    BY DEF Begin
  <2>4. Len(chunks') * Stride' = 0
    <3>1. \A s \in Nat : 0 * s = 0
      OBVIOUS
    <3>2. Len(chunks') = 0
      BY <2>1
    <3> QED
      BY <2>2, <3>1, <3>2
  <2> QED
    BY <2>1, <2>3, <2>4 DEF StridesTaken, NoneTooMany
<1> QED
  BY <1>1, <1>3, <1>4, <1>5, <1>6 DEF Inv

LEMMA SlidePreserves == Inv /\ Slide => Inv'
<1> SUFFICES ASSUME Inv, Slide PROVE Inv'
  OBVIOUS
<1>1. TypeOK /\ phase = "loop" /\ start < len /\ Advance /\ UNCHANGED input
  BY DEF Inv, Slide
<1>2. Solid' = Solid /\ overlap' = overlap /\ size' = size /\ len' = len
  BY <1>1 DEF input, Solid, Positions
<1>3. \/ Window = {} /\ chunks' = chunks
      \/ \E f, t \in Window :
           Stripped(f, t, Window) /\ chunks' = Append(chunks, [from |-> f, to |-> t])
  BY DEF Slide
<1>4. ASSUME NEW f \in Window, NEW t \in Window
      PROVE  /\ [from |-> f, to |-> t] \in Chunk
             /\ f \in Solid /\ t \in Solid
             /\ t - f < size
  BY <1>1 DEF TypeOK, Window, WindowEnd, Least, Solid, Positions, Chunk
<1>5. chunks' \in Seq(Chunk)
  <2>1. CASE chunks' = chunks
    BY <1>1, <2>1 DEF TypeOK
  <2>2. ASSUME NEW c \in Chunk, chunks' = Append(chunks, c)
        PROVE  chunks' \in Seq(Chunk)
    BY <1>1, <2>2 DEF TypeOK
  <2> QED
    BY <1>3, <1>4, <2>1, <2>2
<1>6. phase' \in {"loop", "done"} /\ start' \in Nat
  BY <1>1 DEF Advance, TypeOK, Stride
<1>7. TypeOK'
  BY <1>1, <1>5, <1>6 DEF TypeOK, input, Positions
<1>8. BreaksInTime'
  BY <1>1, <1>2 DEF Advance, WindowEnd, Least, Stride, BreaksInTime, TypeOK
<1>9. ChunksFit'
  <2> SUFFICES ASSUME NEW i \in DOMAIN chunks'
               PROVE  /\ chunks'[i].to - chunks'[i].from < size
                      /\ {chunks'[i].from, chunks'[i].to} \subseteq Solid
    BY <1>2 DEF ChunksFit
  <2>1. CASE chunks' = chunks
    BY <2>1 DEF Inv, ChunksFit
  <2>2. ASSUME NEW f \in Window, NEW t \in Window,
               chunks' = Append(chunks, [from |-> f, to |-> t])
        PROVE  /\ chunks'[i].to - chunks'[i].from < size
               /\ {chunks'[i].from, chunks'[i].to} \subseteq Solid
    <3>1. CASE i \in DOMAIN chunks
      BY <1>1, <2>2, <3>1 DEF TypeOK, Inv, ChunksFit
    <3>2. CASE i = Len(chunks) + 1
      <4>1. chunks'[i] = [from |-> f, to |-> t]
        BY <1>1, <1>4, <2>2, <3>2 DEF TypeOK
      <4> QED
        BY <1>4, <4>1
    <3>3. i \in DOMAIN chunks \/ i = Len(chunks) + 1
      BY <1>1, <1>4, <2>2 DEF TypeOK
    <3> QED
      BY <3>1, <3>2, <3>3
  <2> QED
    BY <1>3, <2>1, <2>2
\* What was together stays so, and what is new is inside this window.
<1>10. ASSUME NEW p \in Solid, NEW q \in Solid, p <= q, q <= p + overlap,
              p < start \/ q < WindowEnd
       PROVE  Together(p, q)'
  <2>1. CASE p < start
    <3>1. Together(p, q)
      BY <1>1, <1>10, <2>1 DEF Inv, KeptSoFar
    <3>2. CASE chunks' = chunks
      BY <3>1, <3>2 DEF Together
    <3>3. ASSUME NEW f \in Window, NEW t \in Window,
                 chunks' = Append(chunks, [from |-> f, to |-> t])
          PROVE  Together(p, q)'
      BY <1>1, <1>4, <3>1, <3>3, TogetherStays
    <3> QED
      BY <1>3, <3>2, <3>3
  <2>2. CASE ~ (p < start)
    <3>1. p \in Window /\ start <= p
      BY <1>1, <1>10, <2>2 DEF Window, Solid, Positions, TypeOK, WindowEnd, Least
    <3>2. PICK f \in Window, t \in Window :
            Stripped(f, t, Window) /\ chunks' = Append(chunks, [from |-> f, to |-> t])
      BY <1>3, <3>1
    <3>3. q < WindowEnd
      BY <1>10, <2>2
    <3> QED
      BY <1>1, <1>10, <3>1, <3>2, <3>3, WindowCovers
  <2> QED
    BY <2>1, <2>2
<1>11. KeptSoFar' /\ ContextKept'
  <2>1. CASE WindowEnd = len
    <3>1. phase' = "done"
      BY <1>1, <2>1 DEF Advance
    <3>2. \A q \in Solid : q < WindowEnd
      BY <1>1, <2>1 DEF Solid, Positions, TypeOK
    <3> QED
      BY <1>2, <1>10, <3>1, <3>2 DEF KeptSoFar, ContextKept
  <2>2. CASE WindowEnd # len
    <3>1. phase' = "loop" /\ start' = start + size - overlap
      BY <1>1, <2>2 DEF Advance, Stride, TypeOK
    <3>2. WindowEnd = start + size
      BY <2>2 DEF WindowEnd, Least
    <3>3. ASSUME NEW p \in Solid, NEW q \in Solid, p < start', q <= p + overlap
          PROVE  q < WindowEnd
      BY <1>1, <3>1, <3>2, <3>3 DEF Solid, Positions, TypeOK
    <3> QED
      BY <1>2, <1>10, <3>1, <3>3 DEF KeptSoFar, ContextKept
  <2> QED
    BY <2>1, <2>2
<1>12. StridesTaken'
  <2>. DEFINE n == Len(chunks)
  <2>1. Stride \in Nat /\ Stride > 0 /\ Stride' = Stride
    BY <1>1, <1>2 DEF TypeOK, Stride
  <2>2. n \in Nat /\ Len(chunks') \in Nat /\ Len(chunks') \in {n, n + 1}
    <3>1. CASE chunks' = chunks
      BY <1>1, <3>1 DEF TypeOK
    <3>2. ASSUME NEW c \in Chunk, chunks' = Append(chunks, c)
          PROVE  Len(chunks') = n + 1
      BY <1>1, <3>2 DEF TypeOK
    <3>3. Len(chunks') \in {n, n + 1}
      BY <1>3, <1>4, <3>1, <3>2
    <3> QED
      BY <1>1, <3>3 DEF TypeOK
  <2>3. n * Stride \in Nat /\ n * Stride <= start /\ (n + 1) * Stride = n * Stride + Stride
    BY <1>1, <2>1, <2>2, OneMore DEF Inv, StridesTaken
  <2>4. CASE phase' = "loop"
    <3>1. start' = start + Stride
      BY <1>1, <2>4 DEF Advance
    <3>2. Len(chunks') * Stride <= start'
      BY <1>1, <2>1, <2>2, <2>3, <3>1 DEF TypeOK
    <3>3. Len(chunks') > 1 => (Len(chunks') - 1) * Stride + overlap < len
      BY <1>1, <2>1, <2>2, <2>3, OneMore DEF Inv, StridesTaken, NoneTooMany, TypeOK, BreaksInTime
    <3> QED
      BY <1>2, <2>1, <2>4, <3>2, <3>3 DEF StridesTaken, NoneTooMany
  <2>5. CASE phase' = "done"
    <3> QED
      BY <1>1, <1>2, <2>1, <2>2, <2>3, <2>5 DEF Inv, StridesTaken, NoneTooMany, TypeOK, BreaksInTime
  <2> QED
    BY <1>6, <2>4, <2>5
<1> QED
  BY <1>6, <1>7, <1>8, <1>9, <1>11, <1>12 DEF Inv, Unstarted

LEMMA Invariance == Spec => []Inv
<1>1. Inv /\ UNCHANGED vars => Inv'
  BY DEF Inv, TypeOK, Unstarted, BreaksInTime, KeptSoFar, ContextKept, ChunksFit,
         StridesTaken, NoneTooMany, Stride, Together, Solid, Positions, vars
<1>2. Inv /\ [Next]_vars => Inv'
  BY <1>1, BeginPreserves, SlidePreserves DEF Next
<1> QED
  BY <1>2, InitEstablishes, PTL DEF Spec

-----------------------------------------------------------------------------

\* The loop variable never runs below 0 or out of its type (Chunker.split).
THEOREM SplitTypeCorrect == Spec => []TypeOK
<1>1. Inv => TypeOK
  BY DEF Inv
<1> QED
  BY <1>1, Invariance, PTL

\* Whatever the settings and the text, split loses nothing, and what is at
\* most an overlap apart is found in one chunk.
THEOREM ContextTheorem == Spec => []ContextKept
<1>1. Inv => ContextKept
  BY DEF Inv
<1> QED
  BY <1>1, Invariance, PTL

\* No chunk that split returns is longer than chunk_token_size.
THEOREM FitTheorem == Spec => []ChunksFit
<1>1. Inv => ChunksFit
  BY DEF Inv
<1> QED
  BY <1>1, Invariance, PTL

\* The loop of split ends by its break, with a window that had to be there.
THEOREM BreakTheorem == Spec => []BreaksInTime
<1>1. Inv => BreaksInTime
  BY DEF Inv
<1> QED
  BY <1>1, Invariance, PTL

\* split hands the embedding model no chunk more than the length of the text
\* asks for.
THEOREM CountTheorem == Spec => []NoneTooMany
<1>1. Inv => NoneTooMany
  BY DEF Inv, StridesTaken
<1> QED
  BY <1>1, Invariance, PTL

\* split takes no more turns than its text has positions.
THEOREM TurnsTheorem == Spec => TurnsShorten
<1>1. Inv /\ Inv' /\ [Next]_vars => [Left' \in Nat /\ Left' < Left]_vars
  <2> SUFFICES ASSUME Inv, Inv', Next PROVE Left' \in Nat /\ Left' < Left
    OBVIOUS
  <2>1. TypeOK /\ TypeOK' /\ BreaksInTime /\ BreaksInTime' /\ Unstarted
    BY DEF Inv
  <2>2. CASE Begin
    BY <2>1, <2>2 DEF Begin, input, TypeOK, Unstarted, BreaksInTime, Left
  <2>3. CASE Slide
    <3>1. phase = "loop" /\ len' = len /\ start < len /\ Advance
      BY <2>3 DEF Slide, input
    <3>2. phase' = "done" \/ (phase' = "loop" /\ start' = start + Stride)
      BY <3>1 DEF Advance
    <3> QED
      BY <2>1, <3>1, <3>2 DEF TypeOK, BreaksInTime, Stride, Left
  <2> QED
    BY <2>2, <2>3 DEF Next
<1> QED
  BY <1>1, Invariance, PTL DEF Spec, TurnsShorten

=============================================================================
