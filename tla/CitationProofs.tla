--------------------------- MODULE CitationProofs ---------------------------
(***************************************************************************)
(* What TLAPS proves of the citations of Questions, for every answer and   *)
(* every ranking: what the loop over the markers keeps, by induction on    *)
(* its turns, and from it that the citations of a done frame are those of  *)
(* the answer.  Induction is by the least counterexample.                  *)
(***************************************************************************)
EXTENDS ResearchProofs, WellFoundedInduction

-----------------------------------------------------------------------------
\* Numbers.

\* A set of naturals that is not empty has a least one.
LEMMA LeastNumber ==
  ASSUME NEW S, S \subseteq Nat, S # {}
  PROVE  \E m \in S : \A n \in S : m <= n
<1> DEFINE R == OpToRel(<, Nat)
<1>1. IsWellFoundedOn(R, Nat)
  BY NatLessThanWellFounded
<1>2. \A a, b \in Nat : a < b => <<a, b>> \in R
  BY DEF OpToRel
<1> HIDE DEF R
<1>3. PICK m \in S : \A n \in S : <<n, m>> \notin R
  BY <1>1, WFMin, Zenon
<1>4. \A n \in S : m <= n
  <2> SUFFICES ASSUME NEW n \in S, n < m PROVE FALSE
    OBVIOUS
  <2>1. m \in Nat /\ n \in Nat
    OBVIOUS
  <2>2. <<n, m>> \in R
    BY <2>1, <1>2
  <2> QED BY <2>2, <1>3
<1> QED BY <1>4

\* Induction, for a set in the place of a property.
LEMMA InductionOnNat ==
  ASSUME NEW S, 0 \in S, \A n \in Nat : n \in S => n + 1 \in S
  PROVE  Nat \subseteq S
<1> SUFFICES ASSUME Nat \ S # {} PROVE FALSE
  OBVIOUS
<1>1. PICK m \in Nat \ S : \A n \in Nat \ S : m <= n
  BY LeastNumber
<1>2. m - 1 \in Nat /\ m - 1 \notin Nat \ S
  BY <1>1
<1> QED BY <1>1, <1>2

-----------------------------------------------------------------------------
\* The loop of FirstUses.

Turn(seq, wanted, kept, i) ==
  IF seq[i] \in wanted /\ ~ Contains(kept, seq[i]) THEN Append(kept, seq[i]) ELSE kept

\* g is the function that Kept defines, up to turn n.
IsKept(seq, wanted, g, n) ==
  g = [i \in 0..n |-> IF i = 0 THEN <<>> ELSE Turn(seq, wanted, g[i - 1], i)]

\* There is such a function: it is continued turn by turn.
LEMMA KeptExists ==
  ASSUME NEW seq, NEW wanted
  PROVE  \A n \in Nat : \E g : IsKept(seq, wanted, g, n)
<1> DEFINE Reached == {n \in Nat : \E g : IsKept(seq, wanted, g, n)}
<1>1. 0 \in Reached
  <2> DEFINE g == [i \in 0..0 |-> <<>>]
  <2>1. IsKept(seq, wanted, g, 0)
    BY DEF IsKept
  <2> QED BY <2>1
<1>2. ASSUME NEW n \in Nat, n \in Reached PROVE n + 1 \in Reached
  <2>1. PICK g : IsKept(seq, wanted, g, n)
    BY <1>2
  <2> DEFINE h == [i \in 0..(n + 1) |-> IF i <= n THEN g[i] ELSE Turn(seq, wanted, g[n], n + 1)]
  <2>2. \A i \in 0..n : g[i] = IF i = 0 THEN <<>> ELSE Turn(seq, wanted, g[i - 1], i)
    BY <2>1 DEF IsKept
  <2>3. \A i \in 0..(n + 1) : h[i] = IF i = 0 THEN <<>> ELSE Turn(seq, wanted, h[i - 1], i)
    <3> SUFFICES ASSUME NEW i \in 0..(n + 1)
                 PROVE  h[i] = IF i = 0 THEN <<>> ELSE Turn(seq, wanted, h[i - 1], i)
      OBVIOUS
    <3>1. CASE i <= n
      <4>1. h[i] = g[i] /\ (i # 0 => h[i - 1] = g[i - 1])
        BY <3>1
      <4>2. i \in 0..n
        BY <3>1
      <4> HIDE DEF h
      <4> QED BY <2>2, <4>1, <4>2
    <3>2. CASE i = n + 1
      <4>1. h[i] = Turn(seq, wanted, g[n], i) /\ h[i - 1] = g[n] /\ i # 0
        BY <3>2
      <4> HIDE DEF h
      <4> QED BY <4>1
    <3> QED BY <3>1, <3>2
  <2>4. h = [i \in 0..(n + 1) |-> h[i]]
    OBVIOUS
  <2> HIDE DEF h
  <2>5. IsKept(seq, wanted, h, n + 1)
    BY <2>3, <2>4 DEF IsKept
  <2> QED BY <2>5
<1> HIDE DEF Reached
<1>3. Nat \subseteq Reached
  BY <1>1, <1>2, InductionOnNat
<1> QED BY <1>3 DEF Reached

\* So Kept satisfies its recursion equation.
LEMMA KeptEquation ==
  ASSUME NEW seq, NEW wanted, Len(seq) \in Nat
  PROVE  /\ Kept(seq, wanted)[0] = <<>>
         /\ \A i \in 1..Len(seq) :
              Kept(seq, wanted)[i] = Turn(seq, wanted, Kept(seq, wanted)[i - 1], i)
<1>1. \E g : IsKept(seq, wanted, g, Len(seq))
  BY KeptExists
<1>2. Kept(seq, wanted) = CHOOSE g : IsKept(seq, wanted, g, Len(seq))
  BY DEF Kept, IsKept, Turn
<1>3. IsKept(seq, wanted, Kept(seq, wanted), Len(seq))
  BY <1>1, <1>2
<1> QED BY <1>3 DEF IsKept

\* What k holds of the first n elements of seq: those of wanted, each once,
\* in the order in which they come first.
HoldsFirsts(k, seq, wanted, n) ==
  /\ k \in Seq(wanted)
  /\ \A p \in 1..n : seq[p] \in wanted => \E j \in 1..Len(k) : k[j] = seq[p]
  /\ \A j \in 1..Len(k) : \E p \in 1..n : seq[p] = k[j]
  /\ \A i, j \in 1..Len(k) : i < j =>
       \E p \in 1..n : seq[p] = k[i] /\ \A q \in 1..n : seq[q] = k[j] => p < q

\* A turn of the loop.
LEMMA TurnKeeps ==
  ASSUME NEW seq, NEW wanted, NEW n \in Nat, NEW k, HoldsFirsts(k, seq, wanted, n)
  PROVE  HoldsFirsts(Turn(seq, wanted, k, n + 1), seq, wanted, n + 1)
<1> DEFINE x == seq[n + 1]
           after == Turn(seq, wanted, k, n + 1)
<1>1. k \in Seq(wanted) /\ Len(k) \in Nat
  BY DEF HoldsFirsts
<1>2. 1..n \subseteq 1..(n + 1) /\ \A p \in 1..(n + 1) : p \in 1..n \/ p = n + 1
  OBVIOUS
<1>3. CASE x \in wanted /\ ~ Contains(k, x)
  <2>1. after = Append(k, x)
    BY <1>3 DEF Turn
  <2>2. /\ after \in Seq(wanted) /\ Len(after) = Len(k) + 1
        /\ after[Len(k) + 1] = x
        /\ \A j \in 1..Len(k) : after[j] = k[j]
    BY <1>1, <1>3, <2>1
  <2>3. \A j \in 1..Len(after) : j \in 1..Len(k) \/ j = Len(k) + 1
    BY <1>1, <2>2
  <2>4. 1..Len(k) \subseteq 1..Len(after) /\ Len(k) + 1 \in 1..Len(after)
    BY <1>1, <2>2
  <2>5. \A j \in 1..Len(k) : k[j] # x
    BY <1>3 DEF Contains
  <2> HIDE DEF x, after
  <2>6. \A p \in 1..(n + 1) : seq[p] \in wanted => \E j \in 1..Len(after) : after[j] = seq[p]
    <3> SUFFICES ASSUME NEW p \in 1..(n + 1), seq[p] \in wanted
                 PROVE  \E j \in 1..Len(after) : after[j] = seq[p]
      OBVIOUS
    <3>1. CASE p \in 1..n
      BY <3>1, <2>2, <2>4 DEF HoldsFirsts
    <3>2. CASE p = n + 1
      BY <3>2, <2>2, <2>4 DEF x
    <3> QED BY <1>2, <3>1, <3>2
  <2>7. \A j \in 1..Len(after) : \E p \in 1..(n + 1) : seq[p] = after[j]
    <3>1. \A j \in 1..Len(k) : \E p \in 1..(n + 1) : seq[p] = after[j]
      BY <1>2, <2>2 DEF HoldsFirsts
    <3>2. n + 1 \in 1..(n + 1) /\ seq[n + 1] = x
      BY DEF x
    <3> QED BY <2>2, <2>3, <3>1, <3>2
  <2>8. ASSUME NEW i \in 1..Len(after), NEW j \in 1..Len(after), i < j
        PROVE  \E p \in 1..(n + 1) : /\ seq[p] = after[i]
                                     /\ \A q \in 1..(n + 1) : seq[q] = after[j] => p < q
    <3>1. i \in 1..Len(k)
      BY <1>1, <2>2, <2>8
    <3>2. CASE j \in 1..Len(k)
      <4>1. PICK p \in 1..n : seq[p] = k[i] /\ \A q \in 1..n : seq[q] = k[j] => p < q
        BY <2>8, <3>1, <3>2 DEF HoldsFirsts
      <4>2. p < n + 1
        OBVIOUS
      <4>3. \A q \in 1..(n + 1) : seq[q] = k[j] => p < q
        BY <1>2, <4>1, <4>2
      <4> QED BY <1>2, <2>2, <3>1, <3>2, <4>1, <4>3
    <3>3. CASE j = Len(k) + 1
      <4>1. PICK p \in 1..n : seq[p] = k[i]
        BY <3>1 DEF HoldsFirsts
      <4>2. \A q \in 1..n : seq[q] # x
        BY <2>5, <1>3 DEF HoldsFirsts, x
      <4>3. after[j] = x /\ after[i] = k[i] /\ p < n + 1
        BY <2>2, <3>1, <3>3
      <4>4. \A q \in 1..(n + 1) : seq[q] = x => p < q
        BY <1>2, <4>2, <4>3
      <4> QED BY <1>2, <4>1, <4>3, <4>4
    <3> QED BY <2>3, <3>2, <3>3
  <2> QED BY <2>2, <2>6, <2>7, <2>8 DEF HoldsFirsts, after
<1>4. CASE ~ (x \in wanted /\ ~ Contains(k, x))
  <2>1. after = k
    BY <1>4 DEF Turn
  <2>2. x \in wanted => \E j \in 1..Len(k) : k[j] = x
    BY <1>4 DEF Contains
  <2>3. \A p \in 1..(n + 1) : seq[p] \in wanted => \E j \in 1..Len(k) : k[j] = seq[p]
    BY <1>2, <2>2 DEF HoldsFirsts
  <2>4. ASSUME NEW i \in 1..Len(k), NEW j \in 1..Len(k), i < j
        PROVE  \E p \in 1..(n + 1) : seq[p] = k[i] /\ \A q \in 1..(n + 1) : seq[q] = k[j] => p < q
    <3>1. PICK p \in 1..n : seq[p] = k[i] /\ \A q \in 1..n : seq[q] = k[j] => p < q
      BY <2>4 DEF HoldsFirsts
    <3>2. p < n + 1
      OBVIOUS
    <3> QED BY <1>2, <3>1, <3>2
  <2> HIDE DEF after
  <2>5. HoldsFirsts(k, seq, wanted, n + 1)
    BY <1>2, <2>3, <2>4 DEF HoldsFirsts
  <2> QED BY <2>1, <2>5 DEF after
<1> QED BY <1>3, <1>4

\* What FirstUses returns, for every sequence.
LEMMA FirstUsesHolds ==
  ASSUME NEW seq, NEW wanted, Len(seq) \in Nat
  PROVE  HoldsFirsts(FirstUses(seq, wanted), seq, wanted, Len(seq))
<1> DEFINE kept == Kept(seq, wanted)
           Held == {n \in Nat : n <= Len(seq) => HoldsFirsts(kept[n], seq, wanted, n)}
<1>1. 0 \in Held
  <2>1. kept[0] = <<>>
    BY KeptEquation
  <2>2. HoldsFirsts(<<>>, seq, wanted, 0)
    BY DEF HoldsFirsts
  <2> QED BY <2>1, <2>2
<1>2. ASSUME NEW n \in Nat, n \in Held PROVE n + 1 \in Held
  <2>1. CASE n + 1 <= Len(seq)
    <3>1. n + 1 \in 1..Len(seq) /\ n + 1 - 1 = n
      BY <2>1
    <3>2. kept[n + 1] = Turn(seq, wanted, kept[n], n + 1)
      BY <3>1, KeptEquation
    <3>3. HoldsFirsts(kept[n], seq, wanted, n)
      BY <1>2, <2>1
    <3> HIDE DEF kept
    <3> QED BY <3>2, <3>3, TurnKeeps
  <2>2. CASE ~ (n + 1 <= Len(seq))
    BY <2>2
  <2> QED BY <2>1, <2>2
<1> HIDE DEF Held
<1>3. Nat \subseteq Held
  BY <1>1, <1>2, InductionOnNat
<1> QED BY <1>3 DEF Held, FirstUses

-----------------------------------------------------------------------------
\* The prompt, the markers and the citations.

IsSequence(seq) == seq \in Seq(Range(seq))

\* A prompt numbers each source of its chunks once, and nothing else.
LEMMA SourcesAreNumbered ==
  ASSUME NEW chunks, IsSequence(chunks)
  PROVE  /\ DOMAIN build_prompt(chunks) = 1..Cardinality(Range(chunks))
         /\ \A m, n \in DOMAIN build_prompt(chunks) :
              m # n => build_prompt(chunks)[m] # build_prompt(chunks)[n]
<1> DEFINE sources == build_prompt(chunks)
           there == Range(chunks)
<1>1. Len(chunks) \in Nat /\ DOMAIN chunks = 1..Len(chunks)
  BY DEF IsSequence
<1>2. HoldsFirsts(sources, chunks, there, Len(chunks))
  BY <1>1, FirstUsesHolds DEF build_prompt
<1>3. \A x \in there : \E p \in 1..Len(chunks) : chunks[p] = x
  BY <1>1 DEF Range
<1>4. \A p \in 1..Len(chunks) : chunks[p] \in there
  BY <1>1 DEF Range
<1> HIDE DEF sources, there
<1>5. sources \in Seq(there) /\ Len(sources) \in Nat /\ DOMAIN sources = 1..Len(sources)
  BY <1>2 DEF HoldsFirsts
<1>6. \A m, n \in 1..Len(sources) : m # n => sources[m] # sources[n]
  <2>1. ASSUME NEW m \in 1..Len(sources), NEW n \in 1..Len(sources), m < n, sources[m] = sources[n]
        PROVE  FALSE
    <3>1. PICK p \in 1..Len(chunks) :
            /\ chunks[p] = sources[m]
            /\ \A q \in 1..Len(chunks) : chunks[q] = sources[n] => p < q
      BY <1>2, <2>1 DEF HoldsFirsts
    <3>2. p < p
      BY <2>1, <3>1
    <3> QED BY <1>1, <3>2
  <2> QED BY <1>5, <2>1
<1>7. \A x \in there : \E n \in 1..Len(sources) : sources[n] = x
  BY <1>2, <1>3, <1>4 DEF HoldsFirsts
<1>8. sources \in Bijection(1..Len(sources), there)
  BY <1>5, <1>6, <1>7 DEF Bijection, Injection, Surjection, IsInjective
<1>9. Cardinality(there) = Len(sources)
  BY <1>5, <1>8, FS_CountingElements DEF ExistsBijection
<1> QED BY <1>5, <1>6, <1>9 DEF sources, there

\* Where a text first has n.
LEMMA FirstPlace ==
  ASSUME NEW text, Len(text) \in Nat, DOMAIN text = 1..Len(text),
         NEW n, \E p \in DOMAIN text : text[p] = n
  PROVE  /\ FirstAt(text, n) \in DOMAIN text /\ text[FirstAt(text, n)] = n
         /\ \A p \in DOMAIN text : text[p] = n => FirstAt(text, n) <= p
<1> DEFINE Places == {p \in DOMAIN text : text[p] = n}
           IsFirst(p) == text[p] = n /\ \A j \in 1..(p - 1) : text[j] # n
<1>1. PICK m \in Places : \A p \in Places : m <= p
  <2>1. Places \subseteq Nat /\ Places # {}
    OBVIOUS
  <2> HIDE DEF Places
  <2> QED BY <2>1, LeastNumber
<1>2. m \in DOMAIN text /\ IsFirst(m)
  <2>1. ASSUME NEW j \in 1..(m - 1), text[j] = n PROVE FALSE
    <3>1. j \in Places /\ j < m
      BY <2>1
    <3> QED BY <1>1, <3>1
  <2> QED BY <1>1, <2>1
<1>3. FirstAt(text, n) \in DOMAIN text /\ IsFirst(FirstAt(text, n))
  BY <1>2 DEF FirstAt
<1>4. ASSUME NEW p \in DOMAIN text, text[p] = n, p < FirstAt(text, n) PROVE FALSE
  <2>1. p \in 1..(FirstAt(text, n) - 1)
    BY <1>3, <1>4
  <2> QED BY <1>3, <1>4, <2>1
<1> QED BY <1>3, <1>4

\* What CitationsMatchAnswer says of the citations cites of an answer.
Match(cites, text, chunks) ==
  /\ {c.marker : c \in Range(cites)} = Range(text) \cap 1..Cardinality(Range(chunks))
  /\ \A j, k \in DOMAIN cites :
       j < k => FirstAt(text, cites[j].marker) < FirstAt(text, cites[k].marker)
  /\ \A j, k \in DOMAIN cites : j # k => cites[j].source # cites[k].source
  /\ \A c \in Range(cites) : c.chunk_ids = {r \in DOMAIN chunks : chunks[r] = c.source}

LEMMA ExtractedMatch ==
  ASSUME NEW text, text \in Seq(Tokens), NEW chunks, IsSequence(chunks)
  PROVE  Match(extract_citations(text, chunks), text, chunks)
<1> DEFINE sources == build_prompt(chunks)
           markers == FirstUses(text, DOMAIN sources)
           cites == extract_citations(text, chunks)
<1>1. Len(text) \in Nat /\ DOMAIN text = 1..Len(text)
  OBVIOUS
<1>2. HoldsFirsts(markers, text, DOMAIN sources, Len(text))
  BY <1>1, FirstUsesHolds
<1>3. /\ DOMAIN cites = DOMAIN markers
      /\ \A i \in DOMAIN markers :
           /\ cites[i].marker = markers[i]
           /\ cites[i].source = sources[markers[i]]
           /\ cites[i].chunk_ids = {r \in DOMAIN chunks : chunks[r] = sources[markers[i]]}
  BY DEF extract_citations, Citation
<1>4. Range(cites) = {cites[i] : i \in DOMAIN markers}
  BY <1>3 DEF Range
<1>5. Range(text) = {text[p] : p \in 1..Len(text)}
  BY <1>1 DEF Range
<1>6. /\ DOMAIN sources = 1..Cardinality(Range(chunks))
      /\ \A m, n \in DOMAIN sources : m # n => sources[m] # sources[n]
  BY SourcesAreNumbered
<1> HIDE DEF sources, markers, cites
<1>7. /\ markers \in Seq(DOMAIN sources) /\ Len(markers) \in Nat
      /\ DOMAIN markers = 1..Len(markers)
  BY <1>2 DEF HoldsFirsts
<1>8. {c.marker : c \in Range(cites)} = Range(text) \cap DOMAIN sources
  <2>1. {c.marker : c \in Range(cites)} = {markers[i] : i \in DOMAIN markers}
    BY <1>3, <1>4
  <2>2. \A i \in DOMAIN markers : markers[i] \in DOMAIN sources /\ markers[i] \in Range(text)
    BY <1>2, <1>5, <1>7 DEF HoldsFirsts
  <2>3. ASSUME NEW x \in Range(text) \cap DOMAIN sources PROVE \E i \in DOMAIN markers : markers[i] = x
    <3>1. PICK p \in 1..Len(text) : text[p] = x
      BY <1>5
    <3> QED BY <1>2, <1>7, <3>1 DEF HoldsFirsts
  <2> QED BY <2>1, <2>2, <2>3
<1>9. ASSUME NEW j \in DOMAIN cites, NEW k \in DOMAIN cites, j < k
      PROVE  /\ FirstAt(text, cites[j].marker) < FirstAt(text, cites[k].marker)
             /\ cites[j].marker # cites[k].marker
  <2>1. j \in 1..Len(markers) /\ k \in 1..Len(markers)
    BY <1>3, <1>7
  <2>2. PICK p \in 1..Len(text) :
          /\ text[p] = markers[j]
          /\ \A q \in 1..Len(text) : text[q] = markers[k] => p < q
    BY <1>2, <1>9, <2>1 DEF HoldsFirsts
  <2>3. \E q \in 1..Len(text) : text[q] = markers[k]
    BY <1>2, <2>1 DEF HoldsFirsts
  <2>4. FirstAt(text, markers[j]) \in 1..Len(text) /\ FirstAt(text, markers[j]) <= p
    BY <1>1, <2>2, FirstPlace
  <2>5. FirstAt(text, markers[k]) \in 1..Len(text) /\ text[FirstAt(text, markers[k])] = markers[k]
    BY <1>1, <2>3, FirstPlace
  <2>6. p < FirstAt(text, markers[k])
    BY <2>2, <2>5
  <2>7. markers[j] # markers[k]
    BY <2>2
  <2> QED BY <1>1, <1>3, <1>7, <2>1, <2>4, <2>5, <2>6, <2>7
<1>10. \A j, k \in DOMAIN cites : j # k => cites[j].source # cites[k].source
  <2>1. ASSUME NEW j \in DOMAIN cites, NEW k \in DOMAIN cites, j # k
        PROVE  cites[j].source # cites[k].source
    <3>1. j \in 1..Len(markers) /\ k \in 1..Len(markers)
      BY <1>3, <1>7
    <3>2. cites[j].marker # cites[k].marker
      BY <1>9, <2>1, <3>1
    <3>3. markers[j] \in DOMAIN sources /\ markers[k] \in DOMAIN sources
      BY <1>7, <3>1
    <3> QED BY <1>3, <1>6, <1>7, <3>1, <3>2, <3>3
  <2> QED BY <2>1
<1>11. \A c \in Range(cites) : c.chunk_ids = {r \in DOMAIN chunks : chunks[r] = c.source}
  BY <1>3, <1>4
<1> QED BY <1>6, <1>8, <1>9, <1>10, <1>11 DEF Match, cites

-----------------------------------------------------------------------------
\* A done frame is made of the answer and the ranking, which then stay.

Cited ==
  \A q \in Questions : \A i \in DOMAIN sent[q] :
    sent[q][i].type = "done" => sent[q][i] = Done(q)

\* The frames of q get one more, which is no done frame or the right one.
LEMMA FrameCited ==
  ASSUME Streams, Cited, NEW q \in Questions, NEW f, Deliver(q, f),
         f.type # "done" \/ f = Done(q),
         UNCHANGED ranking,
         \A r \in Questions \ {q} : answer'[r] = answer[r],
         answer'[q] = answer[q] \/ (f.type # "done" /\ pc[q] \notin Ending)
  PROVE  Cited'
<1> SUFFICES ASSUME NEW r \in Questions, NEW i \in DOMAIN sent'[r], sent'[r][i].type = "done"
             PROVE  sent'[r][i] = Done(r)'
  BY DEF Cited
<1>1. pc[q] \notin Ending => ~ HasDone(q)
  BY DoneComesLast
<1>2. /\ sent'[q] = Append(sent[q], f) /\ sent[q] \in Seq(TokenFrames \cup LastFrames)
      /\ \A s \in Questions \ {q} : sent'[s] = sent[s]
  BY DEF Deliver, Streams
<1>3. CASE r # q
  BY <1>2, <1>3 DEF Cited, Done
<1>4. CASE r = q
  <2>1. i \in 1..(Len(sent[q]) + 1)
    BY <1>2, <1>4
  <2>2. CASE i \in 1..Len(sent[q])
    <3>1. sent'[q][i] = sent[q][i] /\ i \in DOMAIN sent[q]
      BY <1>2, <2>2
    <3>2. HasDone(q)
      BY <1>4, <3>1 DEF HasDone
    <3>3. answer'[q] = answer[q]
      BY <1>1, <3>2
    <3> QED BY <1>4, <3>1, <3>3 DEF Cited, Done
  <2>3. CASE i = Len(sent[q]) + 1
    <3>1. sent'[q][i] = f
      BY <1>2, <2>3
    <3>2. f = Done(q) /\ answer'[q] = answer[q]
      BY <1>4, <3>1
    <3> QED BY <1>4, <3>1, <3>2 DEF Done
  <2> QED BY <1>2, <2>1, <2>2, <2>3
<1> QED BY <1>3, <1>4

LEMMA QuestionCited ==
  ASSUME Streams, Cited, NEW q \in Questions, Question(q)
  PROVE  Cited'
<1> USE DEF Streams
<1>1. CASE UNCHANGED <<sent, answer, ranking>>
  BY <1>1 DEF Cited, Done
<1>2. ASSUME NEW f, Tell(q, f), f.type # "done" \/ f = Done(q),
             UNCHANGED <<answer, ranking>>
      PROVE  Cited'
  BY <1>1, <1>2, FrameCited DEF Tell
<1>3. ASSUME NEW code, Tell(q, ErrorFrame(code)), UNCHANGED <<answer, ranking>> PROVE Cited'
  <2>1. ErrorFrame(code).type # "done"
    BY DEF ErrorFrame
  <2> QED BY <1>2, <1>3, <2>1
<1>4. CASE \/ Reject(q) \/ Validate(q) \/ CheckCollection(q) \/ Breaks(q)
           \/ ReleaseConnection(q)
  BY <1>1, <1>3, <1>4
  DEF Reject, Validate, CheckCollection, Breaks, ReleaseConnection, Refuse, Report, Conclude
<1>5. CASE Retrieve(q)
  <2>1. CASE Report(q, "QA_CTX_001")
    BY <1>3, <2>1 DEF Report, Conclude
  <2>2. CASE ~ Report(q, "QA_CTX_001")
    <3>1. UNCHANGED <<sent, answer>> /\ \A r \in Questions \ {q} : ranking'[r] = ranking[r]
      BY <1>5, <2>2 DEF Retrieve
    <3>2. pc[q] \notin Ending
      BY <1>5 DEF Retrieve, Ending
    <3>3. ~ HasDone(q)
      BY <3>2, DoneComesLast
    <3> QED BY <3>1, <3>3 DEF Cited, Done, HasDone
  <2> QED BY <2>1, <2>2
<1>6. CASE StreamToken(q)
  <2>1. pc[q] \notin Ending /\ UNCHANGED ranking
    BY <1>6 DEF StreamToken, Ending
  <2>2. PICK n \in Tokens :
          \/ Deliver(q, TokenFrame(n)) /\ answer' = [answer EXCEPT ![q] = Append(@, n)]
          \/ answer' = [answer EXCEPT ![q] = Append(@, n)] /\ UNCHANGED sent
          \/ UNCHANGED <<answer, sent>>
    BY <1>6 DEF StreamToken
  <2>3. TokenFrame(n).type # "done"
    BY DEF TokenFrame
  <2>4. CASE Deliver(q, TokenFrame(n)) /\ answer' = [answer EXCEPT ![q] = Append(@, n)]
    BY <2>1, <2>3, <2>4, FrameCited
  <2>5. CASE answer' = [answer EXCEPT ![q] = Append(@, n)] /\ UNCHANGED sent
    <3>1. ~ HasDone(q)
      BY <2>1, DoneComesLast
    <3> QED BY <2>1, <2>5, <3>1 DEF Cited, Done, HasDone
  <2> QED BY <1>1, <2>1, <2>2, <2>4, <2>5
<1>7. CASE SendDone(q)
  BY <1>2, <1>7 DEF SendDone, Conclude, Done
<1> QED
  BY <1>1, <1>4, <1>5, <1>6, <1>7
  DEF Question, QuestionStep, Receive, Leave, AcquireForQuestion, Embed, StreamEnds, Record, RecordFails

LEMMA CitedInvariant == Spec => [](Streams /\ Cited)
<1>1. Init => Cited
  BY DEF Init, QuestionsInit, Cited
<1>2. Streams /\ Cited /\ [Next]_vars => Cited'
  <2> SUFFICES ASSUME Streams, Cited, [Next]_vars PROVE Cited'
    OBVIOUS
  <2>1. ASSUME UNCHANGED questionVars PROVE Cited'
    BY <2>1 DEF questionVars, Cited, Done
  <2> QED BY <2>1, QuestionCited DEF Next, Call, vars
<1> QED BY <1>1, <1>2, StreamsInvariant, PTL DEF Spec

\* Whatever is answered and retrieved, however often a marker is repeated or
\* numbers no source: the citations of a done frame are those of the answer.
THEOREM CitationsTheorem == Spec => []CitationsMatchAnswer
<1>1. Streams /\ Cited => CitationsMatchAnswer
  <2> SUFFICES ASSUME Streams, Cited, NEW q \in Questions, NEW i \in DOMAIN sent[q],
                      sent[q][i].type = "done"
               PROVE  Match(sent[q][i].citations, answer[q], ranking[q])
    BY DEF CitationsMatchAnswer, Match
  <2>1. sent[q][i].citations = extract_citations(answer[q], ranking[q])
    <3>1. sent[q][i] = Done(q)
      BY DEF Cited
    <3> QED BY <3>1 DEF Done, DoneFrame
  <2>2. answer[q] \in Seq(Tokens) /\ ranking[q] \in Rankings \cup {<<>>}
    BY DEF Streams
  <2>3. IsSequence(<<>>)
    BY DEF IsSequence
  <2>4. IsSequence(ranking[q])
    BY <2>2, <2>3, QuestionsAssumption DEF IsSequence
  <2> QED BY <2>1, <2>2, <2>4, ExtractedMatch
<1> QED BY <1>1, CitedInvariant, PTL

=============================================================================
