---------------------------- MODULE PeImageProofs ----------------------------
(***************************************************************************)
(* What the checks of uwd_parse_pe buy the code that uses an accepted      *)
(* image: its sections are apart in memory and in the file, so an RVA has  *)
(* one place in the file and a place in the file has one RVA.              *)
(***************************************************************************)
EXTENDS PeImage, TLAPS

\* A section of an image has numbers in its fields.
LEMMA SectionType ==
  ASSUME NEW p, p.sections \in Seq(Section), NEW i \in DOMAIN p.sections
  PROVE  /\ p.sections[i] \in Section
         /\ p.sections[i].va \in Nat /\ p.sections[i].vsize \in Nat
         /\ p.sections[i].raw \in Nat /\ p.sections[i].rawSize \in Nat
         /\ Span(p.sections[i]) \in Nat
         /\ p.sections[i].rawSize <= Span(p.sections[i])
<1>1. p.sections[i] \in Section
  OBVIOUS
<1>2. /\ p.sections[i].va \in Nat /\ p.sections[i].vsize \in Nat
      /\ p.sections[i].raw \in Nat /\ p.sections[i].rawSize \in Nat
  BY <1>1 DEF Section
<1>3. QED
  BY <1>1, <1>2 DEF Span

\* Two intervals with a common member overlap (uwd_intervals_overlap_u32).
LEMMA OverlapAt ==
  ASSUME NEW a \in Nat, NEW m \in Nat, NEW b \in Nat, NEW n \in Nat, NEW x \in Nat,
         a <= x, x < a + m, b <= x, x < b + n
  PROVE  Overlap(a, m, b, n)
BY DEF Overlap

\* uwd_parse_pe: two sections of an accepted image have no address in common.
THEOREM SpansDisjoint ==
  ASSUME NEW p, p.sections \in Seq(Section), ParseAccepts(p),
         NEW i \in DOMAIN p.sections, NEW j \in DOMAIN p.sections, NEW rva \in Nat,
         p.sections[i].va <= rva, rva < p.sections[i].va + Span(p.sections[i]),
         p.sections[j].va <= rva, rva < p.sections[j].va + Span(p.sections[j])
  PROVE  i = j
<1>1. /\ p.sections[i].va \in Nat /\ Span(p.sections[i]) \in Nat
      /\ p.sections[j].va \in Nat /\ Span(p.sections[j]) \in Nat
  BY SectionType
<1>2. i \in Nat /\ j \in Nat
  OBVIOUS
<1>3. /\ Overlap(p.sections[i].va, Span(p.sections[i]), p.sections[j].va, Span(p.sections[j]))
      /\ Overlap(p.sections[j].va, Span(p.sections[j]), p.sections[i].va, Span(p.sections[i]))
  BY <1>1, OverlapAt
<1>4. ~(i < j) /\ ~(j < i)
  BY <1>3 DEF ParseAccepts, Apart
<1>5. QED
  BY <1>2, <1>4

\* uwd_parse_pe: two sections of an accepted image have no byte of the file in common.
THEOREM BytesDisjoint ==
  ASSUME NEW p, p.sections \in Seq(Section), ParseAccepts(p),
         NEW i \in DOMAIN p.sections, NEW j \in DOMAIN p.sections, NEW offset \in Nat,
         p.sections[i].raw <= offset, offset < p.sections[i].raw + p.sections[i].rawSize,
         p.sections[j].raw <= offset, offset < p.sections[j].raw + p.sections[j].rawSize
  PROVE  i = j
<1>1. /\ p.sections[i].raw \in Nat /\ p.sections[i].rawSize \in Nat
      /\ p.sections[j].raw \in Nat /\ p.sections[j].rawSize \in Nat
  BY SectionType
<1>2. i \in Nat /\ j \in Nat
  OBVIOUS
<1>3. /\ Overlap(p.sections[i].raw, p.sections[i].rawSize, p.sections[j].raw, p.sections[j].rawSize)
      /\ Overlap(p.sections[j].raw, p.sections[j].rawSize, p.sections[i].raw, p.sections[i].rawSize)
  BY <1>1, OverlapAt
<1>4. ~(i < j) /\ ~(j < i)
  BY <1>3 DEF ParseAccepts, Apart
<1>5. QED
  BY <1>2, <1>4

\* No RVA of an accepted image has bytes in two sections.
LEMMA OneBacking ==
  ASSUME NEW p, p.sections \in Seq(Section), ParseAccepts(p), NEW rva \in Nat,
         NEW i \in Backing(p, rva), NEW j \in Backing(p, rva)
  PROVE  i = j
<1>1. i \in DOMAIN p.sections /\ j \in DOMAIN p.sections
  BY DEF Backing
<1>2. ASSUME NEW k \in Backing(p, rva)
      PROVE  p.sections[k].va <= rva /\ rva < p.sections[k].va + Span(p.sections[k])
  <2>1. k \in DOMAIN p.sections /\ HasBytes(p.sections[k], rva)
    BY DEF Backing
  <2>2. /\ p.sections[k].va \in Nat /\ p.sections[k].rawSize \in Nat
        /\ Span(p.sections[k]) \in Nat
        /\ p.sections[k].rawSize <= Span(p.sections[k])
    BY <2>1, SectionType
  <2>3. p.sections[k].va <= rva /\ rva - p.sections[k].va < p.sections[k].rawSize
    BY <2>1 DEF HasBytes
  <2>4. QED
    BY <2>2, <2>3
<1>3. QED
  BY <1>1, <1>2, SpansDisjoint

\* So the first section that has the byte is the only one (the order of the
\* section table does not matter to uwd_map_rva_span).
LEMMA FirstIsOnly ==
  ASSUME NEW p, p.sections \in Seq(Section), ParseAccepts(p), NEW rva \in Nat,
         Backing(p, rva) # {}
  PROVE  /\ FirstBacking(p, rva) \in Backing(p, rva)
         /\ \A j \in Backing(p, rva) : j = FirstBacking(p, rva)
<1>1. PICK i \in Backing(p, rva) : TRUE
  OBVIOUS
<1>2. \A j \in Backing(p, rva) : j = i
  BY OneBacking
<1>3. i \in Nat
  BY DEF Backing
<1>4. \E k \in Backing(p, rva) : \A j \in Backing(p, rva) : k <= j
  BY <1>2, <1>3
<1>5. FirstBacking(p, rva) \in Backing(p, rva)
  BY <1>4 DEF FirstBacking
<1>6. QED
  BY <1>2, <1>5

\* Where uwd_map_rva_span puts a mapped byte: in the headers, at its own RVA, or
\* in the section that has it.
LEMMA MapCases ==
  ASSUME NEW p, p.sections \in Seq(Section), p.size \in Nat, p.headerSize \in Nat,
         p.imageSize \in Nat, ParseAccepts(p), NEW rva \in Nat,
         MapRvaSpan(p, rva, 1) # NoOffset
  PROVE  LET offset == MapRvaSpan(p, rva, 1) IN
         \/ rva < p.headerSize /\ offset = rva
         \/ \E i \in DOMAIN p.sections :
              /\ HasBytes(p.sections[i], rva)
              /\ offset = p.sections[i].raw + (rva - p.sections[i].va)
<1>1. CASE rva < p.headerSize
  BY <1>1 DEF MapRvaSpan, MapHeader, NoOffset
<1>2. CASE ~(rva < p.headerSize)
  <2> DEFINE i == FirstBacking(p, rva)
  <2>1. /\ Backing(p, rva) # {}
        /\ MapRvaSpan(p, rva, 1) = MapSection(p, p.sections[i], rva, 1)
    BY <1>2 DEF MapRvaSpan
  <2>2. i \in Backing(p, rva)
    BY <2>1, FirstIsOnly
  <2>3. i \in DOMAIN p.sections /\ HasBytes(p.sections[i], rva)
    BY <2>2 DEF Backing
  <2>4. MapRvaSpan(p, rva, 1) = p.sections[i].raw + (rva - p.sections[i].va)
    BY <2>1 DEF MapSection
  <2>5. QED
    BY <2>3, <2>4
<1>3. QED
  BY <1>1, <1>2

\* A byte that is in the file in a section is behind the headers and in the file.
LEMMA SectionBytes ==
  ASSUME NEW p, p.sections \in Seq(Section), p.size \in Nat, p.headerSize \in Nat,
         ParseAccepts(p), NEW rva \in Nat, NEW i \in DOMAIN p.sections,
         HasBytes(p.sections[i], rva)
  PROVE  LET offset == p.sections[i].raw + (rva - p.sections[i].va) IN
         /\ offset \in Nat
         /\ p.sections[i].raw <= offset /\ offset < p.sections[i].raw + p.sections[i].rawSize
         /\ p.headerSize <= offset /\ offset < p.size
<1>1. p.sections[i].va \in Nat /\ p.sections[i].raw \in Nat /\ p.sections[i].rawSize \in Nat
  BY SectionType
<1>2. SectionOk(p, p.sections[i])
  BY DEF ParseAccepts
<1>3. p.sections[i].va <= rva /\ rva - p.sections[i].va < p.sections[i].rawSize
  BY DEF HasBytes
<1>4. p.sections[i].raw >= p.headerSize /\ p.sections[i].raw + p.sections[i].rawSize <= p.size
  BY <1>1, <1>2, <1>3 DEF SectionOk
<1>5. ASSUME NEW raw \in Nat, NEW va \in Nat, NEW n \in Nat, NEW head \in Nat, NEW total \in Nat,
             va <= rva, rva - va < n, raw >= head, raw + n <= total
      PROVE  /\ raw + (rva - va) \in Nat
             /\ raw <= raw + (rva - va) /\ raw + (rva - va) < raw + n
             /\ head <= raw + (rva - va) /\ raw + (rva - va) < total
  BY <1>5
<1>6. QED
  BY <1>1, <1>3, <1>4, <1>5

\* A mapped byte of an accepted image is inside the file.
THEOREM MapInFile ==
  ASSUME NEW p, p.sections \in Seq(Section), p.size \in Nat, p.headerSize \in Nat,
         p.imageSize \in Nat, ParseAccepts(p), NEW rva \in Nat,
         MapRvaSpan(p, rva, 1) # NoOffset
  PROVE  MapRvaSpan(p, rva, 1) \in Nat /\ MapRvaSpan(p, rva, 1) < p.size
<1>1. p.headerSize <= p.size
  BY DEF ParseAccepts, HeadersOk
<1>2. CASE rva < p.headerSize /\ MapRvaSpan(p, rva, 1) = rva
  BY <1>1, <1>2
<1>3. CASE \E i \in DOMAIN p.sections :
             /\ HasBytes(p.sections[i], rva)
             /\ MapRvaSpan(p, rva, 1) = p.sections[i].raw + (rva - p.sections[i].va)
  BY <1>3, SectionBytes
<1>4. QED
  BY <1>2, <1>3, MapCases

\* Two RVAs of an accepted image are not mapped to one byte of the file.
THEOREM MapInjective ==
  ASSUME NEW p, p.sections \in Seq(Section), p.size \in Nat, p.headerSize \in Nat,
         p.imageSize \in Nat, ParseAccepts(p), NEW rva \in Nat, NEW other \in Nat,
         MapRvaSpan(p, rva, 1) # NoOffset,
         MapRvaSpan(p, other, 1) = MapRvaSpan(p, rva, 1)
  PROVE  other = rva
<1> DEFINE offset == MapRvaSpan(p, rva, 1)
           Headed(r) == r < p.headerSize /\ offset = r
           Sectioned(r, i) == /\ HasBytes(p.sections[i], r)
                              /\ offset = p.sections[i].raw + (r - p.sections[i].va)
<1>1. Headed(rva) \/ \E i \in DOMAIN p.sections : Sectioned(rva, i)
  BY MapCases
<1>2. Headed(other) \/ \E i \in DOMAIN p.sections : Sectioned(other, i)
  BY MapCases
<1>3. ASSUME NEW r \in Nat, NEW i \in DOMAIN p.sections, Sectioned(r, i)
      PROVE  /\ offset \in Nat /\ p.headerSize <= offset
             /\ p.sections[i].raw <= offset
             /\ offset < p.sections[i].raw + p.sections[i].rawSize
  BY <1>3, SectionBytes
<1>4. CASE Headed(rva) /\ Headed(other)
  BY <1>4
<1>5. ASSUME NEW i \in DOMAIN p.sections, Sectioned(rva, i),
             NEW j \in DOMAIN p.sections, Sectioned(other, j)
      PROVE  other = rva
  <2>1. offset \in Nat
    BY <1>3, <1>5
  <2>2. i = j
    <3> HIDE DEF offset
    <3>1. /\ p.sections[i].raw <= offset /\ offset < p.sections[i].raw + p.sections[i].rawSize
          /\ p.sections[j].raw <= offset /\ offset < p.sections[j].raw + p.sections[j].rawSize
      BY <1>3, <1>5
    <3>2. QED
      BY <2>1, <3>1, BytesDisjoint
  <2>3. p.sections[i].va \in Nat /\ p.sections[i].raw \in Nat
    BY SectionType
  <2>4. /\ offset = p.sections[i].raw + (rva - p.sections[i].va)
        /\ offset = p.sections[i].raw + (other - p.sections[i].va)
    BY <1>5, <2>2
  <2>5. QED
    BY <2>3, <2>4
<1>6. ASSUME NEW r \in Nat, Headed(r), NEW q \in Nat, NEW j \in DOMAIN p.sections, Sectioned(q, j)
      PROVE  FALSE
  <2>1. p.headerSize <= offset
    BY <1>3, <1>6
  <2>2. QED
    BY <1>6, <2>1
<1>7. QED
  BY <1>1, <1>2, <1>4, <1>5, <1>6
==============================================================================
