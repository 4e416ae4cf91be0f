------------------------- MODULE WatermarkScanProofs -------------------------
(***************************************************************************)
(* The structural search is right for every file, whatever its size and    *)
(* whatever the order of its sections, functions, imports and calls:       *)
(* ScanInv is inductive.                                                   *)
(*                                                                         *)
(* The argument.  Loading checks that each .pdata entry starts where the   *)
(* one before it ended or later; the invariant strengthens that to any two *)
(* entries (TableLoaded), which is what the binary search needs to discard *)
(* half of the table (SearchHolds).  The scan's record is exact for the    *)
(* part of the file behind the loops (RecordExact): a step that moves past *)
(* a position either finds nothing there, or records the one function      *)
(* around it.  When the loops are through, that part is the whole file.    *)
(***************************************************************************)
EXTENDS WatermarkScan, PeImageProofs

USE DEF position, search, table

\* The fields of the file have their types, and its addresses fit 32 bits.
LEMMA FileType ==
  ASSUME pe \in File
  PROVE  /\ pe.sections \in Seq(Section) /\ pe.pdata \in Seq(RuntimeFunction)
         /\ pe.imports \in Seq(Descriptor)
         /\ pe.size \in Nat /\ pe.headerSize \in Nat /\ pe.imageSize \in Nat
         /\ pe.calls \in SUBSET Call /\ pe.whites \in SUBSET White
         /\ pe.imageSize <= MaxRva
BY ScanAssumption DEF File

\* The bounds of a function of the table are numbers.
LEMMA EntryType ==
  ASSUME pe \in File, NEW e \in DOMAIN pe.pdata
  PROVE  pe.pdata[e].begin \in Nat /\ pe.pdata[e].end \in Nat
<1>1. pe.pdata[e] \in RuntimeFunction
  BY FileType
<1>2. QED
  BY <1>1 DEF RuntimeFunction

\* An import descriptor has a list of names.
LEMMA ImportType ==
  ASSUME pe \in File, NEW d \in DOMAIN pe.imports
  PROVE  pe.imports[d].names \in Seq(ImportNames) /\ pe.imports[d].dll \in Dlls
         /\ pe.imports[d].ended \in BOOLEAN
<1>1. pe.imports[d] \in Descriptor
  BY FileType
<1>2. QED
  BY <1>1 DEF Descriptor

\* A call that is in the bytes of a section is at an address the guard against
\* wrapping (call_rva > UINT32_MAX - 6) never refuses.
LEMMA NoWrap ==
  ASSUME pe \in File, ParseAccepts(pe), NEW s \in DOMAIN pe.sections, NEW i \in Nat,
         i + CallLength <= pe.sections[s].rawSize
  PROVE  pe.sections[s].va + i <= MaxRva - CallLength
<1>1. /\ pe.sections[s].va \in Nat /\ pe.sections[s].rawSize \in Nat
      /\ Span(pe.sections[s]) \in Nat /\ pe.sections[s].rawSize <= Span(pe.sections[s])
  BY FileType, SectionType
<1>2. SectionOk(pe, pe.sections[s])
  BY DEF ParseAccepts
<1>3. CallLength \in Nat \ {0} /\ MaxRva \in Nat
  BY ScanAssumption
<1>4. Span(pe.sections[s]) # 0
  BY <1>1, <1>3
<1>5. Span(pe.sections[s]) <= pe.imageSize - pe.sections[s].va
  BY <1>2, <1>4 DEF SectionOk
<1>6. pe.imageSize \in Nat /\ pe.imageSize <= MaxRva
  BY FileType
<1>7. QED
  BY <1>1, <1>3, <1>5, <1>6

\* The test for the displacement is the plain equation.
LEMMA CallExact ==
  ASSUME pe \in File, ParseAccepts(pe), NEW s \in DOMAIN pe.sections, NEW i \in Nat,
         i + CallLength <= pe.sections[s].rawSize, NEW slot
  PROVE  CallsSlot(pe.sections[s], i, slot) <=>
           \E call \in pe.calls :
             /\ call.at = pe.sections[s].raw + i
             /\ pe.sections[s].va + i + CallLength + call.displacement = slot
BY NoWrap DEF CallsSlot

\* A function of the table around a byte of a section starts in that section:
\* the section .pdata was checked against is the one being scanned, and the
\* first early return of uwd_has_white_argument is never taken.
LEMMA SameSection ==
  ASSUME pe \in File, ParseAccepts(pe), NEW s \in DOMAIN pe.sections, NEW i \in Nat,
         i < pe.sections[s].rawSize,
         NEW e \in DOMAIN pe.pdata, Encloses(pe.pdata[e], pe.sections[s], i),
         ExecSectionContains(pe, pe.pdata[e].begin, pe.pdata[e].end)
  PROVE  pe.sections[s].va <= pe.pdata[e].begin
<1>1. PICK k \in DOMAIN pe.sections :
        /\ pe.pdata[e].begin >= pe.sections[k].va
        /\ pe.pdata[e].end <= pe.sections[k].va + Span(pe.sections[k])
  BY DEF ExecSectionContains
<1>2. pe.pdata[e].begin \in Nat /\ pe.pdata[e].end \in Nat
  BY EntryType
<1>3. /\ pe.sections[k].va \in Nat /\ Span(pe.sections[k]) \in Nat
      /\ pe.sections[s].va \in Nat /\ Span(pe.sections[s]) \in Nat
      /\ pe.sections[s].rawSize \in Nat /\ pe.sections[s].rawSize <= Span(pe.sections[s])
  BY FileType, SectionType
<1> DEFINE rva == pe.sections[s].va + i
<1>4. /\ rva \in Nat
      /\ pe.sections[s].va <= rva /\ rva < pe.sections[s].va + Span(pe.sections[s])
  BY <1>3
<1>5. pe.sections[k].va <= rva /\ rva < pe.sections[k].va + Span(pe.sections[k])
  BY <1>1, <1>2, <1>3 DEF Encloses
<1>6. k = s
  <2> HIDE DEF rva
  <2>1. QED
    BY <1>4, <1>5, FileType, SpansDisjoint
<1>7. QED
  BY <1>1, <1>2, <1>3, <1>6

\* White is loaded between the start of f, or of the window, and the call.
WhiteBetween(f, code, i) ==
  \E white \in pe.whites, j \in 0..i :
    /\ white.at = code.raw + j
    /\ f.begin <= code.va + j
    /\ j + white.length <= i
    /\ i <= j + WhiteLookback

\* uwd_has_white_argument finds exactly that.
LEMMA WhiteExact ==
  ASSUME pe \in File, ParseAccepts(pe), NEW s \in DOMAIN pe.sections, NEW i \in Nat,
         i < pe.sections[s].rawSize,
         NEW e \in DOMAIN pe.pdata, Encloses(pe.pdata[e], pe.sections[s], i),
         ExecSectionContains(pe, pe.pdata[e].begin, pe.pdata[e].end)
  PROVE  HasWhiteArgument(pe.sections[s], i, pe.pdata[e].begin)
           <=> WhiteBetween(pe.pdata[e], pe.sections[s], i)
<1> DEFINE code == pe.sections[s]
           begin == pe.pdata[e].begin
           window == IF i > WhiteLookback THEN i - WhiteLookback ELSE 0
           start == IF window < begin - code.va THEN begin - code.va ELSE window
<1>1. code.va \in Nat /\ code.raw \in Nat
  BY FileType, SectionType
<1>2. begin \in Nat /\ code.va <= begin
  BY SameSection, EntryType
<1>3. begin - code.va <= i
  BY <1>1, <1>2 DEF Encloses
<1>4. WhiteLookback \in Nat
  BY ScanAssumption
<1>5. ASSUME NEW white \in pe.whites
      PROVE  white.at \in Nat /\ white.length \in Nat \ {0}
  <2>1. white \in White
    BY FileType
  <2>2. QED
    BY <2>1 DEF White
<1>6. window \in Nat /\ start \in Int
  BY <1>1, <1>2, <1>4
<1>7. ASSUME NEW white \in pe.whites
      PROVE  (white.at - code.raw \in start..(i - 1) /\ code.raw + i - white.at >= white.length)
               <=> \E j \in 0..i : /\ white.at = code.raw + j /\ begin <= code.va + j
                                   /\ j + white.length <= i /\ i <= j + WhiteLookback
  <2> DEFINE at == white.at
             n == white.length
             raw == code.raw
             va == code.va
  <2>1. va \in Nat /\ raw \in Nat /\ begin \in Nat /\ at \in Nat /\ n \in Nat \ {0}
    BY <1>1, <1>2, <1>5
  <2>2. /\ window = IF i > WhiteLookback THEN i - WhiteLookback ELSE 0
        /\ start = IF window < begin - va THEN begin - va ELSE window
    OBVIOUS
  <2> HIDE DEF window, start, code, begin, at, n, raw, va
  <2>3. ASSUME at - raw \in start..(i - 1), raw + i - at >= n
        PROVE  \E j \in 0..i : at = raw + j /\ begin <= va + j /\ j + n <= i /\ i <= j + WhiteLookback
    <3>1. at - raw \in 0..i
      BY <1>4, <1>6, <2>1, <2>2, <2>3
    <3>2. /\ at = raw + (at - raw) /\ begin <= va + (at - raw)
          /\ (at - raw) + n <= i /\ i <= (at - raw) + WhiteLookback
      BY <1>4, <1>6, <2>1, <2>2, <2>3
    <3>3. QED
      BY <3>1, <3>2
  <2>4. ASSUME NEW j \in 0..i, at = raw + j, begin <= va + j, j + n <= i, i <= j + WhiteLookback
        PROVE  at - raw \in start..(i - 1) /\ raw + i - at >= n
    BY <1>4, <1>6, <2>1, <2>2, <2>4
  <2>5. (at - raw \in start..(i - 1) /\ raw + i - at >= n)
          <=> \E j \in 0..i : at = raw + j /\ begin <= va + j /\ j + n <= i /\ i <= j + WhiteLookback
    BY <2>3, <2>4
  <2>6. QED
    BY <2>5 DEF at, n, raw, va
<1>8. HasWhiteArgument(code, i, begin) <=>
        \E white \in pe.whites : /\ white.at - code.raw \in start..(i - 1)
                                 /\ code.raw + i - white.at >= white.length
  BY <1>2, <1>3 DEF HasWhiteArgument
<1>9. QED
  BY <1>7, <1>8 DEF WhiteBetween
------------------------------------------------------------------------------
\* Positions that paint nothing may be passed without a record.
LEMMA PaintersKept ==
  ASSUME pe \in File, pe' = pe,
         \A d \in DOMAIN pe.imports : \A t \in DOMAIN pe.imports[d].names :
           \A s \in DOMAIN pe.sections : \A i \in 0..pe.sections[s].rawSize :
             \A e \in DOMAIN pe.pdata :
               Paints(pe.pdata[e], d, t, s, i) => (Passed(d, t, s, i)' <=> Passed(d, t, s, i))
  PROVE  PaintersPassed' = PaintersPassed
<1>1. ASSUME NEW f, NEW d, NEW t, NEW s, NEW i
      PROVE  Paints(f, d, t, s, i)' <=> Paints(f, d, t, s, i)
  BY DEF Paints, SlotOf, Encloses
<1>2. ASSUME NEW e \in DOMAIN pe.pdata
      PROVE  PaintsBehind(pe.pdata[e])' <=> PaintsBehind(pe.pdata[e])
  BY <1>1 DEF PaintsBehind
<1>3. QED
  BY <1>2 DEF PaintersPassed

\* A position is four numbers.
LEMMA PositionType ==
  ASSUME pe \in File, NEW d \in DOMAIN pe.imports, NEW t \in DOMAIN pe.imports[d].names,
         NEW s \in DOMAIN pe.sections, NEW i \in 0..pe.sections[s].rawSize
  PROVE  d \in Nat \ {0} /\ t \in Nat \ {0} /\ s \in Nat \ {0} /\ i \in Nat
<1>1. d \in Nat \ {0} /\ s \in Nat \ {0} /\ i \in Nat
  BY FileType, SectionType
<1>2. t \in Nat \ {0}
  BY ImportType
<1>3. QED
  BY <1>1, <1>2

\* Nothing is passed while no counter has moved.
LEMMA NothingPassed ==
  ASSUME pe \in File, descriptor = 1, thunk = 1, section = 1, index = 0
  PROVE  PaintersPassed = {}
<1>1. ASSUME NEW d \in DOMAIN pe.imports, NEW t \in DOMAIN pe.imports[d].names,
             NEW s \in DOMAIN pe.sections, NEW i \in 0..pe.sections[s].rawSize
      PROVE  ~Passed(d, t, s, i)
  <2>1. d \in Nat \ {0} /\ t \in Nat \ {0} /\ s \in Nat \ {0} /\ i \in Nat
    BY PositionType
  <2>2. QED
    BY <2>1 DEF Passed
<1>2. QED
  BY <1>1 DEF PaintersPassed, PaintsBehind

\* All is passed once the import table is done.
LEMMA AllPassed ==
  ASSUME pe \in File, descriptor = Len(pe.imports) + 1
  PROVE  PaintersPassed = Painters
<1>1. ASSUME NEW d \in DOMAIN pe.imports, NEW t, NEW s, NEW i
      PROVE  Passed(d, t, s, i)
  BY FileType DEF Passed
<1>2. ASSUME NEW f
      PROVE  PaintsBehind(f) <=> PaintsSomewhere(f)
  BY <1>1 DEF PaintsBehind, PaintsSomewhere
<1>3. QED
  BY <1>2 DEF PaintersPassed, Painters

\* The scan's record stays exact when only flags are added to it.
LEMMA RecordKept ==
  ASSUME RecordExact, PaintersPassed' = PaintersPassed,
         scan.saw \subseteq scan'.saw, scan'.saw \subseteq Saw,
         scan'.candidate = scan.candidate, scan'.ambiguous = scan.ambiguous
  PROVE  RecordExact'
BY DEF RecordExact, Saw

\* ScanInv holds in every initial state.
THEOREM InitScan == Init => ScanInv
<1> SUFFICES ASSUME Init PROVE ScanInv
  OBVIOUS
<1> USE DEF Init
<1>1. pe \in File
  BY ScanAssumption
<1>2. TypeOK
  BY <1>1, FileType DEF TypeOK, Phases, ScanState, NoFunction
<1>3. PaintersPassed = {}
  BY <1>1, NothingPassed
<1>4. RecordExact
  BY <1>3 DEF RecordExact
<1>5. ImportsRead
  BY DEF ImportsRead
<1>6. Readable /\ TableLoaded /\ Loops /\ Flags /\ SearchHolds /\ ResultExact
  BY DEF Readable, Accepted, TableLoaded, Loops, Flags, SearchHolds, ResultExact
<1>7. QED
  BY <1>2, <1>4, <1>5, <1>6 DEF ScanInv
------------------------------------------------------------------------------
\* Parse keeps ScanInv.
LEMMA ParseKeeps == ScanInv /\ Parse => ScanInv'
<1> SUFFICES ASSUME ScanInv, Parse PROVE ScanInv'
  OBVIOUS
<1>1. /\ pe' = pe /\ entry' = entry /\ previousEnd' = previousEnd
      /\ descriptor' = descriptor /\ thunk' = thunk /\ section' = section /\ index' = index
      /\ low' = low /\ high' = high /\ scan' = scan /\ phase = "parse"
      /\ phase' \in {"pdata", "failed"}
      /\ phase' = "pdata" <=> ParseAccepts(pe) /\ pe.machine = "AMD64" /\ pe.pdata # <<>>
  BY DEF Parse
<1>2. TypeOK /\ TypeOK' /\ pe \in File
  BY <1>1 DEF ScanInv, TypeOK, Phases
<1>3. PaintersPassed' = PaintersPassed
  BY <1>1, <1>2, PaintersKept DEF Passed
<1>4. RecordExact'
  BY <1>1, <1>3 DEF ScanInv, RecordExact
<1>5. Readable'
  BY <1>1 DEF Readable, Accepted
<1>6. TableLoaded' /\ Loops' /\ Flags'
  BY <1>1 DEF ScanInv, TableLoaded, Loops, Flags
<1>7. ImportsRead'
  BY <1>1 DEF ScanInv, ImportsRead, Loops
<1>8. SearchHolds'
  BY <1>1 DEF SearchHolds
<1>9. ResultExact'
  BY <1>1 DEF ResultExact, WellFormed
<1>10. QED
  BY <1>2, <1>4, <1>5, <1>6, <1>7, <1>8, <1>9 DEF ScanInv

\* LoadPdata keeps ScanInv; in particular entries that are sorted side by side
\* are sorted pairwise.
LEMMA LoadPdataKeeps == ScanInv /\ LoadPdata => ScanInv'
<1> SUFFICES ASSUME ScanInv, LoadPdata PROVE ScanInv'
  OBVIOUS
<1>1. /\ pe' = pe
      /\ descriptor' = descriptor /\ thunk' = thunk /\ section' = section /\ index' = index
      /\ low' = low /\ high' = high /\ scan' = scan /\ phase = "pdata"
      /\ phase' \in {"pdata", "descriptor", "failed"}
  BY DEF LoadPdata
<1>2. TypeOK /\ pe \in File /\ entry \in 0..Len(pe.pdata) /\ Len(pe.pdata) \in Nat
  BY FileType DEF ScanInv, TypeOK
<1>3. PaintersPassed' = PaintersPassed
  BY <1>1, <1>2, PaintersKept DEF Passed
<1>4. RecordExact'
  BY <1>1, <1>3 DEF ScanInv, RecordExact
<1>5. Readable'
  BY <1>1 DEF ScanInv, Readable, Accepted
<1>6. Loops' /\ Flags' /\ ImportsRead'
  BY <1>1 DEF ScanInv, Loops, Flags, ImportsRead
<1>7. SearchHolds'
  BY <1>1 DEF SearchHolds
<1>8. TypeOK' /\ TableLoaded' /\ ResultExact'
  <2>1. CASE entry = Len(pe.pdata)
    <3>1. phase' = "descriptor" /\ entry' = entry /\ previousEnd' = previousEnd
      BY <2>1 DEF LoadPdata
    <3>2. TypeOK'
      BY <1>1, <1>2, <3>1 DEF TypeOK, Phases
    <3>3. TableLoaded'
      BY <1>1, <2>1, <3>1 DEF ScanInv, TableLoaded
    <3>4. ResultExact'
      BY <3>1 DEF ResultExact
    <3>5. QED
      BY <3>2, <3>3, <3>4
  <2>2. CASE entry # Len(pe.pdata)
    <3> DEFINE f == pe.pdata[entry + 1]
    <3>1. entry + 1 \in DOMAIN pe.pdata /\ entry \in Nat
      BY <1>2, <2>2, FileType
    <3>2. f.begin \in Nat /\ f.end \in Nat
      BY <1>2, <3>1, EntryType
    <3>3. CASE PdataEntryOk(f)
      <4>1. entry' = entry + 1 /\ previousEnd' = f.end /\ phase' = "pdata"
        BY <1>1, <2>2, <3>3 DEF LoadPdata
      <4>2. TypeOK'
        BY <1>1, <1>2, <2>2, <3>2, <4>1 DEF TypeOK, Phases
      <4>3. /\ f.begin < f.end /\ f.end <= pe.imageSize
            /\ ExecSectionContains(pe, f.begin, f.end)
            /\ entry # 0 => previousEnd <= f.begin
        BY <1>2, <3>2, <3>3 DEF PdataEntryOk, TypeOK
      <4>4. ASSUME NEW e \in 1..entry
            PROVE  /\ pe.pdata[e].begin < pe.pdata[e].end
                   /\ pe.pdata[e].end <= f.begin /\ pe.pdata[e].end <= f.end
                   /\ pe.pdata[e].end <= pe.imageSize
                   /\ ExecSectionContains(pe, pe.pdata[e].begin, pe.pdata[e].end)
        <5>1. e \in DOMAIN pe.pdata /\ entry # 0
          BY <1>2, <3>1, FileType
        <5>2. pe.pdata[e].end \in Nat /\ previousEnd \in Nat
          BY <1>2, <5>1, EntryType DEF TypeOK
        <5>3. QED
          BY <3>2, <4>3, <5>1, <5>2 DEF ScanInv, TableLoaded
      <4>5. \A e \in 1..entry' :
              /\ pe.pdata[e].begin < pe.pdata[e].end
              /\ pe.pdata[e].end <= previousEnd'
              /\ pe.pdata[e].end <= pe.imageSize
              /\ ExecSectionContains(pe, pe.pdata[e].begin, pe.pdata[e].end)
        <5>1. \A e \in 1..entry' : e \in 1..entry \/ e = entry + 1
          BY <3>1, <4>1
        <5>2. QED
          BY <3>2, <4>1, <4>3, <4>4, <5>1
      <4>6. \A e, g \in 1..entry' : e < g => pe.pdata[e].end <= pe.pdata[g].begin
        <5>1. \A e, g \in 1..entry' :
                e < g => e \in 1..entry /\ (g \in 1..entry \/ g = entry + 1)
          BY <3>1, <4>1
        <5>2. QED
          BY <4>4, <5>1 DEF ScanInv, TableLoaded
      <4>7. TableLoaded'
        BY <1>1, <4>1, <4>5, <4>6 DEF TableLoaded
      <4>8. ResultExact'
        BY <4>1 DEF ResultExact
      <4>9. QED
        BY <4>2, <4>7, <4>8
    <3>4. CASE ~PdataEntryOk(f)
      <4>1. entry' = entry /\ previousEnd' = previousEnd /\ phase' = "failed"
        BY <2>2, <3>4 DEF LoadPdata
      <4>2. TypeOK' /\ TableLoaded'
        BY <1>1, <1>2, <4>1 DEF ScanInv, TypeOK, Phases, TableLoaded
      <4>3. ~WellFormed
        <5> SUFFICES ASSUME WellFormed PROVE FALSE
          OBVIOUS
        <5>1. f.end <= pe.imageSize /\ ExecSectionContains(pe, f.begin, f.end)
          BY <3>1 DEF WellFormed
        <5>2. f.begin < f.end
          BY <5>1 DEF ExecSectionContains
        <5>3. entry # 0 => f.begin >= previousEnd
          <6> SUFFICES ASSUME entry # 0 PROVE f.begin >= previousEnd
            OBVIOUS
          <6>1. previousEnd = pe.pdata[entry].end
            BY DEF ScanInv, TableLoaded
          <6>2. pe.pdata[(entry + 1) - 1].end <= pe.pdata[entry + 1].begin
            BY <3>1 DEF WellFormed
          <6>3. (entry + 1) - 1 = entry
            BY <3>1
          <6>4. previousEnd \in Nat
            BY <1>2 DEF TypeOK
          <6>5. QED
            BY <3>2, <6>1, <6>2, <6>3, <6>4
        <5>4. QED
          BY <3>4, <5>1, <5>2, <5>3 DEF PdataEntryOk
      <4>4. WellFormed' = WellFormed
        BY <1>1 DEF WellFormed, ImportOk, NameOk, SlotOf, SlotMapped
      <4>5. ResultExact'
        BY <4>1, <4>3, <4>4 DEF ResultExact
      <4>6. QED
        BY <4>2, <4>5
    <3>5. QED
      BY <3>3, <3>4
  <2>3. QED
    BY <2>1, <2>2
<1>9. QED
  BY <1>4, <1>5, <1>6, <1>7, <1>8 DEF ScanInv
------------------------------------------------------------------------------
\* Steps after the loading leave the file and its table alone.
LEMMA TableKept ==
  ASSUME ScanInv, pe' = pe, entry' = entry, previousEnd' = previousEnd,
         phase \in {"descriptor", "thunk", "site", "search"},
         phase' \in {"descriptor", "thunk", "site", "search", "found", "failed"}
  PROVE  /\ TableLoaded' /\ Readable'
         /\ WellFormed' = WellFormed /\ Painters' = Painters
         /\ \A d : ImportOk(d)' = ImportOk(d)
         /\ \A d, t : NameOk(d, t)' = NameOk(d, t)
<1>1. TableLoaded' /\ Readable'
  BY DEF ScanInv, TableLoaded, Readable, Accepted
<1>2. /\ \A d : ImportOk(d)' = ImportOk(d)
      /\ \A d, t : NameOk(d, t)' = NameOk(d, t)
  BY DEF ImportOk, NameOk, SlotOf, SlotMapped
<1>3. WellFormed' = WellFormed
  BY <1>2 DEF WellFormed
<1>4. Painters' = Painters
  BY DEF Painters, PaintsSomewhere, Paints, SlotOf, Encloses
<1>5. QED
  BY <1>1, <1>2, <1>3, <1>4

\* A loaded file with a readable import table is well formed.
LEMMA LoadedIsWellFormed ==
  ASSUME ScanInv, phase = "descriptor", descriptor = Len(pe.imports) + 1, pe.importsEnded
  PROVE  WellFormed
<1>1. /\ pe \in File /\ entry = Len(pe.pdata)
      /\ ParseAccepts(pe) /\ pe.machine = "AMD64" /\ pe.pdata # <<>>
  BY DEF ScanInv, TypeOK, TableLoaded, Readable, Accepted
<1>2. 1..entry = DOMAIN pe.pdata /\ entry \in Nat
  BY <1>1, FileType
<1>3. \A e \in DOMAIN pe.pdata :
        /\ pe.pdata[e].end <= pe.imageSize
        /\ ExecSectionContains(pe, pe.pdata[e].begin, pe.pdata[e].end)
  BY <1>2 DEF ScanInv, TableLoaded
<1>4. \A e \in DOMAIN pe.pdata \ {1} : pe.pdata[e - 1].end <= pe.pdata[e].begin
  <2> SUFFICES ASSUME NEW e \in DOMAIN pe.pdata \ {1}
               PROVE  pe.pdata[e - 1].end <= pe.pdata[e].begin
    OBVIOUS
  <2>1. e \in 1..entry /\ e - 1 \in 1..entry /\ e - 1 < e
    BY <1>2
  <2>2. QED
    BY <2>1 DEF ScanInv, TableLoaded
<1>5. \A d \in DOMAIN pe.imports : ImportOk(d)
  <2>1. DOMAIN pe.imports = 1..(descriptor - 1)
    BY <1>1, FileType
  <2>2. QED
    BY <2>1 DEF ScanInv, ImportsRead
<1>6. QED
  BY <1>1, <1>3, <1>4, <1>5 DEF WellFormed

\* ScanDescriptor keeps ScanInv; in particular the end of the import table gives
\* the exact result.
LEMMA ScanDescriptorKeeps == ScanInv /\ ScanDescriptor => ScanInv'
<1> SUFFICES ASSUME ScanInv, ScanDescriptor PROVE ScanInv'
  OBVIOUS
<1>1. /\ pe' = pe /\ entry' = entry /\ previousEnd' = previousEnd
      /\ thunk' = thunk /\ section' = section /\ index' = index
      /\ low' = low /\ high' = high /\ scan' = scan /\ phase = "descriptor"
  BY DEF ScanDescriptor
<1>2. TypeOK /\ pe \in File /\ descriptor \in 1..(Len(pe.imports) + 1) /\ Len(pe.imports) \in Nat
  BY FileType DEF ScanInv, TypeOK
<1>3. thunk = 1 /\ section = 1 /\ index = 0
  BY <1>1 DEF ScanInv, Loops
<1>4. CASE descriptor > Len(pe.imports)
  <2>1. descriptor' = descriptor /\ phase' \in {"found", "failed"}
        /\ (phase' = "found" <=> pe.importsEnded /\ Unique)
    BY <1>4 DEF ScanDescriptor
  <2>2. descriptor = Len(pe.imports) + 1
    BY <1>2, <1>4
  <2>3. TypeOK'
    BY <1>1, <1>2, <2>1 DEF TypeOK, Phases
  <2>4. TableLoaded' /\ Readable' /\ WellFormed' = WellFormed /\ Painters' = Painters
        /\ \A d : ImportOk(d)' = ImportOk(d)
    BY <1>1, <2>1, TableKept
  <2>5. PaintersPassed' = PaintersPassed
    BY <1>1, <1>2, <2>1, PaintersKept DEF Passed
  <2>6. RecordExact'
    BY <1>1, <2>5 DEF ScanInv, RecordExact
  <2>7. Loops' /\ Flags' /\ SearchHolds'
    BY <1>1, <2>1, <2>2 DEF Loops, Flags, SearchHolds, Unique
  <2>8. ImportsRead'
    BY <2>1, <2>4 DEF ScanInv, ImportsRead
  <2>9. PaintersPassed = Painters
    BY <1>2, <2>2, AllPassed
  <2>10. /\ IF Painters = {} THEN scan.candidate = NoFunction
              ELSE scan.candidate \in Painters /\ scan.saw = Saw
         /\ scan.ambiguous <=> \E begin \in Painters : begin # scan.candidate
    BY <2>9 DEF ScanInv, RecordExact
  <2>11. ASSUME phase' = "found" PROVE WellFormed /\ Painters = {scan.candidate}
    <3>1. WellFormed
      BY <1>1, <2>1, <2>2, <2>11, LoadedIsWellFormed
    <3>2. QED
      BY <2>1, <2>10, <2>11, <3>1 DEF Unique
  <2>12. ASSUME phase' = "failed", WellFormed, NEW begin \in Painters, Painters = {begin}
         PROVE  FALSE
    <3>1. pe.importsEnded /\ begin \in Nat
      <4>1. PICK e \in DOMAIN pe.pdata : begin = pe.pdata[e].begin
        BY <2>12 DEF Painters
      <4>2. QED
        BY <1>2, <2>12, <4>1, EntryType DEF WellFormed
    <3>2. scan.candidate = begin /\ scan.saw = Saw /\ ~scan.ambiguous
      BY <2>10, <2>12
    <3>3. QED
      BY <2>1, <2>12, <3>1, <3>2 DEF Unique, NoFunction
  <2>13. ResultExact'
    BY <1>1, <2>4, <2>11, <2>12 DEF ResultExact
  <2>14. QED
    BY <2>3, <2>4, <2>6, <2>7, <2>8, <2>13 DEF ScanInv
<1>5. CASE ~(descriptor > Len(pe.imports))
  <2> DEFINE dll == pe.imports[descriptor].dll
  <2>1. descriptor \in DOMAIN pe.imports /\ descriptor \in Nat
    BY <1>2, <1>5, FileType
  <2>2. CASE dll = "invalid"
    <3>1. descriptor' = descriptor /\ phase' = "failed"
      BY <1>5, <2>2 DEF ScanDescriptor
    <3>2. TypeOK'
      BY <1>1, <1>2, <3>1 DEF TypeOK, Phases
    <3>3. TableLoaded' /\ Readable' /\ WellFormed' = WellFormed /\ \A d : ImportOk(d)' = ImportOk(d)
      BY <1>1, <3>1, TableKept
    <3>4. PaintersPassed' = PaintersPassed
      BY <1>1, <1>2, <3>1, PaintersKept DEF Passed
    <3>5. RecordExact'
      BY <1>1, <3>4 DEF ScanInv, RecordExact
    <3>6. Loops' /\ Flags' /\ SearchHolds'
      BY <1>1, <3>1 DEF Loops, Flags, SearchHolds
    <3>7. ImportsRead'
      BY <3>1, <3>3 DEF ScanInv, ImportsRead
    <3>8. ~WellFormed
      BY <2>1, <2>2 DEF WellFormed, ImportOk
    <3>9. ResultExact'
      BY <3>1, <3>3, <3>8 DEF ResultExact
    <3>10. QED
      BY <3>2, <3>3, <3>5, <3>6, <3>7, <3>9 DEF ScanInv
  <2>3. CASE dll = "other"
    <3>1. descriptor' = descriptor + 1 /\ phase' = "descriptor"
      BY <1>1, <1>5, <2>3 DEF ScanDescriptor
    <3>2. TypeOK'
      BY <1>1, <1>2, <1>5, <3>1 DEF TypeOK
    <3>3. TableLoaded' /\ Readable' /\ \A d : ImportOk(d)' = ImportOk(d)
      BY <1>1, <3>1, TableKept
    <3>4. ASSUME NEW d \in DOMAIN pe.imports, NEW t \in DOMAIN pe.imports[d].names,
                 NEW s \in DOMAIN pe.sections, NEW i \in 0..pe.sections[s].rawSize, NEW f,
                 Paints(f, d, t, s, i)
          PROVE  Passed(d, t, s, i)' <=> Passed(d, t, s, i)
      <4>1. d # descriptor
        BY <2>3, <3>4 DEF Paints
      <4>2. d \in Nat \ {0} /\ t \in Nat \ {0} /\ s \in Nat \ {0} /\ i \in Nat
        BY <1>2, PositionType
      <4>3. QED
        BY <1>1, <1>3, <2>1, <3>1, <4>1, <4>2 DEF Passed
    <3>5. PaintersPassed' = PaintersPassed
      BY <1>1, <1>2, <3>4, PaintersKept
    <3>6. RecordExact'
      BY <1>1, <3>5 DEF ScanInv, RecordExact
    <3>7. Loops' /\ Flags' /\ SearchHolds' /\ ResultExact'
      BY <1>1, <1>3, <3>1 DEF Loops, Flags, SearchHolds, ResultExact
    <3>8. ImportsRead'
      <4>1. ImportOk(descriptor)
        BY <2>3 DEF ImportOk
      <4>2. \A d \in 1..(descriptor' - 1) : d \in 1..(descriptor - 1) \/ d = descriptor
        BY <2>1, <3>1
      <4>3. QED
        BY <3>1, <3>3, <4>1, <4>2 DEF ScanInv, ImportsRead
    <3>9. QED
      BY <3>2, <3>3, <3>6, <3>7, <3>8 DEF ScanInv
  <2>4. CASE dll = "GDI32"
    <3>1. descriptor' = descriptor /\ phase' = "thunk"
      BY <1>5, <2>4 DEF ScanDescriptor
    <3>2. TypeOK'
      BY <1>1, <1>2, <3>1 DEF TypeOK, Phases
    <3>3. TableLoaded' /\ Readable' /\ \A d : ImportOk(d)' = ImportOk(d)
      BY <1>1, <3>1, TableKept
    <3>4. PaintersPassed' = PaintersPassed
      BY <1>1, <1>2, <3>1, PaintersKept DEF Passed
    <3>5. RecordExact'
      BY <1>1, <3>4 DEF ScanInv, RecordExact
    <3>6. Loops'
      <4>1. 1 \in 1..(Len(pe.imports[descriptor].names) + 1)
        BY <1>2, <2>1, ImportType
      <4>2. QED
        BY <1>1, <1>3, <2>1, <2>4, <3>1, <4>1 DEF Loops, InDescriptor
    <3>7. SearchHolds' /\ Flags' /\ ResultExact'
      BY <3>1 DEF SearchHolds, Flags, ResultExact
    <3>8. ImportsRead'
      BY <1>1, <1>3, <3>1, <3>3 DEF ScanInv, ImportsRead
    <3>9. QED
      BY <3>2, <3>3, <3>5, <3>6, <3>7, <3>8 DEF ScanInv
  <2>5. dll \in Dlls
    BY <1>2, <2>1, ImportType
  <2>6. QED
    BY <2>2, <2>3, <2>4, <2>5 DEF Dlls
<1>6. QED
  BY <1>4, <1>5

\* What the steps of the loops inside the import table have in common: they stay
\* in the descriptor, and name no function yet.
LEMMA InsideKeeps ==
  ASSUME ScanInv, pe' = pe, entry' = entry, previousEnd' = previousEnd,
         phase \in {"thunk", "site", "search"}, phase' \in {"thunk", "site", "search"},
         TypeOK', Loops', SearchHolds', RecordExact', descriptor' = descriptor,
         scan.saw \subseteq scan'.saw,
         phase = "thunk" /\ phase' = "site" => "import" \in scan'.saw,
         phase = "site" /\ phase' = "search" => "call" \in scan'.saw,
         ~(phase = "thunk" /\ phase' = "search"),
         \A t \in 1..(thunk' - 1) : NameOk(descriptor, t)
  PROVE  ScanInv'
<1>1. TableLoaded' /\ Readable' /\ \A d : ImportOk(d)' = ImportOk(d)
      /\ \A g, t : NameOk(g, t)' = NameOk(g, t)
  BY TableKept
<1>2. ImportsRead'
  BY <1>1 DEF ScanInv, ImportsRead
<1>3. ResultExact'
  BY DEF ResultExact
<1>4. Flags'
  BY DEF ScanInv, Flags
<1>5. QED
  BY <1>1, <1>2, <1>3, <1>4 DEF ScanInv

\* ScanThunk keeps ScanInv.
LEMMA ScanThunkKeeps == ScanInv /\ ScanThunk => ScanInv'
<1> SUFFICES ASSUME ScanInv, ScanThunk PROVE ScanInv'
  OBVIOUS
<1> DEFINE names == pe.imports[descriptor].names
<1>1. /\ pe' = pe /\ entry' = entry /\ previousEnd' = previousEnd
      /\ low' = low /\ high' = high /\ phase = "thunk"
  BY DEF ScanThunk
<1>2. TypeOK /\ pe \in File /\ scan \in ScanState
  BY DEF ScanInv, TypeOK
<1>3. /\ section = 1 /\ index = 0 /\ descriptor \in DOMAIN pe.imports
      /\ pe.imports[descriptor].dll = "GDI32" /\ thunk \in 1..(Len(names) + 1)
  BY <1>1 DEF ScanInv, Loops, InDescriptor
<1>4. names \in Seq(ImportNames) /\ Len(names) \in Nat /\ pe.imports[descriptor].ended \in BOOLEAN
  BY <1>2, <1>3, ImportType
<1>5. descriptor \in Nat \ {0} /\ thunk \in Nat \ {0} /\ Len(pe.imports) \in Nat
      /\ descriptor <= Len(pe.imports) /\ DOMAIN pe.imports = 1..Len(pe.imports)
  BY <1>2, <1>3, <1>4, FileType
<1>6. \A t \in 1..(thunk - 1) : NameOk(descriptor, t)
  BY <1>1 DEF ScanInv, ImportsRead
<1>7. ASSUME phase' = "failed", UNCHANGED <<position, scan>>, ~ImportOk(descriptor)
      PROVE  ScanInv'
  <2>1. TypeOK'
    BY <1>1, <1>2, <1>7 DEF TypeOK, Phases
  <2>2. TableLoaded' /\ Readable' /\ WellFormed' = WellFormed /\ \A d : ImportOk(d)' = ImportOk(d)
    BY <1>1, <1>7, TableKept
  <2>3. PaintersPassed' = PaintersPassed
    BY <1>1, <1>2, <1>7, PaintersKept DEF Passed
  <2>4. RecordExact'
    BY <1>7, <2>3 DEF ScanInv, RecordExact
  <2>5. Loops' /\ Flags' /\ SearchHolds'
    BY <1>7 DEF Loops, Flags, SearchHolds
  <2>6. ImportsRead'
    BY <1>7, <2>2 DEF ScanInv, ImportsRead
  <2>7. ResultExact'
    BY <1>3, <1>7, <2>2 DEF ResultExact, WellFormed
  <2>8. QED
    BY <2>1, <2>2, <2>4, <2>5, <2>6, <2>7 DEF ScanInv
<1>8. CASE thunk > Len(names) /\ ~pe.imports[descriptor].ended
  <2>1. phase' = "failed" /\ UNCHANGED <<position, scan>>
    BY <1>8 DEF ScanThunk
  <2>2. ~ImportOk(descriptor)
    BY <1>3, <1>8 DEF ImportOk
  <2>3. QED
    BY <1>7, <2>1, <2>2
<1>9. CASE thunk > Len(names) /\ pe.imports[descriptor].ended
  <2>1. /\ phase' = "descriptor" /\ descriptor' = descriptor + 1 /\ thunk' = 1
        /\ section' = section /\ index' = index /\ scan' = scan
    BY <1>9 DEF ScanThunk
  <2>2. TypeOK'
    BY <1>1, <1>2, <1>5, <2>1 DEF TypeOK, Phases
  <2>3. TableLoaded' /\ Readable' /\ \A d : ImportOk(d)' = ImportOk(d)
    BY <1>1, <2>1, TableKept
  <2>4. ASSUME NEW d \in DOMAIN pe.imports, NEW t \in DOMAIN pe.imports[d].names,
               NEW s \in DOMAIN pe.sections, NEW i \in 0..pe.sections[s].rawSize
        PROVE  Passed(d, t, s, i)' <=> Passed(d, t, s, i)
    <3>1. d \in Nat \ {0} /\ t \in Nat \ {0} /\ s \in Nat \ {0} /\ i \in Nat
      BY <1>2, PositionType
    <3>2. d = descriptor => t < thunk
      BY <1>4, <1>5, <1>9, <3>1
    <3>3. QED
      BY <1>3, <1>5, <2>1, <3>1, <3>2 DEF Passed
  <2>5. PaintersPassed' = PaintersPassed
    BY <1>1, <1>2, <2>4, PaintersKept
  <2>6. RecordExact'
    BY <2>1, <2>5 DEF ScanInv, RecordExact
  <2>7. Loops' /\ Flags' /\ SearchHolds' /\ ResultExact'
    BY <1>3, <2>1 DEF Loops, Flags, SearchHolds, ResultExact
  <2>8. ImportOk(descriptor)
    <3>1. DOMAIN names \subseteq 1..(thunk - 1)
      BY <1>4, <1>5, <1>9
    <3>2. QED
      BY <1>3, <1>6, <1>9, <3>1 DEF ImportOk
  <2>9. ImportsRead'
    <3>1. \A d \in 1..(descriptor' - 1) : d \in 1..(descriptor - 1) \/ d = descriptor
      BY <1>5, <2>1
    <3>2. QED
      BY <2>1, <2>3, <2>8, <3>1 DEF ScanInv, ImportsRead
  <2>10. QED
    BY <2>2, <2>3, <2>6, <2>7, <2>9 DEF ScanInv
<1>10. CASE ~(thunk > Len(names))
  <2>1. thunk \in DOMAIN names /\ thunk \in DOMAIN pe.imports[descriptor].names
    BY <1>4, <1>5, <1>10
  <2>2. CASE names[thunk] = "invalid" \/ (names[thunk] = "SetTextColor" /\ ~SlotMapped(Slot))
    <3>1. phase' = "failed" /\ UNCHANGED <<position, scan>>
      BY <1>10, <2>2 DEF ScanThunk
    <3>2. ~NameOk(descriptor, thunk)
      BY <2>2 DEF NameOk, Slot
    <3>3. ~ImportOk(descriptor)
      BY <1>3, <2>1, <3>2 DEF ImportOk
    <3>4. QED
      BY <1>7, <3>1, <3>3
  <2>3. CASE names[thunk] = "other"
    <3>1. /\ thunk' = thunk + 1 /\ phase' = "thunk" /\ descriptor' = descriptor
          /\ section' = section /\ index' = index /\ scan' = scan
      BY <1>1, <1>10, <2>3 DEF ScanThunk
    <3>2. TypeOK'
      BY <1>1, <1>2, <1>5, <3>1 DEF TypeOK, Phases
    <3>3. ASSUME NEW d \in DOMAIN pe.imports, NEW t \in DOMAIN pe.imports[d].names,
                 NEW s \in DOMAIN pe.sections, NEW i \in 0..pe.sections[s].rawSize, NEW f,
                 Paints(f, d, t, s, i)
          PROVE  Passed(d, t, s, i)' <=> Passed(d, t, s, i)
      <4>1. d \in Nat \ {0} /\ t \in Nat \ {0} /\ s \in Nat \ {0} /\ i \in Nat
        BY <1>2, PositionType
      <4>2. ~(d = descriptor /\ t = thunk)
        BY <2>3, <3>3 DEF Paints
      <4>3. QED
        BY <1>3, <1>5, <3>1, <4>1, <4>2 DEF Passed
    <3>4. PaintersPassed' = PaintersPassed
      BY <1>1, <1>2, <3>3, PaintersKept
    <3>5. RecordExact'
      BY <3>1, <3>4 DEF ScanInv, RecordExact
    <3>6. thunk + 1 \in 1..(Len(names) + 1)
      BY <1>4, <1>5, <1>10
    <3>7. Loops' /\ SearchHolds'
      BY <1>1, <1>3, <3>1, <3>6 DEF Loops, InDescriptor, SearchHolds
    <3>8. \A t \in 1..(thunk' - 1) : NameOk(descriptor, t)
      <4>1. NameOk(descriptor, thunk)
        BY <2>3 DEF NameOk
      <4>2. \A t \in 1..(thunk' - 1) : t \in 1..(thunk - 1) \/ t = thunk
        BY <1>5, <3>1
      <4>3. QED
        BY <1>6, <4>1, <4>2
    <3>9. QED
      BY <1>1, <3>1, <3>2, <3>5, <3>7, <3>8, InsideKeeps
  <2>4. CASE names[thunk] = "SetTextColor" /\ SlotMapped(Slot)
    <3>1. /\ phase' = "site" /\ scan' = [scan EXCEPT !.saw = @ \cup {"import"}]
          /\ UNCHANGED position
      BY <1>10, <2>4 DEF ScanThunk
    <3>2. /\ scan' \in ScanState /\ scan.saw \subseteq scan'.saw /\ scan'.saw \subseteq Saw
          /\ scan'.candidate = scan.candidate /\ scan'.ambiguous = scan.ambiguous
      BY <1>2, <3>1 DEF ScanState, Saw
    <3>3. TypeOK'
      BY <1>1, <1>2, <3>1, <3>2 DEF TypeOK, Phases
    <3>4. PaintersPassed' = PaintersPassed
      BY <1>1, <1>2, <3>1, PaintersKept DEF Passed
    <3>5. RecordExact'
      BY <3>2, <3>4, RecordKept DEF ScanInv
    <3>6. InThunk'
      BY <1>1, <1>3, <2>1, <2>4, <3>1 DEF InThunk, InDescriptor, SlotMapped, Slot, SlotOf
    <3>7. Loops' /\ SearchHolds'
      BY <3>1, <3>6 DEF Loops, SearchHolds
    <3>8. QED
      BY <1>1, <1>6, <3>1, <3>3, <3>5, <3>7, InsideKeeps
  <2>5. names[thunk] \in ImportNames
    BY <1>4, <2>1
  <2>6. QED
    BY <2>2, <2>3, <2>4, <2>5 DEF ImportNames
<1>11. QED
  BY <1>8, <1>9, <1>10
------------------------------------------------------------------------------
\* What holds in the loops over the code.
LEMMA InCode ==
  ASSUME ScanInv, phase \in {"site", "search"}
  PROVE  /\ TypeOK /\ pe \in File /\ scan \in ScanState /\ ParseAccepts(pe)
         /\ entry = Len(pe.pdata) /\ DOMAIN pe.pdata = 1..entry
         /\ InThunk
         /\ descriptor \in Nat /\ thunk \in Nat \ {0} /\ section \in Nat \ {0} /\ index \in Nat
         /\ section <= Len(pe.sections) + 1
         /\ DOMAIN pe.sections = 1..Len(pe.sections) /\ Len(pe.sections) \in Nat
         /\ \A t \in 1..(thunk - 1) : NameOk(descriptor, t)
         /\ CallLength \in Nat \ {0}
<1>1. TypeOK /\ pe \in File /\ scan \in ScanState
  BY DEF ScanInv, TypeOK
<1>2. InThunk /\ \A t \in 1..(thunk - 1) : NameOk(descriptor, t)
  BY DEF ScanInv, Loops, InSite, ImportsRead
<1>3. entry = Len(pe.pdata) /\ ParseAccepts(pe)
  BY DEF ScanInv, TableLoaded, Readable, Accepted
<1>4. /\ DOMAIN pe.pdata = 1..Len(pe.pdata)
      /\ DOMAIN pe.sections = 1..Len(pe.sections) /\ Len(pe.sections) \in Nat
      /\ Len(pe.imports) \in Nat
  BY <1>1, FileType
<1>5. /\ descriptor \in Nat /\ thunk \in Nat \ {0} /\ section \in Nat \ {0} /\ index \in Nat
      /\ section <= Len(pe.sections) + 1
  BY <1>1, <1>4 DEF TypeOK
<1>6. QED
  BY <1>1, <1>2, <1>3, <1>4, <1>5, ScanAssumption

\* ScanSite keeps ScanInv; in particular what it skips paints nothing.
LEMMA ScanSiteKeeps == ScanInv /\ ScanSite => ScanInv'
<1> SUFFICES ASSUME ScanInv, ScanSite PROVE ScanInv'
  OBVIOUS
<1> DEFINE code == pe.sections[section]
<1>1. /\ pe' = pe /\ entry' = entry /\ previousEnd' = previousEnd /\ phase = "site"
      /\ descriptor' = descriptor
  BY DEF ScanSite
<1>2. /\ TypeOK /\ pe \in File /\ scan \in ScanState /\ ParseAccepts(pe)
      /\ entry = Len(pe.pdata) /\ DOMAIN pe.pdata = 1..entry
      /\ InThunk
      /\ descriptor \in Nat /\ thunk \in Nat \ {0} /\ section \in Nat \ {0} /\ index \in Nat
      /\ section <= Len(pe.sections) + 1
      /\ DOMAIN pe.sections = 1..Len(pe.sections) /\ Len(pe.sections) \in Nat
      /\ CallLength \in Nat \ {0}
  BY <1>1, InCode
<1>3. \A t \in 1..(thunk - 1) : NameOk(descriptor, t)
  BY <1>1, InCode
<1>4. CASE section > Len(pe.sections)
  <2>1. /\ phase' = "thunk" /\ thunk' = thunk + 1 /\ section' = 1 /\ index' = 0
        /\ low' = low /\ high' = high /\ scan' = scan
    BY <1>4 DEF ScanSite
  <2>2. TypeOK'
    BY <1>1, <1>2, <2>1 DEF TypeOK, Phases
  <2>3. ASSUME NEW d \in DOMAIN pe.imports, NEW t \in DOMAIN pe.imports[d].names,
               NEW s \in DOMAIN pe.sections, NEW i \in 0..pe.sections[s].rawSize
        PROVE  Passed(d, t, s, i)' <=> Passed(d, t, s, i)
    <3>1. d \in Nat \ {0} /\ t \in Nat \ {0} /\ s \in Nat \ {0} /\ i \in Nat
      BY <1>2, PositionType
    <3>2. s < section
      BY <1>2, <1>4
    <3>3. QED
      BY <1>1, <1>2, <2>1, <3>1, <3>2 DEF Passed
  <2>4. PaintersPassed' = PaintersPassed
    BY <1>1, <1>2, <2>3, PaintersKept
  <2>5. RecordExact'
    BY <2>1, <2>4 DEF ScanInv, RecordExact
  <2>6. Loops' /\ SearchHolds'
    <3>1. pe.imports[descriptor].names \in Seq(ImportNames)
      BY <1>2, ImportType DEF InThunk, InDescriptor
    <3>2. thunk + 1 \in 1..(Len(pe.imports[descriptor].names) + 1)
      BY <1>2, <3>1 DEF InThunk
    <3>3. QED
      BY <1>1, <1>2, <2>1, <3>2 DEF Loops, SearchHolds, InThunk, InDescriptor
  <2>7. \A t \in 1..(thunk' - 1) : NameOk(descriptor, t)
    <3>1. NameOk(descriptor, thunk)
      BY <1>2 DEF InThunk, NameOk, Slot
    <3>2. \A t \in 1..(thunk' - 1) : t \in 1..(thunk - 1) \/ t = thunk
      BY <1>2, <2>1
    <3>3. QED
      BY <1>3, <3>1, <3>2
  <2>8. QED
    BY <1>1, <2>1, <2>2, <2>5, <2>6, <2>7, InsideKeeps
<1>5. CASE ~(section > Len(pe.sections))
  <2>1. section \in DOMAIN pe.sections
    BY <1>2, <1>5
  <2>2. code.rawSize \in Nat
    BY <1>2, <2>1, FileType, SectionType
  <2>3. CASE ~Scannable(code) \/ index + CallLength > code.rawSize
    <3>1. /\ section' = section + 1 /\ index' = 0 /\ phase' = "site" /\ thunk' = thunk
          /\ low' = low /\ high' = high /\ scan' = scan
      BY <1>1, <1>5, <2>3 DEF ScanSite
    <3>2. TypeOK'
      BY <1>1, <1>2, <1>5, <3>1 DEF TypeOK, Phases
    <3>3. ASSUME NEW d \in DOMAIN pe.imports, NEW t \in DOMAIN pe.imports[d].names,
                 NEW s \in DOMAIN pe.sections, NEW i \in 0..pe.sections[s].rawSize, NEW f,
                 Paints(f, d, t, s, i)
          PROVE  Passed(d, t, s, i)' <=> Passed(d, t, s, i)
      <4>1. d \in Nat \ {0} /\ t \in Nat \ {0} /\ s \in Nat \ {0} /\ i \in Nat
        BY <1>2, PositionType
      <4>2. s = section => i < index
        <5> SUFFICES ASSUME s = section, i >= index PROVE FALSE
          BY <1>2, <4>1
        <5>1. code.exec /\ i + CallLength <= code.rawSize
          BY <3>3 DEF Paints
        <5>2. QED
          BY <1>2, <2>2, <2>3, <4>1, <5>1 DEF Scannable
      <4>3. QED
        BY <1>1, <1>2, <3>1, <4>1, <4>2 DEF Passed
    <3>4. PaintersPassed' = PaintersPassed
      BY <1>1, <1>2, <3>3, PaintersKept
    <3>5. RecordExact'
      BY <3>1, <3>4 DEF ScanInv, RecordExact
    <3>6. Loops' /\ SearchHolds'
      BY <1>1, <1>2, <3>1
         DEF Loops, SearchHolds, InThunk, InDescriptor, SlotMapped, Slot, SlotOf
    <3>7. QED
      BY <1>1, <1>3, <3>1, <3>2, <3>5, <3>6, InsideKeeps
  <2>4. CASE Scannable(code) /\ ~(index + CallLength > code.rawSize) /\ CallsSlot(code, index, Slot)
    <3>1. /\ phase' = "search" /\ low' = 0 /\ high' = Len(pe.pdata)
          /\ scan' = [scan EXCEPT !.saw = @ \cup {"call"}]
          /\ UNCHANGED position
      BY <1>5, <2>4 DEF ScanSite
    <3>2. /\ scan' \in ScanState /\ scan.saw \subseteq scan'.saw /\ scan'.saw \subseteq Saw
          /\ scan'.candidate = scan.candidate /\ scan'.ambiguous = scan.ambiguous
      BY <1>2, <3>1 DEF ScanState, Saw
    <3>3. Len(pe.pdata) \in Nat
      BY <1>2, FileType
    <3>4. TypeOK'
      BY <1>1, <1>2, <3>1, <3>2, <3>3 DEF TypeOK, Phases
    <3>5. PaintersPassed' = PaintersPassed
      BY <1>1, <1>2, <3>1, PaintersKept DEF Passed
    <3>6. RecordExact'
      BY <3>2, <3>5, RecordKept DEF ScanInv
    <3>7. InSite'
      <4>1. InThunk'
        BY <1>1, <1>2, <3>1 DEF InThunk, InDescriptor, SlotMapped, Slot, SlotOf
      <4>2. CallsSlot(code, index, Slot)'
        BY <1>1, <2>4, <3>1 DEF CallsSlot, Slot, SlotOf
      <4>3. index + CallLength <= code.rawSize
        BY <1>2, <2>2, <2>4
      <4>4. QED
        BY <1>1, <2>1, <2>4, <3>1, <4>1, <4>2, <4>3 DEF InSite, Scannable
    <3>8. SearchHolds'
      BY <1>1, <1>2, <3>1 DEF SearchHolds
    <3>9. Loops'
      BY <3>1, <3>7 DEF Loops
    <3>10. QED
      BY <1>1, <1>3, <3>1, <3>4, <3>6, <3>8, <3>9, InsideKeeps
  <2>5. CASE Scannable(code) /\ ~(index + CallLength > code.rawSize) /\ ~CallsSlot(code, index, Slot)
    <3>1. /\ index' = index + 1 /\ phase' = "site" /\ thunk' = thunk /\ section' = section
          /\ low' = low /\ high' = high /\ scan' = scan
      BY <1>1, <1>5, <2>5 DEF ScanSite
    <3>2. TypeOK'
      BY <1>1, <1>2, <3>1 DEF TypeOK, Phases
    <3>3. index + CallLength <= code.rawSize
      BY <1>2, <2>2, <2>5
    <3>4. ASSUME NEW d \in DOMAIN pe.imports, NEW t \in DOMAIN pe.imports[d].names,
                 NEW s \in DOMAIN pe.sections, NEW i \in 0..pe.sections[s].rawSize, NEW f,
                 Paints(f, d, t, s, i)
          PROVE  Passed(d, t, s, i)' <=> Passed(d, t, s, i)
      <4>1. d \in Nat \ {0} /\ t \in Nat \ {0} /\ s \in Nat \ {0} /\ i \in Nat
        BY <1>2, PositionType
      <4>2. ~(d = descriptor /\ t = thunk /\ s = section /\ i = index)
        <5> SUFFICES ASSUME d = descriptor, t = thunk, s = section, i = index PROVE FALSE
          OBVIOUS
        <5>1. CallsSlot(code, index, SlotOf(d, t))
          BY <1>2, <2>1, <3>3, <3>4, CallExact DEF Paints
        <5>2. QED
          BY <2>5, <5>1 DEF Slot
      <4>3. QED
        BY <1>1, <1>2, <3>1, <4>1, <4>2 DEF Passed
    <3>5. PaintersPassed' = PaintersPassed
      BY <1>1, <1>2, <3>4, PaintersKept
    <3>6. RecordExact'
      BY <3>1, <3>5 DEF ScanInv, RecordExact
    <3>7. Loops' /\ SearchHolds'
      BY <1>1, <1>2, <3>1
         DEF Loops, SearchHolds, InThunk, InDescriptor, SlotMapped, Slot, SlotOf
    <3>8. QED
      BY <1>1, <1>3, <3>1, <3>2, <3>6, <3>7, InsideKeeps
  <2>6. QED
    BY <2>3, <2>4, <2>5
<1>6. QED
  BY <1>4, <1>5
------------------------------------------------------------------------------
\* The functions of a loaded table, seen from one address: those before a
\* function end before it starts.
LEMMA LoadedTable ==
  ASSUME ScanInv, phase = "search"
  PROVE  /\ \A e \in DOMAIN pe.pdata :
              /\ pe.pdata[e].begin \in Nat /\ pe.pdata[e].end \in Nat
              /\ pe.pdata[e].begin < pe.pdata[e].end
              /\ ExecSectionContains(pe, pe.pdata[e].begin, pe.pdata[e].end)
         /\ \A e, g \in DOMAIN pe.pdata : e < g => pe.pdata[e].end <= pe.pdata[g].begin
<1>1. pe \in File /\ DOMAIN pe.pdata = 1..entry
  BY InCode
<1>2. QED
  BY <1>1, EntryType DEF ScanInv, TableLoaded

\* A position without white, or outside every function, paints nothing, so the
\* scan may leave it with its candidates as they are.
LEMMA LeavePosition ==
  ASSUME ScanInv, phase = "search", pe' = pe, descriptor' = descriptor, thunk' = thunk,
         section' = section, index' = index + 1,
         scan.saw \subseteq scan'.saw, scan'.saw \subseteq Saw,
         scan'.candidate = scan.candidate, scan'.ambiguous = scan.ambiguous,
         \A e \in DOMAIN pe.pdata : ~Paints(pe.pdata[e], descriptor, thunk, section, index)
  PROVE  RecordExact'
<1>1. /\ pe \in File
      /\ descriptor \in Nat /\ thunk \in Nat \ {0} /\ section \in Nat \ {0} /\ index \in Nat
  BY InCode
<1>2. ASSUME NEW d \in DOMAIN pe.imports, NEW t \in DOMAIN pe.imports[d].names,
             NEW s \in DOMAIN pe.sections, NEW i \in 0..pe.sections[s].rawSize,
             NEW e \in DOMAIN pe.pdata, Paints(pe.pdata[e], d, t, s, i)
      PROVE  Passed(d, t, s, i)' <=> Passed(d, t, s, i)
  <2>1. d \in Nat \ {0} /\ t \in Nat \ {0} /\ s \in Nat \ {0} /\ i \in Nat
    BY <1>1, PositionType
  <2>2. ~(d = descriptor /\ t = thunk /\ s = section /\ i = index)
    BY <1>2
  <2>3. QED
    BY <1>1, <2>1, <2>2 DEF Passed
<1>3. PaintersPassed' = PaintersPassed
  BY <1>1, <1>2, PaintersKept
<1>4. QED
  BY <1>3, RecordKept DEF ScanInv

\* At a position that paints, the function around it is what is recorded.
LEMMA RecordPosition ==
  ASSUME ScanInv, phase = "search", pe' = pe, descriptor' = descriptor, thunk' = thunk,
         section' = section, index' = index + 1,
         NEW m \in DOMAIN pe.pdata,
         Paints(pe.pdata[m], descriptor, thunk, section, index),
         \A e \in DOMAIN pe.pdata :
           Paints(pe.pdata[e], descriptor, thunk, section, index) => e = m,
         scan.saw \cup {"pdata", "white"} = Saw,
         RecordCandidate(pe.pdata[m].begin)
  PROVE  RecordExact' /\ scan' \in ScanState
<1> DEFINE begin == pe.pdata[m].begin
<1>1. /\ pe \in File /\ InThunk /\ scan \in ScanState
      /\ descriptor \in Nat /\ thunk \in Nat \ {0} /\ section \in Nat \ {0} /\ index \in Nat
      /\ CallLength \in Nat \ {0}
  BY InCode
<1>2. /\ descriptor \in DOMAIN pe.imports /\ thunk \in DOMAIN pe.imports[descriptor].names
      /\ section \in DOMAIN pe.sections /\ index + CallLength <= pe.sections[section].rawSize
  BY DEF ScanInv, Loops, InSite, InThunk, InDescriptor
<1>3. index \in 0..pe.sections[section].rawSize
  <2>1. pe.sections[section].rawSize \in Nat
    BY <1>1, <1>2, FileType, SectionType
  <2>2. QED
    BY <1>1, <1>2, <2>1
<1>4. ASSUME NEW d \in DOMAIN pe.imports, NEW t \in DOMAIN pe.imports[d].names,
             NEW s \in DOMAIN pe.sections, NEW i \in 0..pe.sections[s].rawSize
      PROVE  Passed(d, t, s, i)' <=>
               Passed(d, t, s, i) \/ (d = descriptor /\ t = thunk /\ s = section /\ i = index)
  <2>1. d \in Nat \ {0} /\ t \in Nat \ {0} /\ s \in Nat \ {0} /\ i \in Nat
    BY <1>1, PositionType
  <2>2. QED
    BY <1>1, <2>1 DEF Passed
<1>5. ASSUME NEW f, NEW d, NEW t, NEW s, NEW i
      PROVE  Paints(f, d, t, s, i)' <=> Paints(f, d, t, s, i)
  BY DEF Paints, SlotOf, Encloses
<1>6. ASSUME NEW e \in DOMAIN pe.pdata
      PROVE  PaintsBehind(pe.pdata[e])' <=> PaintsBehind(pe.pdata[e]) \/ e = m
  <2>1. PaintsBehind(pe.pdata[e]) => PaintsBehind(pe.pdata[e])'
    BY <1>4, <1>5 DEF PaintsBehind
  <2>2. PaintsBehind(pe.pdata[m])'
    <3>1. PICK d \in DOMAIN pe.imports, t \in DOMAIN pe.imports[descriptor].names,
               s \in DOMAIN pe.sections, i \in 0..pe.sections[section].rawSize :
                 d = descriptor /\ t = thunk /\ s = section /\ i = index
      BY <1>2, <1>3
    <3>2. t \in DOMAIN pe.imports[d].names /\ i \in 0..pe.sections[s].rawSize
      BY <3>1
    <3>3. Passed(d, t, s, i)'
      BY <1>4, <3>1, <3>2
    <3>4. Paints(pe.pdata[m], d, t, s, i)'
      BY <3>1 DEF Paints, SlotOf, Encloses
    <3>5. QED
      BY <3>2, <3>3, <3>4 DEF PaintsBehind
  <2>3. PaintsBehind(pe.pdata[e])' => PaintsBehind(pe.pdata[e]) \/ e = m
    BY <1>4, <1>5 DEF PaintsBehind
  <2>4. QED
    BY <2>1, <2>2, <2>3
<1>7. PaintersPassed' = PaintersPassed \cup {begin}
  BY <1>6 DEF PaintersPassed
<1>8. begin \in Nat
  BY <1>1, EntryType
<1>9. /\ scan'.saw = Saw
      /\ scan'.candidate = IF scan.candidate = NoFunction THEN begin ELSE scan.candidate
      /\ scan'.ambiguous <=> (scan.ambiguous \/ (scan.candidate # NoFunction /\ scan.candidate # begin))
  BY DEF RecordCandidate
<1>10. scan' \in ScanState
  BY <1>1, <1>8 DEF RecordCandidate, ScanState, Saw
<1>11. ASSUME NEW b \in PaintersPassed PROVE b # NoFunction
  <2>1. PICK e \in DOMAIN pe.pdata : b = pe.pdata[e].begin
    BY DEF PaintersPassed
  <2>2. QED
    BY <1>1, <2>1, EntryType DEF NoFunction
<1>12. RecordExact'
  <2> HIDE DEF begin
  <2>1. CASE PaintersPassed = {}
    BY <1>7, <1>9, <2>1 DEF ScanInv, RecordExact
  <2>2. CASE PaintersPassed # {}
    <3>1. scan.candidate \in PaintersPassed /\ scan.candidate # NoFunction
      BY <1>11, <2>2 DEF ScanInv, RecordExact
    <3>2. scan'.candidate = scan.candidate /\ (scan'.ambiguous <=> scan.ambiguous \/ scan.candidate # begin)
      BY <1>9, <3>1
    <3>3. scan.ambiguous <=> \E b \in PaintersPassed : b # scan.candidate
      BY DEF ScanInv, RecordExact
    <3>4. QED
      BY <1>7, <1>9, <3>1, <3>2, <3>3 DEF RecordExact
  <2>3. QED
    BY <2>1, <2>2
<1>13. QED
  BY <1>10, <1>12

\* Bisect keeps ScanInv; in particular the half of the table it drops has no
\* function around the call.
LEMMA BisectKeeps == ScanInv /\ Bisect => ScanInv'
<1> SUFFICES ASSUME ScanInv, Bisect PROVE ScanInv'
  OBVIOUS
<1> DEFINE code == pe.sections[section]
           middle == low + (high - low) \div 2
           m == middle + 1
           f == pe.pdata[m]
<1>1. /\ pe' = pe /\ entry' = entry /\ previousEnd' = previousEnd /\ phase = "search"
  BY DEF Bisect
<1>2. /\ TypeOK /\ pe \in File /\ scan \in ScanState /\ ParseAccepts(pe)
      /\ DOMAIN pe.pdata = 1..entry /\ entry = Len(pe.pdata)
      /\ InThunk
      /\ descriptor \in Nat /\ thunk \in Nat \ {0} /\ section \in Nat \ {0} /\ index \in Nat
      /\ CallLength \in Nat \ {0}
  BY <1>1, InCode
<1>3. \A t \in 1..(thunk - 1) : NameOk(descriptor, t)
  BY <1>1, InCode
<1>4. /\ section \in DOMAIN pe.sections /\ Scannable(code)
      /\ index + CallLength <= code.rawSize /\ CallsSlot(code, index, Slot)
      /\ InSite
  BY <1>1 DEF ScanInv, Loops, InSite
<1>5. code.va \in Nat /\ code.rawSize \in Nat /\ CallRva \in Nat /\ index < code.rawSize
  <2>1. code.va \in Nat /\ code.rawSize \in Nat
    BY <1>2, <1>4, FileType, SectionType
  <2>2. QED
    BY <1>2, <1>4, <2>1 DEF CallRva
<1>6. entry \in Nat /\ low \in 0..entry /\ high \in 0..entry
  BY <1>2, FileType DEF TypeOK
<1>7. \A e \in DOMAIN pe.pdata : Encloses(pe.pdata[e], code, index) => e \in (low + 1)..high
  BY <1>1 DEF ScanInv, SearchHolds
<1>8. \A e \in DOMAIN pe.pdata :
        /\ pe.pdata[e].begin \in Nat /\ pe.pdata[e].end \in Nat
        /\ pe.pdata[e].begin < pe.pdata[e].end
        /\ ExecSectionContains(pe, pe.pdata[e].begin, pe.pdata[e].end)
        /\ Encloses(pe.pdata[e], code, index) <=> pe.pdata[e].begin <= CallRva /\ CallRva < pe.pdata[e].end
  BY <1>1, LoadedTable DEF Encloses, CallRva
<1>9. \A e, g \in DOMAIN pe.pdata : e < g => pe.pdata[e].end <= pe.pdata[g].begin
  BY <1>1, LoadedTable
<1>10. ASSUME NextPosition
       PROVE  /\ phase' = "site" /\ index' = index + 1
              /\ descriptor' = descriptor /\ thunk' = thunk /\ section' = section
              /\ Loops' /\ SearchHolds'
  <2>1. /\ phase' = "site" /\ index' = index + 1
        /\ descriptor' = descriptor /\ thunk' = thunk /\ section' = section
    BY <1>10 DEF NextPosition
  <2>2. QED
    BY <1>1, <1>2, <2>1
       DEF Loops, SearchHolds, InThunk, InDescriptor, SlotMapped, Slot, SlotOf
<1>11. CASE low >= high
  <2>1. NextPosition /\ UNCHANGED <<low, high, scan>>
    BY <1>11 DEF Bisect
  <2>2. TypeOK'
    BY <1>1, <1>2, <1>10, <2>1 DEF TypeOK, Phases
  <2>3. \A e \in DOMAIN pe.pdata : ~Paints(pe.pdata[e], descriptor, thunk, section, index)
    BY <1>6, <1>7, <1>11 DEF Paints
  <2>4. RecordExact'
    BY <1>1, <1>2, <1>10, <2>1, <2>3, LeavePosition DEF ScanState
  <2>5. QED
    BY <1>1, <1>3, <1>10, <2>1, <2>2, <2>4, InsideKeeps
<1>12. CASE ~(low >= high)
  <2>1. middle \in Nat /\ low <= middle /\ middle < high /\ m \in DOMAIN pe.pdata
    BY <1>2, <1>6, <1>12
  <2>2. f.begin \in Nat /\ f.end \in Nat /\ f.begin < f.end
    BY <1>8, <2>1
  <2> HIDE DEF m, middle
  <2>3. m = middle + 1
    BY DEF m
  <2>4. ASSUME phase' = "search", UNCHANGED <<position, scan>>,
               low' \in 0..entry, high' \in 0..entry,
               \A e \in DOMAIN pe.pdata :
                 Encloses(pe.pdata[e], code, index) => e \in (low' + 1)..high'
        PROVE  ScanInv'
    <3>1. TypeOK'
      BY <1>1, <1>2, <2>4 DEF TypeOK, Phases
    <3>2. PaintersPassed' = PaintersPassed
      BY <1>1, <1>2, <2>4, PaintersKept DEF Passed
    <3>3. RecordExact'
      BY <2>4, <3>2 DEF ScanInv, RecordExact
    <3>4. SearchHolds'
      BY <1>1, <2>4 DEF SearchHolds, Encloses
    <3>5. InSite'
      <4>1. InThunk'
        BY <1>1, <1>2, <2>4 DEF InThunk, InDescriptor, SlotMapped, Slot, SlotOf
      <4>2. CallsSlot(code, index, Slot)'
        BY <1>1, <1>4, <2>4 DEF CallsSlot, Slot, SlotOf
      <4>3. QED
        BY <1>1, <1>4, <2>4, <4>1, <4>2 DEF InSite, Scannable
    <3>6. Loops'
      BY <2>4, <3>5 DEF Loops
    <3>7. QED
      BY <1>1, <1>3, <2>4, <3>1, <3>3, <3>4, <3>6, InsideKeeps
  <2>5. CASE CallRva < f.begin /\ KeepBelow(middle) /\ UNCHANGED <<phase, position, scan>>
    <3>1. low' = low /\ high' = middle /\ high' \in 0..entry
      BY <1>6, <2>1, <2>5 DEF KeepBelow
    <3>2. ASSUME NEW e \in DOMAIN pe.pdata, Encloses(pe.pdata[e], code, index)
          PROVE  e \in (low + 1)..middle
      <4>1. e \in (low + 1)..high /\ pe.pdata[e].begin <= CallRva
        BY <1>7, <1>8, <3>2
      <4>2. ~(e = m) /\ ~(m < e)
        BY <1>5, <1>8, <1>9, <2>1, <2>2, <2>5, <4>1
      <4>3. QED
        BY <1>6, <2>1, <2>3, <4>1, <4>2
    <3>3. QED
      BY <1>1, <1>6, <2>4, <2>5, <3>1, <3>2
  <2>6. CASE CallRva >= f.begin /\ CallRva >= f.end /\ KeepAbove(middle)
             /\ UNCHANGED <<phase, position, scan>>
    <3>1. high' = high /\ low' = middle + 1 /\ low' \in 0..entry
      BY <1>6, <2>1, <2>6 DEF KeepAbove
    <3>2. ASSUME NEW e \in DOMAIN pe.pdata, Encloses(pe.pdata[e], code, index)
          PROVE  e \in (low' + 1)..high
      <4>1. e \in (low + 1)..high /\ CallRva < pe.pdata[e].end
        BY <1>7, <1>8, <3>2
      <4>2. ~(e = m) /\ ~(e < m)
        BY <1>5, <1>8, <1>9, <2>1, <2>2, <2>6, <4>1
      <4>3. QED
        BY <1>6, <2>1, <2>3, <3>1, <4>1, <4>2
    <3>3. QED
      BY <1>1, <1>6, <2>4, <2>6, <3>1, <3>2
  <2>7. CASE /\ CallRva >= f.begin
             /\ CallRva < f.end
             /\ NextPosition
             /\ IF HasWhiteArgument(code, index, f.begin)
                  THEN RecordCandidate(f.begin)
                  ELSE scan' = [scan EXCEPT !.saw = @ \cup {"pdata"}]
             /\ UNCHANGED <<low, high>>
    <3>1. Encloses(f, code, index) /\ ExecSectionContains(pe, f.begin, f.end)
      BY <1>8, <2>1, <2>2, <2>7, <1>5
    <3>2. ASSUME NEW e \in DOMAIN pe.pdata, Encloses(pe.pdata[e], code, index) PROVE e = m
      <4>1. pe.pdata[e].begin <= CallRva /\ CallRva < pe.pdata[e].end
        BY <1>8, <3>2
      <4>2. ~(e < m) /\ ~(m < e)
        BY <1>5, <1>8, <1>9, <2>1, <2>2, <2>7, <4>1
      <4>3. QED
        BY <1>2, <1>6, <2>1, <2>3, <4>2
    <3>3. \A e \in DOMAIN pe.pdata :
            Paints(pe.pdata[e], descriptor, thunk, section, index) => e = m
      BY <3>2 DEF Paints
    <3>4. HasWhiteArgument(code, index, f.begin) <=> WhiteBetween(f, code, index)
      BY <1>2, <1>4, <1>5, <2>1, <3>1, WhiteExact
    <3>5. Paints(f, descriptor, thunk, section, index) <=> WhiteBetween(f, code, index)
      <4>1. \E call \in pe.calls :
              /\ call.at = code.raw + index
              /\ code.va + index + CallLength + call.displacement = SlotOf(descriptor, thunk)
        <5>1. CallsSlot(code, index, SlotOf(descriptor, thunk))
          BY <1>4 DEF Slot
        <5>2. QED
          BY <5>1 DEF CallsSlot
      <4>2. code.exec
        BY <1>4 DEF Scannable
      <4>3. QED
        BY <1>2, <1>4, <3>1, <4>1, <4>2 DEF Paints, WhiteBetween, InThunk, InDescriptor
    <3>6. RecordExact' /\ scan' \in ScanState /\ scan.saw \subseteq scan'.saw
      <4>1. CASE HasWhiteArgument(code, index, f.begin)
        <5>1. scan.saw \cup {"pdata", "white"} = Saw
          BY <1>1, <1>2 DEF ScanInv, Flags, ScanState, Saw
        <5>2. RecordExact' /\ scan' \in ScanState
          BY <1>1, <1>10, <2>1, <2>7, <3>3, <3>4, <3>5, <4>1, <5>1, RecordPosition
        <5>3. scan.saw \subseteq scan'.saw
          BY <2>7, <4>1 DEF RecordCandidate
        <5>4. QED
          BY <5>2, <5>3
      <4>2. CASE ~HasWhiteArgument(code, index, f.begin)
        <5>1. scan' = [scan EXCEPT !.saw = @ \cup {"pdata"}]
          BY <2>7, <4>2
        <5>2. /\ scan' \in ScanState /\ scan.saw \subseteq scan'.saw /\ scan'.saw \subseteq Saw
              /\ scan'.candidate = scan.candidate /\ scan'.ambiguous = scan.ambiguous
          BY <1>2, <5>1 DEF ScanState, Saw
        <5>3. \A e \in DOMAIN pe.pdata : ~Paints(pe.pdata[e], descriptor, thunk, section, index)
          BY <3>3, <3>4, <3>5, <4>2
        <5>4. QED
          BY <1>1, <1>10, <2>7, <5>2, <5>3, LeavePosition
      <4>3. QED
        BY <4>1, <4>2
    <3>7. TypeOK'
      BY <1>1, <1>2, <1>10, <2>7, <3>6 DEF TypeOK, Phases
    <3>8. QED
      BY <1>1, <1>3, <1>10, <2>7, <3>6, <3>7, InsideKeeps
  <2>8. QED
    BY <1>12, <2>5, <2>6, <2>7 DEF Bisect, m, middle
<1>13. QED
  BY <1>11, <1>12

\* ScanInv is inductive.
THEOREM StepScan == ScanInv /\ [Next]_vars => ScanInv'
<1> SUFFICES ASSUME ScanInv, [Next]_vars PROVE ScanInv'
  OBVIOUS
<1>1. CASE Next
  BY <1>1, ParseKeeps, LoadPdataKeeps, ScanDescriptorKeeps, ScanThunkKeeps, ScanSiteKeeps,
     BisectKeeps DEF Next
<1>2. CASE UNCHANGED vars
  <2> USE <1>2 DEF vars
  <2>1. TypeOK' /\ Readable' /\ TableLoaded' /\ Flags'
    BY DEF ScanInv, TypeOK, Readable, Accepted, TableLoaded, Flags
  <2>2. InThunk' = InThunk /\ InSite' = InSite /\ InDescriptor' = InDescriptor
    BY DEF InDescriptor, InThunk, InSite, SlotMapped, Slot, SlotOf, CallsSlot
  <2>3. Loops'
    BY <2>2 DEF ScanInv, Loops, Unique
  <2>4. /\ \A d : ImportOk(d)' = ImportOk(d)
        /\ \A d, t : NameOk(d, t)' = NameOk(d, t)
    BY DEF ImportOk, NameOk, SlotOf, SlotMapped
  <2>5. ImportsRead'
    BY <2>4 DEF ScanInv, ImportsRead
  <2>6. SearchHolds'
    BY DEF ScanInv, SearchHolds, Encloses
  <2>7. WellFormed' = WellFormed
    BY <2>4 DEF WellFormed
  <2>8. Painters' = Painters
    BY DEF Painters, PaintsSomewhere, Paints, SlotOf, Encloses
  <2>9. ResultExact'
    BY <2>7, <2>8 DEF ScanInv, ResultExact
  <2>10. pe \in File
    BY DEF ScanInv, TypeOK
  <2>11. PaintersPassed' = PaintersPassed
    BY <2>10, PaintersKept DEF Passed
  <2>12. RecordExact'
    BY <2>11 DEF ScanInv, RecordExact
  <2>13. QED
    BY <2>1, <2>3, <2>5, <2>6, <2>9, <2>12 DEF ScanInv
<1>3. QED
  BY <1>1, <1>2

\* ScanInv holds in every reachable state of the search.
THEOREM ScanInvariance == Spec => []ScanInv
<1>1. QED
  BY InitScan, StepScan, PTL DEF Spec

\* uwd_pe_find_watermark_rva: the result names the one function that paints, in
\* any file, and there is no result only when there is no such function.
THEOREM ResultIsExact == Spec => []ResultExact
<1>1. ScanInv => ResultExact
  BY DEF ScanInv
<1>2. QED
  BY <1>1, ScanInvariance, PTL

\* uwd_find_runtime_function: the part of the table a search gives up never has
\* the function it looks for.
THEOREM SearchIsExact == Spec => []SearchHolds
<1>1. ScanInv => SearchHolds
  BY DEF ScanInv
<1>2. QED
  BY <1>1, ScanInvariance, PTL

\* uwd_record_candidate: the record is exact for what has been scanned.
THEOREM RecordIsExact == Spec => []RecordExact
<1>1. ScanInv => RecordExact
  BY DEF ScanInv
<1>2. QED
  BY <1>1, ScanInvariance, PTL

\* Every variable keeps its type; in particular no table is read past its end.
THEOREM ScanTypeCorrect == Spec => []TypeOK
<1>1. ScanInv => TypeOK
  BY DEF ScanInv
<1>2. QED
  BY <1>1, ScanInvariance, PTL

\* uwd_parse_pe and uwd_map_rva_span: in every accepted image the mapping from
\* RVAs to bytes of the file is one to one and stays in the file.
THEOREM MapIsSound == Spec => []MapSound
<1>1. ScanInv => MapSound
  <2> SUFFICES ASSUME ScanInv, Accepted, NEW rva \in 0..(pe.imageSize - 1)
               PROVE  /\ \A i, j \in Backing(pe, rva) : i = j
                      /\ MapRvaSpan(pe, rva, 1) # NoOffset =>
                           /\ MapRvaSpan(pe, rva, 1) < pe.size
                           /\ \A other \in 0..(pe.imageSize - 1) :
                                MapRvaSpan(pe, other, 1) = MapRvaSpan(pe, rva, 1) => other = rva
    BY DEF MapSound
  <2>1. /\ pe.sections \in Seq(Section) /\ pe.size \in Nat /\ pe.headerSize \in Nat
        /\ pe.imageSize \in Nat /\ ParseAccepts(pe)
    BY FileType DEF ScanInv, TypeOK, Readable
  <2>2. rva \in Nat /\ \A other \in 0..(pe.imageSize - 1) : other \in Nat
    BY <2>1
  <2>3. \A i, j \in Backing(pe, rva) : i = j
    BY <2>1, <2>2, OneBacking
  <2>4. MapRvaSpan(pe, rva, 1) # NoOffset => MapRvaSpan(pe, rva, 1) < pe.size
    BY <2>1, <2>2, MapInFile
  <2>5. ASSUME MapRvaSpan(pe, rva, 1) # NoOffset, NEW other \in 0..(pe.imageSize - 1),
               MapRvaSpan(pe, other, 1) = MapRvaSpan(pe, rva, 1)
        PROVE  other = rva
    BY <2>1, <2>2, <2>5, MapInjective
  <2>6. QED
    BY <2>3, <2>4, <2>5
<1>2. QED
  BY <1>1, ScanInvariance, PTL

------------------------------------------------------------------------------
(* What can be said of Terminates without fairness: the loops only go on,  *)
(* within bounds that the file gives.                                      *)

Rank(p) ==
  CASE p = "parse"      -> 0
    [] p = "pdata"      -> 1
    [] p = "descriptor" -> 2
    [] p = "thunk"      -> 3
    [] p = "site"       -> 4
    [] p = "search"     -> 5
    [] OTHER -> 6

\* Further in the nested loops, or deeper in them, or in the loop that is running.
Onward ==
  \/ descriptor' > descriptor
  \/ descriptor' = descriptor /\ thunk' > thunk
  \/ UNCHANGED <<descriptor, thunk>> /\ section' > section
  \/ UNCHANGED <<descriptor, thunk, section>> /\ index' > index
  \/ UNCHANGED position /\ Rank(phase') > Rank(phase)
  \/ UNCHANGED <<position, phase>> /\ phase = "pdata" /\ entry' > entry
  \/ UNCHANGED <<position, phase>> /\ phase = "search" /\ high' - low' < high - low

LoopsGoOn == [][pe' = pe /\ Onward]_vars

\* The counters take finitely many values, which only the file determines.
InBounds ==
  /\ {entry, low, high} \subseteq 0..Len(pe.pdata) /\ low <= high
  /\ descriptor \in 1..(Len(pe.imports) + 1)
  /\ IF descriptor \in DOMAIN pe.imports
       THEN thunk \in 1..(Len(pe.imports[descriptor].names) + 1) ELSE thunk = 1
  /\ section \in 1..(Len(pe.sections) + 1)
  /\ IF section \in DOMAIN pe.sections
       THEN index \in 0..pe.sections[section].rawSize ELSE index = 0

LEMMA BoundsKept == ScanInv /\ InBounds /\ [Next]_vars => InBounds'
<1> SUFFICES ASSUME ScanInv, InBounds, [Next]_vars PROVE InBounds'
  OBVIOUS
<1> DEFINE names(d) == pe.imports[d].names
           code(k) == pe.sections[k]
<1>1. pe' = pe
  BY DEF vars, Next, Parse, LoadPdata, ScanDescriptor, ScanThunk, ScanSite, Bisect
<1>2. /\ pe \in File /\ CallLength \in Nat \ {0}
      /\ Len(pe.pdata) \in Nat /\ Len(pe.imports) \in Nat /\ Len(pe.sections) \in Nat
      /\ DOMAIN pe.imports = 1..Len(pe.imports) /\ DOMAIN pe.sections = 1..Len(pe.sections)
  <2>1. pe \in File
    BY DEF ScanInv, TypeOK
  <2> QED BY <2>1, FileType, ScanAssumption
<1>3. /\ \A d \in DOMAIN pe.imports : Len(names(d)) \in Nat /\ DOMAIN names(d) = 1..Len(names(d))
      /\ \A k \in DOMAIN pe.sections : code(k).rawSize \in Nat
  BY <1>2, FileType, ImportType, SectionType
<1>4. TypeOK /\ TypeOK'
  BY StepScan DEF ScanInv
<1>5. /\ phase = "site" => InThunk
      /\ phase = "search" => InSite
      /\ phase = "thunk" => InDescriptor
      /\ phase = "descriptor" => thunk = 1
  BY DEF ScanInv, Loops
<1>6. /\ thunk \in Nat \ {0} /\ index \in Nat /\ low \in 0..Len(pe.pdata) /\ high \in 0..Len(pe.pdata)
      /\ descriptor \in 1..(Len(pe.imports) + 1) /\ section \in 1..(Len(pe.sections) + 1)
      /\ low <= high
  BY <1>4 DEF TypeOK, InBounds
<1> HIDE DEF names, code
<1>7. /\ descriptor \in DOMAIN pe.imports => thunk \in 1..(Len(names(descriptor)) + 1)
      /\ descriptor \notin DOMAIN pe.imports => thunk = 1
      /\ section \in DOMAIN pe.sections => index \in 0..code(section).rawSize
      /\ section \notin DOMAIN pe.sections => index = 0
  BY DEF InBounds, names, code
<1>8. /\ descriptor' \in DOMAIN pe.imports => thunk' \in 1..(Len(names(descriptor')) + 1)
      /\ descriptor' \notin DOMAIN pe.imports => thunk' = 1
  <2>1. CASE UNCHANGED <<descriptor, thunk>>
    BY <1>7, <2>1
  <2>2. CASE descriptor' = descriptor + 1 /\ thunk' = 1
    BY <1>2, <1>3, <1>6, <2>2
  <2>3. CASE descriptor' = descriptor /\ thunk' = thunk + 1 /\ thunk <= Len(names(descriptor))
             /\ descriptor \in DOMAIN pe.imports
    BY <1>3, <1>6, <2>3
  <2>4. CASE ScanThunk
    <3>1. descriptor \in DOMAIN pe.imports
      BY <1>5, <2>4 DEF ScanThunk, InDescriptor
    <3>2. Len(names(descriptor)) \in Nat
      BY <1>3, <3>1
    <3> QED BY <1>6, <2>1, <2>2, <2>3, <2>4, <3>1, <3>2 DEF ScanThunk, names
  <2>5. CASE ScanSite
    <3>1. descriptor \in DOMAIN pe.imports /\ thunk \in DOMAIN names(descriptor)
      BY <1>5, <2>5 DEF ScanSite, InThunk, InDescriptor, names
    <3>2. thunk <= Len(names(descriptor))
      BY <1>3, <3>1
    <3> QED BY <2>1, <2>3, <2>5, <3>1, <3>2 DEF ScanSite
  <2>6. CASE ScanDescriptor
    BY <1>5, <2>1, <2>2, <2>6 DEF ScanDescriptor
  <2>7. CASE Parse \/ LoadPdata \/ Bisect \/ UNCHANGED vars
    BY <2>1, <2>7 DEF Parse, LoadPdata, Bisect, NextPosition, vars
  <2> QED BY <2>4, <2>5, <2>6, <2>7 DEF Next
<1>9. /\ section' \in DOMAIN pe.sections => index' \in 0..code(section').rawSize
      /\ section' \notin DOMAIN pe.sections => index' = 0
  <2>1. CASE UNCHANGED <<section, index>>
    BY <1>7, <2>1
  <2>2. CASE index' = 0
    BY <1>3, <2>2
  <2>3. CASE section' = section /\ index' = index + 1 /\ section \in DOMAIN pe.sections
             /\ index + CallLength <= code(section).rawSize
    <3>1. code(section).rawSize \in Nat
      BY <1>3, <2>3
    <3> QED BY <1>2, <1>6, <2>3, <3>1
  <2>4. CASE ScanSite
    <3>1. CASE section > Len(pe.sections)
      BY <2>2, <2>4, <3>1 DEF ScanSite
    <3>2. CASE section <= Len(pe.sections)
      <4>1. section \in DOMAIN pe.sections /\ code(section).rawSize \in Nat
        BY <1>2, <1>3, <1>6, <3>2
      <4>2. \/ UNCHANGED <<section, index>>
            \/ index' = 0
            \/ section' = section /\ index' = index + 1 /\ ~(index + CallLength > code(section).rawSize)
        BY <1>2, <1>6, <2>4, <3>2 DEF ScanSite, code
      <4> QED BY <1>2, <1>6, <2>1, <2>2, <2>3, <4>1, <4>2
    <3> QED BY <1>2, <1>6, <3>1, <3>2
  <2>5. CASE Bisect
    <3>1. section \in DOMAIN pe.sections /\ index + CallLength <= code(section).rawSize
      BY <1>5, <2>5 DEF Bisect, InSite, code
    <3> QED BY <2>1, <2>3, <2>5, <3>1 DEF Bisect, NextPosition
  <2>6. CASE Parse \/ LoadPdata \/ ScanDescriptor \/ ScanThunk \/ UNCHANGED vars
    BY <2>1, <2>6 DEF Parse, LoadPdata, ScanDescriptor, ScanThunk, vars
  <2> QED BY <2>4, <2>5, <2>6 DEF Next
<1>10. low' <= high'
  <2>1. CASE UNCHANGED search
    BY <1>6, <2>1
  <2>2. CASE ScanSite
    BY <1>2, <1>6, <2>1, <2>2 DEF ScanSite
  <2>3. CASE Bisect
    <3> DEFINE middle == low + (high - low) \div 2
    <3>1. UNCHANGED search \/ (low < high /\ (KeepBelow(middle) \/ KeepAbove(middle)))
      BY <1>6, <2>3 DEF Bisect
    <3>2. low < high => middle \in low..(high - 1)
      BY <1>6
    <3> QED BY <1>6, <2>1, <3>1, <3>2 DEF KeepBelow, KeepAbove
  <2>4. CASE Parse \/ LoadPdata \/ ScanDescriptor \/ ScanThunk \/ UNCHANGED vars
    BY <2>1, <2>4 DEF Parse, LoadPdata, ScanDescriptor, ScanThunk, vars
  <2> QED BY <2>2, <2>3, <2>4 DEF Next
<1>11. {entry', low', high'} \subseteq 0..Len(pe.pdata)
  BY <1>1, <1>4 DEF TypeOK
<1>12. /\ descriptor' \in 1..(Len(pe.imports) + 1)
       /\ section' \in 1..(Len(pe.sections) + 1)
  BY <1>1, <1>4 DEF TypeOK
<1> QED BY <1>1, <1>8, <1>9, <1>10, <1>11, <1>12 DEF InBounds, names, code

\* uwd_pe_find_watermark_rva ends on any file: no position in the four nested
\* loops comes back, the bisection shrinks with every halving, and all of it
\* stays in the file's tables and sections.
THEOREM SearchRunsOut == Spec => LoopsGoOn /\ []InBounds
<1>1. Init => InBounds
  <2> SUFFICES ASSUME Init PROVE InBounds
    OBVIOUS
  <2>1. ScanInv
    BY InitScan
  <2>2. pe \in File /\ Len(pe.pdata) \in Nat
    BY <2>1, FileType DEF ScanInv, TypeOK
  <2>3. \A s \in DOMAIN pe.sections : pe.sections[s].rawSize \in Nat
    BY <2>2, FileType, SectionType
  <2>4. \A d \in DOMAIN pe.imports : Len(pe.imports[d].names) \in Nat
    BY <2>2, FileType, ImportType
  <2> QED BY <2>1, <2>2, <2>3, <2>4 DEF Init, InBounds, ScanInv, TypeOK
<1>2. ASSUME ScanInv, InBounds, Next PROVE pe' = pe /\ Onward
  <2>1. /\ pe \in File /\ Len(pe.pdata) \in Nat /\ entry \in Nat /\ descriptor \in Nat /\ thunk \in Nat
        /\ section \in Nat /\ index \in Nat /\ low \in Nat /\ high \in Nat
    BY <1>2, FileType DEF ScanInv, TypeOK
  <2>2. CASE Parse
    BY <2>2 DEF Parse, Onward, Rank, position
  <2>3. CASE LoadPdata
    BY <2>1, <2>3 DEF LoadPdata, Onward, Rank, position, table
  <2>4. CASE ScanDescriptor
    BY <2>1, <2>4 DEF ScanDescriptor, Onward, Rank, position
  <2>5. CASE ScanThunk
    BY <2>1, <2>5 DEF ScanThunk, Onward, Rank, position
  <2>6. CASE ScanSite
    BY <2>1, <2>6 DEF ScanSite, Onward, Rank, position
  <2>7. CASE Bisect
    <3>1. CASE NextPosition
      BY <2>1, <2>7, <3>1 DEF Bisect, NextPosition, Onward
    <3>2. CASE ~NextPosition
      <4> DEFINE middle == low + (high - low) \div 2
      <4>1. low < high /\ (KeepBelow(middle) \/ KeepAbove(middle)) /\ UNCHANGED <<phase, position>>
        BY <2>1, <2>7, <3>2 DEF Bisect
      <4>2. middle \in low..(high - 1)
        BY <2>1, <4>1
      <4>3. high' - low' < high - low
        BY <2>1, <4>1, <4>2 DEF KeepBelow, KeepAbove
      <4> QED BY <2>7, <4>1, <4>3 DEF Bisect, Onward
    <3> QED BY <3>1, <3>2
  <2> QED BY <1>2, <2>2, <2>3, <2>4, <2>5, <2>6, <2>7
             DEF Next, Parse, LoadPdata, ScanDescriptor, ScanThunk, ScanSite, Bisect
<1>3. ScanInv /\ InBounds /\ [Next]_vars => [pe' = pe /\ Onward]_vars
  BY <1>2
<1> QED
  BY <1>1, <1>3, BoundsKept, ScanInvariance, PTL DEF Spec, LoopsGoOn
==============================================================================
