-------------------------- MODULE PdbIdentityProofs --------------------------
(***************************************************************************)
(* The PDB identity is right for every file: IdentityInv is inductive.     *)
(*                                                                         *)
(* The argument.  While a path is walked, PathRead says what its read part *)
(* contains, which decides, when the walk ends, whether the record has a   *)
(* base name and that it has no other one (PathNames, PathRefused).  So    *)
(* SelectedExact holds of the entries behind the loop, and at the end of   *)
(* the directory, or at the first entry that rules out a result, it        *)
(* decides ResultExact.                                                    *)
(***************************************************************************)
EXTENDS PdbIdentity, PeImageProofs

USE DEF path

\* The fields of the file have their types.
LEMMA FileType ==
  ASSUME pe \in File
  PROVE  /\ pe.sections \in Seq(Section) /\ pe.debug \in Seq(Entry)
         /\ pe.size \in Nat /\ pe.headerSize \in Nat /\ pe.imageSize \in Nat
         /\ pe.directoryRva \in Nat /\ pe.rest \in Nat /\ pe.records \in SUBSET Rsds
         /\ \A r, q \in pe.records : r.at = q.at => r = q
BY DEF File, Content

\* An entry of the debug directory has numbers in its fields.
LEMMA EntryType ==
  ASSUME pe \in File, NEW k \in DOMAIN pe.debug
  PROVE  /\ pe.debug[k] \in Entry
         /\ pe.debug[k].codeView \in BOOLEAN /\ pe.debug[k].size \in Nat
         /\ pe.debug[k].rva \in Nat /\ pe.debug[k].pointer \in Nat
<1>1. pe.debug[k] \in Entry
  BY FileType
<1>2. QED
  BY <1>1 DEF Entry

\* uwd_map_rva_span: bytes that are mapped are in the file.
LEMMA SpanInFile ==
  ASSUME pe \in File, ParseAccepts(pe), NEW rva \in Nat, NEW length \in Nat,
         MapRvaSpan(pe, rva, length) # NoOffset
  PROVE  /\ MapRvaSpan(pe, rva, length) \in Nat
         /\ MapRvaSpan(pe, rva, length) + length <= pe.size
<1>1. /\ pe.sections \in Seq(Section) /\ pe.size \in Nat /\ pe.headerSize \in Nat
  BY FileType
<1>2. CASE rva < pe.headerSize
  BY <1>1, <1>2 DEF MapRvaSpan, MapHeader, RangeOk
<1>3. CASE ~(rva < pe.headerSize)
  <2> DEFINE s == pe.sections[FirstBacking(pe, rva)]
  <2>1. Backing(pe, rva) # {} /\ MapRvaSpan(pe, rva, length) = MapSection(pe, s, rva, length)
    BY <1>3 DEF MapRvaSpan
  <2>2. FirstBacking(pe, rva) \in DOMAIN pe.sections /\ HasBytes(s, rva)
    BY <1>1, <2>1, FirstIsOnly DEF Backing
  <2>3. s.raw \in Nat /\ s.va \in Nat /\ s.va <= rva
    BY <1>1, <2>2, SectionType DEF HasBytes
  <2>4. /\ MapRvaSpan(pe, rva, length) = s.raw + (rva - s.va)
        /\ RangeOk(pe.size, s.raw + (rva - s.va), length)
    BY <2>1 DEF MapSection
  <2>5. s.raw + (rva - s.va) \in Nat
    BY <2>3
  <2>6. RangeOk(pe.size, MapRvaSpan(pe, rva, length), length)
    BY <2>4
  <2>7. QED
    BY <1>1, <2>4, <2>5, <2>6 DEF RangeOk
<1>4. QED
  BY <1>2, <1>3

\* uwd_debug_payload_offset: the payload it finds is in the file.
LEMMA PayloadInFile ==
  ASSUME pe \in File, ParseAccepts(pe), NEW e \in Entry, Located(e)
  PROVE  PayloadOffset(e) \in Nat /\ PayloadOffset(e) + e.size <= pe.size
<1>1. e.size \in Nat /\ e.rva \in Nat /\ e.pointer \in Nat /\ pe.size \in Nat
  BY FileType DEF Entry
<1>2. CASE e.pointer # 0
  BY <1>1, <1>2 DEF Located, PayloadOffset, RangeOk
<1>3. CASE e.pointer = 0
  BY <1>1, <1>3, SpanInFile DEF Located, PayloadOffset
<1>4. QED
  BY <1>2, <1>3

\* What uwd_debug_payload_offset and the size check let through is what the
\* reference definition calls sound.
LEMMA ComparedIsSound ==
  ASSUME pe \in File, ParseAccepts(pe), NEW e \in Entry
  PROVE  Compared(e) <=> /\ \E at \in Places(e) : Places(e) = {at} /\ Inside(at, e.size)
                         /\ e.size >= SignatureLength
<1>1. /\ e.size \in Nat /\ e.rva \in Nat /\ e.pointer \in Nat /\ pe.size \in Nat
      /\ SignatureLength \in Nat \ {0}
  BY FileType, IdentityAssumption DEF Entry
<1>2. ASSUME Compared(e)
      PROVE  \E at \in Places(e) : Places(e) = {at} /\ Inside(at, e.size)
  <2>1. Places(e) = {PayloadOffset(e)}
    BY <1>1, <1>2 DEF Compared, Located, Places, PayloadOffset
  <2>2. PayloadOffset(e) \in Nat /\ PayloadOffset(e) + e.size <= pe.size
    BY <1>2, PayloadInFile DEF Compared
  <2>3. Inside(PayloadOffset(e), e.size)
    BY <1>1, <2>2 DEF Inside, NoOffset
  <2>4. QED
    BY <2>1, <2>3
<1>3. ASSUME NEW at \in Places(e), Places(e) = {at}, Inside(at, e.size), e.size >= SignatureLength
      PROVE  Compared(e)
  <2>1. e.size # 0 /\ (e.rva # 0 \/ e.pointer # 0)
    BY <1>1, <1>3 DEF Places
  <2>2. e.rva # 0 => at = MapRvaSpan(pe, e.rva, e.size)
    BY <1>3 DEF Places
  <2>3. e.pointer # 0 => at = e.pointer
    BY <1>3 DEF Places
  <2>4. e.rva # 0 => MapRvaSpan(pe, e.rva, e.size) # NoOffset
    BY <1>3, <2>2 DEF Inside
  <2>5. e.pointer # 0 => RangeOk(pe.size, e.pointer, e.size)
    BY <1>1, <1>3, <2>3 DEF Inside, RangeOk
  <2>6. Located(e)
    BY <2>1, <2>2, <2>3, <2>4, <2>5 DEF Located
  <2>7. QED
    BY <1>3, <2>6 DEF Compared
<1>4. QED
  BY <1>2, <1>3 DEF Compared

\* At an offset there is one record at most.
LEMMA OneRecord ==
  ASSUME pe \in File, NEW e, RecordsOf(e) # {}
  PROVE  RecordsOf(e) = {Record(e)} /\ Record(e) \in Rsds
<1>1. Record(e) \in RecordsOf(e)
  BY DEF Record
<1>2. \A r, q \in RecordsOf(e) : r = q
  BY FileType DEF RecordsOf
<1>3. Record(e) \in Rsds
  BY <1>1, FileType DEF RecordsOf
<1>4. QED
  BY <1>1, <1>2, <1>3

\* A byte of a path is one of the characters.
LEMMA CharacterType ==
  ASSUME NEW r \in Rsds, NEW i \in Nat
  PROVE  Character(r, i) \in Characters
<1>1. r.text \in Seq(Characters)
  BY DEF Rsds
<1>2. CASE i < Len(r.text)
  <2>1. i + 1 \in DOMAIN r.text
    BY <1>1, <1>2
  <2>2. QED
    BY <1>1, <1>2, <2>1 DEF Character
<1>3. CASE ~(i < Len(r.text))
  BY <1>3 DEF Character, Characters, Letters
<1>4. QED
  BY <1>2, <1>3

\* A path has one base name at most.
LEMMA OneBaseName ==
  ASSUME NEW e, NEW r, NEW from \in Nat, NEW to \in Nat, NEW a \in Nat, NEW z \in Nat,
         IsBaseName(e, r, from, to), IsBaseName(e, r, a, z)
  PROVE  from = a /\ to = z
<1>1. ~(to < z) /\ ~(z < to)
  BY DEF IsBaseName
<1>2. to = z
  BY <1>1
<1>3. ASSUME NEW m \in Nat, NEW n \in Nat, NEW end \in Nat, m < n, n < end,
             \A i \in m..(end - 1) : Character(r, i) # "separator"
      PROVE  n # 0 /\ Character(r, n - 1) # "separator"
  <2>1. n - 1 \in m..(end - 1)
    BY <1>3
  <2>2. QED
    BY <1>3, <2>1
<1>4. ~(from < a)
  BY <1>2, <1>3 DEF IsBaseName
<1>5. ~(a < from)
  BY <1>2, <1>3 DEF IsBaseName
<1>6. QED
  BY <1>2, <1>4, <1>5

\* So an entry states the identity of the base name, if it has one, and else none.
LEMMA StatedIs ==
  ASSUME pe \in File, NEW e \in Entry, RecordsOf(e) # {}
  PROVE  /\ \A from, to \in Nat :
              IsBaseName(e, Record(e), from, to) => Stated(e) = {Named(Record(e), from, to)}
         /\ (\A from, to \in Nat : ~IsBaseName(e, Record(e), from, to)) => Stated(e) = {}
<1> DEFINE r == Record(e)
           Pairs == {q \in (0..e.size) \X (0..e.size) : IsBaseName(e, r, q[1], q[2])}
<1>1. e.size \in Nat /\ RsdsHeaderSize \in Nat
  BY IdentityAssumption DEF Entry
<1>2. RecordsOf(e) = {r}
  BY OneRecord
<1>3. Stated(e) = {Named(r, p[1], p[2]) : p \in Pairs}
  BY <1>2 DEF Stated
<1>4. \A p \in Pairs : p[1] \in Nat /\ p[2] \in Nat /\ IsBaseName(e, r, p[1], p[2])
  BY <1>1
<1>5. ASSUME NEW from \in Nat, NEW to \in Nat, IsBaseName(e, r, from, to)
      PROVE  Stated(e) = {Named(r, from, to)}
  <2>1. from \in 0..e.size /\ to \in 0..e.size
    BY <1>1, <1>5 DEF IsBaseName
  <2>2. <<from, to>> \in Pairs
    BY <1>5, <2>1
  <2>3. \A p \in Pairs : p[1] = from /\ p[2] = to
    BY <1>4, <1>5, OneBaseName
  <2>4. QED
    BY <1>3, <2>2, <2>3
<1>6. ASSUME \A from, to \in Nat : ~IsBaseName(e, r, from, to)
      PROVE  Stated(e) = {}
  <2>1. Pairs = {}
    BY <1>4, <1>6
  <2>2. QED
    BY <1>3, <2>1
<1>7. QED
  BY <1>5, <1>6

\* Reading a path to its end gives the identity its entry states.
LEMMA PathNames ==
  ASSUME IdentityInv, phase = "path", index < PathCapacity(Current),
         Character(Record(Current), index) = "zero",
         start < index, index - start < NameCapacity
  PROVE  /\ Stated(Current) = {Named(Record(Current), start, index)}
         /\ Named(Record(Current), start, index) \in Identity
<1> DEFINE r == Record(Current)
<1>1. /\ pe \in File /\ index \in Nat /\ start \in Nat /\ entry + 1 \in DOMAIN pe.debug
  BY FileType DEF IdentityInv, TypeOK
<1>2. Current \in Entry /\ RecordsOf(Current) # {} /\ r \in Rsds
  BY <1>1, EntryType, OneRecord DEF IdentityInv, PathRead, Current
<1>3. IsBaseName(Current, r, start, index)
  BY DEF IdentityInv, PathRead, IsBaseName, PathCapacity
<1>4. Stated(Current) = {Named(r, start, index)}
  BY <1>1, <1>2, <1>3, StatedIs
<1>5. ASSUME NEW i \in 1..(index - start)
      PROVE  Character(r, start + i - 1) \in Letters
  <2>1. start + i - 1 \in start..(index - 1) /\ start + i - 1 \in 0..(index - 1)
    BY <1>1
  <2>2. Character(r, start + i - 1) \notin {"zero", "control", "separator"}
    BY <2>1 DEF IdentityInv, PathRead
  <2>3. start + i - 1 \in Nat
    BY <1>1
  <2>4. Character(r, start + i - 1) \in Characters
    BY <1>2, <2>3, CharacterType
  <2>5. QED
    BY <2>2, <2>4 DEF Characters
<1>6. index - start \in Nat
  BY <1>1
<1>7. [i \in 1..(index - start) |-> Character(r, start + i - 1)] \in Seq(Letters)
  BY <1>5, <1>6
<1>8. r.key \in Keys
  BY <1>2 DEF Rsds
<1>9. QED
  BY <1>4, <1>7, <1>8 DEF Named, Identity

\* A path that is refused has no base name.
LEMMA PathRefused ==
  ASSUME IdentityInv, phase = "path",
         \/ index = PathCapacity(Current)
         \/ Character(Record(Current), index) = "control"
         \/ /\ Character(Record(Current), index) = "zero"
            /\ ~(start < index /\ index - start < NameCapacity)
  PROVE  Stated(Current) = {}
<1> DEFINE r == Record(Current)
<1>1. /\ pe \in File /\ index \in Nat /\ start \in Nat /\ start <= index
      /\ entry + 1 \in DOMAIN pe.debug /\ NameCapacity \in Nat
  BY FileType, IdentityAssumption DEF IdentityInv, TypeOK
<1>2. Current \in Entry /\ RecordsOf(Current) # {}
  BY <1>1, EntryType DEF IdentityInv, PathRead, Current
<1>3. ASSUME NEW from \in Nat, NEW to \in Nat, IsBaseName(Current, r, from, to)
      PROVE  FALSE
  <2>1. ~(to < index)
    <3>1. to < index => to \in 0..(index - 1)
      BY <1>1
    <3>2. QED
      BY <1>3, <3>1 DEF IdentityInv, PathRead, IsBaseName
  <2>2. index # PathCapacity(Current)
    BY <1>1, <1>3, <2>1 DEF IsBaseName, PathCapacity
  <2>3. ~(index < to)
    <3>1. index < to => index \in 0..(to - 1)
      BY <1>1
    <3>2. index < to => Character(r, index) \notin {"zero", "control"}
      BY <1>3, <3>1 DEF IsBaseName
    <3>3. QED
      BY <2>2, <3>2
  <2>4. to = index
    BY <1>1, <2>1, <2>3
  <2>5. ~(start < index /\ index - start < NameCapacity)
    BY <1>3, <2>2, <2>4 DEF IsBaseName
  <2>6. ~(from < start)
    <3>1. from < start => start # 0 /\ start - 1 \in from..(to - 1)
      BY <1>1, <2>4
    <3>2. QED
      BY <1>3, <3>1 DEF IdentityInv, PathRead, IsBaseName
  <2>7. ~(start < from)
    <3>1. start < from => from # 0 /\ from - 1 \in start..(index - 1)
      BY <1>1, <1>3, <2>4 DEF IsBaseName
    <3>2. QED
      BY <1>3, <3>1 DEF IdentityInv, PathRead, IsBaseName
  <2>8. from = start
    BY <1>1, <2>6, <2>7
  <2>9. QED
    BY <1>3, <2>4, <2>5, <2>8 DEF IsBaseName
<1>4. QED
  BY <1>1, <1>2, <1>3, StatedIs
------------------------------------------------------------------------------
\* What depends on the file alone stays as it is.
LEMMA SameFile ==
  ASSUME pe' = pe
  PROVE  /\ ParseAccepts(pe)' = ParseAccepts(pe) /\ DirectoryOk' = DirectoryOk
         /\ \A e : Compared(e)' = Compared(e)
         /\ \A e : RecordsOf(e)' = RecordsOf(e) /\ Record(e)' = Record(e)
         /\ \A e : SoundEntry(e)' = SoundEntry(e)
         /\ \A e : HasRsds(e)' = HasRsds(e)
         /\ \A e : Stated(e)' = Stated(e)
         /\ \A id : HasPdb(id)' = HasPdb(id)
<1>1. /\ ParseAccepts(pe)' = ParseAccepts(pe) /\ DirectoryOk' = DirectoryOk
      /\ \A e : Compared(e)' = Compared(e)
      /\ \A e : RecordsOf(e)' = RecordsOf(e) /\ Record(e)' = Record(e)
  BY DEF DirectoryOk, DirectorySize, DirectoryOffset, Compared, Located, RecordsOf, Record,
     PayloadOffset
<1>2. \A e : Stated(e)' = Stated(e)
  BY <1>1 DEF Stated
<1>3. \A e : SoundEntry(e)' = SoundEntry(e) /\ HasRsds(e)' = HasRsds(e)
  BY <1>1, <1>2 DEF SoundEntry, HasRsds, Places, Inside
<1>4. \A id : HasPdb(id)' = HasPdb(id)
  BY <1>1, <1>2, <1>3 DEF HasPdb
<1>5. QED
  BY <1>1, <1>2, <1>3, <1>4

\* Steps that leave the entries that are done, and what they selected, alone.
LEMMA SelectedKept ==
  ASSUME SelectedExact, pe' = pe, entry' = entry, selected' = selected
  PROVE  SelectedExact'
BY SameFile DEF SelectedExact

\* One more entry is done: it is sound, and says what was selected if it says
\* anything.
LEMMA SelectedGrows ==
  ASSUME IdentityInv, pe' = pe, entry' = entry + 1, entry < Len(pe.debug),
         SoundEntry(Current),
         selected \in {NoIdentity, selected'},
         HasRsds(Current) => Stated(Current) = {selected'} /\ selected' # NoIdentity,
         ~HasRsds(Current) => selected' = selected
  PROVE  SelectedExact'
<1>1. entry \in Nat
  BY DEF IdentityInv, TypeOK
<1>2. \A k \in 1..entry' : k \in 1..entry \/ k = entry + 1
  BY <1>1
<1>3. entry + 1 \in 1..entry' /\ 1..entry \subseteq 1..entry'
  BY <1>1
<1>4. \A k \in 1..entry' : SoundEntry(pe.debug[k])
  BY <1>2 DEF IdentityInv, SelectedExact, Current
<1>5. \A k \in 1..entry : HasRsds(pe.debug[k]) => selected # NoIdentity
  BY DEF IdentityInv, SelectedExact
<1>6. \A k \in 1..entry' : HasRsds(pe.debug[k]) => Stated(pe.debug[k]) = {selected'}
  BY <1>2, <1>5 DEF IdentityInv, SelectedExact, Current
<1>7. selected' # NoIdentity <=> \E k \in 1..entry' : HasRsds(pe.debug[k])
  BY <1>2, <1>3, <1>5 DEF IdentityInv, SelectedExact, Current
<1>8. QED
  BY <1>4, <1>6, <1>7, SameFile DEF SelectedExact
------------------------------------------------------------------------------
\* IdentityInv holds of every file before it is read.
THEOREM InitIdentity == Init => IdentityInv
<1> SUFFICES ASSUME Init PROVE IdentityInv
  OBVIOUS
<1>1. TypeOK
  BY IdentityAssumption, FileType DEF Init, TypeOK
<1>2. QED
  BY <1>1 DEF Init, IdentityInv, Accepted, Progress, PathRead, SelectedExact, ResultExact

\* A damaged or a contradicting entry rules out every result.
LEMMA NoPdb ==
  ASSUME IdentityInv, entry < Len(pe.debug),
         \/ ~SoundEntry(Current)
         \/ /\ selected # NoIdentity
            /\ HasRsds(Current)
            /\ \E candidate : candidate # selected /\ Stated(Current) = {candidate}
  PROVE  \A id : ~HasPdb(id)
<1>1. entry + 1 \in DOMAIN pe.debug /\ \A k \in 1..entry : k \in DOMAIN pe.debug
  BY FileType DEF IdentityInv, TypeOK
<1>2. SUFFICES ASSUME NEW id, HasPdb(id) PROVE FALSE
  OBVIOUS
<1>3. SoundEntry(Current)
  BY <1>1, <1>2 DEF HasPdb, Current
<1>4. PICK k \in 1..entry : HasRsds(pe.debug[k]) /\ Stated(pe.debug[k]) = {selected}
  BY <1>3 DEF IdentityInv, SelectedExact
<1>5. id = selected
  BY <1>1, <1>2, <1>4 DEF HasPdb
<1>6. HasRsds(Current) => Stated(Current) = {id}
  BY <1>1, <1>2 DEF HasPdb, Current
<1>7. QED
  BY <1>3, <1>5, <1>6

\* Parse keeps IdentityInv.
LEMMA ParseKeeps == IdentityInv /\ Parse => IdentityInv'
<1> SUFFICES ASSUME IdentityInv, Parse PROVE IdentityInv'
  OBVIOUS
<1>1. /\ pe' = pe /\ entry' = entry /\ index' = index /\ start' = start
      /\ selected' = selected /\ phase = "parse" /\ phase' \in {"entry", "failed"}
      /\ phase' = "entry" <=> ParseAccepts(pe) /\ DirectoryOk
  BY DEF Parse
<1>2. TypeOK'
  BY <1>1 DEF IdentityInv, TypeOK
<1>3. Accepted' /\ Progress' /\ PathRead'
  BY <1>1, SameFile DEF Accepted, Progress, PathRead
<1>4. SelectedExact'
  BY <1>1, SelectedKept DEF IdentityInv
<1>5. ResultExact'
  BY <1>1, SameFile DEF ResultExact, HasPdb
<1>6. QED
  BY <1>2, <1>3, <1>4, <1>5 DEF IdentityInv

\* ReadEntry keeps IdentityInv.
LEMMA ReadEntryKeeps == IdentityInv /\ ReadEntry => IdentityInv'
<1> SUFFICES ASSUME IdentityInv, ReadEntry PROVE IdentityInv'
  OBVIOUS
<1>1. phase = "entry" /\ pe' = pe /\ selected' = selected
  BY DEF ReadEntry
<1>2. /\ pe \in File /\ entry \in 0..Len(pe.debug) /\ pe.debug \in Seq(Entry)
      /\ index \in Nat /\ start \in 0..index /\ Len(pe.debug) \in Nat
      /\ selected \in Identity \cup {NoIdentity}
  BY FileType DEF IdentityInv, TypeOK
<1>3. ParseAccepts(pe) /\ DirectoryOk /\ SelectedExact
  BY <1>1 DEF IdentityInv, Accepted
<1>c. entry < Len(pe.debug) /\ Current.codeView =>
        (SoundEntry(Current) <=>
           Compared(Current) /\ (RecordsOf(Current) # {} => Stated(Current) # {}))
  <2>1. entry < Len(pe.debug) => entry + 1 \in DOMAIN pe.debug
    BY <1>2
  <2>2. entry < Len(pe.debug) => Current \in Entry
    BY <1>2, <2>1, EntryType DEF Current
  <2>3. QED
    BY <1>2, <1>3, <2>2, ComparedIsSound DEF SoundEntry
<1>4. CASE Finish
  <2> USE <1>4 DEF Finish
  <2>1. TypeOK' /\ Progress' /\ PathRead'
    BY <1>1, <1>2 DEF TypeOK, Progress, PathRead
  <2>2. Accepted' /\ SelectedExact'
    BY <1>1, <1>3, SameFile, SelectedKept DEF Accepted
  <2>3. \A k : k \in 1..entry <=> k \in DOMAIN pe.debug
    BY <1>2
  <2>4. CASE selected # NoIdentity
    <3>1. HasPdb(selected)
      BY <1>3, <2>3, <2>4 DEF HasPdb, SelectedExact
    <3>2. QED
      BY <1>1, <2>1, <2>2, <2>4, <3>1, SameFile DEF IdentityInv, ResultExact
  <2>5. CASE selected = NoIdentity
    <3>1. \A id : ~HasPdb(id)
      BY <1>3, <2>3, <2>5 DEF HasPdb, SelectedExact
    <3>2. QED
      BY <1>1, <2>1, <2>2, <2>5, <3>1, SameFile DEF IdentityInv, ResultExact
  <2>6. QED
    BY <2>4, <2>5
<1>5. CASE entry < Len(pe.debug) /\ Skip
  <2>1. entry' = entry + 1 /\ phase' = phase /\ index' = index /\ start' = start
    BY <1>5 DEF Skip
  <2>2. TypeOK' /\ Progress' /\ PathRead' /\ ResultExact'
    BY <1>1, <1>2, <1>5, <2>1 DEF TypeOK, Progress, PathRead, ResultExact
  <2>3. Accepted'
    BY <1>1, <1>3, <2>1, SameFile DEF Accepted
  <2>4. SoundEntry(Current) /\ ~HasRsds(Current)
    <3>1. CASE Current.codeView
      BY <1>c, <1>5, <3>1 DEF Skip, HasRsds
    <3>2. CASE ~Current.codeView
      BY <3>2 DEF SoundEntry, HasRsds
    <3>3. QED
      BY <3>1, <3>2
  <2>5. SelectedExact'
    BY <1>1, <1>2, <1>5, <2>1, <2>4, SelectedGrows
  <2>6. QED
    BY <2>2, <2>3, <2>5 DEF IdentityInv
<1>6. CASE entry < Len(pe.debug) /\ Refuse
  <2>1. phase' = "failed" /\ entry' = entry /\ index' = index /\ start' = start
    BY <1>6 DEF Refuse
  <2>2. TypeOK' /\ Progress' /\ PathRead' /\ Accepted'
    BY <1>1, <1>2, <2>1 DEF TypeOK, Progress, PathRead, Accepted
  <2>3. ~SoundEntry(Current)
    <3>1. CASE RecordsOf(Current) # {} /\ Current.size <= RsdsHeaderSize
      <4>1. entry + 1 \in DOMAIN pe.debug
        BY <1>2, <1>6
      <4>2. Current \in Entry /\ Current.size \in Nat
        BY <1>2, <4>1, EntryType DEF Current
      <4>3. \A from, to \in Nat : ~IsBaseName(Current, Record(Current), from, to)
        BY <3>1, <4>2, IdentityAssumption DEF IsBaseName
      <4>4. Stated(Current) = {}
        BY <1>2, <3>1, <4>2, <4>3, StatedIs
      <4>5. QED
        BY <1>c, <1>6, <3>1, <4>4 DEF Refuse
    <3>2. CASE ~Compared(Current)
      BY <1>c, <1>6, <3>2 DEF Refuse
    <3>3. QED
      BY <1>6, <3>1, <3>2 DEF Refuse
  <2>4. ResultExact'
    BY <1>1, <1>6, <2>1, <2>3, NoPdb, SameFile DEF ResultExact
  <2>5. QED
    BY <1>1, <2>1, <2>2, <2>4, SelectedKept DEF IdentityInv
<1>7. CASE entry < Len(pe.debug) /\ OpenPath
  <2>1. /\ phase' = "path" /\ entry' = entry /\ index' = 0 /\ start' = 0
        /\ Current.codeView /\ Compared(Current) /\ RecordsOf(Current) # {}
        /\ Current.size > RsdsHeaderSize
    BY <1>7 DEF OpenPath
  <2>2. Current' = Current
    BY <1>1, <2>1 DEF Current
  <2>3. entry + 1 \in DOMAIN pe.debug
    BY <1>2, <1>7
  <2>4. Current.size \in Nat /\ RsdsHeaderSize \in Nat
    BY <1>2, <2>3, EntryType, IdentityAssumption DEF Current
  <2>5. TypeOK'
    BY <1>1, <1>2, <1>7, <2>1, <2>2, <2>4 DEF TypeOK
  <2>6. PathRead' /\ Accepted' /\ Progress' /\ ResultExact'
    BY <1>1, <1>3, <2>1, <2>2, SameFile DEF PathRead, Accepted, Progress, ResultExact
  <2>7. QED
    BY <1>1, <2>1, <2>5, <2>6, SelectedKept DEF IdentityInv
<1>8. QED
  BY <1>4, <1>5, <1>6, <1>7 DEF ReadEntry

\* ReadPath keeps IdentityInv.
LEMMA ReadPathKeeps == IdentityInv /\ ReadPath => IdentityInv'
<1> SUFFICES ASSUME IdentityInv, ReadPath PROVE IdentityInv'
  OBVIOUS
<1> DEFINE r == Record(Current)
<1>1. phase = "path" /\ pe' = pe
  BY DEF ReadPath
<1>2. /\ pe \in File /\ entry \in Nat /\ entry < Len(pe.debug) /\ Len(pe.debug) \in Nat
      /\ index \in Nat /\ start \in 0..index /\ index <= Current.size - RsdsHeaderSize
      /\ selected \in Identity \cup {NoIdentity}
  BY <1>1, FileType DEF IdentityInv, TypeOK
<1>3. /\ Current.codeView /\ Compared(Current) /\ RecordsOf(Current) # {}
      /\ Current.size > RsdsHeaderSize
      /\ ParseAccepts(pe) /\ DirectoryOk /\ SelectedExact
  BY <1>1 DEF IdentityInv, PathRead, Accepted
<1>4. Current.size \in Nat /\ RsdsHeaderSize \in Nat /\ Current.size >= SignatureLength
      /\ entry + 1 \in DOMAIN pe.debug /\ Current \in Entry
  <2>1. entry + 1 \in DOMAIN pe.debug
    BY <1>2, FileType
  <2>2. Current.size \in Nat /\ Current \in Entry
    BY <1>2, <2>1, EntryType DEF Current
  <2>3. QED
    BY <1>3, <2>1, <2>2, IdentityAssumption
<1>5. ASSUME phase' = "failed", UNCHANGED <<entry, path, selected>>, \A id : ~HasPdb(id)
      PROVE  IdentityInv'
  <2>1. TypeOK' /\ Accepted' /\ Progress' /\ PathRead' /\ ResultExact'
    BY <1>1, <1>2, <1>5, SameFile DEF TypeOK, Accepted, Progress, PathRead, ResultExact
  <2>2. QED
    BY <1>1, <1>3, <1>5, <2>1, SelectedKept DEF IdentityInv
<1>c. SoundEntry(Current) <=> Stated(Current) # {}
  BY <1>2, <1>3, <1>4, ComparedIsSound DEF SoundEntry
<1>6. ASSUME Stated(Current) = {} PROVE \A id : ~HasPdb(id)
  BY <1>2, <1>c, <1>6, NoPdb
<1>7. CASE RefusePath
  <2>1. Stated(Current) = {}
    BY <1>1, <1>7, PathRefused DEF RefusePath
  <2>2. QED
    BY <1>5, <1>6, <1>7, <2>1 DEF RefusePath
<1>8. CASE index < PathCapacity(Current) /\ ClosePath(r)
  <2> DEFINE candidate == Named(r, start, index)
  <2>1. Character(r, index) = "zero" /\ UNCHANGED path
    BY <1>8 DEF ClosePath
  <2>2. CASE ~(start < index /\ index - start < NameCapacity)
    <3>1. Stated(Current) = {}
      BY <1>1, <2>1, <2>2, PathRefused
    <3>2. QED
      BY <1>5, <1>6, <1>8, <2>1, <2>2, <3>1 DEF ClosePath
  <2>3. CASE start < index /\ index - start < NameCapacity
    <3>1. Stated(Current) = {candidate} /\ candidate \in Identity
      BY <1>1, <1>8, <2>1, <2>3, PathNames
    <3>2. candidate # NoIdentity
      BY <3>1, IdentityAssumption
    <3>3. SoundEntry(Current) /\ HasRsds(Current)
      BY <1>3, <1>c, <3>1 DEF HasRsds
    <3>4. Select(candidate)
      BY <1>8, <2>3 DEF ClosePath
    <3>5. CASE selected \in {NoIdentity, candidate}
      <4>1. phase' = "entry" /\ entry' = entry + 1 /\ selected' = candidate
        BY <3>4, <3>5 DEF Select
      <4>2. TypeOK' /\ Accepted' /\ Progress' /\ PathRead' /\ ResultExact'
        BY <1>1, <1>2, <1>3, <2>1, <3>1, <4>1, SameFile
           DEF TypeOK, Accepted, Progress, PathRead, ResultExact
      <4>3. SelectedExact'
        BY <1>1, <1>2, <3>1, <3>2, <3>3, <3>5, <4>1, SelectedGrows
      <4>4. QED
        BY <4>2, <4>3 DEF IdentityInv
    <3>6. CASE selected \notin {NoIdentity, candidate}
      <4>1. \A id : ~HasPdb(id)
        BY <1>2, <3>1, <3>3, <3>6, NoPdb
      <4>2. QED
        BY <1>5, <2>1, <3>4, <3>6, <4>1 DEF Select
    <3>7. QED
      BY <3>5, <3>6
  <2>4. QED
    BY <2>2, <2>3
<1>9. CASE index < PathCapacity(Current) /\ ContinuePath(r)
  <2>1. /\ index' = index + 1 /\ UNCHANGED <<phase, entry, selected>>
        /\ Character(r, index) \in Letters \cup {"separator"}
        /\ start' = IF Character(r, index) = "separator" THEN index + 1 ELSE start
    BY <1>9 DEF ContinuePath, BaseName
  <2>2. Current' = Current
    BY <1>1, <2>1 DEF Current
  <2>3. TypeOK'
    BY <1>1, <1>2, <1>4, <1>9, <2>1, <2>2 DEF TypeOK, PathCapacity
  <2>4. Accepted' /\ Progress' /\ ResultExact'
    BY <1>1, <1>3, <2>1, SameFile DEF Accepted, Progress, ResultExact
  <2>5. \A i : Character(Record(Current), i)' = Character(r, i)
    BY <1>1, <2>2, SameFile DEF Character
  <2>6. \A i \in 0..(index' - 1) : i \in 0..(index - 1) \/ i = index
    BY <1>2, <2>1
  <2>7. \A i \in 0..(index' - 1) : Character(r, i) \notin {"zero", "control"}
    BY <1>1, <2>1, <2>6 DEF IdentityInv, PathRead, Letters
  <2>8. /\ \A i \in start'..(index' - 1) : Character(r, i) # "separator"
        /\ start' = 0 \/ Character(r, start' - 1) = "separator"
    <3>1. CASE Character(r, index) = "separator"
      BY <1>2, <2>1, <3>1
    <3>2. CASE Character(r, index) # "separator"
      <4>1. start' = start /\ \A i \in start..(index' - 1) : i \in start..(index - 1) \/ i = index
        BY <1>2, <2>1, <3>2
      <4>2. QED
        BY <1>1, <3>2, <4>1 DEF IdentityInv, PathRead
    <3>3. QED
      BY <3>1, <3>2
  <2>9. PathRead'
    BY <1>1, <1>3, <2>1, <2>2, <2>5, <2>7, <2>8, SameFile DEF PathRead
  <2>10. QED
    BY <1>1, <1>3, <2>1, <2>3, <2>4, <2>9, SelectedKept DEF IdentityInv
<1>10. QED
  BY <1>7, <1>8, <1>9 DEF ReadPath

\* No step of the search breaks IdentityInv.
THEOREM StepIdentity == IdentityInv /\ [Next]_vars => IdentityInv'
<1> SUFFICES ASSUME IdentityInv, [Next]_vars PROVE IdentityInv'
  OBVIOUS
<1>1. CASE Next
  BY <1>1, ParseKeeps, ReadEntryKeeps, ReadPathKeeps DEF Next
<1>2. CASE UNCHANGED vars
  <2> USE <1>2 DEF vars
  <2>1. Current' = Current /\ \A i : Character(Record(Current), i)' = Character(Record(Current), i)
    BY SameFile DEF Current, Character
  <2>2. TypeOK'
    BY <2>1 DEF IdentityInv, TypeOK
  <2>3. PathRead'
    BY <2>1, SameFile DEF IdentityInv, PathRead
  <2>4. Accepted' /\ Progress' /\ ResultExact'
    <3>1. /\ ResultExact
          /\ \A e : Stated(e)' = Stated(e) /\ \A id : HasPdb(id)' = HasPdb(id)
      BY SameFile DEF IdentityInv
    <3>2. ResultExact'
      BY <3>1 DEF ResultExact
    <3>3. QED
      BY <3>2, SameFile DEF IdentityInv, Accepted, Progress
  <2>5. QED
    BY <2>2, <2>3, <2>4, SelectedKept DEF IdentityInv
<1>3. QED
  BY <1>1, <1>2

\* IdentityInv holds in every reachable state of the search.
THEOREM IdentityInvariance == Spec => []IdentityInv
<1>1. QED
  BY InitIdentity, StepIdentity, PTL DEF Spec

\* uwd_pe_pdb_identity: an identity is returned exactly when every CodeView entry
\* is sound and all RSDS records state that identity, in any file.
THEOREM IdentityIsExact == Spec => []ResultExact
<1>1. IdentityInv => ResultExact
  BY DEF IdentityInv
<1>2. QED
  BY <1>1, IdentityInvariance, PTL

\* What is selected is exact for the entries read so far.
THEOREM SelectionIsExact == Spec => []SelectedExact
<1>1. IdentityInv => SelectedExact
  BY DEF IdentityInv
<1>2. QED
  BY <1>1, IdentityInvariance, PTL

\* Every variable keeps its type, and the path's index stays in its record.
THEOREM IdentityTypeCorrect == Spec => []TypeOK
<1>1. IdentityInv => TypeOK
  BY DEF IdentityInv
<1>2. QED
  BY <1>1, IdentityInvariance, PTL

\* uwd_pe_pdb_identity: the directory, the signature of every CodeView payload that
\* is compared, and the header and the path of an RSDS record lie in the file,
\* wherever the directory's entries say that they are.
THEOREM ReadsStayInside == Spec => []ReadsInside
<1>1. IdentityInv => ReadsInside
  <2> SUFFICES ASSUME IdentityInv, phase \in {"entry", "path"} PROVE ReadsInside
    BY DEF ReadsInside
  <2>1. /\ pe \in File /\ index \in Nat /\ EntrySize \in Nat /\ Len(pe.debug) \in Nat
        /\ pe.directoryRva \in Nat /\ pe.size \in Nat /\ RsdsHeaderSize \in Nat
        /\ entry \in Nat /\ SignatureLength \in Nat
    BY FileType, IdentityAssumption DEF IdentityInv, TypeOK
  <2>2. ParseAccepts(pe) /\ DirectoryOk
    BY DEF IdentityInv, Accepted
  <2>3. Inside(DirectoryOffset, Len(pe.debug) * EntrySize)
    <3>1. Len(pe.debug) * EntrySize \in Nat
      BY <2>1
    <3>2. DirectorySize = Len(pe.debug) * EntrySize
      BY <2>2, <3>1 DEF DirectoryOk, DirectorySize
    <3>3. DirectoryOffset \in Nat /\ DirectoryOffset + Len(pe.debug) * EntrySize <= pe.size
      BY <2>1, <2>2, <3>1, <3>2, SpanInFile DEF DirectoryOk, DirectoryOffset
    <3>4. QED
      BY <2>2, <3>3 DEF DirectoryOk, Inside
  <2>4. ASSUME entry < Len(pe.debug), Compared(Current)
        PROVE  /\ PayloadOffset(Current) # NoOffset
               /\ PayloadOffset(Current) \in Nat /\ Current.size \in Nat
               /\ PayloadOffset(Current) + Current.size <= pe.size
               /\ SignatureLength <= Current.size
    <3>1. entry + 1 \in DOMAIN pe.debug
      BY <2>1, <2>4, FileType
    <3>2. Current \in Entry /\ Current.size \in Nat
      BY <2>1, <3>1, EntryType DEF Current
    <3>3. PayloadOffset(Current) \in Nat /\ PayloadOffset(Current) + Current.size <= pe.size
      BY <2>1, <2>2, <2>4, <3>2, PayloadInFile DEF Compared
    <3>4. QED
      BY <2>1, <2>4, <3>2, <3>3 DEF Compared, NoOffset
  <2>5. ASSUME phase = "entry", entry < Len(pe.debug), Compared(Current)
        PROVE  Inside(PayloadOffset(Current), SignatureLength)
    BY <2>1, <2>4, <2>5 DEF Inside
  <2>6. ASSUME phase = "path", index < PathCapacity(Current)
        PROVE  Inside(PayloadOffset(Current), RsdsHeaderSize + index + 1)
    <3>1. entry < Len(pe.debug) /\ Compared(Current)
      BY <2>6 DEF IdentityInv, TypeOK, PathRead
    <3>2. RsdsHeaderSize + index + 1 <= Current.size
      BY <2>1, <2>4, <2>6, <3>1 DEF PathCapacity
    <3>3. QED
      BY <2>1, <2>4, <3>1, <3>2 DEF Inside
  <2>7. QED
    BY <2>3, <2>5, <2>6 DEF ReadsInside
<1>2. QED
  BY <1>1, IdentityInvariance, PTL

------------------------------------------------------------------------------
(* The search ends: its loops only go on, within bounds that the file gives *)

Rank(p) == CASE p = "parse" -> 0 [] p = "entry" -> 1 [] p = "path" -> 2 [] OTHER -> 3

\* Further in the directory, or in what is done with an entry, or in its path.
Onward ==
  \/ entry' > entry
  \/ entry' = entry /\ Rank(phase') > Rank(phase)
  \/ entry' = entry /\ phase' = "path" /\ phase = "path" /\ index' > index

\* The position is one of finitely many, which only the file determines.
InBounds ==
  entry \in 0..Len(pe.debug) /\ (phase = "path" => index \in 0..Current.size)

LoopsGoOn == [][pe' = pe /\ Onward]_vars

\* uwd_pe_pdb_identity ends on any file: no entry and no byte of a path is looked
\* at again, and a path without an end stops at the end of its record.
THEOREM IdentityRunsOut == Spec => LoopsGoOn /\ []InBounds
<1>1. IdentityInv => InBounds
  <2> SUFFICES ASSUME IdentityInv PROVE InBounds
    OBVIOUS
  <2>1. ASSUME phase = "path" PROVE index \in 0..Current.size
    <3>1. /\ pe \in File /\ index \in Nat /\ entry \in Nat /\ entry < Len(pe.debug)
          /\ index <= Current.size - RsdsHeaderSize /\ RsdsHeaderSize \in Nat
      BY <2>1, FileType, IdentityAssumption DEF IdentityInv, TypeOK
    <3>2. entry + 1 \in DOMAIN pe.debug
      BY <3>1, FileType
    <3>3. Current.size \in Nat
      BY <3>1, <3>2, EntryType DEF Current
    <3> QED BY <3>1, <3>3
  <2> QED BY <2>1 DEF IdentityInv, TypeOK, InBounds
<1>2. ASSUME IdentityInv, Next PROVE pe' = pe /\ Onward
  <2>1. pe \in File /\ entry \in Nat /\ index \in Nat /\ Len(pe.debug) \in Nat
    BY <1>2, FileType DEF IdentityInv, TypeOK
  <2>2. CASE Parse
    BY <2>2 DEF Parse, Onward, Rank
  <2>3. CASE ReadEntry
    BY <2>1, <2>3 DEF ReadEntry, Finish, Skip, Refuse, OpenPath, Onward, Rank
  <2>4. CASE ReadPath
    <3>1. CASE RefusePath
      BY <2>4, <3>1 DEF ReadPath, RefusePath, Onward, Rank
    <3>2. CASE ContinuePath(Record(Current))
      BY <2>1, <2>4, <3>2 DEF ReadPath, ContinuePath, Onward
    <3>3. CASE ClosePath(Record(Current))
      <4>1. \/ phase' = "entry" /\ entry' = entry + 1
            \/ phase' = "failed" /\ entry' = entry
        BY <3>3 DEF ClosePath, Select
      <4> QED BY <2>1, <2>4, <4>1 DEF ReadPath, Onward, Rank
    <3> QED BY <2>4, <3>1, <3>2, <3>3 DEF ReadPath
  <2> QED BY <1>2, <2>2, <2>3, <2>4 DEF Next
<1>3. IdentityInv /\ [Next]_vars => [pe' = pe /\ Onward]_vars
  BY <1>2
<1> QED
  BY <1>1, <1>3, IdentityInvariance, PTL DEF Spec, LoopsGoOn
==============================================================================
