----------------------------- MODULE PdbIdentity -----------------------------
(***************************************************************************)
(* uwd_pe_pdb_identity of pe_scan.c: which PDB belongs to a shell32.dll.   *)
(* It walks the debug directory, finds the bytes of every CodeView entry   *)
(* (by RVA, by file pointer, or by both, which must then agree), walks the *)
(* path of every RSDS record among them to its file name, and returns the  *)
(* GUID, age and name that all of them have in common.  This identity is   *)
(* the key of the symbol cache and the name the symbol server is asked     *)
(* for.                                                                    *)
(*                                                                         *)
(* Each loop iteration is a step.  GUID and age are one key; a byte of the *)
(* path is one of a few kinds of character.                                *)
(***************************************************************************)
EXTENDS PeImage

CONSTANTS
  Inputs,           \* the files the search may be given
  Keys,             \* GUID and age
  NoIdentity,       \* nothing was selected
  EntrySize,        \* bytes of a directory entry (28)
  SignatureLength,  \* bytes of "RSDS" (4)
  RsdsHeaderSize,   \* bytes of an RSDS record before its path (24)
  NameCapacity      \* UWD_PDB_NAME_CAPACITY (260)

Letters == {"a", "b"}
Characters == Letters \cup {"separator", "control", "zero"}

\* An IMAGE_DEBUG_DIRECTORY, as far as the search reads it.
Entry == [codeView : BOOLEAN, size : Nat, rva : Nat, pointer : Nat]

\* An RSDS record somewhere in the file; letters follow the text that is given.
Rsds == [at : Nat, key : Keys, text : Seq(Characters)]

\* A file: its layout, its debug directory, and the RSDS records in it.
Content ==
  [headersValid : BOOLEAN, machine : Machines, size : Nat, imageSize : Nat,
   headerSize : Nat, tableEnd : Nat, sections : Seq(Section),
   hasDirectory : BOOLEAN, directoryRva : Nat,
   debug : Seq(Entry), rest : Nat,     \* whole entries, and bytes behind them
   records : SUBSET Rsds]

File == {f \in Content : /\ \A r, q \in f.records : r.at = q.at => r = q
                         /\ f.rest < EntrySize}

Identity == [key : Keys, name : Seq(Letters)]

ASSUME IdentityAssumption ==
  /\ Inputs \subseteq File
  /\ NoIdentity \notin Identity
  /\ EntrySize \in Nat \ {0}
  /\ SignatureLength \in Nat \ {0}
  /\ RsdsHeaderSize \in Nat
  /\ RsdsHeaderSize >= SignatureLength
  /\ NameCapacity \in Nat \ {0}

VARIABLES
  pe,        \* the file being searched
  phase,     \* the loop that is running, or the result
  entry,     \* directory entries that are done
  index,     \* the position in the path, counted from 0
  start,     \* basename_start
  selected   \* the identity that was found first

vars == <<pe, phase, entry, index, start, selected>>
path == <<index, start>>

Init ==
  /\ pe \in Inputs
  /\ phase = "parse"
  /\ entry = 0
  /\ index = 0
  /\ start = 0
  /\ selected = NoIdentity
------------------------------------------------------------------------------
DirectorySize == Len(pe.debug) * EntrySize + pe.rest
DirectoryOffset == MapRvaSpan(pe, pe.directoryRva, DirectorySize)

DirectoryOk ==
  /\ pe.hasDirectory
  /\ pe.directoryRva # 0 /\ DirectorySize # 0
  /\ pe.rest = 0
  /\ DirectoryOffset # NoOffset

\* uwd_debug_payload_offset returns 0.
Located(e) ==
  /\ e.size # 0
  /\ e.rva # 0 => MapRvaSpan(pe, e.rva, e.size) # NoOffset
  /\ e.pointer # 0 => RangeOk(pe.size, e.pointer, e.size)
  /\ e.rva # 0 \/ e.pointer # 0
  /\ e.rva # 0 /\ e.pointer # 0 => MapRvaSpan(pe, e.rva, e.size) = e.pointer

PayloadOffset(e) == IF e.pointer # 0 THEN e.pointer ELSE MapRvaSpan(pe, e.rva, e.size)

\* Mutant of Compared: the payload's size is not looked at.
ComparedAnyway(e) == Located(e)

\* memcmp looks for a signature at the start of the payload.
Compared(e) == Located(e) /\ e.size >= SignatureLength

\* The RSDS record the payload starts with, if it starts with one.
RecordsOf(e) == {r \in pe.records : r.at = PayloadOffset(e)}
Record(e) == CHOOSE r \in RecordsOf(e) : TRUE

Character(r, i) == IF i < Len(r.text) THEN r.text[i + 1] ELSE "a"

PathCapacity(e) == e.size - RsdsHeaderSize

Named(r, from, to) ==
  [key |-> r.key, name |-> [i \in 1..(to - from) |-> Character(r, from + i - 1)]]

Current == pe.debug[entry + 1]
------------------------------------------------------------------------------
Parse ==
  /\ phase = "parse"
  /\ phase' = IF ParseAccepts(pe) /\ DirectoryOk THEN "entry" ELSE "failed"
  /\ UNCHANGED <<pe, entry, path, selected>>

Finish ==
  /\ entry = Len(pe.debug)
  /\ phase' = IF selected # NoIdentity THEN "found" ELSE "failed"
  /\ UNCHANGED <<entry, path>>

\* Not a CodeView entry, or one of another format.
Skip ==
  /\ ~Current.codeView \/ (Compared(Current) /\ RecordsOf(Current) = {})
  /\ entry' = entry + 1
  /\ UNCHANGED <<phase, path>>

Refuse ==
  /\ Current.codeView
  /\ Compared(Current) => RecordsOf(Current) # {} /\ Current.size <= RsdsHeaderSize
  /\ phase' = "failed"
  /\ UNCHANGED <<entry, path>>

OpenPath ==
  /\ Current.codeView
  /\ Compared(Current)
  /\ RecordsOf(Current) # {}
  /\ Current.size > RsdsHeaderSize
  /\ phase' = "path"
  /\ index' = 0 /\ start' = 0
  /\ UNCHANGED entry

\* The loop over the directory.
ReadEntry ==
  /\ phase = "entry"
  /\ Finish \/ (entry < Len(pe.debug) /\ (Skip \/ Refuse \/ OpenPath))
  /\ UNCHANGED <<pe, selected>>

\* Mutant of Select: the first identity wins.
SelectFirst(candidate) ==
  /\ phase' = "entry" /\ entry' = entry + 1
  /\ selected' = IF selected = NoIdentity THEN candidate ELSE selected

\* The first identity is kept; a different one makes the file ambiguous.
Select(candidate) ==
  IF selected \in {NoIdentity, candidate}
    THEN phase' = "entry" /\ entry' = entry + 1 /\ selected' = candidate
    ELSE phase' = "failed" /\ UNCHANGED <<entry, selected>>

\* Mutant of BaseName: it keeps the separator before it.
BaseNameSeparated == start' = index

BaseName == start' = index + 1

\* The terminating zero: the name lies between start and index.
ClosePath(r) ==
  /\ Character(r, index) = "zero"
  /\ IF start < index /\ index - start < NameCapacity
       THEN Select(Named(r, start, index))
       ELSE phase' = "failed" /\ UNCHANGED <<entry, selected>>
  /\ UNCHANGED path

ContinuePath(r) ==
  /\ Character(r, index) \in Letters \cup {"separator"}
  /\ index' = index + 1
  /\ IF Character(r, index) = "separator" THEN BaseName ELSE UNCHANGED start
  /\ UNCHANGED <<phase, entry, selected>>

RefusePath ==
  /\ index = PathCapacity(Current) \/ Character(Record(Current), index) = "control"
  /\ phase' = "failed"
  /\ UNCHANGED <<entry, path, selected>>

\* The loop over the path in uwd_parse_rsds.
ReadPath ==
  /\ phase = "path"
  /\ \/ RefusePath
     \/ /\ index < PathCapacity(Current)
        /\ ClosePath(Record(Current)) \/ ContinuePath(Record(Current))
  /\ UNCHANGED pe

Next == Parse \/ ReadEntry \/ ReadPath

Spec == Init /\ [][Next]_vars
------------------------------------------------------------------------------
\* Every variable has its type; the path's index stays in the record.
TypeOK ==
  /\ pe \in File
  /\ phase \in {"parse", "entry", "path", "found", "failed"}
  /\ entry \in 0..Len(pe.debug)
  /\ index \in Nat
  /\ start \in 0..index
  /\ selected \in Identity \cup {NoIdentity}
  /\ phase = "path" => entry < Len(pe.debug) /\ index <= Current.size - RsdsHeaderSize

Inside(offset, length) == offset # NoOffset /\ offset + length <= pe.size

\* Every byte that is read is in the file: the directory's entries, the
\* signature of every CodeView payload that is compared (uwd_pe_pdb_identity's
\* memcmp, also when the payload is then skipped), and the header and path of an
\* RSDS record, wherever the entry's RVA and pointer put them.
ReadsInside ==
  /\ phase \in {"entry", "path"} => Inside(DirectoryOffset, Len(pe.debug) * EntrySize)
  /\ phase = "entry" /\ entry < Len(pe.debug) =>
       (Current.codeView /\ Compared(Current) =>
          Inside(PayloadOffset(Current), SignatureLength))
  /\ phase = "path" /\ index < PathCapacity(Current) =>
       Inside(PayloadOffset(Current), RsdsHeaderSize + index + 1)

(***************************************************************************)
(* What the directory says, whatever the order in which it is read.        *)
(***************************************************************************)
HasRsds(e) == e.codeView /\ RecordsOf(e) # {}

\* The file name of the record's path lies between from and to.
IsBaseName(e, r, from, to) ==
  /\ to < e.size - RsdsHeaderSize
  /\ from < to
  /\ to - from < NameCapacity
  /\ Character(r, to) = "zero"
  /\ \A i \in 0..(to - 1) : Character(r, i) \notin {"zero", "control"}
  /\ \A i \in from..(to - 1) : Character(r, i) # "separator"
  /\ from = 0 \/ Character(r, from - 1) = "separator"

\* The identities an entry states (one, or none if its record is malformed).
Stated(e) ==
  UNION {{Named(r, p[1], p[2]) :
            p \in {q \in (0..e.size) \X (0..e.size) : IsBaseName(e, r, q[1], q[2])}} :
         r \in RecordsOf(e)}

\* Where the entry says that its payload is.
Places(e) ==
  (IF e.rva = 0 THEN {} ELSE {MapRvaSpan(pe, e.rva, e.size)})
  \cup (IF e.pointer = 0 THEN {} ELSE {e.pointer})

\* It says so in one way or in two that agree, and the payload is in the file
\* and can hold a signature; an RSDS record states an identity.
SoundEntry(e) ==
  e.codeView => /\ \E at \in Places(e) : Places(e) = {at} /\ Inside(at, e.size)
                /\ e.size >= SignatureLength
                /\ RecordsOf(e) # {} => Stated(e) # {}

\* What was selected is the one identity that every RSDS record among the
\* entries behind the loop states, and each of these entries is sound.
SelectedExact ==
  /\ \A k \in 1..entry : SoundEntry(pe.debug[k])
  /\ \A k \in 1..entry : HasRsds(pe.debug[k]) => Stated(pe.debug[k]) = {selected}
  /\ selected # NoIdentity <=> \E k \in 1..entry : HasRsds(pe.debug[k])

\* The file has one PDB: every CodeView entry is sound, and all RSDS records,
\* of which there is one at least, state the identity id.
HasPdb(id) ==
  /\ ParseAccepts(pe) /\ DirectoryOk
  /\ \A k \in DOMAIN pe.debug : SoundEntry(pe.debug[k])
  /\ \E k \in DOMAIN pe.debug : HasRsds(pe.debug[k])
  /\ \A k \in DOMAIN pe.debug : HasRsds(pe.debug[k]) => Stated(pe.debug[k]) = {id}

\* The search returns an identity exactly when the file has that one PDB
\* (uwd_pe_pdb_identity: damaged and contradicting entries are refused, however
\* they are ordered, and agreeing ones are not).
ResultExact ==
  /\ phase = "found" => HasPdb(selected)
  /\ phase = "failed" =>
       ~ \E k \in DOMAIN pe.debug : \E id \in Stated(pe.debug[k]) : HasPdb(id)
------------------------------------------------------------------------------
\* The path behind the index has neither an end nor a control character, and
\* start is behind its last separator.
PathRead ==
  phase = "path" =>
    /\ Current.codeView /\ Compared(Current) /\ RecordsOf(Current) # {}
    /\ Current.size > RsdsHeaderSize
    /\ \A i \in 0..(index - 1) : Character(Record(Current), i) \notin {"zero", "control"}
    /\ \A i \in start..(index - 1) : Character(Record(Current), i) # "separator"
    /\ start = 0 \/ Character(Record(Current), start - 1) = "separator"

Accepted == phase \notin {"parse", "failed"} => ParseAccepts(pe) /\ DirectoryOk

Progress ==
  /\ phase = "parse" => entry = 0
  /\ phase = "found" => entry = Len(pe.debug) /\ selected # NoIdentity

\* The inductive invariant of PdbIdentityProofs, from which ReadsInside follows.
IdentityInv ==
  TypeOK /\ Accepted /\ Progress /\ PathRead /\ SelectedExact /\ ResultExact
==============================================================================
