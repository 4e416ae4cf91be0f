---------------------------- MODULE WatermarkScan ----------------------------
(***************************************************************************)
(* uwd_pe_find_watermark_rva of pe_scan.c: the structural search for the   *)
(* function that paints the watermark.  It loads the function table        *)
(* (.pdata), walks the import table to every IAT slot of                   *)
(* GDI32!SetTextColor, walks the code to every indirect call through that  *)
(* slot, finds the function around the call by binary search, and looks    *)
(* for a white color argument before the call.  The one function that      *)
(* qualifies is the result; two make the image ambiguous.                  *)
(*                                                                         *)
(* Each loop iteration is a step.  Bytes are abstracted to where, in the   *)
(* file, a call instruction (with its displacement) or a white argument    *)
(* (with its length) is encoded; strings to whether they name what the     *)
(* code looks for, something else, or cannot be read.                      *)
(***************************************************************************)
EXTENDS PeImage

CONSTANTS
  Inputs,         \* the files the search may be given
  CallLength,     \* bytes of the call instruction (6)
  WhiteLookback,  \* bytes looked at before the call (UWD_WHITE_LOOKBACK)
  SlotLength,     \* bytes of an IAT slot (8)
  MaxRva          \* UINT32_MAX

\* A RUNTIME_FUNCTION of .pdata.
RuntimeFunction == [begin : Nat, end : Nat]

\* An import descriptor: the DLL it names, the names it imports up to the
\* terminating zero, if there is one, and the first IAT slot.
Dlls == {"GDI32", "other", "invalid"}
ImportNames == {"SetTextColor", "other", "invalid"}
Descriptor == [dll : Dlls, names : Seq(ImportNames), ended : BOOLEAN, firstThunk : Nat]

\* FF 15 disp32, and one of the two encodings of mov edx, 00FFFFFFh.
Call == [at : Nat, displacement : Int]
White == [at : Nat, length : Nat \ {0}]

\* A file: its layout, its tables, and where its code encodes what.
File ==
  [headersValid : BOOLEAN, machine : Machines, size : Nat, imageSize : 0..MaxRva,
   headerSize : Nat, tableEnd : Nat, sections : Seq(Section),
   pdata : Seq(RuntimeFunction),
   imports : Seq(Descriptor), importsEnded : BOOLEAN,
   calls : SUBSET Call, whites : SUBSET White]

ASSUME ScanAssumption ==
  /\ Inputs \subseteq File
  /\ CallLength \in Nat \ {0}
  /\ WhiteLookback \in Nat
  /\ SlotLength \in Nat \ {0}
  /\ MaxRva \in Nat

VARIABLES
  pe,          \* the file being searched
  phase,       \* the loop that is running, or the result
  entry,       \* .pdata entries already accepted
  previousEnd, \* where the last of them ends
  descriptor,  \* the import descriptor, counted from 1
  thunk,       \* the import name, counted from 1
  section,     \* the section, counted from 1
  index,       \* the position in its bytes, counted from 0
  low, high,   \* what is left of the binary search
  scan         \* UwdScanState

vars == <<pe, phase, entry, previousEnd, descriptor, thunk, section, index, low, high, scan>>

\* A counter whose loop is not running is at the loop's start.
position == <<descriptor, thunk, section, index>>
search == <<low, high>>
table == <<entry, previousEnd>>

NoFunction == -1
Saw == {"import", "call", "pdata", "white"}
ScanState == [saw : SUBSET Saw, candidate : Nat \cup {NoFunction}, ambiguous : BOOLEAN]

Init ==
  /\ pe \in Inputs
  /\ phase = "parse"
  /\ entry = 0
  /\ previousEnd = 0
  /\ descriptor = 1
  /\ thunk = 1
  /\ section = 1
  /\ index = 0
  /\ low = 0
  /\ high = 0
  /\ scan = [saw |-> {}, candidate |-> NoFunction, ambiguous |-> FALSE]
------------------------------------------------------------------------------
\* Headers, sections, machine, and a directory of whole .pdata entries.
Parse ==
  /\ phase = "parse"
  /\ phase' = IF ParseAccepts(pe) /\ pe.machine = "AMD64" /\ pe.pdata # <<>>
                THEN "pdata" ELSE "failed"
  /\ UNCHANGED <<pe, table, position, search, scan>>

\* Mutant: entries need not be sorted.
PdataEntryUnsorted(f) ==
  f.begin < f.end /\ f.end <= pe.imageSize /\ ExecSectionContains(pe, f.begin, f.end)

PdataEntryOk(f) ==
  /\ f.begin < f.end
  /\ f.end <= pe.imageSize
  /\ entry # 0 => f.begin >= previousEnd
  /\ ExecSectionContains(pe, f.begin, f.end)

\* uwd_load_pdata, one entry.
LoadPdata ==
  /\ phase = "pdata"
  /\ IF entry = Len(pe.pdata)
       THEN phase' = "descriptor" /\ UNCHANGED table
       ELSE LET f == pe.pdata[entry + 1] IN
            IF PdataEntryOk(f)
              THEN entry' = entry + 1 /\ previousEnd' = f.end /\ UNCHANGED phase
              ELSE phase' = "failed" /\ UNCHANGED table
  /\ UNCHANGED <<pe, position, search, scan>>

\* What uwd_pe_find_watermark_rva requires once the import table is done.
Unique == scan.saw = Saw /\ scan.candidate # NoFunction /\ ~scan.ambiguous

\* uwd_scan_imports, one descriptor.
ScanDescriptor ==
  /\ phase = "descriptor"
  /\ IF descriptor > Len(pe.imports)
       THEN /\ phase' = IF pe.importsEnded /\ Unique THEN "found" ELSE "failed"
            /\ UNCHANGED position
       ELSE LET d == pe.imports[descriptor] IN
            \/ /\ d.dll = "invalid"
               /\ phase' = "failed"
               /\ UNCHANGED position
            \/ /\ d.dll = "other"
               /\ descriptor' = descriptor + 1
               /\ UNCHANGED <<phase, thunk, section, index>>
            \/ /\ d.dll = "GDI32"
               /\ phase' = "thunk"
               /\ UNCHANGED position
  /\ UNCHANGED <<pe, table, search, scan>>

\* The IAT slot of the t-th name of the d-th descriptor.
SlotOf(d, t) == pe.imports[d].firstThunk + (t - 1) * SlotLength
Slot == SlotOf(descriptor, thunk)

SlotMapped(slot) == slot <= MaxRva /\ MapRvaSpan(pe, slot, SlotLength) # NoOffset

\* uwd_scan_import_thunks, one name.
ScanThunk ==
  /\ phase = "thunk"
  /\ LET d == pe.imports[descriptor] IN
     IF thunk > Len(d.names)
       THEN IF d.ended
              THEN /\ phase' = "descriptor"
                   /\ descriptor' = descriptor + 1
                   /\ thunk' = 1
                   /\ UNCHANGED <<section, index, scan>>
              ELSE phase' = "failed" /\ UNCHANGED <<position, scan>>
       ELSE \/ /\ \/ d.names[thunk] = "invalid"
                  \/ d.names[thunk] = "SetTextColor" /\ ~SlotMapped(Slot)
               /\ phase' = "failed"
               /\ UNCHANGED <<position, scan>>
            \/ /\ d.names[thunk] = "other"
               /\ thunk' = thunk + 1
               /\ UNCHANGED <<phase, descriptor, section, index, scan>>
            \/ /\ d.names[thunk] = "SetTextColor"
               /\ SlotMapped(Slot)
               /\ phase' = "site"
               /\ scan' = [scan EXCEPT !.saw = @ \cup {"import"}]
               /\ UNCHANGED position
  /\ UNCHANGED <<pe, table, search>>
------------------------------------------------------------------------------
\* The i-th byte of section s starts a call through the slot.
CallsSlot(s, i, slot) ==
  \E call \in pe.calls :
    /\ call.at = s.raw + i
    /\ s.va + i <= MaxRva - CallLength
    /\ s.va + i + CallLength + call.displacement = slot

Scannable(s) == s.exec /\ s.rawSize >= CallLength

CallRva == pe.sections[section].va + index

\* uwd_scan_calls_to_slot, one position.
ScanSite ==
  /\ phase = "site"
  /\ IF section > Len(pe.sections)
       THEN /\ phase' = "thunk"
            /\ thunk' = thunk + 1
            /\ section' = 1
            /\ index' = 0
            /\ UNCHANGED <<descriptor, search, scan>>
       ELSE LET s == pe.sections[section] IN
            IF ~Scannable(s) \/ index + CallLength > s.rawSize
              THEN /\ section' = section + 1
                   /\ index' = 0
                   /\ UNCHANGED <<phase, descriptor, thunk, search, scan>>
              ELSE IF CallsSlot(s, index, Slot)
                THEN /\ phase' = "search"
                     /\ low' = 0
                     /\ high' = Len(pe.pdata)
                     /\ scan' = [scan EXCEPT !.saw = @ \cup {"call"}]
                     /\ UNCHANGED position
                ELSE /\ index' = index + 1
                     /\ UNCHANGED <<phase, descriptor, thunk, section, search, scan>>
  /\ UNCHANGED <<pe, table>>

\* Mutant: the window may reach into the preceding function.
HasWhiteBefore(s, i, begin) ==
  LET window == IF i > WhiteLookback THEN i - WhiteLookback ELSE 0 IN
  \E white \in pe.whites :
    white.at - s.raw \in window..(i - 1) /\ s.raw + i - white.at >= white.length

\* uwd_has_white_argument: the section's bytes, from the call back to the
\* start of the function or of the window, encode the argument.
HasWhiteArgument(s, i, begin) ==
  LET functionIndex == begin - s.va
      window == IF i > WhiteLookback THEN i - WhiteLookback ELSE 0
      start == IF window < functionIndex THEN functionIndex ELSE window
  IN /\ begin >= s.va
     /\ functionIndex <= i
     /\ \E white \in pe.whites :
          /\ white.at - s.raw \in start..(i - 1)
          /\ s.raw + i - white.at >= white.length

\* Mutant: the last function that qualifies wins.
RecordLast(begin) ==
  scan' = [saw |-> scan.saw \cup {"pdata", "white"}, candidate |-> begin, ambiguous |-> FALSE]

\* uwd_record_candidate
RecordCandidate(begin) ==
  scan' = [saw |-> scan.saw \cup {"pdata", "white"},
           candidate |-> IF scan.candidate = NoFunction THEN begin ELSE scan.candidate,
           ambiguous |-> scan.ambiguous
                           \/ (scan.candidate # NoFunction /\ scan.candidate # begin)]

NextPosition ==
  /\ phase' = "site"
  /\ index' = index + 1
  /\ UNCHANGED <<descriptor, thunk, section>>

\* Mutants: one entry too many is dropped; none is.
KeepTooLittle(middle) == high' = middle - 1 /\ UNCHANGED low
KeepMiddle(middle) == low' = middle /\ UNCHANGED high

\* The half of the table the search goes on with.
KeepBelow(middle) == high' = middle /\ UNCHANGED low
KeepAbove(middle) == low' = middle + 1 /\ UNCHANGED high

\* uwd_find_runtime_function, one halving, and what the scan does with the result.
Bisect ==
  /\ phase = "search"
  /\ IF low >= high
       THEN NextPosition /\ UNCHANGED <<search, scan>>
       ELSE LET middle == low + (high - low) \div 2
                f == pe.pdata[middle + 1]
            IN \/ /\ CallRva < f.begin
                  /\ KeepBelow(middle)
                  /\ UNCHANGED <<phase, position, scan>>
               \/ /\ CallRva >= f.begin
                  /\ CallRva >= f.end
                  /\ KeepAbove(middle)
                  /\ UNCHANGED <<phase, position, scan>>
               \/ /\ CallRva >= f.begin
                  /\ CallRva < f.end
                  /\ NextPosition
                  /\ IF HasWhiteArgument(pe.sections[section], index, f.begin)
                       THEN RecordCandidate(f.begin)
                       ELSE scan' = [scan EXCEPT !.saw = @ \cup {"pdata"}]
                  /\ UNCHANGED search
  /\ UNCHANGED <<pe, table>>

Next == Parse \/ LoadPdata \/ ScanDescriptor \/ ScanThunk \/ ScanSite \/ Bisect

Spec == Init /\ [][Next]_vars

\* The search runs on one thread and waits for nothing.
FairSpec == Spec /\ WF_vars(Next)
------------------------------------------------------------------------------
Phases == {"parse", "pdata", "descriptor", "thunk", "site", "search", "found", "failed"}

\* Every variable has its type.
TypeOK ==
  /\ pe \in File
  /\ phase \in Phases
  /\ entry \in 0..Len(pe.pdata)
  /\ previousEnd \in Nat
  /\ descriptor \in 1..(Len(pe.imports) + 1)
  /\ thunk \in Nat \ {0}
  /\ section \in 1..(Len(pe.sections) + 1)
  /\ index \in Nat
  /\ low \in 0..Len(pe.pdata)
  /\ high \in 0..Len(pe.pdata)
  /\ scan \in ScanState

Accepted == phase \notin {"parse", "failed"}

\* In an accepted image (uwd_parse_pe) no RVA has bytes in two sections, no two
\* RVAs share a byte of the file, and every mapped byte is inside the file: what
\* the program compares at an offset is what Windows maps at the RVA.
MapSound ==
  Accepted =>
    \A rva \in 0..(pe.imageSize - 1) :
      LET offset == MapRvaSpan(pe, rva, 1) IN
      /\ \A i, j \in Backing(pe, rva) : i = j
      /\ offset # NoOffset =>
           /\ offset < pe.size
           /\ \A other \in 0..(pe.imageSize - 1) :
                MapRvaSpan(pe, other, 1) = offset => other = rva

\* The function f has the call at byte i of section s.
Encloses(f, s, i) == f.begin <= s.va + i /\ s.va + i < f.end

\* What is left of the table still has every function around the call
\* (uwd_find_runtime_function cannot miss one, whatever the table's length).
SearchHolds ==
  phase = "search" =>
    \A e \in DOMAIN pe.pdata :
      Encloses(pe.pdata[e], pe.sections[section], index) => e \in (low + 1)..high

\* In the code of the file, the function f calls SetTextColor at byte i of
\* section s through the slot of name t of descriptor d, and somewhere in the
\* WhiteLookback bytes before the call, still in f, loads white.
Paints(f, d, t, s, i) ==
  LET code == pe.sections[s] IN
  /\ pe.imports[d].dll = "GDI32"
  /\ pe.imports[d].names[t] = "SetTextColor"
  /\ code.exec
  /\ i + CallLength <= code.rawSize
  /\ Encloses(f, code, i)
  /\ \E call \in pe.calls :
       call.at = code.raw + i /\ code.va + i + CallLength + call.displacement = SlotOf(d, t)
  /\ \E white \in pe.whites, j \in 0..i :
       /\ white.at = code.raw + j
       /\ f.begin <= code.va + j
       /\ j + white.length <= i
       /\ i <= j + WhiteLookback

\* The loops have been at this position.
Passed(d, t, s, i) ==
  \/ d < descriptor
  \/ d = descriptor /\ t < thunk
  \/ d = descriptor /\ t = thunk /\ s < section
  \/ d = descriptor /\ t = thunk /\ s = section /\ i < index

\* Somewhere in the file, or somewhere the loops have been, f paints.
PaintsSomewhere(f) ==
  \E d \in DOMAIN pe.imports : \E t \in DOMAIN pe.imports[d].names :
    \E s \in DOMAIN pe.sections : \E i \in 0..pe.sections[s].rawSize : Paints(f, d, t, s, i)

PaintsBehind(f) ==
  \E d \in DOMAIN pe.imports : \E t \in DOMAIN pe.imports[d].names :
    \E s \in DOMAIN pe.sections : \E i \in 0..pe.sections[s].rawSize :
      Passed(d, t, s, i) /\ Paints(f, d, t, s, i)

\* Where the functions begin that do.
Painters == {pe.pdata[e].begin : e \in {g \in DOMAIN pe.pdata : PaintsSomewhere(pe.pdata[g])}}

PaintersPassed ==
  {pe.pdata[e].begin : e \in {g \in DOMAIN pe.pdata : PaintsBehind(pe.pdata[g])}}

\* The record the scan keeps (uwd_record_candidate) says exactly which of no,
\* one or several functions paint in the part of the file behind it.
RecordExact ==
  /\ IF PaintersPassed = {}
       THEN scan.candidate = NoFunction
       ELSE scan.candidate \in PaintersPassed /\ scan.saw = Saw
  /\ scan.ambiguous <=> \E begin \in PaintersPassed : begin # scan.candidate

\* What the search can read of the import table.
NameOk(d, t) ==
  /\ pe.imports[d].names[t] # "invalid"
  /\ pe.imports[d].names[t] = "SetTextColor" => SlotMapped(SlotOf(d, t))

ImportOk(d) ==
  /\ pe.imports[d].dll # "invalid"
  /\ pe.imports[d].dll = "GDI32" =>
       pe.imports[d].ended /\ \A t \in DOMAIN pe.imports[d].names : NameOk(d, t)

\* A file every table of which the search can read.
WellFormed ==
  /\ ParseAccepts(pe) /\ pe.machine = "AMD64"
  /\ pe.pdata # <<>>
  /\ \A e \in DOMAIN pe.pdata :
       LET f == pe.pdata[e] IN f.end <= pe.imageSize /\ ExecSectionContains(pe, f.begin, f.end)
  /\ \A e \in DOMAIN pe.pdata \ {1} : pe.pdata[e - 1].end <= pe.pdata[e].begin
  /\ pe.importsEnded
  /\ \A d \in DOMAIN pe.imports : ImportOk(d)

\* The search names a function exactly when the file is well formed and that
\* function is the only one in it that paints (uwd_pe_find_watermark_rva never
\* guesses and never overlooks a second candidate, in whatever order they come).
ResultExact ==
  /\ phase = "found" => WellFormed /\ Painters = {scan.candidate}
  /\ phase = "failed" => ~(WellFormed /\ \E begin \in Painters : Painters = {begin})

\* The nested loops and the binary search come to an end.
Terminates == <>(phase \in {"found", "failed"})
------------------------------------------------------------------------------
(***************************************************************************)
(* The inductive invariant of WatermarkScanProofs.                         *)
(***************************************************************************)
\* Past the first check, the file passed it.
Readable ==
  Accepted => ParseAccepts(pe) /\ pe.machine = "AMD64" /\ pe.pdata # <<>>

\* The loaded entries are sound, and sorted pairwise and not only side by side.
TableLoaded ==
  /\ entry # 0 => previousEnd = pe.pdata[entry].end
  /\ \A e \in 1..entry :
       /\ pe.pdata[e].begin < pe.pdata[e].end
       /\ pe.pdata[e].end <= previousEnd
       /\ pe.pdata[e].end <= pe.imageSize
       /\ ExecSectionContains(pe, pe.pdata[e].begin, pe.pdata[e].end)
  /\ \A e, g \in 1..entry : e < g => pe.pdata[e].end <= pe.pdata[g].begin
  /\ phase \notin {"parse", "pdata", "failed"} => entry = Len(pe.pdata)

\* Where each loop's counters are.
InDescriptor == descriptor \in DOMAIN pe.imports /\ pe.imports[descriptor].dll = "GDI32"
InThunk ==
  /\ InDescriptor
  /\ thunk \in DOMAIN pe.imports[descriptor].names
  /\ pe.imports[descriptor].names[thunk] = "SetTextColor"
  /\ SlotMapped(Slot)
InSite ==
  /\ InThunk
  /\ section \in DOMAIN pe.sections
  /\ Scannable(pe.sections[section])
  /\ index + CallLength <= pe.sections[section].rawSize
  /\ CallsSlot(pe.sections[section], index, Slot)

Loops ==
  /\ phase \in {"parse", "pdata", "descriptor"} => thunk = 1
  /\ phase \in {"parse", "pdata", "descriptor", "thunk"} => section = 1 /\ index = 0
  /\ phase \in {"parse", "pdata"} => descriptor = 1 /\ scan.candidate = NoFunction /\ ~scan.ambiguous
  /\ phase = "parse" => entry = 0
  /\ phase = "thunk" => InDescriptor /\ thunk \in 1..(Len(pe.imports[descriptor].names) + 1)
  /\ phase = "site" => InThunk
  /\ phase = "search" => InSite
  /\ phase = "found" => descriptor = Len(pe.imports) + 1 /\ pe.importsEnded /\ Unique

\* What the scan has seen on the way to where it is.
Flags ==
  /\ phase \in {"site", "search"} => "import" \in scan.saw
  /\ phase = "search" => "call" \in scan.saw

\* The part of the import table behind the loops is well formed.
ImportsRead ==
  /\ \A d \in 1..(descriptor - 1) : ImportOk(d)
  /\ phase \in {"thunk", "site", "search"} => \A t \in 1..(thunk - 1) : NameOk(descriptor, t)

ScanInv ==
  /\ TypeOK /\ Readable /\ TableLoaded /\ Loops /\ Flags /\ ImportsRead
  /\ SearchHolds /\ RecordExact /\ ResultExact
==============================================================================
