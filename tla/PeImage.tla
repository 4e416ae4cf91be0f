------------------------------- MODULE PeImage -------------------------------
(***************************************************************************)
(* The checks of pe_scan.c that decide whether a shell32.dll is accepted,  *)
(* and its translation of relative virtual addresses (RVAs) to offsets in  *)
(* the file.  Everything the program later compares with, or looks for in, *)
(* the file goes through these operators.                                  *)
(*                                                                         *)
(* An image is the record of what the parser reads.  Signatures and sizes  *)
(* of the fixed headers are one Boolean.  The C code widens its 32-bit     *)
(* fields to 64 bits before it adds them, so additions do not wrap.        *)
(***************************************************************************)
EXTENDS Integers, Sequences

CONSTANT MaxSections     \* UWD_MAX_SECTIONS

ASSUME MaxSectionsAssumption == MaxSections \in Nat \ {0}

NoOffset == -1           \* the C functions return an error instead of an offset

Machines == {"AMD64", "ARM64", "other"}

Section == [va : Nat, vsize : Nat, raw : Nat, rawSize : Nat, exec : BOOLEAN]

\* The fields of UwdParsedPe that every query uses.
Layout == [headersValid : BOOLEAN, machine : Machines, size : Nat, imageSize : Nat,
           headerSize : Nat, tableEnd : Nat, sections : Seq(Section)]

\* uwd_range_ok: the length bytes from offset are among total bytes.
RangeOk(total, offset, length) == offset <= total /\ length <= total - offset

\* uwd_section_span: the address space a section may take.
Span(s) == IF s.vsize > s.rawSize THEN s.vsize ELSE s.rawSize

\* uwd_intervals_overlap_u32
Overlap(aStart, aSize, bStart, bSize) ==
  /\ aSize # 0
  /\ bSize # 0
  /\ aStart < bStart + bSize
  /\ bStart < aStart + aSize

HeadersOk(pe) ==
  /\ pe.headersValid
  /\ pe.machine \in {"AMD64", "ARM64"}
  /\ Len(pe.sections) \in 1..MaxSections
  /\ pe.imageSize # 0
  /\ pe.headerSize # 0
  /\ pe.headerSize <= pe.imageSize
  /\ pe.headerSize <= pe.size
  /\ pe.tableEnd <= pe.size
  /\ pe.tableEnd <= pe.headerSize

SectionOk(pe, s) ==
  /\ s.rawSize # 0 => s.raw >= pe.headerSize /\ s.raw + s.rawSize <= pe.size
  /\ Span(s) # 0 => /\ s.va >= pe.headerSize
                    /\ s.va < pe.imageSize
                    /\ Span(s) <= pe.imageSize - s.va

Apart(a, b) ==
  /\ ~Overlap(a.va, Span(a), b.va, Span(b))
  /\ ~Overlap(a.raw, a.rawSize, b.raw, b.rawSize)

\* Mutant: address ranges and file ranges are not compared.
ParseTouching(pe) ==
  HeadersOk(pe) /\ \A i \in DOMAIN pe.sections : SectionOk(pe, pe.sections[i])

\* uwd_parse_pe returns 0.
ParseAccepts(pe) ==
  /\ HeadersOk(pe)
  /\ \A i \in DOMAIN pe.sections : SectionOk(pe, pe.sections[i])
  /\ \A i, j \in DOMAIN pe.sections : i < j => Apart(pe.sections[i], pe.sections[j])
------------------------------------------------------------------------------
\* The section has bytes in the file for this RVA.
HasBytes(s, rva) == rva >= s.va /\ rva - s.va < s.rawSize

\* The sections that have, in the order of the table.
Backing(pe, rva) == {i \in DOMAIN pe.sections : HasBytes(pe.sections[i], rva)}

FirstBacking(pe, rva) ==
  CHOOSE i \in Backing(pe, rva) : \A j \in Backing(pe, rva) : i <= j

MapHeader(pe, rva, length) ==
  IF length <= pe.headerSize - rva /\ RangeOk(pe.size, rva, length) THEN rva ELSE NoOffset

MapSection(pe, s, rva, length) ==
  LET delta == rva - s.va IN
  IF length <= s.rawSize - delta /\ RangeOk(pe.size, s.raw + delta, length)
    THEN s.raw + delta
    ELSE NoOffset

\* uwd_map_rva_span: the offset of length bytes at rva; the first section that
\* has the first byte decides.
MapRvaSpan(pe, rva, length) ==
  IF length = 0 \/ rva >= pe.imageSize THEN NoOffset
  ELSE IF rva < pe.headerSize THEN MapHeader(pe, rva, length)
  ELSE IF Backing(pe, rva) = {} THEN NoOffset
  ELSE MapSection(pe, pe.sections[FirstBacking(pe, rva)], rva, length)

\* uwd_pe_rva_to_offset
RvaToOffset(pe, rva) == IF ParseAccepts(pe) THEN MapRvaSpan(pe, rva, 1) ELSE NoOffset

\* uwd_pe_rva_is_executable
RvaIsExecutable(pe, rva, length) ==
  /\ length # 0
  /\ ParseAccepts(pe)
  /\ rva < pe.imageSize
  /\ \E i \in Backing(pe, rva) :
       LET s == pe.sections[i] IN s.exec /\ length <= s.rawSize - (rva - s.va)

\* uwd_exec_section_contains
ExecSectionContains(pe, begin, end) ==
  /\ begin < end
  /\ \E i \in DOMAIN pe.sections :
       LET s == pe.sections[i] IN s.exec /\ begin >= s.va /\ end <= s.va + Span(s)
==============================================================================
