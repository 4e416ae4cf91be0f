---------------------------- MODULE MCPdbIdentity ----------------------------
(***************************************************************************)
(* Small files for PdbIdentity: the directory is at RVA 1, the records at  *)
(* RVA 5 and 12, a file offset is its RVA plus 1.                          *)
(***************************************************************************)
EXTENDS PdbIdentity

CONSTANTS k1, k2

MCKeys == {k1, k2}

Layout1 ==
  [headersValid |-> TRUE, machine |-> "AMD64", size |-> 18, imageSize |-> 21,
   headerSize |-> 1, tableEnd |-> 1,
   sections |-> <<[va |-> 1, vsize |-> 4, raw |-> 2, rawSize |-> 4, exec |-> FALSE],
                  [va |-> 5, vsize |-> 14, raw |-> 6, rawSize |-> 12, exec |-> FALSE]>>]

\* A longer directory needs a longer section around it.
OneSection == <<[va |-> 1, vsize |-> 17, raw |-> 2, rawSize |-> 16, exec |-> FALSE]>>

FileOf(layout, has, rva, debug, rest, records) ==
  [headersValid |-> layout.headersValid, machine |-> layout.machine, size |-> layout.size,
   imageSize |-> layout.imageSize, headerSize |-> layout.headerSize,
   tableEnd |-> layout.tableEnd, sections |-> layout.sections,
   hasDirectory |-> has, directoryRva |-> rva, debug |-> debug, rest |-> rest,
   records |-> records]

Dir(codeView, size, rva, pointer) ==
  [codeView |-> codeView, size |-> size, rva |-> rva, pointer |-> pointer]

Record1(at, key, text) == [at |-> at, key |-> key, text |-> text]

Texts ==
  {<<"a", "zero">>, <<"a", "separator", "b", "zero">>, <<"a", "b", "zero">>,
   <<"separator", "a", "zero">>, <<"a", "separator", "zero">>, <<"zero">>,
   <<"a", "control", "zero">>, <<"a", "b", "a", "zero">>, <<"b", "zero", "control">>}

\* The first record lies at offset 6, the second at 13; the entries find them by
\* RVA, by pointer, by both, or in a place where there is none, up to the last
\* byte of the file.
Entries1 ==
  {Dir(TRUE, size, 5, pointer) : size \in {2, 4, 6, 7}, pointer \in {0, 6, 7}}
  \cup {Dir(TRUE, 6, 0, 6), Dir(TRUE, 0, 5, 6), Dir(TRUE, 1, 5, 6), Dir(FALSE, 0, 0, 0)}
Entries2 ==
  {Dir(TRUE, size, rva, pointer) : size \in {5, 6}, rva \in {0, 12}, pointer \in {0, 13}}
  \cup {Dir(TRUE, 2, 8, 9), Dir(TRUE, 3, 16, 0), Dir(TRUE, 3, 0, 16)}
  \cup {Dir(TRUE, 1, 0, 17), Dir(TRUE, 2, 16, 0)}

Records ==
  {{Record1(6, k1, text), Record1(13, k, also)} :
     text \in Texts, k \in {k1, k2}, also \in {<<"a", "zero">>, <<"separator", "b", "zero">>}}

Whole == Dir(TRUE, 7, 5, 6)

MCInputs ==
  {FileOf(Layout1, TRUE, 1, <<d, e>>, 0, r) : d \in Entries1, e \in Entries2, r \in Records}
  \cup {FileOf(Layout1, TRUE, 1, <<e, Whole>>, 0, r) : e \in Entries2, r \in Records}
  \cup {FileOf(Layout1, has, rva, <<Whole, Dir(TRUE, 7, 5, 0)>>, 0, r) :
          has \in BOOLEAN, rva \in 0..5, r \in Records}
  \cup {FileOf([Layout1 EXCEPT !.machine = "other"], TRUE, 1, <<Whole>>, 0, r) : r \in Records}
  \cup {FileOf(Layout1, TRUE, 1, debug, rest, r) :
          debug \in {<<>>, <<Whole>>}, rest \in {0, 1}, r \in Records}
  \cup {FileOf([Layout1 EXCEPT !.sections = OneSection], TRUE, 1,
               <<Whole, Dir(FALSE, 1, 0, 0), Dir(TRUE, 5, 0, 13)>>, 0, r) : r \in Records}
==============================================================================
