--------------------------- MODULE MCWatermarkScan ---------------------------
(***************************************************************************)
(* Small files for WatermarkScan: every length is 1 or 2 bytes, a section  *)
(* is a handful, and a file offset is its RVA plus 1.                      *)
(***************************************************************************)
EXTENDS WatermarkScan

Sect(va, vsize, raw, rawSize, exec) ==
  [va |-> va, vsize |-> vsize, raw |-> raw, rawSize |-> rawSize, exec |-> exec]

LayoutOf(sections) ==
  [headersValid |-> TRUE, machine |-> "AMD64", size |-> 10, imageSize |-> 10,
   headerSize |-> 1, tableEnd |-> 1, sections |-> sections]

Code == Sect(1, 5, 2, 5, TRUE)
Data == Sect(6, 2, 7, 2, FALSE)

Usual == LayoutOf(<<Code, Data>>)

\* Two code sections, address space without bytes, and what the parser refuses.
Unusual ==
  {LayoutOf(<<Sect(1, 3, 2, 3, TRUE), Sect(4, 2, 5, 2, TRUE), Data>>),
   LayoutOf(<<Data, Sect(1, 5, 2, 3, TRUE)>>),
   LayoutOf(<<Code, Sect(5, 3, 7, 2, FALSE)>>),
   LayoutOf(<<Code, Sect(5, 3, 7, 3, TRUE)>>),
   LayoutOf(<<Code, Sect(6, 2, 5, 2, FALSE)>>),
   LayoutOf(<<Code, Sect(6, 2, 9, 2, FALSE)>>),
   LayoutOf(<<Code, Sect(9, 2, 7, 2, FALSE)>>),
   LayoutOf(<<Sect(0, 2, 2, 2, TRUE), Data>>),
   LayoutOf(<<>>),
   [Usual EXCEPT !.machine = "ARM64"],
   [Usual EXCEPT !.headersValid = FALSE],
   [Usual EXCEPT !.headerSize = 11],
   [Usual EXCEPT !.tableEnd = 2]}

Fn(begin, end) == [begin |-> begin, end |-> end]

Tables ==
  {<<Fn(1, 6)>>, <<Fn(1, 3), Fn(3, 6)>>, <<Fn(2, 3), Fn(4, 6)>>,
   <<Fn(1, 2), Fn(2, 4), Fn(4, 6)>>, <<Fn(2, 3), Fn(3, 4), Fn(4, 5), Fn(5, 6)>>}

BadTables ==
  {<<>>, <<Fn(2, 6), Fn(1, 2)>>, <<Fn(1, 4), Fn(3, 6)>>, <<Fn(1, 3), Fn(3, 7)>>, <<Fn(3, 3)>>,
   <<Fn(4, 5), Fn(1, 2), Fn(2, 3)>>}

Import(dll, names, ended, firstThunk) ==
  [dll |-> dll, names |-> names, ended |-> ended, firstThunk |-> firstThunk]

One == <<Import("other", <<"other">>, TRUE, 7), Import("GDI32", <<"SetTextColor">>, TRUE, 6)>>
Two == <<Import("GDI32", <<"SetTextColor">>, TRUE, 7),
         Import("GDI32", <<"other", "SetTextColor">>, TRUE, 5)>>

BadImports ==
  {<<>>, <<Import("GDI32", <<"other">>, TRUE, 6)>>,
   <<Import("GDI32", <<"SetTextColor">>, FALSE, 6)>>,
   <<Import("GDI32", <<"SetTextColor", "invalid">>, TRUE, 6)>>,
   <<Import("GDI32", <<"SetTextColor">>, TRUE, 8)>>,
   <<Import("GDI32", <<"SetTextColor">>, TRUE, 6), Import("invalid", <<>>, TRUE, 7)>>}

\* Calls at some positions of the code, through either slot.
CallTo(rva, slot) == [at |-> rva + 1, displacement |-> slot - rva - CallLength]

Calls ==
  {{CallTo(rva, 6) : rva \in at} \cup {CallTo(rva, 7) : rva \in also} :
     at \in SUBSET {2, 4}, also \in SUBSET {1, 3}}

Whites == {{[at |-> rva + 1, length |-> 1] : rva \in at} : at \in SUBSET {1, 2, 3, 4}}

FileOf(layout, pdata, imports, ended, calls, whites) ==
  [headersValid |-> layout.headersValid, machine |-> layout.machine, size |-> layout.size,
   imageSize |-> layout.imageSize, headerSize |-> layout.headerSize,
   tableEnd |-> layout.tableEnd, sections |-> layout.sections, pdata |-> pdata,
   imports |-> imports, importsEnded |-> ended, calls |-> calls, whites |-> whites]

MCInputs ==
  {FileOf(Usual, t, i, TRUE, c, w) : t \in Tables, i \in {One, Two}, c \in Calls, w \in Whites}
  \cup {FileOf(l, t, One, TRUE, {CallTo(2, 6), CallTo(4, 6)}, w) :
          l \in Unusual, t \in Tables, w \in Whites}
  \cup {FileOf(Usual, t, i, e, {CallTo(2, 6)}, w) :
          t \in BadTables \cup {<<Fn(1, 3), Fn(3, 6)>>}, i \in BadImports \cup {One},
          e \in BOOLEAN, w \in Whites}
==============================================================================
