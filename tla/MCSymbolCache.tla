---------------------------- MODULE MCSymbolCache ----------------------------
(* Symbol tables for SymbolCache. *)
EXTENDS SymbolCache, TLC

Sym(name, kind, rva, exec) == [name |-> name, kind |-> kind, rva |-> rva, exec |-> exec]

Paint == Sym("paint", "publicCode", 8, TRUE)

\* One function of the name looked for, as every shipped PDB has.
OneFunction == {{Paint, Sym("other", "function", 4, TRUE)}}

\* Tables that identify one function, none, or several, also two of the same
\* name and kind at different addresses.
AllTables ==
  OneFunction \cup
  {{}, {Sym("paint", "data", 4, TRUE)}, {Sym("paint", "function", 6, TRUE)},
   {Sym("paint", "function", 4, FALSE)}, {Paint, Sym("paint", "function", 8, TRUE)},
   {Paint, Sym("paint", "publicCode", 12, TRUE)},
   {Paint, Sym("ec", "publicCode", 4, TRUE)},
   {Paint, Sym("paint", "function", 6, FALSE)}, {Paint, Sym("paint", "data", 8, TRUE)}}

Symmetry == Permutations(Procs)
=============================================================================
