------------------------------ MODULE ConfigFile ------------------------------
(***************************************************************************)
(* The menu's values and the lines in which utui.c keeps them on the disk. *)
(* A file that is cut short anywhere reads like one cut between two lines: *)
(* load_config ignores a line it cannot read whole.  The two forced items  *)
(* come last, and load_config skips them.                                  *)
(***************************************************************************)
EXTENDS Sequences, SequencesExt

\* action_items and settings_items of main.c, and the order they are saved in.
Actions == {"apply", "restore", "enable", "disable", "diagnostics"}
Switches == {"server", "scan", "refresh", "dry"}
Symbols == <<"apply", "restore", "enable", "disable", "diagnostics",
             "server", "scan", "refresh", "dry">>

Values == [action : Actions, on : SUBSET Switches]

Defaults == [action |-> "diagnostics", on |-> {"server", "refresh"}]

Line == [symbol : Actions \cup Switches, y : BOOLEAN]

\* save_walk: "CONFIG_UWD_<symbol>=y", or "# CONFIG_UWD_<symbol> is not set".
Lines(v) ==
  [i \in DOMAIN Symbols |->
     [symbol |-> Symbols[i], y |-> Symbols[i] = v.action \/ Symbols[i] \in v.on]]

\* The last of some lines, if there are any.
Final(I) == {i \in I : \A j \in I : j <= i}

\* The lines that set a radio button: "is not set" says nothing about one.
Pressed(lines) == {i \in DOMAIN lines : lines[i].y /\ lines[i].symbol \in Actions}
About(lines, s) == {i \in DOMAIN lines : lines[i].symbol = s}

Chosen(lines, v) ==
  IF Final(Pressed(lines)) = {} THEN v.action
  ELSE lines[CHOOSE i \in Final(Pressed(lines)) : TRUE].symbol

On(lines) == {s \in Switches : \E i \in Final(About(lines, s)) : lines[i].y}

\* Mutant: load_config without reset_walk.
LoadOnTop(lines, v) ==
  [action |-> Chosen(lines, v),
   on |-> On(lines) \cup {s \in v.on : About(lines, s) = {}}]

\* load_config: reset_walk turns every switch off, but leaves the choice alone;
\* then the last line about a switch, and the last radio button, count.
Load(lines, v) == [action |-> Chosen(lines, v), on |-> On(lines)]
==============================================================================
