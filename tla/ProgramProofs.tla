---------------------------- MODULE ProgramProofs ----------------------------
(***************************************************************************)
(* What is proved of Program: the menu executes only what it has saved,    *)
(* what a configuration file, whole or cut, gives back, that every         *)
(* variable has its type, and that the command left in the Run key is read *)
(* at the next logon as what it was written for.                           *)
(***************************************************************************)
EXTENDS Program, SequenceTheorems, TLAPS

------------------------------------------------------------------------------
(* The configuration file *)

\* The nine lines of a file have the nine symbols, the radio buttons first.
LEMMA SymbolFacts ==
  /\ DOMAIN Symbols = 1..9
  /\ \A i \in 1..9 : Symbols[i] \in IF i <= 5 THEN Actions ELSE Switches
  /\ \A i, j \in 1..9 : Symbols[i] = Symbols[j] => i = j
  /\ \A s \in Actions \cup Switches : \E i \in 1..9 : Symbols[i] = s
<1>1. DOMAIN Symbols = 1..9
  BY DEF Symbols
<1>2. /\ Symbols[1] = "apply" /\ Symbols[2] = "restore" /\ Symbols[3] = "enable"
      /\ Symbols[4] = "disable" /\ Symbols[5] = "diagnostics" /\ Symbols[6] = "server"
      /\ Symbols[7] = "scan" /\ Symbols[8] = "refresh" /\ Symbols[9] = "dry"
  BY DEF Symbols
<1>3. \A i \in 1..9 : i = 1 \/ i = 2 \/ i = 3 \/ i = 4 \/ i = 5 \/ i = 6 \/ i = 7 \/ i = 8 \/ i = 9
  OBVIOUS
<1>4. \A i \in 1..9 : Symbols[i] \in IF i <= 5 THEN Actions ELSE Switches
  BY <1>2, <1>3 DEF Actions, Switches
<1>5. \A i, j \in 1..9 : Symbols[i] = Symbols[j] => i = j
  BY <1>2, <1>3
<1>6. \A s \in Actions \cup Switches : \E i \in 1..9 : Symbols[i] = s
  BY <1>2 DEF Actions, Switches
<1> QED BY <1>1, <1>4, <1>5, <1>6

\* save_walk writes one line about each symbol.
LEMMA LinesType ==
  ASSUME NEW v \in Values
  PROVE  /\ Lines(v) \in Seq(Line) /\ Len(Lines(v)) = 9
         /\ \A i \in 1..9 : /\ Lines(v)[i].symbol = Symbols[i]
                            /\ Lines(v)[i].y <=> Symbols[i] = v.action \/ Symbols[i] \in v.on
<1>1. \A i \in 1..9 : Symbols[i] \in Actions \cup Switches
  BY SymbolFacts
<1>2. Lines(v) = [i \in 1..9 |-> [symbol |-> Symbols[i],
                                  y |-> Symbols[i] = v.action \/ Symbols[i] \in v.on]]
  BY SymbolFacts, Zenon DEF Lines
<1>3. Lines(v) \in [1..9 -> Line]
  BY <1>1, <1>2 DEF Line
<1>4. Lines(v) \in Seq(Line) /\ Len(Lines(v)) = 9
  <2>1. 9 \in Nat
    OBVIOUS
  <2>2. Lines(v) \in Seq(Line)
    BY <1>3, <2>1, SeqDef
  <2>3. DOMAIN Lines(v) = 1..9
    BY <1>3
  <2>4. DOMAIN Lines(v) = 1..Len(Lines(v)) /\ Len(Lines(v)) \in Nat
    BY <2>2, LenProperties
  <2> QED BY <2>2, <2>3, <2>4
<1>5. \A i \in 1..9 : /\ Lines(v)[i].symbol = Symbols[i]
                      /\ Lines(v)[i].y <=> Symbols[i] = v.action \/ Symbols[i] \in v.on
  <2> SUFFICES ASSUME NEW i \in 1..9
               PROVE  /\ Lines(v)[i].symbol = Symbols[i]
                      /\ Lines(v)[i].y <=> Symbols[i] = v.action \/ Symbols[i] \in v.on
    OBVIOUS
  <2> DEFINE set == Symbols[i] = v.action \/ Symbols[i] \in v.on
  <2>1. set \in BOOLEAN /\ Lines(v)[i] = [symbol |-> Symbols[i], y |-> set]
    BY <1>2, Zenon
  <2> HIDE DEF set
  <2>2. Lines(v)[i].symbol = Symbols[i] /\ Lines(v)[i].y = set
    BY <2>1
  <2> QED BY <2>2 DEF set
<1> QED BY <1>4, <1>5

\* A cut file holds the first lines of a whole one.
LEMMA CutLines ==
  ASSUME NEW v \in Values, NEW lines \in Seq(Line), IsPrefix(lines, Lines(v))
  PROVE  /\ Len(lines) <= 9 /\ DOMAIN lines = 1..Len(lines)
         /\ \A i \in DOMAIN lines : i \in 1..9 /\ lines[i] = Lines(v)[i]
<1>1. Len(lines) <= Len(Lines(v)) /\ SubSeq(lines, 1, Len(lines)) = SubSeq(Lines(v), 1, Len(lines))
  BY DEF IsPrefix
<1>2. Lines(v) \in Seq(Line) /\ Len(Lines(v)) = 9
  BY LinesType
<1>3. DOMAIN lines = 1..Len(lines) /\ Len(lines) \in Nat
  OBVIOUS
<1>4. \A i \in 1..Len(lines) : SubSeq(lines, 1, Len(lines))[i] = lines[i]
  BY <1>3
<1>5. \A i \in 1..Len(lines) : SubSeq(Lines(v), 1, Len(lines))[i] = Lines(v)[i]
  BY <1>1, <1>2, <1>3
<1> QED BY <1>1, <1>2, <1>3, <1>4, <1>5

\* load_config leaves an action and a set of switches, whatever the file holds.
LEMMA LoadType ==
  ASSUME NEW lines \in Seq(Line), NEW v \in Values
  PROVE  Load(lines, v) \in Values
<1>1. Chosen(lines, v) \in Actions
  <2>1. CASE Final(Pressed(lines)) = {}
    BY <2>1 DEF Chosen, Values
  <2>2. CASE Final(Pressed(lines)) # {}
    <3>1. (CHOOSE i \in Final(Pressed(lines)) : TRUE) \in Final(Pressed(lines))
      BY <2>2
    <3>2. \A i \in Final(Pressed(lines)) : lines[i].symbol \in Actions
      BY DEF Final, Pressed
    <3> QED BY <2>2, <3>1, <3>2 DEF Chosen
  <2> QED BY <2>1, <2>2
<1>2. On(lines) \subseteq Switches
  BY DEF On
<1> QED BY <1>1, <1>2 DEF Load, Values

\* What load_config makes of a file that save_config has begun, or finished.
LEMMA LoadCut ==
  ASSUME NEW v \in Values, NEW w \in Values,
         NEW lines \in Seq(Line), IsPrefix(lines, Lines(v))
  PROVE  /\ Load(lines, w).on \subseteq v.on
         /\ Load(lines, w).action \in {v.action, w.action}
         /\ lines = Lines(v) => Load(lines, w) = v
<1> DEFINE read == Load(lines, w)
<1>1. v.action \in Actions /\ v.on \subseteq Switches /\ v = [action |-> v.action, on |-> v.on]
  BY DEF Values
<1>2. Actions \cap Switches = {}
  BY DEF Actions, Switches
<1>3. \A i \in DOMAIN lines : /\ i \in 1..9
                              /\ lines[i].symbol = Symbols[i]
                              /\ lines[i].y <=> Symbols[i] = v.action \/ Symbols[i] \in v.on
  <2> SUFFICES ASSUME NEW i \in DOMAIN lines
               PROVE  /\ i \in 1..9 /\ lines[i].symbol = Symbols[i]
                      /\ lines[i].y <=> Symbols[i] = v.action \/ Symbols[i] \in v.on
    OBVIOUS
  <2>1. i \in 1..9 /\ lines[i] = Lines(v)[i]
    BY CutLines
  <2>2. /\ Lines(v)[i].symbol = Symbols[i]
        /\ Lines(v)[i].y <=> Symbols[i] = v.action \/ Symbols[i] \in v.on
    BY <2>1, LinesType
  <2> QED BY <2>1, <2>2
<1>4. read.action = Chosen(lines, w) /\ read.on = On(lines) /\ read = [action |-> Chosen(lines, w), on |-> On(lines)]
  BY DEF Load
<1>5. read.on \subseteq v.on
  <2> SUFFICES ASSUME NEW s \in On(lines) PROVE s \in v.on
    BY <1>4
  <2>1. s \in Switches /\ \E i \in Final(About(lines, s)) : lines[i].y
    BY DEF On
  <2>2. PICK i \in DOMAIN lines : lines[i].symbol = s /\ lines[i].y
    BY <2>1 DEF Final, About
  <2> QED BY <1>1, <1>2, <1>3, <2>1, <2>2
<1>6. \A i \in Pressed(lines) : lines[i].symbol = v.action
  BY <1>1, <1>2, <1>3 DEF Pressed
<1>7. read.action \in {v.action, w.action}
  <2>1. CASE Final(Pressed(lines)) = {}
    BY <1>4, <2>1 DEF Chosen
  <2>2. CASE Final(Pressed(lines)) # {}
    <3>1. (CHOOSE i \in Final(Pressed(lines)) : TRUE) \in Pressed(lines)
      BY <2>2 DEF Final
    <3> QED BY <1>4, <1>6, <2>2, <3>1 DEF Chosen
  <2> QED BY <2>1, <2>2
<1>8. ASSUME lines = Lines(v) PROVE read = v
  <2>1. DOMAIN lines = 1..9
    BY <1>8, LinesType, CutLines
  <2>2. read.action = v.action
    <3>1. PICK i \in 1..9 : Symbols[i] = v.action
      BY <1>1, SymbolFacts
    <3>2. i \in Pressed(lines)
      BY <1>1, <1>3, <2>1, <3>1 DEF Pressed
    <3>3. \A j \in Pressed(lines) : j = i
      BY <1>3, <1>6, <3>1, SymbolFacts DEF Pressed
    <3>4. Final(Pressed(lines)) = {i}
      <4>1. Pressed(lines) = {i}
        BY <3>2, <3>3
      <4>2. i <= i
        OBVIOUS
      <4> QED BY <4>1, <4>2 DEF Final
    <3>5. (CHOOSE j \in Final(Pressed(lines)) : TRUE) = i
      BY <3>4
    <3> QED BY <1>4, <1>6, <3>2, <3>4, <3>5 DEF Chosen
  <2>3. ASSUME NEW s \in v.on PROVE s \in On(lines)
    <3>1. PICK i \in 1..9 : Symbols[i] = s
      BY <1>1, <2>3, SymbolFacts
    <3>2. i \in About(lines, s) /\ lines[i].y
      BY <1>3, <2>1, <2>3, <3>1 DEF About
    <3>3. \A j \in About(lines, s) : j = i
      BY <1>3, <3>1, SymbolFacts DEF About
    <3>4. i \in Final(About(lines, s))
      BY <3>2, <3>3 DEF Final
    <3> QED BY <1>1, <2>3, <3>2, <3>4 DEF On
  <2>4. On(lines) = v.on
    BY <1>4, <1>5, <2>3
  <2> QED BY <1>1, <1>4, <2>2, <2>4
<1> QED BY <1>5, <1>7, <1>8

------------------------------------------------------------------------------
(* The inductive invariant *)

Typed ==
  /\ values \in Values /\ name \in Names /\ disk \in Seq(Line) \cup {Nothing}
  /\ continues \in Values \cup {Nothing}

\* The name is the offered one unless it was edited.
Offered == fits /\ ~touched => name \in {"", "home"}

\* exit_flow writes the configuration, save_as what was offered or edited; while
\* the configuration is being written no menu is promised anything.
Writing ==
  pc = "writing" =>
    /\ asker = "exit" \/ (fits /\ ~touched) => dest = "home"
    /\ dest = "home" => continues = Nothing

Kept == continues # Nothing => disk = Lines(continues)

\* The menu is left for uwd_execute with nothing changed since the save.
Saved ==
  /\ pc = "written" => written = values
  /\ pc = "execute" /\ job.by = "menu" => written = values /\ job = FromMenu

MenuInv == Typed /\ Offered /\ Writing /\ Kept /\ Saved

LEMMA InitMenuInv == Init => MenuInv
<1> SUFFICES ASSUME Init PROVE MenuInv
  OBVIOUS
<1>1. Defaults \in Values
  BY DEF Defaults, Values, Actions, Switches
<1> QED BY <1>1 DEF Init, MenuInv, Typed, Offered, Writing, Kept, Saved, Names

\* A step that leaves the menu, the file and the save alone.
LEMMA QuietStep ==
  ASSUME MenuInv, UNCHANGED <<values, name, touched, disk, fits, continues>>,
         pc' \notin {"writing", "written", "execute"}
  PROVE  MenuInv'
BY DEF MenuInv, Typed, Offered, Writing, Kept, Saved, Names

\* The end of a run, however it ends.
LEMMA EndStep ==
  ASSUME MenuInv, End, UNCHANGED <<disk, fits, continues>>
  PROVE  MenuInv'
<1>1. Defaults \in Values
  BY DEF Defaults, Values, Actions, Switches
<1> QED BY <1>1 DEF MenuInv, Typed, Offered, Writing, Kept, Saved, Names, End

\* fopen, from exit_flow on the configuration and from save_as on the name.
LEMMA TruncateStep ==
  ASSUME MenuInv, NEW file \in Names \ {""}, NEW who, Truncate(file, who),
         who = "exit" \/ (fits /\ ~touched) => file = "home"
  PROVE  MenuInv'
<1>1. CASE Show("box")
  BY <1>1, QuietStep DEF Show, menu, history
<1>2. ASSUME pc' = "writing", dest' = file, asker' = who,
             IF file = "home" THEN disk' = <<>> /\ continues' = Nothing
             ELSE UNCHANGED <<disk, continues>>,
             UNCHANGED <<menu, job, runKey, fits, written, promised>>
      PROVE  MenuInv'
  <2>1. <<>> \in Seq(Line)
    BY EmptySeq
  <2> QED BY <1>2, <2>1 DEF MenuInv, Typed, Offered, Writing, Kept, Saved, Names, menu
<1> QED BY <1>1, <1>2 DEF Truncate

\* fclose: the file is whole, or its first lines are there.
LEMMA CloseStep ==
  ASSUME MenuInv, Close
  PROVE  MenuInv'
<1>1. values \in Values /\ Lines(values) \in Seq(Line)
  BY LinesType DEF MenuInv, Typed
<1>2. /\ pc = "writing" /\ UNCHANGED <<values, name, touched, fits>>
      /\ asker = "exit" \/ (fits /\ ~touched) => dest = "home"
      /\ dest = "home" => continues = Nothing
  BY DEF MenuInv, Writing, Close, menu
<1>3. ASSUME disk' = IF dest = "home" THEN Lines(values) ELSE disk, written' = values,
             continues' = IF asker = "exit" \/ (fits /\ ~touched) THEN values ELSE continues,
             IF asker = "exit" THEN pc' = "execute" /\ job' = FromMenu
             ELSE pc' = "written" /\ UNCHANGED job
      PROVE  MenuInv'
  <2>1. Typed'
    BY <1>1, <1>2, <1>3 DEF MenuInv, Typed
  <2>2. Offered' /\ Writing'
    BY <1>2, <1>3 DEF MenuInv, Offered, Writing
  <2>3. Kept'
    BY <1>2, <1>3 DEF MenuInv, Kept
  <2>4. Saved'
    BY <1>2, <1>3 DEF Saved, FromMenu
  <2> QED BY <2>1, <2>2, <2>3, <2>4 DEF MenuInv
<1>4. ASSUME disk' \in IF dest = "home" THEN Torn ELSE {disk}, pc' = "box",
             UNCHANGED <<job, written, continues>>
      PROVE  MenuInv'
  <2>1. Torn \subseteq Seq(Line)
    <3> SUFFICES ASSUME NEW k \in 0..Len(Symbols)
                 PROVE  SubSeq(Lines(values), 1, k) \in Seq(Line)
      BY DEF Torn
    <3>1. k \in Int /\ k <= 9
      BY Len(Symbols) = 9 DEF Symbols
    <3> QED BY <1>1, <3>1, LinesType
  <2>2. Typed'
    BY <1>1, <1>2, <1>4, <2>1 DEF MenuInv, Typed
  <2> QED BY <1>2, <1>4, <2>2 DEF MenuInv, Typed, Offered, Writing, Kept, Saved
<1> QED BY <1>3, <1>4 DEF Close

\* wmain: a menu begins with what load_config makes of the file.
LEMMA DecideStep ==
  ASSUME MenuInv, Decide
  PROVE  MenuInv'
<1> DEFINE request == [by |-> "arguments", action |-> parse.action, options |-> parse.options]
<1>1. UNCHANGED <<disk, runKey, fits, promised>>
  BY DEF Decide
<1>2. \/ End /\ UNCHANGED continues
      \/ /\ pc' = "execute" /\ job' = request
         /\ UNCHANGED <<values, name, touched, saving, written, continues>>
      \/ /\ pc' = "menu" /\ values' = IF disk = Nothing THEN Defaults ELSE Load(disk, Defaults)
         /\ UNCHANGED <<job, name, touched, saving, written, continues>>
  BY DEF Decide
<1> HIDE DEF request
<1>3. CASE pc' = "execute" /\ job' = request
           /\ UNCHANGED <<values, name, touched, saving, written, continues>>
  <2>1. request.by = "arguments"
    BY DEF request
  <2> QED BY <1>1, <1>3, <2>1 DEF MenuInv, Typed, Offered, Writing, Kept, Saved
<1>4. CASE /\ pc' = "menu" /\ values' = IF disk = Nothing THEN Defaults ELSE Load(disk, Defaults)
           /\ UNCHANGED <<job, name, touched, saving, written, continues>>
  <2>1. Defaults \in Values
    BY DEF Defaults, Values, Actions, Switches
  <2>2. values' \in Values
    BY <1>4, <2>1, LoadType DEF MenuInv, Typed
  <2> QED BY <1>1, <1>4, <2>2 DEF MenuInv, Typed, Offered, Writing, Kept, Saved
<1>5. CASE End /\ UNCHANGED continues
  BY <1>1, <1>5, EndStep
<1> QED BY <1>2, <1>3, <1>4, <1>5

\* The keys that change what the menu shows or holds.
LEMMA EditStep ==
  ASSUME MenuInv, Pick \/ Flip \/ Enter \/ Offer \/ Edit \/ LoadName
  PROVE  MenuInv'
<1>1. CASE Pick
  <2>1. values' \in Values
    BY <1>1, ProgramAssumption DEF Pick, MenuInv, Typed, Values
  <2> QED BY <1>1, <2>1 DEF Pick, At, MenuInv, Typed, Offered, Writing, Kept, Saved, history
<1>2. CASE Flip
  <2>1. values' \in Values
    BY <1>2, ProgramAssumption DEF Flip, MenuInv, Typed, Values
  <2> QED BY <1>2, <2>1 DEF Flip, At, MenuInv, Typed, Offered, Writing, Kept, Saved, history
<1>3. CASE Enter
  BY <1>3, QuietStep DEF Enter, At, history
<1>4. CASE Offer
  BY <1>4 DEF Offer, MenuInv, Typed, Offered, Writing, Kept, Saved, history, Names
<1>5. CASE Edit
  BY <1>5 DEF Edit, At, MenuInv, Typed, Offered, Writing, Kept, Saved, history, Names
<1>6. CASE LoadName
  <2>1. CASE Show("menu") \/ Show("box")
    BY <2>1, QuietStep DEF Show, menu, history
  <2>2. ASSUME NEW lines \in Foreign \cup ({disk} \ {Nothing}), values' = Load(lines, values),
               pc' = "box",
               UNCHANGED <<shown, quit, name, touched, saving, job, disk, runKey, fits, history>>
        PROVE  MenuInv'
    <3>1. lines \in Seq(Line)
      BY ProgramAssumption DEF MenuInv, Typed
    <3>2. values' \in Values
      BY <2>2, <3>1, LoadType DEF MenuInv, Typed
    <3> QED BY <2>2, <3>2 DEF MenuInv, Typed, Offered, Writing, Kept, Saved, history
  <2> QED BY <1>6, <2>1, <2>2 DEF LoadName
<1> QED BY <1>1, <1>2, <1>3, <1>4, <1>5, <1>6

\* Every key keeps the invariant.
LEMMA KeyStep ==
  ASSUME MenuInv, Key
  PROVE  MenuInv'
<1>1. CASE Pick \/ Flip \/ Enter \/ Offer \/ Edit \/ LoadName
  BY <1>1, EditStep
<1>2. CASE Open \/ Search \/ CloseBox
  BY <1>2, QuietStep DEF Open, Search, CloseBox, Show, menu, history
<1>3. CASE Results
  BY <1>3, QuietStep DEF Results, history
<1>4. CASE AnswerExit
  <2>1. CASE Truncate("home", "exit")
    BY <2>1, TruncateStep DEF Names
  <2>2. CASE End /\ UNCHANGED <<disk, runKey, fits, promised, continues>>
    BY <2>2, EndStep
  <2>3. CASE Show("menu")
    BY <2>3, QuietStep DEF Show, menu, history
  <2> QED BY <1>4, <2>1, <2>2, <2>3 DEF AnswerExit
<1>5. CASE AcceptName
  <2>1. CASE name # "" /\ Truncate(name, "save")
    <3>1. name \in Names \ {""} /\ (fits /\ ~touched => name = "home")
      BY <2>1 DEF MenuInv, Typed, Offered
    <3> QED BY <2>1, <3>1, TruncateStep
  <2>2. CASE Show("menu")
    BY <2>2, QuietStep DEF Show, menu, history
  <2> QED BY <1>5, <2>1, <2>2 DEF AcceptName
<1>6. CASE Acknowledge
  BY <1>6 DEF Acknowledge, MenuInv, Typed, Offered, Writing, Kept, Saved, menu, history, FromMenu
<1>7. CASE CtrlC
  BY <1>7 DEF CtrlC, MenuInv, Typed, Offered, Writing, Kept, Saved, saving, history, Dialogs
<1>8. CASE Quit
  <2>1. CASE pc \in Dialogs \ {"written"} /\ Show("menu")
    BY <2>1, QuietStep DEF Show, menu, history
  <2>2. CASE pc = "menu" /\ End /\ UNCHANGED <<disk, runKey, fits, promised, continues>>
    BY <2>2, EndStep
  <2> QED BY <1>8, <2>1, <2>2 DEF Quit
<1> QED BY <1>1, <1>2, <1>3, <1>4, <1>5, <1>6, <1>7, <1>8 DEF Key

LEMMA NextMenuInv == MenuInv /\ [Next]_vars => MenuInv'
<1> SUFFICES ASSUME MenuInv, [Next]_vars PROVE MenuInv'
  OBVIOUS
<1>1. CASE Start \/ Logon \/ Read
  BY <1>1, QuietStep DEF Start, Logon, Launch, Read, menu, history
<1>2. CASE Decide
  BY <1>2, DecideStep
<1>3. CASE Key
  BY <1>3, KeyStep
<1>4. CASE Close
  BY <1>4, CloseStep
<1>5. CASE Work \/ Enable \/ Disable
  BY <1>5, EndStep DEF Work, Enable, Disable, Finish
<1>6. CASE Kill
  BY <1>6, EndStep DEF Kill
<1>7. CASE Meddle
  <2>1. disk' \in Seq(Line) \cup {Nothing}
    BY <1>7, ProgramAssumption DEF Meddle, MenuInv, Typed
  <2> QED BY <1>7, <2>1 DEF Meddle, MenuInv, Typed, Offered, Writing, Kept, Saved, menu, saving
<1>8. CASE UNCHANGED vars
  BY <1>8 DEF vars, menu, saving, history, MenuInv, Typed, Offered, Writing, Kept, Saved, FromMenu
<1> QED BY <1>1, <1>2, <1>3, <1>4, <1>5, <1>6, <1>7, <1>8 DEF Next

\* The inductive invariant of the menu and its file.
THEOREM MenuInvariance == Spec => []MenuInv
BY InitMenuInv, NextMenuInv, PTL DEF Spec

------------------------------------------------------------------------------
(* What follows from it *)

\* Whatever keys come, the menu executes only what this run has saved whole.
THEOREM MenuExecutesTheSaved == Spec => []ExecutedIsSaved
<1>1. MenuInv => ExecutedIsSaved
  <2> SUFFICES ASSUME MenuInv, pc = "execute", job.by = "menu"
               PROVE  /\ written # Nothing /\ job.action = written.action
                      /\ job.options.dry = ("dry" \in written.on)
                      /\ job.options.server = ("server" \in written.on)
                      /\ job.options.refresh = ("refresh" \in written.on)
    BY DEF ExecutedIsSaved
  <2>1. written = values /\ job = FromMenu /\ values \in Values
    BY DEF MenuInv, Saved, Typed
  <2>2. written # Nothing
    BY <2>1, ProgramAssumption
  <2>3. job.action = values.action
    BY <2>1 DEF FromMenu
  <2>4. /\ job.options.dry = ("dry" \in values.on)
        /\ job.options.server = ("server" \in values.on)
        /\ job.options.refresh = ("refresh" \in values.on)
    BY <2>1, Zenon DEF FromMenu
  <2> QED BY <2>1, <2>2, <2>3, <2>4
<1> QED BY <1>1, MenuInvariance, PTL

\* Any file that save_config has begun turns switches off and never on.
THEOREM CutFilesOnlyTurnOff == Spec => []TornOnlyTurnsOff
<1>1. MenuInv => TornOnlyTurnsOff
  BY LoadCut DEF MenuInv, Typed, TornOnlyTurnsOff
<1> QED BY <1>1, MenuInvariance, PTL

\* The next menu begins with what the last Save has written.
THEOREM MenuContinues == Spec => []NextMenuContinues
<1>1. MenuInv => NextMenuContinues
  <2> SUFFICES ASSUME MenuInv, continues # Nothing
               PROVE  disk # Nothing /\ Load(disk, Defaults) = continues
    BY DEF NextMenuContinues
  <2>1. continues \in Values /\ disk = Lines(continues)
    BY DEF MenuInv, Typed, Kept
  <2>2. disk \in Seq(Line) /\ Defaults \in Values
    BY <2>1, LinesType DEF Defaults, Values, Actions, Switches
  <2>3. IsPrefix(disk, Lines(continues))
    BY <2>1, <2>2 DEF IsPrefix
  <2> QED BY <2>1, <2>2, <2>3, LoadCut, ProgramAssumption
<1> QED BY <1>1, MenuInvariance, PTL

------------------------------------------------------------------------------
(* The command line *)

\* A number that is accepted is within the bounds of --wait: negation in the
\* width of an unsigned long is a remainder.
LEMMA WaitType ==
  ASSUME NEW text, ValidWait(text)
  PROVE  Parsed(text) \in 0..MaxWait
<1>1. Number[text] \in Int /\ ULongMax \in Nat
  BY NumberAssumption DEF ValidWait, Parsable
<1>2. Parsed(text) \in 0..ULongMax
  BY <1>1 DEF Parsed
<1> QED BY <1>1, <1>2 DEF ValidWait, MaxWait

\* Every turn of the loop keeps the types of its variables.
LEMMA ReadType ==
  ASSUME NEW p \in Loop, NEW arg
  PROVE  ReadArgument(p, arg) \in Loop
<1>1. p.options \in Options /\ p.named \in Nat
  BY DEF Loop
<1>2. \A w \in 0..MaxWait :
        [p EXCEPT !.waiting = FALSE, !.options.wait = w, !.backend = TRUE] \in Loop
  BY <1>1 DEF Loop, Options
<1>3. TakeWait(p, arg) \in Loop
  <2>1. CASE ValidWait(arg)
    BY <1>2, <2>1, WaitType DEF TakeWait
  <2>2. CASE ~ValidWait(arg)
    BY <2>2 DEF TakeWait, Loop
  <2> QED BY <2>1, <2>2
<1>4. ReadOption(p, arg) \in Loop
  <2>1. CASE arg \in {"--apply", "--restore", "--enable-startup", "--disable-startup", "--diagnostics"}
    <3>1. ActionOf(arg) \in Actions
      BY <2>1 DEF ActionOf, Actions
    <3>2. ReadOption(p, arg) = [p EXCEPT !.action = ActionOf(arg), !.named = p.named + 1]
      BY <2>1 DEF ReadOption
    <3>3. p.named + 1 \in Nat
      BY <1>1
    <3>4. \A n \in Nat, a \in Actions : [p EXCEPT !.action = a, !.named = n] \in Loop
      BY DEF Loop
    <3> QED BY <3>1, <3>2, <3>3, <3>4
  <2>2. CASE arg \in {"--offline", "--experimental-offline-scan", "--dry-run", "--no-refresh", "--quiet"}
    <3>1. /\ [p EXCEPT !.options.server = FALSE, !.backend = TRUE] \in Loop
          /\ [p EXCEPT !.options.scan = TRUE, !.backend = TRUE] \in Loop
          /\ [p EXCEPT !.options.dry = TRUE, !.backend = TRUE] \in Loop
          /\ [p EXCEPT !.options.refresh = FALSE, !.backend = TRUE] \in Loop
          /\ [p EXCEPT !.options.quiet = TRUE, !.backend = TRUE] \in Loop
      BY <1>1 DEF Loop, Options
    <3> QED BY <2>2, <3>1 DEF ReadOption
  <2>3. ASSUME arg \notin {"--apply", "--restore", "--enable-startup", "--disable-startup", "--diagnostics"},
               arg \notin {"--offline", "--experimental-offline-scan", "--dry-run", "--no-refresh", "--quiet"}
        PROVE  ReadOption(p, arg) \in Loop
    <3>1. /\ [p EXCEPT !.waiting = TRUE] \in Loop
          /\ [p EXCEPT !.outcome = "told"] \in Loop
          /\ [p EXCEPT !.outcome = "error"] \in Loop
      BY DEF Loop
    <3> QED BY <2>3, <3>1 DEF ReadOption
  <2> QED BY <2>1, <2>2, <2>3
<1> QED BY <1>3, <1>4 DEF ReadArgument

\* The elements of a concatenation.
LEMMA ConcatElements ==
  ASSUME NEW S, NEW s \in Seq(S), NEW t \in Seq(S)
  PROVE  /\ s \o t \in Seq(S) /\ Len(s \o t) = Len(s) + Len(t)
         /\ \A i \in 1..Len(s) : (s \o t)[i] = s[i]
         /\ \A i \in 1..Len(t) : (s \o t)[Len(s) + i] = t[i]
<1> DEFINE c == s \o t
<1>1. Len(s) \in Nat /\ Len(t) \in Nat
  OBVIOUS
<1>2. c \in Seq(S) /\ Len(c) = Len(s) + Len(t)
  OBVIOUS
<1>3. \A i \in 1..(Len(s) + Len(t)) : c[i] = IF i <= Len(s) THEN s[i] ELSE t[i - Len(s)]
  BY ConcatProperties, Zenon
<1> HIDE DEF c
<1>4. \A i \in 1..Len(s) : c[i] = s[i]
  BY <1>1, <1>3
<1>5. \A i \in 1..Len(t) : c[Len(s) + i] = t[i]
  <2> TAKE i \in 1..Len(t)
  <2>1. Len(s) + i \in 1..(Len(s) + Len(t)) /\ ~(Len(s) + i <= Len(s)) /\ (Len(s) + i) - Len(s) = i
    BY <1>1
  <2> QED BY <1>3, <2>1
<1> QED BY <1>2, <1>4, <1>5, Zenon DEF c

\* The elements of short sequences.
LEMMA ShortSequences ==
  ASSUME NEW S, NEW x \in S, NEW y \in S, NEW z \in S, NEW w \in S
  PROVE  <<>> \in Seq(S) /\ <<x>> \in Seq(S) /\ <<x, y, z, w>> \in Seq(S)
OBVIOUS

\* The command of set_startup: four arguments, and one for each choice against a
\* default.
LEMMA CommandFacts ==
  ASSUME NEW c, c.server \in BOOLEAN, c.refresh \in BOOLEAN
  PROVE  /\ LogonCommand(c) \in Seq(Text)
         /\ Len(LogonCommand(c)) = 4 + (IF c.server THEN 0 ELSE 1) + (IF c.refresh THEN 0 ELSE 1)
         /\ LogonCommand(c)[1] = "--apply" /\ LogonCommand(c)[2] = "--quiet"
         /\ LogonCommand(c)[3] = "--wait" /\ LogonCommand(c)[4] = "60"
         /\ ~c.server => LogonCommand(c)[5] = "--offline"
         /\ ~c.refresh => LogonCommand(c)[IF c.server THEN 5 ELSE 6] = "--no-refresh"
<1> DEFINE a == <<"--apply", "--quiet", "--wait", "60">>
           b == IF c.server THEN <<>> ELSE <<"--offline">>
           d == IF c.refresh THEN <<>> ELSE <<"--no-refresh">>
<1>1. \A s \in Text : <<>> \in Seq(Text) /\ <<s>> \in Seq(Text)
  BY ShortSequences, Zenon
<1>2. \A s1, s2, s3, s4 \in Text : <<s1, s2, s3, s4>> \in Seq(Text)
  BY ShortSequences, Zenon
<1>3. /\ "--apply" \in Text /\ "--quiet" \in Text /\ "--wait" \in Text /\ "60" \in Text
      /\ "--offline" \in Text /\ "--no-refresh" \in Text
  BY TextAssumption, Zenon
<1>4. a \in Seq(Text)
  BY <1>2, <1>3, Zenon
<1>5. <<"--offline">> \in Seq(Text) /\ <<"--no-refresh">> \in Seq(Text) /\ <<>> \in Seq(Text)
  BY <1>1, <1>3, Zenon
<1>6. b \in Seq(Text) /\ d \in Seq(Text)
  BY <1>5, Zenon
<1>7. Len(a) = 4 /\ a[1] = "--apply" /\ a[2] = "--quiet" /\ a[3] = "--wait" /\ a[4] = "60"
  OBVIOUS
<1>8. Len(b) = (IF c.server THEN 0 ELSE 1) /\ (~c.server => b[1] = "--offline")
  OBVIOUS
<1>9. Len(d) = (IF c.refresh THEN 0 ELSE 1) /\ (~c.refresh => d[1] = "--no-refresh")
  OBVIOUS
<1> DEFINE ab == a \o b
           abd == ab \o d
<1>10. LogonCommand(c) = abd
  BY Zenon DEF LogonCommand
<1>0. \A s, t \in Seq(Text) :
        /\ s \o t \in Seq(Text) /\ Len(s \o t) = Len(s) + Len(t)
        /\ \A i \in 1..Len(s) : (s \o t)[i] = s[i]
        /\ \A i \in 1..Len(t) : (s \o t)[Len(s) + i] = t[i]
  BY ConcatElements
<1> HIDE DEF a, b, d, ab, abd
<1>11. /\ ab \in Seq(Text) /\ Len(ab) = Len(a) + Len(b)
       /\ \A i \in 1..Len(a) : ab[i] = a[i]
       /\ \A i \in 1..Len(b) : ab[Len(a) + i] = b[i]
  BY <1>0, <1>4, <1>6, Zenon DEF ab
<1>12. /\ abd \in Seq(Text) /\ Len(abd) = Len(ab) + Len(d)
       /\ \A i \in 1..Len(ab) : abd[i] = ab[i]
       /\ \A i \in 1..Len(d) : abd[Len(ab) + i] = d[i]
  BY <1>0, <1>6, <1>11, Zenon DEF abd
<1>13. /\ ab[1] = a[1] /\ ab[2] = a[2] /\ ab[3] = a[3] /\ ab[4] = a[4]
       /\ Len(ab) = 4 + Len(b) /\ (~c.server => ab[5] = "--offline")
  BY <1>7, <1>8, <1>11
<1>14. Len(b) \in 0..1 /\ Len(d) \in 0..1
  BY <1>8, <1>9
<1>15. /\ abd[1] = a[1] /\ abd[2] = a[2] /\ abd[3] = a[3] /\ abd[4] = a[4]
       /\ Len(abd) = 4 + Len(b) + Len(d)
  BY <1>12, <1>13, <1>14
<1>16. ~c.server => abd[5] = "--offline"
  BY <1>8, <1>12, <1>13, <1>14
<1>17. ~c.refresh => abd[IF c.server THEN 5 ELSE 6] = "--no-refresh"
  BY <1>8, <1>9, <1>12, <1>13, <1>14
<1> QED BY <1>7, <1>8, <1>9, <1>10, <1>12, <1>15, <1>16, <1>17

\* Where the loop is before it reads the k-th argument of that command.
After(p, c, k) ==
  /\ p \in Loop /\ p.outcome = "reading" /\ p.action = "apply"
  /\ p.waiting <=> k = 4
  /\ p.named = IF k > 1 THEN 1 ELSE 0
  /\ p.options.server <=> c.server \/ k <= 5
  /\ p.options.refresh <=> c.refresh \/ k <= IF c.server THEN 5 ELSE 6
  /\ p.options.quiet <=> k > 2
  /\ p.options.wait = IF k > 4 THEN 60 ELSE 0
  /\ ~p.options.scan /\ ~p.options.dry

\* Before anything is read.
LEMMA CommandStart ==
  ASSUME NEW c
  PROVE  After(Fresh, c, 1)
<1>1. Fresh.options \in Options
  BY DEF Fresh, Options, MaxWait
<1>2. Fresh \in Loop
  BY <1>1 DEF Fresh, Loop, Actions
<1> QED BY <1>2 DEF After, Fresh

\* One turn of the loop on that command.
LEMMA CommandTurn ==
  ASSUME NEW c, c.server \in BOOLEAN, c.refresh \in BOOLEAN,
         NEW k \in 1..Len(LogonCommand(c)), NEW p, After(p, c, k)
  PROVE  After(ReadArgument(p, LogonCommand(c)[k]), c, k + 1)
<1> DEFINE arg == LogonCommand(c)[k]
           q == ReadArgument(p, arg)
<1>1. p \in Loop /\ p.options \in Options /\ q \in Loop
  BY ReadType DEF After, Loop
<1>2. CASE k = 1
  <2>1. arg = "--apply" /\ ~p.waiting /\ p.named = 0
    BY <1>2, CommandFacts DEF After
  <2> HIDE DEF arg
  <2>2. q = [p EXCEPT !.action = "apply", !.named = p.named + 1]
    BY <2>1 DEF ReadArgument, ReadOption, ActionOf
  <2> HIDE DEF q
  <2>3. /\ q.action = "apply" /\ q.named = 1 /\ q.outcome = p.outcome
        /\ q.waiting = p.waiting /\ q.options = p.options
    BY <1>1, <2>1, <2>2 DEF Loop
  <2>4. After(q, c, 2)
    BY <1>1, <1>2, <2>3 DEF After
  <2> QED BY <1>2, <2>4 DEF q, arg
<1>3. CASE k = 2
  <2>1. arg = "--quiet" /\ ~p.waiting
    BY <1>3, CommandFacts DEF After
  <2> HIDE DEF arg
  <2>2. q = [p EXCEPT !.options.quiet = TRUE, !.backend = TRUE]
    BY <2>1 DEF ReadArgument, ReadOption
  <2> HIDE DEF q
  <2>3. /\ q.action = p.action /\ q.named = p.named /\ q.outcome = p.outcome
        /\ q.waiting = p.waiting /\ q.options = [p.options EXCEPT !.quiet = TRUE]
    BY <1>1, <2>1, <2>2 DEF Loop
  <2>4. /\ q.options.quiet /\ q.options.server = p.options.server /\ q.options.scan = p.options.scan
        /\ q.options.refresh = p.options.refresh /\ q.options.dry = p.options.dry
        /\ q.options.wait = p.options.wait
    BY <1>1, <2>3 DEF Options
  <2>5. After(q, c, 3)
    BY <1>1, <1>3, <2>3, <2>4 DEF After
  <2> QED BY <1>3, <2>5 DEF q, arg
<1>4. CASE k = 3
  <2>1. arg = "--wait" /\ ~p.waiting
    BY <1>4, CommandFacts DEF After
  <2> HIDE DEF arg
  <2>2. q = [p EXCEPT !.waiting = TRUE]
    BY <2>1 DEF ReadArgument, ReadOption
  <2> HIDE DEF q
  <2>3. /\ q.action = p.action /\ q.named = p.named /\ q.outcome = p.outcome
        /\ q.waiting /\ q.options = p.options
    BY <1>1, <2>2 DEF Loop
  <2>4. After(q, c, 4)
    BY <1>1, <1>4, <2>3 DEF After
  <2> QED BY <1>4, <2>4 DEF q, arg
<1>5. CASE k = 4
  <2>1. arg = "60" /\ p.waiting
    BY <1>5, CommandFacts DEF After
  <2>2. ValidWait("60") /\ Parsed("60") = 60
    BY NumberAssumption DEF ValidWait, Parsable, Parsed, MaxWait
  <2> HIDE DEF arg
  <2>3. q = [p EXCEPT !.waiting = FALSE, !.options.wait = 60, !.backend = TRUE]
    BY <2>1, <2>2 DEF ReadArgument, TakeWait
  <2> HIDE DEF q
  <2>4. /\ q.action = p.action /\ q.named = p.named /\ q.outcome = p.outcome
        /\ ~q.waiting /\ q.options = [p.options EXCEPT !.wait = 60]
    BY <1>1, <2>3 DEF Loop
  <2>5. /\ q.options.quiet = p.options.quiet /\ q.options.server = p.options.server
        /\ q.options.scan = p.options.scan /\ q.options.refresh = p.options.refresh
        /\ q.options.dry = p.options.dry /\ q.options.wait = 60
    BY <1>1, <2>4 DEF Options
  <2>6. After(q, c, 5)
    BY <1>1, <1>5, <2>4, <2>5 DEF After
  <2> QED BY <1>5, <2>6 DEF q, arg
<1>6. CASE k = 5 /\ ~c.server
  <2>1. arg = "--offline" /\ ~p.waiting
    BY <1>6, CommandFacts DEF After
  <2> HIDE DEF arg
  <2>2. q = [p EXCEPT !.options.server = FALSE, !.backend = TRUE]
    BY <2>1 DEF ReadArgument, ReadOption
  <2> HIDE DEF q
  <2>3. /\ q.action = p.action /\ q.named = p.named /\ q.outcome = p.outcome
        /\ q.waiting = p.waiting /\ q.options = [p.options EXCEPT !.server = FALSE]
    BY <1>1, <2>2 DEF Loop
  <2>4. /\ q.options.quiet = p.options.quiet /\ ~q.options.server
        /\ q.options.scan = p.options.scan /\ q.options.refresh = p.options.refresh
        /\ q.options.dry = p.options.dry /\ q.options.wait = p.options.wait
    BY <1>1, <2>3 DEF Options
  <2>5. After(q, c, 6)
    BY <1>1, <1>6, <2>3, <2>4 DEF After
  <2> QED BY <1>6, <2>5 DEF q, arg
<1>7. CASE ~c.refresh /\ k = IF c.server THEN 5 ELSE 6
  <2>1. k > 4 /\ k \in Nat /\ arg = "--no-refresh" /\ ~p.waiting
    BY <1>7, CommandFacts DEF After
  <2> HIDE DEF arg
  <2>2. q = [p EXCEPT !.options.refresh = FALSE, !.backend = TRUE]
    BY <2>1 DEF ReadArgument, ReadOption
  <2> HIDE DEF q
  <2>3. /\ q.action = p.action /\ q.named = p.named /\ q.outcome = p.outcome
        /\ q.waiting = p.waiting /\ q.options = [p.options EXCEPT !.refresh = FALSE]
    BY <1>1, <2>2 DEF Loop
  <2>4. /\ q.options.quiet = p.options.quiet /\ q.options.server = p.options.server
        /\ q.options.scan = p.options.scan /\ ~q.options.refresh
        /\ q.options.dry = p.options.dry /\ q.options.wait = p.options.wait
    BY <1>1, <2>3 DEF Options
  <2>5. After(q, c, k + 1)
    BY <1>1, <1>7, <2>1, <2>3, <2>4 DEF After
  <2> QED BY <2>5 DEF q, arg
<1>8. \/ k = 1 \/ k = 2 \/ k = 3 \/ k = 4
      \/ (k = 5 /\ ~c.server) \/ (~c.refresh /\ k = IF c.server THEN 5 ELSE 6)
  BY CommandFacts
<1> QED BY <1>2, <1>3, <1>4, <1>5, <1>6, <1>7, <1>8

\* The whole command has been read: one action, with what it was written for.
LEMMA CommandEnd ==
  ASSUME NEW c, c.server \in BOOLEAN, c.refresh \in BOOLEAN,
         NEW p, After(p, c, Len(LogonCommand(c)) + 1)
  PROVE  /\ p.named = 1 /\ p.action = "apply"
         /\ p.options = [server |-> c.server, refresh |-> c.refresh,
                         scan |-> FALSE, dry |-> FALSE, quiet |-> TRUE, wait |-> 60]
<1> DEFINE n == Len(LogonCommand(c)) + 1
<1>1. n = 5 + (IF c.server THEN 0 ELSE 1) + (IF c.refresh THEN 0 ELSE 1)
  BY CommandFacts
<1>2. p.options \in Options
  BY DEF After, Loop
<1> HIDE DEF n
<1>3. /\ p.named = 1 /\ p.action = "apply"
      /\ ~p.options.scan /\ ~p.options.dry /\ p.options.quiet /\ p.options.wait = 60
      /\ p.options.server <=> c.server
      /\ p.options.refresh <=> c.refresh
  BY <1>1 DEF After, n
<1>4. p.options = [server |-> c.server, refresh |-> c.refresh,
                   scan |-> FALSE, dry |-> FALSE, quiet |-> TRUE, wait |-> 60]
  BY <1>2, <1>3 DEF Options
<1> QED BY <1>3, <1>4

------------------------------------------------------------------------------
(* The types *)

\* What is executed has the options of a request.
TypeInv == TypeOK /\ (pc = "execute" => job \in Job)

LEMMA FreshType == Fresh \in Loop /\ Defaults \in Values
<1>1. Fresh.options \in Options
  BY DEF Fresh, Options, MaxWait
<1>2. Fresh \in Loop
  BY <1>1 DEF Fresh, Loop, Actions
<1> QED BY <1>2 DEF Defaults, Values, Actions, Switches

LEMMA InitTypeInv == Init => TypeInv
<1> SUFFICES ASSUME Init PROVE TypeInv
  OBVIOUS
<1>1. <<>> \in Seq(Text)
  BY EmptySeq
<1> QED BY <1>1, FreshType DEF Init, TypeInv, TypeOK, Labels, Names

\* options_from_tui
LEMMA FromMenuType ==
  ASSUME TypeOK
  PROVE  FromMenu \in Job
<1> DEFINE o == [server |-> "server" \in values.on, scan |-> "scan" \in values.on,
                 refresh |-> "refresh" \in values.on, dry |-> "dry" \in values.on,
                 quiet |-> FALSE, wait |-> 0]
<1>1. o \in Options
  BY DEF Options, MaxWait
<1>2. values.action \in Actions
  BY DEF TypeOK, Values
<1>3. FromMenu = [by |-> "menu", action |-> values.action, options |-> o]
  BY DEF FromMenu
<1> HIDE DEF o
<1> QED BY <1>1, <1>2, <1>3 DEF Job

LEMMA EndType ==
  ASSUME TypeInv, End, disk' \in Seq(Line) \cup {Nothing},
         runKey' \in {NoKey, NoValue} \cup Seq(Text), fits' = fits,
         continues' \in Values \cup {Nothing}, promised' \in Promises \cup {Nothing}
  PROVE  TypeInv'
<1>1. <<>> \in Seq(Text)
  BY EmptySeq
<1> QED BY <1>1, FreshType DEF End, TypeInv, TypeOK, Labels, Names

LEMMA ShowType ==
  ASSUME TypeInv, NEW label \in Labels \ {"execute"}, Show(label)
  PROVE  TypeInv'
BY DEF Show, TypeInv, TypeOK, reading, menu, saving, history

\* wmain.
LEMMA WmainType ==
  ASSUME TypeInv, Start \/ Logon \/ Read \/ Decide
  PROVE  TypeInv'
<1>1. CASE Start
  <2>1. argv' \in Seq(Text)
    BY <1>1, ProgramAssumption DEF Start, Launch
  <2> QED BY <1>1, <2>1 DEF Start, Launch, TypeInv, TypeOK, Labels, menu, saving, history
<1>2. CASE Logon
  <2>1. argv' \in Seq(Text)
    BY <1>2 DEF Logon, Launch, TypeInv, TypeOK
  <2> QED BY <1>2, <2>1 DEF Logon, Launch, TypeInv, TypeOK, Labels, menu, saving, history
<1>3. CASE Read
  <2>1. parse' \in Loop /\ index' \in Nat
    BY <1>3, ReadType DEF Read, TypeInv, TypeOK
  <2> QED BY <1>3, <2>1 DEF Read, TypeInv, TypeOK, menu, saving, history
<1>4. CASE Decide
  <2> DEFINE request == [by |-> "arguments", action |-> parse.action, options |-> parse.options]
  <2>1. UNCHANGED <<disk, runKey, fits, promised>>
    BY <1>4 DEF Decide
  <2>2. CASE End /\ UNCHANGED continues
    BY <2>1, <2>2, EndType DEF TypeInv, TypeOK, End
  <2>3. ASSUME argv' = <<>>, index' = 1, parse' = Fresh,
               UNCHANGED <<atLogon, shown, quit, name, touched, saving, written, continues>>,
               \/ pc' = "execute" /\ job' = request /\ UNCHANGED values
               \/ /\ pc' = "menu" /\ UNCHANGED job
                  /\ values' = IF disk = Nothing THEN Defaults ELSE Load(disk, Defaults)
        PROVE  TypeInv'
    <3>1. <<>> \in Seq(Text)
      BY EmptySeq
    <3>2. request \in Job
      <4>1. parse.action \in Actions /\ parse.options \in Options
        BY DEF TypeInv, TypeOK, Loop
      <4> QED BY <4>1 DEF Job
    <3>3. (IF disk = Nothing THEN Defaults ELSE Load(disk, Defaults)) \in Values
      BY FreshType, LoadType DEF TypeInv, TypeOK
    <3> HIDE DEF request
    <3>4. values' \in Values /\ pc' \in {"execute", "menu"} /\ job' \in Job \cup {Nothing}
          /\ (pc' = "execute" => job' \in Job)
      BY <2>3, <3>2, <3>3 DEF TypeInv, TypeOK
    <3> QED BY <2>1, <2>3, <3>1, <3>4, FreshType DEF TypeInv, TypeOK, Labels, saving
  <2>4. \/ End /\ UNCHANGED continues
        \/ /\ argv' = <<>> /\ index' = 1 /\ parse' = Fresh
           /\ UNCHANGED <<atLogon, shown, quit, name, touched, saving, written, continues>>
           /\ \/ pc' = "execute" /\ job' = request /\ UNCHANGED values
              \/ /\ pc' = "menu" /\ UNCHANGED job
                 /\ values' = IF disk = Nothing THEN Defaults ELSE Load(disk, Defaults)
    BY <1>4 DEF Decide
  <2> QED BY <2>2, <2>3, <2>4
<1> QED BY <1>1, <1>2, <1>3, <1>4

\* fopen and fclose.
LEMMA TruncateType ==
  ASSUME TypeInv, NEW file \in Names, NEW who \in {"exit", "save"}, Truncate(file, who)
  PROVE  TypeInv'
<1>1. CASE Show("box")
  BY <1>1, ShowType DEF Labels, Dialogs
<1>2. ASSUME pc' = "writing", dest' = file, asker' = who,
             disk' \in {<<>>, disk}, continues' \in {Nothing, continues},
             UNCHANGED <<reading, menu, job, runKey, fits, written, promised>>
      PROVE  TypeInv'
  <2>1. <<>> \in Seq(Line)
    BY EmptySeq
  <2>2. disk' \in Seq(Line) \cup {Nothing} /\ continues' \in Values \cup {Nothing}
    BY <1>2, <2>1 DEF TypeInv, TypeOK
  <2>3. pc' \in Labels /\ pc' # "execute" /\ dest' \in Names /\ asker' \in {"exit", "save"}
    BY <1>2 DEF Labels
  <2> QED BY <1>2, <2>2, <2>3 DEF TypeInv, TypeOK, reading, menu
<1> QED BY <1>1, <1>2 DEF Truncate

LEMMA CloseType ==
  ASSUME TypeInv, Close
  PROVE  TypeInv'
<1>1. values \in Values /\ Lines(values) \in Seq(Line) /\ FromMenu \in Job
  BY LinesType, FromMenuType DEF TypeInv, TypeOK
<1>2. Torn \subseteq Seq(Line)
  <2> SUFFICES ASSUME NEW k \in 0..Len(Symbols)
               PROVE  SubSeq(Lines(values), 1, k) \in Seq(Line)
    BY DEF Torn
  <2>1. k \in Int /\ k <= 9
    BY Len(Symbols) = 9 DEF Symbols
  <2> QED BY <1>1, <2>1, LinesType
<1>3. disk' \in Seq(Line) \cup {Nothing}
  BY <1>1, <1>2 DEF Close, TypeInv, TypeOK
<1>4. pc' \in {"execute", "written", "box"} /\ job' \in {job, FromMenu}
      /\ (pc' = "execute" => job' = FromMenu)
  BY DEF Close
<1>5. written' \in {values, written} /\ continues' \in {values, continues}
  BY DEF Close
<1>6. dest' = Nothing /\ asker' = Nothing /\ UNCHANGED <<reading, menu, runKey, fits, promised>>
  BY DEF Close
<1>7. pc' \in Labels /\ job' \in Job \cup {Nothing} /\ (pc' = "execute" => job' \in Job)
  BY <1>1, <1>4 DEF TypeInv, TypeOK, Labels, Dialogs
<1>8. written' \in Values \cup {Nothing} /\ continues' \in Values \cup {Nothing}
  BY <1>1, <1>5 DEF TypeInv, TypeOK
<1> QED BY <1>3, <1>6, <1>7, <1>8 DEF TypeInv, TypeOK, reading, menu

\* save_as and its inputbox.
LEMMA NameType ==
  ASSUME TypeInv, pc' \in Labels \ {"execute"}, name' \in Names, touched' \in BOOLEAN,
         UNCHANGED <<reading, shown, values, quit, saving, job, disk, runKey, fits, history>>
  PROVE  TypeInv'
BY DEF TypeInv, TypeOK, reading, saving, history

\* The keys.
LEMMA KeyType ==
  ASSUME TypeInv, Key
  PROVE  TypeInv'
<1>1. CASE Pick
  <2>1. values' \in Values
    BY <1>1, ProgramAssumption DEF Pick, TypeInv, TypeOK, Values
  <2> QED BY <1>1, <2>1 DEF Pick, At, TypeInv, TypeOK, reading, saving, history
<1>2. CASE Flip
  <2>1. values' \in Values
    BY <1>2, ProgramAssumption DEF Flip, TypeInv, TypeOK, Values
  <2> QED BY <1>2, <2>1 DEF Flip, At, TypeInv, TypeOK, reading, saving, history
<1>3. CASE Enter
  BY <1>3 DEF Enter, At, TypeInv, TypeOK, reading, saving, history
<1>4. CASE Open \/ Search \/ CloseBox
  BY <1>4, ShowType DEF Open, Search, CloseBox, Labels, Dialogs
<1>5. CASE Offer
  <2>1. pc' \in Labels \ {"execute"} /\ name' \in Names
    BY <1>5 DEF Offer, TypeInv, TypeOK, Labels, Dialogs, Names
  <2> QED BY <1>5, <2>1, NameType DEF Offer, TypeInv, TypeOK
<1>6. CASE Edit
  <2>1. name' \in Names /\ touched' \in BOOLEAN /\ pc' \in Labels \ {"execute"}
    BY <1>6 DEF Edit, At, Labels, Dialogs
  <2> QED BY <1>6, <2>1, NameType DEF Edit
<1>7. CASE AnswerExit
  <2>1. CASE Truncate("home", "exit")
    BY <2>1, TruncateType DEF Names
  <2>2. CASE End /\ UNCHANGED <<disk, runKey, fits, promised, continues>>
    BY <2>2, EndType DEF TypeInv, TypeOK
  <2>3. CASE Show("menu")
    BY <2>3, ShowType DEF Labels
  <2> QED BY <1>7, <2>1, <2>2, <2>3 DEF AnswerExit
<1>8. CASE AcceptName
  BY <1>8, TruncateType, ShowType DEF AcceptName, Labels, TypeInv, TypeOK
<1>9. CASE Acknowledge
  BY <1>9, FromMenuType DEF Acknowledge, TypeInv, TypeOK, Labels, reading, menu, saving, history
<1>10. CASE LoadName
  <2>1. CASE Show("menu") \/ Show("box")
    BY <2>1, ShowType DEF Labels, Dialogs
  <2>2. ASSUME NEW lines \in Foreign \cup ({disk} \ {Nothing}), values' = Load(lines, values),
               pc' = "box",
               UNCHANGED <<reading, shown, quit, name, touched, saving, job, disk, runKey, fits, history>>
        PROVE  TypeInv'
    <3>1. lines \in Seq(Line)
      BY ProgramAssumption DEF TypeInv, TypeOK
    <3>2. values' \in Values
      BY <2>2, <3>1, LoadType DEF TypeInv, TypeOK
    <3>3. pc' \in Labels /\ pc' # "execute"
      BY <2>2 DEF Labels, Dialogs
    <3> QED BY <2>2, <3>2, <3>3 DEF TypeInv, TypeOK, reading, saving, history
  <2> QED BY <1>10, <2>1, <2>2 DEF LoadName
<1>11. CASE Results
  BY <1>11 DEF Results, At, TypeInv, TypeOK, Labels, reading, saving, history
<1>12. CASE CtrlC
  BY <1>12 DEF CtrlC, TypeInv, TypeOK, reading, saving, history
<1>13. CASE Quit
  <2>1. CASE Show("menu")
    BY <2>1, ShowType DEF Labels
  <2>2. CASE End /\ UNCHANGED <<disk, runKey, fits, promised, continues>>
    BY <2>2, EndType DEF TypeInv, TypeOK
  <2> QED BY <1>13, <2>1, <2>2 DEF Quit
<1> QED BY <1>1, <1>2, <1>3, <1>4, <1>5, <1>6, <1>7, <1>8, <1>9, <1>10, <1>11, <1>12, <1>13 DEF Key

\* uwd_execute.
LEMMA ExecuteType ==
  ASSUME TypeInv, Work \/ Enable \/ Disable
  PROVE  TypeInv'
<1>1. End /\ UNCHANGED <<disk, fits, continues>>
  BY DEF Work, Enable, Disable, Finish
<1>2. runKey' \in {NoKey, NoValue} \cup Seq(Text) /\ promised' \in Promises \cup {Nothing}
  <2>1. CASE Work \/ Disable
    BY <2>1 DEF Work, Disable, TypeInv, TypeOK
  <2>2. CASE Enable
    <3>1. job.options \in Options
      BY <2>2 DEF Enable, TypeInv, Job
    <3>2. job.options.server \in BOOLEAN /\ job.options.refresh \in BOOLEAN
      BY <3>1 DEF Options
    <3>3. LogonCommand(job.options) \in Seq(Text) /\ Promise(job.options) \in Promises
      BY <3>2, CommandFacts DEF Promise, Promises
    <3> QED BY <2>2, <3>3 DEF Enable, TypeInv, TypeOK
  <2> QED BY <2>1, <2>2
<1> QED BY <1>1, <1>2, EndType DEF TypeInv, TypeOK

LEMMA NextTypeInv == TypeInv /\ [Next]_vars => TypeInv'
<1> SUFFICES ASSUME TypeInv, [Next]_vars PROVE TypeInv'
  OBVIOUS
<1>1. CASE Start \/ Logon \/ Read \/ Decide
  BY <1>1, WmainType
<1>2. CASE Key
  BY <1>2, KeyType
<1>3. CASE Close
  BY <1>3, CloseType
<1>4. CASE Work \/ Enable \/ Disable
  BY <1>4, ExecuteType
<1>5. CASE Kill
  BY <1>5, EndType DEF Kill, TypeInv, TypeOK
<1>6. CASE Meddle
  <2>1. disk' \in Seq(Line) \cup {Nothing}
    BY <1>6, ProgramAssumption DEF Meddle, TypeInv, TypeOK
  <2>2. runKey' \in {NoKey, NoValue} \cup Seq(Text) /\ promised' \in Promises \cup {Nothing}
        /\ continues' \in Values \cup {Nothing}
    BY <1>6 DEF Meddle, TypeInv, TypeOK
  <2> QED BY <1>6, <2>1, <2>2 DEF Meddle, TypeInv, TypeOK, reading, menu, saving
<1>7. CASE UNCHANGED vars
  BY <1>7 DEF vars, TypeInv, TypeOK, reading, menu, saving, history
<1> QED BY <1>1, <1>2, <1>3, <1>4, <1>5, <1>6, <1>7 DEF Next

THEOREM TypeInvariance == Spec => []TypeInv
BY InitTypeInv, NextTypeInv, PTL DEF Spec

\* Every variable has its type, whatever the arguments, the keys and the files
\* are: --wait in particular is at most 600 in every request.
THEOREM ProgramTypes == Spec => []TypeOK
<1>1. TypeInv => TypeOK
  BY DEF TypeInv
<1> QED BY <1>1, TypeInvariance, PTL

------------------------------------------------------------------------------
(* The logon *)

\* The value of the Run key is the command for what was promised.
KeyKept ==
  /\ promised = Nothing <=> runKey \in {NoKey, NoValue}
  /\ promised # Nothing => promised \in Promises /\ runKey = LogonCommand(promised)

\* Outside the loop its variables are those it begins with.
LoopReset == pc # "arguments" => index = 1 /\ parse = Fresh

\* A logon goes through the loop on the command, and then does what it says.
LogonRuns ==
  atLogon =>
    /\ promised # Nothing /\ pc \in {"arguments", "execute"}
    /\ pc = "arguments" =>
         /\ argv = LogonCommand(promised) /\ index \in 1..(Len(argv) + 1)
         /\ After(parse, promised, index)
    /\ pc = "execute" =>
         /\ job.action = "apply"
         /\ job.options = [server |-> promised.server, refresh |-> promised.refresh,
                           scan |-> FALSE, dry |-> FALSE, quiet |-> TRUE, wait |-> 60]

LogonInv == KeyKept /\ LoopReset /\ LogonRuns

LEMMA PromiseFields ==
  /\ \A c \in Promises : c # Nothing /\ c.server \in BOOLEAN /\ c.refresh \in BOOLEAN
  /\ \A c \in Promises : LogonCommand(c) \in Seq(Text) /\ LogonCommand(c) \notin {NoKey, NoValue}
<1>1. \A c \in Promises : c # Nothing /\ c.server \in BOOLEAN /\ c.refresh \in BOOLEAN
  BY ProgramAssumption DEF Promises
<1>2. \A c \in Promises : LogonCommand(c) \in Seq(Text)
  BY <1>1, CommandFacts
<1> QED BY <1>1, <1>2, ProgramAssumption

\* A run that ends leaves nothing of the logon but the Run key.
LEMMA EndLogon ==
  ASSUME End, KeyKept'
  PROVE  LogonInv'
BY DEF End, LogonInv, LoopReset, LogonRuns

\* The menu has nothing to do with it.
LEMMA MenuLogon ==
  ASSUME LogonInv, pc \notin {"arguments", "execute"}, pc' # "arguments",
         UNCHANGED <<reading, runKey, promised>>
  PROVE  LogonInv'
BY DEF LogonInv, KeyKept, LoopReset, LogonRuns, reading

LEMMA KeyLogon ==
  ASSUME LogonInv, Key \/ Close
  PROVE  LogonInv'
<1>1. CASE Pick \/ Flip \/ Enter \/ Offer \/ Edit
  BY <1>1, MenuLogon DEF Pick, Flip, Enter, Offer, Edit, At, history
<1>2. CASE Open \/ Search \/ CloseBox
  BY <1>2, MenuLogon DEF Open, Search, CloseBox, At, Show, history
<1>3. CASE AnswerExit
  <2>1. CASE Truncate("home", "exit") \/ Show("menu")
    BY <1>3, <2>1, MenuLogon DEF AnswerExit, Truncate, At, Show, history
  <2>2. CASE End /\ UNCHANGED <<disk, runKey, fits, promised, continues>>
    BY <2>2, EndLogon DEF LogonInv, KeyKept
  <2> QED BY <1>3, <2>1, <2>2 DEF AnswerExit
<1>4. CASE AcceptName
  BY <1>4, MenuLogon DEF AcceptName, Truncate, At, Show, history
<1>5. CASE Acknowledge
  BY <1>5, MenuLogon DEF Acknowledge, history
<1>6. CASE LoadName
  BY <1>6, MenuLogon DEF LoadName, At, Show, history
<1>7. CASE Results
  BY <1>7, MenuLogon DEF Results, At, history
<1>8. CASE CtrlC
  BY <1>8, MenuLogon DEF CtrlC, Dialogs, history
<1>9. CASE Quit
  <2>1. CASE pc \in Dialogs \ {"written"} /\ Show("menu")
    BY <2>1, MenuLogon DEF Dialogs, Show, history
  <2>2. CASE End /\ UNCHANGED <<disk, runKey, fits, promised, continues>>
    BY <2>2, EndLogon DEF LogonInv, KeyKept
  <2> QED BY <1>9, <2>1, <2>2 DEF Quit
<1>10. CASE Close
  BY <1>10, MenuLogon DEF Close
<1> QED BY <1>1, <1>2, <1>3, <1>4, <1>5, <1>6, <1>7, <1>8, <1>9, <1>10 DEF Key

\* wmain reads its arguments.
LEMMA WmainLogon ==
  ASSUME TypeInv, LogonInv, Start \/ Logon \/ Read
  PROVE  LogonInv'
<1>1. CASE Start
  BY <1>1 DEF Start, Launch, LogonInv, KeyKept, LoopReset, LogonRuns, history
<1>2. CASE Logon
  <2>1. /\ promised # Nothing /\ promised \in Promises /\ runKey = LogonCommand(promised)
        /\ index = 1 /\ parse = Fresh
    BY <1>2 DEF Logon, Launch, LogonInv, KeyKept, LoopReset
  <2>2. /\ pc' = "arguments" /\ argv' = runKey
        /\ UNCHANGED <<index, parse, runKey, promised>>
    BY <1>2 DEF Logon, Launch, history
  <2>3. 1 \in 1..(Len(runKey) + 1)
    BY <2>1, PromiseFields, CommandFacts
  <2>4. After(Fresh, promised, 1)
    BY CommandStart
  <2> QED BY <2>1, <2>2, <2>3, <2>4 DEF LogonInv, KeyKept, LoopReset, LogonRuns
<1>3. CASE Read
  <2>1. pc = "arguments" /\ UNCHANGED <<pc, argv, atLogon, runKey, promised>>
        /\ index <= Len(argv) /\ parse' = ReadArgument(parse, argv[index]) /\ index' = index + 1
    BY <1>3 DEF Read, history
  <2>2. KeyKept' /\ LoopReset'
    BY <2>1 DEF LogonInv, KeyKept, LoopReset
  <2>3. ASSUME atLogon
        PROVE  index' \in 1..(Len(argv) + 1) /\ After(parse', promised, index')
    <3>1. /\ promised \in Promises /\ argv = LogonCommand(promised)
          /\ index \in 1..(Len(argv) + 1) /\ After(parse, promised, index)
      BY <2>1, <2>3 DEF LogonInv, KeyKept, LogonRuns
    <3>2. Len(argv) \in Nat
      BY DEF TypeInv, TypeOK
    <3>3. index \in 1..Len(LogonCommand(promised)) /\ index + 1 \in 1..(Len(argv) + 1)
      BY <2>1, <3>1, <3>2
    <3> QED BY <2>1, <3>1, <3>3, CommandTurn, PromiseFields
  <2>4. LogonRuns'
    BY <2>1, <2>3 DEF LogonInv, LogonRuns
  <2> QED BY <2>2, <2>4 DEF LogonInv
<1> QED BY <1>1, <1>2, <1>3

\* wmain decides.
LEMMA DecideLogon ==
  ASSUME TypeInv, LogonInv, Decide
  PROVE  LogonInv'
<1>1. pc = "arguments" /\ (parse.outcome = "reading" => index > Len(argv))
      /\ UNCHANGED <<runKey, promised>>
  BY DEF Decide
<1>2. KeyKept'
  BY <1>1 DEF LogonInv, KeyKept
<1>3. CASE End
  BY <1>2, <1>3, EndLogon
<1>4. ASSUME ~Refused(parse), UNCHANGED atLogon, index' = 1, parse' = Fresh,
             IF parse.named = 1
             THEN /\ pc' = "execute"
                  /\ job' = [by |-> "arguments", action |-> parse.action, options |-> parse.options]
             ELSE pc' = "menu"
      PROVE  LogonInv'
  <2>1. LoopReset'
    BY <1>4 DEF LoopReset
  <2>2. ASSUME atLogon
        PROVE  /\ promised # Nothing /\ pc' = "execute"
               /\ job'.action = "apply"
               /\ job'.options = [server |-> promised.server, refresh |-> promised.refresh,
                                  scan |-> FALSE, dry |-> FALSE, quiet |-> TRUE, wait |-> 60]
    <3>1. /\ promised # Nothing /\ promised \in Promises /\ argv = LogonCommand(promised)
          /\ index \in 1..(Len(argv) + 1) /\ After(parse, promised, index)
      BY <1>1, <2>2 DEF LogonInv, KeyKept, LogonRuns
    <3>2. Len(argv) \in Nat /\ parse.outcome = "reading"
      BY <3>1 DEF TypeInv, TypeOK, After
    <3>3. index = Len(LogonCommand(promised)) + 1
      BY <1>1, <3>1, <3>2
    <3>4. promised.server \in BOOLEAN /\ promised.refresh \in BOOLEAN
      BY <3>1, PromiseFields
    <3>5. /\ parse.named = 1 /\ parse.action = "apply"
          /\ parse.options = [server |-> promised.server, refresh |-> promised.refresh,
                              scan |-> FALSE, dry |-> FALSE, quiet |-> TRUE, wait |-> 60]
      BY <3>1, <3>3, <3>4, CommandEnd
    <3>6. /\ pc' = "execute"
          /\ job' = [by |-> "arguments", action |-> parse.action, options |-> parse.options]
      BY <1>4, <3>5
    <3>7. job'.action = parse.action /\ job'.options = parse.options
      BY <3>6
    <3> QED BY <3>1, <3>5, <3>6, <3>7, Zenon
  <2>3. LogonRuns'
    BY <1>1, <1>4, <2>2 DEF LogonRuns
  <2> QED BY <1>2, <2>1, <2>3 DEF LogonInv
<1> QED BY <1>3, <1>4 DEF Decide

\* set_startup.
LEMMA ExecuteLogon ==
  ASSUME TypeInv, LogonInv, Work \/ Enable \/ Disable
  PROVE  LogonInv'
<1>1. End
  BY DEF Work, Enable, Disable, Finish
<1>2. KeyKept'
  <2>1. CASE UNCHANGED <<runKey, promised>>
    BY <2>1 DEF LogonInv, KeyKept
  <2>2. CASE runKey = NoKey /\ runKey' = NoValue /\ UNCHANGED promised
    BY <2>2 DEF LogonInv, KeyKept
  <2>3. CASE Enable /\ runKey' = LogonCommand(job.options) /\ promised' = Promise(job.options)
    <3>1. job.options \in Options
      BY <2>3 DEF Enable, TypeInv, Job
    <3>2. /\ promised' \in Promises
          /\ promised'.server = job.options.server /\ promised'.refresh = job.options.refresh
      BY <2>3, <3>1 DEF Promise, Promises, Options
    <3>3. runKey' = LogonCommand(promised')
      BY <2>3, <3>2 DEF LogonCommand
    <3> QED BY <3>2, <3>3, PromiseFields DEF KeyKept
  <2>4. CASE runKey' = NoValue /\ promised' = Nothing
    BY <2>4 DEF KeyKept
  <2> QED BY <2>1, <2>2, <2>3, <2>4 DEF Work, Enable, Disable
<1> QED BY <1>1, <1>2, EndLogon

LEMMA InitLogonInv == Init => LogonInv
BY DEF Init, LogonInv, KeyKept, LoopReset, LogonRuns

LEMMA NextLogonInv == TypeInv /\ LogonInv /\ [Next]_vars => LogonInv'
<1> SUFFICES ASSUME TypeInv, LogonInv, [Next]_vars PROVE LogonInv'
  OBVIOUS
<1>1. CASE Start \/ Logon \/ Read
  BY <1>1, WmainLogon
<1>2. CASE Decide
  BY <1>2, DecideLogon
<1>3. CASE Key \/ Close
  BY <1>3, KeyLogon
<1>4. CASE Work \/ Enable \/ Disable
  BY <1>4, ExecuteLogon
<1>5. CASE Kill
  BY <1>5, EndLogon DEF Kill, LogonInv, KeyKept
<1>6. CASE Meddle
  BY <1>6 DEF Meddle, LogonInv, KeyKept, LoopReset, LogonRuns, reading
<1>7. CASE UNCHANGED vars
  BY <1>7 DEF vars, history, reading, LogonInv, KeyKept, LoopReset, LogonRuns
<1> QED BY <1>1, <1>2, <1>3, <1>4, <1>5, <1>6, <1>7 DEF Next

THEOREM LogonInvariance == Spec => []LogonInv
BY InitLogonInv, NextLogonInv, TypeInvariance, PTL DEF Spec

\* The command that set_startup writes is one wmain accepts: read to its end at
\* the next logon, it applies with the choices it was written for.
THEOREM LogonsRepeat == Spec => []LogonRepeatsChoice
<1>1. TypeInv /\ LogonInv => LogonRepeatsChoice
  <2> SUFFICES ASSUME TypeInv, LogonInv PROVE LogonRepeatsChoice
    OBVIOUS
  <2>1. promised = Nothing <=> runKey \in {NoKey, NoValue}
    BY DEF LogonInv, KeyKept
  <2>2. atLogon => pc \in {"arguments", "execute"}
    BY DEF LogonInv, LogonRuns
  <2>3. ASSUME atLogon, pc = "arguments"
        PROVE  /\ parse.outcome = "reading"
               /\ index > Len(argv) => ~Refused(parse) /\ parse.named = 1
    <3>1. /\ promised \in Promises /\ argv = LogonCommand(promised)
          /\ index \in 1..(Len(argv) + 1) /\ After(parse, promised, index)
      BY <2>3 DEF LogonInv, KeyKept, LogonRuns
    <3>2. Len(argv) \in Nat /\ parse.outcome = "reading"
      BY <3>1 DEF TypeInv, TypeOK, After
    <3>3. index > Len(argv) => index = Len(LogonCommand(promised)) + 1
      BY <3>1, <3>2
    <3>4. promised.server \in BOOLEAN /\ promised.refresh \in BOOLEAN
      BY <3>1, PromiseFields
    <3>5. ASSUME index > Len(argv)
          PROVE  ~Refused(parse) /\ parse.named = 1
      <4>1. After(parse, promised, Len(LogonCommand(promised)) + 1)
        BY <3>1, <3>3, <3>5
      <4>2. parse.named = 1 /\ parse.action = "apply" /\ ~parse.options.scan /\ ~parse.waiting
            /\ parse.outcome = "reading"
        BY <3>2, <3>4, <4>1, CommandFacts DEF After
      <4> QED BY <4>2 DEF Refused
    <3> QED BY <3>2, <3>5
  <2>4. ASSUME atLogon, pc = "execute"
        PROVE  /\ job.action = "apply"
               /\ job.options = [server |-> promised.server, refresh |-> promised.refresh,
                                 scan |-> FALSE, dry |-> FALSE, quiet |-> TRUE, wait |-> 60]
    BY <2>4 DEF LogonInv, LogonRuns
  <2> QED BY <2>1, <2>2, <2>3, <2>4 DEF LogonRepeatsChoice
<1> QED BY <1>1, TypeInvariance, LogonInvariance, PTL
==============================================================================
