------------------------------- MODULE Program -------------------------------
(***************************************************************************)
(* The program from its start to its end, again and again: wmain on a      *)
(* command line, at a logon on the command of the Run key, or without      *)
(* arguments on the menu of utui.c, and what it then passes to             *)
(* uwd_execute.  The configuration file and the Run key outlive a run.     *)
(*                                                                         *)
(* In the menu any key may come at any time, a mistyped one, one of a held *)
(* key, or one of a cut escape sequence alike.  The arrow keys reach every *)
(* line that can be selected, so the cursor is on any one.  Ctrl-C sets a  *)
(* flag, which every later wait for a key returns; a file is written in    *)
(* place; any call may fail, and the program may be killed between any two *)
(* steps.  One run at a time.                                              *)
(***************************************************************************)
EXTENDS CommandLine

CONSTANTS
  CommandLines,  \* the arguments somebody may start the program with
  Picked,        \* the actions somebody selects in the menu
  Flipped,       \* the switches somebody changes
  Foreign,       \* what other files, and files others have changed, hold
  NoKey, NoValue,  \* there is no Run key, or no value in it
  Nothing        \* no file, no job, nothing to say

ASSUME ProgramAssumption ==
  /\ CommandLines \subseteq Seq(Text)
  /\ Picked \subseteq Actions /\ Flipped \subseteq Switches
  /\ Foreign \subseteq Seq(Line)
  /\ Nothing \notin Seq(Line) \cup Values \cup [server : BOOLEAN, refresh : BOOLEAN] \cup STRING
  /\ NoKey \notin Seq(Text) /\ NoValue \notin Seq(Text) /\ NoKey # NoValue

VARIABLES
  pc,
  argv,       \* the arguments of wmain, without the program's name
  index,      \* the argument to be read next
  parse,      \* what the ones before it have said
  shown,      \* the menu on top of g_stack
  values,     \* main_items and settings_items
  quit,       \* g_quit
  name,       \* the static fn of save_as: "", the configuration's path, or another
  dest,       \* the file save_config has open, by the same names
  asker,      \* who has called it: exit_flow or save_as
  job,        \* the arguments of uwd_execute
  disk,       \* the lines of uwd.config
  runKey,     \* the Run key, its value, or that value's arguments
  fits,       \* whether the configuration's path has less than 128 bytes
  touched,    \* history: the name that save_as offers was edited
  atLogon,    \* history: it is Windows that has started the program, at a logon
  written,    \* history: the values this run has saved whole
  promised,   \* history: what the startup that was reported enabled was asked for
  continues   \* history: the values the next menu has to begin with

reading == <<argv, index, parse, atLogon>>
menu == <<shown, values, quit, name, touched>>
saving == <<dest, asker>>
history == <<written, promised, continues>>
vars == <<pc, reading, menu, saving, job, disk, runKey, fits, history>>

Dialogs == {"exit?", "save name", "load name", "search", "results", "box", "written"}
Labels == Dialogs \cup {"off", "arguments", "menu", "writing", "execute"}
Names == {"", "home", "other"}
Promises == [server : BOOLEAN, refresh : BOOLEAN]
Promise(options) == [server |-> options.server, refresh |-> options.refresh]
Job == [by : {"arguments", "menu"}, action : Actions, options : Options]

\* options_from_tui
FromMenu ==
  [by |-> "menu", action |-> values.action,
   options |-> [server |-> "server" \in values.on, scan |-> "scan" \in values.on,
                refresh |-> "refresh" \in values.on, dry |-> "dry" \in values.on,
                quiet |-> FALSE, wait |-> 0]]

Init ==
  /\ pc = "off" /\ argv = <<>> /\ index = 1 /\ parse = Fresh /\ atLogon = FALSE
  /\ shown = "root" /\ values = Defaults
  /\ quit = FALSE /\ name = "" /\ touched = FALSE
  /\ dest = Nothing /\ asker = Nothing /\ job = Nothing
  /\ disk = Nothing /\ runKey = NoKey /\ fits \in BOOLEAN
  /\ written = Nothing /\ promised = Nothing /\ continues = Nothing

\* The process ends: all but the file and the Run key is gone.
End ==
  /\ pc' = "off" /\ argv' = <<>> /\ index' = 1 /\ parse' = Fresh /\ atLogon' = FALSE
  /\ shown' = "root" /\ values' = Defaults
  /\ quit' = FALSE /\ name' = "" /\ touched' = FALSE
  /\ dest' = Nothing /\ asker' = Nothing /\ job' = Nothing /\ written' = Nothing

Show(label) ==
  pc' = label /\ UNCHANGED <<reading, menu, saving, job, disk, runKey, fits, history>>

------------------------------------------------------------------------------
(* wmain *)

Launch(args) ==
  /\ pc = "off" /\ pc' = "arguments"
  /\ argv' = args
  /\ UNCHANGED <<index, parse, menu, saving, job, disk, runKey, fits, history>>

Start == atLogon' = FALSE /\ \E args \in CommandLines : Launch(args)

Logon == runKey \notin {NoKey, NoValue} /\ atLogon' = TRUE /\ Launch(runKey)

\* One turn of the loop over the arguments.
Read ==
  /\ pc = "arguments" /\ parse.outcome = "reading" /\ index <= Len(argv)
  /\ parse' = ReadArgument(parse, argv[index])
  /\ index' = index + 1
  /\ UNCHANGED <<pc, argv, atLogon, menu, saving, job, disk, runKey, fits, history>>

\* The loop is left: errors, --version and --help end the program; otherwise it
\* does the one action that was named, or begins the menu (run_tui, and ut_run up
\* to main_loop).  Nothing looks at the arguments afterwards.
Decide ==
  /\ pc = "arguments" /\ (parse.outcome = "reading" => index > Len(argv))
  /\ \/ /\ parse.outcome = "told" \/ Refused(parse)
        /\ End /\ UNCHANGED continues
     \/ /\ parse.outcome = "reading" /\ ~Refused(parse)
        /\ IF parse.named = 1
           THEN /\ pc' = "execute"
                /\ job' = [by |-> "arguments", action |-> parse.action, options |-> parse.options]
                /\ UNCHANGED values
           ELSE /\ pc' = "menu"
                /\ values' = IF disk = Nothing THEN Defaults ELSE Load(disk, Defaults)
                /\ UNCHANGED job
        /\ argv' = <<>> /\ index' = 1 /\ parse' = Fresh
        /\ UNCHANGED <<atLogon, shown, quit, name, touched, saving, written, continues>>
  /\ UNCHANGED <<disk, runKey, fits, promised>>

------------------------------------------------------------------------------
(* Keys in the menu *)

At(label) == pc = label /\ ~quit

\* Enter sets the radio button and leaves the list, Space only sets it.
Pick ==
  /\ At("menu") /\ shown = "action"
  /\ \E a \in Picked : values' = [values EXCEPT !.action = a]
  /\ shown' \in {"root", "action"}
  /\ UNCHANGED <<reading, pc, quit, name, touched, saving, job, disk, runKey, fits, history>>

\* Enter, Space, y or n; the forced items do not change.
Flip ==
  /\ At("menu") /\ shown = "settings"
  /\ \E s \in Flipped :
       values' = [values EXCEPT !.on = IF s \in @ THEN @ \ {s} ELSE @ \cup {s}]
  /\ UNCHANGED <<reading, pc, shown, quit, name, touched, saving, job, disk, runKey, fits, history>>

\* Enter on a submenu; Esc or Exit in one.
Enter ==
  /\ At("menu")
  /\ IF shown = "root" THEN shown' \in {"action", "settings"} ELSE shown' = "root"
  /\ UNCHANGED <<reading, pc, values, quit, name, touched, saving, job, disk, runKey, fits, history>>

\* Esc or Exit in the main menu, Load, Search, Help.
Open ==
  /\ At("menu")
  /\ \/ shown = "root" /\ Show("exit?")
     \/ \E label \in {"load name", "search", "box"} : Show(label)

\* Mutant: the configuration's path is cut earlier than where it is too long.
OfferCut ==
  /\ At("menu")
  /\ pc' = "save name"
  /\ name' = IF name = "" THEN "other" ELSE name
  /\ UNCHANGED <<reading, shown, values, quit, touched, saving, job, disk, runKey, fits, history>>

\* Save: save_as offers the configuration's path, cut to 127 bytes.
Offer ==
  /\ At("menu")
  /\ pc' = "save name"
  /\ name' = IF name # "" THEN name ELSE IF fits THEN "home" ELSE "other"
  /\ UNCHANGED <<reading, shown, values, quit, touched, saving, job, disk, runKey, fits, history>>

\* inputbox edits the name in its place, whether or not it is then accepted.
Edit ==
  /\ At("save name")
  /\ name' \in Names \ {name} /\ (name' = "home" => fits)
  /\ touched' = TRUE
  /\ UNCHANGED <<reading, pc, shown, values, quit, saving, job, disk, runKey, fits, history>>

------------------------------------------------------------------------------
(* save_config, from exit_flow and from save_as *)

\* fopen with "w" empties the file, or fails and leaves it alone.
Truncate(file, who) ==
  \/ /\ pc' = "writing" /\ dest' = file /\ asker' = who
     /\ IF file = "home" THEN disk' = <<>> /\ continues' = Nothing
        ELSE UNCHANGED <<disk, continues>>
     /\ UNCHANGED <<reading, menu, job, runKey, fits, written, promised>>
  \/ Show("box")

\* Yes, or Enter on it; No; Esc.
AnswerExit ==
  /\ At("exit?")
  /\ \/ Truncate("home", "exit")
     \/ End /\ UNCHANGED <<disk, runKey, fits, promised, continues>>
     \/ Show("menu")

\* Ok, which an empty name turns into a cancellation; Esc.
AcceptName ==
  /\ At("save name")
  /\ \/ name # "" /\ Truncate(name, "save")
     \/ Show("menu")

\* What fclose leaves when it fails: the first lines.
Torn == {SubSeq(Lines(values), 1, k) : k \in 0..Len(Symbols)}

\* Mutant: exit_flow and save_as do not look at what save_config returns.
CloseAnyway ==
  /\ pc = "writing"
  /\ disk' \in IF dest = "home" THEN Torn ELSE {disk}
  /\ IF asker = "exit" THEN pc' = "execute" /\ job' = FromMenu ELSE pc' = "written" /\ UNCHANGED job
  /\ dest' = Nothing /\ asker' = Nothing
  /\ UNCHANGED <<reading, menu, runKey, fits, history>>

Close ==
  /\ pc = "writing"
  /\ \/ /\ disk' = IF dest = "home" THEN Lines(values) ELSE disk
        /\ written' = values
        /\ continues' = IF asker = "exit" \/ (fits /\ ~touched) THEN values ELSE continues
        /\ IF asker = "exit"
           THEN pc' = "execute" /\ job' = FromMenu
           ELSE pc' = "written" /\ UNCHANGED job
     \/ /\ disk' \in IF dest = "home" THEN Torn ELSE {disk}
        /\ pc' = "box"
        /\ UNCHANGED <<job, written, continues>>
  /\ dest' = Nothing /\ asker' = Nothing
  /\ UNCHANGED <<reading, menu, runKey, fits, promised>>

\* "Configuration written": any key that closes the box, Ctrl-C among them,
\* and exit_after_save ends the menu with the selected operation.
Acknowledge ==
  /\ pc = "written"
  /\ pc' = "execute" /\ job' = FromMenu
  /\ UNCHANGED <<reading, menu, saving, disk, runKey, fits, history>>

------------------------------------------------------------------------------
(* The other dialogs *)

\* load_as: a file that cannot be opened changes nothing.
LoadName ==
  /\ At("load name")
  /\ \/ Show("menu") \/ Show("box")
     \/ \E lines \in Foreign \cup ({disk} \ {Nothing}) :
          /\ values' = Load(lines, values)
          /\ pc' = "box"
          /\ UNCHANGED <<reading, shown, quit, name, touched, saving, job, disk, runKey, fits, history>>

Search == At("search") /\ \E label \in {"menu", "results"} : Show(label)

\* jump_to rebuilds the stack for the menu that holds the item.
Results ==
  /\ At("results")
  /\ pc' = "menu" /\ shown' \in {"root", "action", "settings"}
  /\ UNCHANGED <<reading, values, quit, name, touched, saving, job, disk, runKey, fits, history>>

CloseBox == At("box") /\ Show("menu")

CtrlC ==
  /\ pc \in Dialogs \cup {"menu", "writing"} /\ ~quit
  /\ quit' = TRUE
  /\ UNCHANGED <<reading, pc, shown, values, name, touched, saving, job, disk, runKey, fits, history>>

\* K_QUIT closes any dialog; main_loop returns, and nothing is executed.
Quit ==
  /\ quit
  /\ \/ pc \in Dialogs \ {"written"} /\ Show("menu")
     \/ pc = "menu" /\ End /\ UNCHANGED <<disk, runKey, fits, promised, continues>>

------------------------------------------------------------------------------
(* uwd_execute *)

Finish == End /\ UNCHANGED <<disk, fits, continues>>

\* Apply, Restore and Diagnostics, which leave the file and the Run key alone.
Work ==
  /\ pc = "execute" /\ job.action \in {"apply", "restore", "diagnostics"}
  /\ Finish /\ UNCHANGED <<runKey, promised>>

\* Mutant: a dry run enables startup.
EnableDry ==
  /\ pc = "execute" /\ job.action = "enable"
  /\ runKey' = LogonCommand(job.options)
  /\ IF job.options.dry THEN UNCHANGED promised ELSE promised' = Promise(job.options)
  /\ Finish

\* set_startup(1): it fails before the registry, or does not touch it in a dry
\* run, creates the key, and sets the value.
Enable ==
  /\ pc = "execute" /\ job.action = "enable"
  /\ \/ UNCHANGED <<runKey, promised>>
     \/ ~job.options.dry /\ runKey = NoKey /\ runKey' = NoValue /\ UNCHANGED promised
     \/ /\ ~job.options.dry
        /\ runKey' = LogonCommand(job.options) /\ promised' = Promise(job.options)
  /\ Finish

\* set_startup(0): without a key or a value there is nothing to do.
Disable ==
  /\ pc = "execute" /\ job.action = "disable"
  /\ \/ UNCHANGED <<runKey, promised>>
     \/ /\ ~job.options.dry /\ runKey # NoKey
        /\ runKey' = NoValue /\ promised' = Nothing
  /\ Finish

------------------------------------------------------------------------------
(* The system around the program *)

\* The process is killed.  A file it has just emptied stays empty.
Kill == pc # "off" /\ End /\ UNCHANGED <<disk, runKey, fits, promised, continues>>

\* Between two runs somebody removes or changes the file, or the Run key.
Meddle ==
  /\ pc = "off"
  /\ \/ /\ disk' \in Foreign \cup {Nothing} /\ continues' = Nothing
        /\ UNCHANGED <<runKey, promised>>
     \/ /\ runKey' \in {NoKey, NoValue} /\ promised' = Nothing
        /\ UNCHANGED <<disk, continues>>
  /\ UNCHANGED <<pc, reading, menu, saving, job, fits, written>>

Key ==
  \/ Pick \/ Flip \/ Enter \/ Open \/ Offer \/ Edit \/ AnswerExit \/ AcceptName
  \/ Acknowledge \/ LoadName \/ Search \/ Results \/ CloseBox \/ CtrlC \/ Quit

Next ==
  \/ Start \/ Logon \/ Read \/ Decide \/ Key \/ Close \/ Work \/ Enable \/ Disable \/ Kill \/ Meddle

Spec == Init /\ [][Next]_vars

------------------------------------------------------------------------------
(* Properties *)

\* Every variable has its type; --wait in particular is within its bounds
\* whatever number, negative or too large, was asked for.
TypeOK ==
  /\ pc \in Labels /\ argv \in Seq(Text) /\ index \in Nat /\ parse \in Loop /\ atLogon \in BOOLEAN
  /\ shown \in {"root", "action", "settings"}
  /\ values \in Values /\ quit \in BOOLEAN
  /\ name \in Names /\ touched \in BOOLEAN
  /\ dest \in Names \cup {Nothing} /\ asker \in {"exit", "save", Nothing}
  /\ job \in Job \cup {Nothing}
  /\ disk \in Seq(Line) \cup {Nothing}
  /\ runKey \in {NoKey, NoValue} \cup Seq(Text)
  /\ fits \in BOOLEAN
  /\ written \in Values \cup {Nothing} /\ continues \in Values \cup {Nothing}
  /\ promised \in Promises \cup {Nothing}

\* "Save executes the selected action; Exit cancels" (main.c): whatever keys
\* come in whatever order, the menu hands uwd_execute exactly the action and the
\* settings that a save of this very run has written whole.  After a failed save,
\* a cancelled dialog, a No, or Ctrl-C before the save, nothing is executed.
ExecutedIsSaved ==
  pc = "execute" /\ job.by = "menu" =>
    /\ written # Nothing /\ job.action = written.action
    /\ job.options.dry = ("dry" \in written.on)
    /\ job.options.server = ("server" \in written.on)
    /\ job.options.refresh = ("refresh" \in written.on)

\* Loading what a killed or failing save of any values has left gives every
\* switch as it was saved or off, never on by accident or as it was before, and
\* the action as it was saved or as it was before.  (Off also for Dry run: see
\* the README.)  A whole file gives back all that was saved.
TornOnlyTurnsOff ==
  pc \in {"off", "load name"} /\ disk # Nothing =>
    \A v \in Values : IsPrefix(disk, Lines(v)) =>
      LET read == Load(disk, values) IN
      /\ read.on \subseteq v.on
      /\ read.action \in {v.action, values.action}
      /\ disk = Lines(v) => read = v

\* The menu begins with what the last Save wrote, when it was answered with Yes
\* or its name was accepted as offered and the configuration's path is shorter
\* than 128 bytes, whatever has run, failed or been killed in between, until a
\* later save or somebody else changes the file.
NextMenuContinues ==
  continues # Nothing => disk # Nothing /\ Load(disk, Defaults) = continues

\* While startup is enabled a logon starts the program, and then its arguments
\* are read to their end and accepted, as Apply, quietly, with 60 seconds of
\* waiting and the choices of server and refresh with which it was last reported
\* enabled, never a dry run and never the experimental candidate; once it is
\* reported disabled, or was never enabled but in a dry run, nothing runs.
LogonRepeatsChoice ==
  /\ promised = Nothing <=> runKey \in {NoKey, NoValue}
  /\ atLogon => pc \in {"arguments", "execute"}
  /\ atLogon /\ pc = "arguments" =>
       /\ parse.outcome = "reading"
       /\ index > Len(argv) => ~Refused(parse) /\ parse.named = 1
  /\ atLogon /\ pc = "execute" =>
       /\ job.action = "apply"
       /\ job.options = [server |-> promised.server, refresh |-> promised.refresh,
                         scan |-> FALSE, dry |-> FALSE, quiet |-> TRUE, wait |-> 60]
==============================================================================
