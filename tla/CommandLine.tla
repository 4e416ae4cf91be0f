------------------------------ MODULE CommandLine ------------------------------
(***************************************************************************)
(* What wmain makes of its arguments, and the command that set_startup     *)
(* leaves in the Run key for the next logon, which is wmain's again.       *)
(***************************************************************************)
EXTENDS Integers, Sequences, ConfigFile

CONSTANTS
  Text,      \* what an argument may be
  ULongMax,  \* the largest unsigned long: 2^32 - 1 on Windows
  Number     \* the texts that wcstoul reads to their end, with their numbers

MaxWait == 600

ASSUME NumberAssumption ==
  /\ ULongMax \in Nat /\ ULongMax > MaxWait
  /\ \A text \in DOMAIN Number : Number[text] \in Int
  /\ "60" \in DOMAIN Number /\ Number["60"] = 60

ASSUME TextAssumption ==
  {"--apply", "--quiet", "--wait", "60", "--offline", "--no-refresh"} \subseteq Text

Options == [server : BOOLEAN, scan : BOOLEAN, refresh : BOOLEAN, dry : BOOLEAN,
            quiet : BOOLEAN, wait : 0..MaxWait]

\* ERANGE beyond an unsigned long; a minus sign negates in its width.
Parsable(text) ==
  text \in DOMAIN Number /\ Number[text] \in -ULongMax..ULongMax
Parsed(text) == Number[text] % (ULongMax + 1)

\* Mutant: any number of seconds.
AnyWait(text) == Parsable(text)

\* parse_wait_seconds
ValidWait(text) == Parsable(text) /\ Parsed(text) <= MaxWait

ActionOf(arg) ==
  CASE arg = "--apply" -> "apply"
    [] arg = "--restore" -> "restore"
    [] arg = "--enable-startup" -> "enable"
    [] arg = "--disable-startup" -> "disable"
    [] arg = "--diagnostics" -> "diagnostics"

\* The loop's variables: "outcome" is set where wmain returns from inside it,
\* "waiting" says that the next argument is the value of --wait.
Loop == [outcome : {"reading", "told", "error"}, waiting : BOOLEAN, action : Actions, named : Nat,
         backend : BOOLEAN, options : Options]

Fresh ==
  [outcome |-> "reading", waiting |-> FALSE, action |-> "apply", named |-> 0,
   backend |-> FALSE,
   options |-> [server |-> TRUE, scan |-> FALSE, refresh |-> TRUE, dry |-> FALSE,
                quiet |-> FALSE, wait |-> 0]]

TakeWait(p, text) ==
  IF ValidWait(text)
  THEN [p EXCEPT !.waiting = FALSE, !.options.wait = Parsed(text), !.backend = TRUE]
  ELSE [p EXCEPT !.outcome = "error"]

ReadOption(p, arg) ==
  CASE arg \in {"--apply", "--restore", "--enable-startup", "--disable-startup", "--diagnostics"} ->
         [p EXCEPT !.action = ActionOf(arg), !.named = @ + 1]
    [] arg = "--offline" -> [p EXCEPT !.options.server = FALSE, !.backend = TRUE]
    [] arg = "--experimental-offline-scan" -> [p EXCEPT !.options.scan = TRUE, !.backend = TRUE]
    [] arg = "--dry-run" -> [p EXCEPT !.options.dry = TRUE, !.backend = TRUE]
    [] arg = "--no-refresh" -> [p EXCEPT !.options.refresh = FALSE, !.backend = TRUE]
    [] arg = "--quiet" -> [p EXCEPT !.options.quiet = TRUE, !.backend = TRUE]
    [] arg \in {"--ascii", "--unicode"} -> p
    [] arg = "--wait" -> [p EXCEPT !.waiting = TRUE]
    [] arg \in {"--version", "--help", "-h"} -> [p EXCEPT !.outcome = "told"]
    [] OTHER -> [p EXCEPT !.outcome = "error"]

\* One turn of the loop; the value of --wait is read in a turn of its own.
ReadArgument(p, arg) == IF p.waiting THEN TakeWait(p, arg) ELSE ReadOption(p, arg)

\* What wmain returns an error for, in the loop, at its end or after it.
Refused(p) ==
  \/ p.outcome = "error" \/ p.waiting
  \/ p.named > 1
  \/ p.named = 1 /\ p.options.scan /\ p.action # "diagnostics"
  \/ p.named = 0 /\ p.backend

\* The arguments in the command of set_startup.
LogonCommand(options) ==
  <<"--apply", "--quiet", "--wait", "60">>
    \o (IF options.server THEN <<>> ELSE <<"--offline">>)
    \o (IF options.refresh THEN <<>> ELSE <<"--no-refresh">>)
==============================================================================
