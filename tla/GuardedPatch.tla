----------------------------- MODULE GuardedPatch -----------------------------
(***************************************************************************)
(* What a transaction comes down to, seen from outside: one instance at a  *)
(* time holds the right to change Explorer; it changes the patched bytes   *)
(* only under a record that can undo them, and gives the record up only    *)
(* when there is nothing left to undo.  A new run of Explorer is untouched *)
(* and needs a record of its own.                                          *)
(***************************************************************************)
CONSTANTS
  Instances,
  Nobody

VARIABLES
  holder,    \* the instance that has the mutex, or Nobody
  touched,   \* some byte of the patch is in the running Explorer
  covered,   \* a durable record describes that Explorer and its own bytes
  lost       \* a record was removed or damaged from outside

vars == <<holder, touched, covered, lost>>

Init == holder = Nobody /\ touched = FALSE /\ covered = FALSE /\ lost = FALSE

Take(p) ==
  /\ holder = Nobody /\ holder' = p
  /\ UNCHANGED <<touched, covered, lost>>

\* It has finished, or was killed.
Drop(p) ==
  /\ holder = p /\ holder' = Nobody
  /\ UNCHANGED <<touched, covered, lost>>

Cover(p) ==
  /\ holder = p
  /\ covered' = TRUE
  /\ UNCHANGED <<holder, touched, lost>>

Uncover(p) ==
  /\ holder = p /\ (touched => lost)
  /\ covered' = FALSE
  /\ UNCHANGED <<holder, touched, lost>>

\* A write to Explorer, whole or torn, of the patch or of the original bytes.
Touch(p) ==
  /\ holder = p /\ (covered \/ lost)
  /\ touched' \in BOOLEAN
  /\ UNCHANGED <<holder, covered, lost>>

\* Another program overwrites the last byte of the patch.
Interfere ==
  /\ touched' = FALSE
  /\ UNCHANGED <<holder, covered, lost>>

\* Explorer exits, or starts.
Replace ==
  /\ touched' = FALSE /\ covered' = FALSE
  /\ UNCHANGED <<holder, lost>>

Lose ==
  /\ covered' = FALSE /\ lost' = TRUE
  /\ UNCHANGED <<holder, touched>>

Next ==
  \/ \E p \in Instances : Take(p) \/ Drop(p) \/ Cover(p) \/ Uncover(p) \/ Touch(p)
  \/ Interfere \/ Replace \/ Lose

Spec == Init /\ [][Next]_vars

\* What is in Explorer can be undone.
Undoable == touched /\ ~lost => covered
==============================================================================
