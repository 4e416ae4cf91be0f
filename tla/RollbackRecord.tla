---------------------------- MODULE RollbackRecord ----------------------------
(***************************************************************************)
(* The rollback record (UwdPatchState): where it is kept, what apply_patch *)
(* has made sure of when it saves one, and what load_state makes of the    *)
(* content of a file.                                                      *)
(***************************************************************************)
CONSTANTS
  Sessions,      \* logon sessions of one user
  Shells,        \* runs of Explorer: pid, creation time, base of shell32.dll
  Machines,      \* machines patch_bytes_for_machine knows
  AlignedOnly,   \* those whose code is 4-byte aligned (ARM64)
  Protections,   \* page protections
  Executable,          \* those is_executable_protection accepts
  WritableExecutable,  \* those is_writable_executable_protection accepts
  Missing, Short, Junk,   \* contents that are no record
  NoState, Corrupt        \* answers of load_state that are no record

State == [session : Sessions, shell : Shells, machine : Machines,
          aligned : BOOLEAN, protection : Protections]

ASSUME MachineAssumption ==
  /\ AlignedOnly \subseteq Machines
  /\ Executable \subseteq Protections /\ WritableExecutable \subseteq Executable

ASSUME ContentAssumption ==
  /\ {Missing, Short, Junk, NoState, Corrupt} \cap State = {}
  /\ Missing \notin {Short, Junk}
  /\ NoState # Corrupt

\* state_path: the session's number is a part of the name.
StatePath(session) == session

Paths == {StatePath(s) : s \in Sessions}

Contents == State \cup {Missing, Short, Junk}

\* What apply_patch finds out before it fills in a record.
Target == [shell : Shells, machine : Machines, aligned : BOOLEAN, protection : Protections]

\* Mutant of Resolved: symbol_callback takes a symbol at any address.
ResolvedAnywhere(t) == TRUE

\* symbol_callback has counted the symbol, the one source of the address.
Resolved(t) == t.machine \in AlignedOnly => t.aligned

\* apply_patch goes on, or adopts an unrecorded patch, only on such a page.
Adoptable(t) == t.protection \in Executable /\ t.protection \notin WritableExecutable

\* The fields are filled in; session_id is the program's own.
Filled(session, t) ==
  [session |-> session, shell |-> t.shell, machine |-> t.machine,
   aligned |-> t.aligned, protection |-> t.protection]

\* What apply_patch may give to save_state, which checks none of it.
Savable == [s \in Sessions |->
  {Filled(s, t) : t \in {u \in Target : Resolved(u) /\ Adoptable(u)}}]

\* The checks of load_state on a record whose digest fits.
Accepts(rec, s) ==
  /\ rec.protection \in Executable
  /\ rec.protection \notin WritableExecutable
  /\ rec.session = s
  /\ ~(rec.machine \in AlignedOnly /\ ~rec.aligned)

\* load_state in session s: no file (1), an error (-1), or the record (0).
Reading(content, s) ==
  CASE content = Missing -> NoState
    [] content \in State /\ Accepts(content, s) -> content
    [] OTHER -> Corrupt

Readings == State \cup {NoState, Corrupt}
==============================================================================
