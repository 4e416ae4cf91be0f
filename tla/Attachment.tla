------------------------------ MODULE Attachment ------------------------------
(***************************************************************************)
(* open_context in three steps, as PatchTransaction has it: Find the pid   *)
(* of the desktop's owner, Attach to the process that has that pid then,   *)
(* and Match its image with the one on the disk.  Between two steps the    *)
(* system may change in any way; what is attached to does not.             *)
(***************************************************************************)
CONSTANT Nobody

VARIABLES
  eligible,   \* the running processes that are a native Explorer
  desktop,    \* the pid that owns the shell window, or Nobody
  onDisk,     \* shell32.dll on the disk
  matching,   \* whether the image on the disk must be the loaded one
  stage,
  pid,
  ctx         \* the process that the handle is open on, or Nobody

vars == <<matching, stage, pid, ctx>>

Init == stage = "find" /\ ctx = Nobody

Find ==
  /\ stage = "find" /\ desktop # Nobody
  /\ pid' = desktop /\ stage' = "attach"
  /\ UNCHANGED <<matching, ctx>>

Attach ==
  /\ stage = "attach"
  /\ ctx' \in {proc \in eligible : proc.pid = pid}
  /\ stage' = "match"
  /\ UNCHANGED <<matching, pid>>

Match ==
  /\ stage = "match"
  /\ matching => ctx.image = onDisk
  /\ stage' = "done"
  /\ UNCHANGED <<matching, pid, ctx>>

\* A call failed, or what was found is not what is looked for.
Fail ==
  /\ stage \in {"find", "attach", "match"}
  /\ stage' = "failed" /\ ctx' = Nobody
  /\ UNCHANGED <<matching, pid>>

Next == Find \/ Attach \/ Match \/ Fail

\* Everything else belongs to the system.
Spec == Init /\ [][Next]_vars
==============================================================================
