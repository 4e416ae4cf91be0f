---------------------------- MODULE RollbackStore ----------------------------
(***************************************************************************)
(* save_state, load_state and delete_state of windows_backend.c, one       *)
(* system call at a time: the temporary file, the flush, the replacing     *)
(* rename, and what load_state accepts.  Each session has one worker, the  *)
(* holder of its transaction mutex; all sessions share the user's data     *)
(* directory.  A worker may be killed and the power may fail between any   *)
(* two calls, any call may fail, and somebody else may change a file.      *)
(*                                                                         *)
(* The content of a file is a record with a fitting SHA-256, or one of     *)
(* Missing, Short (any other size than a record's) and Junk (a record's    *)
(* size, but a wrong magic, version or digest).  Of a record's fields      *)
(* those are kept that load_state judges.                                  *)
(***************************************************************************)
EXTENDS RollbackRecord

VARIABLES
  file,      \* the content of each state file, as programs see it
  onDisk,    \* ... and as it is after a power loss
  temp,      \* the content of each ".tmp" file
  synced,    \* the workers whose temporary file has reached the disk
  pc,        \* where each session's worker is
  job,       \* the record it saves
  spoiled,   \* history: paths whose file somebody else has changed
  hindered   \* history: workers one of whose calls has failed

vars == <<file, onDisk, temp, synced, pc, job, spoiled, hindered>>

Init ==
  /\ file = [p \in Paths |-> Missing]
  /\ onDisk = [p \in Paths |-> Missing]
  /\ temp = [p \in Paths |-> Missing]
  /\ synced = {}
  /\ pc = [s \in Sessions |-> "idle"]
  /\ job \in [Sessions -> UNION {Savable[s] : s \in Sessions}]
  /\ \A s \in Sessions : job[s] \in Savable[s]
  /\ spoiled = {}
  /\ hindered = {}

------------------------------------------------------------------------------
(* save_state *)

Goto(s, label) == pc' = [pc EXCEPT ![s] = label]

\* Mutant: apply_patch saves whatever it has found, unchecked.
BeginSaveUnchecked(s) ==
  /\ pc[s] \in {"idle", "saved", "failed"}
  /\ \E rec \in {r \in State : r.session = s} : job' = [job EXCEPT ![s] = rec]
  /\ Goto(s, "create")
  /\ synced' = synced \ {s}
  /\ hindered' = hindered \ {s}
  /\ UNCHANGED <<file, onDisk, temp, spoiled>>

\* The caller has filled in a record and made the data directory.
BeginSave(s) ==
  /\ pc[s] \in {"idle", "saved", "failed"}
  /\ \E rec \in Savable[s] : job' = [job EXCEPT ![s] = rec]
  /\ Goto(s, "create")
  /\ synced' = synced \ {s}
  /\ hindered' = hindered \ {s}
  /\ UNCHANGED <<file, onDisk, temp, spoiled>>

\* Mutant: CREATE_NEW.
CreateNewTemporary(s) ==
  /\ pc[s] = "create"
  /\ IF temp[StatePath(s)] = Missing
     THEN temp' = [temp EXCEPT ![StatePath(s)] = Short] /\ Goto(s, "write")
     ELSE Goto(s, "failed") /\ UNCHANGED temp
  /\ UNCHANGED <<file, onDisk, synced, job, spoiled, hindered>>

\* CreateFileW with CREATE_ALWAYS: an earlier temporary file is emptied.
CreateTemporary(s) ==
  /\ pc[s] = "create"
  /\ temp' = [temp EXCEPT ![StatePath(s)] = Short]
  /\ Goto(s, "write")
  /\ UNCHANGED <<file, onDisk, synced, job, spoiled, hindered>>

\* WriteFile; also the bytes a worker killed in the call has written.
WriteTemporary(s) ==
  /\ pc[s] = "write"
  /\ temp' = [temp EXCEPT ![StatePath(s)] = job[s]]
  /\ Goto(s, "flush")
  /\ UNCHANGED <<file, onDisk, synced, job, spoiled, hindered>>

\* Mutant: the bytes are not flushed.
SkipFlush(s) ==
  /\ pc[s] = "flush"
  /\ Goto(s, "move")
  /\ UNCHANGED <<file, onDisk, temp, synced, job, spoiled, hindered>>

FlushTemporary(s) ==
  /\ pc[s] = "flush"
  /\ synced' = synced \cup {s}
  /\ Goto(s, "move")
  /\ UNCHANGED <<file, onDisk, temp, job, spoiled, hindered>>

\* Mutant: without MOVEFILE_WRITE_THROUGH the rename reaches the disk later.
MoveLazily(s) ==
  LET path == StatePath(s) IN
  /\ pc[s] = "move"
  /\ file' = [file EXCEPT ![path] = temp[path]]
  /\ temp' = [temp EXCEPT ![path] = Missing]
  /\ spoiled' = spoiled \ {path}
  /\ Goto(s, "saved")
  /\ UNCHANGED <<onDisk, synced, job, hindered>>

\* MoveFileExW, replacing and writing through.  The rename is on the disk when
\* it returns; bytes never flushed need not be.
MoveOver(s) ==
  LET path == StatePath(s) IN
  /\ pc[s] = "move"
  /\ file' = [file EXCEPT ![path] = temp[path]]
  /\ \E settled \in {temp[path]} \cup (IF s \in synced THEN {} ELSE {Short, Junk}) :
       onDisk' = [onDisk EXCEPT ![path] = settled]
  /\ temp' = [temp EXCEPT ![path] = Missing]
  /\ spoiled' = spoiled \ {path}
  /\ Goto(s, "saved")
  /\ UNCHANGED <<synced, job, hindered>>

\* CreateFileW fails, also the preparations before it: nothing is left to do.
CreateFails(s) ==
  /\ pc[s] = "create"
  /\ hindered' = hindered \cup {s}
  /\ Goto(s, "failed")
  /\ UNCHANGED <<file, onDisk, temp, synced, job, spoiled>>

\* Any later call fails: the temporary file has to go.
LaterCallFails(s) ==
  /\ pc[s] \in {"write", "flush", "move"}
  /\ hindered' = hindered \cup {s}
  /\ Goto(s, "drop")
  /\ UNCHANGED <<file, onDisk, temp, synced, job, spoiled>>

\* DeleteFileW(temporary), its result ignored.
DropTemporary(s) ==
  /\ pc[s] = "drop"
  /\ temp' \in {temp, [temp EXCEPT ![StatePath(s)] = Missing]}
  /\ Goto(s, "failed")
  /\ UNCHANGED <<file, onDisk, synced, job, spoiled, hindered>>

SaveStep(s) ==
  \/ CreateTemporary(s) \/ WriteTemporary(s) \/ FlushTemporary(s) \/ MoveOver(s)
  \/ CreateFails(s) \/ LaterCallFails(s) \/ DropTemporary(s)

------------------------------------------------------------------------------
(* delete_state, and what happens to files and workers *)

\* delete_state, its result ignored; the file system writes the removal later.
DeleteState(s) ==
  /\ pc[s] \in {"idle", "saved", "failed"}
  /\ file' = [file EXCEPT ![StatePath(s)] = Missing]
  /\ Goto(s, "idle")
  /\ UNCHANGED <<onDisk, temp, synced, job, spoiled, hindered>>

Settle(path) ==
  /\ onDisk' = [onDisk EXCEPT ![path] = file[path]]
  /\ UNCHANGED <<file, temp, synced, pc, job, spoiled, hindered>>

Killed(s) ==
  /\ Goto(s, "idle")
  /\ UNCHANGED <<file, onDisk, temp, synced, job, spoiled, hindered>>

\* All workers die, and a temporary file not flushed may hold anything.
PowerLoss ==
  /\ file' = onDisk
  /\ temp' \in [Paths -> Contents]
  /\ \A p \in Paths : temp'[p] \in {temp[p], Missing, Short, Junk}
  /\ pc' = [s \in Sessions |-> "idle"]
  /\ UNCHANGED <<onDisk, synced, job, spoiled, hindered>>

\* Somebody else removes, cuts or overwrites a file, or copies another over it.
Damage(path) ==
  /\ \E content \in Contents :
       /\ file' = [file EXCEPT ![path] = content]
       /\ onDisk' = [onDisk EXCEPT ![path] = content]
  /\ spoiled' = spoiled \cup {path}
  /\ UNCHANGED <<temp, synced, pc, job, hindered>>

Next ==
  \/ \E s \in Sessions : BeginSave(s) \/ SaveStep(s) \/ DeleteState(s) \/ Killed(s)
  \/ \E path \in Paths : Settle(path) \/ Damage(path)
  \/ PowerLoss

Spec == Init /\ [][Next]_vars

------------------------------------------------------------------------------
(* Properties *)

\* Every variable has its type.
TypeOK ==
  /\ file \in [Paths -> Contents] /\ onDisk \in [Paths -> Contents]
  /\ temp \in [Paths -> Contents]
  /\ synced \subseteq Sessions
  /\ pc \in [Sessions -> {"idle", "create", "write", "flush", "move", "drop", "saved", "failed"}]
  /\ job \in [Sessions -> State] /\ \A s \in Sessions : job[s] \in Savable[s]
  /\ spoiled \subseteq Paths
  /\ hindered \subseteq Sessions

\* Whatever call fails and whenever a worker is killed or the power is lost, a
\* file nobody else has touched is one load_state does not call corrupt, now
\* and after the next power loss: there is always a way to restore or to apply.
NeverCorrupt ==
  \A s \in Sessions : StatePath(s) \notin spoiled =>
    Corrupt \notin {Reading(file[StatePath(s)], s), Reading(onDisk[StatePath(s)], s)}

\* When save_state has said 0 and nobody has interfered, the very record it was
\* given is what load_state answers, even if the power is lost the moment
\* after: apply_patch writes to Explorer only then.
SavedForGood ==
  \A s \in Sessions : pc[s] = "saved" /\ StatePath(s) \notin spoiled =>
    /\ Reading(file[StatePath(s)], s) = job[s]
    /\ Reading(onDisk[StatePath(s)], s) = job[s]

\* What a killed worker or a power loss has left behind never makes a later
\* save_state fail: it fails only if one of its own calls did.
LeftoversDoNotHinder == \A s \in Sessions : pc[s] = "failed" => s \in hindered

------------------------------------------------------------------------------
(* The abstract store *)

Stored(contents) == [s \in Sessions |-> Reading(contents[StatePath(s)], s)]

Store == INSTANCE RecordStore WITH
  stored  <- Stored(file),
  durable <- Stored(onDisk),
  spoiled <- {s \in Sessions : StatePath(s) \in spoiled}

\* save_state, load_state and delete_state behave like one record per session
\* that is replaced for good or removed as a whole.
StoreSpec == Store!Spec
==============================================================================
