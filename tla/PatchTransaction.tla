--------------------------- MODULE PatchTransaction ---------------------------
(***************************************************************************)
(* Apply and Restore of windows_backend.c, as several instances of the     *)
(* program run them against one Explorer: uwd_execute takes the session's  *)
(* named mutex, and the holder reads, protects and writes another          *)
(* process's code one system call at a time.  Between any two calls the    *)
(* holder may be killed, Explorer may exit and come back (with a reused    *)
(* pid, or another shell32.dll), a call may fail, and another program may  *)
(* write the same bytes or change the page's protection.                   *)
(*                                                                         *)
(* Each action is one system call with the decisions up to the next one.   *)
(* write_remote_bytes, restore_remote_protection,                          *)
(* verify_remote_bytes_and_protection and rollback_remote_state are called *)
(* from several places: job[p].phase says on whose behalf they run, and so *)
(* where they return.                                                      *)
(***************************************************************************)
EXTENDS LivePatch

CONSTANTS
  Procs,        \* instances of the program in this session
  NoProc,       \* nobody holds the mutex
  MaxStarts,    \* bound: runs of Explorer
  MaxFaults,    \* bound: calls that fail for no reason of ours, and killed instances
  MaxForeign,   \* bound: writes and protection changes by other programs
  MaxLosses     \* bound: rollback files removed or damaged from outside

ASSUME BoundAssumption ==
  /\ NoProc \notin Procs
  /\ MaxStarts \in Nat \ {0}
  /\ MaxFaults \in Nat
  /\ MaxForeign \in Nat
  /\ MaxLosses \in Nat

VARIABLES
  explorer,     \* the running Explorer, or NoExplorer
  started,      \* how many times Explorer has started; the newest creation time
  diskImage,    \* shell32.dll on the disk
  live,         \* the target bytes in Explorer's memory
  prot,         \* the protection of their page
  given,        \* history: what the loader and other programs have set it to
  disk,         \* patch-state-<session>.bin: NoState, Corrupt or a record
  owner,        \* who holds the transaction mutex
  pc,           \* where each instance is
  job,          \* the local variables of each instance's transaction
  faults, foreign, losses    \* what has been used of the bounds

shell  == <<explorer, started, diskImage, given>>
memory == <<live, prot>>
budget == <<faults, foreign, losses>>
vars == <<explorer, started, diskImage, given, live, prot, disk, owner, pc, job, faults, foreign, losses>>

Outcomes == {"failed", "refused", "applied", "verified", "adopted", "restored",
             "gone", "nothing", "passed"}

Phases == {"apply", "adopt", "repair", "rollback", "restore"}

Job == [op     : {"apply", "restore"},
        dry    : BOOLEAN,
        phase  : Phases,
        pid    : Pids \cup {0},               \* what wait_for_explorer_pid found
        ctx    : Explorer \cup {NoExplorer},  \* what the handle is open on
        file   : Images \cup {NoState},       \* context.image, read from the disk
        rec    : Record \cup {NoState},       \* UwdPatchState state
        marked : BOOLEAN,                     \* already_patched
        seen   : Verdicts,                    \* live_state
        obs    : Protections,                 \* the protection that was queried
        old    : Protections,                 \* old_protection of VirtualProtectEx
        err    : BOOLEAN,                     \* error of write_remote_bytes
        result : Outcomes]

IdleJob == [op |-> "apply", dry |-> FALSE, phase |-> "apply", pid |-> 0, ctx |-> NoExplorer,
            file |-> NoState, rec |-> NoState, marked |-> FALSE, seen |-> "unknown", obs |-> HomeProtection,
            old |-> HomeProtection, err |-> FALSE, result |-> "failed"]

\* Places where the mutex is held; from "match" on there is an open handle.
Attached == {"match", "candidate", "query", "adopt", "readback", "save", "compare",
             "read", "examine", "w_protect", "w_undo", "w_write", "w_close", "w_check",
             "p_set", "p_undo", "p_check", "flush", "v_bytes", "v_prot"}
Critical == Attached \cup {"load", "find", "attach", "delete", "release"}
Labels == Critical \cup {"idle", "acquire"}

Init ==
  /\ diskImage \in Images
  /\ \E pid \in Pids : explorer = [pid |-> pid, created |-> 1, image |-> diskImage]
  /\ started = 1
  /\ live = Original[diskImage]
  /\ prot = HomeProtection
  /\ given = {HomeProtection}
  /\ disk = NoState
  /\ owner = NoProc
  /\ pc = [p \in Procs |-> "idle"]
  /\ job = [p \in Procs |-> IdleJob]
  /\ faults = 0 /\ foreign = 0 /\ losses = 0

------------------------------------------------------------------------------
(* Steps of one instance *)

At(p, label) == pc[p] = label
Goto(p, label) == pc' = [pc EXCEPT ![p] = label]
Local(p, j) == job' = [job EXCEPT ![p] = j]
Keep == UNCHANGED job

\* Every return of apply_patch and restore_patch: close_context, then the mutex.
Finish(p, outcome) == Goto(p, "release") /\ Local(p, [job[p] EXCEPT !.result = outcome])

\* A call on Explorer's handle works only while that very run is alive.
Reach(p) == explorer # NoExplorer /\ explorer = job[p].ctx
NoFault == UNCHANGED budget
Fault == faults < MaxFaults /\ faults' = faults + 1 /\ UNCHANGED <<foreign, losses>>
CallFails(p) == (~Reach(p) /\ NoFault) \/ Fault

\* Where the shared routines return to, by the phase they run in.
\* Mutant: the state is deleted although the rollback failed.
WriteFailedForgets(p) ==
  IF job[p].phase = "apply"
  THEN Goto(p, "read") /\ Local(p, [job[p] EXCEPT !.phase = "rollback"])
  ELSE IF job[p].phase = "rollback" THEN Goto(p, "delete") /\ Keep
  ELSE Finish(p, "failed")

WriteFailed(p) ==
  IF job[p].phase = "apply"
  THEN Goto(p, "read") /\ Local(p, [job[p] EXCEPT !.phase = "rollback"])
  ELSE Finish(p, "failed")

WriteDone(p) == Goto(p, IF job[p].phase = "rollback" THEN "flush" ELSE "v_bytes") /\ Keep

VerifyFailed(p) ==
  IF job[p].phase = "apply"
  THEN Goto(p, "read") /\ Local(p, [job[p] EXCEPT !.phase = "rollback"])
  ELSE Finish(p, "failed")

VerifyDone(p) ==
  CASE job[p].phase = "apply"    -> Finish(p, "applied")
    [] job[p].phase = "repair"   -> Finish(p, "verified")
    [] job[p].phase = "restore"  -> Goto(p, "delete") /\ Local(p, [job[p] EXCEPT !.result = "restored"])
    [] OTHER                     -> Goto(p, "delete") /\ Local(p, [job[p] EXCEPT !.result = "failed"])

\* The page's protection is the recorded one: what restore_patch and
\* rollback_remote_state do next about the bytes.
ProtectionInOrder(p) ==
  IF job[p].phase = "repair" THEN Goto(p, "v_bytes") /\ Keep
  ELSE IF job[p].dry THEN Finish(p, "passed")
  ELSE Goto(p, IF job[p].seen = "original" THEN "flush" ELSE "w_protect") /\ Keep

\* The bytes the current phase writes and then expects to read back.
Target(p) == IF job[p].phase \in {"apply", "repair"} THEN Patch ELSE job[p].rec.original

------------------------------------------------------------------------------
(* uwd_execute and open_context *)

\* A user, or the logon startup entry, runs the program.
Run(p) ==
  /\ At(p, "idle")
  /\ \E op \in {"apply", "restore"}, dry \in BOOLEAN :
       Local(p, [IdleJob EXCEPT !.op = op, !.dry = dry, !.phase = op])
  /\ Goto(p, "acquire")
  /\ UNCHANGED <<shell, memory, disk, owner, budget>>

\* Mutant: any outcome of the wait counts as success.
AcquireAnyway(p) ==
  /\ At(p, "acquire")
  /\ owner' = p
  /\ Goto(p, IF job[p].op = "apply" THEN "find" ELSE "load")
  /\ Keep
  /\ UNCHANGED <<shell, memory, disk, budget>>

\* WaitForSingleObject: the mutex is free, or was abandoned by a killed holder.
Acquire(p) ==
  /\ At(p, "acquire")
  /\ owner = NoProc
  /\ owner' = p
  /\ Goto(p, IF job[p].op = "apply" THEN "find" ELSE "load")
  /\ Keep
  /\ UNCHANGED <<shell, memory, disk, budget>>

\* Mutant: the wait has no time limit.
AcquireForever(p) == FALSE

\* 120 seconds have passed: uwd_execute returns 1 without the mutex.  (One that
\* cannot even create it ends in the same way as one that is killed here.)
AcquireTimeout(p) ==
  /\ At(p, "acquire")
  /\ owner # NoProc
  /\ Goto(p, "idle") /\ Local(p, IdleJob)
  /\ UNCHANGED <<shell, memory, disk, owner, budget>>

\* Mutant: the checks of load_state are skipped.
LoadUnchecked(p) ==
  /\ At(p, "load")
  /\ \/ /\ NoFault
        /\ IF disk = NoState THEN Finish(p, "nothing")
           ELSE Goto(p, "find") /\ Local(p, [job[p] EXCEPT !.rec = disk])
     \/ Fault /\ Finish(p, "failed")
  /\ UNCHANGED <<shell, memory, disk, owner>>

\* load_state, at the start of restore_patch.
Load(p) ==
  /\ At(p, "load")
  /\ \/ /\ NoFault
        /\ CASE disk = NoState -> Finish(p, "nothing")
             [] disk = Corrupt -> Finish(p, "failed")
             [] OTHER -> Goto(p, "find") /\ Local(p, [job[p] EXCEPT !.rec = disk])
     \/ Fault /\ Finish(p, "failed")
  /\ UNCHANGED <<shell, memory, disk, owner>>

\* wait_for_explorer_pid: the desktop's pid, or --wait runs out.
Find(p) ==
  /\ At(p, "find")
  /\ \/ /\ explorer # NoExplorer
        /\ Goto(p, "attach")
        /\ Local(p, [job[p] EXCEPT !.pid = explorer.pid])
        /\ NoFault
     \/ explorer = NoExplorer /\ NoFault /\ Finish(p, "failed")
     \/ Fault /\ Finish(p, "failed")
  /\ UNCHANGED <<shell, memory, disk, owner>>

\* OpenProcess by pid, then the checks of the image, creation time, machine and
\* loaded module, whose answers never change while that Explorer runs.
Attach(p) ==
  /\ At(p, "attach")
  /\ \/ /\ explorer # NoExplorer /\ explorer.pid = job[p].pid
        /\ Goto(p, IF job[p].op = "apply" THEN "match" ELSE "compare")
        /\ Local(p, [job[p] EXCEPT !.ctx = explorer])
        /\ NoFault
     \/ /\ explorer # NoExplorer => explorer.pid # job[p].pid
        /\ NoFault /\ Finish(p, "failed")
     \/ Fault /\ Finish(p, "failed")
  /\ UNCHANGED <<shell, memory, disk, owner>>

------------------------------------------------------------------------------
(* apply_patch *)

\* Mutant: the identities of the file and of the loaded module are not compared.
MatchUnchecked(p) ==
  /\ At(p, "match")
  /\ \/ Goto(p, "candidate") /\ Local(p, [job[p] EXCEPT !.file = diskImage])
     \/ Finish(p, "failed")
  /\ UNCHANGED <<shell, memory, disk, owner, budget>>

\* shell32.dll is read from the disk; the loaded module must be the one that was
\* read, and dynamic code must be allowed.
Match(p) ==
  /\ At(p, "match")
  /\ \/ /\ job[p].ctx.image = diskImage
        /\ Goto(p, "candidate") /\ Local(p, [job[p] EXCEPT !.file = diskImage])
     \/ Finish(p, "failed")
  /\ UNCHANGED <<shell, memory, disk, owner, budget>>

\* resolve_watermark_rva: symbols give the address (or do not), and the live
\* bytes there must be those of the file that was read, with or without the patch.
Candidate(p) ==
  /\ At(p, "candidate")
  /\ LET original == Original[job[p].file] IN
     \/ /\ Reach(p) /\ live \in {original, Patch}
        /\ Goto(p, "query")
        /\ Local(p, [job[p] EXCEPT !.marked = (live # original)])
     \/ Finish(p, "failed")
  /\ UNCHANGED <<shell, memory, disk, owner, budget>>

\* query_remote_protection, the new record, and the checks that need no call.
Query(p) ==
  /\ At(p, "query")
  /\ LET c == job[p].ctx
         j == [job[p] EXCEPT !.obs = prot,
                 !.rec = [pid |-> c.pid, created |-> c.created, image |-> job[p].file,
                          original |-> Original[job[p].file], prot |-> prot]]
     IN
     \/ /\ Reach(p) /\ NoFault
        /\ CASE j.marked -> Goto(p, "adopt") /\ Local(p, j)
             [] ~j.marked /\ ~Patchable(prot) -> Finish(p, "failed")
             [] ~j.marked /\ Patchable(prot) /\ j.dry -> Finish(p, "passed")
             [] OTHER -> Goto(p, "readback") /\ Local(p, j)
     \/ CallFails(p) /\ Finish(p, "failed")
  /\ UNCHANGED <<shell, memory, disk, owner>>

\* Explorer is already patched: a record that agrees in all but the protection
\* is trusted, and the page repaired; otherwise a record is reconstructed.
Adopt(p) ==
  /\ At(p, "adopt")
  /\ LET rec   == job[p].rec
         known == disk \in Record /\ disk = [rec EXCEPT !.prot = disk.prot]
     IN
     \/ disk = Corrupt /\ NoFault /\ Finish(p, "failed")
     \/ /\ known /\ NoFault
        /\ IF job[p].obs # disk.prot /\ job[p].dry THEN Finish(p, "failed")
           ELSE /\ Goto(p, IF job[p].obs # disk.prot THEN "p_set" ELSE "v_bytes")
                /\ Local(p, [job[p] EXCEPT !.phase = "repair", !.rec = disk])
     \/ /\ ~known /\ disk # Corrupt /\ NoFault
        /\ IF job[p].dry \/ ~Patchable(job[p].obs) THEN Finish(p, "failed")
           ELSE Goto(p, "save") /\ Local(p, [job[p] EXCEPT !.phase = "adopt"])
     \/ Fault /\ Finish(p, "failed")
  /\ UNCHANGED <<shell, memory, disk, owner>>

\* Mutant: Explorer is written before the record is saved.
ReadbackUnsaved(p) ==
  /\ At(p, "readback")
  /\ \/ /\ Reach(p) /\ NoFault
        /\ IF live = job[p].rec.original THEN Goto(p, "w_protect") /\ Keep ELSE Finish(p, "failed")
     \/ CallFails(p) /\ Finish(p, "failed")
  /\ UNCHANGED <<shell, memory, disk, owner>>

\* The bytes are read once more just before the record is written.
Readback(p) ==
  /\ At(p, "readback")
  /\ \/ /\ Reach(p) /\ NoFault
        /\ IF live = job[p].rec.original THEN Goto(p, "save") /\ Keep ELSE Finish(p, "failed")
     \/ CallFails(p) /\ Finish(p, "failed")
  /\ UNCHANGED <<shell, memory, disk, owner>>

\* save_state replaces the file in one step, or leaves it as it was.
Save(p) ==
  /\ At(p, "save")
  /\ \/ /\ disk' = job[p].rec
        /\ NoFault
        /\ IF job[p].phase = "adopt" THEN Finish(p, "adopted") ELSE Goto(p, "w_protect") /\ Keep
     \/ Fault /\ Finish(p, "failed") /\ UNCHANGED disk
  /\ UNCHANGED <<shell, memory, owner>>

------------------------------------------------------------------------------
(* restore_patch, and rollback_remote_state, which shares its shape *)

\* Mutant: the identity checks are dropped.
CompareNothing(p) ==
  /\ At(p, "compare")
  /\ Goto(p, "read") /\ Keep
  /\ UNCHANGED <<shell, memory, disk, owner, budget>>

\* Mutant: a dry run cleans up the stale record.
CompareCleansUp(p) ==
  /\ At(p, "compare")
  /\ IF ~SameProcess(job[p].rec, job[p].ctx)
     THEN Goto(p, "delete") /\ Local(p, [job[p] EXCEPT !.result = "gone"])
     ELSE IF job[p].rec.image # job[p].ctx.image THEN Finish(p, "failed")
     ELSE Goto(p, "read") /\ Keep
  /\ UNCHANGED <<shell, memory, disk, owner, budget>>

\* Is this still the process the record was written for?
Compare(p) ==
  /\ At(p, "compare")
  /\ LET rec == job[p].rec
         gone == [job[p] EXCEPT !.result = "gone"]
     IN
     CASE ~SameProcess(rec, job[p].ctx) ->
            Goto(p, IF job[p].dry THEN "release" ELSE "delete") /\ Local(p, gone)
       [] SameProcess(rec, job[p].ctx) /\ rec.image # job[p].ctx.image -> Finish(p, "failed")
       [] OTHER -> Goto(p, "read") /\ Keep
  /\ UNCHANGED <<shell, memory, disk, owner, budget>>

\* ReadProcessMemory of the live bytes, and their classification.
Read(p) ==
  /\ At(p, "read")
  /\ \/ /\ Reach(p) /\ NoFault
        /\ Goto(p, "examine")
        /\ Local(p, [job[p] EXCEPT !.seen = Classify(live, job[p].rec)])
     \/ CallFails(p) /\ Finish(p, "failed")
  /\ UNCHANGED <<shell, memory, disk, owner>>

\* query_remote_protection; unknown bytes are refused before anything is written.
Examine(p) ==
  /\ At(p, "examine")
  /\ \/ /\ Reach(p) /\ NoFault
        /\ CASE job[p].seen = "unknown" ->
                  Finish(p, IF job[p].phase = "restore" THEN "refused" ELSE "failed")
             [] job[p].seen # "unknown" /\ prot = job[p].rec.prot -> ProtectionInOrder(p)
             [] OTHER ->
                  IF job[p].dry THEN Finish(p, "failed")
                  ELSE Goto(p, "p_set") /\ Local(p, [job[p] EXCEPT !.obs = prot])
     \/ CallFails(p) /\ Finish(p, "failed")
  /\ UNCHANGED <<shell, memory, disk, owner>>

\* FlushInstructionCache on its own, when there is nothing to write any more.
Flush(p) ==
  /\ At(p, "flush")
  /\ \/ Reach(p) /\ NoFault /\ Goto(p, "v_bytes") /\ Keep
     \/ CallFails(p) /\ Finish(p, "failed")
  /\ UNCHANGED <<shell, memory, disk, owner>>

\* delete_state: a failing DeleteFileW is ignored.
Delete(p) ==
  /\ At(p, "delete")
  /\ \/ disk' = NoState /\ NoFault
     \/ Fault /\ UNCHANGED disk
  /\ Goto(p, "release") /\ Keep
  /\ UNCHANGED <<shell, memory, owner>>

\* ReleaseMutex and process exit.
Release(p) ==
  /\ At(p, "release")
  /\ owner' = NoProc
  /\ Goto(p, "idle") /\ Local(p, IdleJob)
  /\ UNCHANGED <<shell, memory, disk, budget>>

------------------------------------------------------------------------------
(* write_remote_bytes *)

\* The page becomes writable; its old protection must be the recorded one.
WProtect(p) ==
  /\ At(p, "w_protect")
  /\ \/ /\ Reach(p) /\ NoFault
        /\ prot' = RWX
        /\ Goto(p, IF prot = job[p].rec.prot THEN "w_write" ELSE "w_undo")
        /\ Local(p, [job[p] EXCEPT !.old = prot, !.err = FALSE])
     \/ CallFails(p) /\ WriteFailed(p) /\ UNCHANGED prot
  /\ UNCHANGED <<shell, live, disk, owner>>

\* Mutant: nothing was written, so the record is removed without a look at the page.
WUndoForgets(p) ==
  /\ At(p, "w_undo")
  /\ \/ Reach(p) /\ NoFault /\ prot' = job[p].old
     \/ CallFails(p) /\ UNCHANGED prot
  /\ Goto(p, "delete") /\ Keep
  /\ UNCHANGED <<shell, live, disk, owner>>

\* Somebody changed the protection since it was queried: put theirs back.
WUndo(p) ==
  /\ At(p, "w_undo")
  /\ \/ Reach(p) /\ NoFault /\ prot' = job[p].old
     \/ CallFails(p) /\ UNCHANGED prot
  /\ WriteFailed(p)
  /\ UNCHANGED <<shell, live, disk, owner>>

\* WriteProcessMemory and FlushInstructionCache.  A failing write leaves a
\* prefix of the new bytes, a failing flush all of them.
WWrite(p) ==
  /\ At(p, "w_write")
  /\ \/ Reach(p) /\ NoFault /\ live' = Target(p) /\ Keep
     \/ /\ Reach(p) /\ Fault
        /\ \E k \in 0..PatchLength : live' = Spliced(Target(p), k, live)
        /\ Local(p, [job[p] EXCEPT !.err = TRUE])
     \/ ~Reach(p) /\ NoFault /\ UNCHANGED live /\ Local(p, [job[p] EXCEPT !.err = TRUE])
  /\ Goto(p, "w_close")
  /\ UNCHANGED <<shell, prot, disk, owner>>

\* The final protection is set whether or not the bytes could be written.
WClose(p) ==
  /\ At(p, "w_close")
  /\ \/ Reach(p) /\ NoFault /\ prot' = job[p].rec.prot /\ Keep
     \/ CallFails(p) /\ UNCHANGED prot /\ Local(p, [job[p] EXCEPT !.err = TRUE])
  /\ Goto(p, "w_check")
  /\ UNCHANGED <<shell, live, disk, owner>>

\* The page must end with the final protection for the write to count.
WCheck(p) ==
  /\ At(p, "w_check")
  /\ \/ /\ Reach(p) /\ NoFault
        /\ IF prot = job[p].rec.prot /\ ~job[p].err THEN WriteDone(p) ELSE WriteFailed(p)
     \/ CallFails(p) /\ WriteFailed(p)
  /\ UNCHANGED <<shell, memory, disk, owner>>

------------------------------------------------------------------------------
(* restore_remote_protection and verify_remote_bytes_and_protection *)

\* VirtualProtectEx to the recorded protection.
PSet(p) ==
  /\ At(p, "p_set")
  /\ \/ /\ Reach(p) /\ NoFault
        /\ prot' = job[p].rec.prot
        /\ Goto(p, IF prot = job[p].obs THEN "p_check" ELSE "p_undo")
        /\ Local(p, [job[p] EXCEPT !.old = prot])
     \/ CallFails(p) /\ Finish(p, "failed") /\ UNCHANGED prot
  /\ UNCHANGED <<shell, live, disk, owner>>

\* The page changed since it was queried: put back what was found.
PUndo(p) ==
  /\ At(p, "p_undo")
  /\ \/ Reach(p) /\ NoFault /\ prot' = job[p].old
     \/ CallFails(p) /\ UNCHANGED prot
  /\ Finish(p, "failed")
  /\ UNCHANGED <<shell, live, disk, owner>>

\* The protection is queried again before the caller goes on.
PCheck(p) ==
  /\ At(p, "p_check")
  /\ \/ /\ Reach(p) /\ NoFault
        /\ IF prot = job[p].rec.prot THEN ProtectionInOrder(p) ELSE Finish(p, "failed")
     \/ CallFails(p) /\ Finish(p, "failed")
  /\ UNCHANGED <<shell, memory, disk, owner>>

\* The bytes are read back.
VBytes(p) ==
  /\ At(p, "v_bytes")
  /\ \/ /\ Reach(p) /\ NoFault
        /\ IF live = Target(p) THEN Goto(p, "v_prot") /\ Keep ELSE VerifyFailed(p)
     \/ CallFails(p) /\ VerifyFailed(p)
  /\ UNCHANGED <<shell, memory, disk, owner>>

\* Then the protection.
VProt(p) ==
  /\ At(p, "v_prot")
  /\ \/ /\ Reach(p) /\ NoFault
        /\ IF prot = job[p].rec.prot THEN VerifyDone(p) ELSE VerifyFailed(p)
     \/ CallFails(p) /\ VerifyFailed(p)
  /\ UNCHANGED <<shell, memory, disk, owner>>

------------------------------------------------------------------------------
(* The rest of the machine *)

\* Mutant: an abandoned mutex is never granted again.
CrashHolding(p) ==
  /\ pc[p] # "idle"
  /\ Fault
  /\ Goto(p, "idle") /\ Local(p, IdleJob)
  /\ UNCHANGED <<shell, memory, disk, owner>>

\* The instance is killed: Windows abandons the mutex, the file stays.
Crash(p) ==
  /\ pc[p] # "idle"
  /\ Fault
  /\ owner' = IF owner = p THEN NoProc ELSE owner
  /\ Goto(p, "idle") /\ Local(p, IdleJob)
  /\ UNCHANGED <<shell, memory, disk>>

\* Explorer exits, and its memory with it.
ExplorerExit ==
  /\ explorer # NoExplorer
  /\ explorer' = NoExplorer
  /\ live' = Original[explorer.image] /\ prot' = HomeProtection /\ given' = {HomeProtection}
  /\ UNCHANGED <<started, diskImage, disk, owner, pc, job, budget>>

\* A new Explorer maps a fresh copy of the shell32.dll on the disk.
ExplorerStart ==
  /\ explorer = NoExplorer
  /\ started < MaxStarts
  /\ started' = started + 1
  /\ \E pid \in Pids : explorer' = [pid |-> pid, created |-> started + 1, image |-> diskImage]
  /\ live' = Original[diskImage] /\ prot' = HomeProtection /\ given' = {HomeProtection}
  /\ UNCHANGED <<diskImage, disk, owner, pc, job, budget>>

\* Windows servicing replaces shell32.dll under a running Explorer.
Servicing ==
  /\ \E image \in Images \ {diskImage} : diskImage' = image
  /\ UNCHANGED <<explorer, started, given, memory, disk, owner, pc, job, budget>>

\* Another program writes a target byte; it never writes the patch's.
ForeignWrite ==
  /\ explorer # NoExplorer /\ foreign < MaxForeign
  /\ \E i \in 1..PatchLength, b \in Bytes :
       b # Patch[i] /\ b # live[i] /\ live' = [live EXCEPT ![i] = b]
  /\ foreign' = foreign + 1
  /\ UNCHANGED <<shell, prot, disk, owner, pc, job, faults, losses>>

\* Another program changes the protection of the page.
ForeignProtect ==
  /\ explorer # NoExplorer /\ foreign < MaxForeign
  /\ prot' \in Protections \ {prot}
  /\ given' = given \cup {prot'}
  /\ foreign' = foreign + 1
  /\ UNCHANGED <<explorer, started, diskImage, live, disk, owner, pc, job, faults, losses>>

\* The rollback file is deleted or damaged from outside.
StateLost ==
  /\ disk \notin {NoState, Corrupt} /\ losses < MaxLosses
  /\ disk' \in {NoState, Corrupt}
  /\ losses' = losses + 1
  /\ UNCHANGED <<shell, memory, owner, pc, job, faults, foreign>>

Environment ==
  \/ ExplorerExit \/ ExplorerStart \/ Servicing
  \/ ForeignWrite \/ ForeignProtect \/ StateLost

\* What the program does once it has been started.
Step(p) ==
  \/ Acquire(p) \/ AcquireTimeout(p) \/ Load(p) \/ Find(p) \/ Attach(p)
  \/ Match(p) \/ Candidate(p) \/ Query(p) \/ Adopt(p) \/ Readback(p) \/ Save(p)
  \/ Compare(p) \/ Read(p) \/ Examine(p) \/ Flush(p) \/ Delete(p) \/ Release(p)
  \/ WProtect(p) \/ WUndo(p) \/ WWrite(p) \/ WClose(p) \/ WCheck(p)
  \/ PSet(p) \/ PUndo(p) \/ PCheck(p) \/ VBytes(p) \/ VProt(p)

Next == (\E p \in Procs : Run(p) \/ Step(p) \/ Crash(p)) \/ Environment

Spec == Init /\ [][Next]_vars

\* Windows schedules a running process, and every call it makes returns.
FairSpec == Spec /\ \A p \in Procs : WF_vars(Step(p))

------------------------------------------------------------------------------
(* What a transaction promises *)

\* Every variable stays within the values its C type can hold.
TypeOK ==
  /\ explorer \in Explorer \cup {NoExplorer}
  /\ started \in Nat
  /\ diskImage \in Images
  /\ live \in Code
  /\ prot \in Protections
  /\ given \in SUBSET Protections
  /\ disk \in Record \cup {NoState, Corrupt}
  /\ owner \in Procs \cup {NoProc}
  /\ pc \in [Procs -> Labels]
  /\ job \in [Procs -> Job]
  /\ faults \in Nat /\ foreign \in Nat /\ losses \in Nat

\* Some byte of the patch is in the running Explorer.
Tainted ==
  /\ explorer # NoExplorer
  /\ \E i \in 1..PatchLength : live[i] = Patch[i] /\ live[i] # Original[explorer.image][i]

\* The rollback file describes the running Explorer and its unpatched bytes.
Covered ==
  /\ disk \in Record
  /\ disk.pid = explorer.pid /\ disk.created = explorer.created
  /\ disk.image = explorer.image /\ disk.original = Original[explorer.image]

\* A byte of the patch is never in Explorer without a durable record that can
\* undo it, whatever instance was killed and whichever call failed.
UndoCovers == losses = 0 /\ Tainted => Covered

\* A protection that neither the loader nor another program has given to the page
\* is never there without a record that puts back one of theirs, also when they
\* change it between a query and the VirtualProtectEx that relies on it; and it
\* outlives the call that has set it only if something has failed.
HomeCovers ==
  explorer # NoExplorer /\ prot \notin given =>
    /\ losses = 0 => Covered /\ disk.prot \in given
    /\ faults = 0 => owner # NoProc

\* What an instance says on its way out is true of Explorer and of the file, if
\* that Explorer is still running and no other program has interfered.
ReportHolds(p) ==
  LET said == job[p].result
      rec  == job[p].rec
  IN
  /\ said \in {"applied", "verified", "adopted"} /\ explorer = job[p].ctx
       => live = Patch /\ prot = rec.prot /\ (losses = 0 => disk = rec)
  /\ said = "restored" /\ explorer = job[p].ctx
       => live = Original[explorer.image] /\ prot = rec.prot
  /\ said \in {"gone", "nothing"} /\ losses = 0 => ~Tainted
TruthfulReport == \A p \in Procs : pc[p] = "release" /\ foreign = 0 => ReportHolds(p)

\* "another program changed the target bytes" is said only when one did.
RefusalBlamesOthers ==
  \A p \in Procs : pc[p] = "release" /\ job[p].result = "refused" => foreign > 0

\* Restore overwrites only bytes it recognises: the original's, the patch's, or
\* a torn write of the patch (README.ja.md: only when the current value matches).
RestoresKnownBytes ==
  [][\A p \in Procs :
       job[p].phase = "restore" /\ At(p, "w_write") /\ pc'[p] = "w_close" /\ live' # live
         => Classify(live, job[p].rec) # "unknown"]_vars

\* An instance changes Explorer only under a record that names that very run of
\* Explorer and that is already on the disk, the one it holds in memory.
WriteAhead ==
  [][\A p \in Procs : pc'[p] # pc[p] /\ memory' # memory =>
       /\ job[p].rec \in Record
       /\ job[p].rec.created = explorer.created /\ job[p].rec.image = explorer.image
       /\ losses = 0 => disk = job[p].rec]_vars

\* A dry run writes neither to Explorer nor to the rollback file.
DryRunIsDry ==
  [][\A p \in Procs : job[p].dry /\ pc'[p] # pc[p] => UNCHANGED <<memory, disk>>]_vars

\* All of this is the protocol of GuardedPatch: seen from outside an instance
\* takes the mutex, saves a record, changes bytes under it, and deletes it when
\* they are clean; failures, kills and other programs add nothing to it.
Guard == INSTANCE GuardedPatch WITH
  Instances <- Procs,
  Nobody <- NoProc,
  holder <- owner,
  touched <- Tainted,
  covered <- (explorer # NoExplorer /\ Covered),
  lost <- (losses > 0)

ImplementsGuard == Guard!Spec

\* Every instance that is started comes to an end, the mutex free or not.
Terminates == \A p \in Procs : pc[p] # "idle" ~> pc[p] = "idle"

\* A user keeps running Restore, and Windows lets each instance into the mutex
\* now and then.
RunRestore(p) == Run(p) /\ job'[p].op = "restore" /\ ~job'[p].dry
PersistentUser == \A p \in Procs : SF_vars(RunRestore(p)) /\ SF_vars(Acquire(p))
OnlyRestore == \A p \in Procs : pc[p] # "idle" => job[p].op = "restore" /\ ~job[p].dry

\* What a torn Restore leaves of a patch, itself whole or torn: the mixtures that
\* Restore does not recognise.
TornRestore ==
  /\ explorer # NoExplorer
  /\ \E restored \in 1..(PatchLength - 1) : \E patched \in (restored + 1)..PatchLength :
       live = Spliced(Original[explorer.image], restored,
                      Spliced(Patch, patched, Original[explorer.image]))

\* Once only Restore is run any more, it takes every byte of the patch out of
\* Explorer, whatever was interrupted before, unless a Restore itself is torn;
\* on x64, where the patch is one byte, there is no such exception.
Recovers == PersistentUser /\ <>[]OnlyRestore => <>[](~Tainted) \/ <>[]TornRestore

------------------------------------------------------------------------------
(* Why UndoCovers holds: what is true of an instance at each of its labels *)

\* Labels at which Explorer may be written, or has been.
Writing == {"read", "examine", "w_protect", "w_undo", "w_write", "w_close", "w_check",
            "p_set", "p_undo", "p_check", "flush", "v_bytes", "v_prot"}
Recording == {"adopt", "readback", "save"}

\* restore_patch holds the record it has loaded from the file.
Loaded(p) == pc[p] = "compare" \/ (pc[p] \in {"find", "attach"} /\ job[p].op = "restore")

SoundRecord(rec) == rec \in Record /\ rec.original = Original[rec.image]

\* Only one instance is between Acquire and Release.
MutexHeld(p) == pc[p] \in Critical => owner = p

\* The record in memory holds the original bytes of its image.
RecordSound(p) ==
  Loaded(p) \/ pc[p] \in Recording \cup Writing => SoundRecord(job[p].rec)

\* It describes the process the handle is open on.
RecordNames(p) ==
  pc[p] \in Recording \cup Writing =>
    SameProcess(job[p].rec, job[p].ctx) /\ job[p].rec.image = job[p].ctx.image

\* What it is made from is the file of the module that Explorer has loaded.
FileMatches(p) == pc[p] \in {"candidate", "query"} => job[p].file = job[p].ctx.image

\* It is the one on the disk.
InHand(p) == losses = 0 /\ (Loaded(p) \/ pc[p] \in Writing) => disk = job[p].rec

\* Another Explorer than the one the handle is open on was never written.
OthersClean(p) ==
  pc[p] \in Attached => job[p].ctx \in Explorer /\ (explorer # job[p].ctx => ~Tainted)

\* The record is deleted only once nothing is left to undo.
CleanBeforeDelete(p) ==
  /\ pc[p] = "v_prot" /\ job[p].phase \notin {"apply", "repair"} => ~Tainted
  /\ pc[p] = "delete" /\ losses = 0 => ~Tainted

InstanceInv(p) ==
  /\ MutexHeld(p) /\ FileMatches(p) /\ RecordSound(p) /\ RecordNames(p)
  /\ InHand(p) /\ OthersClean(p) /\ CleanBeforeDelete(p)

\* The inductive invariant.
IInv ==
  /\ TypeOK
  /\ disk \in Record => SoundRecord(disk)
  /\ UndoCovers
  /\ \A p \in Procs : InstanceInv(p)
==============================================================================
