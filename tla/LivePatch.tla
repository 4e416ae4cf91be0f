------------------------------ MODULE LivePatch ------------------------------
(***************************************************************************)
(* The data one Apply/Restore transaction works on, and the pure decisions *)
(* windows_backend.c takes over it: the bytes at the watermark function,   *)
(* their page protection, the rollback record, and what a reading of the   *)
(* live bytes means.                                                       *)
(*                                                                         *)
(* A byte is a member of a small set, since the code only ever compares    *)
(* bytes for equality.  The disassembled function, its 16-byte window and  *)
(* its address are left out: what is kept is the PatchLength-byte prefix   *)
(* that is overwritten (1 byte on x64, 4 on ARM64).                        *)
(***************************************************************************)
EXTENDS Integers

CONSTANTS
  Pids,                \* process identifiers Windows may give to Explorer
  Images,              \* versions of shell32.dll
  Bytes,               \* byte values
  PatchLength,         \* bytes that are overwritten
  Original,            \* [Images -> code]: the function's first bytes
  Patch,               \* the RET that replaces them
  Protections,         \* page protections
  Executable,          \* those is_executable_protection accepts
  WritableExecutable,  \* those is_writable_executable_protection accepts
  HomeProtection,      \* the protection the loader gives to code
  RWX,                 \* PAGE_EXECUTE_READWRITE
  NoExplorer,          \* there is no Explorer (or no handle to one)
  NoState,             \* there is no rollback state file (or no record in memory)
  Corrupt              \* the file exists and load_state rejects it

Code == [1..PatchLength -> Bytes]

\* One run of explorer.exe: Windows may reuse the pid, never the creation time.
Explorer == [pid : Pids, created : Nat, image : Images]

\* UwdPatchState, for a given session, base address and machine.
Record == [pid : Pids, created : Nat, image : Images, original : Code, prot : Protections]

ASSUME CodeAssumption ==
  /\ PatchLength \in Nat \ {0}
  /\ Original \in [Images -> Code]
  /\ Patch \in Code

ASSUME ProtectionAssumption ==
  /\ Executable \subseteq Protections
  /\ WritableExecutable \subseteq Executable
  /\ HomeProtection \in Executable \ WritableExecutable
  /\ RWX \in WritableExecutable

ASSUME TagAssumption ==
  /\ NoExplorer \notin Explorer
  /\ NoState \notin Record
  /\ Corrupt \notin Record
  /\ Corrupt # NoState

\* Only committed code that is executable and read-only is ever patched.
Patchable(prot) == prot \in Executable \ WritableExecutable

\* Mutant: the creation time is not compared.
SamePid(rec, shell) == rec.pid = shell.pid

\* The record and the process name the same run of Explorer.
SameProcess(rec, shell) == rec.pid = shell.pid /\ rec.created = shell.created

\* The first k bytes of one code followed by the rest of another.
Spliced(front, k, back) == [i \in 1..PatchLength |-> IF i <= k THEN front[i] ELSE back[i]]

\* classify_live_patch_bytes: what the bytes found at the target mean.
Verdicts == {"original", "patch", "partial", "unknown"}

Classify(bytes, rec) ==
  IF bytes = rec.original THEN "original"
  ELSE IF bytes = Patch THEN "patch"
  ELSE IF \E cut \in 1..(PatchLength - 1) : bytes = Spliced(Patch, cut, rec.original)
    THEN "partial"
  ELSE "unknown"
==============================================================================
