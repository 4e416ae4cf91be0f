---------------------------- MODULE ExplorerAttach ----------------------------
(***************************************************************************)
(* open_context of windows_backend.c with the helpers it calls: find the   *)
(* pid of the desktop's owner, look at its session, open it, and read what *)
(* it is, when it started, and which shell32.dll it has mapped, one system *)
(* call at a time.  Meanwhile processes of every session start and exit,   *)
(* pids are used again, the desktop's window comes and goes, and Windows   *)
(* servicing replaces shell32.dll.                                         *)
(*                                                                         *)
(* Windows does not give a pid away while a handle is open on its former   *)
(* owner: that is what ties the calls by pid behind OpenProcess to those   *)
(* by handle.                                                              *)
(***************************************************************************)
EXTENDS Naturals

CONSTANTS
  Pids,
  Sessions,
  Own,           \* the session this program runs in
  Images,        \* versions of shell32.dll
  WaitSeconds,   \* --wait
  MaxAttempts,   \* how often a module snapshot is tried (5 in the code)
  MaxBirths,     \* bound: processes that start; the newest creation time
  Nobody         \* no pid, no process, no image

Process == [pid : Pids, session : Sessions, canonical : BOOLEAN, native : BOOLEAN,
            born : 1..MaxBirths, image : Images]

ASSUME AttachAssumption ==
  /\ Own \in Sessions
  /\ WaitSeconds \in Nat /\ MaxAttempts \in Nat \ {0} /\ MaxBirths \in Nat
  /\ Nobody \notin Process \cup Pids \cup Images \cup Nat

VARIABLES
  running,     \* the processes of interest
  births,      \* how many have started
  desktop,     \* the pid that owns the shell window of this session
  onDisk,      \* shell32.dll on the disk
  pc,
  slept,       \* seconds waited, the loop's elapsed
  attempt,     \* the loop counter of find_shell32_module
  matching,    \* require_disk_match
  pid,         \* context->explorer_pid
  handle,      \* the process context->explorer is open on
  created,     \* context->explorer_creation_time
  module,      \* the process whose list gave shell32.dll's base, size and path
  loaded,      \* the image whose headers were read at that base
  image,       \* the image that was read from the disk
  said,        \* why the call failed
  swapped,     \* history: the pid changed hands between its check and OpenProcess
  present      \* history: the second since which there is a shell window

system == <<running, births, desktop, onDisk>>
context == <<matching, pid, handle, created, module, loaded, image>>
history == <<swapped, present>>
vars == <<running, births, desktop, onDisk, pc, slept, attempt, matching, pid, handle,
          created, module, loaded, image, said, swapped, present>>

Labels == {"poll", "session", "open", "name", "times", "machine", "module", "headers",
           "file", "policy", "attached", "failed"}

Init ==
  /\ running = {} /\ births = 0 /\ desktop = Nobody
  /\ onDisk \in Images
  /\ pc = "poll" /\ slept = 0 /\ attempt = 1
  /\ matching \in BOOLEAN
  /\ pid = Nobody /\ handle = Nobody /\ created = 0
  /\ module = Nobody /\ loaded = Nobody /\ image = Nobody
  /\ said = "nothing"
  /\ swapped = FALSE /\ present = Nobody

------------------------------------------------------------------------------
(* The system around the program *)

Owner(p) == {proc \in running : proc.pid = p}

\* A pid is free when no process has it and no handle is open on one that had.
Start ==
  /\ births < MaxBirths
  /\ \E p \in Pids, s \in Sessions, canonical, native \in BOOLEAN :
       /\ Owner(p) = {} /\ (handle # Nobody => handle.pid # p)
       /\ running' = running \cup {[pid |-> p, session |-> s, canonical |-> canonical,
                                    native |-> native, born |-> births + 1, image |-> onDisk]}
       /\ swapped' = (swapped \/ (pc = "open" /\ p = pid))
  /\ births' = births + 1
  /\ UNCHANGED <<desktop, onDisk, pc, slept, attempt, context, said, present>>

Exit ==
  /\ \E proc \in running :
       /\ running' = running \ {proc}
       /\ IF desktop = proc.pid THEN desktop' = Nobody /\ present' = Nobody
          ELSE UNCHANGED <<desktop, present>>
  /\ UNCHANGED <<births, onDisk, pc, slept, attempt, context, said, swapped>>

\* A process of this session makes the desktop's window.
Register ==
  /\ desktop = Nobody
  /\ \E proc \in running : proc.session = Own /\ desktop' = proc.pid
  /\ present' = slept
  /\ UNCHANGED <<running, births, onDisk, pc, slept, attempt, context, said, swapped>>

Servicing ==
  /\ onDisk' \in Images \ {onDisk}
  /\ UNCHANGED <<running, births, desktop, pc, slept, attempt, context, said, history>>

Environment == Start \/ Exit \/ Register \/ Servicing

------------------------------------------------------------------------------
(* open_context *)

Proceed(label) == pc' = label /\ UNCHANGED <<slept, said, system, history>>

\* A return of -1 once the process is open: close_context.
Abandon ==
  /\ pc' = "failed" /\ said' = "unsuitable"
  /\ handle' = Nobody /\ image' = Nobody
  /\ UNCHANGED <<slept, attempt, matching, pid, created, module, loaded, system, history>>

\* Mutant: the loop stops before the last look.
PollOnceLess ==
  /\ pc = "poll"
  /\ \/ /\ desktop # Nobody /\ pid' = desktop /\ pc' = "session"
        /\ UNCHANGED <<slept, said>>
     \/ /\ desktop = Nobody /\ slept + 1 < WaitSeconds /\ slept' = slept + 1
        /\ UNCHANGED <<pc, pid, said>>
     \/ /\ desktop = Nobody /\ slept + 1 >= WaitSeconds /\ pc' = "failed" /\ said' = "absent"
        /\ UNCHANGED <<slept, pid>>
  /\ UNCHANGED <<attempt, matching, handle, created, module, loaded, image, system, history>>

\* wait_for_explorer_pid: look at the desktop, sleep, and look again.
Poll ==
  /\ pc = "poll"
  /\ \/ /\ desktop # Nobody /\ pid' = desktop /\ pc' = "session"
        /\ UNCHANGED <<slept, said>>
     \/ /\ desktop = Nobody /\ slept < WaitSeconds /\ slept' = slept + 1
        /\ UNCHANGED <<pc, pid, said>>
     \/ /\ desktop = Nobody /\ slept = WaitSeconds /\ pc' = "failed" /\ said' = "absent"
        /\ UNCHANGED <<slept, pid>>
  /\ UNCHANGED <<attempt, matching, handle, created, module, loaded, image, system, history>>

\* ProcessIdToSessionId: the pid may have a new owner, or none, by now.
Session ==
  /\ pc = "session"
  /\ \/ /\ \E proc \in Owner(pid) : proc.session = Own
        /\ pc' = "open" /\ UNCHANGED said
     \/ pc' = "failed" /\ said' = "session"
  /\ UNCHANGED <<slept, attempt, context, system, history>>

OpenProcess ==
  /\ pc = "open"
  /\ \/ handle' \in Owner(pid) /\ pc' = "name" /\ UNCHANGED said
     \/ handle' = Nobody /\ pc' = "failed" /\ said' = "unsuitable"
  /\ UNCHANGED <<slept, attempt, matching, pid, created, module, loaded, image, system, history>>

\* verify_explorer_image; like any call, it may also fail.
Name ==
  /\ pc = "name"
  /\ \/ handle.canonical /\ Proceed("times") /\ UNCHANGED <<attempt, context>>
     \/ Abandon

Times ==
  /\ pc = "times"
  /\ \/ /\ created' = handle.born
        /\ Proceed("machine") /\ UNCHANGED <<attempt, matching, pid, handle, module, loaded, image>>
     \/ Abandon

\* query_process_machine, and the comparison with the program's own machine.
Machine ==
  /\ pc = "machine"
  /\ \/ handle.native /\ Proceed("module") /\ UNCHANGED <<attempt, context>>
     \/ Abandon

\* Mutant: the snapshot is tried again for ever.
ModuleForever ==
  /\ pc = "module"
  /\ \/ /\ module' \in Owner(pid)
        /\ Proceed("headers") /\ UNCHANGED <<attempt, matching, pid, handle, created, loaded, image>>
     \/ attempt <= MaxAttempts /\ attempt' = attempt + 1 /\ Proceed("module") /\ UNCHANGED context
     \/ Abandon

\* find_shell32_module: a snapshot by pid, tried again while the list changes.
Module ==
  /\ pc = "module"
  /\ \/ /\ module' \in Owner(pid)
        /\ Proceed("headers") /\ UNCHANGED <<attempt, matching, pid, handle, created, loaded, image>>
     \/ attempt < MaxAttempts /\ attempt' = attempt + 1 /\ Proceed("module") /\ UNCHANGED context
     \/ Abandon

\* read_remote_pe_identity: through the handle, at the base the snapshot gave;
\* the size of the image must be the snapshot's.
Headers ==
  /\ pc = "headers"
  /\ \/ /\ handle \in running /\ handle.image = module.image
        /\ loaded' = handle.image
        /\ Proceed(IF matching THEN "file" ELSE "policy")
        /\ UNCHANGED <<attempt, matching, pid, handle, created, module, image>>
     \/ Abandon

\* Mutant: the identities of the loaded and of the read image are not compared.
AnyFile ==
  /\ pc = "file"
  /\ \/ /\ image' = onDisk
        /\ Proceed("policy") /\ UNCHANGED <<attempt, matching, pid, handle, created, module, loaded>>
     \/ Abandon

\* read_entire_file, uwd_pe_identity, sha256_buffer and the comparison.
File ==
  /\ pc = "file"
  /\ \/ /\ image' = onDisk /\ onDisk = loaded
        /\ Proceed("policy") /\ UNCHANGED <<attempt, matching, pid, handle, created, module, loaded>>
     \/ Abandon

\* Its failure is noted, not returned.
Policy == pc = "policy" /\ Proceed("attached") /\ UNCHANGED <<attempt, context>>

Step ==
  \/ Poll \/ Session \/ OpenProcess \/ Name \/ Times \/ Machine \/ Module \/ Headers
  \/ File \/ Policy

Next == Step \/ Environment

Spec == Init /\ [][Next]_vars

------------------------------------------------------------------------------
(* Properties *)

\* Every variable has its type; the snapshot is tried at most five times.
TypeOK ==
  /\ running \subseteq Process /\ births \in 0..MaxBirths
  /\ desktop \in Pids \cup {Nobody} /\ onDisk \in Images
  /\ pc \in Labels
  /\ slept \in 0..WaitSeconds /\ attempt \in 1..MaxAttempts
  /\ matching \in BOOLEAN
  /\ pid \in Pids \cup {Nobody}
  /\ handle \in Process \cup {Nobody} /\ module \in Process \cup {Nobody}
  /\ created \in 0..MaxBirths
  /\ loaded \in Images \cup {Nobody} /\ image \in Images \cup {Nobody}
  /\ said \in {"nothing", "absent", "session", "unsuitable"}
  /\ swapped \in BOOLEAN /\ present \in (0..WaitSeconds) \cup {Nobody}

\* When open_context returns 0, all it has gathered, by pid, by handle and from
\* the disk, is about one process: the canonical, native Explorer the handle is
\* open on, whatever exited, started or was serviced meanwhile.  It is one of
\* this session, unless the pid changed hands just before OpenProcess.  When it
\* returns -1, it has left nothing open.
ContextExact ==
  /\ pc = "attached" =>
       /\ handle.canonical /\ handle.native
       /\ created = handle.born
       /\ module = handle /\ loaded = handle.image
       /\ matching => image = handle.image
       /\ ~swapped => handle.session = Own
  /\ pc = "failed" => handle = Nobody /\ image = Nobody

\* "Explorer is not running" is said only after the whole of --wait, and never of
\* a desktop that has been there since an earlier second.
LooksToTheEnd ==
  said = "absent" => slept = WaitSeconds /\ present \in {WaitSeconds, Nobody}

\* What comes of the eight calls is what the three steps of Attachment say: it
\* attaches when OpenProcess does, and the checks behind that only decide whether
\* this process was one to attach to.
Eligible(proc) == proc.canonical /\ proc.native

Stage ==
  CASE pc = "poll" -> "find"
    [] pc = "failed" -> "failed"
    [] pc \in {"policy", "attached"} -> "done"
    [] OTHER -> IF handle # Nobody /\ Eligible(handle) THEN "match" ELSE "attach"

Steps == INSTANCE Attachment WITH
  eligible <- {proc \in running : Eligible(proc)},
  stage <- Stage,
  ctx <- IF handle # Nobody /\ Eligible(handle) THEN handle ELSE Nobody

ImplementsAttachment == Steps!Spec
==============================================================================
