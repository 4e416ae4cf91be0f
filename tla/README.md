# TLA+ specifications of the watermark disabler

This directory models the program in `src/`: a console tool that finds the
function of Windows Explorer's `shell32.dll` that paints the desktop watermark
and overwrites its first bytes with a return, in the memory of the running
Explorer, reversibly. Six parts are modelled, model-checked with TLC and proved about
with TLAPS: the **live patch transaction**, the **rollback record store**
under it, the **attachment to Explorer**, the **PE parser with the structural
search and the PDB identity** built on it, the **symbol resolver with its shared
PDB cache**, and the **program around them**: command line, menu,
configuration file and startup entry.

Line numbers below are those of `src/src/windows_backend.c` unless another file
is named.

## 1. The system

### Components

| Component | Source | State it keeps | Operations | Modelled |
|---|---|---|---|---|
| Live patch transaction | `uwd_execute`, `apply_patch`, `restore_patch` and the routines they share, 1296-1387, 1537-2259 and 2433-2490 | Explorer's code bytes and page protection; the named mutex; local state of the call | Apply, Restore, both as dry runs | `LivePatch`, `PatchTransaction`; abstractly `GuardedPatch` |
| Explorer attachment | `wait_for_explorer_pid`, `open_context`, 268-742 | the process handle, the pid, the parsed image | find, open, check | `ExplorerAttach`; abstractly `Attachment`, the three actions of `PatchTransaction` |
| Rollback record store | `save_state`, `load_state`, `delete_state`, 1389-1535 | `patch-state-<session>.bin` | replace, load with checks, delete | `RollbackRecord`, `RollbackStore`; abstractly `RecordStore` |
| Symbol resolver and PDB cache | `resolve_with_symbols`, `resolve_cached_symbols`, `download_public_pdb`, 744-1290 | one cached PDB per GUID and age; a download file per process | look, load, delete, download, publish, load again | `SymbolCache` |
| PE parser and RVA mapping | `pe_scan.c` | none (pure) | parse, map, is-executable | `PeImage` |
| Structural watermark scan | `pe_scan.c`, `uwd_pe_find_watermark_rva` | loop counters, `UwdScanState` | scan imports, calls, `.pdata` | `WatermarkScan` |
| PE and PDB identity | `pe_scan.c` 416-528, 925-1049 | loop counters, the selected identity | read debug directory and CodeView records | `PdbIdentity` |
| Per-user startup entry | `set_startup`, 2261-2348 | one value of the Run key | enable, disable | `CommandLine`, `Program` |
| Diagnostics | `show_diagnostics`, 2350-2431 | none of its own | resolve, scan, report | partly: its symbol lookup is a process of `SymbolCache`, its candidate the result of `WatermarkScan` |
| Command line | `main.c`, `wmain`, `run_tui` | parsed options | parse, dispatch | `CommandLine`, `Program` |
| Universal-TUI | `third_party/universal-tui/utui.c` | menu stack, dialogs, configuration file, key queue | navigation, edit, save, load | `ConfigFile`, `Program`, for this program's menu |
| 2015 installer and proxy | `installer/`, `proxy/` | | | no: excluded from new builds (`README.ja.md:27-28`) |
| Build, tests, resources | `CMakeLists.txt`, `tests/`, `resources/` | | | no run-time behaviour |

### How they interact

`wmain` fills in options, from its arguments or from the menu, whose values
survive in `uwd.config`, and calls `uwd_execute`. Enable stores a command in
the Run key, with which Windows calls `wmain` at each logon. Apply and Restore take the
mutex of the logon session and then attach to Explorer: they find the pid of
the desktop's owner, open the process, and read and parse the `shell32.dll` on
the disk. Apply then asks the symbol resolver for the address of the function
(exact symbols only; the structural search is *not* a fallback of Apply, it is
called by Diagnostics alone, 2373), compares the live bytes with those of the
image, saves the rollback record, and changes Explorer. Restore starts from
the record. Diagnostics takes no mutex (2436, 2468) and neither does the
symbol validator; they meet Apply only in the PDB cache, which belongs to
the user and not to the session.

Nothing in the program is multi-threaded. What makes it hard is that every
object it touches is shared: Explorer may exit, restart or be restarted under
another image at any moment; another program may write the same bytes; a
second instance may run; Windows servicing replaces `shell32.dll`; the process
may be killed between any two system calls; a call on another process may fail
with part of its effect done.

### What is hard, and what makes each component correct

* **Transaction.** Killed between the write-ahead record and the write, or
  between the write and the protection change; a write that is torn; a
  rollback that fails too; an Explorer that restarts with the same pid; an
  abandoned mutex; bytes changed between a check and its use. Correct when a
  patched byte is never in Explorer without a durable record that undoes it,
  when what an instance reports is true, and when Restore always gets there
  in the end.
* **PE parser and scan.** Unsigned arithmetic at the edges of sections; debug
  entries that agree, disagree or are damaged, in any order; a
  binary search over a table whose sortedness is only checked between
  neighbours; a result that must not depend on the order in which candidates
  come. Correct when each accepted image maps addresses to bytes one to one,
  and the search names a function exactly when it is the only one.
* **Resolver and cache.** The image is read once and its PDB looked up later,
  by a library that opens the image again; a cached file that another process
  deletes, replaces or leaves behind; half a download. Correct when the
  address comes from the PDB of exactly the image that was read, when the
  cache never holds part of a file, and when a bad cached file heals.
* **Record store.** A kill or a power loss between the creation of the temporary
  file, its flush and the rename; leftovers of an earlier death; files of
  several sessions in one directory. Correct when a record is replaced as a whole
  and for good, or not at all.
* **Attachment.** Eight system calls, some by pid and some by handle, while processes
  exit and pids are used again and the file on the disk is serviced. Correct
  when all of them spoke of one process.
* **Program.** Nested dialogs each with three ways out, a Ctrl-C flag that is seen
  only by the next wait for a key, two different paths that save and
  then execute, a file name cut to a buffer, a configuration written in place,
  and a command line that is written today and parsed at a logon weeks later.
  Correct when only what was saved is executed, a damaged file only turns
  things off, and a logon does what the user chose.

`PROJECT.json` lists each hazard at its line, with the properties that cover
it or the reason why none does.

## 2. Modules

    LivePatch      <-  PatchTransaction <-  MCPatchTransaction      (TLC)
    GuardedPatch   <=  (INSTANCE)       <-  PatchTransactionProofs  (TLAPS)
    RollbackRecord <-  RollbackStore    <-  MCRollbackStore         (TLC)
    RecordStore    <=  (INSTANCE)       <-  RollbackStoreProofs     (TLAPS)
    Attachment     <=  ExplorerAttach   <-  ExplorerAttachProofs    (TLAPS)
    ConfigFile     <-  Program          <-  MCProgram               (TLC)
    CommandLine    <-                   <-  ProgramProofs           (TLAPS)
    PeImage        <-  WatermarkScan    <-  MCWatermarkScan         (TLC)
                   <-  PeImageProofs    <-  WatermarkScanProofs     (TLAPS)
                   <-  PdbIdentity      <-  MCPdbIdentity           (TLC)
                                        <-  PdbIdentityProofs       (TLAPS)
                       SymbolCache      <-  MCSymbolCache           (TLC)
                                        <-  SymbolCacheProofs       (TLAPS)

No module declares a RECURSIVE operator; loops of the code are steps.
Definitions whose comment begins with "Mutant" are plausible bugs, kept beside
the definition they distort; `PROJECT.json` names the property that each one
breaks.

### PatchTransaction (with LivePatch)

One action is one system call, with the decisions the code takes up to the next
one; `pc[p]` is the call instance `p` is about to make. `job[p]` holds its local
variables under (nearly) their C names. `write_remote_bytes` (`W...` actions),
`restore_remote_protection` (`P...`), `verify_remote_bytes_and_protection`
(`V...`) and `rollback_remote_state` are each called from several places;
`job[p].phase` says on whose behalf they run and therefore where they return.

| Variable | In the program |
|---|---|
| `explorer`, `started` | the running `explorer.exe`: pid, creation time and the image it mapped; Windows may reuse a pid, never the creation time |
| `diskImage` | the `shell32.dll` on the disk |
| `given` | history: what the loader and other programs have set the page's protection to since this Explorer started |
| `live`, `prot` | the target bytes in Explorer and their page's protection |
| `disk` | `patch-state-<session>.bin`: none, rejected by `load_state`, or a record |
| `owner` | the holder of the transaction mutex |
| `pc`, `job` | each instance |
| `faults`, `foreign`, `losses` | what has been used of the bounds |

Abstractions: a byte is a member of a small set, because the code only compares
bytes for equality; a `shell32.dll` is an image, and `job[p].file`
(`context.image`) is the one that `Match` has read from the disk: the bytes that
Apply compares Explorer with, and those it puts into the record, come from there,
not from Explorer. The function's disassembly, the 16-byte window behind the
patch and the symbol lookup are one nondeterministic failure of `Candidate`;
the system's dynamic-code policy is a nondeterministic failure of `Match`;
the record file is replaced in one step or not at all, which is what
`RollbackStore` is shown to implement; `Find`, `Attach` and `Match` are the
calls of `open_context`, which `ExplorerAttach` takes apart. A `CreateMutexW` that fails ends the call as
`Crash` does at `acquire`, and is not an action of its own. The
environment never writes the patch's own byte, since a program that did could
not be told from this one. All instances are in one session of one user. The
refresh of the desktop at the end changes no state modelled here.

`GuardedPatch` is what the 27 labels come down to: one holder at a time,
who touches Explorer only while it is covered by a record and uncovers it only
when nothing is left to undo (`ImplementsGuard`). The mapping is `holder <- owner`,
`touched <- Tainted` (a byte of the patch is in Explorer) and `covered <- Held`
(the record on the disk is of this run of Explorer and has its own bytes). A
record that was lost ends the promise (`lost`), as it does in the program.

### RollbackStore, RollbackRecord and RecordStore

`RollbackRecord` says what a record can be that `apply_patch` saves and,
independently, what `load_state` accepts. `Savable` is the records that `apply_patch`
fills in (`Filled`) for targets that have passed its own checks: the address comes from
`symbol_callback`, which counts no misaligned symbol on ARM64 (`Resolved`), and the page
has a protection it goes on with (`Adoptable`); `save_state` checks nothing.
`Accepts` is the list of tests in `load_state`. That the first implies the second is a
property (`NeverCorrupt`) and a lemma (`SavableIsAccepted`). `RollbackStore` has one action per
system call of `save_state`. `file` is what programs see, `onDisk` what a power
loss leaves; the two differ after a deletion, which the file system writes when it
likes (`Settle`), but not after a rename, because of `MOVEFILE_WRITE_THROUGH`. Bytes
that were not flushed may be lost even so, and may then read as a file
that is short or has a wrong digest. Each session has one worker, the holder of
its mutex; a worker that is killed leaves its temporary file behind. `Damage`
is somebody else's hand on a file, and excuses that file (`spoiled`).

`RecordStore` is the abstract store that `PatchTransaction` relies on: a record
per session, replaced for good or removed as a whole. `StoreSpec` is its
specification under the mapping `stored <- Reading(file)`, `durable <-
Reading(onDisk)`; all the steps of a save except the rename are stutters. `PatchTransaction` uses
one session of it, counts losses of records, and never loses power.

### ExplorerAttach

One action per call of `open_context`: `Poll` is a second of
`wait_for_explorer_pid`, `Session` is `ProcessIdToSessionId`, and so on to `Policy`.
`handle` is the process that the handle is open on, not a pid; calls
by pid (`Session`, `OpenProcess`, `Module`) see whoever has it then, calls by
handle see that process even when it has exited, except those that read its memory.
Windows does not reuse a pid while a handle is open on its former owner (`Start`);
that is why the code may call `CreateToolhelp32Snapshot` by pid after
`OpenProcess`, and the theorem `ContextIsExact` rests on it. The tests
of the Windows build and of the program's own machine come before the first
call and depend on nothing that changes; they are left out.

`Attachment` is `Find`, `Attach` and `Match` as `PatchTransaction` has them, each in
one step, and `ImplementsAttachment` says that the calls above come to no more
than that. `Attach` is the moment of `OpenProcess`: the checks behind it tell
only whether that process was one to attach to, so none of them may mix two
processes, and `Match` is the moment the image is read from the disk. The session is
not part of `Attachment`, because of the pid that may change hands just before
`OpenProcess` (`swapped`, see the end of section 5).

### Program (with CommandLine and ConfigFile)

`ReadArgument` is one turn of `wmain`'s loop: `ReadOption` has a case per
`wcscmp`, `TakeWait` reads the number behind `--wait`. Arguments are members of `Text`;
`Number` gives some of them the value `wcstoul` does, which wraps a negative one.
`Program` strings runs together: `Start` by somebody or `Logon` by Windows, which
passes the stored command; `Read`, one argument a step; `Decide` behind the
loop; the menu, `uwd_execute`, the end. `argv`, `index` and `parse` are the arguments,
the loop counter and what the loop has collected. Other variables carry the C names: `values` is the
`value` fields of `main_items` and `settings_items`, `shown` the top of `g_stack`, `quit` is
`g_quit`, `name` the static buffer of `save_as`.

* A key that a dialog does not handle changes nothing and has no action. Any key
  may come at any time. This stands for the console's byte queue, which may
  drop bytes and cut an escape sequence (`utui.c:169`): whatever the rest of a cut
  sequence is read as is some key, so what holds for every sequence of keys holds
  for it too. The cursor is on any line that can be selected, for the same reason.
* A file name is `"home"` (the configuration's own path), another, or empty.
  `fits` says whether the path is shorter than the buffer of 128 bytes; if not,
  `Offer` offers a different file.
* A configuration file is the sequence of its lines that `load_config` can read.
  A cut anywhere reads like a cut between two lines, because a line cut in its
  middle is none that `load_config` takes: a setting needs its `=y` and a
  comment its ` is not set`. The two forced items are read and written last,
  and loading skips them, so they are left out.
* Only an item's value is loaded: `reset_walk` first turns every switch off and
  leaves the radio choice alone. So a cut file gives switches that are off, Dry
  run among them. `TornOnlyTurnsOff` is about all switches alike; that
  Dry run is off is the one that makes the program do more rather than less. It is not
  executed unseen: the menu shows it, and what is executed was saved from there
  (`ExecutedIsSaved`).
* Apply, Restore and Diagnostics are one step here, `Work`; what they do is in the
  other modules. Only one run at a time is modelled: two menus on one file
  overwrite each other's configuration like any two editors.

### PeImage and WatermarkScan

`PeImage` is the parser's acceptance (`ParseAccepts`) and the queries as
operators over an accepted section table. `WatermarkScan` has one action per
loop: `LoadPdata`, `ScanDescriptor`, `ScanThunk`, `ScanSite`, and `Bisect`
for the binary search; its variables are the loop counters and `UwdScanState`.
Bytes are abstracted to the positions in the file where a call instruction
(with its displacement) or a white argument is encoded; strings to whether they
name what is looked for, something else, or cannot be read. Signatures and
fixed header sizes are one Boolean.

The reference definition the scan is compared with, `Paints`, quantifies over
the whole file and mentions neither loops nor order.

### PdbIdentity

`ReadEntry` is the loop over the debug directory in `uwd_pe_pdb_identity`,
`ReadPath` the loop over a path in `uwd_parse_rsds`; `Located` and
`PayloadOffset` are `uwd_debug_payload_offset`, and `Compared` adds the size test that
comes before the `memcmp` with "RSDS". A directory is a number of whole entries and
a remainder (`rest`), with which it is refused. GUID and age are one key, a byte
of the path is a letter, a separator, a control character or the terminating
zero, and an RSDS signature is where `records` says that one is. The reference
definitions, `Stated` and `SoundEntry`, say by decomposition what the base name of a path
is, and in terms of `Places`, where an entry says that its payload lies, when that is sound; they
use neither `Located` nor `PayloadOffset`.
`uwd_pe_identity`, three fields of an accepted image, has no definition of its
own; the further restrictions that `pdb_cache_paths` puts on a name are one of
the failures of `Look` in `SymbolCache`.

### SymbolCache

`Look` to `Discard` follow `resolve_with_symbols`, one call on a file, on
DbgHelp or on the server each; `Load` and `Reload` are the two calls of
`resolve_cached_symbols`. `call[p].image` is the identity read before the call;
`shell32` is the file that DbgHelp opens again, now. The content of a file is
the PDB of an image, `Junk` (a body of a legal size matching no image),
`Short`, `Partial` (a download under way) or `Missing`. `temp[p]` survives a
kill, because the file name contains only the pid, and pids are reused.
`Servicing`, `Damage` and `Crash` may come between any two steps. The
transaction's mutex is left out, because two of the three callers do not take
it. A symbol has an address, so that two functions of one name and kind are two
symbols. `Look` may fail to see a file that is there, because
`GetFileAttributesExW` may fail; a call that may update then downloads.
DbgHelp and the symbol server are external: DbgHelp binds the cached file
to the image if and only if it is that image's PDB, or fails.

`disturbed` is a history variable: the processes with which a fault, a kill,
servicing or another party's change of their cached file has interfered since
they started. Without it, "a call succeeds when nothing goes wrong" could not
be said.

## 3. What the runs check

| Run | Module, configuration | Properties | Shows |
|---|---|---|---|
| `patch_x64` | `MCPatchTransaction`, `Patch_x64.cfg` | `TypeOK` `UndoCovers` `HomeCovers` `TruthfulReport` `RefusalBlamesOthers` `WriteAhead` `DryRunIsDry` `ImplementsGuard` | Every promise of Apply and Restore, with two instances, two images, two runs of Explorer, and one each of fault or kill, foreign change of bytes or protection, and lost record; together they implement `GuardedPatch` |
| `patch_arm64` | `Patch_arm64.cfg` | `IInv` `Terminates` `Recovers` | A patch that a write may tear, with two faults: the inductive invariant, every started instance ends, and repeated Restore removes the patch whatever was interrupted |
| `patch_torn_restore` | `Patch_torn.cfg` | `RefusalBlamesOthers`, **violated** | Finding 1 |
| `patch_restore_race` | `Patch_race.cfg` | `RestoresKnownBytes`, **violated** | Finding 2 |
| `rollback_store` | `MCRollbackStore`, `RollbackStore.cfg` | `TypeOK` `NeverCorrupt` `SavedForGood` `LeftoversDoNotHinder` `StoreSpec` | Two sessions' records under kills, power losses, failing calls and interference; the store implements `RecordStore` |
| `explorer_attach` | `ExplorerAttach`, `ExplorerAttach.cfg` | `TypeOK` `ContextExact` `LooksToTheEnd` `ImplementsAttachment` | One attachment while three processes in two sessions share two pids and `shell32.dll` is serviced; its calls implement `Attachment` |
| `watermark_scan` | `MCWatermarkScan`, `WatermarkScan.cfg` | `TypeOK` `MapSound` `SearchHolds` `RecordExact` `ResultExact` `Terminates` | The search is exact and ends on more than five thousand small files |
| `pdb_identity` | `MCPdbIdentity`, `PdbIdentity.cfg` | `ReadsInside` `SelectedExact` `ResultExact` | The PDB identity is exact on more than eight thousand small files |
| `symbol_cache` | `MCSymbolCache`, `SymbolCache_shared.cfg` | `TypeOK` `CachedIsWhole` `UndisturbedSucceeds` `ReadersWriteNothing` | Two processes share the cache of two images under every fault |
| `symbol_tables` | `SymbolCache_tables.cfg` | `ResolvedIsExact` `Terminates` | Ten shapes of symbol table on ARM64, two images |
| `symbol_race` | `SymbolCache_race.cfg` | `OnlyInvalidReplaced`, **violated** | Finding 3 |
| `program` | `MCProgram`, `Program.cfg` | `TypeOK` `ExecutedIsSaved` `TornOnlyTurnsOff` `NextMenuContinues` `LogonRepeatsChoice` | Runs one after another, from nineteen command lines, at logons, and in the menu with any keys in any order, with failing and killed saves |

### The properties in words

* `UndoCovers`: a byte of the patch is in Explorer only while the record on the
  disk names that very run of Explorer and its unpatched bytes.
* `HomeCovers`: a page protection that neither the loader nor another program has
  given to the page is there only under a record that puts back one of theirs, also when they
  change it between the query and the `VirtualProtectEx`; and it outlives the mutex only if
  a call failed or an instance was killed.
* `WriteAhead`: an instance changes Explorer only under a record of that run
  of Explorer that is already on the disk.
* `TruthfulReport`: what an instance prints on its way out ("applied",
  "restored", ...) is true of Explorer and of the file.
* `RefusalBlamesOthers`, `RestoresKnownBytes`: Restore says "another program
  changed the target bytes" only when one did, and overwrites only bytes it
  recognises.
* `DryRunIsDry`, `ReadersWriteNothing`: dry and offline runs write nothing.
* `Recovers`: if a user keeps running Restore and nothing else, the patch goes and
  stays away, unless a Restore is itself torn (finding 1).
* `NeverCorrupt`: no kill, failing call or power loss makes `load_state` reject a file that
  nobody else has touched.
* `SavedForGood`: once `save_state` has returned 0, the very record is what
  `load_state` answers, now and after a power loss.
* `LeftoversDoNotHinder`: what a dead worker left never makes a later save fail.
* `StoreSpec`: the store implements `RecordStore`.
* `ImplementsGuard`: Apply and Restore, with every failure and kill, implement
  `GuardedPatch`.
* `ImplementsAttachment`: the calls of `open_context` implement the three steps of
  `Attachment`.
* `ContextExact`: when `open_context` succeeds, everything in the context is about
  one process, the right one, and when it fails nothing is left open.
* `LooksToTheEnd`: "Explorer is not running" is said only after the whole of
  `--wait`, and never of a desktop that has been there for a second.
* `ExecutedIsSaved`: the menu executes exactly the action and settings that a save
  of this run has written whole; after a failed save, a cancellation or
  Ctrl-C before it, nothing.
* `TornOnlyTurnsOff`: loading a cut file turns no switch on that was saved off or
  only the menu held; a whole file gives back all that was saved.
* `NextMenuContinues`: the next menu begins with what the last save wrote, when its
  name was accepted as offered and not cut.
* `LogonRepeatsChoice`: what `wmain` makes at a logon of the stored command is
  Apply with the choices with which startup was last reported enabled, and
  nothing once it was reported disabled or was never really enabled.
* `SearchHolds`: the bisection never discards the function around the call.
* `RecordExact`, `ResultExact`: the candidate and the ambiguity flag are exact
  for the part of the file behind the loops, and the result for the whole.
* `MapSound`: RVAs with bytes and bytes of the file correspond one to one.
* `SelectedExact`, and `ResultExact` of `PdbIdentity`: an identity is returned
  exactly when every CodeView entry is sound and all RSDS records state it.
* `ReadsInside`: the entries of the debug directory, the signature of every CodeView
  payload that is compared, also of one that is then skipped, and the header and path of an
  RSDS record lie in the file.
* `ResolvedIsExact`, `CachedIsWhole`, `UndisturbedSucceeds`,
  `OnlyInvalidReplaced`: see section 1, *Resolver and cache*.

### Bounds, and why they are enough

* **Transaction.** Two instances: the mutex, a waiter's timeout and a
  successor to an abandoned holder need no third. Two runs of Explorer
  (`MaxStarts`) with two pids: the second may or may not have the first one's
  pid, and an instance keeps a handle to at most one. `MaxFaults` 1 or 2: the
  second fault makes the rollback fail after the apply. `MaxForeign` and
  `MaxLosses` at most 1, so that a single interference falls between every pair
  of steps. `PatchLength` 1 is x64's `RET`; 2 stands for ARM64's 4 bytes: a
  torn write is a proper prefix, and with 2 bytes there is one. Two images
  differ in all their bytes. The proofs have none of these bounds.
* **Scan.** `CallLength` 2, `WhiteLookback` 2, `SlotLength` 1 (6, 40 and 8 in
  the code), `MaxRva` 10, up to 3 sections. The lengths differ enough that an
  off-by-one in any comparison changes some result. The inputs are the usual
  layout with every combination of five function tables, two import tables, 16
  sets of calls and 16 of white arguments, and the same with malformed
  layouts, function tables and import tables.
* **Identity.** `EntrySize` 2, `SignatureLength` 2, `RsdsHeaderSize` 3,
  `NameCapacity` 3 (28, 4, 24 and 260 in the code). Two entries in either order,
  each found by RVA, by pointer or by both, right or wrong, and nine kinds of
  path: with three entries nothing new can happen, since only the first
  selected identity is kept. Payloads of 1 to 7 bytes end before, at and behind the
  end of the file; a directory comes with and without a remainder.
* **Record store.** Two sessions, one run of Explorer, one machine with one
  alignment rule and one protection: here `Accepts` can refuse a record of another
  session or with a misaligned address, not one with another protection (the proofs have any
  protections and machines). No counter is needed; the state is finite with any
  number of saves, kills and power losses. Sessions are symmetric.
* **Attachment.** `MaxBirths` 3 processes over two pids and two sessions: a pid has to
  change hands once before and once after `OpenProcess`. `WaitSeconds` 2 is the
  least at which "since an earlier second" and "at the last look" differ;
  `MaxAttempts` 2 for the code's 5, since what a retry can find depends on
  the one before it only.
* **Program.** `Picked` and `Flipped` are two actions and two switches of five and
  four, one on and one off by default; the other ones are treated by the same code. One
  foreign file is cut after seven lines. `ULongMax` is 9999 for 2^32 - 1,
  so that a negative number that wraps into 0 to 600 is among the arguments. The
  nineteen command lines contain each option, each error and each
  combination `wmain` refuses. An assumption of `MCProgram` compares `Load`
  with a fold that reads line by line, over all files of up to four lines.
* **Resolver.** Two processes and two images; no counter is needed, because
  the state is finite although calls, faults and interference are unlimited.
  `CallsFail` is a bound in name only: it is FALSE in `symbol_race` alone, where
  it keeps faults out of the counterexample.

Deadlock checking is off in the transaction's runs, because an instance that
nobody starts and an Explorer that has used up `MaxStarts` legitimately stop,
in those of the scan, of the identity and of the attachment, which end, and in
the program's, where nobody has to start it again. It is on in the resolver's and the record
store's.

### Fairness, and why the code justifies it

* `WF_vars(Step(p))` in `PatchTransaction` and `SymbolCache`: Windows schedules
  a running process; the wait for the mutex and for Explorer, and the four
  WinHTTP timeouts, bound every call that may block. It does not promise that a
  user starts anything, that Explorer runs or that a process is not killed.
* `WF_vars(Next)` in `WatermarkScan`: one thread, no call that blocks.
* `Recovers` alone needs more, and says so in its premise (`PersistentUser`): a
  user who keeps running Restore, and a mutex that is granted to a waiter now
  and then (`SF_vars(Acquire(p))`), because the kernel queues waiters in roughly
  the order of their arrival.

## 4. What is proved

The theorems hold for every value of the constants under the named assumptions
in the modules (`BoundAssumption`, `CodeAssumption`, `ProtectionAssumption`,
`TagAssumption`, `MaxSectionsAssumption`, `ScanAssumption`, `IdentityAssumption`, `MachineAssumption`,
`ContentAssumption`, `TableAssumption`, `AttachAssumption`, `NumberAssumption`,
`TextAssumption`, `ProgramAssumption`). Each assumption types a constant or says
that tags differ from data; none restricts the behaviour (one length is
required to be at least another: `RsdsHeaderSize` is not below `SignatureLength`).

### PatchTransactionProofs

`TypeCorrect`, `UndoAlwaysCovers` (`UndoCovers`), `ChangesAreRecorded`
(`WriteAhead`), `MutualExclusion`, `HomeAlwaysCovers` (`HomeCovers`),
`DryRunsAreDry` (`DryRunIsDry`), `Invariance` (`IInv`), `ReportsAreTrue`
(`TruthfulReport`), `OnlyRacesAreOverwritten`, `RefusalsAreJust`
(`RefusalBlamesOthers`), `ImplementsGuardedPatch` (`ImplementsGuard`),
`RefusalsAreTorn`, `UnknownStays`, `ProtocolSuffices` and `TransactionRunsOut`: any number of instances, images,
pids, faults, kills, foreign writes and any patch length, except in `RefusalsAreJust`.

`UndoCovers` is not inductive: it says nothing of an instance that is about to
write. `IInv` adds, for each label, what such an instance relies on:
`MutexHeld` (only the owner is past `Acquire`), `FileMatches` (the file
that was read is that of the module Explorer has loaded), `RecordSound` (the record in
memory has the original bytes of its image), `RecordNames` (it names the
process the handle is open on), `InHand` (it is the one on the disk),
`OthersClean` (a run of Explorer other than the one attached to was never
written) and `CleanBeforeDelete` (the record is deleted only when nothing is
left to undo). `StepInv` has one step per action; other instances keep their part
because they are outside the critical section.

`HomeCovers` rests on `IInv` and on `HomeInv`, which needs no premise about other programs.
The page's protection is always one that the loader or another program has `given` or the one
`write_remote_bytes` sets (`Known`). A record that names the running Explorer restores a
given one (`NamesRunning`, `RecordHome`), because Apply records only what is not
writable, and the record is deleted only when the page is closed (`HomeBeforeDelete`). Other
programs may change the protection at any time, since what they set is given from then on. If
nothing fails, the page is open only between the opening and the closing call of one
instance (`Closed`), which holds the mutex there. `DryInv` says at which labels a dry run
never is.

`ReportsAreTrue` rests on `LifeInv` (which operation is at which label, and no handle is
on a process not yet born) and on `AloneInv`: while no other program interferes,
what an instance has seen of its Explorer stays so until it reports
(`SeenIsSo`), though other instances run, fail and are killed in between. They
cannot disturb it, because between its look and its report it holds the
mutex (`MutexHeld`). `AloneInv` has a second part, `Recognised`: Restore still finds the
bytes it has classified when it writes. This gives
`OnlyRacesAreOverwritten`, which is the exact extent of finding 2: nothing but another
program's write can make Restore overwrite what it does not recognise.

`RefusalsAreJust` has the hypothesis `PatchLength = 1`, which x86 and x64
satisfy. It is false for longer patches (finding 1). `WholeInv` says why it is true for
one byte: a torn write is none or a whole one, so that the bytes are always the
original's or the patch's.

`RefusalsAreTorn` and `UnknownStays` say for every length how far finding 1 goes. With
no other program about, the bytes are always one of the `Mixtures` of the original and the
patch: a prefix of the patch over the original, and a prefix of the original over
that. `TornInv` carries this through the phases: Apply writes over the original only
(`FreshApply`), the other phases write the original, and `Mixtures` is closed under both. A
mixture that is not recognised is a torn Restore (`UnknownIsTorn`), so that nothing
else is ever refused wrongly (`RefusalsAreTorn`). And no run of the program changes such bytes any more
(`UnknownStays`): each instance looks before it writes, sees `"unknown"` and leaves.

`ImplementsGuardedPatch` takes every step of an instance and of its environment to a
step of `GuardedPatch` or a stutter, under `IInv`; of the 27 labels
only `acquire`, `save`, the writes, `delete` and the ways out are not stutters.
`ProtocolSuffices` shows that the abstract protocol keeps `Undoable` by itself. So
`UndoCovers` does not depend on how the calls in between are arranged.

`TransactionRunsOut` is what can be said of `Terminates` without fairness.
`CallsLeft(p)` counts the calls on the longest path from a label to the return, through the
rollback where there is one; each step of `p` lowers it, no step of another
process or of Windows changes it, and only `Run(p)` raises it, to at most 52.

### RollbackStoreProofs

`SaveNeverCorrupts`, `SaveIsForGood`, `SaveOverLeftovers`, `StoreTypeCorrect` and
`ImplementsRecordStore` (`StoreSpec`), for any sessions, records and protections,
and any number of kills and power losses. The invariant adds what a save
relies on between its calls: from the flush on, the temporary file is the record
(`Written`), and it is on the disk before the rename (`Flushed`). The refinement has
one case per action; `SavableIsAccepted` is the fact that makes it work, that
`load_state` accepts whatever `apply_patch` may save.

### ExplorerAttachProofs

`ContextIsExact`, `WaitIsWhole`, `AttachesInThreeSteps`
(`ImplementsAttachment`), `AttachRunsOut` and `AttachTypeCorrect`, for any numbers of processes,
pids, sessions and seconds. `PidsUnique` and `Pinned` are the core: while
the handle is open, any running process with its pid is the process it is open on.
This is why the checks behind `OpenProcess` are stutters of `Attachment` when
they succeed: what they look at by pid or by handle is the process attached to.
`AttachRunsOut` counts the calls left, the seconds of `--wait` and the
retries of the snapshot among them.

### ProgramProofs

`MenuExecutesTheSaved` (`ExecutedIsSaved`), `CutFilesOnlyTurnOff`
(`TornOnlyTurnsOff`), `MenuContinues` (`NextMenuContinues`), `LogonsRepeat`
(`LogonRepeatsChoice`), `ProgramTypes` (`TypeOK`), `MenuInvariance` and
`LogonInvariance`, for any command lines, keys, foreign files and widths of an
`unsigned long`. The lemma under them is about the
file format: what `Load` reads from any prefix of `Lines(v)`. `MenuInv` adds
`Offered` (which name the dialog shows), `Writing` (whose file is
open, and that it is not counted on yet) and `Saved` (between the save and the
execution the values do not change any more, which is why no key may come
after "Configuration written" but the one that closes it).

`LogonsRepeat` is about a command that is stored in one run and read in another one,
argument by argument, by the loop that reads any command line. `LogonInv`
has three parts: `KeyKept` (the Run key's value is the command for what was
promised, as long as nobody promises anything else), `LoopReset` (the loop begins
where `wmain` does) and `LogonRuns` (what the loop has collected after each
argument of that command, `After`). `ProgramTypes` holds also of requests: whatever number is behind
`--wait`, negative and overflowing ones included, a request that is executed waits
at most 600 seconds.

### PeImageProofs and WatermarkScanProofs

`SpansDisjoint` and `MapInjective` (pairwise disjoint sections make the first
section that has an address the only one), `MapIsSound` (`MapSound`),
`SearchIsExact` (`SearchHolds`), `RecordIsExact`, `ResultIsExact`,
`SearchRunsOut` and `ScanTypeCorrect`, for files of any size.

The argument: the loader compares each entry of `.pdata` with the one before
it, and `TableLoaded` strengthens that to *every* earlier entry, which the
bisection relies on. `Loops` and `Flags` tie the counters of the four nested
loops to what has been seen; `RecordExact` then says that the candidate is exact
for the part passed, and at the end the part passed is the whole. Two lemmas,
`NoWrap` and `SameSection`, show that two guards of the code (the wrap of an
address past 32 bits, and a function spread over two sections) are
never taken for an accepted image.

`SearchRunsOut` is `Terminates` without fairness: every step goes on (`Onward`), to
a later position in the nested loops, deeper into them or to a shorter interval of
the bisection, and the counters stay within bounds that the file gives (`InBounds`),
so that there are finitely many to go on to.

### PdbIdentityProofs

`IdentityIsExact` (`ResultExact`), `SelectionIsExact`, `ReadsStayInside`,
`IdentityRunsOut` and `IdentityTypeCorrect`, for files and directories of any size.
`ReadsStayInside` is about the directory's entries, every signature compared and every RSDS
record read; an offset that could not be mapped is none inside the file. Behind it and behind
exactness is `ComparedIsSound`: the payloads that the code's tests let through are those
that `Places` and the file's size call sound. `IdentityInv` adds
`PathRead`: the part of a path behind the index has no end and no control
character, and `start` is behind its last separator. This decides, when the
walk ends, that the entry states the name between `start` and `index` and no
other (`PathNames`), or that it states none (`PathRefused`).

### SymbolCacheProofs

`AnswersAreExact` (`ResolvedIsExact`), `CacheIsWhole`, `CacheHeals`
(`UndisturbedSucceeds`), `ReadersOnlyRead`, `ResolverRunsOut` (nine calls at
most, one download among them) and `CacheTypeCorrect`, for any number
of processes, images and symbol tables. `CacheInv` adds `Updating` (past the
cached file there are only calls that may update), `WholeBody` (what is about to
be published is whole) and `OnTrack` (an undisturbed call works for the image on
the disk and has its PDB).

### Only model-checked

Every invariant and action property that a passing run checks is stated by a
theorem. What stays with TLC is liveness: `Terminates` of `PatchTransaction`,
`SymbolCache` and `WatermarkScan`, and `Recovers`. Liveness under fairness and
`ENABLED` are out of TLAPS's reach; the theorems whose names end in `RunsOut` prove the
other half of `Terminates`, that only finitely many steps can be taken, and what
TLC adds is that one can always be taken. `Recovers` has no such half.
`RefusalBlamesOthers` is proved for patches of one byte and false for longer ones, of
which `RefusalsAreTorn` says as much as is true.
Induction over data is out of reach too, which is
why no property of a recursively computed value is stated as a theorem; the loops
of the code are steps, and the theorems about them are invariants. The `TypeOK` of
`PdbIdentity` is the only invariant that is proved (`IdentityTypeCorrect`) and not
checked by a run.

## 5. Findings

1. **A torn Restore cannot be undone (ARM64)**, line 1766.
   `classify_live_patch_bytes` recognises a prefix of the patch followed by the
   original, which a torn Apply leaves, but not a prefix of the original
   followed by the patch, which a torn Restore leaves. The next Restore refuses,
   blaming another program. Run `patch_torn_restore`; `RefusalsAreTorn` proves that
   there is no other cause, and `UnknownStays` that no later run undoes it.
2. **Restore does not compare again before it writes**, line 2230, although
   `README.ja.md:36` promises to restore only when the current value matches.
   Bytes another program stores after the classification are overwritten. Run
   `patch_restore_race`.
3. **A valid PDB may be deleted**, line 1218. Between the decision that the
   cached file is invalid and `DeleteFileW`, another process may have published
   the right one. That process then fails to load it. Nothing is patched
   wrongly and a later call downloads again. Run `symbol_race`.

Observed on the way, and not contradicting any document of the repository:

* Between `ProcessIdToSessionId` and `OpenProcess` (622) the pid may pass to
  another process. All later checks are about that process, except the one
  of the session, which is not repeated (`swapped` in `ContextExact`).
* `parse_wait_seconds` accepts a negative number that wraps into 0 to 600
  (`main.c` 112-127), because `wcstoul` does.
* With a configuration path of 128 bytes or more, Save offers a different
  file than the one the next menu loads (`utui.c:1445`).

## 6. Not modelled, and what is left

* The console's byte queue and the decoding of escape sequences, rendering and
  layout of the vendored Universal-TUI, and its item types that this program's menu
  does not use. What they could do wrong to this program is covered by letting
  any key come at any time.
* The text of Diagnostics' report; it decides nothing.
* DbgHelp, WinHTTP and the symbol server, which are external: `SymbolCache` says
  what the code relies on.
* The 2015 installer and the ExplorerFrame proxy, kept for reference and
  excluded from new builds (`README.ja.md:27-28`), and build files, tests and
  resources, which have no run-time behaviour.

What a continuation would add: two menus that share one configuration file.
