----------------------------- MODULE SymbolCache -----------------------------
(***************************************************************************)
(* resolve_with_symbols of windows_backend.c: how the program turns the    *)
(* shell32.dll it has read into the address of the function to patch.  The *)
(* address comes from the Microsoft PDB of exactly that image, which is    *)
(* kept in a cache directory named for the PDB's GUID and age and, when it *)
(* is missing or does not match, is downloaded to a file of the process's  *)
(* own and moved over the cached one.                                      *)
(*                                                                         *)
(* Apply holds the session's mutex while it resolves, but Diagnostics and  *)
(* uwd_validate_image_symbols hold nothing, and the cache belongs to the   *)
(* user, not to the session: any two processes may be in here at once.     *)
(* Each action is one call on a file, on DbgHelp or on the server; between *)
(* two calls another process, Windows servicing, or whatever cleans the    *)
(* disk may act, and the process may be killed.                            *)
(***************************************************************************)
EXTENDS Integers, FiniteSets

CONSTANTS
  Procs,      \* the processes that resolve
  Images,     \* versions of shell32.dll, each the key of its PDB
  Machine,    \* what the program is compiled for: "AMD64" or "ARM64"
  Tables,     \* symbol tables that the PDBs may hold
  CallsFail,  \* bound: whether calls fail and downloads are wrong
  Missing, Partial, Short, Junk    \* contents of a file, see below

ASSUME MachineAssumption == Machine \in {"AMD64", "ARM64"} /\ CallsFail \in BOOLEAN

(***************************************************************************)
(* The content of a file: the PDB of an image; Junk, that is 1,024 bytes   *)
(* or more which match no image of ours; Short, fewer than that; Partial,  *)
(* what a download has written so far; or Missing, there is no file.       *)
(***************************************************************************)
Bodies == Images \cup {Junk}
Files  == Bodies \cup {Missing, Partial, Short}

ASSUME ContentAssumption ==
  /\ Partial \notin {Missing, Short, Junk}
  /\ Junk \notin {Missing, Short}
  /\ Missing # Short
  /\ Images \cap {Missing, Partial, Short, Junk} = {}

\* A symbol as symbol_callback sees it: whether it has the name looked for
\* ("ec" is the ARM64EC decoration of that name), what it is, and where.
Symbols == [name    : {"paint", "ec", "other"},
            kind    : {"function", "publicCode", "data"},
            rva     : Nat,         \* its address, less the module's base
            exec    : BOOLEAN]     \* 16 bytes there are in an executable section

ASSUME TableAssumption == \A t \in Tables : t \subseteq Symbols /\ IsFiniteSet(t)

VARIABLES
  shell32,    \* the shell32.dll on the disk
  table,      \* the symbols in each image's PDB
  cache,      \* symbols\<name>\<key>\<name>, one file for each image
  temp,       \* <file>.<pid>.download of each process
  pc,         \* where each process is in resolve_with_symbols
  call,       \* its arguments and its result
  disturbed   \* processes that a fault or another party has interfered with

vars == <<shell32, table, cache, temp, pc, call, disturbed>>

Options == [server : BOOLEAN, dry : BOOLEAN]

NoFind == [image |-> Missing, symbol |-> Missing]

Calls == [image   : Images,        \* context->image, read before the call
          options : Options,
          result  : {"pending", "exact", "failed"},
          found   : [image : Images, symbol : Symbols] \cup {NoFind}]

Labels == {"idle", "look", "load", "purge", "prepare", "request", "receive",
           "publish", "reload", "discard", "drop"}

-----------------------------------------------------------------------------
(* The decisions of the code *)

\* Mutant of MayUpdate: a dry run only spares Explorer's memory.
MayUpdateDry(p) == call[p].options.server

\* may_update_cache: a dry run uses what is cached and writes nothing.
MayUpdate(p) == call[p].options.server /\ ~call[p].options.dry

\* cached_file_exists
Usable(file) == file \notin {Missing, Short}

\* symbol_callback: DbgHelp undecorates both ARM64 names to the one that the
\* x64 build compares, and only the ARM64 build asks for alignment.
Eligible(s) ==
  /\ s.name \in (IF Machine = "ARM64" THEN {"paint"} ELSE {"paint", "ec"})
  /\ s.kind \in {"function", "publicCode"}
  /\ Machine = "ARM64" => s.rva % 4 = 0

Matches == {s \in table[shell32] : Eligible(s)}

\* Mutant of PdbMatches: DbgHelp's own verdict is enough.
PdbMatchesDisk(p) == cache[call[p].image] = shell32

\* DbgHelp opens the image at shell32_path as it is now, and finds the PDB of
\* that image or none; the code then compares its GUID and age with those of
\* the image that the process has read.
PdbMatches(p) ==
  /\ cache[call[p].image] = shell32
  /\ shell32 = call[p].image

\* Mutant of Found: the first function of that name is taken.
FoundFirst(p) ==
  /\ PdbMatches(p)
  /\ Matches # {}
  /\ \A s \in Matches : s.exec

Found(p) ==
  /\ PdbMatches(p)
  /\ Cardinality(Matches) = 1
  /\ \A s \in Matches : s.exec

-----------------------------------------------------------------------------
Init ==
  /\ shell32 \in Images
  /\ table \in [Images -> Tables]
  /\ cache \in [Images -> Bodies \cup {Missing, Short}]
  /\ temp = [p \in Procs |-> Missing]
  /\ pc = [p \in Procs |-> "idle"]
  /\ call \in [Procs -> {[image |-> shell32, options |-> [server |-> FALSE, dry |-> FALSE],
                          result |-> "failed", found |-> NoFind]}]
  /\ disturbed = {}

Goto(p, label) == pc' = [pc EXCEPT ![p] = label]
Proceed(p, label) == Goto(p, label) /\ UNCHANGED <<call, disturbed>>

\* A call fails: the rest of the run is not what it would have been.
Fault(p) == CallsFail /\ disturbed' = disturbed \cup {p}
Fails(p, label) == Goto(p, label) /\ Fault(p) /\ UNCHANGED call

\* resolve_with_symbols returns -1.
Refuse(p) ==
  /\ Goto(p, "idle")
  /\ call' = [call EXCEPT ![p].result = "failed"]

\* The cached file of image i becomes f, which disturbs the others that use it.
SetCache(i, f, others) ==
  /\ cache' = [cache EXCEPT ![i] = f]
  /\ disturbed' = disturbed \cup {q \in others : call[q].image = i}

\* open_context has read shell32.dll and uwd_pe_pdb_identity its key.
Start(p) ==
  /\ pc[p] = "idle"
  /\ \E o \in Options :
       call' = [call EXCEPT ![p] = [image |-> shell32, options |-> o,
                                    result |-> "pending", found |-> NoFind]]
  /\ Goto(p, "look")
  /\ disturbed' = disturbed \ {p}
  /\ UNCHANGED <<shell32, table, cache, temp>>

\* The key and the paths may fail to be found; else cached_file_exists decides,
\* to which a file whose attributes cannot be had is none.
Look(p) ==
  /\ pc[p] = "look"
  /\ \/ Usable(cache[call[p].image]) /\ Proceed(p, "load")
     \/ ~Usable(cache[call[p].image]) /\ MayUpdate(p) /\ Proceed(p, "prepare")
     \/ Usable(cache[call[p].image]) /\ MayUpdate(p) /\ Fails(p, "prepare")
     \/ /\ ~Usable(cache[call[p].image]) /\ ~MayUpdate(p)
        /\ Refuse(p)
        /\ UNCHANGED disturbed
     \/ Refuse(p) /\ Fault(p)
  /\ UNCHANGED <<shell32, table, cache, temp>>

(***************************************************************************)
(* resolve_cached_symbols, before a download and after it.  It reports     *)
(* that the symbols do not identify one safe function (the call gives up), *)
(* or that the cached PDB is missing, corrupt or mismatched, which a call  *)
(* that may update the cache takes further.                                *)
(***************************************************************************)
Resolve(p) ==
  /\ Found(p)
  /\ Goto(p, "idle")
  /\ \E s \in Matches :
       call' = [call EXCEPT ![p].result = "exact", ![p].found = [image |-> shell32, symbol |-> s]]
  /\ UNCHANGED disturbed

Unsuitable(p) ==
  /\ PdbMatches(p) /\ ~Found(p)
  /\ Refuse(p)
  /\ UNCHANGED disturbed

\* Mutant of Mismatch: a bad cached PDB is an error like any other.
MismatchGivesUp(p, next) == ~PdbMatches(p) /\ Refuse(p) /\ UNCHANGED disturbed

Mismatch(p, next) ==
  /\ ~PdbMatches(p)
  /\ \/ MayUpdate(p) /\ Proceed(p, next)
     \/ ~MayUpdate(p) /\ Refuse(p) /\ UNCHANGED disturbed

\* DbgHelp fails to start (-1), or to load the module or to enumerate (-2).
DbgHelpFails(p, next) ==
  \/ Refuse(p) /\ Fault(p)
  \/ MayUpdate(p) /\ Fails(p, next)

Load(p) ==
  /\ pc[p] = "load"
  /\ Resolve(p) \/ Unsuitable(p) \/ Mismatch(p, "purge") \/ DbgHelpFails(p, "purge")
  /\ UNCHANGED <<shell32, table, cache, temp>>

\* A file that is gone already is as good as deleted.
Purge(p) ==
  /\ pc[p] = "purge"
  /\ \/ Goto(p, "prepare") /\ SetCache(call[p].image, Missing, Procs \ {p}) /\ UNCHANGED call
     \/ Refuse(p) /\ Fault(p) /\ UNCHANGED cache
  /\ UNCHANGED <<shell32, table, temp>>

\* pdb_cache_paths with create_directories
Prepare(p) ==
  /\ pc[p] = "prepare"
  /\ \/ Proceed(p, "request")
     \/ Refuse(p) /\ Fault(p)
  /\ UNCHANGED <<shell32, table, cache, temp>>

\* download_public_pdb: the request is answered with status 200 and the file
\* is created anew, or one of the two fails and the file, if any, is removed.
Request(p) ==
  /\ pc[p] = "request"
  /\ \/ Proceed(p, "receive") /\ temp' = [temp EXCEPT ![p] = Partial]
     \/ Fails(p, "drop") /\ UNCHANGED temp
  /\ UNCHANGED <<shell32, table, cache>>

\* Mutant of Receive: a failing WinHttpReadData ends the body.
ReceiveCut(p) ==
  /\ pc[p] = "receive"
  /\ \/ /\ Proceed(p, "publish")
        /\ temp' = [temp EXCEPT ![p] = call[p].image]
     \/ Fails(p, "publish") /\ UNCHANGED temp
  /\ UNCHANGED <<shell32, table, cache>>

\* The body arrives whole, of a size between the two limits, and is flushed;
\* it is the one asked for or it is not.
Receive(p) ==
  /\ pc[p] = "receive"
  /\ \/ /\ Proceed(p, "publish")
        /\ temp' = [temp EXCEPT ![p] = call[p].image]
     \/ /\ Fails(p, "publish")
        /\ \E body \in Bodies \ {call[p].image} : temp' = [temp EXCEPT ![p] = body]
     \/ Fails(p, "drop") /\ UNCHANGED temp
  /\ UNCHANGED <<shell32, table, cache>>

Publish(p) ==
  /\ pc[p] = "publish"
  /\ \/ /\ Goto(p, "reload")
        /\ SetCache(call[p].image, temp[p], Procs \ {p})
        /\ temp' = [temp EXCEPT ![p] = Missing]
        /\ UNCHANGED call
     \/ Fails(p, "drop") /\ UNCHANGED <<cache, temp>>
  /\ UNCHANGED <<shell32, table>>

\* The cleanup of download_public_pdb: a file that cannot be deleted stays.
Drop(p) ==
  /\ pc[p] = "drop"
  /\ Refuse(p)
  /\ \/ temp' = [temp EXCEPT ![p] = Missing]
     \/ UNCHANGED temp
  /\ UNCHANGED <<shell32, table, cache, disturbed>>

Reload(p) ==
  /\ pc[p] = "reload"
  /\ Resolve(p) \/ Unsuitable(p) \/ Mismatch(p, "discard") \/ DbgHelpFails(p, "discard")
  /\ UNCHANGED <<shell32, table, cache, temp>>

\* Mutants of Discard: it downloads again, or returns no result.
DiscardRetries(p) ==
  /\ pc[p] = "discard"
  /\ Proceed(p, "prepare")
  /\ UNCHANGED <<shell32, table, cache, temp>>

DiscardSilently(p) ==
  /\ pc[p] = "discard"
  /\ Goto(p, "idle")
  /\ UNCHANGED <<shell32, table, cache, temp, call, disturbed>>

Discard(p) ==
  /\ pc[p] = "discard"
  /\ Refuse(p)
  /\ \/ SetCache(call[p].image, Missing, Procs \ {p})
     \/ UNCHANGED <<cache, disturbed>>
  /\ UNCHANGED <<shell32, table, temp>>

Step(p) ==
  \/ Look(p) \/ Load(p) \/ Purge(p) \/ Prepare(p) \/ Request(p)
  \/ Receive(p) \/ Publish(p) \/ Drop(p) \/ Reload(p) \/ Discard(p)

\* The process is killed.  What it had written stays where it is, and the next
\* process with its pid finds it.
Crash(p) ==
  /\ pc[p] # "idle"
  /\ Refuse(p)
  /\ disturbed' = disturbed \cup {p}
  /\ UNCHANGED <<shell32, table, cache, temp>>

\* Windows servicing replaces shell32.dll.
Servicing ==
  /\ shell32' \in Images \ {shell32}
  /\ disturbed' = Procs
  /\ UNCHANGED <<table, cache, temp, pc, call>>

\* Something else damages, truncates or removes a cached file.
Damage ==
  /\ \E i \in Images, f \in {Missing, Short, Junk} : cache[i] # f /\ SetCache(i, f, Procs)
  /\ UNCHANGED <<shell32, table, temp, pc, call>>

Next ==
  \/ \E p \in Procs : Start(p) \/ Step(p) \/ Crash(p)
  \/ Servicing
  \/ Damage

Spec == Init /\ [][Next]_vars

\* Files and DbgHelp answer, and the four WinHTTP timeouts bound the download:
\* a process that is not killed goes on.
FairSpec == Spec /\ \A p \in Procs : WF_vars(Step(p))

-----------------------------------------------------------------------------
(* Properties *)

\* The values of the variables; a call has a result exactly when it has returned.
TypeOK ==
  /\ shell32 \in Images
  /\ table \in [Images -> Tables]
  /\ cache \in [Images -> Files]
  /\ temp \in [Procs -> Files]
  /\ pc \in [Procs -> Labels]
  /\ call \in [Procs -> Calls]
  /\ \A p \in Procs : call[p].result = "pending" <=> pc[p] # "idle"
  /\ disturbed \subseteq Procs

\* The address that a call returns is the watermark function's, from the PDB
\* of the very image that the process compares with Explorer's memory, however
\* servicing, bad downloads and other processes change the files meanwhile;
\* and that PDB names no second function of that name.
ResolvedIsExact ==
  \A p \in Procs : call[p].result = "exact" =>
    LET f == call[p].found
        named == {s \in table[f.image] : Eligible(s)}
    IN /\ f.image = call[p].image
       /\ f.symbol.name # "other" /\ f.symbol.kind # "data" /\ f.symbol.exec
       /\ named = {f.symbol}

\* A cached file is never what an interrupted download had written.
CachedIsWhole == \A i \in Images : cache[i] # Partial

\* A dry run, and a run that may not use the server, leaves the cache and the
\* directory of downloads as they are, also when what is cached is bad.
ReadersWriteNothing ==
  [][\A p \in Procs :
       /\ pc[p] # "idle" /\ pc'[p] # pc[p]
       /\ call[p].options.dry \/ ~call[p].options.server
       => UNCHANGED <<cache, temp>>]_vars

\* Whatever the cache holds when it starts, a call that may update the cache,
\* meets no failure and is not interfered with does return an address, if the
\* PDB of its image names one function: a damaged or mismatched file heals.
UndisturbedSucceeds ==
  \A p \in Procs \ disturbed :
    /\ pc[p] = "idle"
    /\ call[p].options.server /\ ~call[p].options.dry
    /\ Cardinality(Matches) = 1
    /\ \A s \in Matches : s.exec
    => call[p].result = "exact"

\* The inductive invariant behind these: only a call that may update gets past
\* the cached file; what it publishes is whole; and as long as nothing has
\* interfered with it, it works for the image on the disk and holds its PDB.
Updating == \A p \in Procs : pc[p] \notin {"idle", "look", "load"} => MayUpdate(p)

WholeBody == \A p \in Procs : pc[p] = "publish" => temp[p] \in Bodies

OnTrack ==
  \A p \in Procs \ disturbed : pc[p] # "idle" =>
    /\ call[p].image = shell32
    /\ pc[p] \notin {"drop", "discard"}
    /\ pc[p] = "publish" => temp[p] = shell32
    /\ pc[p] = "reload" => cache[shell32] = shell32

CacheInv ==
  TypeOK /\ Updating /\ WholeBody /\ CachedIsWhole /\ OnTrack /\ ResolvedIsExact /\ UndisturbedSucceeds

\* Every call returns.
Terminates == \A p \in Procs : pc[p] # "idle" ~> pc[p] = "idle"

\* "Replacing an invalid cached PDB": what resolve_with_symbols deletes before
\* it downloads is not the PDB of its image.
OnlyInvalidReplaced ==
  [][\A p \in Procs :
       pc[p] = "purge" /\ pc'[p] = "prepare" => cache[call[p].image] # call[p].image]_vars
=============================================================================
