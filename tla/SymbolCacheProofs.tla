-------------------------- MODULE SymbolCacheProofs --------------------------
(***************************************************************************)
(* Proofs about SymbolCache, for every set of processes, every set of      *)
(* images and symbol tables, both machines, with and without failing calls.*)
(*                                                                         *)
(* The argument: the answer of a call is fixed by one step, Resolve, whose *)
(* guard ties the file, the image on the disk and the image in the         *)
(* process's hand together (ResolvedIsExact); a file reaches the cache     *)
(* only from "publish", where it is whole (WholeBody); a call that may not *)
(* update never leaves the first three labels (Updating); and a process    *)
(* that nothing has disturbed still works for the image on the disk and,   *)
(* from "publish" on, holds that image's PDB (OnTrack).                    *)
(***************************************************************************)
EXTENDS SymbolCache, FiniteSetTheorems, TLAPS

USE DEF Files, Bodies

\* Storing an option, an answer or a fresh call in the local variables.
LEMMA CallType ==
  /\ \A c \in Calls : [c EXCEPT !.result = "failed"] \in Calls
  /\ \A c \in Calls, i \in Images, s \in Symbols :
       [c EXCEPT !.result = "exact", !.found = [image |-> i, symbol |-> s]] \in Calls
  /\ \A i \in Images, o \in Options :
       [image |-> i, options |-> o, result |-> "pending", found |-> NoFind] \in Calls
  /\ \A i \in Images :
       [image |-> i, options |-> [server |-> FALSE, dry |-> FALSE],
        result |-> "failed", found |-> NoFind] \in Calls
  BY DEF Calls, NoFind, Options

\* The labels that a step names.
LEMMA LabelNames ==
  \A l \in {"idle", "look", "load", "purge", "prepare", "request", "receive",
            "publish", "reload", "discard", "drop"} : l \in Labels
  BY DEF Labels

\* A table holds finitely many symbols, and if one of them is eligible alone, it
\* is the one that symbol_callback leaves behind.
LEMMA OneMatch ==
  ASSUME TypeOK, Cardinality(Matches) = 1, NEW s \in Matches
  PROVE  Matches = {s} /\ s \in Symbols
<1>1. table[shell32] \in Tables
  BY DEF TypeOK
<1>2. IsFiniteSet(Matches) /\ s \in Symbols
  BY <1>1, TableAssumption, FS_Subset DEF Matches
<1> QED
  BY <1>2, FS_Singleton

\* The initial states satisfy the invariant.
THEOREM InitCache == Init => CacheInv
<1> SUFFICES ASSUME Init PROVE CacheInv
  OBVIOUS
<1>1. TypeOK
  <2>1. shell32 \in Images /\ table \in [Images -> Tables] /\ cache \in [Images -> Files]
    BY DEF Init
  <2>2. temp \in [Procs -> Files] /\ pc \in [Procs -> Labels] /\ disturbed \subseteq Procs
    BY LabelNames DEF Init
  <2>3. \A p \in Procs : call[p] \in Calls /\ call[p].result = "failed" /\ pc[p] = "idle"
    <3> DEFINE c == [image |-> shell32, options |-> [server |-> FALSE, dry |-> FALSE],
                     result |-> "failed", found |-> NoFind]
    <3>1. c \in Calls /\ c.result = "failed"
      BY <2>1, CallType
    <3>2. call \in [Procs -> {c}] /\ \A p \in Procs : pc[p] = "idle"
      BY DEF Init
    <3> QED
      BY <3>1, <3>2
  <2>4. call \in [Procs -> Calls]
    BY <2>3 DEF Init
  <2> QED
    BY <2>1, <2>2, <2>3, <2>4 DEF TypeOK
<1>2. Updating /\ WholeBody /\ OnTrack
  BY DEF Init, Updating, WholeBody, OnTrack
<1>3. CachedIsWhole
  BY ContentAssumption DEF Init, CachedIsWhole
<1>4. ResolvedIsExact
  BY DEF Init, ResolvedIsExact
<1>5. UndisturbedSucceeds
  BY DEF Init, UndisturbedSucceeds
<1> QED
  BY <1>1, <1>2, <1>3, <1>4, <1>5 DEF CacheInv

-----------------------------------------------------------------------------
\* A call returns -1, goes on, or returns the address: what is left to show is
\* that the files keep their types.
LEMMA RefusedTypes ==
  ASSUME TypeOK, NEW p \in Procs, Refuse(p),
         UNCHANGED <<shell32, table>>, cache' \in [Images -> Files],
         temp' \in [Procs -> Files], disturbed' \subseteq Procs
  PROVE  TypeOK'
<1>1. pc' \in [Procs -> Labels] /\ pc'[p] = "idle" /\ \A q \in Procs \ {p} : pc'[q] = pc[q]
  BY LabelNames DEF Refuse, Goto, TypeOK
<1>2. [call[p] EXCEPT !.result = "failed"] \in Calls
  BY CallType DEF TypeOK
<1>3. /\ call' \in [Procs -> Calls] /\ call'[p].result = "failed"
      /\ \A q \in Procs \ {p} : call'[q] = call[q]
  BY <1>2 DEF Refuse, TypeOK, Calls
<1> QED
  BY <1>1, <1>3 DEF TypeOK

\* The call goes on at another label.
LEMMA MovedTypes ==
  ASSUME TypeOK, NEW p \in Procs, NEW l \in Labels \ {"idle"}, pc[p] # "idle", Goto(p, l),
         UNCHANGED <<shell32, table, call>>, cache' \in [Images -> Files],
         temp' \in [Procs -> Files], disturbed' \subseteq Procs
  PROVE  TypeOK'
  BY DEF Goto, TypeOK

\* The call returns the address of the one match.
LEMMA ResolvedTypes ==
  ASSUME TypeOK, NEW p \in Procs, Resolve(p), UNCHANGED <<shell32, table, cache, temp>>
  PROVE  TypeOK'
<1>1. PICK s \in Matches :
        call' = [call EXCEPT ![p].result = "exact", ![p].found = [image |-> shell32, symbol |-> s]]
  BY DEF Resolve
<1>2. s \in Symbols /\ shell32 \in Images /\ call[p] \in Calls
  BY <1>1, OneMatch DEF Resolve, Found, TypeOK
<1>3. [call[p] EXCEPT !.result = "exact", !.found = [image |-> shell32, symbol |-> s]] \in Calls
  BY <1>2, CallType
<1>4. /\ call' \in [Procs -> Calls] /\ call'[p].result = "exact"
      /\ \A q \in Procs \ {p} : call'[q] = call[q]
  BY <1>1, <1>2, <1>3 DEF TypeOK, Calls
<1>5. pc' \in [Procs -> Labels] /\ pc'[p] = "idle" /\ \A q \in Procs \ {p} : pc'[q] = pc[q]
  BY LabelNames DEF Resolve, Goto, TypeOK
<1> QED
  BY <1>4, <1>5 DEF TypeOK, Resolve

\* A step keeps the types.
LEMMA StepTypes ==
  ASSUME TypeOK, NEW p \in Procs, Start(p) \/ Step(p) \/ Crash(p)
  PROVE  TypeOK'
<1> USE LabelNames
<1>0. disturbed \subseteq Procs /\ cache \in [Images -> Files] /\ temp \in [Procs -> Files]
      /\ call[p] \in Calls /\ call[p].image \in Images
  BY DEF TypeOK, Calls
<1>1. CASE Start(p)
  <2>1. PICK o \in Options :
          call' = [call EXCEPT ![p] = [image |-> shell32, options |-> o,
                                       result |-> "pending", found |-> NoFind]]
    BY <1>1 DEF Start
  <2>2. /\ call' \in [Procs -> Calls] /\ call'[p].result = "pending"
        /\ \A q \in Procs \ {p} : call'[q] = call[q]
    BY <2>1, CallType DEF TypeOK
  <2> QED
    BY <2>2, <1>1 DEF Start, Goto, TypeOK
<1>2. CASE Look(p)
  BY <1>2, <1>0, RefusedTypes, MovedTypes DEF Look, Proceed, Fails, Fault
<1>3. ASSUME NEW l \in {"purge", "discard"}, pc[p] # "idle", UNCHANGED <<shell32, table, cache, temp>>,
             Resolve(p) \/ Unsuitable(p) \/ Mismatch(p, l) \/ DbgHelpFails(p, l)
      PROVE  TypeOK'
  <2>1. CASE Resolve(p)
    BY <2>1, <1>3, ResolvedTypes
  <2>2. CASE Unsuitable(p)
    BY <2>2, <1>3, <1>0, RefusedTypes DEF Unsuitable
  <2>3. CASE Mismatch(p, l)
    BY <2>3, <1>3, <1>0, RefusedTypes, MovedTypes DEF Mismatch, Proceed
  <2>4. CASE DbgHelpFails(p, l)
    BY <2>4, <1>3, <1>0, RefusedTypes, MovedTypes DEF DbgHelpFails, Fails, Fault
  <2> QED
    BY <1>3, <2>1, <2>2, <2>3, <2>4
<1>4. ASSUME NEW i \in Images, NEW f \in Files, NEW O \in SUBSET Procs, SetCache(i, f, O)
      PROVE  cache' \in [Images -> Files] /\ disturbed' \subseteq Procs
  BY <1>4, <1>0 DEF SetCache
<1>5. CASE Load(p)
  BY <1>5, <1>3 DEF Load
<1>6. CASE Purge(p)
  BY <1>6, <1>0, <1>4, RefusedTypes, MovedTypes DEF Purge, Fault
<1>7. CASE Prepare(p)
  BY <1>7, <1>0, RefusedTypes, MovedTypes DEF Prepare, Proceed, Fault
<1>8. CASE Request(p)
  BY <1>8, <1>0, MovedTypes DEF Request, Proceed, Fails, Fault
<1>9. CASE Receive(p)
  BY <1>9, <1>0, MovedTypes DEF Receive, Proceed, Fails, Fault
<1>10. CASE Publish(p)
  <2>1. CASE Fails(p, "drop") /\ UNCHANGED <<cache, temp>>
    BY <2>1, <1>10, <1>0, MovedTypes DEF Publish, Fails, Fault
  <2>2. CASE Goto(p, "reload") /\ SetCache(call[p].image, temp[p], Procs \ {p})
             /\ temp' = [temp EXCEPT ![p] = Missing] /\ UNCHANGED call
    <3>1. temp' \in [Procs -> Files] /\ temp[p] \in Files
      BY <2>2, <1>0
    <3>2. Procs \ {p} \in SUBSET Procs
      OBVIOUS
    <3>3. cache' \in [Images -> Files] /\ disturbed' \subseteq Procs
      BY <3>1, <3>2, <2>2, <1>0, <1>4
    <3>4. pc[p] # "idle" /\ UNCHANGED <<shell32, table, call>>
      BY <2>2, <1>10 DEF Publish
    <3> QED
      BY <3>1, <3>3, <3>4, <2>2, MovedTypes
  <2> QED
    BY <2>1, <2>2, <1>10 DEF Publish
<1>11. CASE Drop(p)
  BY <1>11, <1>0, RefusedTypes DEF Drop
<1>12. CASE Reload(p)
  BY <1>12, <1>3 DEF Reload
<1>13. CASE Discard(p)
  BY <1>13, <1>0, <1>4, RefusedTypes DEF Discard
<1>14. CASE Crash(p)
  BY <1>14, <1>0, RefusedTypes DEF Crash
<1> QED
  BY <1>1, <1>2, <1>5, <1>6, <1>7, <1>8, <1>9, <1>10, <1>11, <1>12, <1>13, <1>14 DEF Step

\* What no process does keeps them, too.
LEMMA OutsideTypes == TypeOK /\ (Servicing \/ Damage) => TypeOK'
<1>1. TypeOK /\ Servicing => TypeOK'
  BY DEF Servicing, TypeOK
<1>2. TypeOK /\ Damage => TypeOK'
  BY DEF Damage, SetCache, TypeOK
<1> QED
  BY <1>1, <1>2

-----------------------------------------------------------------------------
\* A step of p leaves the others where they are, and it stops updating nobody.
LEMMA OthersStay ==
  ASSUME TypeOK, NEW p \in Procs, Start(p) \/ Step(p) \/ Crash(p)
  PROVE  /\ UNCHANGED <<shell32, table>>
         /\ \A q \in Procs \ {p} : pc'[q] = pc[q] /\ call'[q] = call[q] /\ temp'[q] = temp[q]
         /\ \A q \in Procs \ {p} : q \in disturbed => q \in disturbed'
  BY DEF TypeOK, Step, Start, Crash, Look, Load, Purge, Prepare, Request, Receive, Publish, Drop, Reload,
         Discard, Resolve, Unsuitable, Mismatch, DbgHelpFails, Proceed, Fails, Fault, Refuse, Goto, SetCache

\* The call of p keeps its image and its options until the next one starts.
LEMMA SameCall ==
  ASSUME TypeOK, NEW p \in Procs, Step(p) \/ Crash(p)
  PROVE  call'[p].image = call[p].image /\ call'[p].options = call[p].options
  BY DEF TypeOK, Step, Crash, Look, Load, Purge, Prepare, Request, Receive, Publish, Drop, Reload,
         Discard, Resolve, Unsuitable, Mismatch, DbgHelpFails, Proceed, Fails, Fault, Refuse, Goto, SetCache,
         Calls

\* Only a call that may update gets past the cached file.
LEMMA StepUpdating ==
  ASSUME TypeOK, Updating, NEW p \in Procs, Start(p) \/ Step(p) \/ Crash(p)
  PROVE  Updating'
<1>1. \A q \in Procs \ {p} : pc'[q] = pc[q] /\ (MayUpdate(q))' = MayUpdate(q)
  BY OthersStay DEF MayUpdate
<1>2. CASE Start(p)
  BY <1>1, <1>2 DEF Start, Goto, Updating, TypeOK
<1>3. CASE Crash(p)
  BY <1>1, <1>3 DEF Crash, Refuse, Goto, Updating, TypeOK
<1>4. CASE Step(p)
  <2>1. (MayUpdate(p))' = MayUpdate(p)
    BY <1>4, SameCall DEF MayUpdate
  <2>2. pc'[p] \in {"idle", "look", "load"} \/ MayUpdate(p)
    BY <1>4 DEF Updating, TypeOK, Step, Look, Load, Purge, Prepare, Request, Receive, Publish, Drop, Reload,
         Discard, Resolve, Unsuitable, Mismatch, DbgHelpFails, Proceed, Fails, Refuse, Goto
  <2> QED
    BY <1>1, <2>1, <2>2 DEF Updating
<1> QED
  BY <1>2, <1>3, <1>4

\* What is published is whole, and nothing else reaches the cache.
LEMMA StepWhole ==
  ASSUME TypeOK, WholeBody, CachedIsWhole, NEW p \in Procs, Start(p) \/ Step(p) \/ Crash(p)
  PROVE  WholeBody' /\ CachedIsWhole'
<1>1. pc'[p] = "publish" => temp'[p] \in Bodies
  <2>1. CASE Receive(p)
    BY <2>1 DEF TypeOK, Calls, Receive, Proceed, Fails, Goto
  <2>2. CASE ~Receive(p)
    BY <2>2 DEF TypeOK, Step, Start, Crash, Look, Load, Purge, Prepare, Request, Publish, Drop, Reload,
         Discard, Resolve, Unsuitable, Mismatch, DbgHelpFails, Proceed, Fails, Refuse, Goto
  <2> QED
    BY <2>1, <2>2
<1>2. \A i \in Images : cache'[i] \in {cache[i], Missing} \/ (pc[p] = "publish" /\ cache'[i] = temp[p])
  <2>1. CASE Start(p) \/ Crash(p)
    BY <2>1 DEF Start, Crash
  <2>2. CASE Step(p)
    BY <2>2 DEF TypeOK, Step, Look, Load, Purge, Prepare, Request, Receive, Publish, Drop, Reload, Discard,
         SetCache
  <2> QED
    BY <2>1, <2>2
<1>3. WholeBody'
  BY <1>1, OthersStay DEF WholeBody
<1>4. CachedIsWhole'
  BY <1>2, ContentAssumption DEF CachedIsWhole, WholeBody
<1> QED
  BY <1>3, <1>4
\* A call that nothing has disturbed stays on its track, and a step of another
\* process that takes its file away disturbs it.
LEMMA StepOnTrack ==
  ASSUME TypeOK, OnTrack, NEW p \in Procs, Start(p) \/ Step(p) \/ Crash(p)
  PROVE  OnTrack'
<1> DEFINE Track(q) == /\ call[q].image = shell32
                       /\ pc[q] \notin {"drop", "discard"}
                       /\ pc[q] = "publish" => temp[q] = shell32
                       /\ pc[q] = "reload" => cache[shell32] = shell32
<1>1. ASSUME NEW q \in Procs \ {p}, q \notin disturbed', pc'[q] # "idle"
      PROVE  Track(q)'
  <2>1. q \notin disturbed /\ pc[q] # "idle" /\ Track(q)
    BY <1>1, OthersStay DEF OnTrack
  <2>2. cache'[shell32] = cache[shell32]
    BY <2>1, <1>1 DEF TypeOK, Calls, Step, Start, Crash, Look, Load, Purge, Prepare, Request, Receive, Publish,
       Drop, Reload, Discard, SetCache
  <2> QED
    BY <2>1, <2>2, <1>1, OthersStay
<1>2. ASSUME p \notin disturbed', pc'[p] # "idle"
      PROVE  Track(p)'
  <2>1. CASE Start(p)
    BY <2>1, <1>2 DEF Start, Goto, TypeOK
  <2>2. CASE Step(p)
    <3>1. p \notin disturbed /\ pc[p] # "idle"
      BY <2>2, <1>2 DEF TypeOK, Step, Look, Load, Purge, Prepare, Request, Receive, Publish, Drop, Reload,
         Discard, Resolve, Unsuitable, Mismatch, DbgHelpFails, Proceed, Fails, Fault, Refuse, Goto, SetCache
    <3>2. Track(p) /\ UNCHANGED shell32 /\ call'[p].image = call[p].image
      BY <3>1, <2>2, SameCall, OthersStay DEF OnTrack
    <3>3. pc'[p] \notin {"drop", "discard"}
      BY <3>1, <3>2, <2>2, <1>2 DEF TypeOK, Step, Look, Load, Purge, Prepare, Request, Receive, Publish,
         Drop, Reload, Discard, Resolve, Unsuitable, Mismatch, DbgHelpFails, Proceed, Fails, Fault, Refuse,
         Goto, SetCache, PdbMatches
    <3>4. pc'[p] = "publish" => temp'[p] = shell32
      BY <3>1, <3>2, <2>2, <1>2 DEF TypeOK, Step, Look, Load, Purge, Prepare, Request, Receive, Publish,
         Drop, Reload, Discard, Resolve, Unsuitable, Mismatch, DbgHelpFails, Proceed, Fails, Fault, Refuse, Goto
    <3>5. pc'[p] = "reload" => cache'[shell32] = shell32
      BY <3>1, <3>2, <2>2, <1>2 DEF TypeOK, Step, Look, Load, Purge, Prepare, Request, Receive, Publish,
         Drop, Reload, Discard, Resolve, Unsuitable, Mismatch, DbgHelpFails, Proceed, Fails, Refuse, Goto, SetCache
    <3> QED
      BY <3>2, <3>3, <3>4, <3>5
  <2>3. CASE Crash(p)
    BY <2>3, <1>2 DEF Crash, Refuse, Goto, TypeOK
  <2> QED
    BY <2>1, <2>2, <2>3
<1> QED
  BY <1>1, <1>2 DEF OnTrack

\* Resolve answers with the one eligible symbol of the image in p's hand.
LEMMA ResolveExact ==
  ASSUME TypeOK, NEW p \in Procs, Resolve(p), UNCHANGED <<shell32, table>>
  PROVE  LET f == call'[p].found
             named == {s \in table[f.image] : Eligible(s)}
         IN /\ f.image = call'[p].image
            /\ f.symbol.name # "other" /\ f.symbol.kind # "data" /\ f.symbol.exec
            /\ named = {f.symbol}
<1>1. PICK s \in Matches :
        call' = [call EXCEPT ![p].result = "exact", ![p].found = [image |-> shell32, symbol |-> s]]
  BY DEF Resolve
<1>2. call'[p].found = [image |-> shell32, symbol |-> s] /\ call'[p].image = shell32
  BY <1>1 DEF TypeOK, Calls, Resolve, Found, PdbMatches
<1>3. Matches = {s} /\ Eligible(s) /\ s.exec
  BY <1>1, OneMatch DEF Resolve, Found, Matches
<1>4. s.name # "other" /\ s.kind # "data"
  BY <1>3 DEF Eligible
<1> QED
  BY <1>2, <1>3, <1>4 DEF Matches

\* So every answer is exact,
LEMMA StepExact ==
  ASSUME TypeOK, ResolvedIsExact, NEW p \in Procs, Start(p) \/ Step(p) \/ Crash(p)
  PROVE  ResolvedIsExact'
<1>1. CASE Resolve(p)
  <2>1. UNCHANGED <<shell32, table>>
    BY OthersStay
  <2>2. \A q \in Procs : call'[q].result = "exact" =>
          LET f == call'[q].found
              named == {s \in table[f.image] : Eligible(s)}
          IN /\ f.image = call'[q].image
             /\ f.symbol.name # "other" /\ f.symbol.kind # "data" /\ f.symbol.exec
             /\ named = {f.symbol}
    <3>1. TAKE q \in Procs
    <3>2. CASE q = p
      BY <3>2, <1>1, <2>1, ResolveExact
    <3>3. CASE q # p
      BY <3>3, OthersStay DEF ResolvedIsExact
    <3> QED
      BY <3>2, <3>3
  <2> QED
    BY <2>1, <2>2 DEF ResolvedIsExact
<1>2. CASE ~Resolve(p)
  <2>1. call'[p].result = "exact" => call'[p] = call[p]
    BY <1>2 DEF TypeOK, Calls, Step, Start, Crash, Look, Load, Purge, Prepare, Request, Receive, Publish, Drop,
       Reload, Discard, Unsuitable, Mismatch, DbgHelpFails, Proceed, Fails, Refuse, Goto
  <2> QED
    BY <2>1, OthersStay DEF ResolvedIsExact
<1> QED
  BY <1>1, <1>2

\* and a call that nothing has disturbed fails only when it may not update the
\* cache or the PDB does not identify one function.
LEMMA StepSucceeds ==
  ASSUME TypeOK, OnTrack, UndisturbedSucceeds, NEW p \in Procs, Start(p) \/ Step(p) \/ Crash(p)
  PROVE  UndisturbedSucceeds'
<1>1. ASSUME p \notin disturbed', pc'[p] = "idle", call'[p].options.server, ~call'[p].options.dry,
             Cardinality(Matches) = 1, \A s \in Matches : s.exec
      PROVE  call'[p].result = "exact"
  <2>1. Step(p) /\ pc[p] # "idle" /\ MayUpdate(p)
    BY <1>1, SameCall DEF TypeOK, Start, Crash, Goto, Step, Look, Load, Purge, Prepare, Request, Receive, Publish,
       Drop, Reload, Discard, MayUpdate
  <2>2. p \notin disturbed
    BY <1>1, <2>1 DEF TypeOK, Step, Look, Load, Purge, Prepare, Request, Receive, Publish, Drop, Reload,
       Discard, Resolve, Unsuitable, Mismatch, DbgHelpFails, Proceed, Fails, Fault, Refuse, Goto, SetCache
  <2>3. pc[p] \notin {"drop", "discard"}
    BY <2>1, <2>2 DEF OnTrack
  <2>4. Resolve(p)
    BY <1>1, <2>1, <2>2, <2>3 DEF TypeOK, Step, Look, Load, Purge, Prepare, Request, Receive, Publish, Drop,
       Reload, Discard, Unsuitable, Mismatch, DbgHelpFails, Proceed, Fails, Fault, Refuse, Goto, Found
  <2> QED
    BY <2>4 DEF Resolve, TypeOK, Calls
<1>2. Matches' = Matches
  BY OthersStay DEF Matches
<1> QED
  BY <1>1, <1>2, OthersStay DEF UndisturbedSucceeds

-----------------------------------------------------------------------------
\* What happens outside the program keeps the invariant as well.
LEMMA OutsideCache == CacheInv /\ (Servicing \/ Damage) => CacheInv'
<1> SUFFICES ASSUME CacheInv, Servicing \/ Damage PROVE CacheInv'
  OBVIOUS
<1>1. TypeOK /\ TypeOK'
  BY OutsideTypes DEF CacheInv
<1>2. UNCHANGED <<table, temp, pc, call>> /\ disturbed \subseteq disturbed'
  BY <1>1 DEF Servicing, Damage, SetCache, TypeOK
<1>3. Updating' /\ WholeBody' /\ ResolvedIsExact'
  BY <1>2 DEF CacheInv, Updating, MayUpdate, WholeBody, ResolvedIsExact
<1>4. CachedIsWhole'
  BY <1>1, ContentAssumption DEF CacheInv, CachedIsWhole, Servicing, Damage, SetCache, TypeOK
<1>5. CASE Servicing
  BY <1>1, <1>3, <1>4, <1>5 DEF Servicing, CacheInv, OnTrack, UndisturbedSucceeds
<1>6. CASE Damage
  <2>1. UNCHANGED shell32 /\ Matches' = Matches
    BY <1>6, <1>2 DEF Damage, Matches
  <2>2. OnTrack'
    BY <1>1, <1>6, <1>2, <2>1 DEF Damage, SetCache, CacheInv, OnTrack, TypeOK
  <2>3. UndisturbedSucceeds'
    BY <1>2, <2>1 DEF CacheInv, UndisturbedSucceeds
  <2> QED
    BY <1>1, <1>3, <1>4, <2>2, <2>3 DEF CacheInv
<1> QED
  BY <1>5, <1>6

\* CacheInv is inductive.
THEOREM StepCache == CacheInv /\ [Next]_vars => CacheInv'
<1> SUFFICES ASSUME CacheInv, [Next]_vars PROVE CacheInv'
  OBVIOUS
<1>1. ASSUME NEW p \in Procs, Start(p) \/ Step(p) \/ Crash(p) PROVE CacheInv'
  BY <1>1, StepTypes, StepUpdating, StepWhole, StepOnTrack, StepExact, StepSucceeds DEF CacheInv
<1>2. CASE Servicing \/ Damage
  BY <1>2, OutsideCache
<1>3. CASE UNCHANGED vars
  BY <1>3 DEF vars, CacheInv, TypeOK, Updating, MayUpdate, WholeBody, CachedIsWhole, OnTrack, ResolvedIsExact,
     UndisturbedSucceeds, Matches
<1> QED
  BY <1>1, <1>2, <1>3 DEF Next

\* Every reachable state satisfies the invariant.
THEOREM CacheInvariance == Spec => []CacheInv
  BY InitCache, StepCache, PTL DEF Spec

-----------------------------------------------------------------------------
(* What a reader should know *)

\* resolve_with_symbols returns the address of the only function of the
\* watermark's name in the PDB of exactly the image that its caller has read.
THEOREM AnswersAreExact == Spec => []ResolvedIsExact
<1>1. CacheInv => ResolvedIsExact
  BY DEF CacheInv
<1> QED
  BY <1>1, CacheInvariance, PTL

\* An interrupted download never shows up as a cached PDB.
THEOREM CacheIsWhole == Spec => []CachedIsWhole
<1>1. CacheInv => CachedIsWhole
  BY DEF CacheInv
<1> QED
  BY <1>1, CacheInvariance, PTL

\* The cache heals: a call that may update it and that nothing disturbs succeeds
\* whatever the cached file was.
THEOREM CacheHeals == Spec => []UndisturbedSucceeds
<1>1. CacheInv => UndisturbedSucceeds
  BY DEF CacheInv
<1> QED
  BY <1>1, CacheInvariance, PTL

\* The variables keep their types, and a call has a result exactly when it has
\* returned.
THEOREM CacheTypeCorrect == Spec => []TypeOK
<1>1. CacheInv => TypeOK
  BY DEF CacheInv
<1> QED
  BY <1>1, CacheInvariance, PTL

\* A dry run and an offline run leave the cache and the downloads alone.
THEOREM ReadersOnlyRead == Spec => ReadersWriteNothing
<1> DEFINE Reads == \A p \in Procs :
      /\ pc[p] # "idle" /\ pc'[p] # pc[p]
      /\ call[p].options.dry \/ ~call[p].options.server
      => UNCHANGED <<cache, temp>>
<1>1. CacheInv /\ [Next]_vars => [Reads]_vars
  <2> SUFFICES ASSUME CacheInv, Next, NEW p \in Procs, pc[p] # "idle", pc'[p] # pc[p],
                      call[p].options.dry \/ ~call[p].options.server
               PROVE  UNCHANGED <<cache, temp>>
    BY DEF vars
  <2>1. TypeOK /\ pc[p] \in {"look", "load"}
    BY DEF CacheInv, Updating, MayUpdate
  <2>2. Step(p) \/ Crash(p)
    BY <2>1, OthersStay DEF Next, Servicing, Damage, Start
  <2> QED
    BY <2>1, <2>2 DEF Step, Crash, Look, Load, Purge, Prepare, Request, Receive, Publish, Drop, Reload, Discard
<1> QED
  BY <1>1, CacheInvariance, PTL DEF Spec, ReadersWriteNothing
-----------------------------------------------------------------------------
(* Every call returns: what can be said of Terminates without fairness *)

\* At most so many calls on files, on DbgHelp and on the server are left to make.
CallsLeft(p) ==
  CASE pc[p] = "look"    -> 9
    [] pc[p] = "load"    -> 8
    [] pc[p] = "purge"   -> 7
    [] pc[p] = "prepare" -> 6
    [] pc[p] = "request" -> 5
    [] pc[p] = "receive" -> 4
    [] pc[p] = "publish" -> 3
    [] pc[p] = "reload"  -> 2
    [] pc[p] \in {"discard", "drop"} -> 1
    [] OTHER -> 0

CallsRunOut ==
  [][\A p \in Procs :
       /\ Step(p) => CallsLeft(p)' < CallsLeft(p)
       /\ CallsLeft(p)' > CallsLeft(p) => Start(p)]_vars

\* resolve_with_symbols makes nine calls at most: whatever the cache holds, the
\* server sends, other processes do and calls fail, a bad file is downloaded
\* again once and no more, and nothing but its caller starts it anew.
THEOREM ResolverRunsOut ==
  Spec => CallsRunOut /\ [](\A p \in Procs : CallsLeft(p) \in 0..9 /\ (CallsLeft(p) = 0 <=> pc[p] = "idle"))
<1> DEFINE Down == \A p \in Procs :
      /\ Step(p) => CallsLeft(p)' < CallsLeft(p)
      /\ CallsLeft(p)' > CallsLeft(p) => Start(p)
           Within == \A p \in Procs :
      CallsLeft(p) \in 0..9 /\ (CallsLeft(p) = 0 <=> pc[p] = "idle")
<1>1. CacheInv => Within
  BY DEF CacheInv, TypeOK, Labels, CallsLeft
<1>2. ASSUME TypeOK, NEW p \in Procs, Step(p) PROVE CallsLeft(p)' < CallsLeft(p)
  BY <1>2 DEF TypeOK, CallsLeft, Step, Look, Load, Purge, Prepare, Request, Receive, Publish,
     Drop, Reload, Discard, Resolve, Unsuitable, Mismatch, DbgHelpFails, Proceed, Fails, Refuse, Goto
<1>3. ASSUME TypeOK, NEW p \in Procs, pc'[p] \in {pc[p], "idle"} PROVE CallsLeft(p)' <= CallsLeft(p)
  BY <1>3 DEF TypeOK, Labels, CallsLeft
<1>4. CacheInv /\ [Next]_vars => [Down]_vars
  <2> SUFFICES ASSUME CacheInv, Next, NEW p \in Procs
               PROVE  /\ Step(p) => CallsLeft(p)' < CallsLeft(p)
                      /\ CallsLeft(p)' > CallsLeft(p) => Start(p)
    OBVIOUS
  <2>1. TypeOK /\ CallsLeft(p) \in 0..9
    BY <1>1 DEF CacheInv
  <2>2. CASE Start(p)
    BY <1>2, <2>1, <2>2
  <2>3. CASE Step(p)
    <3>1. CallsLeft(p)' < CallsLeft(p)
      BY <1>2, <2>1, <2>3
    <3>2. CallsLeft(p)' \in Int
      BY DEF CallsLeft
    <3> QED BY <2>1, <3>1, <3>2
  <2>4. CASE ~Start(p) /\ ~Step(p)
    <3>1. pc'[p] \in {pc[p], "idle"}
      BY <2>1, <2>4, OthersStay DEF Next, TypeOK, Crash, Refuse, Goto, Servicing, Damage
    <3>2. CallsLeft(p)' <= CallsLeft(p)
      BY <1>3, <2>1, <3>1
    <3>3. CallsLeft(p)' \in Int
      BY DEF CallsLeft
    <3> QED BY <2>1, <2>4, <3>2, <3>3
  <2> QED BY <2>2, <2>3, <2>4
<1> QED
  BY <1>1, <1>4, CacheInvariance, PTL DEF Spec, CallsRunOut
=============================================================================
