------------------------- MODULE RollbackStoreProofs -------------------------
(***************************************************************************)
(* Proofs about RollbackStore, for any sessions, records and faults: what  *)
(* the file may hold whenever a worker dies or the power is lost, and that *)
(* the calls implement RecordStore.                                        *)
(***************************************************************************)
EXTENDS RollbackStore, TLAPS

------------------------------------------------------------------------------
(* Records and readings *)

\* A record apply_patch may save is one load_state accepts, alignment and
\* protection included.
LEMMA SavableIsAccepted ==
  ASSUME NEW s \in Sessions, NEW rec \in Savable[s]
  PROVE  /\ rec \in State /\ rec \in Contents
         /\ Reading(rec, s) = rec
         /\ rec \notin {Missing, Short, Junk, NoState, Corrupt}
<1>1. rec \in State /\ Accepts(rec, s)
  <2>1. PICK t \in Target : Resolved(t) /\ Adoptable(t) /\ rec = Filled(s, t)
    BY DEF Savable
  <2>2. rec \in State
    BY <2>1 DEF Filled, Target, State
  <2>3. Accepts(rec, s)
    BY <2>1 DEF Filled, Resolved, Adoptable, Accepts
  <2> QED BY <2>2, <2>3
<1>2. rec \notin {Missing, Short, Junk, NoState, Corrupt}
  BY <1>1, ContentAssumption
<1> QED BY <1>1, <1>2 DEF Reading, Contents

\* No file reads as no record, and is not taken for a damaged one.
LEMMA MissingIsNoState == ASSUME NEW s PROVE Reading(Missing, s) = NoState /\ NoState # Corrupt
BY ContentAssumption DEF Reading

\* load_state has three kinds of answer.
LEMMA ReadingType == ASSUME NEW c, NEW s PROVE Reading(c, s) \in Readings
BY DEF Reading, Readings

------------------------------------------------------------------------------
(* The inductive invariant *)

\* A file nobody has touched is whole; what is about to be moved over it is
\* whole and on the disk; only a call that failed leads to a failure.
Untouched(s) == s \notin spoiled =>
  /\ file[s] \in Savable[s] \cup {Missing}
  /\ onDisk[s] \in Savable[s] \cup {Missing}

Written(s) == pc[s] \in {"flush", "move"} => temp[s] = job[s]

Flushed(s) == pc[s] = "move" => s \in synced

Kept(s) == pc[s] = "saved" /\ s \notin spoiled => file[s] = job[s] /\ onDisk[s] = job[s]

Blamed(s) == pc[s] \in {"drop", "failed"} => s \in hindered

IInv ==
  /\ TypeOK
  /\ \A s \in Sessions : Untouched(s) /\ Written(s) /\ Flushed(s) /\ Kept(s) /\ Blamed(s)

LEMMA PathsAreSessions == Paths = Sessions
BY DEF Paths, StatePath

LEMMA InitIInv == Init => IInv
<1> SUFFICES ASSUME Init PROVE IInv
  OBVIOUS
<1>1. TypeOK
  <2>1. \A s \in Sessions : job[s] \in State
    BY SavableIsAccepted DEF Init
  <2>2. DOMAIN job = Sessions /\ job = [s \in Sessions |-> job[s]]
    BY DEF Init
  <2>3. job \in [Sessions -> State]
    BY <2>1, <2>2
  <2> QED BY <2>3 DEF Init, TypeOK, Contents
<1>2. ASSUME NEW s \in Sessions
      PROVE  Untouched(s) /\ Written(s) /\ Flushed(s) /\ Kept(s) /\ Blamed(s)
  BY PathsAreSessions DEF Init, Untouched, Written, Flushed, Kept, Blamed
<1> QED BY <1>1, <1>2 DEF IInv

LEMMA TypeStep == TypeOK /\ [Next]_vars => TypeOK'
<1> SUFFICES ASSUME TypeOK, [Next]_vars PROVE TypeOK'
  OBVIOUS
<1> USE PathsAreSessions DEF TypeOK, Goto, StatePath
<1>1. ASSUME NEW s \in Sessions, BeginSave(s) PROVE TypeOK'
  BY <1>1, SavableIsAccepted DEF BeginSave
<1>2. ASSUME NEW s \in Sessions, CreateTemporary(s) PROVE TypeOK'
  BY <1>2 DEF CreateTemporary, Contents
<1>3. ASSUME NEW s \in Sessions, WriteTemporary(s) PROVE TypeOK'
  BY <1>3 DEF WriteTemporary, Contents
<1>4. ASSUME NEW s \in Sessions, FlushTemporary(s) PROVE TypeOK'
  BY <1>4 DEF FlushTemporary
<1>5. ASSUME NEW s \in Sessions, MoveOver(s) PROVE TypeOK'
  BY <1>5 DEF MoveOver, Contents
<1>6. ASSUME NEW s \in Sessions, CreateFails(s) \/ LaterCallFails(s) PROVE TypeOK'
  BY <1>6 DEF CreateFails, LaterCallFails
<1>7. ASSUME NEW s \in Sessions, DropTemporary(s) PROVE TypeOK'
  BY <1>7 DEF DropTemporary, Contents
<1>8. ASSUME NEW s \in Sessions, DeleteState(s) PROVE TypeOK'
  BY <1>8 DEF DeleteState, Contents
<1>9. ASSUME NEW s \in Sessions, Killed(s) PROVE TypeOK'
  BY <1>9 DEF Killed
<1>10. ASSUME NEW p \in Paths, Settle(p) PROVE TypeOK'
  BY <1>10 DEF Settle
<1>11. ASSUME NEW p \in Paths, Damage(p) PROVE TypeOK'
  BY <1>11 DEF Damage
<1>12. CASE PowerLoss
  BY <1>12 DEF PowerLoss
<1>13. CASE UNCHANGED vars
  BY <1>13 DEF vars
<1> QED BY <1>1, <1>2, <1>3, <1>4, <1>5, <1>6, <1>7, <1>8, <1>9, <1>10, <1>11, <1>12, <1>13 DEF Next, SaveStep

LEMMA InductiveStep == IInv /\ [Next]_vars => IInv'
<1> SUFFICES ASSUME IInv, [Next]_vars PROVE IInv'
  OBVIOUS
<1>1. TypeOK /\ TypeOK'
  BY TypeStep DEF IInv
<1>2. SUFFICES ASSUME NEW t \in Sessions
               PROVE  (Untouched(t) /\ Written(t) /\ Flushed(t) /\ Kept(t) /\ Blamed(t))'
  BY <1>1 DEF IInv
<1> DEFINE Good(s) == Untouched(s) /\ Written(s) /\ Flushed(s) /\ Kept(s) /\ Blamed(s)
<1>3. Good(t)
  BY DEF IInv
<1> USE <1>1, <1>3, PathsAreSessions
        DEF TypeOK, Goto, StatePath, Untouched, Written, Flushed, Kept, Blamed
<1>a. ASSUME NEW s \in Sessions, BeginSave(s) PROVE Good(t)'
  BY <1>a DEF BeginSave
<1>b. ASSUME NEW s \in Sessions, CreateTemporary(s) PROVE Good(t)'
  BY <1>b DEF CreateTemporary
<1>c. ASSUME NEW s \in Sessions, WriteTemporary(s) PROVE Good(t)'
  BY <1>c DEF WriteTemporary
<1>d. ASSUME NEW s \in Sessions, FlushTemporary(s) PROVE Good(t)'
  BY <1>d DEF FlushTemporary
<1>e. ASSUME NEW s \in Sessions, MoveOver(s) PROVE Good(t)'
  <2>1. s \in synced /\ temp[s] = job[s]
    BY <1>e DEF MoveOver, IInv
  <2>2. file' = [file EXCEPT ![s] = job[s]] /\ onDisk' = [onDisk EXCEPT ![s] = job[s]]
    BY <1>e, <2>1 DEF MoveOver
  <2> QED BY <1>e, <2>2 DEF MoveOver
<1>f. ASSUME NEW s \in Sessions, CreateFails(s) \/ LaterCallFails(s) PROVE Good(t)'
  BY <1>f DEF CreateFails, LaterCallFails
<1>g. ASSUME NEW s \in Sessions, DropTemporary(s) PROVE Good(t)'
  BY <1>g DEF DropTemporary
<1>h. ASSUME NEW s \in Sessions, DeleteState(s) PROVE Good(t)'
  BY <1>h DEF DeleteState
<1>i. ASSUME NEW s \in Sessions, Killed(s) PROVE Good(t)'
  BY <1>i DEF Killed
<1>j. ASSUME NEW p \in Paths, Settle(p) PROVE Good(t)'
  BY <1>j DEF Settle
<1>k. ASSUME NEW p \in Paths, Damage(p) PROVE Good(t)'
  BY <1>k DEF Damage
<1>l. CASE PowerLoss
  BY <1>l DEF PowerLoss
<1>m. CASE UNCHANGED vars
  BY <1>m DEF vars
<1> QED BY <1>a, <1>b, <1>c, <1>d, <1>e, <1>f, <1>g, <1>h, <1>i, <1>j, <1>k, <1>l, <1>m DEF Next, SaveStep

LEMMA AlwaysIInv == Spec => []IInv
BY InitIInv, InductiveStep, PTL DEF Spec

------------------------------------------------------------------------------
(* The invariants *)

\* Every variable of the record store keeps its type.
THEOREM StoreTypeCorrect == Spec => []TypeOK
<1>1. IInv => TypeOK
  BY DEF IInv
<1> QED BY <1>1, AlwaysIInv, PTL

\* However save_state is interrupted, load_state does not find a corrupt file
\* that nobody else has touched.
THEOREM SaveNeverCorrupts == Spec => []NeverCorrupt
<1>1. IInv => NeverCorrupt
  BY SavableIsAccepted, MissingIsNoState DEF IInv, NeverCorrupt, Untouched, StatePath
<1> QED BY <1>1, AlwaysIInv, PTL

\* A save that has been reported is what load_state answers, power loss or not.
THEOREM SaveIsForGood == Spec => []SavedForGood
<1>1. IInv => SavedForGood
  BY SavableIsAccepted DEF IInv, SavedForGood, Kept, StatePath, TypeOK
<1> QED BY <1>1, AlwaysIInv, PTL

\* Left-over temporary files never make a save fail.
THEOREM SaveOverLeftovers == Spec => []LeftoversDoNotHinder
<1>1. IInv => LeftoversDoNotHinder
  BY DEF IInv, LeftoversDoNotHinder, Blamed
<1> QED BY <1>1, AlwaysIInv, PTL

------------------------------------------------------------------------------
(* The refinement *)

LEMMA InitRefines == Init => Store!Init
BY PathsAreSessions, MissingIsNoState DEF Init, Store!Init, Stored, StatePath

\* What a change of one file does to the answers of load_state.
LEMMA StoredExcept ==
  \A contents \in [Sessions -> Contents], s \in Sessions, c \in Contents :
    Stored([contents EXCEPT ![s] = c]) = [Stored(contents) EXCEPT ![s] = Reading(c, s)]
BY DEF Stored, StatePath

LEMMA StepRefines == IInv /\ [Next]_vars => [Store!Next]_(Store!vars)
<1> SUFFICES ASSUME IInv, [Next]_vars PROVE [Store!Next]_(Store!vars)
  OBVIOUS
<1> DEFINE Marked == {s \in Sessions : StatePath(s) \in spoiled}
<1>t. TypeOK /\ file \in [Sessions -> Contents] /\ onDisk \in [Sessions -> Contents]
  BY PathsAreSessions DEF IInv, TypeOK
<1>u. \A s \in Sessions : job[s] \in Savable[s] /\ job[s] \in Contents
  BY <1>t, SavableIsAccepted DEF TypeOK
<1>v. Missing \in Contents
  BY DEF Contents
<1> USE <1>t, <1>u, PathsAreSessions
<1>1. ASSUME UNCHANGED <<file, onDisk, spoiled>> PROVE UNCHANGED Store!vars
  BY <1>1 DEF Store!vars, Stored
<1>2. ASSUME NEW s \in Sessions,
             BeginSave(s) \/ CreateTemporary(s) \/ WriteTemporary(s) \/ FlushTemporary(s)
               \/ CreateFails(s) \/ LaterCallFails(s) \/ DropTemporary(s) \/ Killed(s)
      PROVE  UNCHANGED Store!vars
  BY <1>1, <1>2 DEF BeginSave, CreateTemporary, WriteTemporary, FlushTemporary, CreateFails,
                    LaterCallFails, DropTemporary, Killed
<1>3. ASSUME NEW s \in Sessions, MoveOver(s) PROVE Store!Replace(s)
  <2>1. s \in synced /\ temp[s] = job[s] /\ job[s] \in Savable[s]
    BY <1>3 DEF MoveOver, IInv, Flushed, Written
  <2>2. file' = [file EXCEPT ![s] = job[s]] /\ onDisk' = [onDisk EXCEPT ![s] = job[s]]
    BY <1>3, <2>1 DEF MoveOver, StatePath
  <2>3. Reading(job[s], s) = job[s]
    BY <2>1, SavableIsAccepted
  <2>4. Stored(file') = [Stored(file) EXCEPT ![s] = job[s]]
    <3>1. Stored(file') = [Stored(file) EXCEPT ![s] = Reading(job[s], s)]
      BY <2>2, StoredExcept
    <3> QED BY <3>1, <2>3
  <2>5. Stored(onDisk') = [Stored(onDisk) EXCEPT ![s] = job[s]]
    <3>1. Stored(onDisk') = [Stored(onDisk) EXCEPT ![s] = Reading(job[s], s)]
      BY <2>2, StoredExcept
    <3> QED BY <3>1, <2>3
  <2>6. Marked' = Marked \ {s}
    BY <1>3 DEF MoveOver, StatePath
  <2> QED BY <2>1, <2>4, <2>5, <2>6 DEF Store!Replace, Stored
<1>4. ASSUME NEW s \in Sessions, DeleteState(s) PROVE Store!Remove(s)
  <2>1. Stored(file') = [Stored(file) EXCEPT ![s] = NoState]
    <3>1. Stored(file') = [Stored(file) EXCEPT ![s] = Reading(Missing, s)]
      BY <1>4, <1>v, StoredExcept DEF DeleteState, StatePath
    <3> QED BY <3>1, MissingIsNoState
  <2> QED BY <1>4, <2>1 DEF DeleteState, Store!Remove, Stored
<1>5. ASSUME NEW s \in Sessions, Settle(s) PROVE Store!Settle(s)
  <2>1. Stored(onDisk') = [Stored(onDisk) EXCEPT ![s] = Reading(file[s], s)]
    BY <1>5, StoredExcept DEF Settle
  <2>2. Stored(file)[s] = Reading(file[s], s)
    BY DEF Stored, StatePath
  <2> QED BY <1>5, <2>1, <2>2 DEF Settle, Store!Settle, Stored
<1>6. ASSUME NEW s \in Sessions, Damage(s) PROVE Store!Spoil(s)
  <2>1. PICK c \in Contents : file' = [file EXCEPT ![s] = c] /\ onDisk' = [onDisk EXCEPT ![s] = c]
    BY <1>6 DEF Damage
  <2>2. /\ Stored(file') = [Stored(file) EXCEPT ![s] = Reading(c, s)]
        /\ Stored(onDisk') = [Stored(onDisk) EXCEPT ![s] = Reading(c, s)]
    BY <2>1, StoredExcept
  <2>3. Marked' = Marked \cup {s}
    BY <1>6 DEF Damage, StatePath
  <2> QED BY <2>2, <2>3, ReadingType DEF Store!Spoil, Stored
<1>7. ASSUME PowerLoss PROVE Store!PowerLoss
  BY <1>7 DEF PowerLoss, Store!PowerLoss, Stored
<1>8. CASE UNCHANGED vars
  BY <1>1, <1>8 DEF vars
<1>9. CASE Next
  BY <1>2, <1>3, <1>4, <1>5, <1>6, <1>7, <1>9 DEF Next, SaveStep, Store!Next
<1> QED BY <1>8, <1>9

\* The calls of save_state, with every way they can fail or be cut short,
\* implement a store that replaces or removes whole records.
THEOREM ImplementsRecordStore == Spec => StoreSpec
<1>1. Init => Store!Init
  BY InitRefines
<1>2. IInv /\ [Next]_vars => [Store!Next]_(Store!vars)
  BY StepRefines
<1> QED BY <1>1, <1>2, AlwaysIInv, PTL DEF Spec, StoreSpec, Store!Spec
==============================================================================
