------------------------ MODULE PatchTransactionProofs ------------------------
(***************************************************************************)
(* Proofs about PatchTransaction, for every number of instances, pids,     *)
(* images, byte values and protections, every length of patch and every    *)
(* bound.                                                                  *)
(*                                                                         *)
(* The argument for UndoCovers: only the holder of the mutex changes       *)
(* Explorer or the file (MutexHeld); while it may write, the record in its *)
(* hand names the process its handle is open on and equals the one on the  *)
(* disk (InHand); a run of Explorer that is not the one its handle is open *)
(* on is younger, hence unpatched (OthersClean); and it deletes the record *)
(* only after it has seen that no byte of the patch is left.               *)
(***************************************************************************)
EXTENDS PatchTransaction, TLAPS

------------------------------------------------------------------------------
(* Types *)

\* Assigning a value of the right type to a local variable.
LEMMA JobUpdate ==
  ASSUME NEW j \in Job
  PROVE  /\ \A x \in Outcomes : [j EXCEPT !.result = x] \in Job
         /\ \A x \in Images : [j EXCEPT !.file = x] \in Job
         /\ \A x \in Record : [j EXCEPT !.rec = x] \in Job
         /\ \A x \in Pids : [j EXCEPT !.pid = x] \in Job
         /\ \A x \in Explorer : [j EXCEPT !.ctx = x] \in Job
         /\ \A x \in BOOLEAN : [j EXCEPT !.marked = x] \in Job
         /\ \A x \in Phases : [j EXCEPT !.phase = x] \in Job
         /\ \A x \in Verdicts : [j EXCEPT !.seen = x] \in Job
         /\ \A x \in Protections : [j EXCEPT !.obs = x] \in Job
         /\ \A x \in Protections : [j EXCEPT !.old = x] \in Job
         /\ \A x \in BOOLEAN : [j EXCEPT !.err = x] \in Job
         /\ \A x \in Phases, y \in Record : [j EXCEPT !.phase = x, !.rec = y] \in Job
         /\ \A x \in Protections, y \in Record : [j EXCEPT !.obs = x, !.rec = y] \in Job
         /\ \A x \in Protections, y \in BOOLEAN : [j EXCEPT !.old = x, !.err = y] \in Job
  BY DEF Job

\* The local variables of an instance that has not started, or just has.
LEMMA IdleJobType ==
  /\ IdleJob \in Job
  /\ \A x \in {"apply", "restore"}, y \in BOOLEAN :
       [IdleJob EXCEPT !.op = x, !.dry = y, !.phase = x] \in Job
  BY ProtectionAssumption DEF IdleJob, Job, Phases, Verdicts, Outcomes

\* A torn write leaves bytes.
LEMMA SplicedType ==
  ASSUME NEW f \in Code, NEW b \in Code, NEW k \in Int
  PROVE  Spliced(f, k, b) \in Code
  BY DEF Spliced, Code

\* classify_live_patch_bytes answers one of its four verdicts.
LEMMA ClassifyType == \A bytes, rec : Classify(bytes, rec) \in Verdicts
  BY DEF Classify, Verdicts

\* The labels, outcomes and phases that a step names.
LEMMA Names ==
  /\ \A l \in {"idle", "acquire", "load", "find", "attach", "match", "candidate", "query", "adopt",
               "readback", "save", "compare", "read", "examine", "w_protect", "w_undo", "w_write",
               "w_close", "w_check", "p_set", "p_undo", "p_check", "flush", "v_bytes", "v_prot",
               "delete", "release"} : l \in Labels
  /\ \A o \in {"failed", "refused", "applied", "verified", "adopted", "restored", "gone",
               "nothing", "passed"} : o \in Outcomes
  /\ \A f \in {"apply", "adopt", "repair", "rollback", "restore"} : f \in Phases
  BY DEF Labels, Critical, Attached, Outcomes, Phases

\* A step of one instance to a label, with its local variables kept or set.
LEMMA MoveType ==
  ASSUME TypeOK, NEW p \in Procs, NEW l \in Labels, NEW j \in Job,
         Goto(p, l), Local(p, j) \/ Keep
  PROVE  pc' \in [Procs -> Labels] /\ job' \in [Procs -> Job]
  BY DEF TypeOK, Goto, Local, Keep

\* A return with an outcome.
LEMMA FinishType ==
  ASSUME TypeOK, NEW p \in Procs, NEW o \in Outcomes, Finish(p, o)
  PROVE  pc' \in [Procs -> Labels] /\ job' \in [Procs -> Job]
<1>1. job[p] \in Job /\ "release" \in Labels
  BY DEF TypeOK, Labels, Critical
<1> QED
  BY <1>1, JobUpdate, MoveType DEF Finish

\* Every step of an instance keeps the types of its label and its variables.
LEMMA LocalType ==
  ASSUME TypeOK, NEW p \in Procs, Step(p) \/ Crash(p),
         pc[p] = "query" => job[p].file \in Images
  PROVE  pc' \in [Procs -> Labels] /\ job' \in [Procs -> Job]
<1>ty. /\ job[p] \in Job
       /\ job[p].ctx \in Explorer \cup {NoExplorer} /\ job[p].rec \in Record \cup {NoState}
       /\ disk \in Record \cup {NoState, Corrupt}
       /\ explorer \in Explorer \cup {NoExplorer}
       /\ explorer # NoExplorer => explorer.pid \in Pids
       /\ prot \in Protections /\ live \in Code /\ diskImage \in Images
  BY DEF TypeOK, Job, Explorer
<1> USE <1>ty, FinishType, MoveType, JobUpdate, Names DEF Keep
<1>1. CASE Acquire(p)
  BY <1>1 DEF Acquire
<1>2. CASE AcquireTimeout(p)
  BY <1>2, IdleJobType DEF AcquireTimeout
<1>3. CASE Load(p)
  BY <1>3 DEF Load
<1>4. CASE Find(p)
  BY <1>4 DEF Find
<1>5. CASE Attach(p)
  BY <1>5 DEF Attach
<1>6. CASE Match(p)
  BY <1>6 DEF Match
<1>7. CASE Candidate(p)
  BY <1>7 DEF Candidate
<1>8. CASE Query(p)
  <2> DEFINE c == job[p].ctx
             r == [pid |-> c.pid, created |-> c.created, image |-> job[p].file,
                   original |-> Original[job[p].file], prot |-> prot]
             j == [job[p] EXCEPT !.obs = prot, !.rec = r]
  <2>1. CASE \E out \in Outcomes : Finish(p, out)
    BY <2>1
  <2>2. CASE Reach(p) /\ Local(p, j) /\ (Goto(p, "adopt") \/ Goto(p, "readback"))
    <3>1. c \in Explorer
      BY <2>2 DEF Reach
    <3>2. r \in Record
      BY <1>8, <3>1, CodeAssumption DEF Explorer, Record, Query, At
    <3>3. j \in Job
      BY <3>2
    <3> HIDE DEF j
    <3> QED
      BY <2>2, <3>3
  <2>3. \/ \E out \in Outcomes : Finish(p, out)
        \/ Reach(p) /\ Local(p, j) /\ (Goto(p, "adopt") \/ Goto(p, "readback"))
    BY <1>8 DEF Query
  <2> QED
    BY <2>1, <2>2, <2>3
<1>9. CASE Adopt(p)
  BY <1>9 DEF Adopt
<1>10. CASE Readback(p)
  BY <1>10 DEF Readback
<1>11. CASE Save(p)
  BY <1>11 DEF Save
<1>12. CASE Compare(p)
  BY <1>12 DEF Compare
<1>13. CASE Read(p)
  BY <1>13, ClassifyType DEF Read
<1>14. CASE Examine(p)
  BY <1>14 DEF Examine, ProtectionInOrder
<1>15. CASE Flush(p)
  BY <1>15 DEF Flush
<1>16. CASE Delete(p)
  BY <1>16 DEF Delete
<1>17. CASE Release(p)
  BY <1>17, IdleJobType DEF Release
<1>18. CASE WProtect(p)
  BY <1>18 DEF WProtect, WriteFailed
<1>19. CASE WUndo(p)
  BY <1>19 DEF WUndo, WriteFailed
<1>20. CASE WWrite(p)
  BY <1>20 DEF WWrite
<1>21. CASE WClose(p)
  BY <1>21 DEF WClose
<1>22. CASE WCheck(p)
  BY <1>22 DEF WCheck, WriteFailed, WriteDone
<1>23. CASE PSet(p)
  BY <1>23 DEF PSet
<1>24. CASE PUndo(p)
  BY <1>24 DEF PUndo
<1>25. CASE PCheck(p)
  BY <1>25 DEF PCheck, ProtectionInOrder
<1>26. CASE VBytes(p)
  BY <1>26 DEF VBytes, VerifyFailed
<1>27. CASE VProt(p)
  BY <1>27 DEF VProt, VerifyFailed, VerifyDone
<1>28. CASE Crash(p)
  BY <1>28, IdleJobType DEF Crash
<1> QED
  BY <1>1, <1>2, <1>3, <1>4, <1>5, <1>6, <1>7, <1>8, <1>9, <1>10, <1>11, <1>12, <1>13, <1>14, <1>15, <1>16, <1>17, <1>18, <1>19, <1>20, <1>21, <1>22, <1>23, <1>24, <1>25, <1>26, <1>27, <1>28 DEF Step

------------------------------------------------------------------------------
(* Frames *)

\* The effect of the helpers on the instance that moves and on another one.
LEMMA MoveEffect ==
  ASSUME TypeOK, NEW p \in Procs, NEW q \in Procs, q # p
  PROVE  /\ \A l : Goto(p, l) => pc'[p] = l /\ pc'[q] = pc[q]
         /\ \A j : Local(p, j) => job'[p] = j /\ job'[q] = job[q]
         /\ Keep => job'[p] = job[p] /\ job'[q] = job[q]
         /\ \A o : Finish(p, o) => pc'[p] = "release" /\ pc'[q] = pc[q] /\ job'[q] = job[q]
  BY DEF TypeOK, Goto, Local, Keep, Finish

\* What each action of p does to the variables that the invariant speaks of.
LEMMA OwnEffect ==
  ASSUME TypeOK, NEW p \in Procs
  PROVE  /\ \A l : Goto(p, l) => pc'[p] = l
         /\ \A j : Local(p, j) => job'[p] = j
         /\ Keep => job'[p] = job[p]
         /\ \A o : Finish(p, o) => pc'[p] = "release"
  BY DEF TypeOK, Goto, Local, Keep, Finish

\* A step of one instance does not touch the label and the variables of another.
LEMMA OthersKeep ==
  ASSUME TypeOK, NEW p \in Procs, NEW q \in Procs, q # p, Run(p) \/ Step(p) \/ Crash(p)
  PROVE  pc'[q] = pc[q] /\ job'[q] = job[q]
<1> USE MoveEffect DEF WriteFailed, WriteDone, VerifyFailed, VerifyDone, ProtectionInOrder
<1>1. CASE Run(p)
  BY <1>1 DEF Run
<1>2. CASE Acquire(p)
  BY <1>2 DEF Acquire
<1>3. CASE AcquireTimeout(p)
  BY <1>3 DEF AcquireTimeout
<1>4. CASE Load(p)
  BY <1>4 DEF Load
<1>5. CASE Find(p)
  BY <1>5 DEF Find
<1>6. CASE Attach(p)
  BY <1>6 DEF Attach
<1>7. CASE Match(p)
  BY <1>7 DEF Match
<1>8. CASE Candidate(p)
  BY <1>8 DEF Candidate
<1>9. CASE Query(p)
  BY <1>9 DEF Query
<1>10. CASE Adopt(p)
  BY <1>10 DEF Adopt
<1>11. CASE Readback(p)
  BY <1>11 DEF Readback
<1>12. CASE Save(p)
  BY <1>12 DEF Save
<1>13. CASE Compare(p)
  BY <1>13 DEF Compare
<1>14. CASE Read(p)
  BY <1>14 DEF Read
<1>15. CASE Examine(p)
  BY <1>15 DEF Examine
<1>16. CASE Flush(p)
  BY <1>16 DEF Flush
<1>17. CASE Delete(p)
  BY <1>17 DEF Delete
<1>18. CASE Release(p)
  BY <1>18 DEF Release
<1>19. CASE WProtect(p)
  BY <1>19 DEF WProtect
<1>20. CASE WUndo(p)
  BY <1>20 DEF WUndo
<1>21. CASE WWrite(p)
  BY <1>21 DEF WWrite
<1>22. CASE WClose(p)
  BY <1>22 DEF WClose
<1>23. CASE WCheck(p)
  BY <1>23 DEF WCheck
<1>24. CASE PSet(p)
  BY <1>24 DEF PSet
<1>25. CASE PUndo(p)
  BY <1>25 DEF PUndo
<1>26. CASE PCheck(p)
  BY <1>26 DEF PCheck
<1>27. CASE VBytes(p)
  BY <1>27 DEF VBytes
<1>28. CASE VProt(p)
  BY <1>28 DEF VProt
<1>29. CASE Crash(p)
  BY <1>29 DEF Crash
<1> QED
  BY <1>1, <1>2, <1>3, <1>4, <1>5, <1>6, <1>7, <1>8, <1>9, <1>10, <1>11, <1>12, <1>13, <1>14, <1>15, <1>16, <1>17, <1>18, <1>19, <1>20, <1>21, <1>22, <1>23, <1>24, <1>25, <1>26, <1>27, <1>28, <1>29 DEF Step

\* Steps that leave alone what UndoCovers speaks of.
Still == UNCHANGED <<explorer, live, disk, losses>>

\* A step that touches neither Explorer nor the file nor any record in hand keeps
\* what the invariant says of the patch and its undo record.
LEMMA StillFacts == Still => (Tainted' <=> Tainted) /\ (UndoCovers => UndoCovers')
  BY DEF Still, Tainted, UndoCovers, Covered

\* The holder of the mutex is alone: the others are idle or wait.
LEMMA Bystander ==
  ASSUME TypeOK, NEW p \in Procs, NEW q \in Procs, q # p, InstanceInv(p), InstanceInv(q),
         Run(p) \/ Step(p) \/ Crash(p)
  PROVE  InstanceInv(q)'
<1>1. pc'[q] = pc[q] /\ job'[q] = job[q]
  BY OthersKeep
<1>2. CASE pc[q] \notin Critical
  BY <1>1, <1>2 DEF InstanceInv, MutexHeld, FileMatches, RecordSound, RecordNames, InHand, OthersClean,
     CleanBeforeDelete, Loaded, Critical, Attached, Writing, Recording
<1>3. CASE pc[q] \in Critical
  <2>1. owner = q /\ pc[p] \notin Critical
    BY <1>3 DEF InstanceInv, MutexHeld
  <2>2. Still /\ owner' = owner
    <3>1. pc[p] \in {"idle", "acquire"}
      BY <2>1 DEF TypeOK, Labels
    <3>2. CASE Run(p)
      BY <3>2 DEF Run, Still, shell, memory, budget
    <3>3. CASE AcquireTimeout(p)
      BY <3>3 DEF AcquireTimeout, Still, shell, memory, budget
    <3>4. CASE Crash(p)
      BY <3>4, <2>1 DEF Crash, Fault, Still, shell, memory
    <3>5. CASE Acquire(p)
      BY <3>5, <2>1, BoundAssumption DEF Acquire
    <3> QED
      BY <3>1, <3>2, <3>3, <3>4, <3>5 DEF At, Step, Load, Find, Attach, Match, Candidate, Query,
         Adopt, Readback, Save, Compare, Read, Examine, Flush, Delete, Release, WProtect, WUndo,
         WWrite, WClose, WCheck, PSet, PUndo, PCheck, VBytes, VProt
  <2>3. (Tainted' <=> Tainted) /\ explorer' = explorer /\ disk' = disk /\ losses' = losses
    BY <2>2, StillFacts DEF Still
  <2> QED
    BY <1>1, <2>2, <2>3 DEF InstanceInv, MutexHeld, FileMatches, RecordSound, RecordNames, InHand, OthersClean,
       CleanBeforeDelete, Loaded
<1> QED
  BY <1>2, <1>3

------------------------------------------------------------------------------
(* The instance that moves *)

\* On the way out an instance only has to hold the mutex.
LEMMA LeavingInv ==
  ASSUME NEW p \in Procs, owner' = p, pc'[p] = "release"
  PROVE  InstanceInv(p)'
  BY DEF InstanceInv, MutexHeld, FileMatches, RecordSound, RecordNames, InHand, OthersClean,
     CleanBeforeDelete, Loaded, Critical, Attached, Writing, Recording

\* A step that writes nothing, between two labels at which the record is in use.
LEMMA WorkingInv ==
  ASSUME IInv, NEW p \in Procs, pc[p] \in Writing, Still, owner' = owner,
         pc'[p] \in Writing, pc'[p] # "v_prot",
         job'[p].op = job[p].op, job'[p].rec = job[p].rec, job'[p].ctx = job[p].ctx
  PROVE  InstanceInv(p)'
<1>1. Tainted' <=> Tainted
  BY StillFacts
<1>2. pc'[p] \in Attached /\ pc[p] \in Attached /\ pc[p] \in Critical
  BY DEF Writing, Attached, Critical
<1>3. InstanceInv(p)
  BY DEF IInv
<1> QED
  BY <1>1, <1>2, <1>3 DEF InstanceInv, MutexHeld, FileMatches, RecordSound, RecordNames, InHand, OthersClean,
     CleanBeforeDelete, Loaded, Writing, Still

\* The steps of write_remote_bytes, restore_remote_protection and the like that
\* leave bytes and file alone lead back to the working labels or to the way out.
LEMMA WorkingStep ==
  ASSUME IInv, NEW p \in Procs,
         \/ Read(p) \/ Examine(p) \/ Flush(p) \/ WProtect(p) \/ WUndo(p) \/ WClose(p) \/ WCheck(p)
         \/ PSet(p) \/ PUndo(p) \/ PCheck(p)
  PROVE  InstanceInv(p)' /\ Still
<1>ty. TypeOK /\ job[p] \in Job
  BY DEF IInv, TypeOK
<1>1. pc[p] \in Writing
  BY DEF Read, Examine, Flush, WProtect, WUndo, WClose, WCheck, PSet, PUndo, PCheck, At, Writing
<1>2. Still /\ owner' = owner
  BY DEF Read, Examine, Flush, WProtect, WUndo, WClose, WCheck, PSet, PUndo, PCheck, Still,
     shell, memory, budget, NoFault, Fault, CallFails
<1>own. owner = p
  BY <1>1 DEF IInv, InstanceInv, MutexHeld, Writing, Critical, Attached
<1>3. \/ pc'[p] = "release"
      \/ /\ pc'[p] \in Writing /\ pc'[p] # "v_prot"
         /\ job'[p].op = job[p].op /\ job'[p].rec = job[p].rec /\ job'[p].ctx = job[p].ctx
  <2> USE <1>ty, OwnEffect DEF Job, Writing
  <2>1. CASE Read(p) BY <2>1 DEF Read
  <2>2. CASE Examine(p) BY <2>2 DEF Examine, ProtectionInOrder
  <2>3. CASE Flush(p) BY <2>3 DEF Flush
  <2>4. CASE WProtect(p) BY <2>4 DEF WProtect, WriteFailed
  <2>5. CASE WUndo(p) BY <2>5 DEF WUndo, WriteFailed
  <2>6. CASE WClose(p) BY <2>6 DEF WClose
  <2>7. CASE WCheck(p) BY <2>7 DEF WCheck, WriteFailed, WriteDone
  <2>8. CASE PSet(p) BY <2>8 DEF PSet
  <2>9. CASE PUndo(p) BY <2>9 DEF PUndo
  <2>10. CASE PCheck(p) BY <2>10 DEF PCheck, ProtectionInOrder
  <2> QED
    BY <2>1, <2>2, <2>3, <2>4, <2>5, <2>6, <2>7, <2>8, <2>9, <2>10
<1> QED
  BY <1>1, <1>2, <1>3, <1>own, LeavingInv, WorkingInv

\* Steps before the record is in use: they read, and write nothing.
LEMMA PreparingStep ==
  ASSUME IInv, NEW p \in Procs,
         \/ Run(p) \/ Acquire(p) \/ AcquireTimeout(p) \/ Load(p) \/ Find(p) \/ Attach(p)
         \/ Match(p) \/ Candidate(p) \/ Query(p) \/ Adopt(p) \/ Readback(p) \/ Compare(p)
         \/ Release(p) \/ Crash(p)
  PROVE  InstanceInv(p)' /\ Still
<1>ty. TypeOK /\ job[p] \in Job /\ InstanceInv(p)
  BY DEF IInv, TypeOK
<1>1. Still
  BY DEF Run, Acquire, AcquireTimeout, Load, Find, Attach, Match, Candidate, Query, Adopt, Readback,
     Compare, Release, Crash, Still, shell, memory, budget, NoFault, Fault, CallFails
<1>2. (Tainted' <=> Tainted) /\ explorer' = explorer /\ disk' = disk /\ losses' = losses
  BY <1>1, StillFacts DEF Still
<1>3. ASSUME pc'[p] \in {"idle", "acquire"} PROVE InstanceInv(p)'
  BY <1>3 DEF InstanceInv, MutexHeld, FileMatches, RecordSound, RecordNames, InHand, OthersClean,
     CleanBeforeDelete, Loaded, Critical, Attached, Writing, Recording
<1>4. ASSUME pc'[p] = "release", pc[p] \in Critical, owner' = owner PROVE InstanceInv(p)'
  BY <1>4, <1>ty, LeavingInv DEF InstanceInv, MutexHeld
<1>5. CASE Run(p) \/ AcquireTimeout(p) \/ Release(p) \/ Crash(p)
  BY <1>1, <1>3, <1>5, <1>ty, OwnEffect DEF Run, AcquireTimeout, Release, Crash
<1>6. CASE Acquire(p)
  <2>1. pc'[p] \in {"find", "load"} /\ (pc'[p] = "find" => job[p].op # "restore") /\ job'[p] = job[p] /\ owner' = p
    BY <1>6, <1>ty, OwnEffect DEF Acquire, At
  <2> QED
    BY <2>1, <1>1, <1>ty, <1>1, <1>2 DEF InstanceInv, MutexHeld, FileMatches, RecordSound, RecordNames, InHand, OthersClean,
     CleanBeforeDelete, Loaded, Critical, Attached, Writing, Recording
<1>7. CASE Load(p)
  <2>1. pc[p] \in Critical /\ owner' = owner /\ owner = p
    BY <1>7, <1>ty, OwnEffect DEF Load, Critical, InstanceInv, MutexHeld, At
  <2>2. \/ pc'[p] = "release"
        \/ disk \in Record /\ pc'[p] = "find" /\ job'[p].rec = disk
    BY <1>7, <1>ty, OwnEffect DEF Load, Job, TypeOK, At
  <2>3. CASE disk \in Record /\ pc'[p] = "find" /\ job'[p].rec = disk
    BY <2>1, <2>3, <1>ty, <1>1, <1>2 DEF IInv, InstanceInv, MutexHeld, FileMatches, RecordSound, RecordNames, InHand, OthersClean,
     CleanBeforeDelete, Loaded, Critical, Attached, Writing, Recording
  <2> QED
    BY <2>1, <2>2, <2>3, <1>4, <1>1
<1>8. CASE Find(p)
  <2>1. pc[p] = "find" /\ pc[p] \in Critical /\ owner' = owner /\ owner = p
    BY <1>8, <1>ty, OwnEffect DEF Find, Critical, InstanceInv, MutexHeld, At
  <2>2. \/ pc'[p] = "release"
        \/ pc'[p] = "attach" /\ job'[p].rec = job[p].rec /\ job'[p].op = job[p].op
    BY <1>8, <1>ty, OwnEffect DEF Find, Job, At
  <2>3. CASE pc'[p] = "attach" /\ job'[p].rec = job[p].rec /\ job'[p].op = job[p].op
    BY <2>1, <2>3, <1>ty, <1>1, <1>2 DEF InstanceInv, MutexHeld, FileMatches, RecordSound, RecordNames, InHand, OthersClean,
     CleanBeforeDelete, Loaded, Critical, Attached, Writing, Recording
  <2> QED
    BY <2>1, <2>2, <2>3, <1>4, <1>1
<1>9. CASE Attach(p)
  <2>1. pc[p] = "attach" /\ pc[p] \in Critical /\ owner' = owner /\ owner = p
    BY <1>9, <1>ty, OwnEffect DEF Attach, Critical, InstanceInv, MutexHeld, At
  <2>2. \/ pc'[p] = "release"
        \/ /\ job'[p].rec = job[p].rec /\ job'[p].ctx = explorer /\ explorer \in Explorer
           /\ pc'[p] = "match" \/ (pc'[p] = "compare" /\ job[p].op = "restore")
    BY <1>9, <1>ty, OwnEffect DEF Attach, Job, At, TypeOK
  <2>3. CASE /\ job'[p].rec = job[p].rec /\ job'[p].ctx = explorer /\ explorer \in Explorer
             /\ pc'[p] = "match" \/ (pc'[p] = "compare" /\ job[p].op = "restore")
    BY <2>1, <2>3, <1>ty, <1>1, <1>2 DEF InstanceInv, MutexHeld, FileMatches, RecordSound, RecordNames, InHand, OthersClean,
     CleanBeforeDelete, Loaded, Critical, Attached, Writing, Recording
  <2> QED
    BY <2>1, <2>2, <2>3, <1>4, <1>1
<1>10. CASE Match(p) \/ Candidate(p)
  <2>1. pc[p] \in {"match", "candidate"} /\ pc[p] \in Critical /\ owner' = owner /\ owner = p
    BY <1>10, <1>ty, OwnEffect DEF Match, Candidate, Critical, Attached, InstanceInv, MutexHeld, At
  <2>2. \/ pc'[p] = "release"
        \/ /\ pc'[p] \in {"candidate", "query"} /\ job'[p].ctx = job[p].ctx
           /\ job'[p].file = job[p].ctx.image
    BY <1>10, <1>ty, OwnEffect DEF Match, Candidate, Job, At, InstanceInv, FileMatches
  <2>3. CASE /\ pc'[p] \in {"candidate", "query"} /\ job'[p].ctx = job[p].ctx
             /\ job'[p].file = job[p].ctx.image
    BY <2>1, <2>3, <1>ty, <1>1, <1>2 DEF InstanceInv, MutexHeld, FileMatches, RecordSound, RecordNames, InHand, OthersClean,
     CleanBeforeDelete, Loaded, Critical, Attached, Writing, Recording
  <2> QED
    BY <2>1, <2>2, <2>3, <1>4, <1>1
<1>11. CASE Query(p)
  <2> DEFINE c == job[p].ctx
             r == [pid |-> c.pid, created |-> c.created, image |-> job[p].file,
                   original |-> Original[job[p].file], prot |-> prot]
  <2>1. pc[p] = "query" /\ pc[p] \in Critical /\ owner' = owner /\ owner = p
    BY <1>11, <1>ty, OwnEffect DEF Query, Critical, Attached, InstanceInv, MutexHeld, At
  <2>2. \/ pc'[p] = "release"
        \/ /\ pc'[p] \in {"adopt", "readback"} /\ c \in Explorer
           /\ job'[p].rec = r /\ job'[p].ctx = c
    BY <1>11, <1>ty, OwnEffect DEF Query, Reach, Job, At
  <2>3. CASE /\ pc'[p] \in {"adopt", "readback"} /\ c \in Explorer
             /\ job'[p].rec = r /\ job'[p].ctx = c
    <3>1. job[p].file = c.image
      BY <2>1, <1>ty DEF InstanceInv, FileMatches
    <3>2. SoundRecord(r) /\ SameProcess(r, c) /\ r.image = c.image
      BY <2>3, <3>1, <1>ty, CodeAssumption DEF SoundRecord, SameProcess, Explorer, Record, TypeOK
    <3> HIDE DEF r
    <3> QED
      BY <2>1, <2>3, <3>2, <1>ty, <1>1, <1>2 DEF InstanceInv, MutexHeld, FileMatches, RecordSound, RecordNames, InHand, OthersClean,
       CleanBeforeDelete, Loaded, Critical, Attached, Writing, Recording, SoundRecord, SameProcess
  <2> QED
    BY <2>1, <2>2, <2>3, <1>4, <1>1
<1>12. CASE Adopt(p)
  <2>1. pc[p] = "adopt" /\ pc[p] \in Critical /\ owner' = owner /\ owner = p
    BY <1>12, <1>ty, OwnEffect DEF Adopt, Critical, Attached, InstanceInv, MutexHeld, At
  <2>2. \/ pc'[p] = "release"
        \/ /\ pc'[p] \in {"p_set", "v_bytes"} /\ job'[p].rec = disk /\ job'[p].ctx = job[p].ctx
           /\ disk \in Record /\ disk = [job[p].rec EXCEPT !.prot = disk.prot]
        \/ pc'[p] = "save" /\ job'[p].rec = job[p].rec /\ job'[p].ctx = job[p].ctx
    BY <1>12, <1>ty, OwnEffect DEF Adopt, Job, At
  <2>3. CASE pc'[p] = "save" /\ job'[p].rec = job[p].rec /\ job'[p].ctx = job[p].ctx
    BY <2>1, <2>3, <1>ty, <1>1, <1>2 DEF InstanceInv, MutexHeld, FileMatches, RecordSound, RecordNames, InHand, OthersClean,
     CleanBeforeDelete, Loaded, Critical, Attached, Writing, Recording
  <2>4. CASE /\ pc'[p] \in {"p_set", "v_bytes"} /\ job'[p].rec = disk /\ job'[p].ctx = job[p].ctx
             /\ disk \in Record /\ disk = [job[p].rec EXCEPT !.prot = disk.prot]
    <3>1. SoundRecord(job[p].rec) /\ SoundRecord(disk)
      BY <2>1, <2>4, <1>ty, <1>1, <1>2 DEF IInv, InstanceInv, RecordSound, Recording
    <3>2. SameProcess(disk, job[p].ctx) /\ disk.image = job[p].ctx.image /\ job[p].ctx \in Explorer
      BY <2>1, <2>4, <3>1, <1>ty, <1>1, <1>2 DEF InstanceInv, OthersClean, Attached, RecordNames, Recording, SameProcess, SoundRecord, Record
    <3> QED
      BY <2>1, <2>4, <3>1, <3>2, <1>ty, <1>1, <1>2 DEF InstanceInv, MutexHeld, FileMatches, RecordSound, RecordNames, InHand, OthersClean,
       CleanBeforeDelete, Loaded, Critical, Attached, Writing, Recording, SoundRecord, SameProcess
  <2> QED
    BY <2>1, <2>2, <2>3, <2>4, <1>4, <1>1
<1>13. CASE Readback(p)
  <2>1. pc[p] = "readback" /\ pc[p] \in Critical /\ owner' = owner /\ owner = p
    BY <1>13, <1>ty, OwnEffect DEF Readback, Critical, Attached, InstanceInv, MutexHeld, At
  <2>2. pc'[p] = "release" \/ (pc'[p] = "save" /\ job'[p] = job[p])
    BY <1>13, <1>ty, OwnEffect DEF Readback, At
  <2>3. CASE pc'[p] = "save" /\ job'[p] = job[p]
    BY <2>1, <2>3, <1>ty, <1>1, <1>2 DEF InstanceInv, MutexHeld, FileMatches, RecordSound, RecordNames, InHand, OthersClean,
     CleanBeforeDelete, Loaded, Critical, Attached, Writing, Recording
  <2> QED
    BY <2>1, <2>2, <2>3, <1>4, <1>1
<1>14. CASE Compare(p)
  <2>1. pc[p] = "compare" /\ pc[p] \in Critical /\ owner' = owner /\ owner = p
    BY <1>14, <1>ty, OwnEffect DEF Compare, Critical, Attached, InstanceInv, MutexHeld, At
  <2>2. \/ pc'[p] = "release"
        \/ pc'[p] = "delete" /\ ~SameProcess(job[p].rec, job[p].ctx)
        \/ /\ pc'[p] = "read" /\ job'[p] = job[p]
           /\ SameProcess(job[p].rec, job[p].ctx) /\ job[p].rec.image = job[p].ctx.image
    BY <1>14, <1>ty, OwnEffect DEF Compare, At
  <2>3. CASE pc'[p] = "delete" /\ ~SameProcess(job[p].rec, job[p].ctx)
    <3>1. losses = 0 => ~Tainted
      BY <2>1, <2>3, <1>ty, <1>1, <1>2 DEF IInv, InstanceInv, InHand, OthersClean, Loaded, Attached, UndoCovers, Covered,
         SameProcess
    <3> QED
      BY <2>1, <2>3, <3>1, <1>ty, <1>1, <1>2 DEF InstanceInv, MutexHeld, FileMatches, RecordSound, RecordNames, InHand, OthersClean,
       CleanBeforeDelete, Loaded, Critical, Attached, Writing, Recording, SoundRecord, SameProcess
  <2>4. CASE /\ pc'[p] = "read" /\ job'[p] = job[p]
             /\ SameProcess(job[p].rec, job[p].ctx) /\ job[p].rec.image = job[p].ctx.image
    <3>1. job[p].ctx \in Explorer
      BY <2>1, <1>ty DEF InstanceInv, OthersClean, Attached
    <3> QED
      BY <2>1, <2>4, <3>1, <1>ty, <1>1, <1>2 DEF InstanceInv, MutexHeld, FileMatches, RecordSound, RecordNames, InHand, OthersClean,
       CleanBeforeDelete, Loaded, Critical, Attached, Writing, Recording, SoundRecord, SameProcess
  <2> QED
    BY <2>1, <2>2, <2>3, <2>4, <1>4, <1>1
<1> QED
  BY <1>5, <1>6, <1>7, <1>8, <1>9, <1>10, <1>11, <1>12, <1>13, <1>14

\* Steps that write the bytes or the file, or conclude from reading them.
LEMMA DecisiveStep ==
  ASSUME IInv, NEW p \in Procs, Save(p) \/ Delete(p) \/ WWrite(p) \/ VBytes(p) \/ VProt(p)
  PROVE  InstanceInv(p)' /\ UndoCovers' /\ (disk' \in Record => SoundRecord(disk'))
<1>ty. TypeOK /\ job[p] \in Job /\ InstanceInv(p) /\ UndoCovers
       /\ (disk \in Record => SoundRecord(disk))
  BY DEF IInv, TypeOK
<1>own. owner' = owner /\ owner = p
  BY <1>ty DEF Save, Delete, WWrite, VBytes, VProt, At, Critical, Attached, InstanceInv, MutexHeld
<1>leave. ASSUME pc'[p] = "release" PROVE InstanceInv(p)'
  BY <1>leave, <1>own, LeavingInv
<1>1. CASE Save(p)
  <2>1. /\ pc[p] = "save" /\ UNCHANGED <<explorer, live>>
        /\ SoundRecord(job[p].rec) /\ SameProcess(job[p].rec, job[p].ctx)
        /\ job[p].rec.image = job[p].ctx.image /\ job[p].ctx \in Explorer
        /\ explorer # job[p].ctx => ~Tainted
    BY <1>1, <1>ty DEF Save, At, InstanceInv, RecordSound, RecordNames, OthersClean, Attached,
       Recording, shell, memory
  <2>2. Tainted' <=> Tainted
    BY <2>1 DEF Tainted
  <2>3. CASE disk' = disk /\ pc'[p] = "release"
    <3>1. losses' = losses
      BY <1>1 DEF Save, NoFault, Fault, budget
    <3> QED
      BY <2>1, <2>2, <2>3, <3>1, <1>leave, <1>ty DEF UndoCovers, Covered
  <2>4. CASE disk' = job[p].rec /\ pc'[p] = "release"
    BY <2>1, <2>2, <2>4, <1>leave DEF UndoCovers, Covered, Tainted, SoundRecord, SameProcess
  <2>5. CASE disk' = job[p].rec /\ pc'[p] = "w_protect" /\ job'[p] = job[p]
    <3>1. UndoCovers' /\ SoundRecord(disk')
      BY <2>1, <2>2, <2>5 DEF UndoCovers, Covered, Tainted, SoundRecord, SameProcess
    <3>2. InstanceInv(p)'
      BY <2>1, <2>2, <2>5, <1>own DEF InstanceInv, MutexHeld, FileMatches, RecordSound, RecordNames, InHand,
         OthersClean, CleanBeforeDelete, Loaded, Critical, Attached, Writing, Recording, SoundRecord,
         SameProcess
    <3> QED
      BY <3>1, <3>2
  <2> QED
    BY <1>1, <1>ty, <2>3, <2>4, <2>5, OwnEffect DEF Save
<1>2. CASE Delete(p)
  <2>1. pc'[p] = "release" /\ UNCHANGED <<explorer, live, losses>> /\ disk' \in {disk, NoState}
    BY <1>2, <1>ty, OwnEffect DEF Delete, shell, memory, NoFault, Fault, budget
  <2>2. losses = 0 => ~Tainted
    BY <1>2, <1>ty DEF Delete, At, InstanceInv, CleanBeforeDelete
  <2> QED
    BY <2>1, <2>2, <1>ty, <1>leave, TagAssumption DEF UndoCovers, Tainted
<1>3. CASE WWrite(p)
  <2>1. /\ pc[p] = "w_write" /\ UNCHANGED <<explorer, disk, losses>> /\ pc'[p] = "w_close"
        /\ job'[p].rec = job[p].rec /\ job'[p].ctx = job[p].ctx
    BY <1>3, <1>ty, OwnEffect DEF WWrite, At, shell, NoFault, Fault, budget, Job
  <2>2. /\ SoundRecord(job[p].rec) /\ SameProcess(job[p].rec, job[p].ctx)
        /\ job[p].rec.image = job[p].ctx.image /\ job[p].ctx \in Explorer
        /\ explorer # job[p].ctx => ~Tainted
        /\ losses = 0 => disk = job[p].rec
    BY <2>1, <1>ty DEF InstanceInv, RecordSound, RecordNames, OthersClean, InHand, Attached, Writing
  <2>3. explorer # job[p].ctx => live' = live
    BY <1>3 DEF WWrite, Reach
  <2>4. explorer # job[p].ctx => ~Tainted'
    BY <2>1, <2>2, <2>3 DEF Tainted
  <2>5. UndoCovers'
    BY <2>1, <2>2, <2>4 DEF UndoCovers, Covered, SoundRecord, SameProcess
  <2>6. InstanceInv(p)'
    BY <2>1, <2>2, <2>4, <1>own DEF InstanceInv, MutexHeld, FileMatches, RecordSound, RecordNames, InHand,
       OthersClean, CleanBeforeDelete, Loaded, Critical, Attached, Writing, Recording, SoundRecord,
       SameProcess
  <2> QED
    BY <2>1, <2>5, <2>6, <1>ty
<1>4. CASE VBytes(p) \/ VProt(p)
  <2>1. /\ pc[p] \in {"v_bytes", "v_prot"} /\ Still
    BY <1>4 DEF VBytes, VProt, At, Still, shell, memory, budget, NoFault, Fault, CallFails
  <2>2. UndoCovers' /\ (Tainted' <=> Tainted) /\ (disk' \in Record => SoundRecord(disk'))
    BY <2>1, <1>ty, StillFacts DEF Still
  <2>3. /\ SoundRecord(job[p].rec) /\ SameProcess(job[p].rec, job[p].ctx)
        /\ job[p].rec.image = job[p].ctx.image /\ job[p].ctx \in Explorer
        /\ explorer # job[p].ctx => ~Tainted
        /\ losses = 0 => disk = job[p].rec
    BY <2>1, <1>ty DEF InstanceInv, RecordSound, RecordNames, OthersClean, InHand, Attached, Writing
  <2>4. \/ pc'[p] = "release"
        \/ pc'[p] = "read" /\ job'[p].rec = job[p].rec /\ job'[p].ctx = job[p].ctx
        \/ /\ pc[p] = "v_bytes" /\ pc'[p] = "v_prot" /\ job'[p] = job[p]
           /\ explorer = job[p].ctx /\ live = Target(p)
        \/ /\ pc[p] = "v_prot" /\ pc'[p] = "delete"
           /\ job[p].phase \notin {"apply", "repair"}
    <3>1. CASE VBytes(p)
      BY <3>1, <1>ty, OwnEffect DEF VBytes, VerifyFailed, At, Reach, Job
    <3>2. CASE VProt(p)
      BY <3>2, <1>ty, OwnEffect DEF VProt, VerifyFailed, VerifyDone, At, Reach, Job
    <3> QED
      BY <3>1, <3>2, <1>4
  <2>5. CASE pc'[p] = "read" /\ job'[p].rec = job[p].rec /\ job'[p].ctx = job[p].ctx
    BY <2>1, <2>2, <2>3, <2>5, <1>own DEF Still, InstanceInv, MutexHeld, FileMatches, RecordSound, RecordNames,
       InHand, OthersClean, CleanBeforeDelete, Loaded, Critical, Attached, Writing, Recording,
       SoundRecord, SameProcess
  <2>6. CASE /\ pc[p] = "v_bytes" /\ pc'[p] = "v_prot" /\ job'[p] = job[p]
             /\ explorer = job[p].ctx /\ live = Target(p)
    <3>1. job[p].phase \notin {"apply", "repair"} => ~Tainted
      BY <2>3, <2>6 DEF Target, Tainted, SoundRecord
    <3> QED
      BY <2>1, <2>2, <2>3, <2>6, <3>1, <1>own DEF Still, InstanceInv, MutexHeld, FileMatches, RecordSound,
         RecordNames, InHand, OthersClean, CleanBeforeDelete, Loaded, Critical, Attached, Writing,
         Recording, SoundRecord, SameProcess
  <2>7. CASE /\ pc[p] = "v_prot" /\ pc'[p] = "delete"
             /\ job[p].phase \notin {"apply", "repair"}
    <3>1. ~Tainted
      BY <2>7, <1>ty DEF InstanceInv, CleanBeforeDelete
    <3> QED
      BY <2>1, <2>2, <2>7, <3>1, <1>own DEF InstanceInv, MutexHeld, FileMatches, RecordSound,
         RecordNames, InHand, OthersClean, CleanBeforeDelete, Loaded, Critical, Attached, Writing,
         Recording
  <2> QED
    BY <2>2, <2>4, <2>5, <2>6, <2>7, <1>leave
<1> QED
  BY <1>1, <1>2, <1>3, <1>4

------------------------------------------------------------------------------
(* The inductive invariant *)

\* Every step keeps the types of what the instances share: an instance that
\* writes the bytes, the protection or the file takes them from its record.
LEMMA SharedType ==
  ASSUME IInv, [Next]_vars
  PROVE  /\ explorer' \in Explorer \cup {NoExplorer} /\ started' \in Nat /\ diskImage' \in Images
         /\ live' \in Code /\ prot' \in Protections /\ given' \in SUBSET Protections
         /\ disk' \in Record \cup {NoState, Corrupt} /\ owner' \in Procs \cup {NoProc}
         /\ faults' \in Nat /\ foreign' \in Nat /\ losses' \in Nat
<1> USE CodeAssumption, ProtectionAssumption
<1>ty. TypeOK
  BY DEF IInv
<1>1. CASE UNCHANGED vars
  BY <1>1, <1>ty DEF vars, TypeOK
<1>2. ASSUME NEW p \in Procs, Run(p) \/ Step(p) \/ Crash(p)
      PROVE  /\ UNCHANGED <<explorer, started, diskImage, given>>
             /\ faults' \in Nat /\ foreign' \in Nat /\ losses' \in Nat
             /\ owner' \in Procs \cup {NoProc}
  <2>1. UNCHANGED <<explorer, started, diskImage, given>>
    BY <1>2 DEF Run, Step, Crash, Acquire, AcquireTimeout, Load, Find, Attach, Match, Candidate,
       Query, Adopt, Readback, Save, Compare, Read, Examine, Flush, Delete, Release, WProtect, WUndo,
       WWrite, WClose, WCheck, PSet, PUndo, PCheck, VBytes, VProt, shell
  <2>2. UNCHANGED budget \/ Fault
    BY <1>2 DEF Run, Step, Crash, Acquire, AcquireTimeout, Load, Find, Attach, Match, Candidate,
       Query, Adopt, Readback, Save, Compare, Read, Examine, Flush, Delete, Release, WProtect, WUndo,
       WWrite, WClose, WCheck, PSet, PUndo, PCheck, VBytes, VProt, NoFault, CallFails
  <2>3. faults' \in Nat /\ foreign' \in Nat /\ losses' \in Nat
    BY <2>2, <1>ty DEF TypeOK, budget, Fault
  <2>4. owner' \in {owner, p, NoProc}
    BY <1>2 DEF Run, Step, Crash, Acquire, AcquireTimeout, Load, Find, Attach, Match, Candidate,
       Query, Adopt, Readback, Save, Compare, Read, Examine, Flush, Delete, Release, WProtect, WUndo,
       WWrite, WClose, WCheck, PSet, PUndo, PCheck, VBytes, VProt
  <2> QED
    BY <2>1, <2>3, <2>4, <1>ty DEF TypeOK
<1>3. ASSUME NEW p \in Procs, Run(p) \/ Step(p) \/ Crash(p)
      PROVE  live' \in Code /\ prot' \in Protections /\ disk' \in Record \cup {NoState, Corrupt}
  <2>ty. InstanceInv(p) /\ job[p] \in Job /\ live \in Code /\ prot \in Protections
         /\ disk \in Record \cup {NoState, Corrupt} /\ PatchLength \in Nat
    BY <1>ty DEF IInv, TypeOK
  <2>1. CASE pc[p] \in Recording \cup Writing
    <3>1. job[p].rec \in Record /\ job[p].rec.original \in Code /\ job[p].rec.prot \in Protections
          /\ job[p].old \in Protections
      BY <2>1, <2>ty DEF InstanceInv, RecordSound, SoundRecord, Record, Job
    <3>2. Target(p) \in Code
      BY <3>1 DEF Target
    <3>3. \A k \in 0..PatchLength : Spliced(Target(p), k, live) \in Code
      BY <3>2, <2>ty, SplicedType
    <3> QED
      BY <1>3, <2>ty, <3>1, <3>2, <3>3 DEF Run, Step, Crash, Acquire, AcquireTimeout, Load, Find,
         Attach, Match, Candidate, Query, Adopt, Readback, Save, Compare, Read, Examine, Flush,
         Delete, Release, WProtect, WUndo, WWrite, WClose, WCheck, PSet, PUndo, PCheck, VBytes,
         VProt, memory
  <2>2. CASE pc[p] \notin Recording \cup Writing
    BY <1>3, <2>2, <2>ty DEF Run, Step, Crash, Acquire, AcquireTimeout, Load, Find, Attach, Match,
       Candidate, Query, Adopt, Readback, Save, Compare, Read, Examine, Flush, Delete, Release,
       WProtect, WUndo, WWrite, WClose, WCheck, PSet, PUndo, PCheck, VBytes, VProt, memory, At,
       Recording, Writing
  <2> QED
    BY <2>1, <2>2
<1>4. CASE Environment
  <2>1. CASE ExplorerStart
    BY <2>1, <1>ty DEF ExplorerStart, TypeOK, budget, Explorer
  <2>2. CASE ExplorerExit
    BY <2>2, <1>ty DEF ExplorerExit, TypeOK, budget, Explorer
  <2>3. CASE Servicing
    BY <2>3, <1>ty DEF Servicing, TypeOK, memory, budget
  <2>4. CASE ForeignWrite
    BY <2>4, <1>ty DEF ForeignWrite, TypeOK, shell, Code
  <2>5. CASE ForeignProtect
    BY <2>5, <1>ty DEF ForeignProtect, TypeOK, shell
  <2>6. CASE StateLost
    BY <2>6, <1>ty DEF StateLost, TypeOK, shell, memory
  <2> QED
    BY <1>4, <2>1, <2>2, <2>3, <2>4, <2>5, <2>6 DEF Environment
<1> QED
  BY <1>1, <1>2, <1>3, <1>4, <1>ty DEF Next, Environment, ExplorerExit, ExplorerStart, Servicing, ForeignWrite,
     ForeignProtect, StateLost, TypeOK

\* What the rest of the machine does never adds a byte of the patch.
LEMMA EnvironmentStep ==
  ASSUME IInv, Environment
  PROVE  /\ UNCHANGED <<owner, pc, job>>
         /\ UndoCovers' /\ (disk' \in Record => SoundRecord(disk'))
         /\ \A p \in Procs : InstanceInv(p)'
<1>ty. TypeOK /\ UndoCovers /\ (disk \in Record => SoundRecord(disk))
       /\ \A p \in Procs : InstanceInv(p)
  BY DEF IInv
<1>1. UNCHANGED <<owner, pc, job>>
  BY DEF Environment, ExplorerExit, ExplorerStart, Servicing, ForeignWrite, ForeignProtect, StateLost
<1>2. Tainted' => Tainted /\ explorer' = explorer
  <2>1. CASE ExplorerExit
    BY <2>1 DEF ExplorerExit, Tainted
  <2>2. CASE ExplorerStart
    <3>1. live' = Original[diskImage] /\ explorer'.image = diskImage
      BY <2>2 DEF ExplorerStart
    <3> QED
      BY <3>1 DEF Tainted
  <2>3. CASE ForeignWrite
    BY <2>3, <1>ty DEF ForeignWrite, Tainted, TypeOK, Code, shell
  <2>4. CASE Servicing \/ ForeignProtect \/ StateLost
    BY <2>4 DEF Servicing, ForeignProtect, StateLost, Tainted, shell, memory
  <2> QED
    BY <2>1, <2>2, <2>3, <2>4 DEF Environment
<1>3. \/ UNCHANGED <<disk, losses>>
      \/ losses' # 0 /\ disk' \notin Record
  BY <1>ty, TagAssumption DEF Environment, ExplorerExit, ExplorerStart, Servicing, ForeignWrite,
     ForeignProtect, StateLost, budget, TypeOK
<1>4. UndoCovers' /\ (disk' \in Record => SoundRecord(disk'))
  BY <1>ty, <1>2, <1>3 DEF UndoCovers, Covered
<1>5. ASSUME NEW p \in Procs PROVE InstanceInv(p)'
  <2>1. pc'[p] = pc[p] /\ job'[p] = job[p] /\ owner' = owner
    BY <1>1
  <2>2. losses' = 0 => losses = 0 /\ disk' = disk
    BY <1>3
  <2>3. explorer' # explorer => ~Tainted'
    BY <1>2
  <2> QED
    BY <1>ty, <1>2, <2>1, <2>2, <2>3 DEF InstanceInv, MutexHeld, FileMatches, RecordSound, RecordNames, InHand,
       OthersClean, CleanBeforeDelete, Loaded, SoundRecord, SameProcess
<1> QED
  BY <1>1, <1>4, <1>5

\* The initial states satisfy the inductive invariant.
THEOREM InitInv == Init => IInv
<1> SUFFICES ASSUME Init PROVE IInv
  OBVIOUS
<1> USE CodeAssumption, ProtectionAssumption, TagAssumption, BoundAssumption DEF Init
<1>1. diskImage \in Images /\ explorer \in Explorer /\ started \in Nat /\ live \in Code
  BY DEF Explorer
<1>2. job \in [Procs -> Job] /\ pc \in [Procs -> Labels]
  BY IdleJobType, Names
<1>3. TypeOK
  BY <1>1, <1>2 DEF TypeOK
<1>4. ~Tainted
  BY DEF Tainted
<1>5. \A p \in Procs : InstanceInv(p)
  BY DEF InstanceInv, MutexHeld, FileMatches, RecordSound, RecordNames, InHand, OthersClean, CleanBeforeDelete,
     Loaded, Critical, Attached, Writing, Recording
<1> QED
  BY <1>3, <1>4, <1>5 DEF IInv, UndoCovers

\* Every step of an instance, of Explorer or of another program keeps it.
THEOREM StepInv == IInv /\ [Next]_vars => IInv'
<1> SUFFICES ASSUME IInv, [Next]_vars PROVE IInv'
  OBVIOUS
<1>ty. TypeOK /\ UndoCovers /\ (disk \in Record => SoundRecord(disk))
       /\ \A p \in Procs : InstanceInv(p)
  BY DEF IInv
<1>1. CASE UNCHANGED vars
  BY <1>1, <1>ty DEF vars, IInv, TypeOK, UndoCovers, Tainted, Covered, InstanceInv, MutexHeld, FileMatches,
     RecordSound, RecordNames, InHand, OthersClean, CleanBeforeDelete, Loaded
<1>2. ASSUME NEW p \in Procs, Run(p) \/ Step(p) \/ Crash(p) PROVE IInv'
  <2>1. InstanceInv(p)' /\ UndoCovers' /\ (disk' \in Record => SoundRecord(disk'))
    <3>1. CASE Save(p) \/ Delete(p) \/ WWrite(p) \/ VBytes(p) \/ VProt(p)
      BY <3>1, DecisiveStep
    <3>2. ASSUME InstanceInv(p)', Still
          PROVE  InstanceInv(p)' /\ UndoCovers' /\ (disk' \in Record => SoundRecord(disk'))
      BY <3>2, <1>ty, StillFacts DEF Still
    <3> QED
      BY <1>2, <3>1, <3>2, PreparingStep, WorkingStep DEF Step
  <2>2. \A q \in Procs : InstanceInv(q)'
    BY <1>2, <1>ty, <2>1, Bystander
  <2>3. pc' \in [Procs -> Labels] /\ job' \in [Procs -> Job]
    <3>1. CASE Run(p)
      BY <3>1, <1>ty, IdleJobType, MoveType, Names DEF Run
    <3>2. pc[p] = "query" => job[p].file \in Images
      BY <1>ty DEF InstanceInv, FileMatches, OthersClean, Attached, Explorer
    <3> QED
      BY <1>2, <3>1, <3>2, <1>ty, LocalType
  <2> QED
    BY <2>1, <2>2, <2>3, SharedType DEF IInv, TypeOK
<1>3. CASE Environment
  BY <1>3, <1>ty, EnvironmentStep, SharedType DEF IInv, TypeOK
<1> QED
  BY <1>1, <1>2, <1>3 DEF Next

------------------------------------------------------------------------------
(* The theorems *)

\* The invariant holds in every reachable state.
THEOREM Invariance == Spec => []IInv
BY InitInv, StepInv, PTL DEF Spec

\* Type correctness: no transaction ever leaves a variable outside its type; in
\* particular a record is in hand wherever its fields are used.
THEOREM TypeCorrect == Spec => []TypeOK
<1>1. IInv => TypeOK
  BY DEF IInv
<1> QED
  BY <1>1, Invariance, PTL

\* A byte of the patch is in Explorer only under a durable record that can undo
\* it, for any number of instances, crashes, failed calls and foreign writes.
THEOREM UndoAlwaysCovers == Spec => []UndoCovers
<1>1. IInv => UndoCovers
  BY DEF IInv
<1> QED
  BY <1>1, Invariance, PTL

\* Two instances are never both between Acquire and Release.
THEOREM MutualExclusion ==
  Spec => [](\A p, q \in Procs : pc[p] \in Critical /\ pc[q] \in Critical => p = q)
<1>1. IInv => \A p, q \in Procs : pc[p] \in Critical /\ pc[q] \in Critical => p = q
  BY DEF IInv, InstanceInv, MutexHeld
<1> QED
  BY <1>1, Invariance, PTL

\* Explorer is changed only under the record of that very run of Explorer, which
\* is already on the disk.
THEOREM ChangesAreRecorded == Spec => WriteAhead
<1>1. ASSUME IInv, [Next]_vars, NEW p \in Procs, pc'[p] # pc[p], memory' # memory
      PROVE  /\ job[p].rec \in Record
             /\ job[p].rec.created = explorer.created /\ job[p].rec.image = explorer.image
             /\ losses = 0 => disk = job[p].rec
  <2>1. ~Environment /\ ~UNCHANGED vars
    BY <1>1, EnvironmentStep DEF vars, memory
  <2>2. PICK q \in Procs : Run(q) \/ Step(q) \/ Crash(q)
    BY <1>1, <2>1 DEF Next
  <2>3. p = q
    BY <1>1, <2>2, OthersKeep DEF IInv
  <2>4. pc[p] \in Writing /\ explorer = job[p].ctx
    BY <1>1, <2>2, <2>3 DEF Run, Step, Crash, Acquire, AcquireTimeout, Load, Find, Attach, Match,
       Candidate, Query, Adopt, Readback, Save, Compare, Read, Examine, Flush, Delete, Release,
       WProtect, WUndo, WWrite, WClose, WCheck, PSet, PUndo, PCheck, VBytes, VProt, memory, At,
       Writing, Reach
  <2> QED
    BY <1>1, <2>4 DEF IInv, InstanceInv, RecordSound, SoundRecord, RecordNames, SameProcess, InHand
<1>2. IInv /\ [Next]_vars =>
        [\A p \in Procs : pc'[p] # pc[p] /\ memory' # memory =>
           /\ job[p].rec \in Record
           /\ job[p].rec.created = explorer.created /\ job[p].rec.image = explorer.image
           /\ losses = 0 => disk = job[p].rec]_vars
  BY <1>1
<1> QED
  BY <1>2, Invariance, PTL DEF Spec, WriteAhead
------------------------------------------------------------------------------
(* Dry runs *)

\* Where a dry run never is: on the way to a change, or in one.
Changing == {"readback", "save", "delete", "w_protect", "w_undo", "w_write", "w_close",
             "w_check", "p_set", "p_undo", "p_check", "flush"}

\* It verifies the bytes only of an Explorer that is patched already.
DryInv(p) ==
  job[p].dry =>
    /\ pc[p] \notin Changing
    /\ pc[p] \in {"v_bytes", "v_prot"} => job[p].phase = "repair"

\* A step of p keeps p out of the changing labels.
LEMMA DryStep ==
  ASSUME TypeOK, NEW p \in Procs, DryInv(p), Run(p) \/ Step(p) \/ Crash(p)
  PROVE  DryInv(p)'
<1>ty. job[p] \in Job
  BY DEF TypeOK
<1>1. ASSUME pc'[p] \in {"idle", "acquire", "load", "find", "attach", "match", "candidate", "query",
                         "adopt", "compare", "read", "examine", "release"}
      PROVE  DryInv(p)'
  BY <1>1 DEF DryInv, Changing
<1>2. ASSUME job'[p].dry = job[p].dry, ~job[p].dry PROVE DryInv(p)'
  BY <1>2 DEF DryInv
<1> USE <1>ty, OwnEffect, <1>1, <1>2 DEF At, Job
<1>3. CASE Run(p) \/ Acquire(p) \/ AcquireTimeout(p) \/ Load(p) \/ Find(p) \/ Attach(p) \/ Match(p)
           \/ Candidate(p) \/ Compare(p) \/ Read(p) \/ Release(p) \/ Crash(p) \/ Delete(p)
  <2>1. CASE Compare(p)
    BY <2>1 DEF Compare
  <2> QED
    BY <1>3, <2>1 DEF Run, Acquire, AcquireTimeout, Load, Find, Attach, Match, Candidate, Read,
       Release, Crash, Delete
<1>4. CASE Query(p)
  BY <1>4 DEF Query
<1>5. CASE Adopt(p)
  BY <1>5 DEF Adopt, DryInv, Changing
<1>6. CASE Examine(p)
  BY <1>6 DEF Examine, ProtectionInOrder, DryInv, Changing
<1>7. CASE Readback(p) \/ Save(p) \/ Flush(p) \/ WProtect(p) \/ WUndo(p) \/ WWrite(p) \/ WClose(p)
           \/ WCheck(p) \/ PSet(p) \/ PUndo(p) \/ PCheck(p)
  <2>1. ~job[p].dry
    BY <1>7 DEF DryInv, Changing, Readback, Save, Flush, WProtect, WUndo, WWrite, WClose, WCheck, PSet,
       PUndo, PCheck
  <2>2. job'[p].dry = job[p].dry
    <3>1. CASE Readback(p) \/ Save(p) \/ Flush(p)
      BY <3>1 DEF Readback, Save, Flush, Finish
    <3>2. CASE WProtect(p) \/ WUndo(p) \/ WWrite(p)
      BY <3>2 DEF WProtect, WUndo, WWrite, WriteFailed, Finish
    <3>3. CASE WClose(p) \/ WCheck(p)
      BY <3>3 DEF WClose, WCheck, WriteFailed, WriteDone, Finish
    <3>4. CASE PSet(p) \/ PUndo(p) \/ PCheck(p)
      BY <3>4 DEF PSet, PUndo, PCheck, ProtectionInOrder, Finish
    <3> QED BY <1>7, <3>1, <3>2, <3>3, <3>4
  <2> QED BY <2>1, <2>2
<1>8. CASE VBytes(p)
  BY <1>8 DEF VBytes, VerifyFailed, Finish, DryInv, Changing
<1>9. CASE VProt(p)
  <2>1. CASE job[p].dry
    BY <1>9, <2>1 DEF VProt, VerifyFailed, VerifyDone, DryInv
  <2>2. CASE ~job[p].dry
    BY <1>9, <2>2 DEF VProt, VerifyFailed, VerifyDone, Finish
  <2> QED BY <2>1, <2>2
<1> QED
  BY <1>3, <1>4, <1>5, <1>6, <1>7, <1>8, <1>9 DEF Step

\* Neither Explorer nor another program touches an instance.
LEMMA EnvironmentKeeps == Environment => UNCHANGED <<pc, job>>
  BY DEF Environment, ExplorerExit, ExplorerStart, Servicing, ForeignWrite, ForeignProtect, StateLost

\* No instance that runs dry ever gets to a label from which something changes.
LEMMA DryInvariance == Spec => [](\A p \in Procs : DryInv(p))
<1>1. Init => \A p \in Procs : DryInv(p)
  BY DEF Init, DryInv, IdleJob
<1>2. ASSUME TypeOK, \A p \in Procs : DryInv(p), [Next]_vars
      PROVE  (\A p \in Procs : DryInv(p))'
  <2>1. CASE Environment \/ UNCHANGED vars
    BY <1>2, <2>1, EnvironmentKeeps DEF DryInv, vars
  <2>2. ASSUME NEW q \in Procs, Run(q) \/ Step(q) \/ Crash(q)
        PROVE  (\A p \in Procs : DryInv(p))'
    <3> SUFFICES ASSUME NEW p \in Procs PROVE DryInv(p)'
      OBVIOUS
    <3>1. CASE p = q
      BY <1>2, <2>2, <3>1, DryStep
    <3>2. CASE p # q
      BY <1>2, <2>2, <3>2, OthersKeep DEF DryInv
    <3> QED BY <3>1, <3>2
  <2> QED BY <1>2, <2>1, <2>2 DEF Next
<1> QED
  BY <1>1, <1>2, TypeCorrect, PTL DEF Spec

\* A dry run writes neither to Explorer nor to the rollback file, whatever it
\* finds there and whichever of its calls fails.
THEOREM DryRunsAreDry == Spec => DryRunIsDry
<1>1. ASSUME TypeOK, [Next]_vars, NEW p \in Procs, DryInv(p), job[p].dry, pc'[p] # pc[p]
      PROVE  UNCHANGED <<memory, disk>>
  <2>1. ~Environment /\ ~UNCHANGED vars
    BY <1>1, EnvironmentKeeps DEF vars
  <2>2. PICK q \in Procs : Run(q) \/ Step(q) \/ Crash(q)
    BY <1>1, <2>1 DEF Next
  <2>3. p = q
    BY <1>1, <2>2, OthersKeep
  <2>4. pc[p] \notin Changing
    BY <1>1 DEF DryInv
  <2> QED
    BY <2>2, <2>3, <2>4 DEF Run, Step, Crash, Acquire, AcquireTimeout, Load, Find, Attach, Match,
       Candidate, Query, Adopt, Readback, Save, Compare, Read, Examine, Flush, Delete, Release,
       WProtect, WUndo, WWrite, WClose, WCheck, PSet, PUndo, PCheck, VBytes, VProt, At, Changing
<1>2. TypeOK /\ (\A p \in Procs : DryInv(p)) /\ [Next]_vars =>
        [\A p \in Procs : job[p].dry /\ pc'[p] # pc[p] => UNCHANGED <<memory, disk>>]_vars
  BY <1>1
<1> QED
  BY <1>2, TypeCorrect, DryInvariance, PTL DEF Spec, DryRunIsDry

------------------------------------------------------------------------------
(* What a step touches *)

\* The labels between the call that opens the page for writing and the one that
\* closes it again.
Opening == {"w_undo", "w_write", "w_close"}

\* What a step of an instance may do to the page and to the file, and when.
LEMMA TouchesOwn ==
  ASSUME IInv, NEW p \in Procs, Run(p) \/ Step(p) \/ Crash(p)
  PROVE  /\ UNCHANGED <<explorer, given, foreign, losses>>
         /\ prot' # prot => /\ pc[p] \in Writing /\ Reach(p)
                            /\ \/ prot' = job[p].rec.prot
                               \/ pc[p] = "w_protect" /\ pc'[p] \in Opening /\ prot' = RWX
                               \/ pc[p] \in {"w_undo", "p_undo"} /\ prot' = job[p].old
         /\ disk' # disk => \/ pc[p] = "save" /\ disk' = job[p].rec
                            \/ pc[p] = "delete" /\ disk' = NoState
         /\ pc'[p] \in Attached => \/ pc[p] = "attach" /\ job'[p].ctx = explorer
                                   \/ pc[p] \in Attached /\ job'[p].ctx = job[p].ctx
<1>ty. TypeOK /\ job[p] \in Job
  BY DEF IInv, TypeOK
<1>1. UNCHANGED <<explorer, given, foreign, losses>>
  BY DEF Run, Step, Crash, Acquire, AcquireTimeout, Load, Find, Attach, Match, Candidate,
     Query, Adopt, Readback, Save, Compare, Read, Examine, Flush, Delete, Release, WProtect, WUndo,
     WWrite, WClose, WCheck, PSet, PUndo, PCheck, VBytes, VProt, shell, budget, NoFault, Fault,
     CallFails
<1>2. prot' # prot => WProtect(p) \/ WUndo(p) \/ WClose(p) \/ PSet(p) \/ PUndo(p)
  BY DEF Run, Step, Crash, Acquire, AcquireTimeout, Load, Find, Attach, Match, Candidate,
     Query, Adopt, Readback, Save, Compare, Read, Examine, Flush, Delete, Release,
     WWrite, WCheck, PCheck, VBytes, VProt, memory
<1>5. prot' # prot => /\ pc[p] \in Writing /\ Reach(p)
                      /\ \/ prot' = job[p].rec.prot
                         \/ pc[p] = "w_protect" /\ pc'[p] \in Opening /\ prot' = RWX
                         \/ pc[p] \in {"w_undo", "p_undo"} /\ prot' = job[p].old
  <2> USE <1>ty, OwnEffect DEF At, Writing, Opening
  <2>1. CASE WProtect(p)
    BY <2>1 DEF WProtect
  <2>2. CASE WUndo(p) \/ PUndo(p)
    BY <2>2 DEF WUndo, PUndo
  <2>3. CASE WClose(p) \/ PSet(p)
    BY <2>3 DEF WClose, PSet
  <2> QED BY <1>2, <2>1, <2>2, <2>3
<1>3. disk' # disk => \/ pc[p] = "save" /\ disk' = job[p].rec
                      \/ pc[p] = "delete" /\ disk' = NoState
  BY DEF Run, Step, Crash, Acquire, AcquireTimeout, Load, Find, Attach, Match, Candidate,
     Query, Adopt, Readback, Save, Compare, Read, Examine, Flush, Delete, Release, WProtect, WUndo,
     WWrite, WClose, WCheck, PSet, PUndo, PCheck, VBytes, VProt, At
<1>4. pc'[p] \in Attached => \/ pc[p] = "attach" /\ job'[p].ctx = explorer
                             \/ pc[p] \in Attached /\ job'[p].ctx = job[p].ctx
  <2> USE <1>ty, OwnEffect DEF At, Job, Attached
  <2>1. CASE Run(p) \/ Acquire(p) \/ AcquireTimeout(p) \/ Load(p) \/ Find(p) \/ Release(p) \/ Crash(p)
             \/ Delete(p)
    BY <2>1 DEF Run, Acquire, AcquireTimeout, Load, Find, Release, Crash, Delete
  <2>2. CASE Attach(p) \/ Match(p) \/ Candidate(p)
    BY <2>2 DEF Attach, Match, Candidate
  <2>3. CASE Query(p)
    BY <2>3 DEF Query
  <2>4. CASE Adopt(p) \/ Readback(p) \/ Save(p)
    BY <2>4 DEF Adopt, Readback, Save
  <2>5. CASE Compare(p)
    BY <2>5 DEF Compare
  <2>6. CASE Read(p) \/ Examine(p) \/ Flush(p)
    BY <2>6 DEF Read, Examine, ProtectionInOrder, Flush
  <2>7. CASE WProtect(p) \/ WUndo(p) \/ WWrite(p) \/ WClose(p) \/ WCheck(p)
    BY <2>7 DEF WProtect, WUndo, WWrite, WClose, WCheck, WriteFailed, WriteDone
  <2>8. CASE PSet(p) \/ PUndo(p) \/ PCheck(p)
    BY <2>8 DEF PSet, PUndo, PCheck, ProtectionInOrder
  <2>9. CASE VBytes(p) \/ VProt(p)
    BY <2>9 DEF VBytes, VProt, VerifyFailed, VerifyDone
  <2> QED
    BY <2>1, <2>2, <2>3, <2>4, <2>5, <2>6, <2>7, <2>8, <2>9 DEF Step
<1> QED
  BY <1>1, <1>3, <1>4, <1>5

\* While it works on Explorer an instance keeps its record, and what it may put
\* back is what it found.
LEMMA RecordKept ==
  ASSUME TypeOK, NEW p \in Procs, Step(p) \/ Crash(p), pc[p] \in Writing
  PROVE  /\ pc'[p] \in Writing => job'[p].rec = job[p].rec
         /\ pc'[p] \in Writing \cup {"release", "delete", "idle"}
         /\ job'[p].old \in {job[p].old, prot, HomeProtection}
<1>ty. job[p] \in Job
  BY DEF TypeOK
<1> USE <1>ty, OwnEffect DEF At, Job, Writing
<1>1. CASE Read(p) \/ Examine(p) \/ Flush(p)
  BY <1>1 DEF Read, Examine, ProtectionInOrder, Flush, Finish
<1>2. CASE WProtect(p)
  BY <1>2 DEF WProtect, WriteFailed, Finish
<1>3. CASE WUndo(p) \/ WWrite(p) \/ WClose(p)
  BY <1>3 DEF WUndo, WWrite, WClose, WriteFailed, Finish
<1>4. CASE WCheck(p)
  BY <1>4 DEF WCheck, WriteFailed, WriteDone, Finish
<1>5. CASE PSet(p) \/ PUndo(p) \/ PCheck(p)
  BY <1>5 DEF PSet, PUndo, PCheck, ProtectionInOrder, Finish
<1>6. CASE VBytes(p) \/ VProt(p)
  BY <1>6 DEF VBytes, VProt, VerifyFailed, VerifyDone, Finish
<1>7. CASE Crash(p)
  BY <1>7 DEF Crash, IdleJob
<1> QED
  BY <1>1, <1>2, <1>3, <1>4, <1>5, <1>6, <1>7 DEF Step, Acquire, AcquireTimeout, Load, Find, Attach,
     Match, Candidate, Query, Adopt, Readback, Save, Compare, Delete, Release

------------------------------------------------------------------------------
(* What an instance may say on its way out *)

\* A run of Explorer is as old as it says: no other one was started since under
\* the same creation time.
Born(run) == run # NoExplorer => run.created <= started

\* Up to the record the phase is the operation that was asked for, and the labels
\* are those of that operation.
PhaseFits(p) ==
  /\ pc[p] \in {"acquire", "load", "find", "attach", "match", "candidate", "query", "adopt",
                "readback", "compare"} => job[p].phase = job[p].op
  /\ pc[p] \in {"match", "candidate", "query", "adopt", "readback"} => job[p].op = "apply"
  /\ pc[p] = "save" => job[p].phase \in {"apply", "adopt"}

\* What may be reported, and that a report on Explorer is one on a real handle.
ToReport(p) ==
  /\ pc[p] = "delete" => job[p].result \in {"restored", "gone", "failed"}
  /\ pc[p] \in {"delete", "release"} /\ job[p].result \in {"applied", "verified", "adopted", "restored"}
       => job[p].ctx \in Explorer

LifeInv ==
  /\ Born(explorer)
  /\ \A p \in Procs : Born(job[p].ctx) /\ PhaseFits(p) /\ ToReport(p)

\* What an instance has seen of its Explorer is still so.
SeenIsSo(p) ==
  explorer = job[p].ctx =>
    /\ pc[p] = "query" /\ job[p].marked => live = Patch
    /\ pc[p] = "adopt" \/ (pc[p] = "save" /\ job[p].phase = "adopt")
         => live = Patch /\ prot = job[p].rec.prot
    /\ pc[p] = "v_prot" => live = Target(p)
    /\ pc[p] = "delete" /\ job[p].result = "restored"
         => live = Original[explorer.image] /\ prot = job[p].rec.prot

\* The bytes Restore is about to overwrite are those it has classified.
Recognised(p) ==
  job[p].phase = "restore" =>
    /\ pc[p] \in {"examine", "p_set", "p_check", "w_protect", "w_write"} /\ explorer = job[p].ctx
         => job[p].seen = Classify(live, job[p].rec)
    /\ pc[p] \in {"p_set", "p_check", "w_protect", "w_write"} => job[p].seen # "unknown"

InstanceAlone(p) ==
  /\ SeenIsSo(p) /\ Recognised(p)
  /\ pc[p] = "release" => ReportHolds(p)

\* The inductive invariant for TruthfulReport, while no other program interferes.
AloneInv == foreign = 0 => \A p \in Procs : InstanceAlone(p)

\* A step of an instance writes bytes only at one label, through its own handle.
LEMMA BytesOwn ==
  ASSUME NEW p \in Procs, Run(p) \/ Step(p) \/ Crash(p)
  PROVE  /\ UNCHANGED <<explorer, started>>
         /\ live' # live => WWrite(p) /\ Reach(p)
<1>1. UNCHANGED <<explorer, started>>
  BY DEF Run, Step, Crash, Acquire, AcquireTimeout, Load, Find, Attach, Match, Candidate,
     Query, Adopt, Readback, Save, Compare, Read, Examine, Flush, Delete, Release, WProtect, WUndo,
     WWrite, WClose, WCheck, PSet, PUndo, PCheck, VBytes, VProt, shell
<1>2. live' # live => WWrite(p)
  BY DEF Run, Step, Crash, Acquire, AcquireTimeout, Load, Find, Attach, Match, Candidate,
     Query, Adopt, Readback, Save, Compare, Read, Examine, Flush, Delete, Release, WProtect, WUndo,
     WClose, WCheck, PSet, PUndo, PCheck, VBytes, VProt, memory
<1>3. live' # live /\ WWrite(p) => Reach(p)
  BY DEF WWrite
<1> QED BY <1>1, <1>2, <1>3

\* A return keeps the local variables, but for the report.
LEMMA FinishEffect ==
  ASSUME TypeOK, NEW p \in Procs
  PROVE  \A o : Finish(p, o) =>
           /\ pc'[p] = "release" /\ job'[p].result = o
           /\ job'[p].op = job[p].op /\ job'[p].phase = job[p].phase
           /\ job'[p].ctx = job[p].ctx /\ job'[p].rec = job[p].rec
  BY DEF Finish, Goto, Local, TypeOK, Job

\* An instance opens the Explorer that runs, keeps its handle, or closes it.
LEMMA HandleStep ==
  ASSUME TypeOK, NEW p \in Procs, Run(p) \/ Step(p) \/ Crash(p)
  PROVE  job'[p].ctx \in {job[p].ctx, explorer, NoExplorer}
<1>ty. job[p] \in Job
  BY DEF TypeOK
<1> USE <1>ty, OwnEffect, FinishEffect DEF Job
<1>1. CASE Run(p) \/ AcquireTimeout(p) \/ Release(p) \/ Crash(p)
  <2>1. CASE Run(p)
    <3>1. PICK op \in {"apply", "restore"}, dry \in BOOLEAN :
            Local(p, [IdleJob EXCEPT !.op = op, !.dry = dry, !.phase = op])
      BY <2>1 DEF Run
    <3>2. job'[p] = [IdleJob EXCEPT !.op = op, !.dry = dry, !.phase = op]
      BY <3>1
    <3> QED BY <3>2 DEF IdleJob
  <2>2. CASE AcquireTimeout(p) \/ Release(p) \/ Crash(p)
    BY <2>2 DEF AcquireTimeout, Release, Crash, IdleJob
  <2> QED BY <1>1, <2>1, <2>2
<1>2. CASE Acquire(p) \/ Load(p) \/ Find(p)
  BY <1>2 DEF Acquire, Load, Find
<1>9. CASE Attach(p) \/ Match(p) \/ Candidate(p)
  BY <1>9 DEF Attach, Match, Candidate
<1>3. CASE Query(p)
  <2> DEFINE c == job[p].ctx
             r == [pid |-> c.pid, created |-> c.created, image |-> job[p].file,
                   original |-> Original[job[p].file], prot |-> prot]
             j == [job[p] EXCEPT !.obs = prot, !.rec = r]
  <2>1. (\E o : Finish(p, o)) \/ Local(p, j)
    BY <1>3 DEF Query
  <2>2. j.ctx = job[p].ctx
    OBVIOUS
  <2> HIDE DEF j
  <2> QED BY <2>1, <2>2
<1>4. CASE Readback(p) \/ Save(p) \/ Delete(p)
  BY <1>4 DEF Readback, Save, Delete
<1>10. CASE Adopt(p)
  <2> DEFINE i == [job[p] EXCEPT !.phase = "repair", !.rec = disk]
             j == [job[p] EXCEPT !.phase = "adopt"]
  <2>1. (\E o : Finish(p, o)) \/ Local(p, i) \/ Local(p, j)
    BY <1>10 DEF Adopt
  <2>2. i.ctx = job[p].ctx /\ j.ctx = job[p].ctx
    OBVIOUS
  <2> HIDE DEF i, j
  <2> QED BY <2>1, <2>2
<1>11. CASE Compare(p)
  BY <1>11 DEF Compare
<1>5. CASE Read(p) \/ Examine(p) \/ Flush(p)
  BY <1>5 DEF Read, Examine, ProtectionInOrder, Flush
<1>6. CASE WProtect(p)
  <2> DEFINE i == [job[p] EXCEPT !.phase = "rollback"]
             j == [job[p] EXCEPT !.old = prot, !.err = FALSE]
  <2>1. (\E o : Finish(p, o)) \/ Local(p, i) \/ Local(p, j)
    BY <1>6 DEF WProtect, WriteFailed
  <2>2. i.ctx = job[p].ctx /\ j.ctx = job[p].ctx
    OBVIOUS
  <2> HIDE DEF i, j
  <2> QED BY <2>1, <2>2
<1>13. CASE WUndo(p) \/ WCheck(p)
  BY <1>13 DEF WUndo, WCheck, WriteFailed, WriteDone
<1>12. CASE WWrite(p) \/ WClose(p)
  BY <1>12 DEF WWrite, WClose
<1>7. CASE PSet(p) \/ PUndo(p) \/ PCheck(p)
  BY <1>7 DEF PSet, PUndo, PCheck, ProtectionInOrder
<1>8. CASE VBytes(p) \/ VProt(p)
  BY <1>8 DEF VBytes, VProt, VerifyFailed, VerifyDone
<1> QED
  BY <1>1, <1>2, <1>3, <1>4, <1>5, <1>6, <1>7, <1>8, <1>9, <1>10, <1>11, <1>12, <1>13 DEF Step

\* The labels of one operation.
LEMMA PhaseStep ==
  ASSUME IInv, NEW p \in Procs, PhaseFits(p), Run(p) \/ Step(p) \/ Crash(p)
  PROVE  PhaseFits(p)'
<1>ty. TypeOK /\ job[p] \in Job
  BY DEF IInv, TypeOK
<1>1. ASSUME pc'[p] \in Writing \cup {"idle", "delete", "release"} PROVE PhaseFits(p)'
  BY <1>1 DEF PhaseFits, Writing
<1>2. ASSUME pc[p] \in Writing, Step(p) \/ Crash(p) PROVE PhaseFits(p)'
  BY <1>1, <1>2, <1>ty, RecordKept
<1> USE <1>ty, <1>1, OwnEffect, FinishEffect DEF At, Job, PhaseFits, Writing
<1>3. CASE Run(p)
  <2>1. PICK op \in {"apply", "restore"}, dry \in BOOLEAN :
          Local(p, [IdleJob EXCEPT !.op = op, !.dry = dry, !.phase = op])
    BY <1>3 DEF Run
  <2>2. pc'[p] = "acquire"
    BY <1>3 DEF Run
  <2>3. job'[p] = [IdleJob EXCEPT !.op = op, !.dry = dry, !.phase = op]
    BY <2>1
  <2>4. job'[p].op = op /\ job'[p].phase = op
    BY <2>3 DEF IdleJob
  <2> QED BY <2>2, <2>4
<1>4. CASE AcquireTimeout(p) \/ Release(p) \/ Crash(p) \/ Delete(p)
  BY <1>4 DEF AcquireTimeout, Release, Crash, Delete
<1>5. CASE Acquire(p) \/ Load(p) \/ Find(p) \/ Attach(p) \/ Match(p) \/ Candidate(p)
  BY <1>5 DEF Acquire, Load, Find, Attach, Match, Candidate
<1>6. CASE Query(p)
  <2> DEFINE c == job[p].ctx
             r == [pid |-> c.pid, created |-> c.created, image |-> job[p].file,
                   original |-> Original[job[p].file], prot |-> prot]
             j == [job[p] EXCEPT !.obs = prot, !.rec = r]
  <2>1. pc'[p] = "release" \/ (pc'[p] \in {"adopt", "readback"} /\ job'[p] = j)
    BY <1>6 DEF Query
  <2>2. j.op = job[p].op /\ j.phase = job[p].phase /\ pc[p] = "query"
    BY <1>6 DEF Query
  <2> HIDE DEF j
  <2> QED BY <2>1, <2>2
<1>7. CASE Adopt(p)
  BY <1>7 DEF Adopt
<1>8. CASE Readback(p) \/ Save(p)
  BY <1>8 DEF Readback, Save
<1>9. CASE Compare(p)
  BY <1>9 DEF Compare
<1> QED
  BY <1>2, <1>3, <1>4, <1>5, <1>6, <1>7, <1>8, <1>9 DEF Step, Read, Examine, Flush, WProtect, WUndo,
     WWrite, WClose, WCheck, PSet, PUndo, PCheck, VBytes, VProt

\* A report on Explorer is made under a handle.
LEMMA ReportStep ==
  ASSUME IInv, NEW p \in Procs, ToReport(p), Run(p) \/ Step(p) \/ Crash(p)
  PROVE  ToReport(p)'
<1>ty. TypeOK /\ job[p] \in Job /\ (pc[p] \in Attached => job[p].ctx \in Explorer)
  BY DEF IInv, InstanceInv, OthersClean, TypeOK
<1>1. ASSUME pc'[p] = "release", job'[p].result \notin {"applied", "verified", "adopted", "restored"}
      PROVE  ToReport(p)'
  BY <1>1 DEF ToReport
<1>2. ASSUME pc'[p] \notin {"delete", "release"} PROVE ToReport(p)'
  BY <1>2 DEF ToReport
<1> USE <1>ty, <1>1, <1>2, OwnEffect, FinishEffect DEF At, Job, Attached
<1>3. CASE Run(p) \/ Acquire(p) \/ AcquireTimeout(p) \/ Release(p) \/ Crash(p)
  BY <1>3 DEF Run, Acquire, AcquireTimeout, Release, Crash
<1>4. CASE Load(p) \/ Find(p) \/ Attach(p) \/ Match(p) \/ Candidate(p)
  BY <1>4 DEF Load, Find, Attach, Match, Candidate
<1>5. CASE Query(p)
  BY <1>5 DEF Query
<1>6. CASE Adopt(p) \/ Readback(p)
  BY <1>6 DEF Adopt, Readback
<1>7. CASE Save(p)
  BY <1>7 DEF Save, ToReport
<1>8. CASE Compare(p)
  BY <1>8 DEF Compare, ToReport
<1>9. CASE Delete(p)
  BY <1>9 DEF Delete, ToReport
<1>10. CASE Read(p) \/ Examine(p) \/ Flush(p)
  BY <1>10 DEF Read, Examine, ProtectionInOrder, Flush
<1>11. CASE WProtect(p) \/ WUndo(p) \/ WWrite(p) \/ WClose(p) \/ WCheck(p)
  BY <1>11 DEF WProtect, WUndo, WWrite, WClose, WCheck, WriteFailed, WriteDone
<1>12. CASE PSet(p) \/ PUndo(p) \/ PCheck(p)
  BY <1>12 DEF PSet, PUndo, PCheck, ProtectionInOrder
<1>13. CASE VBytes(p) \/ VProt(p)
  BY <1>13 DEF VBytes, VProt, VerifyFailed, VerifyDone, ToReport
<1> QED
  BY <1>3, <1>4, <1>5, <1>6, <1>7, <1>8, <1>9, <1>10, <1>11, <1>12, <1>13 DEF Step

\* No Explorer that starts later can be taken for the one a handle is open on.
LEMMA LifeInvariance == Spec => []LifeInv
<1>1. Init => LifeInv
  BY DEF Init, LifeInv, Born, PhaseFits, ToReport, IdleJob
<1>2. ASSUME IInv, LifeInv, [Next]_vars PROVE LifeInv'
  <2>ty. TypeOK
    BY <1>2 DEF IInv
  <2>1. CASE UNCHANGED vars
    BY <1>2, <2>1 DEF vars, LifeInv, Born, PhaseFits, ToReport
  <2>2. ASSUME NEW q \in Procs, Run(q) \/ Step(q) \/ Crash(q) PROVE LifeInv'
    <3>1. Born(explorer)' /\ \A p \in Procs : Born(job[p].ctx)'
      <4>1. \A p \in Procs : job'[p].ctx \in {job[p].ctx, explorer, NoExplorer}
        BY <2>2, <2>ty, HandleStep, OthersKeep
      <4> QED
        BY <1>2, <2>2, <4>1, BytesOwn DEF LifeInv, Born
    <3>2. \A p \in Procs : PhaseFits(p)' /\ ToReport(p)'
      <4> SUFFICES ASSUME NEW p \in Procs PROVE PhaseFits(p)' /\ ToReport(p)'
        OBVIOUS
      <4>1. CASE p = q
        BY <1>2, <2>2, <4>1, PhaseStep, ReportStep DEF LifeInv
      <4>2. CASE p # q
        BY <1>2, <2>2, <2>ty, <4>2, OthersKeep DEF LifeInv, PhaseFits, ToReport
      <4> QED BY <4>1, <4>2
    <3> QED BY <3>1, <3>2 DEF LifeInv
  <2>3. CASE Environment
    <3>1. UNCHANGED <<pc, job>>
      BY <2>3, EnvironmentKeeps
    <3>2. /\ started \in Nat /\ started' \in {started, started + 1}
          /\ explorer' # NoExplorer =>
               \/ explorer' = explorer
               \/ started' = started + 1 /\ explorer'.created = started + 1
      BY <2>3, <2>ty DEF Environment, ExplorerExit, ExplorerStart, Servicing, ForeignWrite,
         ForeignProtect, StateLost, shell, TypeOK
    <3>3. (explorer # NoExplorer => explorer.created \in Nat)
          /\ \A p \in Procs : job[p].ctx # NoExplorer => job[p].ctx.created \in Nat
      BY <2>ty DEF TypeOK, Job, Explorer
    <3> QED
      BY <1>2, <3>1, <3>2, <3>3 DEF LifeInv, Born, PhaseFits, ToReport
  <2> QED BY <1>2, <2>1, <2>2, <2>3 DEF Next
<1> QED
  BY <1>1, <1>2, Invariance, PTL DEF Spec

\* The instance that moves: what it learns is so, and what it says.
LEMMA OwnAlone ==
  ASSUME IInv, LifeInv, NEW p \in Procs, InstanceAlone(p), Run(p) \/ Step(p) \/ Crash(p)
  PROVE  InstanceAlone(p)'
<1>ty. TypeOK /\ job[p] \in Job /\ InstanceInv(p) /\ UndoCovers /\ PhaseFits(p) /\ ToReport(p)
  BY DEF IInv, LifeInv, TypeOK
<1>quiet. ASSUME pc'[p] \in {"idle", "acquire", "load", "find", "attach", "match", "candidate", "readback",
                             "compare", "read", "w_undo", "w_close", "w_check", "p_undo", "flush",
                             "v_bytes"}
          PROVE  InstanceAlone(p)'
  BY <1>quiet DEF InstanceAlone, SeenIsSo, Recognised
<1>silent. ASSUME pc'[p] = "release", job'[p].result \in {"failed", "refused", "passed"}
           PROVE  InstanceAlone(p)'
  BY <1>silent DEF InstanceAlone, SeenIsSo, Recognised, ReportHolds
<1> USE <1>ty, <1>quiet, <1>silent, OwnEffect, FinishEffect DEF At
<1>1. CASE Run(p) \/ Acquire(p) \/ AcquireTimeout(p) \/ Release(p) \/ Crash(p)
  BY <1>1 DEF Run, Acquire, AcquireTimeout, Release, Crash
<1>2. CASE Find(p) \/ Attach(p) \/ Match(p)
  BY <1>2 DEF Find, Attach, Match
<1>3. CASE Load(p)
  <2>1. CASE disk = NoState /\ Finish(p, "nothing")
    <3>1. pc'[p] = "release" /\ job'[p].result = "nothing" /\ UNCHANGED <<explorer, live, losses>>
      BY <1>3, <2>1, PreparingStep DEF Still
    <3>2. losses = 0 => ~Tainted
      BY <2>1, TagAssumption DEF UndoCovers, Covered
    <3> QED
      BY <3>1, <3>2 DEF InstanceAlone, SeenIsSo, Recognised, ReportHolds, Tainted
  <2>2. CASE pc'[p] = "find" \/ Finish(p, "failed")
    BY <2>2
  <2> QED BY <1>3, <2>1, <2>2 DEF Load
<1>4. CASE Candidate(p)
  <2>0. pc[p] = "candidate" => job[p].file = job[p].ctx.image
    BY DEF IInv, InstanceInv, FileMatches
  <2>1. \/ Finish(p, "failed")
        \/ /\ pc'[p] = "query" /\ live' = live /\ explorer' = explorer
           /\ live \in {Original[job[p].ctx.image], Patch}
           /\ job'[p] = [job[p] EXCEPT !.marked = (live # Original[job[p].ctx.image])]
    BY <1>4, <2>0 DEF Candidate, At, memory, shell
  <2>2. CASE /\ pc'[p] = "query" /\ live' = live /\ explorer' = explorer
             /\ live \in {Original[job[p].ctx.image], Patch}
             /\ job'[p] = [job[p] EXCEPT !.marked = (live # Original[job[p].ctx.image])]
    <3>1. job'[p].marked = (live # Original[job[p].ctx.image])
      BY <2>2 DEF Job
    <3> QED
      BY <2>2, <3>1 DEF InstanceAlone, SeenIsSo, Recognised
  <2> QED BY <2>1, <2>2
<1>5. CASE Query(p)
  <2> DEFINE c == job[p].ctx
             r == [pid |-> c.pid, created |-> c.created, image |-> job[p].file,
                   original |-> Original[job[p].file], prot |-> prot]
             j == [job[p] EXCEPT !.obs = prot, !.rec = r]
  <2>1. /\ j.marked = job[p].marked /\ j.rec.prot = prot /\ j.ctx = c
        /\ UNCHANGED <<explorer, live, prot>> /\ pc[p] = "query"
    BY <1>5 DEF Query, Job, shell, memory
  <2>2. \/ Finish(p, "failed") \/ Finish(p, "passed") \/ pc'[p] = "readback"
        \/ j.marked /\ pc'[p] = "adopt" /\ job'[p] = j
    BY <1>5 DEF Query
  <2>3. CASE j.marked /\ pc'[p] = "adopt" /\ job'[p] = j
    <3> HIDE DEF j
    <3> QED
      BY <2>1, <2>3 DEF InstanceAlone, SeenIsSo, Recognised
  <2> HIDE DEF j
  <2> QED BY <2>2, <2>3
<1>6. CASE Adopt(p)
  <2> DEFINE i == [job[p] EXCEPT !.phase = "repair", !.rec = disk]
             j == [job[p] EXCEPT !.phase = "adopt"]
  <2>1. /\ i.phase = "repair" /\ j.rec = job[p].rec /\ j.ctx = job[p].ctx /\ j.phase = "adopt"
        /\ UNCHANGED <<explorer, live, prot>> /\ pc[p] = "adopt"
    BY <1>6 DEF Adopt, Job, shell, memory
  <2>2. \/ Finish(p, "failed")
        \/ pc'[p] \in {"p_set", "v_bytes"} /\ job'[p] = i
        \/ pc'[p] = "save" /\ job'[p] = j
    BY <1>6 DEF Adopt
  <2> HIDE DEF i, j
  <2> QED BY <2>1, <2>2 DEF InstanceAlone, SeenIsSo, Recognised
<1>7. CASE Readback(p)
  <2>1. \/ Finish(p, "failed")
        \/ pc'[p] = "save" /\ job'[p] = job[p] /\ job[p].phase = "apply"
    BY <1>7 DEF Readback, PhaseFits
  <2> QED BY <2>1 DEF InstanceAlone, SeenIsSo, Recognised
<1>8. CASE Save(p)
  <2>1. \/ Finish(p, "failed")
        \/ /\ job[p].phase = "adopt" /\ Finish(p, "adopted") /\ disk' = job[p].rec
        \/ pc'[p] = "w_protect" /\ job'[p] = job[p] /\ job[p].phase = "apply"
    BY <1>8 DEF Save, PhaseFits
  <2>2. pc[p] = "save" /\ UNCHANGED <<explorer, live, prot>>
    BY <1>8 DEF Save, shell, memory
  <2> QED BY <2>1, <2>2 DEF InstanceAlone, SeenIsSo, Recognised, ReportHolds
<1>9. CASE Compare(p)
  <2>1. InstanceInv(p)' /\ UNCHANGED <<explorer, live, losses>>
    BY <1>9, PreparingStep DEF Still
  <2>2. \/ Finish(p, "failed") \/ pc'[p] = "read"
        \/ /\ ~SameProcess(job[p].rec, job[p].ctx)
           /\ pc'[p] \in {"release", "delete"} /\ job'[p] = [job[p] EXCEPT !.result = "gone"]
    BY <1>9 DEF Compare
  <2>3. CASE /\ ~SameProcess(job[p].rec, job[p].ctx)
             /\ pc'[p] \in {"release", "delete"} /\ job'[p] = [job[p] EXCEPT !.result = "gone"]
    <3>1. job'[p].result = "gone"
      BY <2>3 DEF Job
    <3>2. pc[p] = "compare"
      BY <1>9 DEF Compare
    <3>3. losses = 0 => ~Tainted
      BY <2>3, <3>2 DEF InstanceInv, InHand, OthersClean, Loaded, Attached, UndoCovers, Covered,
         SameProcess
    <3> QED
      BY <2>1, <2>3, <3>1, <3>3 DEF InstanceAlone, SeenIsSo, Recognised, ReportHolds, Tainted
  <2> QED BY <2>2, <2>3
<1>10. CASE Read(p)
  <2>1. \/ Finish(p, "failed")
        \/ pc'[p] = "examine" /\ job'[p] = [job[p] EXCEPT !.seen = Classify(live, job[p].rec)]
    BY <1>10 DEF Read
  <2>2. CASE pc'[p] = "examine" /\ job'[p] = [job[p] EXCEPT !.seen = Classify(live, job[p].rec)]
    <3>1. live' = live /\ job'[p].seen = Classify(live, job[p].rec) /\ job'[p].rec = job[p].rec
      BY <1>10, <2>2 DEF Read, memory, Job
    <3>2. job'[p].seen = Classify(live, job[p].rec)'
      BY <3>1 DEF Classify
    <3> QED
      BY <2>2, <3>1, <3>2 DEF InstanceAlone, SeenIsSo, Recognised, Classify
  <2> QED BY <2>1, <2>2
<1>still. ASSUME UNCHANGED <<explorer, live>>,
                 pc[p] \in {"examine", "p_set", "p_check", "w_protect"},
                 pc'[p] \in {"p_set", "p_check", "w_protect", "w_write"},
                 job'[p].seen = job[p].seen, job'[p].rec = job[p].rec, job'[p].ctx = job[p].ctx,
                 job'[p].phase = job[p].phase, job[p].seen # "unknown" \/ pc[p] # "examine"
          PROVE  InstanceAlone(p)'
  BY <1>still DEF InstanceAlone, SeenIsSo, Recognised, Classify
<1>11. CASE Examine(p)
  <2>1. UNCHANGED <<explorer, live>> /\ pc[p] = "examine"
    BY <1>11 DEF Examine, shell, memory
  <2> DEFINE j == [job[p] EXCEPT !.obs = prot]
  <2>2. j.seen = job[p].seen /\ j.rec = job[p].rec /\ j.ctx = job[p].ctx /\ j.phase = job[p].phase
    BY DEF Job
  <2>3. \/ \E o \in {"failed", "refused", "passed"} : Finish(p, o)
        \/ pc'[p] \in {"v_bytes", "flush"}
        \/ job[p].seen # "unknown" /\ pc'[p] = "w_protect" /\ job'[p] = job[p]
        \/ job[p].seen # "unknown" /\ pc'[p] = "p_set" /\ job'[p] = j
    BY <1>11 DEF Examine, ProtectionInOrder
  <2> HIDE DEF j
  <2> QED BY <2>1, <2>2, <2>3, <1>still
<1>12. CASE PSet(p)
  <2>1. UNCHANGED <<explorer, live>> /\ pc[p] = "p_set"
    BY <1>12 DEF PSet, shell
  <2> DEFINE j == [job[p] EXCEPT !.old = prot]
  <2>2. j.seen = job[p].seen /\ j.rec = job[p].rec /\ j.ctx = job[p].ctx /\ j.phase = job[p].phase
    BY DEF Job
  <2>3. Finish(p, "failed") \/ (pc'[p] \in {"p_check", "p_undo"} /\ job'[p] = j)
    BY <1>12 DEF PSet
  <2> HIDE DEF j
  <2> QED BY <2>1, <2>2, <2>3, <1>still
<1>13. CASE PCheck(p)
  <2>1. UNCHANGED <<explorer, live>> /\ pc[p] = "p_check"
    BY <1>13 DEF PCheck, shell, memory
  <2>2. \/ Finish(p, "failed") \/ Finish(p, "passed") \/ pc'[p] \in {"v_bytes", "flush"}
        \/ pc'[p] = "w_protect" /\ job'[p] = job[p]
    BY <1>13 DEF PCheck, ProtectionInOrder
  <2> QED BY <2>1, <2>2, <1>still
<1>14. CASE WProtect(p)
  <2>1. UNCHANGED <<explorer, live>> /\ pc[p] = "w_protect"
    BY <1>14 DEF WProtect, shell
  <2> DEFINE j == [job[p] EXCEPT !.old = prot, !.err = FALSE]
  <2>2. j.seen = job[p].seen /\ j.rec = job[p].rec /\ j.ctx = job[p].ctx /\ j.phase = job[p].phase
    BY DEF Job
  <2>3. \/ Finish(p, "failed") \/ pc'[p] = "read"
        \/ pc'[p] \in {"w_write", "w_undo"} /\ job'[p] = j
    BY <1>14 DEF WProtect, WriteFailed
  <2> HIDE DEF j
  <2> QED BY <2>1, <2>2, <2>3, <1>still
<1>15. CASE Flush(p) \/ PUndo(p) \/ WUndo(p) \/ WWrite(p) \/ WClose(p) \/ WCheck(p)
  <2>1. Finish(p, "failed") \/ pc'[p] \in {"v_bytes", "read", "flush", "w_close", "w_check"}
    BY <1>15 DEF Flush, PUndo, WUndo, WWrite, WClose, WCheck, WriteFailed, WriteDone
  <2> QED BY <2>1
<1>16. CASE VBytes(p)
  <2>1. \/ Finish(p, "failed") \/ pc'[p] = "read"
        \/ pc'[p] = "v_prot" /\ job'[p] = job[p] /\ live = Target(p) /\ live' = live
    BY <1>16 DEF VBytes, VerifyFailed, memory
  <2> QED BY <2>1 DEF InstanceAlone, SeenIsSo, Recognised, Target
<1>17. CASE VProt(p)
  <2>1. /\ pc[p] = "v_prot" /\ UNCHANGED <<explorer, live, prot, disk, losses>>
        /\ SoundRecord(job[p].rec) /\ job[p].rec.image = job[p].ctx.image
        /\ losses = 0 => disk = job[p].rec
    BY <1>17, <1>ty DEF VProt, shell, memory, budget, NoFault, Fault, CallFails, InstanceInv, RecordSound,
       RecordNames, InHand, Writing
  <2>2. \/ Finish(p, "failed") \/ pc'[p] = "read"
        \/ /\ Reach(p) /\ prot = job[p].rec.prot
           /\ \/ job[p].phase = "apply" /\ Finish(p, "applied")
              \/ job[p].phase = "repair" /\ Finish(p, "verified")
              \/ /\ job[p].phase = "restore" /\ pc'[p] = "delete"
                 /\ job'[p] = [job[p] EXCEPT !.result = "restored"]
              \/ pc'[p] = "delete" /\ job'[p] = [job[p] EXCEPT !.result = "failed"]
    BY <1>17 DEF VProt, VerifyFailed, VerifyDone
  <2>3. Reach(p) => live = Target(p)
    BY <2>1 DEF Reach, InstanceAlone, SeenIsSo
  <2>4. CASE /\ Reach(p) /\ prot = job[p].rec.prot
             /\ \/ job[p].phase = "apply" /\ Finish(p, "applied")
                \/ job[p].phase = "repair" /\ Finish(p, "verified")
    BY <2>1, <2>3, <2>4 DEF Target, InstanceAlone, SeenIsSo, Recognised, ReportHolds
  <2>5. CASE /\ Reach(p) /\ prot = job[p].rec.prot
             /\ job[p].phase = "restore" /\ pc'[p] = "delete"
             /\ job'[p] = [job[p] EXCEPT !.result = "restored"]
    <3>1. job'[p].rec = job[p].rec /\ job'[p].ctx = job[p].ctx
      BY <2>5 DEF Job
    <3>2. live = Original[explorer.image]
      BY <2>1, <2>3, <2>5 DEF Target, SoundRecord, Reach
    <3> QED
      BY <2>1, <2>5, <3>1, <3>2 DEF InstanceAlone, SeenIsSo, Recognised
  <2>6. CASE pc'[p] = "delete" /\ job'[p] = [job[p] EXCEPT !.result = "failed"]
    <3>1. job'[p].result = "failed"
      BY <2>6 DEF Job
    <3> QED
      BY <2>6, <3>1 DEF InstanceAlone, SeenIsSo, Recognised
  <2> QED BY <2>2, <2>4, <2>5, <2>6
<1>18. CASE Delete(p)
  <2>1. /\ pc[p] = "delete" /\ pc'[p] = "release" /\ job'[p] = job[p]
        /\ UNCHANGED <<explorer, live, prot, losses>>
    BY <1>18 DEF Delete, shell, memory, budget, NoFault, Fault
  <2>2. losses = 0 => ~Tainted
    BY <2>1 DEF InstanceInv, CleanBeforeDelete
  <2> QED
    BY <2>1, <2>2 DEF InstanceAlone, SeenIsSo, Recognised, ReportHolds, ToReport, Tainted
<1> QED
  BY <1>1, <1>2, <1>3, <1>4, <1>5, <1>6, <1>7, <1>8, <1>9, <1>10, <1>11, <1>12, <1>13, <1>14, <1>15, <1>16,
     <1>17, <1>18 DEF Step

\* Nobody but the holder of the mutex can make what it has seen untrue.
LEMMA BystanderAlone ==
  ASSUME IInv, NEW p \in Procs, NEW q \in Procs, q # p, InstanceAlone(q),
         Run(p) \/ Step(p) \/ Crash(p)
  PROVE  InstanceAlone(q)'
<1>1. pc'[q] = pc[q] /\ job'[q] = job[q]
  BY OthersKeep DEF IInv
<1>2. CASE pc[q] \notin Critical
  BY <1>1, <1>2 DEF InstanceAlone, SeenIsSo, Recognised, Critical, Attached
<1>3. CASE pc[q] \in Critical
  <2>1. pc[p] \notin Critical
    BY <1>3 DEF IInv, InstanceInv, MutexHeld
  <2>2. UNCHANGED <<explorer, live, prot, disk, losses>>
    <3>1. UNCHANGED <<explorer, prot, disk, losses>>
      BY <2>1, TouchesOwn DEF Critical, Attached, Writing
    <3>2. live' = live
      BY <2>1, BytesOwn DEF WWrite, At, Critical, Attached
    <3> QED BY <3>1, <3>2
  <2> QED
    BY <1>1, <2>2 DEF InstanceAlone, SeenIsSo, Recognised, ReportHolds, Target, Classify, Tainted
<1> QED BY <1>2, <1>3

\* Nor can the rest of the machine, other programs excepted: an Explorer that
\* starts is none that a handle is open on.
LEMMA EnvironmentAlone ==
  ASSUME IInv, LifeInv, AloneInv, Environment
  PROVE  AloneInv'
<1> SUFFICES ASSUME foreign' = 0, NEW p \in Procs PROVE InstanceAlone(p)'
  BY DEF AloneInv
<1>ty. TypeOK /\ InstanceInv(p) /\ ToReport(p) /\ Born(job[p].ctx) /\ job[p] \in Job
  BY DEF IInv, LifeInv, TypeOK
<1>1. pc'[p] = pc[p] /\ job'[p] = job[p]
  BY EnvironmentKeeps
<1>2. ~ForeignWrite /\ ~ForeignProtect /\ foreign = 0
  BY <1>ty DEF Environment, ForeignWrite, ForeignProtect, ExplorerExit, ExplorerStart, Servicing,
     StateLost, budget, TypeOK
<1>3. InstanceAlone(p)
  BY <1>2 DEF AloneInv
<1>4. CASE ExplorerExit \/ ExplorerStart
  <2>1. job[p].ctx \in Explorer => explorer' # job[p].ctx
    BY <1>4, <1>ty, TagAssumption DEF ExplorerExit, ExplorerStart, Born, Explorer, TypeOK
  <2>2. ~Tainted'
    BY <1>4 DEF ExplorerExit, ExplorerStart, Tainted
  <2>3. pc[p] \in Attached => explorer' # job[p].ctx
    BY <2>1, <1>ty DEF InstanceInv, OthersClean
  <2>4. SeenIsSo(p)' /\ Recognised(p)'
    <3>1. pc[p] = "delete" /\ job[p].result = "restored" => explorer' # job[p].ctx
      BY <2>1, <1>ty DEF ToReport
    <3>2. CASE explorer' # job[p].ctx
      BY <1>1, <1>3, <3>2 DEF InstanceAlone, SeenIsSo, Recognised
    <3>3. CASE explorer' = job[p].ctx
      BY <1>1, <2>3, <3>1, <3>3 DEF SeenIsSo, Recognised, Attached
    <3> QED BY <3>2, <3>3
  <2>5. pc[p] = "release" => ReportHolds(p)'
    <3>1. pc[p] = "release" /\ job[p].result \in {"applied", "verified", "adopted", "restored"}
            => explorer' # job[p].ctx
      BY <2>1, <1>ty DEF ToReport
    <3> QED BY <1>1, <2>2, <3>1 DEF ReportHolds
  <2> QED BY <1>1, <2>4, <2>5 DEF InstanceAlone
<1>5. CASE Servicing
  BY <1>1, <1>3, <1>5 DEF Servicing, memory, budget, InstanceAlone, SeenIsSo, Recognised, ReportHolds,
     Target, Classify, Tainted
<1>6. CASE StateLost
  <2>1. losses' # 0 /\ UNCHANGED <<explorer, live, prot>>
    BY <1>6, <1>ty DEF StateLost, TypeOK, shell, memory
  <2> QED
    BY <1>1, <1>3, <2>1 DEF InstanceAlone, SeenIsSo, Recognised, ReportHolds, Target, Classify
<1> QED BY <1>2, <1>4, <1>5, <1>6 DEF Environment

LEMMA AloneInvariance == Spec => []AloneInv
<1>1. Init => AloneInv
  BY DEF Init, AloneInv, InstanceAlone, SeenIsSo, Recognised
<1>2. ASSUME IInv, LifeInv, AloneInv, [Next]_vars PROVE AloneInv'
  <2>1. CASE UNCHANGED vars
    BY <1>2, <2>1 DEF vars, AloneInv, InstanceAlone, SeenIsSo, Recognised, ReportHolds, Target, Classify,
       Tainted
  <2>2. ASSUME NEW p \in Procs, Run(p) \/ Step(p) \/ Crash(p) PROVE AloneInv'
    <3> SUFFICES ASSUME foreign' = 0, NEW q \in Procs PROVE InstanceAlone(q)'
      BY DEF AloneInv
    <3>1. foreign = 0
      BY <1>2, <2>2, TouchesOwn
    <3>2. InstanceAlone(q)
      BY <1>2, <3>1 DEF AloneInv
    <3> QED BY <1>2, <2>2, <3>2, OwnAlone, BystanderAlone
  <2>3. CASE Environment
    BY <1>2, <2>3, EnvironmentAlone
  <2> QED BY <1>2, <2>1, <2>2, <2>3 DEF Next
<1> QED
  BY <1>1, <1>2, Invariance, LifeInvariance, PTL DEF Spec

\* What an instance reports on its way out is so, if the Explorer it worked on
\* still runs and no other program has interfered: for every length of patch,
\* whatever calls failed, instances were killed or files were lost on the way.
THEOREM ReportsAreTrue == Spec => []TruthfulReport
<1>1. AloneInv => TruthfulReport
  BY DEF AloneInv, InstanceAlone, TruthfulReport
<1> QED
  BY <1>1, AloneInvariance, PTL

\* Only another program's write, in the window between the reading and the
\* writing, can make Restore overwrite bytes that it does not recognise.
THEOREM OnlyRacesAreOverwritten ==
  Spec => [][\A p \in Procs :
               foreign = 0 /\ job[p].phase = "restore" /\ At(p, "w_write") /\ pc'[p] = "w_close"
                   /\ live' # live
                 => Classify(live, job[p].rec) # "unknown"]_vars
<1>1. ASSUME IInv, AloneInv, [Next]_vars, NEW p \in Procs, foreign = 0, job[p].phase = "restore",
             At(p, "w_write"), pc'[p] = "w_close", live' # live
      PROVE  Classify(live, job[p].rec) # "unknown"
  <2>1. ~Environment /\ ~UNCHANGED vars
    BY <1>1, EnvironmentKeeps DEF At, vars
  <2>2. PICK q \in Procs : Run(q) \/ Step(q) \/ Crash(q)
    BY <1>1, <2>1 DEF Next
  <2>3. p = q
    BY <1>1, <2>2, OthersKeep DEF IInv, At
  <2>4. explorer = job[p].ctx
    BY <1>1, <2>2, <2>3, BytesOwn DEF Reach
  <2> QED
    BY <1>1, <2>4 DEF At, AloneInv, InstanceAlone, Recognised
<1>2. IInv /\ AloneInv /\ [Next]_vars =>
        [\A p \in Procs :
           foreign = 0 /\ job[p].phase = "restore" /\ At(p, "w_write") /\ pc'[p] = "w_close"
               /\ live' # live
             => Classify(live, job[p].rec) # "unknown"]_vars
  BY <1>1
<1> QED
  BY <1>2, Invariance, AloneInvariance, PTL DEF Spec

------------------------------------------------------------------------------
(* A patch of one byte *)

\* Without another program the bytes in Explorer are the original or the patch:
\* a write of one byte cannot be torn.
WholeInv ==
  foreign = 0 =>
    /\ explorer # NoExplorer => live \in {Original[explorer.image], Patch}
    /\ \A p \in Procs :
         /\ pc[p] = "examine" => job[p].seen # "unknown"
         /\ pc[p] = "release" => job[p].result # "refused"

\* A torn write of one byte is none or a whole one.
LEMMA OneByte ==
  ASSUME PatchLength = 1, NEW f \in Code, NEW b \in Code, NEW k \in 0..1
  PROVE  Spliced(f, k, b) \in {f, b}
<1>1. CASE k = 0
  BY <1>1 DEF Spliced, Code
<1>2. CASE k = 1
  BY <1>2 DEF Spliced, Code
<1> QED BY <1>1, <1>2

\* A step of an instance leaves whole bytes, and refuses none.
LEMMA WholeStep ==
  ASSUME PatchLength = 1, IInv, LifeInv, WholeInv, NEW p \in Procs, Run(p) \/ Step(p) \/ Crash(p), foreign' = 0
  PROVE  WholeInv'
<1>ty. TypeOK /\ job[p] \in Job /\ InstanceInv(p) /\ ToReport(p)
  BY DEF IInv, LifeInv, TypeOK
<1>0. foreign = 0 /\ UNCHANGED explorer
  BY TouchesOwn
<1>1. explorer # NoExplorer => live' \in {Original[explorer.image], Patch}
  <2>1. CASE live' = live
    BY <1>0, <2>1 DEF WholeInv
  <2>2. CASE live' # live
    <3>1. WWrite(p) /\ explorer = job[p].ctx /\ pc[p] \in Writing /\ pc[p] \in Attached
      BY <2>2, BytesOwn DEF WWrite, At, Writing, Attached, Reach
    <3>2. SoundRecord(job[p].rec) /\ job[p].rec.image = explorer.image /\ explorer \in Explorer
      BY <1>ty, <3>1 DEF InstanceInv, RecordSound, RecordNames, OthersClean
    <3>3. Target(p) \in {Original[explorer.image], Patch} /\ Target(p) \in Code
      BY <3>2, CodeAssumption DEF Target, SoundRecord, Record
    <3>4. live' \in {Target(p), live}
      BY <1>ty, <3>1, <3>3, OneByte DEF WWrite, TypeOK
    <3> QED BY <2>2, <3>3, <3>4
  <2> QED BY <2>1, <2>2
<1>2. ASSUME NEW q \in Procs
      PROVE  /\ pc'[q] = "examine" => job'[q].seen # "unknown"
             /\ pc'[q] = "release" => job'[q].result # "refused"
  <2>1. CASE q # p
    BY <1>0, <1>2, <1>ty, <2>1, OthersKeep DEF WholeInv
  <2>2. CASE q = p
    <3> USE <1>ty, OwnEffect, FinishEffect DEF At
    <3>1. CASE Read(p)
      <4>1. CASE Finish(p, "failed")
        BY <2>2, <4>1
      <4>2. CASE Reach(p) /\ pc'[p] = "examine"
                 /\ job'[p] = [job[p] EXCEPT !.seen = Classify(live, job[p].rec)]
        <5>1. pc[p] \in Writing /\ pc[p] \in Attached
          BY <3>1 DEF Read, Writing, Attached
        <5>2. SoundRecord(job[p].rec) /\ job[p].rec.image = explorer.image /\ explorer # NoExplorer
          BY <4>2, <5>1 DEF InstanceInv, RecordSound, RecordNames, Reach
        <5>3. Classify(live, job[p].rec) # "unknown"
          BY <1>0, <5>2 DEF WholeInv, Classify, SoundRecord
        <5>4. job'[p].seen = Classify(live, job[p].rec)
          BY <4>2 DEF Job
        <5> QED BY <2>2, <4>2, <5>3, <5>4
      <4> QED BY <3>1, <4>1, <4>2 DEF Read
    <3>2. CASE Examine(p)
      BY <1>0, <2>2, <3>2 DEF Examine, ProtectionInOrder, WholeInv
    <3>3. CASE Delete(p)
      BY <2>2, <3>3 DEF Delete, ToReport
    <3>4. CASE Compare(p)
      BY <2>2, <3>4 DEF Compare, Job
    <3>5. CASE Query(p)
      BY <2>2, <3>5 DEF Query
    <3>6. CASE Run(p) \/ Acquire(p) \/ AcquireTimeout(p) \/ Release(p) \/ Crash(p)
      BY <2>2, <3>6 DEF Run, Acquire, AcquireTimeout, Release, Crash
    <3>7. CASE Load(p) \/ Find(p) \/ Attach(p) \/ Match(p) \/ Candidate(p)
      BY <2>2, <3>7 DEF Load, Find, Attach, Match, Candidate
    <3>8. CASE Adopt(p) \/ Readback(p) \/ Save(p) \/ Flush(p)
      BY <2>2, <3>8 DEF Adopt, Readback, Save, Flush
    <3>9. CASE WProtect(p) \/ WUndo(p) \/ WWrite(p) \/ WClose(p) \/ WCheck(p)
      BY <2>2, <3>9 DEF WProtect, WUndo, WWrite, WClose, WCheck, WriteFailed, WriteDone
    <3>10. CASE PSet(p) \/ PUndo(p) \/ PCheck(p)
      BY <2>2, <3>10 DEF PSet, PUndo, PCheck, ProtectionInOrder
    <3>11. CASE VBytes(p) \/ VProt(p)
      BY <2>2, <3>11 DEF VBytes, VProt, VerifyFailed, VerifyDone
    <3> QED
      BY <3>1, <3>2, <3>3, <3>4, <3>5, <3>6, <3>7, <3>8, <3>9, <3>10, <3>11 DEF Step
  <2> QED BY <2>1, <2>2
<1> QED BY <1>0, <1>1, <1>2 DEF WholeInv

LEMMA WholeInvariance == PatchLength = 1 /\ Spec => []WholeInv
<1> SUFFICES ASSUME PatchLength = 1 PROVE Spec => []WholeInv
  OBVIOUS
<1>1. Init => WholeInv
  BY DEF Init, WholeInv
<1>2. ASSUME IInv, LifeInv, WholeInv, [Next]_vars PROVE WholeInv'
  <2>ty. TypeOK
    BY <1>2 DEF IInv
  <2>1. CASE UNCHANGED vars
    BY <1>2, <2>1 DEF vars, WholeInv
  <2>2. ASSUME NEW p \in Procs, Run(p) \/ Step(p) \/ Crash(p) PROVE WholeInv'
    BY <1>2, <2>2, WholeStep DEF WholeInv
  <2>3. CASE Environment
    <3> SUFFICES ASSUME foreign' = 0 PROVE WholeInv'
      BY DEF WholeInv
    <3>1. UNCHANGED <<pc, job>>
      BY <2>3, EnvironmentKeeps
    <3>2. ~ForeignWrite /\ ~ForeignProtect /\ foreign = 0
      BY <2>3, <2>ty DEF Environment, ForeignWrite, ForeignProtect, ExplorerExit, ExplorerStart,
         Servicing, StateLost, budget, TypeOK
    <3>3. explorer' # NoExplorer => live' \in {Original[explorer'.image], Patch}
      BY <1>2, <2>3, <3>2 DEF WholeInv, Environment, ExplorerExit, ExplorerStart, Servicing, StateLost,
         memory, shell
    <3> QED BY <1>2, <3>1, <3>2, <3>3 DEF WholeInv
  <2> QED BY <1>2, <2>1, <2>2, <2>3 DEF Next
<1> QED
  BY <1>1, <1>2, Invariance, LifeInvariance, PTL DEF Spec

\* On x64, where the patch is one byte, Restore says that another program changed
\* the bytes only when one did.  (On ARM64 a torn Restore is refused as well.)
THEOREM RefusalsAreJust == PatchLength = 1 /\ Spec => []RefusalBlamesOthers
<1>ty. Spec => []TypeOK
  BY TypeCorrect
<1>1. WholeInv /\ TypeOK => RefusalBlamesOthers
  BY DEF WholeInv, RefusalBlamesOthers, TypeOK
<1> SUFFICES ASSUME PatchLength = 1 PROVE Spec => []RefusalBlamesOthers
  OBVIOUS
<1>2. Spec => []WholeInv
  BY WholeInvariance
<1> QED
  BY <1>ty, <1>1, <1>2, PTL

------------------------------------------------------------------------------
(* A patch of any length: what is refused, and what becomes of it *)

\* What the program itself can make of the original bytes: a write of the patch
\* and a write of the original over it, each possibly torn.
Mixtures(original) ==
  {Spliced(original, j, Spliced(Patch, k, original)) : j \in 0..PatchLength, k \in 0..PatchLength}

\* What Restore recognises (Classify).
Recognisable(original) ==
  {original, Patch} \cup {Spliced(Patch, cut, original) : cut \in 1..(PatchLength - 1)}

LEMMA RecognisableIsKnown ==
  \A bytes, rec : Classify(bytes, rec) = "unknown" <=> bytes \notin Recognisable(rec.original)
BY DEF Classify, Recognisable

\* A mixture that is not recognised has bytes of a Restore in front of bytes of
\* the patch.
LEMMA UnknownIsTorn ==
  ASSUME NEW original \in Code, NEW bytes \in Mixtures(original), bytes \notin Recognisable(original)
  PROVE  \E restored \in 1..(PatchLength - 1) : \E patched \in (restored + 1)..PatchLength :
           bytes = Spliced(original, restored, Spliced(Patch, patched, original))
<1>1. PICK j \in 0..PatchLength, k \in 0..PatchLength :
        bytes = Spliced(original, j, Spliced(Patch, k, original))
  BY DEF Mixtures
<1>2. PatchLength \in Nat /\ Patch \in Code
  BY CodeAssumption
<1>3. j >= k => bytes = original
  BY <1>1, <1>2 DEF Spliced, Code
<1>4. j = 0 => bytes = Spliced(Patch, k, original)
  BY <1>1, <1>2 DEF Spliced, Code
<1>5. k = PatchLength => Spliced(Patch, k, original) = Patch
  BY <1>2 DEF Spliced, Code
<1>6. j < k /\ j # 0
  <2>1. j < k
    BY <1>2, <1>3 DEF Recognisable
  <2>2. CASE j = 0
    <3>1. k \in 1..(PatchLength - 1) \/ k = PatchLength
      BY <1>2, <2>1, <2>2
    <3> QED BY <1>4, <1>5, <2>2, <3>1 DEF Recognisable
  <2> QED BY <2>1, <2>2
<1>7. j \in 1..(PatchLength - 1) /\ k \in (j + 1)..PatchLength
  BY <1>2, <1>6
<1> QED BY <1>1, <1>7

\* Mixtures are all that writes make of mixtures.
LEMMA MixturesClosed ==
  ASSUME NEW original \in Code, NEW i \in 0..PatchLength
  PROVE  /\ original \in Mixtures(original) /\ Patch \in Mixtures(original)
         /\ Spliced(Patch, i, original) \in Mixtures(original)
         /\ \A bytes \in Mixtures(original) : Spliced(original, i, bytes) \in Mixtures(original)
<1>1. PatchLength \in Nat /\ Patch \in Code
  BY CodeAssumption
<1>2. \A k \in 0..PatchLength : Spliced(Patch, k, original) \in Mixtures(original)
  <2> TAKE k \in 0..PatchLength
  <2>1. Spliced(original, 0, Spliced(Patch, k, original)) = Spliced(Patch, k, original)
    BY <1>1 DEF Spliced, Code
  <2>2. 0 \in 0..PatchLength
    BY <1>1
  <2> QED BY <2>1, <2>2 DEF Mixtures
<1>3. Spliced(Patch, 0, original) = original /\ Spliced(Patch, PatchLength, original) = Patch
  BY <1>1 DEF Spliced, Code
<1>4. ASSUME NEW bytes \in Mixtures(original) PROVE Spliced(original, i, bytes) \in Mixtures(original)
  <2>1. PICK j \in 0..PatchLength, k \in 0..PatchLength :
          bytes = Spliced(original, j, Spliced(Patch, k, original))
    BY DEF Mixtures
  <2>2. CASE i <= j
    <3>1. Spliced(original, i, bytes) = bytes
      BY <1>1, <2>1, <2>2 DEF Spliced
    <3> QED BY <3>1
  <2>3. CASE i > j
    <3>1. Spliced(original, i, bytes) = Spliced(original, i, Spliced(Patch, k, original))
      BY <1>1, <2>1, <2>3 DEF Spliced
    <3> QED BY <3>1 DEF Mixtures
  <2> QED BY <2>2, <2>3
<1>5. 0 \in 0..PatchLength /\ PatchLength \in 0..PatchLength
  BY <1>1
<1> QED BY <1>2, <1>3, <1>4, <1>5

\* Apply writes in its own phase only; the others look before they write.
WriteFits(p) ==
  /\ pc[p] \in {"w_protect", "w_write"} => job[p].phase # "repair"
  /\ pc[p] = "compare" => job[p].op = "restore"
  /\ pc[p] \in {"read", "examine", "p_set", "p_check"} => job[p].phase # "apply"

\* Apply writes over the original bytes.
FreshApply(p) ==
  job[p].phase = "apply" /\ pc[p] \in {"save", "w_protect", "w_write"} /\ explorer = job[p].ctx
    => live = job[p].rec.original

\* What is refused of an Explorer that still runs is a torn Restore.
TornFound(p) ==
  explorer = job[p].ctx /\ explorer # NoExplorer =>
    /\ pc[p] = "examine" /\ job[p].seen = "unknown" => TornRestore
    /\ pc[p] = "release" /\ job[p].result = "refused" => TornRestore

TornInv ==
  /\ \A p \in Procs : WriteFits(p)
  /\ foreign = 0 =>
       /\ explorer # NoExplorer => live \in Mixtures(Original[explorer.image])
       /\ \A p \in Procs : FreshApply(p) /\ TornFound(p)

\* The protection found is noted; nothing else of the local variables changes.
LEMMA NotedEffect ==
  ASSUME TypeOK, NEW p \in Procs, Local(p, [job[p] EXCEPT !.old = prot, !.err = FALSE])
  PROVE  job'[p].phase = job[p].phase /\ job'[p].ctx = job[p].ctx /\ job'[p].rec = job[p].rec
<1>1. job[p] \in Job /\ job'[p] = [job[p] EXCEPT !.old = prot, !.err = FALSE]
  BY DEF Local, TypeOK
<1> QED BY <1>1 DEF Job

\* Each phase writes where it belongs.
LEMMA WriteFitsStep ==
  ASSUME IInv, LifeInv, NEW p \in Procs, WriteFits(p), Run(p) \/ Step(p) \/ Crash(p)
  PROVE  WriteFits(p)'
<1>ty. TypeOK /\ job[p] \in Job /\ PhaseFits(p)
  BY DEF IInv, LifeInv, TypeOK
<1>quiet. ASSUME pc'[p] \notin {"compare", "read", "examine", "p_set", "p_check", "w_protect", "w_write"}
          PROVE  WriteFits(p)'
  BY <1>quiet DEF WriteFits
<1> USE <1>ty, <1>quiet, OwnEffect, FinishEffect DEF At
<1>1. CASE Run(p) \/ Acquire(p) \/ AcquireTimeout(p) \/ Release(p) \/ Crash(p)
  BY <1>1 DEF Run, Acquire, AcquireTimeout, Release, Crash
<1>2. CASE Load(p) \/ Find(p) \/ Match(p) \/ Candidate(p) \/ Query(p) \/ Flush(p) \/ Delete(p)
  BY <1>2 DEF Load, Find, Match, Candidate, Query, Flush, Delete
<1>3. CASE Attach(p)
  <2>1. pc'[p] = "compare" => job[p].op = "restore" /\ job'[p].op = job[p].op
    BY <1>3 DEF Attach, Job
  <2> QED BY <1>3, <2>1 DEF Attach, WriteFits
<1>4. CASE Adopt(p)
  <2>1. pc'[p] \in {"save", "release", "v_bytes"} \/ (pc'[p] = "p_set" /\ job'[p].phase = "repair")
    BY <1>4 DEF Adopt, Job
  <2> QED BY <2>1 DEF WriteFits
<1>5. CASE Readback(p)
  BY <1>5 DEF Readback
<1>6. CASE Save(p)
  BY <1>6 DEF Save, WriteFits, PhaseFits
<1>7. CASE Compare(p)
  BY <1>7 DEF Compare, WriteFits, PhaseFits
<1>8. CASE Read(p)
  <2>1. pc'[p] = "release" \/ (pc'[p] = "examine" /\ job'[p].phase = job[p].phase)
    BY <1>8 DEF Read, Job
  <2> QED BY <1>8, <2>1 DEF Read, WriteFits
<1>9. CASE Examine(p)
  <2>1. \/ pc'[p] = "release"
        \/ ProtectionInOrder(p)
        \/ pc'[p] = "p_set" /\ job'[p].phase = job[p].phase
    BY <1>9 DEF Examine, Job
  <2> QED BY <1>9, <2>1 DEF Examine, ProtectionInOrder, WriteFits
<1>10. CASE PCheck(p)
  BY <1>10 DEF PCheck, ProtectionInOrder, WriteFits
<1>11. CASE PSet(p)
  <2>1. pc'[p] \in {"release", "p_undo"} \/ (pc'[p] = "p_check" /\ job'[p].phase = job[p].phase)
    BY <1>11 DEF PSet, Job
  <2> QED BY <1>11, <2>1 DEF PSet, WriteFits
<1>12. CASE PUndo(p)
  BY <1>12 DEF PUndo
<1>back. ASSUME WriteFailed(p) \/ VerifyFailed(p) PROVE WriteFits(p)'
  <2>1. pc'[p] = "release" \/ (pc'[p] = "read" /\ job'[p].phase = "rollback")
    BY <1>back DEF WriteFailed, VerifyFailed, Job
  <2> QED BY <2>1 DEF WriteFits
<1>13. CASE WProtect(p)
  <2>1. \/ WriteFailed(p)
        \/ /\ Goto(p, IF prot = job[p].rec.prot THEN "w_write" ELSE "w_undo")
           /\ Local(p, [job[p] EXCEPT !.old = prot, !.err = FALSE])
    BY <1>13 DEF WProtect
  <2>2. Local(p, [job[p] EXCEPT !.old = prot, !.err = FALSE]) => job'[p].phase = job[p].phase
    BY NotedEffect
  <2>3. WriteFailed(p) \/ (pc'[p] \in {"w_write", "w_undo"} /\ job'[p].phase = job[p].phase)
    BY <2>1, <2>2
  <2> QED BY <1>13, <1>back, <2>3 DEF WProtect, WriteFits
<1>14. CASE WUndo(p) \/ WWrite(p) \/ WClose(p)
  BY <1>14, <1>back DEF WUndo, WWrite, WClose
<1>15. CASE WCheck(p)
  BY <1>15, <1>back DEF WCheck, WriteDone
<1>16. CASE VBytes(p)
  BY <1>16, <1>back DEF VBytes
<1>17. CASE VProt(p)
  BY <1>17, <1>back DEF VProt, VerifyDone
<1> QED
  BY <1>1, <1>2, <1>3, <1>4, <1>5, <1>6, <1>7, <1>8, <1>9, <1>10, <1>11, <1>12, <1>13, <1>14, <1>15, <1>16,
     <1>17 DEF Step

\* Every write of the program's own makes a mixture of a mixture.
LEMMA MixtureKept ==
  ASSUME IInv, LifeInv, TornInv, NEW p \in Procs, Run(p) \/ Step(p) \/ Crash(p), foreign = 0
  PROVE  explorer # NoExplorer => live' \in Mixtures(Original[explorer.image])
<1>ty. TypeOK /\ job[p] \in Job /\ InstanceInv(p) /\ PatchLength \in Nat /\ Patch \in Code
  BY CodeAssumption DEF IInv, TypeOK
<1>1. CASE live' = live
  BY <1>1 DEF TornInv
<1>2. CASE live' # live
  <2> DEFINE original == Original[explorer.image]
  <2>1. WWrite(p) /\ explorer = job[p].ctx /\ explorer # NoExplorer
        /\ pc[p] = "w_write" /\ pc[p] \in Writing /\ pc[p] \in Attached
    BY <1>2, BytesOwn DEF WWrite, At, Writing, Attached, Reach
  <2>2. SoundRecord(job[p].rec) /\ job[p].rec.image = explorer.image /\ explorer \in Explorer
    BY <1>ty, <2>1 DEF InstanceInv, RecordSound, RecordNames, OthersClean
  <2>3. job[p].rec.original = original /\ original \in Code
    BY <2>2, CodeAssumption DEF SoundRecord, Record
  <2>4. live \in Mixtures(original)
    BY <2>1 DEF TornInv
  <2>5. live' = Target(p) \/ \E k \in 0..PatchLength : live' = Spliced(Target(p), k, live)
    BY <1>2, <2>1 DEF WWrite
  <2>6. PatchLength \in 0..PatchLength
    BY <1>ty
  <2>7. CASE job[p].phase = "apply"
    <3>1. Target(p) = Patch /\ live = original
      BY <2>1, <2>3, <2>7 DEF Target, TornInv, FreshApply
    <3> QED BY <2>3, <2>5, <2>6, <3>1, MixturesClosed
  <2>8. CASE job[p].phase # "apply"
    <3>1. Target(p) = original
      BY <2>1, <2>3, <2>8 DEF Target, TornInv, WriteFits
    <3> QED BY <2>3, <2>4, <2>5, <2>6, <3>1, MixturesClosed
  <2> QED BY <2>7, <2>8
<1> QED BY <1>1, <1>2

\* What an instance is about to write over, and what it refuses.
LEMMA OwnTorn ==
  ASSUME IInv, LifeInv, TornInv, NEW p \in Procs, Run(p) \/ Step(p) \/ Crash(p), foreign = 0
  PROVE  FreshApply(p)' /\ TornFound(p)'
<1>ty. TypeOK /\ job[p] \in Job /\ InstanceInv(p) /\ PhaseFits(p) /\ ToReport(p)
       /\ WriteFits(p) /\ FreshApply(p) /\ TornFound(p)
  BY DEF IInv, LifeInv, TypeOK, TornInv
<1>quiet. ASSUME pc'[p] \notin {"save", "examine", "w_protect", "w_write", "release"}
          PROVE  FreshApply(p)' /\ TornFound(p)'
  BY <1>quiet DEF FreshApply, TornFound
<1>silent. ASSUME pc'[p] = "release", job'[p].result # "refused"
           PROVE  FreshApply(p)' /\ TornFound(p)'
  BY <1>silent DEF FreshApply, TornFound
<1>other. ASSUME pc'[p] \in {"w_protect", "w_write"}, job'[p].phase # "apply"
          PROVE  FreshApply(p)' /\ TornFound(p)'
  BY <1>other DEF FreshApply, TornFound
<1>same. UNCHANGED explorer
  BY BytesOwn
<1> USE <1>ty, <1>quiet, <1>silent, OwnEffect, FinishEffect DEF At
<1>1. CASE Run(p) \/ Acquire(p) \/ AcquireTimeout(p) \/ Release(p) \/ Crash(p)
  BY <1>1 DEF Run, Acquire, AcquireTimeout, Release, Crash
<1>2. CASE Load(p) \/ Find(p) \/ Attach(p) \/ Match(p) \/ Candidate(p)
  BY <1>2 DEF Load, Find, Attach, Match, Candidate
<1>3. CASE Query(p)
  BY <1>3 DEF Query
<1>4. CASE Adopt(p)
  <2>1. pc'[p] \in {"p_set", "v_bytes"} \/ Finish(p, "failed")
        \/ (pc'[p] = "save" /\ job'[p].phase = "adopt")
    BY <1>4 DEF Adopt, Job
  <2> QED BY <2>1 DEF FreshApply, TornFound
<1>5. CASE Readback(p)
  <2>1. Finish(p, "failed") \/ (pc'[p] = "save" /\ live = job[p].rec.original /\ job'[p] = job[p]
                                /\ live' = live)
    BY <1>5 DEF Readback, memory
  <2> QED BY <2>1 DEF FreshApply, TornFound
<1>6. CASE Save(p)
  <2>1. Finish(p, "failed") \/ Finish(p, "adopted")
        \/ (pc'[p] = "w_protect" /\ pc[p] = "save" /\ job'[p] = job[p] /\ live' = live)
    BY <1>6 DEF Save, memory
  <2> QED BY <2>1, <1>same DEF FreshApply, TornFound
<1>7. CASE Compare(p)
  BY <1>7 DEF Compare, Job
<1>8. CASE Read(p)
  <2>1. CASE Finish(p, "failed")
    BY <2>1
  <2>2. CASE Reach(p) /\ pc'[p] = "examine"
             /\ job'[p] = [job[p] EXCEPT !.seen = Classify(live, job[p].rec)]
    <3>1. pc[p] \in Writing /\ pc[p] \in Attached /\ live' = live
      BY <1>8 DEF Read, Writing, Attached, memory
    <3>2. SoundRecord(job[p].rec) /\ job[p].rec.image = explorer.image /\ explorer \in Explorer
      BY <2>2, <3>1 DEF InstanceInv, RecordSound, RecordNames, OthersClean, Reach
    <3>3. job[p].rec.original = Original[explorer.image] /\ Original[explorer.image] \in Code
      BY <3>2, CodeAssumption DEF SoundRecord, Record
    <3>4. live \in Mixtures(Original[explorer.image])
      BY <2>2 DEF TornInv, Reach
    <3>5. Classify(live, job[p].rec) = "unknown" => TornRestore
      BY <2>2, <3>3, <3>4, RecognisableIsKnown, UnknownIsTorn DEF TornRestore, Reach
    <3>6. TornRestore => TornRestore'
      BY <1>same, <3>1 DEF TornRestore
    <3>7. job'[p].seen = Classify(live, job[p].rec)
      BY <2>2 DEF Job
    <3> QED BY <2>2, <3>5, <3>6, <3>7 DEF FreshApply, TornFound
  <2> QED BY <1>8, <2>1, <2>2 DEF Read
<1>9. CASE Examine(p)
  <2>1. live' = live
    BY <1>9 DEF Examine, memory
  <2>2. \/ Finish(p, "failed") \/ Finish(p, "passed") \/ pc'[p] \in {"p_set", "v_bytes", "flush"}
        \/ pc'[p] = "w_protect" /\ job'[p] = job[p]
        \/ Finish(p, "refused") /\ job[p].seen = "unknown" /\ Reach(p)
    BY <1>9 DEF Examine, ProtectionInOrder
  <2>3. CASE pc'[p] = "w_protect" /\ job'[p] = job[p]
    BY <1>9, <1>other, <2>3 DEF Examine, WriteFits
  <2>4. CASE Finish(p, "refused") /\ job[p].seen = "unknown" /\ Reach(p)
    <3>1. TornRestore
      BY <1>9, <2>4 DEF Examine, TornFound, Reach
    <3>2. TornRestore'
      BY <1>same, <2>1, <3>1 DEF TornRestore
    <3> QED BY <2>4, <3>2 DEF FreshApply, TornFound
  <2> QED BY <2>2, <2>3, <2>4
<1>10. CASE PCheck(p)
  <2>1. \/ Finish(p, "failed") \/ Finish(p, "passed") \/ pc'[p] \in {"v_bytes", "flush"}
        \/ pc'[p] = "w_protect" /\ job'[p] = job[p]
    BY <1>10 DEF PCheck, ProtectionInOrder
  <2> QED BY <1>10, <1>other, <2>1 DEF PCheck, WriteFits
<1>11. CASE Delete(p)
  BY <1>11 DEF Delete, ToReport
<1>12. CASE WProtect(p)
  <2>1. \/ WriteFailed(p)
        \/ /\ Goto(p, IF prot = job[p].rec.prot THEN "w_write" ELSE "w_undo")
           /\ Local(p, [job[p] EXCEPT !.old = prot, !.err = FALSE])
    BY <1>12 DEF WProtect
  <2>2. Local(p, [job[p] EXCEPT !.old = prot, !.err = FALSE])
          => job'[p].phase = job[p].phase /\ job'[p].ctx = job[p].ctx /\ job'[p].rec = job[p].rec
    BY NotedEffect
  <2>3. CASE WriteFailed(p)
    BY <2>3 DEF WriteFailed
  <2>4. CASE pc'[p] \in {"w_write", "w_undo"} /\ job'[p].phase = job[p].phase
             /\ job'[p].ctx = job[p].ctx /\ job'[p].rec = job[p].rec
    <3>1. live' = live /\ pc[p] = "w_protect"
      BY <1>12 DEF WProtect
    <3> QED BY <1>same, <2>4, <3>1 DEF FreshApply, TornFound
  <2> QED BY <2>1, <2>2, <2>3, <2>4
<1>13. CASE WUndo(p) \/ WWrite(p) \/ WClose(p) \/ WCheck(p)
  BY <1>13 DEF WUndo, WWrite, WClose, WCheck, WriteFailed, WriteDone
<1>14. CASE PSet(p) \/ PUndo(p) \/ Flush(p)
  BY <1>14 DEF PSet, PUndo, Flush
<1>15. CASE VBytes(p) \/ VProt(p)
  BY <1>15 DEF VBytes, VProt, VerifyFailed, VerifyDone
<1> QED
  BY <1>1, <1>2, <1>3, <1>4, <1>5, <1>6, <1>7, <1>8, <1>9, <1>10, <1>11, <1>12, <1>13, <1>14, <1>15 DEF Step

LEMMA BystanderTorn ==
  ASSUME IInv, NEW p \in Procs, NEW q \in Procs, q # p, FreshApply(q), TornFound(q),
         Run(p) \/ Step(p) \/ Crash(p)
  PROVE  FreshApply(q)' /\ TornFound(q)'
<1>1. pc'[q] = pc[q] /\ job'[q] = job[q]
  BY OthersKeep DEF IInv
<1>2. CASE pc[q] \notin Critical
  BY <1>1, <1>2 DEF FreshApply, TornFound, Critical, Attached
<1>3. CASE pc[q] \in Critical
  <2>1. pc[p] \notin Critical
    BY <1>3 DEF IInv, InstanceInv, MutexHeld
  <2>2. UNCHANGED <<explorer, live>>
    BY <2>1, BytesOwn DEF WWrite, At, Critical, Attached
  <2>3. TornRestore => TornRestore'
    BY <2>2 DEF TornRestore
  <2> QED BY <1>1, <2>2, <2>3 DEF FreshApply, TornFound
<1> QED BY <1>2, <1>3

\* An Explorer that starts has its own bytes.
LEMMA EnvironmentMixture ==
  ASSUME IInv, TornInv, Environment, foreign' = 0
  PROVE  /\ foreign = 0
         /\ explorer' # NoExplorer => live' \in Mixtures(Original[explorer'.image])
<1>ty. TypeOK
  BY DEF IInv
<1>1. ~ForeignWrite /\ ~ForeignProtect /\ foreign = 0
  BY <1>ty DEF Environment, ForeignWrite, ForeignProtect, ExplorerExit, ExplorerStart, Servicing,
     StateLost, budget, TypeOK
<1>2. CASE ExplorerStart
  <2>1. live' = Original[explorer'.image] /\ Original[explorer'.image] \in Code /\ 0 \in 0..PatchLength
    BY <1>2, <1>ty, CodeAssumption DEF ExplorerStart, TypeOK
  <2> QED BY <1>1, <2>1, MixturesClosed
<1>3. CASE ExplorerExit \/ Servicing \/ StateLost
  BY <1>1, <1>3 DEF ExplorerExit, Servicing, StateLost, memory, shell, TornInv
<1> QED BY <1>1, <1>2, <1>3 DEF Environment

\* No handle is open on it.
LEMMA EnvironmentTorn ==
  ASSUME IInv, LifeInv, TornInv, Environment, foreign' = 0, NEW p \in Procs
  PROVE  FreshApply(p)' /\ TornFound(p)'
<1>ty. TypeOK /\ InstanceInv(p) /\ Born(job[p].ctx) /\ job[p] \in Job
  BY DEF IInv, LifeInv, TypeOK
<1>1. pc'[p] = pc[p] /\ job'[p] = job[p]
  BY EnvironmentKeeps
<1>2. ~ForeignWrite /\ ~ForeignProtect /\ foreign = 0
  BY EnvironmentMixture DEF Environment, ForeignWrite, ForeignProtect, TypeOK, IInv
<1>3. CASE ExplorerExit
  BY <1>1, <1>3, <1>ty, TagAssumption DEF ExplorerExit, FreshApply, TornFound, InstanceInv, OthersClean,
     Attached
<1>4. CASE ExplorerStart
  <2>1. explorer' # job[p].ctx
    BY <1>4, <1>ty, TagAssumption DEF ExplorerStart, Born, Explorer, TypeOK
  <2> QED BY <1>1, <2>1 DEF FreshApply, TornFound
<1>5. CASE Servicing \/ StateLost
  <2>1. UNCHANGED <<explorer, live>>
    BY <1>5 DEF Servicing, StateLost, memory, shell
  <2>2. TornRestore => TornRestore'
    BY <2>1 DEF TornRestore
  <2> QED BY <1>1, <1>2, <2>1, <2>2 DEF TornInv, FreshApply, TornFound
<1> QED BY <1>2, <1>3, <1>4, <1>5 DEF Environment

LEMMA TornInvariance == Spec => []TornInv
<1>1. ASSUME Init PROVE TornInv
  <2>1. \A p \in Procs : WriteFits(p) /\ FreshApply(p) /\ TornFound(p)
    BY <1>1 DEF Init, WriteFits, FreshApply, TornFound
  <2>2. live \in Mixtures(Original[explorer.image])
    <3>1. 0 \in 0..PatchLength /\ Original[diskImage] \in Code /\ explorer.image = diskImage
      BY <1>1, CodeAssumption DEF Init
    <3> QED BY <1>1, <3>1, MixturesClosed DEF Init
  <2> QED BY <2>1, <2>2 DEF TornInv
<1>2. ASSUME IInv, LifeInv, TornInv, [Next]_vars PROVE TornInv'
  <2>1. CASE UNCHANGED vars
    <3>1. TornRestore' <=> TornRestore
      BY <2>1 DEF vars, shell, memory, TornRestore
    <3> QED
      BY <1>2, <2>1, <3>1 DEF vars, shell, memory, budget, TornInv, WriteFits, FreshApply, TornFound
  <2>2. ASSUME NEW p \in Procs, Run(p) \/ Step(p) \/ Crash(p) PROVE TornInv'
    <3>1. UNCHANGED <<explorer, foreign>>
      BY <1>2, <2>2, TouchesOwn
    <3>2. ASSUME NEW q \in Procs PROVE WriteFits(q)'
      <4>1. CASE q = p
        BY <1>2, <2>2, <4>1, WriteFitsStep DEF TornInv
      <4>2. CASE q # p
        <5>1. pc'[q] = pc[q] /\ job'[q] = job[q]
          BY <1>2, <2>2, <3>2, <4>2, OthersKeep DEF IInv
        <5> QED BY <1>2, <5>1 DEF TornInv, WriteFits
      <4> QED BY <4>1, <4>2
    <3>3. ASSUME foreign = 0, NEW q \in Procs PROVE FreshApply(q)' /\ TornFound(q)'
      BY <1>2, <2>2, <3>3, OwnTorn, BystanderTorn DEF TornInv
    <3>4. foreign = 0 /\ explorer # NoExplorer => live' \in Mixtures(Original[explorer.image])
      BY <1>2, <2>2, MixtureKept
    <3> QED BY <3>1, <3>2, <3>3, <3>4 DEF TornInv
  <2>3. CASE Environment
    <3>1. \A p \in Procs : WriteFits(p)'
      BY <1>2, <2>3, EnvironmentKeeps DEF TornInv, WriteFits
    <3>2. foreign' = 0 => \A p \in Procs : FreshApply(p)' /\ TornFound(p)'
      BY <1>2, <2>3, EnvironmentTorn
    <3>3. foreign' = 0 /\ explorer' # NoExplorer => live' \in Mixtures(Original[explorer'.image])
      BY <1>2, <2>3, EnvironmentMixture
    <3> QED BY <3>1, <3>2, <3>3 DEF TornInv
  <2> QED BY <1>2, <2>1, <2>2, <2>3 DEF Next
<1> QED
  BY <1>1, <1>2, Invariance, LifeInvariance, PTL DEF Spec

\* Restore tells "another program changed the target bytes" of a running Explorer
\* that no other program has written to in one case only, for every length of
\* patch: an earlier Restore, or rollback, was torn.  (Finding 1 is that case.)
THEOREM RefusalsAreTorn ==
  Spec => [](\A p \in Procs :
               pc[p] = "release" /\ job[p].result = "refused" /\ Reach(p)
                 => TornRestore \/ foreign > 0)
<1>1. TypeOK /\ TornInv =>
        \A p \in Procs : pc[p] = "release" /\ job[p].result = "refused" /\ Reach(p)
                           => TornRestore \/ foreign > 0
  BY DEF TypeOK, TornInv, TornFound, Reach
<1> QED
  BY <1>1, TypeCorrect, TornInvariance, PTL

------------------------------------------------------------------------------
(* Bytes that are not recognised stay *)

Unknown == explorer # NoExplorer /\ live \notin Recognisable(Original[explorer.image])

\* Labels from which an instance looks at the bytes before it writes any.
Looking == {"idle", "acquire", "load", "find", "attach", "match", "candidate", "compare", "read",
            "delete", "release"}

\* No instance has seen this Explorer with other bytes.
Stuck ==
  /\ Unknown
  /\ \A p \in Procs : explorer = job[p].ctx =>
       pc[p] \in Looking \/ (pc[p] = "examine" /\ job[p].seen = "unknown")

\* A step of the instance itself leaves it looking.
LEMMA LookingStep ==
  ASSUME IInv, Stuck, NEW p \in Procs, Run(p) \/ Step(p) \/ Crash(p)
  PROVE  explorer = job'[p].ctx => pc'[p] \in Looking \/ (pc'[p] = "examine" /\ job'[p].seen = "unknown")
<1>ty. TypeOK /\ job[p] \in Job /\ InstanceInv(p)
  BY DEF IInv, TypeOK
<1> DEFINE Looks == explorer = job'[p].ctx =>
             pc'[p] \in Looking \/ (pc'[p] = "examine" /\ job'[p].seen = "unknown")
<1>quiet. pc'[p] \in Looking => Looks
  OBVIOUS
<1>out. /\ \A o : Finish(p, o) => pc'[p] \in Looking
        /\ \A l \in Looking : Goto(p, l) => pc'[p] \in Looking
  BY <1>ty, OwnEffect DEF Looking
<1>far. explorer # job[p].ctx /\ job'[p].ctx = job[p].ctx => Looks
  OBVIOUS
<1>1. CASE pc'[p] \in Looking
  BY <1>1
<1>2. CASE pc'[p] \notin Looking /\ explorer = job[p].ctx
  <2>1. Candidate(p) \/ Read(p) \/ Examine(p)
    <3>1. pc[p] \in Looking \cup {"examine"}
      BY <1>2 DEF Stuck
    <3>2. ~Run(p) /\ ~Acquire(p) /\ ~AcquireTimeout(p) /\ ~Load(p) /\ ~Find(p) /\ ~Attach(p)
      BY <1>ty, <1>2, OwnEffect DEF Run, Acquire, AcquireTimeout, Load, Find, Attach, Finish, Looking
    <3>3. ~Match(p) /\ ~Compare(p) /\ ~Delete(p) /\ ~Release(p) /\ ~Crash(p)
      BY <1>ty, <1>2, OwnEffect DEF Match, Compare, Delete, Release, Crash, Finish, Looking
    <3>4. ~Query(p) /\ ~Adopt(p) /\ ~Readback(p) /\ ~Save(p) /\ ~Flush(p)
      BY <3>1 DEF Query, Adopt, Readback, Save, Flush, At, Looking
    <3>5. ~WProtect(p) /\ ~WUndo(p) /\ ~WWrite(p) /\ ~WClose(p) /\ ~WCheck(p)
      BY <3>1 DEF WProtect, WUndo, WWrite, WClose, WCheck, At, Looking
    <3>6. ~PSet(p) /\ ~PUndo(p) /\ ~PCheck(p) /\ ~VBytes(p) /\ ~VProt(p)
      BY <3>1 DEF PSet, PUndo, PCheck, VBytes, VProt, At, Looking
    <3> QED BY <3>2, <3>3, <3>4, <3>5, <3>6 DEF Step
  <2>2. CASE Candidate(p)
    <3>1. job[p].file = job[p].ctx.image
      BY <1>ty, <2>2 DEF Candidate, At, InstanceInv, FileMatches
    <3> QED
      BY <1>2, <1>out, <2>2, <3>1 DEF Candidate, Stuck, Unknown, Recognisable
  <2>3. CASE Read(p)
    <3>1. Reach(p) /\ Goto(p, "examine") /\ Local(p, [job[p] EXCEPT !.seen = Classify(live, job[p].rec)])
      BY <1>2, <1>out, <2>3 DEF Read
    <3>2. pc[p] \in Writing
      BY <2>3 DEF Read, At, Writing
    <3>3. job[p].rec.original = Original[explorer.image]
      BY <1>ty, <1>2, <3>2 DEF InstanceInv, RecordSound, RecordNames, SoundRecord
    <3>4. Classify(live, job[p].rec) = "unknown"
      BY <3>3, RecognisableIsKnown DEF Stuck, Unknown
    <3>5. pc'[p] = "examine" /\ job'[p].seen = Classify(live, job[p].rec)
      BY <1>ty, <3>1, OwnEffect DEF Job
    <3> QED BY <3>4, <3>5
  <2>4. CASE Examine(p)
    <3>1. job[p].seen = "unknown"
      BY <1>2, <2>4 DEF Examine, At, Stuck, Looking
    <3> QED BY <1>2, <1>out, <2>4, <3>1 DEF Examine
  <2> QED BY <2>1, <2>2, <2>3, <2>4
<1>3. CASE pc'[p] \notin Looking /\ explorer # job[p].ctx
  <2>1. ~Attach(p) /\ ~Run(p) /\ ~AcquireTimeout(p) /\ ~Release(p) /\ ~Crash(p)
    BY <1>ty, <1>3, OwnEffect DEF Attach, Run, AcquireTimeout, Release, Crash, Finish, Looking
  <2>2. pc'[p] \in Attached
    <3>1. TypeOK'
      BY StepInv DEF Next, IInv
    <3> QED BY <1>3, <3>1 DEF TypeOK, Labels, Critical, Attached, Looking
  <2>3. pc[p] = "attach" => Attach(p)
    BY <2>1 DEF Step, Run, Acquire, AcquireTimeout, Load, Find, Match, Candidate, Query, Adopt, Readback,
       Save, Compare, Read, Examine, Flush, Delete, Release, WProtect, WUndo, WWrite, WClose, WCheck,
       PSet, PUndo, PCheck, VBytes, VProt, At
  <2>4. job'[p].ctx = job[p].ctx
    BY <2>1, <2>2, <2>3, TouchesOwn
  <2> QED BY <1>3, <2>4
<1> QED BY <1>1, <1>2, <1>3

\* Nothing the program does, however often it is run, changes bytes that it does
\* not recognise: an Explorer found in that state with the mutex free stays in
\* it until it exits or another program writes to it.  With RefusalsAreTorn this
\* is all of finding 1: a torn Restore is never undone.
THEOREM UnknownStays ==
  Spec => /\ [](Unknown /\ owner = NoProc => Stuck)
          /\ [][Stuck /\ explorer' = explorer /\ ~ForeignWrite => live' = live /\ Stuck']_vars
<1>1. IInv /\ Unknown /\ owner = NoProc => Stuck
  BY BoundAssumption DEF IInv, InstanceInv, MutexHeld, TypeOK, Labels, Critical, Stuck, Looking
<1>2. ASSUME IInv, [Next]_vars, Stuck, explorer' = explorer, ~ForeignWrite
      PROVE  live' = live /\ Stuck'
  <2>1. CASE UNCHANGED vars
    BY <1>2, <2>1 DEF vars, shell, memory, Stuck, Unknown
  <2>2. ASSUME NEW p \in Procs, Run(p) \/ Step(p) \/ Crash(p) PROVE live' = live /\ Stuck'
    <3>1. live' = live
      BY <1>2, <2>2, BytesOwn DEF WWrite, At, Reach, Stuck, Looking
    <3>2. ASSUME NEW q \in Procs, q # p PROVE pc'[q] = pc[q] /\ job'[q] = job[q]
      BY <1>2, <2>2, <3>2, OthersKeep DEF IInv
    <3> QED BY <1>2, <2>2, <3>1, <3>2, LookingStep DEF Stuck, Unknown
  <2>3. CASE Environment
    <3>1. UNCHANGED <<pc, job>>
      BY <2>3, EnvironmentKeeps
    <3>2. live' = live
      BY <1>2, <2>3, TagAssumption DEF Environment, ExplorerExit, ExplorerStart, Servicing, ForeignProtect,
         StateLost, memory, Stuck, Unknown
    <3> QED BY <1>2, <3>1, <3>2 DEF Stuck, Unknown
  <2> QED BY <1>2, <2>1, <2>2, <2>3 DEF Next
<1>3. IInv /\ [Next]_vars
        => [Stuck /\ explorer' = explorer /\ ~ForeignWrite => live' = live /\ Stuck']_vars
  BY <1>2
<1> QED
  BY <1>1, <1>3, Invariance, PTL DEF Spec

------------------------------------------------------------------------------
(* The protocol *)

\* The record on the disk was written for a run of Explorer that has begun.
DiskBorn == disk \in Record => disk.created <= started

\* Somewhere on the disk is what can undo the running Explorer.
Held == explorer # NoExplorer /\ Covered

\* A step of an instance writes records only for its own run of Explorer.
LEMMA SavedNames ==
  ASSUME IInv, LifeInv, NEW p \in Procs, pc[p] = "save"
  PROVE  /\ job[p].ctx \in Explorer /\ job[p].rec \in Record
         /\ job[p].rec.pid = job[p].ctx.pid /\ job[p].rec.created = job[p].ctx.created
         /\ job[p].rec.image = job[p].ctx.image
         /\ job[p].rec.original = Original[job[p].ctx.image]
         /\ job[p].rec.created <= started
<1>1. InstanceInv(p) /\ Born(job[p].ctx)
  BY DEF IInv, LifeInv
<1>2. SoundRecord(job[p].rec)
  BY <1>1 DEF InstanceInv, RecordSound, Recording
<1>3. SameProcess(job[p].rec, job[p].ctx) /\ job[p].rec.image = job[p].ctx.image
  BY <1>1 DEF InstanceInv, RecordNames, Recording
<1>4. job[p].ctx \in Explorer
  BY <1>1 DEF InstanceInv, OthersClean, Attached
<1>5. job[p].ctx.created <= started
  BY <1>1, <1>4, TagAssumption DEF Born
<1> QED BY <1>2, <1>3, <1>4, <1>5 DEF SoundRecord, SameProcess

LEMMA DiskBornInvariance == Spec => []DiskBorn
<1>1. Init => DiskBorn
  BY TagAssumption DEF Init, DiskBorn
<1>2. ASSUME IInv, LifeInv, DiskBorn, [Next]_vars PROVE DiskBorn'
  <2>1. CASE UNCHANGED vars
    BY <1>2, <2>1 DEF vars, DiskBorn
  <2>2. ASSUME NEW p \in Procs, Run(p) \/ Step(p) \/ Crash(p) PROVE DiskBorn'
    <3>1. UNCHANGED started
      BY <2>2, BytesOwn
    <3>2. disk' = disk \/ (pc[p] = "save" /\ disk' = job[p].rec) \/ disk' = NoState
      BY <1>2, <2>2, TouchesOwn
    <3>3. pc[p] = "save" => job[p].rec.created <= started
      BY <1>2, SavedNames
    <3> QED BY <1>2, <3>1, <3>2, <3>3, TagAssumption DEF DiskBorn
  <2>3. CASE Environment
    <3>1. started \in Nat /\ (disk \in Record => disk.created \in Nat)
      BY <1>2 DEF IInv, TypeOK, Record
    <3>2. disk' = disk \/ disk' \in {NoState, Corrupt}
      BY <2>3 DEF Environment, ExplorerExit, ExplorerStart, Servicing, ForeignWrite,
         ForeignProtect, StateLost
    <3>3. started' \in {started, started + 1}
      BY <2>3 DEF Environment, ExplorerExit, ExplorerStart, Servicing, ForeignWrite,
         ForeignProtect, StateLost, shell
    <3> QED BY <1>2, <3>1, <3>2, <3>3, TagAssumption DEF DiskBorn
  <2> QED BY <1>2, <2>1, <2>2, <2>3 DEF Next
<1> QED BY <1>1, <1>2, Invariance, LifeInvariance, PTL DEF Spec

\* The steps of the protocol, in the program's terms.
LEMMA GuardStutter ==
  ASSUME UNCHANGED <<owner, losses>>, Tainted' <=> Tainted, Held' <=> Held
  PROVE  UNCHANGED Guard!vars
BY Zenon DEF Guard!vars, Held

LEMMA GuardTake ==
  ASSUME NEW p \in Procs, owner = NoProc, owner' = p, UNCHANGED losses,
         Tainted' <=> Tainted, Held' <=> Held
  PROVE  Guard!Take(p)
BY Zenon DEF Guard!Take, Held

LEMMA GuardDrop ==
  ASSUME NEW p \in Procs, owner = p, owner' = NoProc, UNCHANGED losses,
         Tainted' <=> Tainted, Held' <=> Held
  PROVE  Guard!Drop(p)
BY Zenon DEF Guard!Drop, Held

LEMMA GuardCover ==
  ASSUME NEW p \in Procs, owner = p, UNCHANGED <<owner, losses>>, Tainted' <=> Tainted,
         Held'
  PROVE  Guard!Cover(p)
BY Zenon DEF Guard!Cover, Held

LEMMA GuardUncover ==
  ASSUME NEW p \in Procs, owner = p, UNCHANGED <<owner, losses>>, Tainted => losses > 0,
         Tainted' <=> Tainted, ~Held'
  PROVE  Guard!Uncover(p)
BY Zenon DEF Guard!Uncover, Held

LEMMA GuardTouch ==
  ASSUME NEW p \in Procs, owner = p, UNCHANGED <<owner, losses>>, Held \/ losses > 0,
         Held' <=> Held
  PROVE  Guard!Touch(p)
BY Zenon DEF Guard!Touch, Held, Tainted

LEMMA GuardInterfere ==
  ASSUME UNCHANGED <<owner, losses>>, ~Tainted', Held' <=> Held
  PROVE  Guard!Interfere
BY Zenon DEF Guard!Interfere, Held, Tainted

LEMMA GuardReplace ==
  ASSUME UNCHANGED <<owner, losses>>, ~Tainted', ~Held'
  PROVE  Guard!Replace
BY Zenon DEF Guard!Replace, Held, Tainted

LEMMA GuardLose ==
  ASSUME UNCHANGED owner, losses' > 0, Tainted' <=> Tainted, ~Held'
  PROVE  Guard!Lose
BY Zenon DEF Guard!Lose, Held

\* What an instance does to the mutex.
LEMMA OwnerOwn ==
  ASSUME IInv, NEW p \in Procs, Run(p) \/ Step(p) \/ Crash(p)
  PROVE  \/ owner' = owner
         \/ /\ owner = NoProc /\ owner' = p
            /\ UNCHANGED <<live, disk>>
         \/ /\ owner = p /\ owner' = NoProc
            /\ UNCHANGED <<live, disk>>
<1>1. CASE Acquire(p)
  BY <1>1 DEF Acquire, memory
<1>2. CASE Release(p)
  BY <1>2 DEF Release, memory, IInv, InstanceInv, MutexHeld, Critical, At
<1>3. CASE Crash(p)
  BY <1>3 DEF Crash, memory
<1>4. ASSUME ~Acquire(p), ~Release(p), ~Crash(p) PROVE owner' = owner
  BY <1>4 DEF Run, Step, AcquireTimeout, Load, Find, Attach, Match, Candidate, Query, Adopt,
     Readback, Save, Compare, Read, Examine, Flush, Delete, WProtect, WUndo, WWrite, WClose,
     WCheck, PSet, PUndo, PCheck, VBytes, VProt
<1> QED BY <1>1, <1>2, <1>3, <1>4

\* A step of an instance is a step of the protocol, or nothing to it.
LEMMA InstanceGuard ==
  ASSUME IInv, LifeInv, NEW p \in Procs, Run(p) \/ Step(p) \/ Crash(p)
  PROVE  Guard!Next \/ UNCHANGED Guard!vars
<1>ty. TypeOK /\ InstanceInv(p)
  BY DEF IInv
<1>1. /\ UNCHANGED <<explorer, losses>>
      /\ disk' # disk => \/ pc[p] = "save" /\ disk' = job[p].rec
                         \/ pc[p] = "delete" /\ disk' = NoState
      /\ live' # live => WWrite(p) /\ Reach(p)
  BY TouchesOwn, BytesOwn
<1>2. UNCHANGED live => (Tainted' <=> Tainted)
  BY <1>1 DEF Tainted
<1>3. UNCHANGED disk => (Held' <=> Held)
  BY <1>1 DEF Held, Covered
<1>4. CASE UNCHANGED <<live, disk>>
  <2>1. CASE owner' = owner
    BY <1>1, <1>2, <1>3, <1>4, <2>1, GuardStutter
  <2>2. CASE owner = NoProc /\ owner' = p
    BY <1>1, <1>2, <1>3, <1>4, <2>2, GuardTake DEF Guard!Next
  <2>3. CASE owner = p /\ owner' = NoProc
    BY <1>1, <1>2, <1>3, <1>4, <2>3, GuardDrop DEF Guard!Next
  <2> QED BY <2>1, <2>2, <2>3, OwnerOwn
<1>5. CASE live' # live
  <2>1. WWrite(p) /\ Reach(p) /\ UNCHANGED <<disk, owner>>
    BY <1>1, <1>5 DEF WWrite
  <2>2. pc[p] \in Writing /\ pc[p] \in Critical /\ pc[p] \in Attached
    BY <2>1 DEF WWrite, At, Writing, Critical, Attached
  <2>3. owner = p
    BY <1>ty, <2>2 DEF InstanceInv, MutexHeld
  <2>4. Held \/ losses > 0
    <3>1. losses = 0 => disk = job[p].rec
      BY <1>ty, <2>2 DEF InstanceInv, InHand
    <3>2. SoundRecord(job[p].rec) /\ SameProcess(job[p].rec, job[p].ctx)
          /\ job[p].rec.image = job[p].ctx.image
      BY <1>ty, <2>2 DEF InstanceInv, RecordSound, RecordNames
    <3>3. explorer # NoExplorer /\ explorer = job[p].ctx /\ losses \in Nat
      BY <1>ty, <2>1 DEF Reach, TypeOK
    <3> QED BY <3>1, <3>2, <3>3 DEF Held, Covered, SoundRecord, SameProcess
  <2> QED BY <1>1, <1>3, <2>1, <2>3, <2>4, GuardTouch DEF Guard!Next
<1>6. CASE disk' # disk /\ pc[p] = "save" /\ UNCHANGED live
  <2>1. owner = p /\ owner' = owner
    BY <1>ty, <1>6, OwnerOwn DEF InstanceInv, MutexHeld, Critical, Attached
  <2>2. disk' = job[p].rec
    BY <1>1, <1>6
  <2>3. CASE explorer = job[p].ctx
    <3>1. Held'
      BY <1>1, <1>6, <2>2, <2>3, SavedNames, TagAssumption DEF Held, Covered
    <3> QED BY <1>1, <1>2, <1>6, <2>1, <3>1, GuardCover DEF Guard!Next
  <2>4. CASE explorer # job[p].ctx
    <3>1. ~Tainted
      BY <1>ty, <1>6, <2>4 DEF InstanceInv, OthersClean, Attached
    <3>2. ~Held'
      <4> SUFFICES ASSUME Held' PROVE FALSE
        OBVIOUS
      <4>1. /\ explorer \in Explorer /\ job[p].ctx \in Explorer
            /\ explorer.pid = job[p].ctx.pid /\ explorer.created = job[p].ctx.created
            /\ explorer.image = job[p].ctx.image
        BY <1>ty, <1>1, <1>6, <2>2, SavedNames DEF Held, Covered, TypeOK
      <4> QED BY <2>4, <4>1 DEF Explorer
    <3> QED BY <1>1, <1>2, <1>6, <2>1, <3>1, <3>2, GuardUncover DEF Guard!Next
  <2> QED BY <2>3, <2>4
<1>7. CASE disk' # disk /\ pc[p] = "delete" /\ UNCHANGED live
  <2>1. owner = p /\ owner' = owner
    BY <1>ty, <1>7, OwnerOwn DEF InstanceInv, MutexHeld, Critical
  <2>2. disk' = NoState
    BY <1>1, <1>7
  <2>3. Tainted => losses > 0
    BY <1>ty, <1>7 DEF InstanceInv, CleanBeforeDelete, TypeOK
  <2>4. ~Held'
    BY <2>2, TagAssumption DEF Held, Covered
  <2> QED BY <1>1, <1>2, <1>7, <2>1, <2>3, <2>4, GuardUncover DEF Guard!Next
<1> QED BY <1>1, <1>4, <1>5, <1>6, <1>7

\* Nor does the rest of the machine do more than the protocol allows it.
LEMMA EnvironmentGuard ==
  ASSUME IInv, LifeInv, DiskBorn, Environment
  PROVE  Guard!Next \/ UNCHANGED Guard!vars
<1>ty. TypeOK
  BY DEF IInv
<1>1. CASE ExplorerExit
  <2>1. ~Tainted' /\ ~Held' /\ UNCHANGED <<owner, losses>>
    BY <1>1 DEF ExplorerExit, Tainted, Held, budget
  <2> QED BY <2>1, GuardReplace DEF Guard!Next
<1>2. CASE ExplorerStart
  <2>1. UNCHANGED <<owner, losses, disk>>
    BY <1>2 DEF ExplorerStart, budget
  <2>2. explorer'.created = started + 1 /\ explorer'.image = diskImage
        /\ live' = Original[diskImage]
    BY <1>2 DEF ExplorerStart
  <2>3. ~Tainted'
    BY <2>2 DEF Tainted
  <2>4. disk \in Record => disk.created \in Nat /\ started \in Nat /\ disk.created <= started
    BY <1>ty DEF DiskBorn, TypeOK, Record
  <2>5. ~Held'
    BY <2>1, <2>2, <2>4 DEF Held, Covered
  <2> QED BY <2>1, <2>3, <2>5, GuardReplace DEF Guard!Next
<1>3. CASE Servicing \/ ForeignProtect
  <2>1. UNCHANGED <<explorer, live, disk, owner, losses>>
    BY <1>3 DEF Servicing, ForeignProtect, shell, memory, budget
  <2>2. (Tainted' <=> Tainted) /\ (Held' <=> Held)
    BY <2>1 DEF Tainted, Held, Covered
  <2> QED BY <2>1, <2>2, GuardStutter
<1>4. CASE ForeignWrite
  <2>1. UNCHANGED <<explorer, disk, owner, losses>>
    BY <1>4 DEF ForeignWrite, shell
  <2>2. Held' <=> Held
    BY <2>1 DEF Held, Covered
  <2>3. PICK i \in 1..PatchLength, b \in Bytes : b # Patch[i] /\ live' = [live EXCEPT ![i] = b]
    BY <1>4 DEF ForeignWrite
  <2>4. Tainted' => Tainted
    BY <1>ty, <2>1, <2>3 DEF Tainted, TypeOK, Code
  <2>5. CASE Tainted'
    BY <2>1, <2>2, <2>4, <2>5, GuardStutter
  <2>6. CASE ~Tainted'
    BY <2>1, <2>2, <2>6, GuardInterfere DEF Guard!Next
  <2> QED BY <2>5, <2>6
<1>5. CASE StateLost
  <2>1. UNCHANGED <<explorer, live, owner>> /\ disk' \in {NoState, Corrupt} /\ losses' = losses + 1
    BY <1>5 DEF StateLost, shell, memory
  <2>2. losses' > 0
    BY <1>ty, <2>1 DEF TypeOK
  <2>3. (Tainted' <=> Tainted) /\ ~Held'
    BY <2>1, TagAssumption DEF Tainted, Held, Covered
  <2> QED BY <2>1, <2>2, <2>3, GuardLose DEF Guard!Next
<1> QED BY <1>1, <1>2, <1>3, <1>4, <1>5 DEF Environment

LEMMA GuardInit == Init => Guard!Init
<1> SUFFICES ASSUME Init PROVE Guard!Init
  OBVIOUS
<1>1. owner = NoProc /\ losses = 0
  BY DEF Init
<1>2. ~Tainted /\ ~Held
  BY TagAssumption DEF Init, Tainted, Held, Covered
<1>3. (Tainted = FALSE) /\ (explorer # NoExplorer /\ Covered) = FALSE
  BY <1>2 DEF Held
<1>4. (losses > 0) = FALSE
  BY <1>1
<1> QED BY <1>1, <1>3, <1>4, Zenon DEF Guard!Init

LEMMA GuardStep == IInv /\ LifeInv /\ DiskBorn /\ [Next]_vars => [Guard!Next]_(Guard!vars)
<1> SUFFICES ASSUME IInv, LifeInv, DiskBorn, [Next]_vars
             PROVE  Guard!Next \/ UNCHANGED Guard!vars
  OBVIOUS
<1>1. ASSUME NEW p \in Procs, Run(p) \/ Step(p) \/ Crash(p)
      PROVE  Guard!Next \/ UNCHANGED Guard!vars
  BY <1>1, InstanceGuard
<1>2. CASE Environment
  BY <1>2, EnvironmentGuard
<1>3. CASE UNCHANGED vars
  <2>1. UNCHANGED <<owner, losses, explorer, live, disk>>
    BY <1>3 DEF vars
  <2>2. (Tainted' <=> Tainted) /\ (Held' <=> Held)
    BY <2>1 DEF Tainted, Held, Covered
  <2> QED BY <2>1, <2>2, GuardStutter
<1> QED BY <1>1, <1>2, <1>3 DEF Next

\* Whatever fails, dies or interferes, Apply and Restore are the protocol of
\* GuardedPatch: the right to write is one instance's, writes come under a record
\* of that run of Explorer, and the record goes only when there is nothing left.
THEOREM ImplementsGuardedPatch == Spec => ImplementsGuard
BY GuardInit, GuardStep, Invariance, LifeInvariance, DiskBornInvariance, PTL
   DEF Spec, ImplementsGuard, Guard!Spec

\* The protocol by itself keeps Explorer undoable.
THEOREM ProtocolSuffices == Guard!Spec => []Guard!Undoable
<1>1. Guard!Init => Guard!Undoable
  BY DEF Guard!Init, Guard!Undoable
<1>2. Guard!Undoable /\ [Guard!Next]_(Guard!vars) => Guard!Undoable'
  BY DEF Guard!Undoable, Guard!Next, Guard!vars, Guard!Take, Guard!Drop, Guard!Cover,
     Guard!Uncover, Guard!Touch, Guard!Interfere, Guard!Replace, Guard!Lose
<1> QED BY <1>1, <1>2, PTL DEF Guard!Spec
------------------------------------------------------------------------------
(* The page's protection *)

\* What the loader and other programs have set, and what write_remote_bytes sets.
Known == given \cup {RWX}

\* A record that names the running Explorer.
NamesRunning(rec) ==
  explorer # NoExplorer /\ SameProcess(rec, explorer) /\ rec.image = explorer.image

\* From the moment on at which it may be used, the record in hand restores a
\* protection that was given to the page.
RecordHome(p) ==
  /\ Loaded(p) \/ pc[p] \in {"readback", "save"} \cup Writing
       => (NamesRunning(job[p].rec) => job[p].rec.prot \in given)
  /\ pc[p] = "adopt" => /\ job[p].obs = job[p].rec.prot
                        /\ explorer = job[p].ctx => job[p].obs \in Known

\* What an instance puts back because it was not what it expected.
OldHome(p) ==
  pc[p] \in {"w_undo", "p_undo"} /\ explorer = job[p].ctx =>
    job[p].old \in Known /\ (faults = 0 => job[p].old \in given)

\* Another Explorer than the one the handle is open on was never opened for
\* writing, and the record is deleted only when the page is closed.
OthersHome(p) == pc[p] \in Attached /\ explorer # job[p].ctx => prot \in given
HomeBeforeDelete(p) == pc[p] = "delete" /\ losses = 0 => prot \in given

\* If nothing fails the page is open between two calls only.
Closed(p) == faults = 0 /\ pc[p] \in Critical \ Opening => prot \in given

\* A loaded record is of a run of Explorer that has begun.
LoadedBorn(p) == Loaded(p) => job[p].rec.created <= started

InstanceHome(p) ==
  /\ RecordHome(p) /\ OldHome(p) /\ OthersHome(p)
  /\ HomeBeforeDelete(p) /\ Closed(p) /\ LoadedBorn(p)

PageInv ==
  /\ prot \in Known
  /\ explorer = NoExplorer => prot \in given
  /\ disk \in Record /\ NamesRunning(disk) => disk.prot \in given
  /\ losses = 0 /\ prot \notin given => Covered
  /\ faults = 0 /\ prot \notin given => owner # NoProc

\* The inductive invariant for HomeCovers.
HomeInv == PageInv /\ \A p \in Procs : InstanceHome(p)

\* The record of an instance at work names the running Explorer exactly if the
\* instance's handle is open on it.
LEMMA NamesOwn ==
  ASSUME IInv, NEW p \in Procs, pc[p] \in Recording \cup Writing
  PROVE  NamesRunning(job[p].rec) <=> explorer = job[p].ctx
<1>1. SameProcess(job[p].rec, job[p].ctx) /\ job[p].rec.image = job[p].ctx.image
  BY DEF IInv, InstanceInv, RecordNames
<1>2. job[p].ctx \in Explorer
  BY DEF IInv, InstanceInv, OthersClean, Recording, Writing, Attached
<1>3. explorer \in Explorer \cup {NoExplorer}
  BY DEF IInv, TypeOK
<1> QED
  BY <1>1, <1>2, <1>3, TagAssumption DEF NamesRunning, SameProcess, Explorer

\* A step fails, or leaves the budget of failures alone.
LEMMA FaultCount ==
  ASSUME TypeOK, NEW p \in Procs, Run(p) \/ Step(p) \/ Crash(p), faults' = 0
  PROVE  faults = 0 /\ ~Fault /\ ~Crash(p)
<1>1. UNCHANGED budget \/ Fault
  BY DEF Run, Step, Crash, Acquire, AcquireTimeout, Load, Find, Attach, Match, Candidate,
     Query, Adopt, Readback, Save, Compare, Read, Examine, Flush, Delete, Release, WProtect, WUndo,
     WWrite, WClose, WCheck, PSet, PUndo, PCheck, VBytes, VProt, NoFault, CallFails
<1> QED
  BY <1>1 DEF TypeOK, budget, Fault, Crash

\* The protection that a step leaves on the page is a known one.
LEMMA KnownStep ==
  ASSUME IInv, PageInv, NEW p \in Procs, InstanceHome(p), Run(p) \/ Step(p) \/ Crash(p)
  PROVE  /\ prot' # prot => prot' = RWX \/ prot' \in Known
         /\ prot' # prot /\ pc[p] \notin {"w_undo", "p_undo", "w_protect"} => prot' \in given
<1>1. ASSUME prot' # prot, prot' = job[p].rec.prot PROVE prot' \in given
  <2>1. pc[p] \in Writing /\ explorer = job[p].ctx
    BY <1>1, TouchesOwn DEF Reach
  <2> QED
    BY <1>1, <2>1, NamesOwn DEF InstanceHome, RecordHome
<1>2. ASSUME prot' # prot, pc[p] \in {"w_undo", "p_undo"}, prot' = job[p].old PROVE prot' \in Known
  BY <1>2, TouchesOwn DEF InstanceHome, OldHome, Reach
<1> QED
  BY <1>1, <1>2, TouchesOwn DEF Known

\* If nothing fails, the page is closed when the calls that open and close it are
\* over.
LEMMA ClosedStep ==
  ASSUME IInv, PageInv, NEW p \in Procs, InstanceHome(p), Run(p) \/ Step(p) \/ Crash(p),
         faults' = 0, pc'[p] \in Critical \ Opening
  PROVE  prot' \in given
<1>ty. TypeOK /\ job[p] \in Job
  BY DEF IInv, TypeOK
<1>0. faults = 0 /\ ~Fault /\ ~Crash(p)
  BY <1>ty, FaultCount
<1>1. CASE pc[p] \notin Critical
  <2>1. ~Run(p) /\ ~AcquireTimeout(p)
    BY <1>ty, OwnEffect DEF Run, AcquireTimeout, Critical, Attached
  <2>2. Acquire(p)
    BY <1>0, <1>1, <2>1 DEF Step, At, Load, Find, Attach, Match, Candidate, Query, Adopt, Readback,
       Save, Compare, Read, Examine, Flush, Delete, Release, WProtect, WUndo, WWrite, WClose, WCheck,
       PSet, PUndo, PCheck, VBytes, VProt, Critical, Attached
  <2> QED
    BY <1>0, <2>2 DEF Acquire, memory, PageInv
<1>2. CASE pc[p] \in Critical \ Opening
  <2>1. prot \in given
    BY <1>0, <1>2 DEF InstanceHome, Closed
  <2>2. CASE pc[p] = "p_undo" /\ prot' # prot
    <3>1. prot' = job[p].rec.prot \/ prot' = job[p].old
      BY <2>2, TouchesOwn
    <3>2. explorer = job[p].ctx
      BY <2>2, TouchesOwn DEF Reach
    <3>3. job[p].old \in given
      BY <1>0, <2>2, <3>2 DEF InstanceHome, OldHome
    <3>4. job[p].rec.prot \in given
      BY <2>2, <3>2, NamesOwn DEF InstanceHome, RecordHome, Writing
    <3> QED BY <3>1, <3>3, <3>4
  <2>3. CASE pc[p] = "w_protect" /\ prot' # prot
    <3>1. prot' = job[p].rec.prot /\ explorer = job[p].ctx
      BY <2>3, TouchesOwn DEF Reach
    <3> QED
      BY <2>3, <3>1, NamesOwn DEF InstanceHome, RecordHome, Writing
  <2> QED
    BY <1>2, <2>1, <2>2, <2>3, KnownStep DEF Opening
<1>3. CASE pc[p] \in Opening
  <2>1. CASE ~Reach(p)
    <3>1. prot' = prot
      BY <2>1, TouchesOwn
    <3>2. explorer # job[p].ctx \/ explorer = NoExplorer
      BY <2>1 DEF Reach
    <3> QED
      BY <1>3, <3>1, <3>2 DEF InstanceHome, OthersHome, PageInv, Opening, Attached
  <2>2. CASE Reach(p)
    <3>1. explorer = job[p].ctx
      BY <2>2 DEF Reach
    <3>2. job[p].rec.prot \in given /\ (pc[p] = "w_undo" => job[p].old \in given)
      BY <1>0, <1>3, <3>1, NamesOwn DEF InstanceHome, RecordHome, OldHome, Opening, Writing
    <3>3. WUndo(p) \/ WWrite(p) \/ WClose(p)
      BY <1>0, <1>3 DEF Run, Step, At, Acquire, AcquireTimeout, Load, Find, Attach, Match, Candidate,
         Query, Adopt, Readback, Save, Compare, Read, Examine, Flush, Delete, Release, WProtect,
         WCheck, PSet, PUndo, PCheck, VBytes, VProt, Opening
    <3>4. ~WWrite(p)
      BY <1>ty, OwnEffect DEF WWrite, Opening
    <3>5. prot' \in {job[p].rec.prot, job[p].old} /\ (prot' = job[p].old => pc[p] = "w_undo" \/ prot' = job[p].rec.prot)
      BY <1>0, <2>2, <3>3, <3>4 DEF WUndo, WClose, CallFails, At
    <3> QED BY <3>2, <3>5
  <2> QED BY <2>1, <2>2
<1> QED BY <1>1, <1>2, <1>3

\* The page and the file after a step of the instance that holds the mutex.
LEMMA PageStep ==
  ASSUME IInv, PageInv, NEW p \in Procs, InstanceHome(p), Run(p) \/ Step(p) \/ Crash(p)
  PROVE  PageInv'
<1>ty. TypeOK /\ InstanceInv(p) /\ job[p] \in Job
  BY DEF IInv, TypeOK
<1>1. /\ explorer' = explorer /\ losses' = losses /\ given' = given
      /\ prot' # prot => pc[p] \in Writing /\ Reach(p)
      /\ disk' # disk => \/ pc[p] = "save" /\ disk' = job[p].rec
                         \/ pc[p] = "delete" /\ disk' = NoState
  BY TouchesOwn
<1>2. prot' \in Known'
  BY <1>1, KnownStep DEF PageInv, Known
<1>3. explorer' = NoExplorer => prot' \in given'
  BY <1>1 DEF PageInv, Reach
<1>4. disk' \in Record /\ NamesRunning(disk)' => disk'.prot \in given'
  BY <1>1, TagAssumption DEF PageInv, InstanceHome, RecordHome, NamesRunning
<1>5. ASSUME losses' = 0, prot' \notin given' PROVE Covered'
  <2>1. CASE prot' # prot
    <3>1. disk' = disk
      BY <1>1, <2>1 DEF Writing
    <3> QED
      BY <1>1, <1>5, <1>ty, <2>1, <3>1 DEF Reach, InstanceInv, InHand, RecordSound, RecordNames,
         SoundRecord, SameProcess, Covered
  <2>2. CASE prot' = prot /\ disk' = disk
    BY <1>1, <1>5, <2>2 DEF PageInv, Covered
  <2>3. CASE prot' = prot /\ pc[p] = "save" /\ disk' = job[p].rec
    <3>1. explorer = job[p].ctx
      BY <1>1, <1>5, <2>3 DEF InstanceHome, OthersHome, Attached
    <3> QED
      BY <1>1, <1>ty, <2>3, <3>1 DEF InstanceInv, RecordSound, RecordNames, Recording, SoundRecord,
         SameProcess, Covered
  <2>4. CASE prot' = prot /\ pc[p] = "delete"
    BY <1>1, <1>5, <2>4 DEF InstanceHome, HomeBeforeDelete
  <2> QED BY <1>1, <2>1, <2>2, <2>3, <2>4
<1>6. ASSUME faults' = 0, prot' \notin given' PROVE owner' # NoProc
  <2>1. ~Crash(p) /\ faults = 0
    BY <1>6, <1>ty, FaultCount
  <2>2. CASE prot' = prot
    <3>1. owner # NoProc
      BY <1>1, <1>6, <2>1, <2>2 DEF PageInv
    <3>2. CASE Release(p)
      BY <1>1, <1>6, <2>1, <2>2, <3>2 DEF Release, At, InstanceHome, Closed, Critical, Attached, Opening
    <3>3. CASE Acquire(p)
      BY <3>3, BoundAssumption DEF Acquire
    <3>4. CASE ~Release(p) /\ ~Acquire(p)
      <4>1. owner' = owner
        BY <2>1, <3>4 DEF Run, Step, AcquireTimeout, Load, Find, Attach, Match, Candidate,
           Query, Adopt, Readback, Save, Compare, Read, Examine, Flush, Delete, WProtect, WUndo,
           WWrite, WClose, WCheck, PSet, PUndo, PCheck, VBytes, VProt
      <4> QED BY <3>1, <4>1
    <3> QED BY <3>2, <3>3, <3>4
  <2>3. CASE prot' # prot
    <3>1. owner = p
      BY <1>1, <1>ty, <2>3 DEF InstanceInv, MutexHeld, Writing, Critical, Attached
    <3>2. owner' = owner
      BY <1>1, <2>1, <2>3 DEF Run, Step, At, Acquire, AcquireTimeout, Load, Find, Attach, Match, Candidate,
         Query, Adopt, Readback, Save, Compare, Read, Examine, Flush, Delete, Release, WProtect, WUndo,
         WWrite, WClose, WCheck, PSet, PUndo, PCheck, VBytes, VProt, Writing
    <3> QED BY <3>1, <3>2, BoundAssumption
  <2> QED BY <2>2, <2>3
<1> QED BY <1>2, <1>3, <1>4, <1>5, <1>6 DEF PageInv

\* The record in hand after a step that leads to its use.
LEMMA RecordHomeStep ==
  ASSUME IInv, PageInv, NEW p \in Procs, InstanceHome(p), Run(p) \/ Step(p) \/ Crash(p)
  PROVE  RecordHome(p)'
<1>ty. TypeOK /\ job[p] \in Job /\ RecordHome(p)
  BY DEF IInv, TypeOK, InstanceHome
<1>same. explorer' = explorer /\ given' = given /\ \A r : NamesRunning(r)' <=> NamesRunning(r)
  <2>1. explorer' = explorer /\ given' = given
    BY TouchesOwn
  <2> QED BY <2>1 DEF NamesRunning
<1>loaded. ~Loaded(p)' \/ pc'[p] \in {"compare", "find", "attach"}
  BY DEF Loaded
<1>idle. ASSUME pc'[p] \notin {"compare", "find", "attach", "adopt", "readback", "save"} \cup Writing
         PROVE  RecordHome(p)'
  BY <1>idle, <1>loaded DEF RecordHome
<1>kept. ASSUME Loaded(p) \/ pc[p] \in {"readback", "save"} \cup Writing, pc'[p] # "adopt",
                job'[p].rec = job[p].rec
         PROVE  RecordHome(p)'
  <2>1. NamesRunning(job[p].rec)' <=> NamesRunning(job[p].rec)
    BY <1>kept, <1>same DEF NamesRunning
  <2> QED
    BY <1>kept, <1>ty, <1>same, <2>1 DEF RecordHome
<1>1. CASE pc[p] \in Writing /\ (Step(p) \/ Crash(p))
  <2>1. /\ pc'[p] \in Writing => job'[p].rec = job[p].rec
        /\ pc'[p] \in Writing \cup {"release", "delete", "idle"}
    BY <1>1, <1>ty, RecordKept
  <2> QED
    BY <1>1, <1>idle, <1>kept, <2>1 DEF Writing
<1> USE <1>ty, OwnEffect, FinishEffect DEF At, Job, Writing
<1>2. CASE Run(p) \/ AcquireTimeout(p) \/ Release(p) \/ Crash(p) \/ Delete(p)
  <2>1. pc'[p] \in {"idle", "acquire", "release"}
    BY <1>2 DEF Run, AcquireTimeout, Release, Crash, Delete
  <2> QED BY <1>idle, <2>1
<1>3. CASE Acquire(p)
  <2>1. pc'[p] \in {"find", "load"} /\ (pc'[p] = "find" => job'[p].op # "restore")
    BY <1>3 DEF Acquire
  <2> QED BY <2>1 DEF RecordHome, Loaded
<1>4. CASE Load(p)
  <2>1. pc'[p] = "release" \/ (pc'[p] = "find" /\ disk \in Record /\ job'[p].rec = disk)
    BY <1>4, TagAssumption DEF Load, TypeOK
  <2>2. CASE pc'[p] = "find" /\ disk \in Record /\ job'[p].rec = disk
    <3>1. NamesRunning(job[p].rec)' => job'[p].rec.prot \in given
      BY <1>same, <2>2 DEF PageInv, NamesRunning
    <3> QED BY <1>same, <2>2, <3>1 DEF RecordHome
  <2> QED BY <1>idle, <2>1, <2>2
<1>5. CASE Find(p) \/ Attach(p)
  <2>1. \/ pc'[p] \in {"release", "match"}
        \/ pc'[p] = "attach" /\ job'[p].op # "restore"
        \/ pc'[p] \in {"attach", "compare"} /\ Loaded(p) /\ job'[p].rec = job[p].rec
    BY <1>5 DEF Find, Attach, Loaded
  <2>2. CASE pc'[p] = "attach" /\ job'[p].op # "restore"
    BY <2>2 DEF RecordHome, Loaded
  <2> QED BY <1>idle, <1>kept, <2>1, <2>2
<1>7. CASE Match(p) \/ Candidate(p)
  <2>1. pc'[p] \in {"release", "candidate", "query"}
    BY <1>7 DEF Match, Candidate
  <2> QED BY <1>idle, <2>1
<1>8. CASE Query(p)
  <2> DEFINE c == job[p].ctx
             r == [pid |-> c.pid, created |-> c.created, image |-> job[p].file,
                   original |-> Original[job[p].file], prot |-> prot]
             j == [job[p] EXCEPT !.obs = prot, !.rec = r]
  <2>1. \/ pc'[p] = "release"
        \/ pc'[p] = "adopt" /\ job'[p] = j
        \/ pc'[p] = "readback" /\ job'[p] = j /\ Patchable(prot)
    BY <1>8 DEF Query
  <2>2. j.rec.prot = prot /\ j.obs = prot
    OBVIOUS
  <2>3. Patchable(prot) => prot \in given
    BY ProtectionAssumption DEF PageInv, Known, Patchable
  <2>4. pc'[p] = "readback" => job'[p].rec.prot \in given
    <3> HIDE DEF j
    <3> QED BY <2>1, <2>2, <2>3
  <2>5. pc'[p] = "adopt" => job'[p].obs = job'[p].rec.prot /\ job'[p].obs \in Known
    <3> HIDE DEF j
    <3> QED BY <2>1, <2>2 DEF PageInv
  <2>6. pc'[p] \in {"release", "adopt", "readback"}
    BY <2>1
  <2> HIDE DEF j, r
  <2> QED BY <1>same, <2>4, <2>5, <2>6 DEF RecordHome, Loaded, Known
<1>9. CASE Adopt(p)
  <2>1. pc[p] = "adopt" /\ job[p].obs = job[p].rec.prot /\ (explorer = job[p].ctx => job[p].obs \in Known)
    BY <1>9 DEF Adopt, RecordHome
  <2>2. explorer = job[p].ctx /\ Patchable(job[p].obs) => job[p].obs \in given
    BY <2>1, ProtectionAssumption DEF Known, Patchable
  <2>3. \/ pc'[p] = "release"
        \/ pc'[p] \in {"p_set", "v_bytes"} /\ job'[p].rec = disk /\ disk \in Record
        \/ pc'[p] = "save" /\ job'[p].rec = job[p].rec /\ Patchable(job[p].obs)
    <3> DEFINE i == [job[p] EXCEPT !.phase = "repair", !.rec = disk]
               j == [job[p] EXCEPT !.phase = "adopt"]
    <3>1. i.rec = disk /\ j.rec = job[p].rec
      OBVIOUS
    <3>2. \/ pc'[p] = "release"
          \/ pc'[p] \in {"p_set", "v_bytes"} /\ job'[p] = i /\ disk \in Record
          \/ pc'[p] = "save" /\ job'[p] = j /\ Patchable(job[p].obs)
      BY <1>9 DEF Adopt
    <3> HIDE DEF i, j
    <3> QED BY <3>1, <3>2
  <2>4. CASE pc'[p] \in {"p_set", "v_bytes"} /\ job'[p].rec = disk /\ disk \in Record
    <3>1. NamesRunning(job[p].rec)' => job'[p].rec.prot \in given
      BY <1>same, <2>4 DEF PageInv, NamesRunning
    <3> QED BY <1>same, <2>4, <3>1 DEF RecordHome
  <2>5. CASE pc'[p] = "save" /\ job'[p].rec = job[p].rec /\ Patchable(job[p].obs)
    <3>1. NamesRunning(job[p].rec)' => explorer = job[p].ctx
      BY <1>same, <2>1, <2>5, NamesOwn DEF Recording, NamesRunning
    <3> QED BY <1>same, <2>1, <2>2, <2>5, <3>1 DEF RecordHome
  <2> QED BY <1>idle, <2>3, <2>4, <2>5
<1>10. CASE Readback(p) \/ Save(p)
  <2>1. /\ pc[p] \in {"readback", "save"}
        /\ \/ pc'[p] = "release"
           \/ pc'[p] \in {"save", "w_protect"} /\ job'[p] = job[p]
    BY <1>10 DEF Readback, Save
  <2> QED BY <1>idle, <1>kept, <2>1
<1>11. CASE Compare(p)
  <2>1. /\ Loaded(p)
        /\ pc'[p] \in {"release", "delete"} \/ (pc'[p] = "read" /\ job'[p] = job[p])
    BY <1>11 DEF Compare, Loaded
  <2> QED BY <1>idle, <1>kept, <2>1
<1> QED
  BY <1>1, <1>2, <1>3, <1>4, <1>5, <1>7, <1>8, <1>9, <1>10, <1>11 DEF Step, Read, Examine, Flush,
     WProtect, WUndo, WWrite, WClose, WCheck, PSet, PUndo, PCheck, VBytes, VProt

\* What is to be put back is what the call that failed to find the expected
\* protection has found.
LEMMA OldHomeStep ==
  ASSUME IInv, PageInv, NEW p \in Procs, InstanceHome(p), Run(p) \/ Step(p) \/ Crash(p)
  PROVE  OldHome(p)'
<1>ty. TypeOK /\ job[p] \in Job
  BY DEF IInv, TypeOK
<1> SUFFICES ASSUME pc'[p] \in {"w_undo", "p_undo"} PROVE OldHome(p)'
  BY DEF OldHome
<1>1. WProtect(p) \/ PSet(p)
  <2> USE <1>ty, OwnEffect DEF At
  <2>1. ~Run(p) /\ ~Acquire(p) /\ ~AcquireTimeout(p) /\ ~Load(p) /\ ~Find(p) /\ ~Attach(p) /\ ~Match(p)
        /\ ~Candidate(p) /\ ~Release(p) /\ ~Crash(p) /\ ~Delete(p)
    BY DEF Run, Acquire, AcquireTimeout, Load, Find, Attach, Match, Candidate, Release, Crash, Delete
  <2>2. ~Query(p) /\ ~Adopt(p) /\ ~Compare(p)
    BY DEF Query, Adopt, Compare
  <2>3. ~Readback(p) /\ ~Save(p) /\ ~Read(p) /\ ~Examine(p) /\ ~Flush(p)
    BY DEF Readback, Save, Read, Examine, ProtectionInOrder, Flush
  <2>4. ~WUndo(p) /\ ~WWrite(p) /\ ~WClose(p) /\ ~WCheck(p)
    BY DEF WUndo, WWrite, WClose, WCheck, WriteFailed, WriteDone
  <2>5. ~PUndo(p) /\ ~PCheck(p) /\ ~VBytes(p) /\ ~VProt(p)
    BY DEF PUndo, PCheck, ProtectionInOrder, VBytes, VProt, VerifyFailed, VerifyDone
  <2> QED BY <2>1, <2>2, <2>3, <2>4, <2>5 DEF Step
<1>2. pc[p] \in {"w_protect", "p_set"} /\ job'[p].old = prot
  <2>1. CASE WProtect(p)
    BY <2>1, <1>ty, OwnEffect DEF WProtect, WriteFailed, At, Job
  <2>2. CASE PSet(p)
    BY <2>2, <1>ty, OwnEffect DEF PSet, At, Job
  <2> QED BY <1>1, <2>1, <2>2
<1>3. faults' = 0 => prot \in given
  BY <1>ty, <1>2, FaultCount DEF InstanceHome, Closed, Critical, Attached, Opening
<1>4. given' = given
  BY TouchesOwn
<1> QED
  BY <1>2, <1>3, <1>4 DEF OldHome, PageInv, Known

\* The record is deleted only after the page has been seen to be in order, or
\* has never been touched in this run of Explorer.
LEMMA DeleteStep ==
  ASSUME IInv, PageInv, NEW p \in Procs, InstanceHome(p),
         Run(p) \/ Step(p) \/ Crash(p), pc'[p] = "delete", losses' = 0
  PROVE  prot' \in given
<1>ty. TypeOK /\ job[p] \in Job /\ InstanceInv(p)
  BY DEF IInv, TypeOK
<1>1. losses = 0 /\ explorer' = explorer
  BY TouchesOwn
<1>2. CASE Compare(p)
  <2>1. pc[p] = "compare" /\ ~SameProcess(job[p].rec, job[p].ctx) /\ prot' = prot
    BY <1>2, <1>ty, OwnEffect DEF Compare, At, memory
  <2>2. disk = job[p].rec
    BY <1>1, <1>ty, <2>1 DEF InstanceInv, InHand, Loaded
  <2>3. CASE explorer = job[p].ctx
    BY <1>1, <2>1, <2>2, <2>3 DEF PageInv, Covered, SameProcess
  <2>4. CASE explorer # job[p].ctx
    BY <2>1, <2>4 DEF InstanceHome, OthersHome, Attached
  <2> QED BY <2>3, <2>4
<1>3. CASE VProt(p)
  <2>1. pc[p] = "v_prot" /\ prot' = prot
    BY <1>3 DEF VProt, At, memory
  <2>2. CASE explorer = job[p].ctx
    <3>1. prot = job[p].rec.prot
      BY <1>3, <1>ty, OwnEffect DEF VProt, VerifyFailed, VerifyDone
    <3> QED
      BY <2>1, <2>2, <3>1, NamesOwn DEF InstanceHome, RecordHome, Writing
  <2>3. CASE explorer # job[p].ctx
    BY <2>1, <2>3 DEF InstanceHome, OthersHome, Attached
  <2> QED BY <2>2, <2>3
<1>4. Compare(p) \/ VProt(p)
  <2> USE <1>ty, OwnEffect DEF At
  <2>1. ~Run(p) /\ ~Acquire(p) /\ ~AcquireTimeout(p) /\ ~Load(p) /\ ~Find(p) /\ ~Attach(p) /\ ~Match(p)
        /\ ~Candidate(p) /\ ~Release(p) /\ ~Crash(p) /\ ~Delete(p)
    BY DEF Run, Acquire, AcquireTimeout, Load, Find, Attach, Match, Candidate, Release, Crash, Delete
  <2>2. ~Query(p) /\ ~Adopt(p)
    BY DEF Query, Adopt
  <2>3. ~Readback(p) /\ ~Save(p) /\ ~Read(p) /\ ~Examine(p) /\ ~Flush(p)
    BY DEF Readback, Save, Read, Examine, ProtectionInOrder, Flush
  <2>4. ~WProtect(p) /\ ~WUndo(p) /\ ~WWrite(p) /\ ~WClose(p) /\ ~WCheck(p)
    BY DEF WProtect, WUndo, WWrite, WClose, WCheck, WriteFailed, WriteDone
  <2>5. ~PSet(p) /\ ~PUndo(p) /\ ~PCheck(p) /\ ~VBytes(p)
    BY DEF PSet, PUndo, PCheck, ProtectionInOrder, VBytes, VerifyFailed
  <2> QED BY <2>1, <2>2, <2>3, <2>4, <2>5 DEF Step
<1> QED BY <1>2, <1>3, <1>4

\* A record that an instance has loaded is as old as the file says.
LEMMA LoadedBornStep ==
  ASSUME IInv, LifeInv, DiskBorn, NEW p \in Procs, InstanceHome(p), Run(p) \/ Step(p) \/ Crash(p)
  PROVE  LoadedBorn(p)'
<1>ty. TypeOK /\ job[p] \in Job /\ LoadedBorn(p)
  BY DEF IInv, TypeOK, InstanceHome
<1>1. started' = started
  BY BytesOwn
<1>2. CASE ~Loaded(p)'
  BY <1>2 DEF LoadedBorn
<1>3. CASE Load(p)
  <2>1. pc'[p] = "release" \/ (disk \in Record /\ job'[p].rec = disk)
    BY <1>3, <1>ty, OwnEffect, TagAssumption DEF Load, Job, TypeOK
  <2> QED BY <1>1, <2>1 DEF LoadedBorn, Loaded, DiskBorn
<1>4. CASE Find(p) \/ Attach(p)
  <2>1. pc'[p] = "release" \/ (Loaded(p)' => Loaded(p) /\ job'[p].rec = job[p].rec)
    BY <1>4, <1>ty, OwnEffect, FinishEffect DEF Find, Attach, Loaded, At, Job
  <2> QED BY <1>1, <1>ty, <2>1 DEF LoadedBorn, Loaded
<1>5. CASE ~Load(p) /\ ~Find(p) /\ ~Attach(p)
  <2> USE <1>ty, OwnEffect, FinishEffect DEF At, Job, Loaded
  <2>1. CASE Run(p) \/ AcquireTimeout(p) \/ Release(p) \/ Crash(p) \/ Delete(p) \/ Match(p) \/ Candidate(p)
    BY <1>2, <2>1 DEF Run, AcquireTimeout, Release, Crash, Delete, Match, Candidate
  <2>2. CASE Acquire(p)
    BY <1>2, <2>2 DEF Acquire
  <2>3. CASE Query(p)
    BY <1>2, <2>3 DEF Query
  <2>4. CASE Adopt(p) \/ Readback(p) \/ Save(p)
    BY <1>2, <2>4 DEF Adopt, Readback, Save
  <2>5. CASE Compare(p)
    BY <1>2, <2>5 DEF Compare
  <2>6. CASE pc[p] \in Writing /\ Step(p)
    BY <1>2, <2>6, RecordKept DEF Writing
  <2> QED
    BY <1>5, <2>1, <2>2, <2>3, <2>4, <2>5, <2>6 DEF Step, Read, Examine, Flush, WProtect, WUndo, WWrite,
       WClose, WCheck, PSet, PUndo, PCheck, VBytes, VProt, Writing
<1> QED BY <1>3, <1>4, <1>5

\* The instance that moves.
LEMMA OwnHome ==
  ASSUME IInv, LifeInv, DiskBorn, PageInv, NEW p \in Procs, InstanceHome(p),
         Run(p) \/ Step(p) \/ Crash(p)
  PROVE  InstanceHome(p)'
<1>1. explorer' = explorer /\ given' = given
  BY TouchesOwn
<1>2. OthersHome(p)'
  BY <1>1, TouchesOwn DEF OthersHome, InstanceHome, Reach
<1>3. HomeBeforeDelete(p)'
  BY <1>1, DeleteStep DEF HomeBeforeDelete
<1>4. Closed(p)'
  BY <1>1, ClosedStep DEF Closed
<1> QED BY <1>2, <1>3, <1>4, RecordHomeStep, OldHomeStep, LoadedBornStep DEF InstanceHome

\* The others are idle or wait, or it is they who hold the mutex.
LEMMA BystanderHome ==
  ASSUME IInv, NEW p \in Procs, NEW q \in Procs, q # p, InstanceHome(q),
         Run(p) \/ Step(p) \/ Crash(p)
  PROVE  InstanceHome(q)'
<1>1. pc'[q] = pc[q] /\ job'[q] = job[q]
  BY OthersKeep DEF IInv
<1>2. CASE pc[q] \notin Critical
  BY <1>1, <1>2 DEF InstanceHome, RecordHome, OldHome, OthersHome, HomeBeforeDelete, Closed,
     LoadedBorn, Loaded, Critical, Attached, Writing
<1>3. CASE pc[q] \in Critical
  <2>1. pc[p] \notin Critical
    BY <1>3 DEF IInv, InstanceInv, MutexHeld
  <2>2. UNCHANGED <<explorer, given, prot, losses, started>> /\ (faults' = 0 => faults = 0)
    BY <2>1, TouchesOwn, BytesOwn, FaultCount DEF Critical, Attached, Writing, IInv
  <2> QED
    BY <1>1, <2>2 DEF InstanceHome, RecordHome, OldHome, OthersHome, HomeBeforeDelete, Closed,
       LoadedBorn, Loaded, NamesRunning, Known
<1> QED BY <1>2, <1>3

\* Explorer exits or starts: the records in hand are of earlier runs.
LEMMA RestartHome ==
  ASSUME IInv, LifeInv, DiskBorn, HomeInv, ExplorerExit \/ ExplorerStart
  PROVE  HomeInv'
<1>ty. TypeOK /\ started \in Nat
  BY DEF IInv, TypeOK
<1>1. UNCHANGED <<pc, job, disk, faults, losses>>
  BY DEF ExplorerExit, ExplorerStart, budget
<1>2. prot' \in given' /\ started' \in {started, started + 1}
  BY DEF ExplorerExit, ExplorerStart
<1>3. explorer' # NoExplorer => explorer'.created = started + 1
  BY DEF ExplorerExit, ExplorerStart
<1>4. ASSUME NEW rec \in Record, rec.created <= started
      PROVE  ~(explorer' # NoExplorer /\ SameProcess(rec, explorer'))
  BY <1>ty, <1>3, <1>4 DEF SameProcess, Record
<1>5. PageInv'
  <2>1. ~(disk' \in Record /\ NamesRunning(disk)')
    BY <1>1, <1>4 DEF DiskBorn, NamesRunning
  <2> QED BY <1>2, <2>1 DEF PageInv, Known
<1>6. ASSUME NEW p \in Procs PROVE InstanceHome(p)'
  <2>ty. job[p] \in Job /\ InstanceInv(p) /\ Born(job[p].ctx)
    BY <1>ty DEF IInv, LifeInv, TypeOK
  <2>1. pc[p] \in Attached => explorer' # job[p].ctx
    <3>1. pc[p] \in Attached => job[p].ctx \in Explorer /\ job[p].ctx.created <= started
      BY <2>ty, TagAssumption DEF InstanceInv, OthersClean, Born
    <3> QED BY <1>ty, <1>3, <3>1, TagAssumption DEF Explorer
  <2>2. Loaded(p) \/ pc[p] \in {"readback", "save"} \cup Writing => ~NamesRunning(job[p].rec)'
    <3>1. CASE Loaded(p)
      <4>1. job[p].rec \in Record /\ job[p].rec.created <= started
        BY <2>ty, <3>1 DEF HomeInv, InstanceHome, LoadedBorn, InstanceInv, RecordSound, SoundRecord
      <4> QED BY <1>1, <1>4, <4>1 DEF NamesRunning
    <3>2. CASE pc[p] \in {"readback", "save"} \cup Writing
      <4>1. /\ job[p].rec \in Record /\ job[p].ctx \in Explorer
            /\ job[p].rec.created = job[p].ctx.created
        BY <2>ty, <3>2 DEF InstanceInv, RecordSound, SoundRecord, RecordNames, SameProcess, OthersClean,
           Recording, Writing, Attached
      <4>2. job[p].rec.created <= started
        BY <2>ty, <4>1, TagAssumption DEF Born
      <4> QED BY <1>1, <1>4, <4>1, <4>2 DEF NamesRunning
    <3> QED BY <3>1, <3>2
  <2>3. RecordHome(p)'
    BY <1>1, <2>1, <2>2 DEF RecordHome, HomeInv, InstanceHome, Loaded, Attached
  <2>4. OldHome(p)'
    BY <1>1, <2>1 DEF OldHome, Attached
  <2>5. LoadedBorn(p)'
    <3>1. Loaded(p) => job[p].rec.created <= started /\ job[p].rec.created \in Nat
      BY <2>ty DEF HomeInv, InstanceHome, LoadedBorn, InstanceInv, RecordSound, SoundRecord, Record
    <3> QED BY <1>ty, <1>1, <1>2, <3>1 DEF LoadedBorn, Loaded
  <2> QED BY <1>2, <2>3, <2>4, <2>5 DEF InstanceHome, OthersHome, HomeBeforeDelete, Closed
<1> QED BY <1>5, <1>6 DEF HomeInv

\* The rest of the machine.
LEMMA EnvironmentHome ==
  ASSUME IInv, LifeInv, DiskBorn, HomeInv, Environment
  PROVE  HomeInv'
<1>ty. TypeOK
  BY DEF IInv
<1>1. CASE ExplorerExit \/ ExplorerStart
  BY <1>1, RestartHome
<1>2. CASE Servicing \/ ForeignWrite
  <2>1. UNCHANGED <<explorer, started, given, prot, disk, owner, pc, job, faults, losses>>
    BY <1>2 DEF Servicing, ForeignWrite, shell, memory, budget
  <2> QED
    BY <2>1 DEF HomeInv, PageInv, Covered, InstanceHome, RecordHome, OldHome, OthersHome,
       HomeBeforeDelete, Closed, LoadedBorn, Loaded, NamesRunning, Known
<1>3. CASE ForeignProtect
  <2>1. /\ UNCHANGED <<explorer, started, disk, owner, pc, job, faults, losses>>
        /\ prot' \in given' /\ given' = given \cup {prot'}
    BY <1>3 DEF ForeignProtect
  <2> QED
    BY <2>1 DEF HomeInv, PageInv, InstanceHome, RecordHome, OldHome, OthersHome,
       HomeBeforeDelete, Closed, LoadedBorn, Loaded, NamesRunning, Known
<1>4. CASE StateLost
  <2>1. /\ disk' \notin Record /\ losses' # 0
        /\ UNCHANGED <<explorer, started, given, prot, owner, pc, job, faults>>
    BY <1>4, <1>ty, TagAssumption DEF StateLost, TypeOK, shell, memory
  <2> QED
    BY <2>1 DEF HomeInv, PageInv, InstanceHome, RecordHome, OldHome, OthersHome,
       HomeBeforeDelete, Closed, LoadedBorn, Loaded, NamesRunning, Known
<1> QED BY <1>1, <1>2, <1>3, <1>4 DEF Environment

LEMMA HomeInvariance == Spec => []HomeInv
<1>1. Init => HomeInv
  BY TagAssumption DEF Init, HomeInv, PageInv, Known, InstanceHome, RecordHome, OldHome, OthersHome,
     HomeBeforeDelete, Closed, LoadedBorn, Loaded, IdleJob, Attached, Critical, Writing
<1>2. ASSUME IInv, LifeInv, DiskBorn, HomeInv, [Next]_vars PROVE HomeInv'
  <2>1. CASE UNCHANGED vars
    BY <1>2, <2>1 DEF vars, HomeInv, PageInv, Covered, InstanceHome, RecordHome, OldHome, OthersHome,
       HomeBeforeDelete, Closed, LoadedBorn, Loaded, NamesRunning, Known
  <2>2. ASSUME NEW p \in Procs, Run(p) \/ Step(p) \/ Crash(p) PROVE HomeInv'
    <3>1. PageInv /\ \A q \in Procs : InstanceHome(q)
      BY <1>2 DEF HomeInv
    <3>2. PageInv'
      BY <1>2, <2>2, <3>1, PageStep
    <3>3. ASSUME NEW q \in Procs PROVE InstanceHome(q)'
      BY <1>2, <2>2, <3>1, OwnHome, BystanderHome
    <3> QED BY <3>2, <3>3 DEF HomeInv
  <2>3. CASE Environment
    BY <1>2, <2>3, EnvironmentHome
  <2> QED BY <1>2, <2>1, <2>2, <2>3 DEF Next
<1> QED
  BY <1>1, <1>2, Invariance, LifeInvariance, DiskBornInvariance, PTL DEF Spec

\* A protection that only an instance has set is on the page only under a record
\* that puts back one of the loader's or of another program's, whatever was killed
\* or failed and whenever they have changed it; and if nothing was, it is there
\* only while an instance holds the mutex.
THEOREM HomeAlwaysCovers == Spec => []HomeCovers
<1>1. HomeInv => HomeCovers
  BY DEF HomeInv, PageInv, HomeCovers, Covered, NamesRunning, SameProcess
<1> QED
  BY <1>1, HomeInvariance, PTL

------------------------------------------------------------------------------
(* Every instance returns: what can be said of Terminates without fairness *)

\* How many calls may come behind the one that an instance is about to make, if
\* it is not sent back to read Explorer again.
Behind(p) ==
  CASE At(p, "acquire")    -> 25
    [] At(p, "load")       -> 24
    [] At(p, "find")       -> 23
    [] At(p, "attach")     -> 22
    [] At(p, "match")      -> 21
    [] At(p, "candidate")  -> 20
    [] At(p, "query")      -> 19
    [] At(p, "adopt")      -> 18
    [] At(p, "readback")   -> 17
    [] At(p, "save")       -> 16
    [] At(p, "compare")    -> 15
    [] At(p, "read")       -> 14
    [] At(p, "examine")    -> 13
    [] At(p, "p_set")      -> 12
    [] At(p, "p_undo")     -> 11
    [] At(p, "p_check")    -> 10
    [] At(p, "w_protect")  -> 9
    [] At(p, "w_undo")     -> 8
    [] At(p, "w_write")    -> 7
    [] At(p, "w_close")    -> 6
    [] At(p, "w_check")    -> 5
    [] At(p, "flush")      -> 4
    [] At(p, "v_bytes")    -> 3
    [] At(p, "v_prot")     -> 2
    [] At(p, "delete")     -> 1
    [] At(p, "release")    -> 0
    [] OTHER -> 0

\* The only way back is from the apply to its rollback.
CallsLeft(p) ==
  CASE pc[p] = "idle" -> 0
    [] pc[p] # "idle" /\ job[p].phase = "apply" -> Behind(p) + 27
    [] OTHER -> Behind(p) + 1

CallsRunOut ==
  [][\A p \in Procs :
       /\ Step(p) => CallsLeft(p)' < CallsLeft(p)
       /\ CallsLeft(p)' > CallsLeft(p) => Run(p)]_vars

LEMMA CallsLeftType ==
  ASSUME TypeOK, NEW p \in Procs
  PROVE  CallsLeft(p) \in 0..52 /\ (CallsLeft(p) = 0 <=> pc[p] = "idle")
<1>1. Behind(p) \in 0..25
  BY DEF Behind
<1> QED BY <1>1 DEF CallsLeft
\* A step goes on in the order of Behind, or leaves the apply for its rollback.
LEMMA StepOnward ==
  ASSUME TypeOK, NEW p \in Procs, Step(p)
  PROVE  \/ pc[p] # "idle" /\ pc'[p] = "idle"
         \/ /\ pc[p] # "idle" /\ pc'[p] # "idle" /\ Behind(p)' < Behind(p)
            /\ job'[p].phase = "apply" => job[p].phase = "apply"
         \/ /\ pc[p] # "idle" /\ pc'[p] # "idle"
            /\ job[p].phase = "apply" /\ job'[p].phase = "rollback"
<1>ty. job[p] \in Job
  BY DEF TypeOK
<1> USE <1>ty, OwnEffect, FinishEffect DEF At, Job, Behind
<1>1. CASE Acquire(p) \/ AcquireTimeout(p) \/ Load(p) \/ Find(p) \/ Release(p) \/ Delete(p)
  BY <1>1 DEF Acquire, AcquireTimeout, Load, Find, Release, Delete
<1>2. CASE Attach(p) \/ Match(p) \/ Candidate(p)
  BY <1>2 DEF Attach, Match, Candidate
<1>3. CASE Query(p)
  <2> DEFINE c == job[p].ctx
             r == [pid |-> c.pid, created |-> c.created, image |-> job[p].file,
                   original |-> Original[job[p].file], prot |-> prot]
             j == [job[p] EXCEPT !.obs = prot, !.rec = r]
  <2>1. \/ \E o : Finish(p, o)
        \/ pc'[p] \in {"adopt", "readback"} /\ job'[p] = j
    BY <1>3 DEF Query
  <2>2. j.phase = job[p].phase /\ pc[p] = "query"
    BY <1>3 DEF Query
  <2> HIDE DEF j
  <2> QED BY <2>1, <2>2
<1>4. CASE Adopt(p)
  <2>1. /\ pc[p] = "adopt"
        /\ \/ \E o : Finish(p, o)
           \/ pc'[p] \in {"p_set", "v_bytes", "save"} /\ job'[p].phase \in {"repair", "adopt"}
    <3> HIDE DEF Behind
    <3> QED BY <1>4 DEF Adopt
  <2> QED BY <2>1
<1>5. CASE Readback(p) \/ Save(p)
  BY <1>5 DEF Readback, Save
<1>6. CASE Compare(p)
  BY <1>6 DEF Compare
<1>7. CASE Read(p) \/ Examine(p) \/ Flush(p)
  BY <1>7 DEF Read, Examine, ProtectionInOrder, Flush
<1>8. CASE WProtect(p)
  <2>1. /\ pc[p] = "w_protect"
        /\ \/ WriteFailed(p)
           \/ pc'[p] \in {"w_write", "w_undo"} /\ job'[p].phase = job[p].phase
    <3> HIDE DEF Behind
    <3>1. CASE WriteFailed(p)
      BY <1>8, <3>1 DEF WProtect
    <3>2. CASE ~WriteFailed(p)
      <4>1. /\ Goto(p, IF prot = job[p].rec.prot THEN "w_write" ELSE "w_undo")
            /\ Local(p, [job[p] EXCEPT !.old = prot, !.err = FALSE])
        BY <1>8, <3>2 DEF WProtect
      <4>2. job'[p] = [job[p] EXCEPT !.old = prot, !.err = FALSE]
        BY <4>1
      <4>3. job'[p].phase = job[p].phase
        BY <4>2
      <4> QED BY <1>8, <4>1, <4>3 DEF WProtect
    <3> QED BY <3>1, <3>2
  <2> QED BY <2>1 DEF WriteFailed
<1>11. CASE WUndo(p) \/ WCheck(p)
  BY <1>11 DEF WUndo, WCheck, WriteFailed, WriteDone
<1>12. CASE WWrite(p) \/ WClose(p)
  BY <1>12 DEF WWrite, WClose
<1>9. CASE PSet(p) \/ PUndo(p) \/ PCheck(p)
  BY <1>9 DEF PSet, PUndo, PCheck, ProtectionInOrder
<1>10. CASE VBytes(p) \/ VProt(p)
  BY <1>10 DEF VBytes, VProt, VerifyFailed, VerifyDone
<1> QED
  BY <1>1, <1>2, <1>3, <1>4, <1>5, <1>6, <1>7, <1>8, <1>9, <1>10, <1>11, <1>12 DEF Step

\* An instance of Apply or Restore makes fifty-two calls at most, however often
\* Explorer restarts, another program interferes, other instances come and go or
\* calls fail under it: no retry, no loop, and one rollback.
THEOREM TransactionRunsOut ==
  Spec => CallsRunOut /\ [](\A p \in Procs : CallsLeft(p) \in 0..52 /\ (CallsLeft(p) = 0 <=> pc[p] = "idle"))
<1> DEFINE Down == \A p \in Procs :
      /\ Step(p) => CallsLeft(p)' < CallsLeft(p)
      /\ CallsLeft(p)' > CallsLeft(p) => Run(p)
           Range == \A p \in Procs :
      CallsLeft(p) \in 0..52 /\ (CallsLeft(p) = 0 <=> pc[p] = "idle")
<1>1. TypeOK => Range
  BY CallsLeftType
<1>2. ASSUME TypeOK, NEW p \in Procs, Step(p) PROVE CallsLeft(p)' < CallsLeft(p)
  <2>1. Behind(p) \in 0..25 /\ Behind(p)' \in 0..25
    BY DEF Behind
  <2> QED BY <1>2, <2>1, StepOnward DEF CallsLeft
<1>3. TypeOK /\ [Next]_vars => [Down]_vars
  <2> SUFFICES ASSUME TypeOK, Next, NEW p \in Procs
               PROVE  /\ Step(p) => CallsLeft(p)' < CallsLeft(p)
                      /\ CallsLeft(p)' > CallsLeft(p) => Run(p)
    OBVIOUS
  <2>1. CallsLeft(p) \in 0..52 /\ CallsLeft(p)' \in 0..52
    <3>1. CallsLeft(p)' \in 0..52
      BY DEF CallsLeft, Behind
    <3> QED BY <3>1, CallsLeftType
  <2>2. CASE Run(p)
    BY <1>2, <2>1, <2>2
  <2>3. CASE Step(p)
    BY <1>2, <2>1, <2>3
  <2>4. CASE ~Run(p) /\ ~Step(p)
    <3>1. CASE Crash(p)
      <4>1. pc'[p] = "idle"
        BY <3>1, OwnEffect DEF Crash
      <4>2. CallsLeft(p)' = 0
        BY <4>1 DEF CallsLeft
      <4> QED BY <2>1, <2>4, <4>2
    <3>2. CASE ~Crash(p)
      <4>1. pc'[p] = pc[p] /\ job'[p] = job[p]
        BY <2>4, <3>2, OthersKeep, EnvironmentKeeps DEF Next
      <4>2. CallsLeft(p)' = CallsLeft(p)
        BY <4>1 DEF CallsLeft, Behind, At
      <4> QED BY <2>1, <2>4, <4>2
    <3> QED BY <3>1, <3>2
  <2> QED BY <2>2, <2>3, <2>4
<1>4. IInv => TypeOK
  BY DEF IInv
<1> QED
  BY <1>1, <1>3, <1>4, Invariance, PTL DEF Spec, CallsRunOut
==============================================================================
