------------------------- MODULE ExplorerAttachProofs -------------------------
(***************************************************************************)
(* Proofs about ExplorerAttach, for any number of processes, sessions,     *)
(* images and seconds to wait: what open_context returns is about one      *)
(* process, because a pid stays with its owner while a handle is open.     *)
(***************************************************************************)
EXTENDS ExplorerAttach, TLAPS

\* No two running processes have the same pid.
PidsUnique == \A a, b \in running : a.pid = b.pid => a = b

\* The labels at which context->explorer is open, and from each check on.
Opened == {"name", "times", "machine", "module", "headers", "file", "policy", "attached"}
Named  == Opened \ {"name"}
Dated  == Named \ {"times"}
Fitted == Dated \ {"machine"}
Found  == Fitted \ {"module"}
Read   == Found \ {"headers"}

\* A handle is open exactly between OpenProcess and a failure, and whoever has
\* the pid is the process it is open on.
Pinned ==
  /\ pc \notin Opened => handle = Nobody /\ image = Nobody
  /\ pc \in Opened =>
       /\ handle \in Process /\ handle.pid = pid
       /\ \A proc \in running : proc.pid = pid => proc = handle

\* What has been checked so far is true of that process.
Gathered ==
  /\ pc \in Named => handle.canonical
  /\ pc \in Dated => created = handle.born
  /\ pc \in Fitted => handle.native
  /\ pc \in Found => module = handle
  /\ pc \in Read => loaded = handle.image
  /\ pc \in {"policy", "attached"} /\ matching => image = handle.image

\* The session was checked for the owner of the pid, then and until it is opened.
InSession ==
  ~swapped =>
    /\ pc = "open" => \A proc \in running : proc.pid = pid => proc.session = Own
    /\ pc \in Opened => handle.session = Own

\* The clock of wait_for_explorer_pid.
Watched ==
  /\ desktop = Nobody <=> present = Nobody
  /\ present # Nobody => present \in 0..slept
  /\ said = "absent" => pc = "failed"

AttachInv ==
  /\ TypeOK /\ PidsUnique /\ Pinned /\ Gathered /\ InSession /\ Watched /\ LooksToTheEnd

LEMMA InitAttach == Init => AttachInv
<1> SUFFICES ASSUME Init PROVE AttachInv
  OBVIOUS
<1>1. TypeOK
  <2>1. 0 \in 0..MaxBirths /\ 0 \in 0..WaitSeconds /\ 1 \in 1..MaxAttempts
    BY AttachAssumption
  <2> QED BY <2>1 DEF Init, TypeOK, Labels
<1>2. PidsUnique /\ Watched /\ LooksToTheEnd
  BY DEF Init, PidsUnique, Watched, LooksToTheEnd
<1>3. Pinned /\ Gathered /\ InSession
  BY DEF Init, Pinned, Gathered, InSession, Opened, Named, Dated, Fitted, Found, Read
<1> QED BY <1>1, <1>2, <1>3 DEF AttachInv

LEMMA TypeStep == AttachInv /\ [Next]_vars => TypeOK'
<1> SUFFICES ASSUME AttachInv, [Next]_vars PROVE TypeOK'
  OBVIOUS
<1> USE AttachAssumption DEF AttachInv, TypeOK, Labels
<1>1. CASE Start
  BY <1>1 DEF Start, Owner, context, Process
<1>2. CASE Exit
  BY <1>2 DEF Exit, context, Process
<1>3. CASE Register
  BY <1>3 DEF Register, context, Process
<1>4. CASE Servicing
  BY <1>4 DEF Servicing, context, history
<1>5. CASE Poll
  BY <1>5 DEF Poll, system, history
<1>6. CASE Session
  BY <1>6 DEF Session, context, system, history, Owner
<1>7. CASE OpenProcess
  BY <1>7 DEF OpenProcess, system, history, Owner
<1>8. CASE Name
  BY <1>8 DEF Name, Abandon, Proceed, context, system, history, Owner
<1>9. CASE Times
  BY <1>9 DEF Process, Opened, Pinned, Times, Abandon, Proceed, context, system, history, Owner
<1>10. CASE Machine
  BY <1>10 DEF Machine, Abandon, Proceed, context, system, history, Owner
<1>11. CASE Module
  BY <1>11 DEF Module, Abandon, Proceed, context, system, history, Owner
<1>12. CASE Headers
  BY <1>12 DEF Process, Opened, Pinned, Headers, Abandon, Proceed, context, system, history, Owner
<1>13. CASE File
  BY <1>13 DEF File, Abandon, Proceed, context, system, history, Owner
<1>14. CASE Policy
  BY <1>14 DEF Policy, Abandon, Proceed, context, system, history, Owner
<1>15. CASE UNCHANGED vars
  BY <1>15 DEF vars
<1> QED BY <1>1, <1>2, <1>3, <1>4, <1>5, <1>6, <1>7, <1>8, <1>9, <1>10, <1>11, <1>12, <1>13, <1>14, <1>15 DEF Next, Step, Environment

LEMMA PidsUniqueStep == AttachInv /\ [Next]_vars => PidsUnique'
<1> SUFFICES ASSUME AttachInv, [Next]_vars PROVE PidsUnique'
  OBVIOUS
<1> USE AttachAssumption DEF AttachInv, PidsUnique
<1>1. CASE Start
  BY <1>1 DEF Start, Owner, context
<1>2. CASE Exit
  BY <1>2 DEF Exit, context
<1>3. CASE Register
  BY <1>3 DEF Register, context
<1>4. CASE Servicing
  BY <1>4 DEF Servicing, context, history
<1>5. CASE Poll
  BY <1>5 DEF Poll, system, history
<1>6. CASE Session
  BY <1>6 DEF Session, context, system, history, Owner
<1>7. CASE OpenProcess
  BY <1>7 DEF OpenProcess, system, history, Owner
<1>8. CASE Name
  BY <1>8 DEF Name, Abandon, Proceed, context, system, history, Owner
<1>9. CASE Times
  BY <1>9 DEF Times, Abandon, Proceed, context, system, history, Owner
<1>10. CASE Machine
  BY <1>10 DEF Machine, Abandon, Proceed, context, system, history, Owner
<1>11. CASE Module
  BY <1>11 DEF Module, Abandon, Proceed, context, system, history, Owner
<1>12. CASE Headers
  BY <1>12 DEF Headers, Abandon, Proceed, context, system, history, Owner
<1>13. CASE File
  BY <1>13 DEF File, Abandon, Proceed, context, system, history, Owner
<1>14. CASE Policy
  BY <1>14 DEF Policy, Abandon, Proceed, context, system, history, Owner
<1>15. CASE UNCHANGED vars
  BY <1>15 DEF vars
<1> QED BY <1>1, <1>2, <1>3, <1>4, <1>5, <1>6, <1>7, <1>8, <1>9, <1>10, <1>11, <1>12, <1>13, <1>14, <1>15 DEF Next, Step, Environment

LEMMA PinnedStep == AttachInv /\ [Next]_vars => Pinned'
<1> SUFFICES ASSUME AttachInv, [Next]_vars PROVE Pinned'
  OBVIOUS
<1> USE AttachAssumption DEF AttachInv, Pinned, PidsUnique, Opened, TypeOK
<1>1. CASE Start
  BY <1>1 DEF Start, Owner, context
<1>2. CASE Exit
  BY <1>2 DEF Exit, context
<1>3. CASE Register
  BY <1>3 DEF Register, context
<1>4. CASE Servicing
  BY <1>4 DEF Servicing, context, history
<1>5. CASE Poll
  BY <1>5 DEF Poll, system, history
<1>6. CASE Session
  BY <1>6 DEF Session, context, system, history, Owner
<1>7. CASE OpenProcess
  BY <1>7 DEF OpenProcess, system, history, Owner
<1>8. CASE Name
  BY <1>8 DEF Name, Abandon, Proceed, context, system, history, Owner
<1>9. CASE Times
  BY <1>9 DEF Times, Abandon, Proceed, context, system, history, Owner
<1>10. CASE Machine
  BY <1>10 DEF Machine, Abandon, Proceed, context, system, history, Owner
<1>11. CASE Module
  BY <1>11 DEF Module, Abandon, Proceed, context, system, history, Owner
<1>12. CASE Headers
  BY <1>12 DEF Headers, Abandon, Proceed, context, system, history, Owner
<1>13. CASE File
  BY <1>13 DEF File, Abandon, Proceed, context, system, history, Owner
<1>14. CASE Policy
  BY <1>14 DEF Policy, Abandon, Proceed, context, system, history, Owner
<1>15. CASE UNCHANGED vars
  BY <1>15 DEF vars
<1> QED BY <1>1, <1>2, <1>3, <1>4, <1>5, <1>6, <1>7, <1>8, <1>9, <1>10, <1>11, <1>12, <1>13, <1>14, <1>15 DEF Next, Step, Environment

LEMMA GatheredStep == AttachInv /\ [Next]_vars => Gathered'
<1> SUFFICES ASSUME AttachInv, [Next]_vars PROVE Gathered'
  OBVIOUS
<1> USE AttachAssumption DEF AttachInv, Gathered, Pinned, Opened, Named, Dated, Fitted, Found, Read
<1>1. CASE Start
  BY <1>1 DEF Start, Owner, context
<1>2. CASE Exit
  BY <1>2 DEF Exit, context
<1>3. CASE Register
  BY <1>3 DEF Register, context
<1>4. CASE Servicing
  BY <1>4 DEF Servicing, context, history
<1>5. CASE Poll
  BY <1>5 DEF Poll, system, history
<1>6. CASE Session
  BY <1>6 DEF Session, context, system, history, Owner
<1>7. CASE OpenProcess
  BY <1>7 DEF OpenProcess, system, history, Owner
<1>8. CASE Name
  BY <1>8 DEF Name, Abandon, Proceed, context, system, history, Owner
<1>9. CASE Times
  BY <1>9 DEF Times, Abandon, Proceed, context, system, history, Owner
<1>10. CASE Machine
  BY <1>10 DEF Machine, Abandon, Proceed, context, system, history, Owner
<1>11. CASE Module
  BY <1>11 DEF Module, Abandon, Proceed, context, system, history, Owner
<1>12. CASE Headers
  BY <1>12 DEF Headers, Abandon, Proceed, context, system, history, Owner
<1>13. CASE File
  BY <1>13 DEF File, Abandon, Proceed, context, system, history, Owner
<1>14. CASE Policy
  BY <1>14 DEF Policy, Abandon, Proceed, context, system, history, Owner
<1>15. CASE UNCHANGED vars
  BY <1>15 DEF vars
<1> QED BY <1>1, <1>2, <1>3, <1>4, <1>5, <1>6, <1>7, <1>8, <1>9, <1>10, <1>11, <1>12, <1>13, <1>14, <1>15 DEF Next, Step, Environment

LEMMA InSessionStep == AttachInv /\ [Next]_vars => InSession'
<1> SUFFICES ASSUME AttachInv, [Next]_vars PROVE InSession'
  OBVIOUS
<1> USE AttachAssumption DEF AttachInv, InSession, Pinned, Opened
<1>1. CASE Start
  <2>1. PICK p \in Pids, proc \in Process :
          /\ proc.pid = p /\ running' = running \cup {proc}
          /\ handle # Nobody => handle.pid # p
          /\ swapped' = (swapped \/ (pc = "open" /\ p = pid))
    <3>1. PICK p \in Pids, s \in Sessions, canonical \in BOOLEAN, native \in BOOLEAN :
            /\ handle # Nobody => handle.pid # p
            /\ running' = running \cup {[pid |-> p, session |-> s, canonical |-> canonical,
                                         native |-> native, born |-> births + 1, image |-> onDisk]}
            /\ swapped' = (swapped \/ (pc = "open" /\ p = pid))
      BY <1>1 DEF Start
    <3>2. births + 1 \in 1..MaxBirths
      BY <1>1 DEF Start, TypeOK
    <3> DEFINE new == [pid |-> p, session |-> s, canonical |-> canonical,
                       native |-> native, born |-> births + 1, image |-> onDisk]
    <3>3. new \in Process /\ new.pid = p
      BY <3>2 DEF Process, TypeOK
    <3> QED BY <3>1, <3>3
  <2>2. UNCHANGED <<pc, pid, handle>>
    BY <1>1 DEF Start, context
  <2> QED BY <2>1, <2>2
<1>2. CASE Exit
  BY <1>2 DEF Exit, context
<1>3. CASE Register
  BY <1>3 DEF Register, context
<1>4. CASE Servicing
  BY <1>4 DEF Servicing, context, history
<1>5. CASE Poll
  BY <1>5 DEF Poll, system, history
<1>6. CASE Session
  BY <1>6 DEF PidsUnique, Session, context, system, history, Owner
<1>7. CASE OpenProcess
  BY <1>7 DEF OpenProcess, system, history, Owner
<1>8. CASE Name
  BY <1>8 DEF Name, Abandon, Proceed, context, system, history, Owner
<1>9. CASE Times
  BY <1>9 DEF Times, Abandon, Proceed, context, system, history, Owner
<1>10. CASE Machine
  BY <1>10 DEF Machine, Abandon, Proceed, context, system, history, Owner
<1>11. CASE Module
  BY <1>11 DEF Module, Abandon, Proceed, context, system, history, Owner
<1>12. CASE Headers
  BY <1>12 DEF Headers, Abandon, Proceed, context, system, history, Owner
<1>13. CASE File
  BY <1>13 DEF File, Abandon, Proceed, context, system, history, Owner
<1>14. CASE Policy
  BY <1>14 DEF Policy, Abandon, Proceed, context, system, history, Owner
<1>15. CASE UNCHANGED vars
  BY <1>15 DEF vars
<1> QED BY <1>1, <1>2, <1>3, <1>4, <1>5, <1>6, <1>7, <1>8, <1>9, <1>10, <1>11, <1>12, <1>13, <1>14, <1>15 DEF Next, Step, Environment

LEMMA WatchedStep == AttachInv /\ [Next]_vars => Watched'
<1> SUFFICES ASSUME AttachInv, [Next]_vars PROVE Watched'
  OBVIOUS
<1> USE AttachAssumption DEF AttachInv, Watched, TypeOK
<1>1. CASE Start
  BY <1>1 DEF Start, Owner, context
<1>2. CASE Exit
  BY <1>2 DEF Exit, context
<1>3. CASE Register
  <2>1. desktop' \in Pids /\ present' = slept /\ slept \in Nat
    BY <1>3 DEF Register, Process
  <2> QED BY <1>3, <2>1 DEF Register
<1>4. CASE Servicing
  BY <1>4 DEF Servicing, context, history
<1>5. CASE Poll
  BY <1>5 DEF Poll, system, history
<1>6. CASE Session
  BY <1>6 DEF Session, context, system, history, Owner
<1>7. CASE OpenProcess
  BY <1>7 DEF OpenProcess, system, history, Owner
<1>8. CASE Name
  BY <1>8 DEF Name, Abandon, Proceed, context, system, history, Owner
<1>9. CASE Times
  BY <1>9 DEF Times, Abandon, Proceed, context, system, history, Owner
<1>10. CASE Machine
  BY <1>10 DEF Machine, Abandon, Proceed, context, system, history, Owner
<1>11. CASE Module
  BY <1>11 DEF Module, Abandon, Proceed, context, system, history, Owner
<1>12. CASE Headers
  BY <1>12 DEF Headers, Abandon, Proceed, context, system, history, Owner
<1>13. CASE File
  BY <1>13 DEF File, Abandon, Proceed, context, system, history, Owner
<1>14. CASE Policy
  BY <1>14 DEF Policy, Abandon, Proceed, context, system, history, Owner
<1>15. CASE UNCHANGED vars
  BY <1>15 DEF vars
<1> QED BY <1>1, <1>2, <1>3, <1>4, <1>5, <1>6, <1>7, <1>8, <1>9, <1>10, <1>11, <1>12, <1>13, <1>14, <1>15 DEF Next, Step, Environment

LEMMA LooksToTheEndStep == AttachInv /\ [Next]_vars => LooksToTheEnd'
<1> SUFFICES ASSUME AttachInv, [Next]_vars PROVE LooksToTheEnd'
  OBVIOUS
<1> USE AttachAssumption DEF AttachInv, LooksToTheEnd, Watched, TypeOK
<1>1. CASE Start
  BY <1>1 DEF Start, Owner, context
<1>2. CASE Exit
  BY <1>2 DEF Exit, context
<1>3. CASE Register
  BY <1>3 DEF Register, context
<1>4. CASE Servicing
  BY <1>4 DEF Servicing, context, history
<1>5. CASE Poll
  BY <1>5 DEF Poll, system, history
<1>6. CASE Session
  BY <1>6 DEF Session, context, system, history, Owner
<1>7. CASE OpenProcess
  BY <1>7 DEF OpenProcess, system, history, Owner
<1>8. CASE Name
  BY <1>8 DEF Name, Abandon, Proceed, context, system, history, Owner
<1>9. CASE Times
  BY <1>9 DEF Times, Abandon, Proceed, context, system, history, Owner
<1>10. CASE Machine
  BY <1>10 DEF Machine, Abandon, Proceed, context, system, history, Owner
<1>11. CASE Module
  BY <1>11 DEF Module, Abandon, Proceed, context, system, history, Owner
<1>12. CASE Headers
  BY <1>12 DEF Headers, Abandon, Proceed, context, system, history, Owner
<1>13. CASE File
  BY <1>13 DEF File, Abandon, Proceed, context, system, history, Owner
<1>14. CASE Policy
  BY <1>14 DEF Policy, Abandon, Proceed, context, system, history, Owner
<1>15. CASE UNCHANGED vars
  BY <1>15 DEF vars
<1> QED BY <1>1, <1>2, <1>3, <1>4, <1>5, <1>6, <1>7, <1>8, <1>9, <1>10, <1>11, <1>12, <1>13, <1>14, <1>15 DEF Next, Step, Environment

LEMMA AlwaysAttachInv == Spec => []AttachInv
<1>1. AttachInv /\ [Next]_vars => AttachInv'
  BY TypeStep, PidsUniqueStep, PinnedStep, GatheredStep, InSessionStep, WatchedStep,
     LooksToTheEndStep DEF AttachInv
<1> QED BY <1>1, InitAttach, PTL DEF Spec

\* Every variable of open_context keeps its type, and no loop runs over its bound.
THEOREM AttachTypeCorrect == Spec => []TypeOK
<1>1. AttachInv => TypeOK
  BY DEF AttachInv
<1> QED BY <1>1, AlwaysAttachInv, PTL

\* What open_context returns is exact, however pids are reused meanwhile.
THEOREM ContextIsExact == Spec => []ContextExact
<1>1. AttachInv => ContextExact
  BY DEF AttachInv, ContextExact, Pinned, Gathered, InSession, Opened, Named, Dated, Fitted, Found, Read
<1> QED BY <1>1, AlwaysAttachInv, PTL

\* The wait for Explorer uses all of its time.
THEOREM WaitIsWhole == Spec => []LooksToTheEnd
<1>1. AttachInv => LooksToTheEnd
  BY DEF AttachInv
<1> QED BY <1>1, AlwaysAttachInv, PTL

------------------------------------------------------------------------------
(* The three steps *)

LEMMA StagesAttach == AttachInv /\ [Next]_vars => [Steps!Next]_(Steps!vars)
<1> SUFFICES ASSUME AttachInv, [Next]_vars PROVE Steps!Next \/ UNCHANGED Steps!vars
  OBVIOUS
<1> USE DEF AttachInv, Steps!vars, Stage, Opened
<1>1. CASE Environment \/ UNCHANGED vars
  BY <1>1 DEF Environment, Start, Exit, Register, Servicing, context, vars
<1>2. CASE Poll
  <2>1. handle = Nobody /\ handle' = Nobody /\ UNCHANGED matching
    BY <1>2 DEF Poll, Pinned
  <2>2. CASE pc' = "session"
    <3>1. desktop # Nobody /\ pid' = desktop
      BY <1>2, <2>2 DEF Poll
    <3>2. Steps!Find
      BY <1>2, <2>1, <2>2, <3>1 DEF Poll, Steps!Find
    <3> QED BY <3>2 DEF Steps!Next
  <2>3. CASE pc' = "poll"
    BY <1>2, <2>1, <2>3 DEF Poll
  <2>4. CASE pc' = "failed"
    <3>1. Steps!Fail
      BY <1>2, <2>1, <2>4 DEF Poll, Steps!Fail
    <3> QED BY <3>1 DEF Steps!Next
  <2> QED BY <1>2, <2>2, <2>3, <2>4 DEF Poll
<1>3. CASE Session
  <2>1. handle = Nobody /\ handle' = Nobody /\ UNCHANGED <<matching, pid>>
    BY <1>3 DEF Session, Pinned, context
  <2>2. CASE pc' = "open"
    BY <1>3, <2>1, <2>2 DEF Session
  <2>3. CASE pc' = "failed"
    <3>1. Steps!Fail
      BY <1>3, <2>1, <2>3 DEF Session, Steps!Fail
    <3> QED BY <3>1 DEF Steps!Next
  <2> QED BY <1>3, <2>2, <2>3 DEF Session
<1>4. CASE OpenProcess
  <2>1. handle = Nobody /\ UNCHANGED <<matching, pid>>
    BY <1>4 DEF OpenProcess, Pinned
  <2>2. CASE pc' = "name" /\ Eligible(handle')
    <3>1. handle' \in running /\ handle'.pid = pid /\ handle' # Nobody
      BY <1>4, <2>2, AttachAssumption DEF OpenProcess, Owner, TypeOK
    <3>2. Steps!Attach
      BY <1>4, <2>1, <2>2, <3>1 DEF OpenProcess, Steps!Attach
    <3> QED BY <3>2 DEF Steps!Next
  <2>3. CASE pc' = "name" /\ ~Eligible(handle')
    BY <1>4, <2>1, <2>3 DEF OpenProcess
  <2>4. CASE pc' = "failed"
    <3>1. Steps!Fail
      BY <1>4, <2>1, <2>4 DEF OpenProcess, Steps!Fail
    <3> QED BY <3>1 DEF Steps!Next
  <2> QED BY <1>4, <2>2, <2>3, <2>4 DEF OpenProcess
<1>5. CASE Abandon /\ pc \in Opened \ {"policy", "attached"}
  <2>1. Steps!Fail
    BY <1>5 DEF Abandon, Steps!Fail
  <2> QED BY <2>1 DEF Steps!Next
<1>6. CASE ~Abandon /\ (Name \/ Times \/ Machine \/ Module)
  BY <1>6 DEF Name, Times, Machine, Module, Proceed, context
<1>7. CASE ~Abandon /\ Headers /\ matching
  BY <1>7 DEF Headers, Proceed
<1>8. CASE ~Abandon /\ Headers /\ ~matching
  <2>1. handle # Nobody /\ Eligible(handle) /\ UNCHANGED <<matching, pid, handle>>
    BY <1>8, AttachAssumption DEF Headers, Pinned, Gathered, Named, Fitted, Dated, Eligible
  <2>2. pc = "headers" /\ pc' = "policy"
    BY <1>8 DEF Headers, Proceed
  <2>3. Steps!Match
    BY <1>8, <2>1, <2>2 DEF Steps!Match
  <2> QED BY <2>3 DEF Steps!Next
<1>9. CASE ~Abandon /\ File
  <2>1. handle # Nobody /\ Eligible(handle) /\ UNCHANGED <<matching, pid, handle>>
    BY <1>9, AttachAssumption DEF File, Pinned, Gathered, Named, Fitted, Dated, Eligible
  <2>2. pc = "file" /\ pc' = "policy" /\ handle.image = onDisk
    BY <1>9 DEF File, Proceed, Gathered, Named, Fitted, Dated, Found, Read
  <2>3. Steps!Match
    BY <2>1, <2>2 DEF Steps!Match
  <2> QED BY <2>3 DEF Steps!Next
<1>10. CASE Policy
  BY <1>10 DEF Policy, Proceed, context
<1> QED
  BY <1>1, <1>2, <1>3, <1>4, <1>5, <1>6, <1>7, <1>8, <1>9, <1>10
     DEF Next, Step, Name, Times, Machine, Module, Headers, File

\* open_context, eight calls long while anything may happen to the processes, the
\* desktop and the disk, is the Find, Attach and Match of PatchTransaction: it is
\* as if the process had been looked at once, when it was opened.
THEOREM AttachesInThreeSteps == Spec => ImplementsAttachment
<1>1. Init => Steps!Init
  BY DEF Init, Steps!Init, Stage
<1> QED
  BY <1>1, StagesAttach, AlwaysAttachInv, PTL DEF Spec, ImplementsAttachment, Steps!Spec

------------------------------------------------------------------------------
(* Every call of open_context returns *)

\* How many calls and sleeps are left at most.
CallsLeft ==
  (CASE pc = "poll"    -> 10
     [] pc = "session" -> 9
     [] pc = "open"    -> 8
     [] pc = "name"    -> 7
     [] pc = "times"   -> 6
     [] pc = "machine" -> 5
     [] pc = "module"  -> 4
     [] pc = "headers" -> 3
     [] pc = "file"    -> 2
     [] pc = "policy"  -> 1
     [] OTHER -> 0)
  + (WaitSeconds - slept) + (MaxAttempts - attempt)

CallsRunOut ==
  [][/\ Step => CallsLeft' < CallsLeft
     /\ Environment => CallsLeft' = CallsLeft]_vars

\* open_context comes to an end after --wait, the retries of the snapshot and
\* ten calls, whatever the processes do: a pid that is handed around does not
\* send it back to look for the desktop again.
THEOREM AttachRunsOut ==
  Spec => CallsRunOut /\ [](CallsLeft \in 0..(10 + WaitSeconds + MaxAttempts - 1))
<1> DEFINE Down == /\ Step => CallsLeft' < CallsLeft
                   /\ Environment => CallsLeft' = CallsLeft
           Range == CallsLeft \in 0..(10 + WaitSeconds + MaxAttempts - 1)
<1>1. AttachInv => Range
  BY AttachAssumption DEF AttachInv, TypeOK, CallsLeft
<1>2. AttachInv /\ [Next]_vars => [Down]_vars
  <2> SUFFICES ASSUME AttachInv PROVE Down
    OBVIOUS
  <2> USE AttachAssumption DEF AttachInv, TypeOK, CallsLeft
  <2>1. ASSUME Environment PROVE CallsLeft' = CallsLeft
    BY <2>1 DEF Environment, Start, Exit, Register, Servicing
  <2>2. ASSUME Step PROVE CallsLeft' < CallsLeft
    <3>1. CASE Poll \/ Session \/ OpenProcess \/ Policy
      BY <2>2, <3>1 DEF Poll, Session, OpenProcess, Policy, Proceed
    <3>2. CASE Name \/ Times \/ Machine
      BY <2>2, <3>2 DEF Name, Times, Machine, Proceed, Abandon
    <3>3. CASE Module
      BY <2>2, <3>3 DEF Module, Proceed, Abandon
    <3>4. CASE Headers \/ File
      BY <2>2, <3>4 DEF Headers, File, Proceed, Abandon
    <3> QED BY <2>2, <3>1, <3>2, <3>3, <3>4 DEF Step
  <2> QED BY <2>1, <2>2
<1> QED
  BY <1>1, <1>2, AlwaysAttachInv, PTL DEF Spec, CallsRunOut
==============================================================================
