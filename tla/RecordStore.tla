----------------------------- MODULE RecordStore -----------------------------
(***************************************************************************)
(* What the rest of the program believes of save_state, load_state and     *)
(* delete_state: one rollback record per logon session, replaced or        *)
(* removed as a whole or not at all, and replaced for good once the save   *)
(* has returned.  A removal may be undone by a power loss, and somebody    *)
(* else may spoil a file; nothing else ever happens to it.                 *)
(***************************************************************************)
CONSTANTS
  Sessions,    \* logon sessions of one user
  Savable,     \* [Sessions -> records a transaction of the session may save]
  Readings,    \* what load_state may answer
  NoState      \* ... when there is no file

VARIABLES
  stored,      \* what load_state would answer in each session
  durable,     \* ... and after a power loss
  spoiled      \* the sessions whose file somebody else has changed

vars == <<stored, durable, spoiled>>

Init ==
  /\ stored = [s \in Sessions |-> NoState]
  /\ durable = [s \in Sessions |-> NoState]
  /\ spoiled = {}

Replace(s) ==
  /\ \E rec \in Savable[s] :
       /\ stored' = [stored EXCEPT ![s] = rec]
       /\ durable' = [durable EXCEPT ![s] = rec]
  /\ spoiled' = spoiled \ {s}

Remove(s) ==
  /\ stored' = [stored EXCEPT ![s] = NoState]
  /\ UNCHANGED <<durable, spoiled>>

\* A removal reaches the disk some time after it is seen.
Settle(s) ==
  /\ durable' = [durable EXCEPT ![s] = stored[s]]
  /\ UNCHANGED <<stored, spoiled>>

PowerLoss ==
  /\ stored' = durable
  /\ UNCHANGED <<durable, spoiled>>

Spoil(s) ==
  /\ \E other \in Readings :
       /\ stored' = [stored EXCEPT ![s] = other]
       /\ durable' = [durable EXCEPT ![s] = other]
  /\ spoiled' = spoiled \cup {s}

Next ==
  \/ PowerLoss
  \/ \E s \in Sessions : Replace(s) \/ Remove(s) \/ Settle(s) \/ Spoil(s)

Spec == Init /\ [][Next]_vars
==============================================================================
