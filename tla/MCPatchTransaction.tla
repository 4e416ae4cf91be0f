-------------------------- MODULE MCPatchTransaction --------------------------
(* Small instances of PatchTransaction for TLC. *)
EXTENDS PatchTransaction, TLC

CONSTANTS before, after

\* x64 overwrites one byte, ARM64 several; two bytes are enough for a torn write.
MCOriginal == [image \in Images |->
  [i \in 1..PatchLength |-> IF image = before THEN "mov" ELSE "push"]]
MCPatch == [i \in 1..PatchLength |-> "ret"]
MCBytes == {"mov", "push", "ret", "jmp"}
MCProtections == {"RX", "RWX", "R"}
MCExecutable == {"RX", "RWX"}
MCWritable == {"RWX"}

\* Instances and pids are interchangeable; the two images have different code.
Symmetry == Permutations(Procs) \cup Permutations(Pids)
==============================================================================
