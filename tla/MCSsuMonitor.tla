---------------------------- MODULE MCSsuMonitor -----------------------------
(* Small instances of SsuMonitor.                                          *)
EXTENDS SsuMonitor, TLC

CONSTANTS a, ab, c   \* /a contains /a/b, and /c is apart

MCPaths  == {a, ab, c}
MCOnePaths == {a}
MCPrefix == {<<a, a>>, <<ab, ab>>, <<c, c>>, <<a, ab>>}
MCOnePrefix == {<<a, a>>}

(* Shells and pids are interchangeable (used in safety runs only).         *)
Symmetry == Permutations(Shells) \cup Permutations(Pids)

(* What is left in an inode nobody can reach any more: states that differ  *)
(* only there are one state.                                               *)
View == <<list, temp, [i \in Inodes |-> IF Unused(i) THEN << >> ELSE data[i]],
          pc, inputVars, streamVars, deleteVars, daemonVars>>
=============================================================================
