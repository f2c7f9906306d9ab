--------------------------- MODULE MCDatabaseStartup ---------------------------
(* DatabaseStartup on instances small enough for TLC.                         *)
EXTENDS DatabaseStartup, TLC

CONSTANTS p1, p2, p3, p4

MCProcesses == {p1, p2, p3, p4}

\* Two processes are started with each key.
MCSecrets == {"first", "second"}
MCSecretOf == [p \in MCProcesses |-> IF p \in {p1, p2} THEN "first" ELSE "second"]

\* Processes with the same key are only compared for equality.
ProcessSymmetry == Permutations({p1, p2}) \cup Permutations({p3, p4})
==============================================================================
