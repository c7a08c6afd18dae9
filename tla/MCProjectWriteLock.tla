------------------------- MODULE MCProjectWriteLock -------------------------
(* ProjectWriteLock with two writers in one process and one in each of two  *)
(* others, of which the last is on another machine, or none is.             *)
EXTENDS ProjectWriteLock

CONSTANTS a1, a2, b1, c1, A, B, C, here, there

HomeOf  == [w \in Writers |-> CASE w \in {a1, a2} -> A [] w = b1 -> B [] OTHER -> C]
HostsOf == [p \in Procs |-> IF p = C THEN there ELSE here]
OneHost == [p \in Procs |-> here]

=============================================================================
