--------------------------- MODULE MCCommandQueue ---------------------------
(* Small instances of CommandQueue for TLC. *)
EXTENDS CommandQueue

CONSTANTS b1, i1, k1, k2, q1, q2, v1, v2, x1, x2

\* Kernel k2 is of a second context.
Contexts == [x \in {q1, q2, b1, i1, k1, k2} |-> IF x = k2 THEN x2 ELSE x1]

KernelWrites == [k \in Kernels |-> b1]
MappedView   == [m \in {b1, i1} |-> IF m = b1 THEN v1 ELSE v2]

=============================================================================
