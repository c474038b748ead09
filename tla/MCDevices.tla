------------------------------- MODULE MCDevices -------------------------------
(* Two platforms for TLC: a processor, a GPU and an accelerator on one, in that *)
(* order, and another GPU on the other.                                         *)
EXTENDS Devices

CONSTANTS p1, p2, cpu, gpu, acc, gpu2

Listed   == [p \in {p1, p2} |-> IF p = p1 THEN <<cpu, gpu, acc>> ELSE <<gpu2>>]
Has      == [d \in {cpu, gpu, acc, gpu2} |->
               IF d = gpu THEN {"gl_sharing"} ELSE {}]
CanQueue == [d \in {cpu, gpu, acc, gpu2} |->
               CASE d = cpu -> {"profiling"} [] d = acc -> {} [] OTHER -> Properties]

=============================================================================
