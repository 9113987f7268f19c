------------------------------ MODULE MCWaits ------------------------------
(* Waits on small instances: which record each await is on, and their order. *)
EXTENDS Waits, TLC

CONSTANTS r1, k1, k2, i1, a1, a2

\* One await after another, both on the trigger's record.
OnOneRecord == [a \in Addresses |-> k1]
AfterTheFirst == [a \in Addresses |-> IF a = a1 THEN {} ELSE {a1}]

\* Two arms, each with an await, reached in any order.
Beside == [a \in Addresses |-> {}]
=============================================================================
