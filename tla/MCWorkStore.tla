---------------------------- MODULE MCWorkStore ----------------------------
(* WorkStore on a small instance: the constants and the symmetry of its runs. *)
EXTENDS WorkStore, TLC

CONSTANTS timer, poll, landed, w1, w2

MCBackoff == <<1, 2>>

Symmetry == Permutations({w1, w2})
=============================================================================
