------------------------------ MODULE MCJoins ------------------------------
(* Joins on a small tree, where each letter is an await or a timer, la to  *)
(* le here, and the `all` and the `race` are fo, fr and, within, fn:        *)
(*     all { { a ; race { b } { all { c } { } } } { e } }                   *)
(* and on one whose first arm goes on after its race:                      *)
(*     all { { a ; race { b } { all { c } { } } ; p } { e } }               *)
(* and, fn a race too, on a race in an arm of a race, and what follows it:  *)
(*     race { race { c } { e } } { b } ; a                                  *)
EXTENDS Joins, TLC

CONSTANTS fo, fr, fn, la, lb, lc, le, lp, w1, w2

TreeArms ==
    [f \in Frames |->
        CASE f = fo -> {"o1", "o2"} [] f = fr -> {"r1", "r2"} [] f = fn -> {"n1", "n2"}]

TreeStatements ==
    [body \in Bodies |->
        CASE body = "top" -> <<fo>> [] body = "o1" -> <<la, fr>> [] body = "o2" -> <<le>>
          [] body = "r1" -> <<lb>> [] body = "r2" -> <<fn>> [] body = "n1" -> <<lc>> [] body = "n2" -> <<>>]

NestedStatements ==
    [body \in Bodies |->
        CASE body = "top" -> <<fr, la>> [] body = "r1" -> <<fn>> [] body = "r2" -> <<lb>>
          [] body = "n1" -> <<lc>> [] body = "n2" -> <<le>>]

\* The order of each movement's text.
TreeLine == fo :> 1 @@ la :> 2 @@ fr :> 3 @@ lb :> 4 @@ fn :> 5 @@ lc :> 6 @@ le :> 7
LongerLine == [TreeLine EXCEPT ![le] = 8] @@ lp :> 7
NestedLine == fr :> 1 @@ fn :> 2 @@ lc :> 3 @@ le :> 4 @@ lb :> 5 @@ la :> 6

LongerStatements == [TreeStatements EXCEPT !["o1"] = <<la, fr, lp>>]
=============================================================================
