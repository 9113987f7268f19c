----------------------------- MODULE MCLimiter -----------------------------
(* Limiter with a module that allows one call at a time, and of the calls  *)
(* that are not free (c1, and c2 which costs two) two per two ticks.       *)
EXTENDS Limiter, TLC

CONSTANTS c1, c2, c3, place, rate, ticket, key

LimitOf == place :> [calls |-> 0, per |-> 1, concurrent |-> 1] @@ rate :> [calls |-> 2, per |-> 2, concurrent |-> 0]
UnderOf == c1 :> {place, rate} @@ c2 :> {place, rate} @@ c3 :> {place}
CostOf == c1 :> 1 @@ c2 :> 2 @@ c3 :> 1
KeyOf == [c \in {c1, c2, c3} |-> key]
TicketOf == [c \in {c1, c2, c3} |-> ticket]
=============================================================================
