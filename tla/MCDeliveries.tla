--------------------------- MODULE MCDeliveries ---------------------------
(* Deliveries of two arrivals: x, which a sender delivers and the feed     *)
(* lists too, and y, which the feed lists and which would loop at l1.      *)
EXTENDS Deliveries, TLC

CONSTANTS l1, l2, x, y, w1, w2

FeedItems == <<x, y>>
ListensFire == {<<l1, x>>, <<l1, y>>}
LoopsAtFirst == {<<l1, y>>}
=============================================================================
