------------------------------ MODULE WorkQueue ------------------------------
(***************************************************************************)
(* What the work queue promises its callers (backend.rs, "The work queue"),*)
(* with the clock, the tokens and the versions left out: an ask of a key   *)
(* waits until a worker takes it; an ask made while a worker has the key   *)
(* outlives whatever that worker makes of it.                              *)
(***************************************************************************)
EXTENDS FiniteSets

CONSTANTS
    Keys,       \* the rows' keys
    Workers,    \* the sessions draining the queue
    GivesUp,    \* keys of a kind that gives up
    Landed      \* keys queued by a caller that runs them itself

VARIABLES
    ask,        \* what was asked of each key
    holder      \* the worker whose claim of the key still stands, if any

queueVars == <<ask, holder>>

AskStates == {
    "none",     \* nothing is asked of the key
    "waiting",  \* asked, and no worker has it
    "taken",    \* a claim has it (its worker may have died)
    "again",    \* a claim has it, and it was asked again since
    "dead"}     \* it gave up, and nothing was asked since

InClaim(k) == ask[k] \in {"taken", "again"}

QueueTypeOK ==
    /\ ask \in [Keys -> AskStates]
    /\ holder \in [Keys -> SUBSET Workers]

-----------------------------------------------------------------------------
Ask(k) ==
    /\ ask' = [ask EXCEPT ![k] = IF InClaim(k) THEN "again" ELSE "waiting"]
    /\ UNCHANGED holder

\* Keys nobody has, or whose claim's lease lapsed, are taken together.
Take(w, taken) ==
    /\ taken # {}
    /\ \A k \in taken : ask[k] \in {"waiting", "taken", "again"}
    /\ ask' = [k \in Keys |-> IF k \in taken THEN "taken" ELSE ask[k]]
    /\ holder' = [k \in Keys |-> IF k \in taken THEN {w} ELSE holder[k]]

\* What the key's worker makes of it stands unless it was asked again.
Finish(k, w, outcome) ==
    /\ holder[k] = {w} /\ InClaim(k)
    /\ ask' = [ask EXCEPT ![k] = IF @ = "again" THEN "waiting" ELSE outcome]
    /\ holder' = [holder EXCEPT ![k] = {}]

Complete(k, w) == Finish(k, w, "none")
GiveBack(k, w) == Finish(k, w, "waiting")
Bury(k, w) == k \in GivesUp /\ Finish(k, w, "dead")

\* The caller that ran its own ask calls it off; a dead claim's goes too.
CallOff(k) ==
    /\ k \in Landed
    /\ ask[k] \in {"waiting", "taken"}
    /\ ask' = [ask EXCEPT ![k] = "none"]
    /\ holder' = [holder EXCEPT ![k] = {}]

\* A worker stops: its claims stand until another worker takes them over.
Die(w) ==
    /\ \E k \in Keys : w \in holder[k]
    /\ holder' = [k \in Keys |-> holder[k] \ {w}]
    /\ UNCHANGED ask

-----------------------------------------------------------------------------
QueueInit ==
    /\ ask = [k \in Keys |-> "none"]
    /\ holder = [k \in Keys |-> {}]

QueueNext ==
    \/ \E k \in Keys : Ask(k) \/ CallOff(k)
    \/ \E w \in Workers : Die(w) \/ \E taken \in SUBSET Keys : Take(w, taken)
    \/ \E k \in Keys, w \in Workers : Complete(k, w) \/ GiveBack(k, w) \/ Bury(k, w)

Safety == QueueInit /\ [][QueueNext]_queueVars
=============================================================================
