----------------------------- MODULE MCRunHost -----------------------------
(* RunHost on a small instance: what each run lets happen, and how often. *)
EXTENDS RunHost, TLC

CONSTANTS t1, t2, a1, w1, w2

Never == [b \in BoundNames |-> 0]

\* Commands beside the drains, and processes that die.
CrashBounds == [Never EXCEPT !["parks"] = 3, !["arrivals"] = 2, !["crashes"] = 1, !["resumes"] = 1, !["cancels"] = 1]

\* Processes that die, rows and run leases that lapse under one that goes on, and
\* a rerun.
LostBounds == [Never EXCEPT !["parks"] = 2, !["arrivals"] = 1, !["crashes"] = 1, !["stalls"] = 1, !["overruns"] = 1, !["reruns"] = 1]

ResumeBounds == [Never EXCEPT !["parks"] = 2, !["resumes"] = 1]

Symmetry == Permutations({w1, w2})
=============================================================================
