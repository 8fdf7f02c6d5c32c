----------------------------- MODULE MCProcess ------------------------------
(* Process and Signal for TLC: one loop with its child_watcher and one      *)
(* handle of the user.  Process handles are alike, so that p1 is the first  *)
(* to be spawned.                                                           *)
EXTENDS Process

CONSTANTS l1, w1, h1, p1, p2, usr, chld

OneLoop == [h \in Handles |-> l1]
ProcsOnOne == [p \in Procs |-> l1]
WatcherOfOne == [l \in Loops |-> w1]

OrderedNext == Next /\ (proc'[p2] # "none" => proc'[p1] # "none")
OrderedSpec == Init /\ [][OrderedNext]_vars /\ ProcessFairness
=============================================================================
