------------------------------ MODULE MCMaster ------------------------------
(****************************************************************************)
(* Instances of the Master for TLC.                                         *)
(****************************************************************************)
EXTENDS Master

CONSTANTS w1, w2 \* Workers

TwoWorkers == {w1, w2}

(* Nobody disconnects, and the network is slower than the Master.             *)
Calm == {[mode |-> "FIFO", crew |-> {w1, w2}, mortal |-> {}, impatient |-> {},
          prompt |-> FALSE, maxpc |-> 1, repeats |-> FALSE]}

(* Nobody disconnects, but a Worker may answer at once. *)
Fast == {[mode |-> "FIFO", crew |-> {w1}, mortal |-> {}, impatient |-> {},
          prompt |-> TRUE, maxpc |-> 0, repeats |-> FALSE]}

(* A Query Control may be stopped, whatever the algorithm.  Without evictions  *)
(* a Worker of two may be lost, or the only one, which may answer at once.     *)
(* An instruction may report several errors where there is one Worker, and     *)
(* where Queries are evicted by priority.                                      *)
Any == {[mode |-> "FIFO", crew |-> {w1, w2}, mortal |-> {w1}, impatient |-> {0},
         prompt |-> FALSE, maxpc |-> 1, repeats |-> FALSE],
        [mode |-> "FIFO", crew |-> {w1}, mortal |-> {w1}, impatient |-> {0},
         prompt |-> TRUE, maxpc |-> 1, repeats |-> TRUE],
        [mode |-> "AGING", crew |-> {w1, w2}, mortal |-> {}, impatient |-> {0},
         prompt |-> FALSE, maxpc |-> 1, repeats |-> FALSE],
        [mode |-> "PRIORITY", crew |-> {w1, w2}, mortal |-> {}, impatient |-> {0},
         prompt |-> FALSE, maxpc |-> 1, repeats |-> TRUE]}

(* The later the more urgent, so that aging and priorities have work to do. *)
Later == [q \in Queries |-> NQueries - 1 - q]

Zeroed == {"READY"}
AnyState == {"READY", "EXEC", "EXIT"}

=============================================================================
