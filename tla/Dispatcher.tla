----------------------------- MODULE Dispatcher -----------------------------
(****************************************************************************)
(* What the Master promises under FIFO: the Queries wait in the order of    *)
(* their arrival, a Worker that has none is given the first, and a Query    *)
(* is over once, having run on one Worker, which has it until then.         *)
(****************************************************************************)
EXTENDS Naturals, Sequences

CONSTANTS
  Queries, \* what is handed in
  NoQuery, \* a Worker that has none
  Workers

VARIABLES
  waiting, \* those not given yet
  running, \* that of each Worker
  done     \* those that are over

vars == <<waiting, running, done>>

Given == {running[w] : w \in Workers}
Waiting == {waiting[i] : i \in DOMAIN waiting}

Init ==
  /\ waiting = <<>>
  /\ running = [w \in Workers |-> NoQuery]
  /\ done = {}

Submit(q) ==
  /\ q \notin Waiting \cup Given \cup done
  /\ waiting' = Append(waiting, q)
  /\ UNCHANGED <<running, done>>

Give(w) ==
  /\ running[w] = NoQuery /\ waiting # <<>>
  /\ running' = [running EXCEPT ![w] = Head(waiting)]
  /\ waiting' = Tail(waiting)
  /\ UNCHANGED done

Finish(q) ==
  /\ q \in Given \ done
  /\ done' = done \cup {q}
  /\ UNCHANGED <<waiting, running>>

Release(w) ==
  /\ running[w] \in done
  /\ running' = [running EXCEPT ![w] = NoQuery]
  /\ UNCHANGED <<waiting, done>>

Next ==
  \/ \E q \in Queries : Submit(q) \/ Finish(q)
  \/ \E w \in Workers : Give(w) \/ Release(w)

Spec == Init /\ [][Next]_vars

=============================================================================
