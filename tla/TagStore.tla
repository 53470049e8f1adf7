------------------------------ MODULE TagStore ------------------------------
(****************************************************************************)
(* What the Storage promises its Workers: a set of File:Tags, each with its *)
(* own logical blocks.  Nothing here says where a block is kept: sharing,   *)
(* copying on write and deduplication must not be visible.  Each step is of *)
(* one Worker, and changes the File:Tag of what that Worker has asked, as   *)
(* it has asked: one logical block at a time, and nothing that is committed.*)
(****************************************************************************)
EXTENDS Naturals

CONSTANTS
  Workers,    \* those that ask
  Requests,   \* what each of them may ask for
  FileTags,   \* the names, as <<file, tag>>
  Positions,  \* numbers of logical blocks
  Needed,     \* the blocks that a file of each size takes
  Data,       \* contents of a block
  NoData,     \* there is no such logical block
  Base, Zero  \* the File:Tag of a formatted volume, and what it reads

VARIABLES
  state, \* of each File:Tag
  data,  \* the contents of its logical blocks
  asked  \* the request that each Worker is waiting for

vars == <<state, data, asked>>

Nothing == [op |-> "NONE"]
Empty == [i \in Positions |-> NoData]

Init ==
  /\ state = [ft \in FileTags |-> IF ft = Base THEN "COMMITED" ELSE "NONE"]
  /\ data = [ft \in FileTags |-> [i \in Positions |->
       IF ft = Base /\ i = 1 THEN Zero ELSE NoData]]
  /\ asked = [w \in Workers |-> Nothing]

(* The only File:Tag that a request may change: the new one of a TAG. *)
Subject(w) ==
  LET r == asked[w] IN IF r.op = "TAG" THEN <<r.ft[1], r.dst[2]>> ELSE r.ft

Put(w, i, d) == data' = [data EXCEPT ![Subject(w)][i] = d]
Turn(w, to) == state' = [state EXCEPT ![Subject(w)] = to]
In(w, states) == state[Subject(w)] \in states

-----------------------------------------------------------------------------
Ask(w) ==
  /\ asked[w] = Nothing
  /\ \E r \in Requests[w] : asked' = [asked EXCEPT ![w] = r]
  /\ UNCHANGED <<state, data>>

Ends(w) == asked' = [asked EXCEPT ![w] = Nothing]

(* What was asked is done, as far as it can be. *)
Answer(w) == asked[w] # Nothing /\ Ends(w) /\ UNCHANGED <<state, data>>

(* CREATE_FILE: an empty File:Tag, open to writes. *)
Create(w) ==
  /\ asked[w].op = "CREATE"
  /\ In(w, {"NONE"}) /\ data[Subject(w)] = Empty
  /\ Turn(w, "WORK_IN_PROGRESS") /\ Ends(w) /\ UNCHANGED data

(* TAG_FILE: block by block, and open to writes when it reads as the origin. *)
Copy(w, i) ==
  /\ asked[w].op = "TAG"
  /\ In(w, {"NONE"})
  /\ Put(w, i, data[asked[w].ft][i]) /\ UNCHANGED <<state, asked>>

Tag(w) ==
  /\ asked[w].op = "TAG"
  /\ In(w, {"NONE"}) /\ data[Subject(w)] = data[asked[w].ft]
  /\ Turn(w, "WORK_IN_PROGRESS") /\ Ends(w) /\ UNCHANGED data

(* TRUNCATE_FILE: new blocks read Zero, those past the size are dropped. *)
Resize(w, i) ==
  /\ asked[w].op = "TRUNCATE"
  /\ In(w, {"WORK_IN_PROGRESS"})
  /\ \/ i <= Needed[asked[w].n] /\ data[Subject(w)][i] = NoData /\ Put(w, i, Zero)
     \/ i > Needed[asked[w].n] /\ Put(w, i, NoData)
  /\ UNCHANGED <<state, asked>>

(* WRITE_BLOCK *)
Write(w) ==
  /\ asked[w].op \in {"WRITE", "WRITE_NOT_ERROR"}
  /\ In(w, {"WORK_IN_PROGRESS"})
  /\ Put(w, asked[w].n, asked[w].d) /\ UNCHANGED <<state, asked>>

(* COMMIT_TAG: the contents stay what they were, for ever. *)
Seal(w) ==
  /\ asked[w].op = "COMMIT"
  /\ In(w, {"WORK_IN_PROGRESS"})
  /\ Turn(w, "COMMITED") /\ UNCHANGED <<data, asked>>

(* DELETE_TAG: from the decision, block by block, to the end. *)
Doom(w) ==
  /\ asked[w].op = "DELETE"
  /\ In(w, {"WORK_IN_PROGRESS", "COMMITED"})
  /\ Turn(w, "DELETING") /\ UNCHANGED <<data, asked>>

Lose(w, i) ==
  /\ asked[w].op = "DELETE"
  /\ In(w, {"DELETING"})
  /\ Put(w, i, NoData) /\ UNCHANGED <<state, asked>>

Forget(w) ==
  /\ asked[w].op = "DELETE"
  /\ In(w, {"DELETING"})
  /\ data' = [data EXCEPT ![Subject(w)] = Empty]
  /\ Turn(w, "NONE") /\ Ends(w)

Step(w) ==
  \/ Ask(w) \/ Answer(w) \/ Create(w) \/ Tag(w) \/ Write(w) \/ Seal(w) \/ Doom(w)
  \/ Forget(w) \/ \E i \in Positions : Copy(w, i) \/ Resize(w, i) \/ Lose(w, i)

Next == \E w \in Workers : Step(w)

Spec == Init /\ [][Next]_vars

=============================================================================
