------------------------------- MODULE MCWorker -------------------------------
(****************************************************************************)
(* Instances of Worker for TLC.                                             *)
(****************************************************************************)
EXTENDS Worker

None == -1

(* Between them, every kind of instruction; each ends with END but the third. *)
Files ==
  <<<<"WRITE", "COMMIT", "END">>, <<"READ", "FLUSH", "END">>, <<"REMOTE", "NOOP">>,
    <<"WRITE", "END">>, <<"END">>>>
MCScripts == [q \in 0 .. 4 |-> Files[q + 1]]

(* The Master waits, or does not, and then every file ends with END.          *)
Polite == [prompt |-> FALSE, queries |-> {0, 1, 2}]
Prompt == [prompt |-> TRUE, queries |-> {3, 4}]
Both == {Polite, Prompt}
PromptOnly == {Prompt}
=============================================================================
