--------------------------- MODULE MCWorkerMemory ---------------------------
(* Small memories for TLC: what the Queries contain. *)
EXTENDS WorkerMemory, TLC
CONSTANTS a, b, x, y

TwoAndOne == (a :> 2) @@ (b :> 1)

In(op, ft, base, text) ==
  [op |-> op, ft |-> ft, base |-> base, tam |-> Len(text), text |-> text]
Whole(op, ft) == In(op, ft, 0, <<x>>)

(* Nothing that goes beyond a page from its middle. *)
PlainInstructions ==
  {In("WRITE", a, 0, <<y, x, y>>), In("WRITE", a, 1, <<x>>), In("WRITE", b, 0, <<x, y>>)}
  \cup {In("READ", a, 0, <<x, x, x, x>>), In("READ", a, 3, <<x>>), In("READ", b, 0, <<x, x, x>>)}
  \cup {Whole("COMMIT", a), Whole("FLUSH", b)}
  \cup {In("TRUNCATE", a, 0, text) : text \in {<<>>, <<x, x, x, x>>}}
  \cup {Whole("DELETE", b), Whole("CREATE", b)}

(* What begins in the middle of a page and goes beyond it, too. *)
UnalignedInstructions == PlainInstructions \cup {In("WRITE", a, 1, <<y, x, y>>)}

OnB == [ft \in FileTags |-> IF ft = b THEN {"NONE", "COMMITED"} ELSE {}]

=============================================================================
