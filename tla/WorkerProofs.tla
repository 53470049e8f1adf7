---------------------------- MODULE WorkerProofs ----------------------------
(* What holds of the threads of a Worker for any number of Queries and any  *)
(* files, however its messages with the Master and the Storage cross.       *)
EXTENDS Worker, TLAPS, FiniteSetTheorems, FunctionTheorems

(* What the interpreter is doing when it makes a request. *)
OpInHand ==
  /\ ti.pc = "work" => ti.op # "EVICTION"
  /\ ti.pc = "flush" => ti.op = "EVICTION"

Inv == TypeOK /\ OpInHand /\ EvictionsAccounted /\ AnswersMatch

-----------------------------------------------------------------------------
(* The messages in flight, counted *)

LEMMA InFlightCounts ==
  ASSUME NEW s \in Seq(Messages), NEW op
  PROVE  /\ IsFiniteSet({i \in DOMAIN s : s[i].op = op})
         /\ InFlight(s, op) \in Nat
<1>1. DOMAIN s = 1 .. Len(s) /\ Len(s) \in Nat
  OBVIOUS
<1>2. IsFiniteSet(DOMAIN s)
  BY <1>1, FS_Interval
<1>3. IsFiniteSet({i \in DOMAIN s : s[i].op = op})
  BY <1>2, FS_Subset
<1> QED  BY <1>3, FS_CardinalityType DEF InFlight

LEMMA InFlightEmpty == \A op : InFlight(<<>>, op) = 0
<1>1. \A op : {i \in DOMAIN <<>> : <<>>[i].op = op} = {}
  OBVIOUS
<1> QED  BY <1>1, FS_EmptySet DEF InFlight

LEMMA InFlightAppend ==
  ASSUME NEW s \in Seq(Messages), NEW m \in Messages, NEW op
  PROVE  InFlight(Append(s, m), op) = InFlight(s, op) + One(m.op = op)
<1> DEFINE Old == {i \in DOMAIN s : s[i].op = op}
           New == {i \in DOMAIN Append(s, m) : Append(s, m)[i].op = op}
<1>1. /\ Len(s) \in Nat /\ DOMAIN s = 1 .. Len(s)
      /\ DOMAIN Append(s, m) = 1 .. Len(s) + 1
      /\ \A i \in 1 .. Len(s) : Append(s, m)[i] = s[i]
      /\ Append(s, m)[Len(s) + 1] = m
  OBVIOUS
<1>2. IsFiniteSet(Old)
  BY InFlightCounts
<1>3. InFlight(s, op) = Cardinality(Old) /\ InFlight(Append(s, m), op) = Cardinality(New)
  BY DEF InFlight
<1>4. Cardinality(Old) \in Nat
  BY <1>2, FS_CardinalityType
<1>5. m.op = op => New = Old \cup {Len(s) + 1} /\ Len(s) + 1 \notin Old
  BY <1>1
<1>6. m.op # op => New = Old
  BY <1>1
<1>7. m.op = op => Cardinality(New) = Cardinality(Old) + 1
  BY <1>2, <1>5, FS_AddElement
<1> HIDE DEF Old, New
<1> QED  BY <1>3, <1>4, <1>6, <1>7 DEF One

LEMMA InFlightTail ==
  ASSUME NEW s \in Seq(Messages), s # <<>>, NEW op
  PROVE  InFlight(s, op) = InFlight(Tail(s), op) + One(Head(s).op = op)
<1> DEFINE All == {i \in DOMAIN s : s[i].op = op}
           Rest == {i \in DOMAIN Tail(s) : Tail(s)[i].op = op}
           Shift == [i \in Rest |-> i + 1]
<1>1. /\ Len(s) \in Nat \ {0} /\ DOMAIN s = 1 .. Len(s)
      /\ DOMAIN Tail(s) = 1 .. Len(s) - 1
      /\ \A i \in 1 .. Len(s) - 1 : Tail(s)[i] = s[i + 1]
      /\ Head(s) = s[1]
      /\ Tail(s) \in Seq(Messages)
  OBVIOUS
<1>2. IsFiniteSet(All) /\ IsFiniteSet(Rest)
  BY <1>1, InFlightCounts
<1>3. Cardinality(All \ {1}) = Cardinality(Rest)
  <2>1. \A i \in Rest : i \in Int /\ i + 1 \in All \ {1}
    BY <1>1
  <2>2. \A j \in All \ {1} : j - 1 \in Rest /\ (j - 1) + 1 = j
    BY <1>1
  <2>3. Shift \in [Rest -> All \ {1}] /\ \A i \in Rest : Shift[i] = i + 1
    BY <2>1
  <2> HIDE DEF All, Rest, Shift
  <2>4. \A i, j \in Rest : Shift[i] = Shift[j] => i = j
    BY <2>1, <2>3
  <2>5. \A j \in All \ {1} : \E i \in Rest : Shift[i] = j
    BY <2>2, <2>3
  <2>6. Shift \in Bijection(Rest, All \ {1})
    BY <2>3, <2>4, <2>5, Fun_IsBij
  <2>7. ExistsBijection(Rest, All \ {1})
    BY <2>6 DEF ExistsBijection
  <2> QED  BY <2>7, <1>2, FS_Bijection
<1>4. Cardinality(All \ {1}) = IF 1 \in All THEN Cardinality(All) - 1 ELSE Cardinality(All)
  BY <1>2, FS_RemoveElement
<1>5. (1 \in All) <=> (Head(s).op = op)
  BY <1>1
<1>6. Cardinality(All) \in Nat
  BY <1>2, FS_CardinalityType
<1>7. InFlight(s, op) = Cardinality(All) /\ InFlight(Tail(s), op) = Cardinality(Rest)
  BY DEF InFlight
<1> HIDE DEF All, Rest
<1> QED  BY <1>3, <1>4, <1>5, <1>6, <1>7 DEF One

(* One message more, or less, and only its own operation is counted anew.     *)
LEMMA Sent ==
  ASSUME NEW s \in Seq(Messages), NEW o \in {"EXECUTE", "EVICT", "EVICTED", "END"},
         NEW q \in Queries \cup {NoQuery}, NEW pc \in Nat
  PROVE  /\ Append(s, Message(o, q, pc)) \in Seq(Messages)
         /\ InFlight(Append(s, Message(o, q, pc)), o) = InFlight(s, o) + 1
         /\ \A op : op # o => InFlight(Append(s, Message(o, q, pc)), op) = InFlight(s, op)
<1>1. Message(o, q, pc) \in Messages /\ Message(o, q, pc).op = o
  BY DEF Message, Messages
<1>2. \A op : InFlight(Append(s, Message(o, q, pc)), op)
              = InFlight(s, op) + (IF o = op THEN 1 ELSE 0)
  BY <1>1, InFlightAppend DEF One
<1>3. \A op : InFlight(s, op) \in Nat
  BY InFlightCounts
<1> QED  BY <1>1, <1>2, <1>3

LEMMA SentWithoutPc ==
  ASSUME NEW s \in Seq(Messages), NEW o \in {"EXECUTE", "EVICT", "EVICTED", "END"},
         NEW q \in Queries \cup {NoQuery}
  PROVE  /\ InFlight(Append(s, Message(o, q, 0)), o) = InFlight(s, o) + 1
         /\ \A op : op # o => InFlight(Append(s, Message(o, q, 0)), op) = InFlight(s, op)
<1>1. 0 \in Nat
  OBVIOUS
<1> QED  BY <1>1, Sent, Zenon

LEMMA Received ==
  ASSUME NEW s \in Seq(Messages), s # <<>>
  PROVE  /\ Tail(s) \in Seq(Messages) /\ Head(s) \in Messages
         /\ \A op : op = Head(s).op => InFlight(Tail(s), op) = InFlight(s, op) - 1
         /\ \A op : op # Head(s).op => InFlight(Tail(s), op) = InFlight(s, op)
<1>1. Tail(s) \in Seq(Messages) /\ Head(s) \in Messages
  OBVIOUS
<1>2. \A op : InFlight(s, op) = InFlight(Tail(s), op) + (IF Head(s).op = op THEN 1 ELSE 0)
  BY InFlightTail DEF One
<1>3. \A op : InFlight(s, op) \in Nat /\ InFlight(Tail(s), op) \in Nat
  BY <1>1, InFlightCounts
<1> QED  BY <1>1, <1>2, <1>3

-----------------------------------------------------------------------------
LEMMA InitSafe == Init => Inv
<1> SUFFICES ASSUME Init PROVE Inv
  OBVIOUS
<1>1. ti \in Interpreter /\ asks \in Requests
  BY DEF Init, Interpreter, Requests, Ops
<1>2. query \in [Queries -> Known]
  <2>1. [sp |-> "READY", pc |-> 0, given |-> 0] \in Known
    BY BoundsAssumption DEF Known
  <2> QED  BY <2>1 DEF Init
<1>3. toWorker \in Seq(Messages) /\ toMaster \in Seq(Messages)
  BY DEF Init
<1>4. actual \in ActualQuery /\ sem \in [Semaphores -> Nat] /\ following \in [Queries -> Nat]
  BY DEF Init, ActualQuery
<1>5. ts \in [pc : {"idle", "set", "post"}, sem : {"respuesta_storage", "get_data"}]
  BY DEF Init
<1>6. TypeOK
  BY <1>1, <1>2, <1>3, <1>4, <1>5 DEF Init, TypeOK
<1>7. EvictionsAccounted
  <2>1. InFlight(toWorker, "EVICT") = 0 /\ InFlight(toMaster, "EVICTED") = 0
    BY InFlightEmpty DEF Init
  <2>2. One(desalojado) = 0 /\ One(asked) = 0
    BY DEF Init, One
  <2>3. One(Handling) = 0
    BY DEF Init, Handling, One
  <2> QED  BY <2>1, <2>2, <2>3 DEF EvictionsAccounted
<1>8. ti.pc = "top" /\ asks = "none" /\ ts.pc = "idle"
  BY DEF Init
<1>9. sem["respuesta_storage"] = 0 /\ sem["get_data"] = 0
  BY DEF Init, Semaphores
<1>10. OpInHand /\ AnswersMatch
  BY <1>8, <1>9 DEF OpInHand, AnswersMatch, One
<1> QED  BY <1>6, <1>7, <1>10 DEF Inv

-----------------------------------------------------------------------------
(* Types *)

(* How the interpreter goes from one place to the next. *)
LEMMA InterpreterMoves ==
  ASSUME ti \in Interpreter,
         NEW l \in {"top", "dimi", "await", "load", "while", "work", "wait", "advance", "irq",
                    "flush"}
  PROVE  /\ ti.pc \in {"top", "dimi", "await", "load", "while", "work", "wait", "advance",
                       "irq", "flush"}
         /\ ti.op \in Ops \cup {"EVICTION"} /\ ti.back \in {"while", "top"}
         /\ ti.file \in Queries \cup {NoQuery} /\ ti.n \in Nat
         /\ Goto(l) => ti' \in Interpreter /\ ti'.pc = l /\ ti'.op = ti.op
  BY DEF Interpreter, Goto

LEMMA Typed ==
  ASSUME TypeOK
  PROVE  /\ ti \in Interpreter /\ actual \in ActualQuery /\ query \in [Queries -> Known]
         /\ sem \in [Semaphores -> Nat] /\ asks \in Requests
         /\ toWorker \in Seq(Messages) /\ toMaster \in Seq(Messages)
         /\ ts \in [pc : {"idle", "set", "post"}, sem : {"respuesta_storage", "get_data"}]
  BY DEF TypeOK

LEMMA PermitsMove ==
  ASSUME sem \in [Semaphores -> Nat], NEW s \in Semaphores
  PROVE  Post(s) \/ Wait(s) => sem' \in [Semaphores -> Nat]
  BY DEF Post, Wait

LEMMA Asking ==
  ASSUME ti \in Interpreter, NEW r \in Requests, NEW n \in Nat
  PROVE  [ti EXCEPT !.pc = "wait", !.last = r, !.n = n] \in Interpreter
  BY DEF Interpreter

LEMMA FollowingTyped ==
  ASSUME NEW f \in [Queries -> Nat], NEW q, NEW n \in Nat
  PROVE  [f EXCEPT ![q] = n] \in [Queries -> Nat]
<1>1. [f EXCEPT ![q] = n] = [x \in Queries |-> IF x = q THEN n ELSE f[x]]
  OBVIOUS
<1>2. [x \in Queries |-> IF x = q THEN n ELSE f[x]] \in [Queries -> Nat]
  OBVIOUS
<1> QED  BY <1>1, <1>2

LEMMA InterpreterTyped == TypeOK /\ InterpreterNext => TypeOK'
<1> SUFFICES ASSUME TypeOK PROVE InterpreterNext => TypeOK'
  OBVIOUS
<1>1. CASE Top
  <2>1. ti' \in Interpreter
    BY <1>1, Typed, InterpreterMoves DEF Top
  <2> QED  BY <2>1, <1>1 DEF Top, TypeOK, master
<1>2. CASE AwaitAfterError
  <2>1. ti' \in Interpreter /\ sem' \in [Semaphores -> Nat]
    BY <1>2, Typed, InterpreterMoves, PermitsMove DEF AwaitAfterError, Semaphores
  <2> QED  BY <2>1, <1>2 DEF AwaitAfterError, TypeOK, master
<1>3. CASE AwaitQuery
  <2>1. ti' \in Interpreter
    BY <1>3, Typed DEF AwaitQuery, Interpreter, ActualQuery
  <2>2. sem' \in [Semaphores -> Nat]
    BY <1>3, Typed, PermitsMove DEF AwaitQuery, Semaphores
  <2> QED  BY <2>1, <2>2, <1>3 DEF AwaitQuery, TypeOK, master
<1>4. CASE Load
  <2>1. ti' \in Interpreter
    BY <1>4, Typed DEF Load, Interpreter
  <2>2. actual' \in ActualQuery
    BY <1>4, Typed, InterpreterMoves DEF Load, ActualQuery
  <2> QED  BY <2>1, <2>2, <1>4 DEF Load, TypeOK, master
<1>5. CASE Leave
  <2>1. ti' \in Interpreter
    BY <1>5, Typed DEF Leave, Interpreter
  <2> QED  BY <2>1, <1>5 DEF Leave, TypeOK, master
<1>6. CASE Fetch
  <2>1. actual.pc \in Nat /\ actual.file \in Queries /\ actual.pc < Len(Scripts[actual.file])
    BY <1>6, Typed DEF Fetch, Runs, Script, ActualQuery
  <2>2. Scripts[actual.file] \in Seq(Ops)
    BY <2>1, QueriesAssumption
  <2>3. Script[actual.pc + 1] \in Ops
    BY <2>1, <2>2 DEF Script
  <2>4. ti' \in Interpreter
    BY <2>3, <1>6, Typed DEF Fetch, Interpreter, Requests
  <2>5. /\ following' = [following EXCEPT ![actual.q] = actual.pc + 1]
        /\ following \in [Queries -> Nat]
    BY <1>6 DEF Fetch, TypeOK
  <2>6. actual.pc + 1 \in Nat
    BY <2>1
  <2>7. following' \in [Queries -> Nat]
    BY <2>5, <2>6, FollowingTyped, Zenon
  <2> QED  BY <2>4, <2>7, <1>6 DEF Fetch, TypeOK, master
<1>7. CASE FetchPast
  BY <1>7 DEF FetchPast, TypeOK, master
<1>8. CASE Ask
  <2>1. PICK r \in Requests :
          asks' = r /\ ti' = [ti EXCEPT !.pc = "wait", !.last = r, !.n = @ + 1]
    BY <1>8, Zenon DEF Ask
  <2>2. ti \in Interpreter /\ ti.n + 1 \in Nat
    BY Typed DEF Interpreter
  <2>3. [ti EXCEPT !.pc = "wait", !.last = r, !.n = @ + 1] \in Interpreter
    BY <2>2, Asking, Zenon
  <2>4. ti' \in Interpreter /\ asks' \in Requests
    BY <2>1, <2>3
  <2> QED  BY <2>4, <1>8 DEF Ask, TypeOK, master
<1>9. CASE Answered
  <2>1. ti' \in Interpreter
    BY <1>9, Typed, InterpreterMoves DEF Answered
  <2>2. sem' \in [Semaphores -> Nat]
    BY <1>9, Typed, PermitsMove DEF Answered, AnswerSem, Semaphores
  <2> QED  BY <2>1, <2>2, <1>9 DEF Answered, TypeOK, master
<1>10. CASE End
  <2>1. ti' \in Interpreter
    BY <1>10, Typed DEF End, Interpreter
  <2>2. toMaster' \in Seq(Messages)
    BY <1>10, Typed, Sent DEF End, ActualQuery
  <2> QED  BY <2>1, <2>2, <1>10 DEF End, TypeOK, master
<1>11. CASE Advance
  <2>1. ti' \in Interpreter
    BY <1>11, Typed DEF Advance, Interpreter
  <2>2. actual' = [actual EXCEPT !.pc = @ + 1] /\ actual \in ActualQuery
    BY <1>11, Typed DEF Advance
  <2>3. actual' \in ActualQuery
    BY <2>2 DEF ActualQuery
  <2> QED  BY <2>1, <2>3, <1>11 DEF Advance, TypeOK, master
<1>12. CASE NotInterrupted
  <2>1. ti' \in Interpreter
    BY <1>12, Typed, InterpreterMoves DEF NotInterrupted
  <2> QED  BY <2>1, <1>12 DEF NotInterrupted, TypeOK, master
<1>13. CASE Interrupted
  <2>1. ti' \in Interpreter
    BY <1>13, Typed DEF Interrupted, Interpreter, Requests
  <2> QED  BY <2>1, <1>13 DEF Interrupted, TypeOK, master
<1>14. CASE Evicted
  <2>1. ti' \in Interpreter
    BY <1>14, Typed, InterpreterMoves DEF Evicted
  <2>2. toMaster' \in Seq(Messages)
    BY <1>14, Typed, Sent DEF Evicted, ActualQuery
  <2> QED  BY <2>1, <2>2, <1>14 DEF Evicted, TypeOK, master
<1> QED  BY <1>1, <1>2, <1>3, <1>4, <1>5, <1>6, <1>7, <1>8, <1>9, <1>10, <1>11, <1>12,
            <1>13, <1>14 DEF InterpreterNext

LEMMA CallbacksTyped == TypeOK /\ (MasterThread \/ StorageThread) => TypeOK'
<1> SUFFICES ASSUME TypeOK PROVE MasterThread \/ StorageThread => TypeOK'
  OBVIOUS
<1>1. CASE TakeQuery
  <2>1. toWorker' \in Seq(Messages) /\ Head(toWorker) \in Messages
    BY <1>1, Typed, Received DEF TakeQuery, Hears
  <2>2. actual' \in ActualQuery
    BY <2>1, <1>1 DEF TakeQuery, Messages, ActualQuery
  <2>3. sem' \in [Semaphores -> Nat]
    BY <1>1, Typed, PermitsMove DEF TakeQuery, Semaphores
  <2> QED  BY <2>1, <2>2, <2>3, <1>1 DEF TakeQuery, TypeOK, master
<1>2. CASE ClearError
  BY <1>2 DEF ClearError, TypeOK, master
<1>3. CASE PostQuery
  <2>1. sem' \in [Semaphores -> Nat]
    BY <1>3, Typed, PermitsMove DEF PostQuery, Semaphores
  <2> QED  BY <2>1, <1>3 DEF PostQuery, TypeOK, master
<1>4. CASE TakeEviction
  <2>1. toWorker' \in Seq(Messages)
    BY <1>4, Typed, Received DEF TakeEviction, Hears
  <2> QED  BY <2>1, <1>4 DEF TakeEviction, TypeOK, master
<1>5. CASE HearSuccess
  <2>1. sem' \in [Semaphores -> Nat]
    BY <1>5, Typed, PermitsMove DEF HearSuccess, Semaphores
  <2> QED  BY <2>1, <1>5 DEF HearSuccess, Requests, TypeOK, master
<1>6. CASE HearError
  <2>1. toMaster' \in Seq(Messages)
    BY <1>6, Typed, Sent DEF HearError, ActualQuery
  <2>2. ErrorPosts(asks) \subseteq {"respuesta_storage", "get_data"}
    BY DEF ErrorPosts
  <2>3. ts' \in [pc : {"idle", "set", "post"}, sem : {"respuesta_storage", "get_data"}]
    BY <2>2, <1>6 DEF HearError
  <2> QED  BY <2>1, <2>3, <1>6 DEF HearError, Requests, TypeOK, master
<1>7. CASE SetError
  <2>1. ts' \in [pc : {"idle", "set", "post"}, sem : {"respuesta_storage", "get_data"}]
    BY <1>7, Typed DEF SetError
  <2> QED  BY <2>1, <1>7 DEF SetError, TypeOK, master
<1>8. CASE PostError
  <2>1. ts' \in [pc : {"idle", "set", "post"}, sem : {"respuesta_storage", "get_data"}]
    BY <1>8, Typed DEF PostError
  <2>2. sem' \in [Semaphores -> Nat]
    BY <1>8, Typed, PermitsMove DEF PostError, Semaphores
  <2> QED  BY <2>1, <2>2, <1>8 DEF PostError, TypeOK, master
<1>9. CASE Dropped
  BY <1>9 DEF Dropped, Requests, TypeOK, master
<1> QED  BY <1>1, <1>2, <1>3, <1>4, <1>5, <1>6, <1>7, <1>8, <1>9 DEF MasterThread, StorageThread

LEMMA PeerTyped ==
  TypeOK /\ (AskEviction \/ Learn \/ \E q \in Queries : Give(q)) => TypeOK'
<1> SUFFICES ASSUME TypeOK PROVE AskEviction \/ Learn \/ (\E q \in Queries : Give(q)) => TypeOK'
  OBVIOUS
<1>1. CASE AskEviction
  <2>1. toWorker' \in Seq(Messages)
    BY <1>1, Typed, Sent DEF AskEviction
  <2> QED  BY <2>1, <1>1 DEF AskEviction, TypeOK
<1>2. CASE Learn
  <2> DEFINE m == Head(toMaster)
  <2>1. toMaster' \in Seq(Messages) /\ m \in Messages
    BY <1>2, Typed, Received DEF Learn
  <2>2. m.q \in Queries \cup {NoQuery} /\ m.pc \in Nat
    BY <2>1 DEF Messages
  <2>3. query' \in [Queries -> Known]
    <3> DEFINE ended == [query EXCEPT ![m.q].sp = "EXIT"]
               info == [query[m.q] EXCEPT !.sp = IF @ = "EXIT" THEN "EXIT" ELSE "READY",
                                          !.pc = m.pc]
               ready == [query EXCEPT ![m.q].sp = IF @ = "EXIT" THEN "EXIT" ELSE "READY",
                                      ![m.q].pc = m.pc]
    <3>1. query' = IF m.q = NoQuery THEN query ELSE IF m.op = "END" THEN ended ELSE ready
      BY <1>2 DEF Learn
    <3>2. query' = query \/ (m.q # NoQuery /\ query' \in {ended, ready})
      <4> HIDE DEF m, ended, ready
      <4> QED  BY <3>1
    <3> HIDE DEF m
    <3>3. m.q # NoQuery => ended \in [Queries -> Known]
      BY <2>2, Typed DEF Known
    <3>4. m.q # NoQuery => ready \in [Queries -> Known]
      <4> SUFFICES ASSUME m.q # NoQuery PROVE ready \in [Queries -> Known]
        OBVIOUS
      <4>1. query[m.q] \in Known
        BY <2>2, Typed
      <4>2. info \in Known
        BY <4>1, <2>2 DEF Known
      <4>3. ready = [query EXCEPT ![m.q] = info]
        BY <2>2, Typed
      <4> HIDE DEF ready, info
      <4> QED  BY <4>2, <4>3, Typed
    <3> HIDE DEF ended, ready
    <3> QED  BY <3>2, <3>3, <3>4, Typed
  <2>4. asked' \in BOOLEAN /\ busy' \in BOOLEAN
    BY <1>2 DEF Learn, TypeOK
  <2> QED  BY <2>1, <2>3, <2>4, <1>2 DEF Learn, TypeOK
<1>3. ASSUME NEW q \in Queries, Give(q) PROVE TypeOK'
  <2>1. query[q] \in Known /\ query[q].pc \in Nat
    BY Typed DEF Known
  <2>2. toWorker' \in Seq(Messages)
    BY <2>1, <1>3, Typed, Sent DEF Give
  <2>3. [query[q] EXCEPT !.sp = "EXEC", !.given = @ + 1] \in Known
    <3>1. query[q].given < MaxGiven
      BY <1>3 DEF Give
    <3>2. query[q].given \in Nat /\ query[q].given + 1 \in 0 .. MaxGiven
      BY <2>1, <3>1, BoundsAssumption DEF Known
    <3> QED  BY <2>1, <3>2 DEF Known
  <2>4. query' = [query EXCEPT ![q] = [query[q] EXCEPT !.sp = "EXEC", !.given = @ + 1]]
    BY <1>3, Typed DEF Give
  <2>5. query' \in [Queries -> Known]
    BY <2>3, <2>4, Typed
  <2> QED  BY <2>2, <2>5, <1>3 DEF Give, TypeOK
<1> QED  BY <1>1, <1>2, <1>3
-----------------------------------------------------------------------------
(* Requests, evictions and their answers *)

LEMMA OpInHandKept ==
  ASSUME Inv, Next
  PROVE  OpInHand'
<1>1. ti \in Interpreter
  BY Typed DEF Inv
<1>2. OpInHand
  BY DEF Inv
<1>3. CASE ti' = ti
  BY <1>2, <1>3 DEF OpInHand
<1>4. CASE InterpreterNext
  <2>1. CASE Fetch
    <3>1. actual.pc \in Nat /\ actual.file \in Queries /\ actual.pc < Len(Scripts[actual.file])
      BY <2>1, Typed DEF Inv, Fetch, Runs, Script, ActualQuery
    <3>2. Scripts[actual.file] \in Seq(Ops)
      BY <3>1, QueriesAssumption
    <3>3. Script[actual.pc + 1] \in Ops
      BY <3>1, <3>2 DEF Script
    <3>4. ti'.pc = "work" /\ ti'.op = Script[actual.pc + 1]
      BY <2>1, <1>1 DEF Fetch, Interpreter
    <3> QED  BY <3>3, <3>4 DEF OpInHand, Ops
  <2>2. CASE Answered
    BY <2>2, <1>1, InterpreterMoves DEF Answered, OpInHand
  <2>3. CASE Interrupted
    BY <2>3, <1>1 DEF Interrupted, Interpreter, OpInHand
  <2>4. CASE NotInterrupted \/ Evicted
    BY <2>4, <1>1, InterpreterMoves DEF NotInterrupted, Evicted, OpInHand
  <2>5. CASE Top \/ AwaitAfterError \/ AwaitQuery \/ Load \/ Leave
    BY <2>5, <1>1 DEF Top, AwaitAfterError, AwaitQuery, Load, Leave, Goto, Interpreter, OpInHand
  <2>6. CASE FetchPast
    BY <2>6, <1>3 DEF FetchPast
  <2>7. CASE Ask
    <3>1. ti'.pc = "wait"
      BY <2>7, <1>1 DEF Ask, Interpreter
    <3> QED  BY <3>1 DEF OpInHand
  <2>8. CASE End \/ Advance
    BY <2>8, <1>1 DEF End, Advance, Interpreter, OpInHand
  <2> QED  BY <1>4, <2>1, <2>2, <2>3, <2>4, <2>5, <2>6, <2>7, <2>8 DEF InterpreterNext
<1>5. ~InterpreterNext => ti' = ti
  BY Zenon DEF Next, MasterThread, StorageThread, TakeQuery, ClearError, PostQuery, TakeEviction,
     HearSuccess, HearError, SetError, PostError, Dropped, AskEviction, Learn, Give
<1> QED  BY <1>3, <1>4, <1>5

(* The terms of EvictionsAccounted. *)
Coming == InFlight(toWorker, "EVICT")
Told == InFlight(toMaster, "EVICTED")
Seen == One(desalojado)
InHand == One(Handling)
Due == One(asked)

Counted ==
  /\ Coming \in Nat /\ Told \in Nat
  /\ Seen \in {0, 1} /\ InHand \in {0, 1} /\ Due \in {0, 1}
  /\ Seen = 1 <=> desalojado
  /\ InHand = 1 <=> Handling
  /\ Due = 1 <=> asked
  /\ EvictionsAccounted <=> Coming + Told + Seen + InHand = Due

LEMMA EvictionsCounted == TypeOK => Counted
<1> SUFFICES ASSUME TypeOK PROVE Counted
  OBVIOUS
<1>1. Coming \in Nat /\ Told \in Nat
  BY InFlightCounts DEF TypeOK, Coming, Told
<1>2. Seen = 1 <=> desalojado
  BY DEF Seen, One
<1>3. InHand = 1 <=> Handling
  BY DEF InHand, One
<1>4. Due = 1 <=> asked
  BY DEF Due, One
<1>5. Seen \in {0, 1} /\ InHand \in {0, 1} /\ Due \in {0, 1}
  BY DEF Seen, InHand, Due, One
<1>6. EvictionsAccounted <=> Coming + Told + Seen + InHand = Due
  BY DEF EvictionsAccounted, Coming, Told, Seen, InHand, Due
<1> QED  BY <1>1, <1>2, <1>3, <1>4, <1>5, <1>6 DEF Counted

LEMMA EvictionsCountedNext == TypeOK' => Counted'
  BY EvictionsCounted, PTL

Surplus == Coming + Told + Seen + InHand - Due

LEMMA SurplusIsNone == TypeOK => (EvictionsAccounted <=> Surplus = 0)
<1> SUFFICES ASSUME TypeOK PROVE EvictionsAccounted <=> Surplus = 0
  OBVIOUS
<1>1. /\ Coming \in Nat /\ Told \in Nat /\ Seen \in Nat /\ InHand \in Nat /\ Due \in Nat
      /\ EvictionsAccounted <=> Coming + Told + Seen + InHand = Due
  BY EvictionsCounted DEF Counted
<1> QED  BY <1>1 DEF Surplus

LEMMA SurplusIsNoneNext == TypeOK' => (EvictionsAccounted' <=> Surplus' = 0)
<1>1. (TypeOK => (EvictionsAccounted <=> Surplus = 0))'
  BY SurplusIsNone, PTL
<1> QED  BY <1>1

LEMMA EvictionsBalance ==
  ASSUME Inv, TypeOK',
         Coming' + Told' + Seen' + InHand' - Due' = Coming + Told + Seen + InHand - Due
  PROVE  EvictionsAccounted'
<1>1. Surplus' = Surplus
  BY DEF Surplus
<1>2. Surplus = 0
  BY SurplusIsNone DEF Inv
<1> QED  BY <1>1, <1>2, SurplusIsNoneNext

(* The terms that a step does not change. *)
LEMMA Unchanged ==
  /\ toWorker' = toWorker => Coming' = Coming
  /\ toMaster' = toMaster => Told' = Told
  /\ desalojado' = desalojado => Seen' = Seen
  /\ asked' = asked => Due' = Due
  /\ ti' = ti => InHand' = InHand
  /\ (Handling' <=> Handling) => InHand' = InHand
  BY DEF Coming, Told, Seen, Due, InHand, Handling, One

LEMMA CountsTyped ==
  ASSUME Inv
  PROVE  Coming \in Nat /\ Told \in Nat /\ Seen \in Nat /\ InHand \in Nat /\ Due \in Nat
  BY EvictionsCounted DEF Inv, Counted

LEMMA EvictionsStay ==
  ASSUME Inv, TypeOK', UNCHANGED <<toWorker, toMaster, desalojado, asked>>,
         Handling' <=> Handling
  PROVE  EvictionsAccounted'
<1>1. Coming' = Coming /\ Told' = Told /\ Seen' = Seen /\ Due' = Due /\ InHand' = InHand
  BY Unchanged
<1> QED  BY <1>1, CountsTyped, EvictionsBalance

LEMMA EvictionsKeptByInterpreter == Inv /\ TypeOK' /\ InterpreterNext => EvictionsAccounted'
<1> SUFFICES ASSUME Inv, TypeOK' PROVE InterpreterNext => EvictionsAccounted'
  OBVIOUS
<1>1. ti \in Interpreter /\ OpInHand
  BY Typed DEF Inv
<1>2. Coming \in Nat /\ Told \in Nat /\ Seen \in Nat /\ InHand \in Nat /\ Due \in Nat
  BY CountsTyped
<1>3. CASE Top \/ AwaitAfterError \/ AwaitQuery \/ Load \/ Leave \/ NotInterrupted
  <2>1. ti'.op = ti.op /\ ti'.pc \notin {"flush", "wait"} /\ ti.pc \notin {"flush", "wait"}
    BY <1>3, <1>1 DEF Top, AwaitAfterError, AwaitQuery, Load, Leave, NotInterrupted, Goto, At,
       Interpreter
  <2>2. UNCHANGED <<toWorker, toMaster, desalojado, asked>>
    BY <1>3 DEF Top, AwaitAfterError, AwaitQuery, Load, Leave, NotInterrupted, master
  <2> QED  BY <2>1, <2>2, EvictionsStay DEF Handling
<1>4. CASE Fetch \/ Advance
  <2>1. ti'.pc \notin {"flush", "wait"} /\ ti.pc \notin {"flush", "wait"}
    BY <1>4, <1>1 DEF Fetch, Advance, At, Interpreter
  <2>2. UNCHANGED <<toWorker, toMaster, desalojado, asked>>
    BY <1>4 DEF Fetch, Advance, master
  <2> QED  BY <2>1, <2>2, EvictionsStay DEF Handling
<1>5. CASE FetchPast
  BY <1>5, EvictionsStay DEF FetchPast, Handling, master
<1>6. CASE Ask
  <2>1. ti'.op = ti.op /\ ti'.pc = "wait" /\ ti.pc \in {"work", "flush"}
    BY <1>6, <1>1 DEF Ask, Interpreter
  <2>2. Handling' <=> Handling
    BY <2>1, <1>1 DEF Handling, OpInHand
  <2>3. UNCHANGED <<toWorker, toMaster, desalojado, asked>>
    BY <1>6 DEF Ask, master
  <2> QED  BY <2>2, <2>3, EvictionsStay
<1>7. CASE Answered
  <2>1. ti.pc = "wait" /\ ti'.op = ti.op
        /\ ti'.pc = IF ti.op = "EVICTION" THEN "flush" ELSE "work"
    BY <1>7, <1>1, InterpreterMoves DEF Answered, At
  <2>2. Handling' <=> Handling
    BY <2>1 DEF Handling
  <2>3. UNCHANGED <<toWorker, toMaster, desalojado, asked>>
    BY <1>7 DEF Answered, master
  <2> QED  BY <2>2, <2>3, EvictionsStay
<1>8. CASE End
  <2>1. ti'.pc = "advance" /\ ti.pc = "work"
    BY <1>8, <1>1 DEF End, At, Interpreter
  <2>2. toWorker' = toWorker /\ desalojado' = desalojado /\ asked' = asked
        /\ toMaster' = Append(toMaster, Message("END", actual.q, 0))
    BY <1>8 DEF End, master
  <2>3. Told' = Told
    <3>1. actual.q \in Queries \cup {NoQuery} /\ toMaster \in Seq(Messages)
      BY Typed DEF Inv, ActualQuery
    <3> QED  BY <3>1, <2>2, SentWithoutPc DEF Told
  <2>4. Handling' <=> Handling
    BY <2>1 DEF Handling
  <2>5. Coming' = Coming /\ Seen' = Seen /\ Due' = Due /\ InHand' = InHand
    BY <2>2, <2>4, Unchanged
  <2> QED  BY <2>3, <2>5, <1>2, EvictionsBalance
<1>9. CASE Interrupted
  <2>1. ti'.pc = "flush" /\ ti'.op = "EVICTION" /\ ti.pc = "irq"
    BY <1>9, <1>1 DEF Interrupted, At, Interpreter
  <2>2. toWorker' = toWorker /\ toMaster' = toMaster /\ asked' = asked
    BY <1>9 DEF Interrupted, master
  <2>3. Coming' = Coming /\ Told' = Told /\ Due' = Due
    BY <2>2, Unchanged
  <2>4. Seen = 1 /\ Seen' = 0
    BY <1>9 DEF Interrupted, Seen, One
  <2>5. InHand = 0 /\ InHand' = 1
    BY <2>1 DEF InHand, Handling, One
  <2> QED  BY <2>3, <2>4, <2>5, <1>2, EvictionsBalance
<1>10. CASE Evicted
  <2>1. ti'.pc \in {"while", "top"} /\ ti.pc = "flush" /\ ti.op = "EVICTION"
    BY <1>10, <1>1, InterpreterMoves DEF Evicted, At, OpInHand
  <2>2. toWorker' = toWorker /\ desalojado' = desalojado /\ asked' = asked
        /\ toMaster' = Append(toMaster, Message("EVICTED", actual.q, actual.pc))
    BY <1>10 DEF Evicted, master
  <2>3. Told' = Told + 1
    <3>1. /\ actual.q \in Queries \cup {NoQuery} /\ actual.pc \in Nat
          /\ toMaster \in Seq(Messages)
      BY Typed DEF Inv, ActualQuery
    <3> QED  BY <3>1, <2>2, Sent DEF Told
  <2>4. Coming' = Coming /\ Seen' = Seen /\ Due' = Due
    BY <2>2, Unchanged
  <2>5. InHand = 1 /\ InHand' = 0
    BY <2>1 DEF InHand, Handling, One
  <2> QED  BY <2>3, <2>4, <2>5, <1>2, EvictionsBalance
<1> QED  BY <1>3, <1>4, <1>5, <1>6, <1>7, <1>8, <1>9, <1>10 DEF InterpreterNext

LEMMA EvictionsKeptByOthers ==
  /\ Inv /\ TypeOK'
  /\ MasterThread \/ StorageThread \/ AskEviction \/ Learn \/ \E q \in Queries : Give(q)
  => EvictionsAccounted'
<1> SUFFICES ASSUME Inv, TypeOK'
             PROVE  MasterThread \/ StorageThread \/ AskEviction \/ Learn
                    \/ (\E q \in Queries : Give(q)) => EvictionsAccounted'
  OBVIOUS
<1>1. /\ toWorker \in Seq(Messages) /\ toMaster \in Seq(Messages)
      /\ actual.q \in Queries \cup {NoQuery} /\ 0 \in Nat
  BY Typed DEF Inv, ActualQuery
<1>2. Coming \in Nat /\ Told \in Nat /\ Seen \in Nat /\ InHand \in Nat /\ Due \in Nat
  BY CountsTyped
<1>3. CASE ClearError \/ PostQuery
  BY <1>3, EvictionsStay DEF ClearError, PostQuery, Handling, master
<1>4. CASE HearSuccess \/ SetError \/ PostError \/ Dropped
  BY <1>4, EvictionsStay DEF HearSuccess, SetError, PostError, Dropped, Handling, master
<1>5. CASE TakeQuery
  <2>1. /\ toWorker # <<>> /\ Head(toWorker).op = "EXECUTE" /\ toWorker' = Tail(toWorker)
        /\ toMaster' = toMaster /\ desalojado' = desalojado /\ asked' = asked /\ ti' = ti
    BY <1>5 DEF TakeQuery, Hears, master
  <2>2. Coming' = Coming
    BY <2>1, <1>1, Received DEF Coming
  <2>3. Told' = Told /\ Seen' = Seen /\ Due' = Due /\ InHand' = InHand
    BY <2>1, Unchanged
  <2> QED  BY <2>2, <2>3, <1>2, EvictionsBalance
<1>6. CASE TakeEviction
  <2>1. /\ toWorker # <<>> /\ Head(toWorker).op = "EVICT" /\ toWorker' = Tail(toWorker)
        /\ toMaster' = toMaster /\ desalojado' = TRUE /\ asked' = asked /\ ti' = ti
    BY <1>6 DEF TakeEviction, Hears, master
  <2>2. Coming' = Coming - 1
    BY <2>1, <1>1, Received DEF Coming
  <2>3. Told' = Told /\ Due' = Due /\ InHand' = InHand
    BY <2>1, Unchanged
  <2>4. Coming' \in Nat /\ Seen \in {0, 1} /\ Seen' = 1 /\ Due \in {0, 1}
        /\ Coming + Told + Seen + InHand = Due
    BY <2>1, EvictionsCounted, EvictionsCountedNext DEF Inv, Counted
  <2>5. Seen = 0
    BY <2>2, <2>4, <1>2
  <2> QED  BY <2>2, <2>3, <2>4, <2>5, <1>2, EvictionsBalance
<1>7. CASE HearError
  <2>1. /\ toMaster' = Append(toMaster, Message("END", actual.q, 0))
        /\ toWorker' = toWorker /\ desalojado' = desalojado /\ asked' = asked /\ ti' = ti
    BY <1>7 DEF HearError, master
  <2>2. Told' = Told
    BY <2>1, <1>1, SentWithoutPc DEF Told
  <2>3. Coming' = Coming /\ Seen' = Seen /\ Due' = Due /\ InHand' = InHand
    BY <2>1, Unchanged
  <2> QED  BY <2>2, <2>3, <1>2, EvictionsBalance
<1>8. CASE AskEviction
  <2>1. /\ toWorker' = Append(toWorker, Message("EVICT", NoQuery, 0))
        /\ toMaster' = toMaster /\ desalojado' = desalojado /\ ~asked /\ asked' /\ ti' = ti
    BY <1>8 DEF AskEviction
  <2>2. Coming' = Coming + 1
    BY <2>1, <1>1, SentWithoutPc DEF Coming
  <2>3. Told' = Told /\ Seen' = Seen /\ InHand' = InHand
    BY <2>1, Unchanged
  <2>4. Due = 0 /\ Due' = 1
    BY <2>1 DEF Due, One
  <2> QED  BY <2>2, <2>3, <2>4, <1>2, EvictionsBalance
<1>9. CASE Learn
  <2>1. /\ toMaster # <<>> /\ toMaster' = Tail(toMaster)
        /\ toWorker' = toWorker /\ desalojado' = desalojado /\ ti' = ti
        /\ asked' = (asked /\ Head(toMaster).op # "EVICTED")
    BY <1>9 DEF Learn
  <2>2. Coming' = Coming /\ Seen' = Seen /\ InHand' = InHand
    BY <2>1, Unchanged
  <2>3. CASE Head(toMaster).op = "EVICTED"
    <3>1. Told' = Told - 1
      BY <2>1, <2>3, <1>1, Received DEF Told
    <3>2. Due' = 0
      BY <2>1, <2>3 DEF Due, One
    <3>3. Told' \in Nat /\ Due \in {0, 1} /\ Coming + Told + Seen + InHand = Due
      BY EvictionsCounted, EvictionsCountedNext DEF Inv, Counted
    <3>4. Due = 1
      BY <3>1, <3>3, <1>2
    <3> QED  BY <2>2, <3>1, <3>2, <3>4, <1>2, EvictionsBalance
  <2>4. CASE Head(toMaster).op # "EVICTED"
    <3>1. Told' = Told
      BY <2>1, <2>4, <1>1, Received DEF Told
    <3>2. Due' = Due
      BY <2>1, <2>4 DEF Due, One
    <3> QED  BY <2>2, <3>1, <3>2, <1>2, EvictionsBalance
  <2> QED  BY <2>3, <2>4
<1>10. ASSUME NEW q \in Queries, Give(q) PROVE EvictionsAccounted'
  <2>1. /\ toWorker' = Append(toWorker, Message("EXECUTE", q, query[q].pc))
        /\ toMaster' = toMaster /\ desalojado' = desalojado /\ asked' = asked /\ ti' = ti
    BY <1>10 DEF Give
  <2>2. Coming' = Coming
    <3>1. query[q].pc \in Nat
      BY Typed DEF Inv, Known
    <3> QED  BY <2>1, <3>1, <1>1, Sent DEF Coming
  <2>3. Told' = Told /\ Seen' = Seen /\ Due' = Due /\ InHand' = InHand
    BY <2>1, Unchanged
  <2> QED  BY <2>2, <2>3, <1>2, EvictionsBalance
<1> QED  BY <1>3, <1>4, <1>5, <1>6, <1>7, <1>8, <1>9, <1>10 DEF MasterThread, StorageThread

(* The terms of AnswersMatch. *)
Unheard == One(asks # "none")
Replying == One(ts.pc # "idle")
Permits == sem["respuesta_storage"] + sem["get_data"]
Waiting == One(ti.pc = "wait")

LEMMA AnswersCounted ==
  ASSUME Inv
  PROVE  /\ Unheard \in {0, 1} /\ Replying \in {0, 1} /\ Waiting \in {0, 1}
         /\ sem["respuesta_storage"] \in Nat /\ sem["get_data"] \in Nat
         /\ Permits = sem["respuesta_storage"] + sem["get_data"] /\ Permits \in Nat
         /\ Unheard + Replying + Permits <= Waiting
<1>1. Unheard \in {0, 1} /\ Replying \in {0, 1} /\ Waiting \in {0, 1}
  BY DEF Unheard, Replying, Waiting, One
<1>2. sem["respuesta_storage"] \in Nat /\ sem["get_data"] \in Nat
  BY Typed DEF Inv, Semaphores
<1>3. Unheard + Replying + sem["respuesta_storage"] + sem["get_data"] <= Waiting
  BY DEF Inv, AnswersMatch, Unheard, Replying, Waiting
<1> QED  BY <1>1, <1>2, <1>3 DEF Permits

Room == Unheard + Replying + sem["respuesta_storage"] + sem["get_data"] <= Waiting

LEMMA RoomMatches == Room => AnswersMatch
  BY DEF Room, AnswersMatch, Unheard, Replying, Waiting

LEMMA RoomMatchesNext == Room' => AnswersMatch'
  BY RoomMatches, PTL

LEMMA AnswersStay ==
  ASSUME Inv, asks' = asks, ts' = ts, ti'.pc = "wait" <=> ti.pc = "wait",
         sem'["respuesta_storage"] = sem["respuesta_storage"],
         sem'["get_data"] = sem["get_data"]
  PROVE  AnswersMatch'
<1>1. Unheard' = Unheard /\ Replying' = Replying /\ Waiting' = Waiting
  BY DEF Unheard, Replying, Waiting, One
<1>2. Room
  BY DEF Inv, AnswersMatch, Room, Unheard, Replying, Waiting
<1>3. Room'
  BY <1>1, <1>2 DEF Room
<1> QED  BY <1>3, RoomMatchesNext

(* The permits that wake the interpreter for something else. *)
LEMMA OtherPermits ==
  ASSUME TypeOK, NEW s \in {"dimi", "query_recibida"}, Post(s) \/ Wait(s)
  PROVE  /\ sem'["respuesta_storage"] = sem["respuesta_storage"]
         /\ sem'["get_data"] = sem["get_data"]
  BY DEF TypeOK, Semaphores, Post, Wait

LEMMA AnswersKeptByInterpreter == Inv /\ InterpreterNext => AnswersMatch'
<1> SUFFICES ASSUME Inv PROVE InterpreterNext => AnswersMatch'
  OBVIOUS
<1>1. ti \in Interpreter /\ sem \in [Semaphores -> Nat] /\ TypeOK
  BY Typed DEF Inv
<1>2. CASE Top \/ Load \/ Leave \/ NotInterrupted \/ Evicted \/ End \/ Advance \/ Fetch
           \/ Interrupted
  <2>1. ti'.pc # "wait" /\ ti.pc # "wait"
    BY <1>2, <1>1 DEF Top, Load, Leave, NotInterrupted, Evicted, End, Advance, Fetch,
       Interrupted, Goto, At, Interpreter
  <2>2. asks' = asks /\ ts' = ts /\ sem' = sem
    BY <1>2 DEF Top, Load, Leave, NotInterrupted, Evicted, End, Advance, Fetch, Interrupted
  <2> QED  BY <2>1, <2>2, AnswersStay
<1>3. CASE FetchPast
  BY <1>3, AnswersStay DEF FetchPast
<1>4. CASE AwaitAfterError
  <2>1. ti'.pc # "wait" /\ ti.pc # "wait"
    BY <1>4, <1>1 DEF AwaitAfterError, Goto, At, Interpreter
  <2>2. asks' = asks /\ ts' = ts /\ Wait("dimi")
    BY <1>4 DEF AwaitAfterError
  <2> QED  BY <2>1, <2>2, <1>1, OtherPermits, AnswersStay
<1>5. CASE AwaitQuery
  <2>1. ti'.pc # "wait" /\ ti.pc # "wait"
    BY <1>5, <1>1 DEF AwaitQuery, At, Interpreter
  <2>2. asks' = asks /\ ts' = ts /\ Wait("query_recibida")
    BY <1>5 DEF AwaitQuery
  <2> QED  BY <2>1, <2>2, <1>1, OtherPermits, AnswersStay
<1>6. CASE Ask
  <2>1. ti'.pc = "wait" /\ ti.pc # "wait" /\ ts' = ts /\ sem' = sem
    BY <1>6, <1>1 DEF Ask, Interpreter
  <2>2. Waiting = 0 /\ Waiting' = 1
    BY <2>1 DEF Waiting, One
  <2>3. Replying = 0 /\ sem["respuesta_storage"] = 0 /\ sem["get_data"] = 0
    BY <2>2, AnswersCounted
  <2>4. Replying' = 0 /\ sem'["respuesta_storage"] = 0 /\ sem'["get_data"] = 0
    BY <2>1, <2>3 DEF Replying
  <2>5. Unheard' = 0 \/ Unheard' = 1
    BY DEF Unheard, One
  <2>6. Room'
    BY <2>2, <2>4, <2>5 DEF Room
  <2> QED  BY <2>6, RoomMatchesNext
<1>7. CASE Answered
  <2>1. ti.pc = "wait" /\ asks' = asks /\ ts' = ts /\ Wait(AnswerSem)
    BY <1>7 DEF Answered, At
  <2>2. ti'.pc # "wait"
    BY <1>7, <1>1, InterpreterMoves DEF Answered
  <2>3. Waiting = 1 /\ Waiting' = 0
    BY <2>1, <2>2 DEF Waiting, One
  <2>4. Permits > 0
    BY <2>1, AnswersCounted DEF Wait, AnswerSem
  <2>5. Unheard = 0 /\ Replying = 0 /\ Permits = 1
    BY <2>3, <2>4, AnswersCounted
  <2>6. Unheard' = 0 /\ Replying' = 0
    BY <2>1, <2>5 DEF Unheard, Replying
  <2>7. sem'["respuesta_storage"] = 0 /\ sem'["get_data"] = 0
    <3>1. CASE AnswerSem = "respuesta_storage"
      <4>1. sem["respuesta_storage"] = 1 /\ sem["get_data"] = 0
        BY <3>1, <2>1, <2>5, AnswersCounted DEF Wait
      <4> QED  BY <4>1, <3>1, <2>1, <1>1 DEF Wait, Semaphores
    <3>2. CASE AnswerSem = "get_data"
      <4>1. sem["respuesta_storage"] = 0 /\ sem["get_data"] = 1
        BY <3>2, <2>1, <2>5, AnswersCounted DEF Wait
      <4> QED  BY <4>1, <3>2, <2>1, <1>1 DEF Wait, Semaphores
    <3> QED  BY <3>1, <3>2 DEF AnswerSem
  <2>8. Room'
    BY <2>3, <2>6, <2>7 DEF Room
  <2> QED  BY <2>8, RoomMatchesNext
<1> QED  BY <1>2, <1>3, <1>4, <1>5, <1>6, <1>7 DEF InterpreterNext

LEMMA AnswersKeptByOthers ==
  /\ Inv
  /\ MasterThread \/ StorageThread \/ AskEviction \/ Learn \/ \E q \in Queries : Give(q)
  => AnswersMatch'
<1> SUFFICES ASSUME Inv
             PROVE  MasterThread \/ StorageThread \/ AskEviction \/ Learn
                    \/ (\E q \in Queries : Give(q)) => AnswersMatch'
  OBVIOUS
<1>1. sem \in [Semaphores -> Nat] /\ TypeOK
      /\ ts \in [pc : {"idle", "set", "post"}, sem : {"respuesta_storage", "get_data"}]
  BY Typed DEF Inv
<1>2. CASE ClearError \/ TakeEviction
  BY <1>2, AnswersStay DEF ClearError, TakeEviction
<1>3. CASE TakeQuery
  <2>1. asks' = asks /\ ts' = ts /\ ti' = ti /\ (sem' = sem \/ Post("dimi"))
    BY <1>3 DEF TakeQuery
  <2> QED  BY <2>1, <1>1, OtherPermits, AnswersStay
<1>4. CASE PostQuery
  <2>1. asks' = asks /\ ts' = ts /\ ti' = ti /\ Post("query_recibida")
    BY <1>4 DEF PostQuery
  <2> QED  BY <2>1, <1>1, OtherPermits, AnswersStay
<1>5. CASE HearSuccess
  <2>1. asks # "none" /\ asks' = "none" /\ ts' = ts /\ ti' = ti
        /\ \E s \in {"respuesta_storage", "get_data"} : Post(s)
    BY <1>5 DEF HearSuccess
  <2>2. Unheard = 1 /\ Unheard' = 0 /\ Replying' = Replying /\ Waiting' = Waiting
    BY <2>1 DEF Unheard, Replying, Waiting, One
  <2>3. PICK s \in {"respuesta_storage", "get_data"} : Post(s)
    BY <2>1
  <2>4. Replying = 0 /\ Waiting = 1 /\ sem["respuesta_storage"] = 0 /\ sem["get_data"] = 0
    BY <2>2, AnswersCounted
  <2>5. sem'["respuesta_storage"] + sem'["get_data"] = 1
        /\ sem'["respuesta_storage"] \in {0, 1} /\ sem'["get_data"] \in {0, 1}
    BY <2>3, <2>4, <1>1 DEF Post, Semaphores
  <2>6. Room'
    BY <2>2, <2>4, <2>5 DEF Room
  <2> QED  BY <2>6, RoomMatchesNext
<1>6. CASE HearError
  <2>1. asks # "none" /\ asks' = "none" /\ sem' = sem /\ ti' = ti
    BY <1>6 DEF HearError
  <2>2. Unheard = 1 /\ Unheard' = 0 /\ Waiting' = Waiting
    BY <2>1 DEF Unheard, Waiting, One
  <2>3. Waiting = 1 /\ sem["respuesta_storage"] = 0 /\ sem["get_data"] = 0
    BY <2>2, AnswersCounted
  <2>4. Replying' = 0 \/ Replying' = 1
    BY DEF Replying, One
  <2>5. Room'
    BY <2>1, <2>2, <2>3, <2>4 DEF Room
  <2> QED  BY <2>5, RoomMatchesNext
<1>7. CASE SetError
  <2>1. asks' = asks /\ sem' = sem /\ ti' = ti /\ ts.pc # "idle" /\ ts'.pc # "idle"
    BY <1>7, <1>1 DEF SetError
  <2>2. Unheard' = Unheard /\ Replying' = Replying /\ Waiting' = Waiting
    BY <2>1 DEF Unheard, Replying, Waiting, One
  <2>3. Unheard + Replying + sem["respuesta_storage"] + sem["get_data"] <= Waiting
    BY AnswersCounted
  <2>4. Room'
    BY <2>1, <2>2, <2>3 DEF Room
  <2> QED  BY <2>4, RoomMatchesNext
<1>8. CASE PostError
  <2>1. asks' = asks /\ ti' = ti /\ ts.pc # "idle" /\ ts'.pc = "idle" /\ Post(ts.sem)
    BY <1>8, <1>1 DEF PostError
  <2>2. Unheard' = Unheard /\ Replying = 1 /\ Replying' = 0 /\ Waiting' = Waiting
    BY <2>1 DEF Unheard, Replying, Waiting, One
  <2>3. /\ Unheard = 0 /\ Waiting = 1
        /\ sem["respuesta_storage"] = 0 /\ sem["get_data"] = 0
    BY <2>2, AnswersCounted
  <2>4. sem'["respuesta_storage"] + sem'["get_data"] = 1
        /\ sem'["respuesta_storage"] \in {0, 1} /\ sem'["get_data"] \in {0, 1}
    BY <2>1, <2>3, <1>1 DEF Post, Semaphores
  <2>5. Room'
    BY <2>2, <2>3, <2>4 DEF Room
  <2> QED  BY <2>5, RoomMatchesNext
<1>9. CASE Dropped
  <2>1. asks # "none" /\ asks' = "none" /\ sem' = sem /\ ti' = ti /\ ts' = ts
    BY <1>9 DEF Dropped
  <2>2. Unheard = 1 /\ Unheard' = 0 /\ Replying' = Replying /\ Waiting' = Waiting
    BY <2>1 DEF Unheard, Replying, Waiting, One
  <2>3. Replying = 0 /\ Waiting = 1 /\ sem["respuesta_storage"] = 0 /\ sem["get_data"] = 0
    BY <2>2, AnswersCounted
  <2>4. Room'
    BY <2>1, <2>2, <2>3 DEF Room
  <2> QED  BY <2>4, RoomMatchesNext
<1>10. CASE AskEviction \/ Learn \/ \E q \in Queries : Give(q)
  <2>1. asks' = asks /\ ts' = ts /\ ti' = ti /\ sem' = sem
    BY <1>10 DEF AskEviction, Learn, Give
  <2> QED  BY <2>1, AnswersStay
<1> QED  BY <1>2, <1>3, <1>4, <1>5, <1>6, <1>7, <1>8, <1>9, <1>10
         DEF MasterThread, StorageThread

-----------------------------------------------------------------------------
LEMMA StepSafe == Inv /\ [Next]_vars => Inv'
<1> SUFFICES ASSUME Inv, [Next]_vars PROVE Inv'
  OBVIOUS
<1>1. CASE Next
  <2>1. \/ InterpreterNext
        \/ MasterThread \/ StorageThread \/ AskEviction \/ Learn \/ \E q \in Queries : Give(q)
    BY <1>1 DEF Next
  <2>2. TypeOK'
    BY <2>1, InterpreterTyped, CallbacksTyped, PeerTyped DEF Inv
  <2>3. EvictionsAccounted'
    BY <2>1, <2>2, EvictionsKeptByInterpreter, EvictionsKeptByOthers
  <2>4. AnswersMatch'
    BY <2>1, AnswersKeptByInterpreter, AnswersKeptByOthers
  <2> QED  BY <1>1, <2>2, <2>3, <2>4, OpInHandKept DEF Inv
<1>2. CASE UNCHANGED vars
  <2>1. TypeOK' /\ OpInHand'
    BY <1>2 DEF vars, Inv, TypeOK, OpInHand
  <2>2. EvictionsAccounted'
    BY <1>2, <2>1, EvictionsStay DEF vars, Handling
  <2>3. AnswersMatch'
    BY <1>2, AnswersStay DEF vars
  <2> QED  BY <2>1, <2>2, <2>3 DEF Inv
<1> QED  BY <1>1, <1>2

(* The inductive invariant holds in every behaviour: the next theorems are    *)
(* its parts.                                                                 *)
THEOREM InvHolds == Spec => []Inv
  BY InitSafe, StepSafe, PTL DEF Spec

(* Every variable that the threads of a Worker share has its type, for any    *)
(* number of Queries and any files, whether the Master waits or not.          *)
THEOREM TypeCorrect == Spec => []TypeOK
<1>1. Inv => TypeOK  BY DEF Inv
<1> QED  BY <1>1, InvHolds, PTL

(* An eviction that the Master asks for is neither lost nor answered twice,   *)
(* however REQUEST_DESALOJO crosses the ends and the errors of Queries: the   *)
(* flag, the answer and the two messages are always one in all.               *)
THEOREM EvictionsNeverLost == Spec => []EvictionsAccounted
<1>1. Inv => EvictionsAccounted  BY DEF Inv
<1> QED  BY <1>1, InvHolds, PTL

(* No permit of sem_respuesta_storage or sem_get_data outlives the request    *)
(* that it answers, whichever of the two an error posts and whatever Storage  *)
(* drops.                                                                     *)
THEOREM NoAnswerLeftOver == Spec => []AnswersMatch
<1>1. Inv => AnswersMatch  BY DEF Inv
<1> QED  BY <1>1, InvHolds, PTL

-----------------------------------------------------------------------------
(* While the Master waits *)

(* One Query is on its way to the interpreter, which waits for it: as a        *)
(* message, in packet_callback or as a permit of sem_query_recibida.           *)
Arriving == tm # "idle" \/ sem["query_recibida"] # 0
Waits == ti.pc \in {"dimi", "await"}
OneOnItsWay ==
  /\ InFlight(toWorker, "EXECUTE") \in {0, 1}
  /\ InFlight(toWorker, "EXECUTE") = 1 => Waits /\ ~Arriving /\ toMaster = <<>>
  /\ Arriving => Waits
  /\ Arriving \/ ti.pc = "load" => toMaster = <<>>
  /\ sem["query_recibida"] # 0 => sem["query_recibida"] = 1 /\ tm = "idle"

(* It waits on sem_dimi if there was an error, and the permit that gets it out *)
(* of there comes with the Query.                                              *)
ErrorIsMet ==
  /\ sem["dimi"] = One(Arriving /\ ti.pc = "dimi")
  /\ Waits /\ ~Arriving => (hubo_error <=> ti.pc = "dimi")
  /\ tm = "post" \/ sem["query_recibida"] # 0 => ~hubo_error

RestInv == OneOnItsWay /\ ErrorIsMet

(* The instruction at hand is executed and not counted yet. *)
InMidst == ti.pc \in {"work", "advance"} \/ (ti.pc = "wait" /\ ti.op # "EVICTION")
PositionKept ==
  /\ actual.q \in Queries => following[actual.q] = actual.pc + One(InMidst)
  /\ actual.file \in {NoQuery, actual.q}
  /\ ti.pc = "load" => ti.file = actual.q

(* What the Master gives is where the Query was left, and so is what it is told. *)
Held(s) == {s[i] : i \in DOMAIN s}
PositionGiven ==
  /\ \A m \in Held(toWorker) : m.op = "EXECUTE" =>
       m.q \in Queries /\ m.pc = following[m.q] /\ query[m.q].sp = "EXEC"
  /\ \A m \in Held(toMaster) :
       /\ m.q = actual.q
       /\ m.op # "END" => ti.is_free /\ (m.q \in Queries => m.pc = following[m.q])
  /\ \A q \in Queries : query[q].sp = "READY" => query[q].pc = following[q]

(* The Query that the interpreter has, or is to have, is not waiting.          *)
QueryIsGiven ==
  /\ Arriving \/ ti.pc = "load" => actual.q \in Queries /\ query[actual.q].sp = "EXEC"
  /\ ~ti.is_free => actual.q \in Queries /\ query[actual.q].sp # "READY"
  /\ ti.pc = "flush" \/ (ti.pc = "wait" /\ ti.op = "EVICTION") => ti.is_free

OrderInv == RestInv /\ PositionKept /\ PositionGiven /\ QueryIsGiven
PoliteInv == ~setup.prompt => OrderInv


(* A permit posted or taken is of one semaphore. *)
LEMMA PermitsCounted ==
  ASSUME sem \in [Semaphores -> Nat], NEW s \in Semaphores
  PROVE  /\ Post(s) => sem'[s] = sem[s] + 1
         /\ Wait(s) => sem[s] # 0 /\ sem'[s] = sem[s] - 1
         /\ Post(s) \/ Wait(s) => \A t \in Semaphores : t # s => sem'[t] = sem[t]
  BY DEF Post, Wait

LEMMA HeldMoves ==
  ASSUME NEW s \in Seq(Messages)
  PROVE  /\ Held(s) \subseteq Messages
         /\ \A m \in Messages : Held(Append(s, m)) = Held(s) \cup {m}
         /\ s # <<>> => Held(Tail(s)) \subseteq Held(s) /\ Head(s) \in Held(s)
<1>1. Len(s) \in Nat /\ DOMAIN s = 1 .. Len(s) /\ \A i \in 1 .. Len(s) : s[i] \in Messages
  OBVIOUS
<1>2. Held(s) \subseteq Messages
  BY <1>1 DEF Held
<1>3. ASSUME NEW m \in Messages PROVE Held(Append(s, m)) = Held(s) \cup {m}
  <2>1. /\ DOMAIN Append(s, m) = 1 .. Len(s) + 1
        /\ \A i \in 1 .. Len(s) : Append(s, m)[i] = s[i]
        /\ Append(s, m)[Len(s) + 1] = m
    OBVIOUS
  <2>2. Held(Append(s, m)) \subseteq Held(s) \cup {m}
    BY <1>1, <2>1 DEF Held
  <2>3. Held(s) \subseteq Held(Append(s, m))
    BY <1>1, <2>1 DEF Held
  <2>4. m \in Held(Append(s, m))
    BY <1>1, <2>1 DEF Held
  <2> QED  BY <2>2, <2>3, <2>4
<1>4. ASSUME s # <<>> PROVE Held(Tail(s)) \subseteq Held(s) /\ Head(s) \in Held(s)
  <2>1. /\ Len(s) >= 1 /\ DOMAIN Tail(s) = 1 .. Len(s) - 1
        /\ \A i \in 1 .. Len(s) - 1 : Tail(s)[i] = s[i + 1]
        /\ Head(s) = s[1]
    BY <1>4
  <2> QED  BY <1>1, <2>1 DEF Held
<1> QED  BY <1>2, <1>3, <1>4

LEMMA HeldEmpty == Held(<<>>) = {}
<1>1. DOMAIN <<>> = {}
  OBVIOUS
<1> QED  BY <1>1 DEF Held

(* A message held is a message counted. *)
LEMMA HeldCounted ==
  ASSUME NEW s \in Seq(Messages), NEW m \in Held(s)
  PROVE  InFlight(s, m.op) # 0
<1>1. PICK i \in DOMAIN s : s[i] = m
  BY DEF Held
<1> DEFINE S == {k \in DOMAIN s : s[k].op = m.op}
<1>2. i \in S
  BY <1>1
<1>3. IsFiniteSet(S)
  BY InFlightCounts
<1>4. Cardinality(S) # 0
  BY <1>2, <1>3, FS_EmptySet
<1> QED  BY <1>4 DEF InFlight


LEMMA RestBegins == Init => RestInv
<1> SUFFICES ASSUME Init PROVE RestInv
  OBVIOUS
<1>1. InFlight(toWorker, "EXECUTE") = 0
  BY InFlightEmpty DEF Init
<1>2. ti.pc = "top" /\ tm = "idle" /\ toMaster = <<>>
  BY DEF Init
<1>3. sem["dimi"] = 0 /\ sem["query_recibida"] = 0
  BY DEF Init, Semaphores
<1>4. ~Arriving /\ ~Waits
  BY <1>2, <1>3 DEF Arriving, Waits
<1>5. OneOnItsWay
  BY <1>1, <1>2, <1>3, <1>4 DEF OneOnItsWay
<1>6. ErrorIsMet
  BY <1>2, <1>3, <1>4 DEF ErrorIsMet, One
<1> QED  BY <1>5, <1>6 DEF RestInv

(* Between a Query and the next, what the interpreter does changes nothing of  *)
(* this, whatever it makes of hubo_error.                                      *)
LEMMA RestWhileBusy ==
  ASSUME RestInv, ~Waits, ti'.pc \notin {"dimi", "await", "load"},
         InFlight(toWorker', "EXECUTE") = InFlight(toWorker, "EXECUTE"), tm' = tm,
         sem'["dimi"] = sem["dimi"], sem'["query_recibida"] = sem["query_recibida"]
  PROVE  RestInv'
<1>1. /\ ~Arriving /\ InFlight(toWorker, "EXECUTE") = 0 /\ sem["dimi"] = 0
      /\ sem["query_recibida"] = 0 /\ tm = "idle"
  BY DEF RestInv, OneOnItsWay, ErrorIsMet, Arriving, One
<1>2. ~Arriving' /\ ~Waits'
  BY <1>1 DEF Arriving, Waits
<1>3. OneOnItsWay'
  BY <1>1, <1>2 DEF OneOnItsWay
<1>4. ErrorIsMet'
  BY <1>1, <1>2 DEF ErrorIsMet, One
<1> QED  BY <1>3, <1>4 DEF RestInv

LEMMA RestStays ==
  ASSUME RestInv, ti' = ti, hubo_error' = hubo_error, tm' = tm, sem' = sem,
         InFlight(toWorker', "EXECUTE") = InFlight(toWorker, "EXECUTE"),
         toMaster' = toMaster \/ toMaster # <<>>
  PROVE  RestInv'
<1>1. Arriving' = Arriving /\ Waits' = Waits
  BY DEF Arriving, Waits
<1>2. OneOnItsWay'
  BY <1>1 DEF RestInv, OneOnItsWay
<1>3. ErrorIsMet'
  BY <1>1 DEF RestInv, ErrorIsMet, One
<1> QED  BY <1>2, <1>3 DEF RestInv

LEMMA RestKeptByInterpreter == Inv /\ RestInv /\ InterpreterNext => RestInv'
<1> SUFFICES ASSUME Inv, RestInv PROVE InterpreterNext => RestInv'
  OBVIOUS
<1>1. /\ ti \in Interpreter /\ sem \in [Semaphores -> Nat] /\ TypeOK
      /\ actual \in ActualQuery /\ actual.q \in Queries \cup {NoQuery} /\ actual.pc \in Nat
      /\ toWorker \in Seq(Messages) /\ toMaster \in Seq(Messages)
  BY Typed DEF Inv, ActualQuery
<1>2. {"dimi", "query_recibida", "respuesta_storage", "get_data"} = Semaphores
  BY DEF Semaphores
<1>3. CASE Load \/ Leave \/ Fetch \/ End \/ Advance \/ NotInterrupted \/ Interrupted \/ Evicted
  <2>1. ~Waits /\ ti'.pc \notin {"dimi", "await", "load"}
    BY <1>3, <1>1 DEF Load, Leave, NotInterrupted, Evicted, End, Advance, Fetch,
       Interrupted, Goto, At, Interpreter, Waits
  <2>2. tm' = tm /\ sem' = sem /\ toWorker' = toWorker
    BY <1>3 DEF Load, Leave, NotInterrupted, Evicted, End, Advance, Fetch, Interrupted
  <2> QED  BY <2>1, <2>2, RestWhileBusy
<1>4. CASE Ask
  <2>1. ~Waits /\ ti'.pc \notin {"dimi", "await", "load"}
    BY <1>4, <1>1 DEF Ask, Interpreter, Waits
  <2>2. tm' = tm /\ sem' = sem /\ toWorker' = toWorker
    BY <1>4 DEF Ask
  <2> QED  BY <2>1, <2>2, RestWhileBusy
<1>5. CASE FetchPast
  BY <1>5, RestStays DEF FetchPast
<1>6. CASE Answered
  <2>1. /\ ti.pc = "wait" /\ Wait(AnswerSem)
        /\ tm' = tm /\ toWorker' = toWorker
    BY <1>6 DEF Answered, At
  <2>2. ti'.pc \in {"flush", "work"}
    BY <1>6, <1>1, InterpreterMoves DEF Answered
  <2>3. AnswerSem \in {"respuesta_storage", "get_data"}
    BY DEF AnswerSem
  <2>4. sem'["dimi"] = sem["dimi"] /\ sem'["query_recibida"] = sem["query_recibida"]
    BY <2>1, <2>3, <1>1, <1>2, PermitsCounted
  <2> QED  BY <2>1, <2>2, <2>4, RestWhileBusy DEF Waits
<1>7. CASE Top
  <2>1. /\ ti.pc = "top" /\ ti'.pc = IF hubo_error THEN "dimi" ELSE "await"
    BY <1>7, <1>1, InterpreterMoves DEF Top, At
  <2>2. /\ sem' = sem /\ tm' = tm /\ toWorker' = toWorker /\ toMaster' = toMaster
        /\ hubo_error' = hubo_error
    BY <1>7 DEF Top
  <2>3. /\ ~Arriving /\ InFlight(toWorker, "EXECUTE") = 0 /\ sem["dimi"] = 0
        /\ sem["query_recibida"] = 0 /\ tm = "idle"
    BY <2>1 DEF RestInv, OneOnItsWay, ErrorIsMet, Arriving, Waits, One
  <2>4. ~Arriving'
    BY <2>2, <2>3 DEF Arriving
  <2>5. OneOnItsWay'
    BY <2>1, <2>2, <2>3, <2>4 DEF OneOnItsWay
  <2>6. ErrorIsMet'
    BY <2>1, <2>2, <2>3, <2>4 DEF ErrorIsMet, One
  <2> QED  BY <2>5, <2>6 DEF RestInv
<1>8. CASE AwaitAfterError
  <2>1. ti.pc = "dimi" /\ ti'.pc = "await"
    BY <1>8, <1>1, InterpreterMoves DEF AwaitAfterError, At
  <2>2. /\ Wait("dimi") /\ tm' = tm /\ toWorker' = toWorker /\ toMaster' = toMaster
        /\ hubo_error' = hubo_error
    BY <1>8 DEF AwaitAfterError
  <2>3. /\ sem["dimi"] # 0 /\ sem'["dimi"] = sem["dimi"] - 1
        /\ sem'["query_recibida"] = sem["query_recibida"]
    BY <2>2, <1>1, <1>2, PermitsCounted
  <2>4. Arriving /\ sem'["dimi"] = 0
    BY <2>3 DEF RestInv, ErrorIsMet, One
  <2>5. Arriving' /\ Waits'
    BY <2>1, <2>2, <2>3, <2>4 DEF Arriving, Waits
  <2>6. OneOnItsWay'
    <3>1. /\ InFlight(toWorker, "EXECUTE") = 0 /\ toMaster = <<>>
          /\ sem["query_recibida"] # 0 => sem["query_recibida"] = 1 /\ tm = "idle"
      BY <2>4 DEF RestInv, OneOnItsWay
    <3> QED  BY <3>1, <2>1, <2>2, <2>3, <2>5 DEF OneOnItsWay
  <2>7. ErrorIsMet'
    BY <2>1, <2>2, <2>3, <2>4, <2>5 DEF RestInv, ErrorIsMet, One
  <2> QED  BY <2>6, <2>7 DEF RestInv
<1>9. CASE AwaitQuery
  <2>1. ti.pc = "await" /\ ti'.pc = "load"
    <3>1. At("await") /\ ti' = [ti EXCEPT !.pc = "load", !.file = actual.q]
      BY <1>9, Zenon DEF AwaitQuery
    <3> QED  BY <3>1, <1>1 DEF At, Interpreter
  <2>2. /\ Wait("query_recibida") /\ tm' = tm /\ toWorker' = toWorker /\ toMaster' = toMaster
        /\ hubo_error' = hubo_error
    BY <1>9 DEF AwaitQuery
  <2>3. /\ sem["query_recibida"] # 0 /\ sem'["query_recibida"] = sem["query_recibida"] - 1
        /\ sem'["dimi"] = sem["dimi"]
    BY <2>2, <1>1, <1>2, PermitsCounted
  <2>4. Arriving /\ tm = "idle" /\ sem'["query_recibida"] = 0 /\ toMaster = <<>>
        /\ InFlight(toWorker, "EXECUTE") = 0 /\ sem["dimi"] = 0
    BY <2>1, <2>3 DEF RestInv, OneOnItsWay, ErrorIsMet, Arriving, One
  <2>5. ~Arriving' /\ ~Waits'
    BY <2>1, <2>2, <2>4 DEF Arriving, Waits
  <2>6. OneOnItsWay'
    <3>1. InFlight(toWorker, "EXECUTE")' = 0 /\ toMaster' = <<>>
      BY <2>2, <2>4
    <3>2. sem'["query_recibida"] = 0
      BY <2>4
    <3> QED  BY <3>1, <3>2, <2>5 DEF OneOnItsWay
  <2>7. ErrorIsMet'
    BY <2>1, <2>2, <2>3, <2>4, <2>5 DEF ErrorIsMet, One
  <2> QED  BY <2>6, <2>7 DEF RestInv
<1> QED  BY <1>3, <1>4, <1>5, <1>6, <1>7, <1>8, <1>9 DEF InterpreterNext


LEMMA RestKeptByMaster == Inv /\ RestInv /\ MasterThread => RestInv'
<1> SUFFICES ASSUME Inv, RestInv PROVE MasterThread => RestInv'
  OBVIOUS
<1>1. /\ sem \in [Semaphores -> Nat] /\ toWorker \in Seq(Messages)
      /\ \A op : InFlight(toWorker, op) \in Nat
      /\ sem["dimi"] \in Nat /\ sem["query_recibida"] \in Nat
  BY Typed, InFlightCounts DEF Inv, Semaphores
<1>2. {"dimi", "query_recibida", "respuesta_storage", "get_data"} = Semaphores
  BY DEF Semaphores
<1>3. CASE TakeQuery
  <2>1. /\ toWorker # <<>> /\ Head(toWorker).op = "EXECUTE" /\ toWorker' = Tail(toWorker)
        /\ tm = "idle" /\ tm' = "clear" /\ ti' = ti /\ toMaster' = toMaster
        /\ hubo_error' = hubo_error
        /\ IF hubo_error THEN Post("dimi") ELSE sem' = sem
    BY <1>3 DEF TakeQuery, Hears
  <2>2. /\ InFlight(toWorker, "EXECUTE") = 1 /\ InFlight(toWorker', "EXECUTE") = 0
    <3>1. Tail(toWorker) \in Seq(Messages)
      BY <2>1, <1>1
    <3>2. InFlight(Tail(toWorker), "EXECUTE") = InFlight(toWorker, "EXECUTE") - 1
      BY <2>1, <1>1, Received
    <3>3. InFlight(Tail(toWorker), "EXECUTE") \in Nat
      BY <3>1, InFlightCounts
    <3>4. InFlight(toWorker, "EXECUTE") \in {0, 1}
      BY DEF RestInv, OneOnItsWay
    <3> QED  BY <3>2, <3>3, <3>4, <2>1
  <2>3. /\ Waits /\ ~Arriving /\ toMaster = <<>> /\ sem["query_recibida"] = 0
        /\ sem["dimi"] = 0 /\ (hubo_error <=> ti.pc = "dimi")
    BY <2>2 DEF RestInv, OneOnItsWay, ErrorIsMet, Arriving, One
  <2>4. /\ sem'["query_recibida"] = 0
        /\ sem'["dimi"] = IF hubo_error THEN 1 ELSE 0
    BY <2>1, <2>3, <1>1, <1>2, PermitsCounted
  <2>5. Arriving' /\ Waits'
    BY <2>1, <2>3 DEF Arriving, Waits
  <2>6. OneOnItsWay'
    <3>1. InFlight(toWorker, "EXECUTE")' = 0 /\ toMaster' = <<>>
      BY <2>1, <2>2, <2>3
    <3> QED  BY <3>1, <2>4, <2>5 DEF OneOnItsWay
  <2>7. ErrorIsMet'
    <3>1. sem'["dimi"] = One(Arriving' /\ ti'.pc = "dimi")
      BY <2>1, <2>3, <2>4, <2>5 DEF One
    <3> QED  BY <3>1, <2>1, <2>4, <2>5 DEF ErrorIsMet
  <2> QED  BY <2>6, <2>7 DEF RestInv
<1>4. CASE ClearError
  <2>1. /\ tm = "clear" /\ tm' = "post" /\ ~hubo_error' /\ sem' = sem /\ ti' = ti
        /\ toWorker' = toWorker /\ toMaster' = toMaster
    BY <1>4 DEF ClearError
  <2>2. Arriving /\ Arriving' /\ Waits' = Waits /\ sem["query_recibida"] = 0
    BY <2>1 DEF Arriving, Waits, RestInv, OneOnItsWay
  <2>3. OneOnItsWay'
    <3>1. OneOnItsWay
      BY DEF RestInv
    <3>2. InFlight(toWorker, "EXECUTE")' = InFlight(toWorker, "EXECUTE")
      BY <2>1
    <3> QED  BY <3>1, <3>2, <2>1, <2>2 DEF OneOnItsWay
  <2>4. ErrorIsMet'
    <3>1. One(Arriving /\ ti.pc = "dimi")' = One(Arriving /\ ti.pc = "dimi")
      BY <2>1, <2>2 DEF One
    <3> QED  BY <3>1, <2>1, <2>2 DEF RestInv, ErrorIsMet
  <2> QED  BY <2>3, <2>4 DEF RestInv
<1>5. CASE PostQuery
  <2>1. /\ tm = "post" /\ tm' = "idle" /\ hubo_error' = hubo_error /\ ti' = ti
        /\ toWorker' = toWorker /\ toMaster' = toMaster /\ Post("query_recibida")
    BY <1>5 DEF PostQuery
  <2>2. Arriving /\ sem["query_recibida"] = 0 /\ ~hubo_error /\ Waits' = Waits /\ Waits
        /\ toMaster = <<>> /\ InFlight(toWorker, "EXECUTE") = 0
    BY <2>1 DEF Arriving, Waits, RestInv, OneOnItsWay, ErrorIsMet
  <2>3. sem'["query_recibida"] = 1 /\ sem'["dimi"] = sem["dimi"]
    BY <2>1, <2>2, <1>1, <1>2, PermitsCounted
  <2>4. Arriving'
    BY <2>3 DEF Arriving
  <2>5. OneOnItsWay'
    <3>1. InFlight(toWorker, "EXECUTE")' = 0 /\ toMaster' = <<>>
      BY <2>1, <2>2
    <3> QED  BY <3>1, <2>1, <2>2, <2>3, <2>4 DEF OneOnItsWay
  <2>6. ErrorIsMet'
    <3>1. One(Arriving /\ ti.pc = "dimi")' = One(Arriving /\ ti.pc = "dimi")
      BY <2>1, <2>2, <2>4 DEF One
    <3> QED  BY <3>1, <2>1, <2>2, <2>3, <2>4 DEF RestInv, ErrorIsMet
  <2> QED  BY <2>5, <2>6 DEF RestInv
<1>6. CASE TakeEviction
  <2>1. /\ toWorker # <<>> /\ Head(toWorker).op = "EVICT" /\ toWorker' = Tail(toWorker)
        /\ tm' = tm /\ sem' = sem /\ ti' = ti /\ toMaster' = toMaster
        /\ hubo_error' = hubo_error
    BY <1>6 DEF TakeEviction, Hears
  <2>2. InFlight(toWorker', "EXECUTE") = InFlight(toWorker, "EXECUTE")
    BY <2>1, <1>1, Received
  <2> QED  BY <2>1, <2>2, RestStays
<1> QED  BY <1>3, <1>4, <1>5, <1>6 DEF MasterThread

LEMMA RestKeptByStorage == Inv /\ RestInv /\ StorageThread => RestInv'
<1> SUFFICES ASSUME Inv, RestInv PROVE StorageThread => RestInv'
  OBVIOUS
<1>1. /\ sem \in [Semaphores -> Nat]
      /\ ts \in [pc : {"idle", "set", "post"}, sem : {"respuesta_storage", "get_data"}]
  BY Typed DEF Inv
<1>2. {"dimi", "query_recibida", "respuesta_storage", "get_data"} = Semaphores
  BY DEF Semaphores
<1>3. ASSUME asks # "none" \/ ts.pc # "idle" PROVE ti.pc = "wait"
  <2>1. Unheard = 1 \/ Replying = 1
    BY <1>3 DEF Unheard, Replying, One
  <2>2. Waiting = 1
    BY <2>1, AnswersCounted
  <2> QED  BY <2>2 DEF Waiting, One
<1>4. ASSUME StorageThread
      PROVE  /\ asks # "none" \/ ts.pc # "idle"
             /\ ti' = ti /\ tm' = tm /\ toWorker' = toWorker
             /\ sem' = sem \/ \E s \in {"respuesta_storage", "get_data"} : Post(s)
  <2>1. CASE HearSuccess
    BY <2>1 DEF HearSuccess
  <2>2. CASE HearError
    BY <2>2 DEF HearError
  <2>3. CASE SetError
    BY <2>3 DEF SetError
  <2>4. CASE PostError
    BY <2>4, <1>1 DEF PostError
  <2>5. CASE Dropped
    BY <2>5 DEF Dropped
  <2> QED  BY <1>4, <2>1, <2>2, <2>3, <2>4, <2>5 DEF StorageThread
<1>5. ASSUME StorageThread PROVE RestInv'
  <2>1. ~Waits /\ ti'.pc \notin {"dimi", "await", "load"}
    BY <1>5, <1>3, <1>4 DEF Waits
  <2>2. sem'["dimi"] = sem["dimi"] /\ sem'["query_recibida"] = sem["query_recibida"]
    BY <1>5, <1>4, <1>1, <1>2, PermitsCounted
  <2> QED  BY <1>5, <2>1, <2>2, <1>4, RestWhileBusy
<1> QED  BY <1>5

(* The threads of the Worker at rest, with no Query on its way. *)
LEMMA RestMeans ==
  ASSUME Inv, RestInv, AtRest
  PROVE  /\ Waits /\ ~Arriving /\ (ti.pc = "dimi" <=> hubo_error)
         /\ InFlight(toWorker, "EXECUTE") = 0
         /\ \A s \in Semaphores : sem[s] = 0
<1>1. /\ Waits /\ tm = "idle" /\ toWorker = <<>>
      /\ \/ ti.pc = "dimi" /\ sem["dimi"] = 0
         \/ ti.pc = "await" /\ sem["query_recibida"] = 0
  BY DEF AtRest, Waits
<1>2. ~Arriving /\ sem["query_recibida"] = 0 /\ sem["dimi"] = 0
  BY <1>1 DEF RestInv, ErrorIsMet, Arriving, One
<1>3. ti.pc = "dimi" <=> hubo_error
  BY <1>1, <1>2 DEF RestInv, ErrorIsMet
<1>4. sem["respuesta_storage"] = 0 /\ sem["get_data"] = 0
  <2>1. Waiting = 0
    BY <1>1 DEF Waiting, Waits, One
  <2> QED  BY <2>1, AnswersCounted
<1>5. InFlight(toWorker, "EXECUTE") = 0
  BY <1>1, InFlightEmpty
<1> QED  BY <1>1, <1>2, <1>3, <1>4, <1>5 DEF Semaphores

LEMMA RestKeptByPeer ==
  /\ Inv /\ RestInv /\ ~setup.prompt
  /\ AskEviction \/ Learn \/ \E q \in Queries : Give(q)
  => RestInv'
<1> SUFFICES ASSUME Inv, RestInv, ~setup.prompt
             PROVE  AskEviction \/ Learn \/ (\E q \in Queries : Give(q)) => RestInv'
  OBVIOUS
<1>1. toWorker \in Seq(Messages) /\ query \in [Queries -> Known]
  BY Typed DEF Inv
<1>2. CASE AskEviction
  <2>1. /\ toWorker' = Append(toWorker, Message("EVICT", NoQuery, 0))
        /\ tm' = tm /\ sem' = sem /\ ti' = ti /\ toMaster' = toMaster
        /\ hubo_error' = hubo_error
    BY <1>2 DEF AskEviction
  <2>2. InFlight(toWorker', "EXECUTE") = InFlight(toWorker, "EXECUTE")
    BY <2>1, <1>1, SentWithoutPc
  <2> QED  BY <2>1, <2>2, RestStays
<1>3. CASE Learn
  BY <1>3, RestStays DEF Learn
<1>4. ASSUME NEW q \in Queries, Give(q) PROVE RestInv'
  <2>1. /\ toWorker' = Append(toWorker, Message("EXECUTE", q, query[q].pc))
        /\ tm' = tm /\ sem' = sem /\ ti' = ti /\ toMaster' = toMaster
        /\ hubo_error' = hubo_error
        /\ AtRest /\ toMaster = <<>>
    BY <1>4 DEF Give
  <2>2. query[q].pc \in Nat
    BY <1>1 DEF Known
  <2>3. InFlight(toWorker', "EXECUTE") = InFlight(toWorker, "EXECUTE") + 1
    BY <2>1, <2>2, <1>1, Sent
  <2>4. InFlight(toWorker', "EXECUTE") = 1 /\ Waits /\ ~Arriving
    BY <2>1, <2>3, RestMeans
  <2>5. Waits' = Waits /\ Arriving' = Arriving
    BY <2>1 DEF Waits, Arriving
  <2>6. OneOnItsWay'
    <3>1. InFlight(toWorker, "EXECUTE")' = 1
      BY <2>4
    <3>2. sem["query_recibida"] # 0 => sem["query_recibida"] = 1 /\ tm = "idle"
      BY DEF RestInv, OneOnItsWay
    <3> QED  BY <3>1, <3>2, <2>1, <2>4, <2>5 DEF OneOnItsWay
  <2>7. ErrorIsMet'
    BY <2>1, <2>5 DEF RestInv, ErrorIsMet, One
  <2> QED  BY <2>6, <2>7 DEF RestInv
<1> QED  BY <1>2, <1>3, <1>4

LEMMA RestKept == Inv /\ RestInv /\ ~setup.prompt /\ [Next]_vars => RestInv'
<1> SUFFICES ASSUME Inv, RestInv, ~setup.prompt, [Next]_vars PROVE RestInv'
  OBVIOUS
<1>1. CASE UNCHANGED vars
  BY <1>1, RestStays DEF vars
<1> QED  BY <1>1, RestKeptByInterpreter, RestKeptByMaster, RestKeptByStorage, RestKeptByPeer
         DEF Next

(* How the Master behaves does not change. *)
LEMMA SetupStays == [Next]_vars => setup' = setup
<1>1. InterpreterNext => setup' = setup
  BY DEF InterpreterNext, Top, AwaitAfterError, AwaitQuery, Load, Leave, Fetch, FetchPast, Ask,
     Answered, End, Advance, NotInterrupted, Interrupted, Evicted
<1>2. MasterThread \/ StorageThread => setup' = setup
  BY DEF MasterThread, TakeQuery, ClearError, PostQuery, TakeEviction, StorageThread,
     HearSuccess, HearError, SetError, PostError, Dropped
<1>3. AskEviction \/ Learn \/ (\E q \in Queries : Give(q)) => setup' = setup
  BY DEF AskEviction, Learn, Give
<1> QED  BY <1>1, <1>2, <1>3 DEF Next, vars

CalmRest == ~setup.prompt => RestInv

LEMMA CalmRestHolds == Spec => [](Inv /\ CalmRest)
<1>1. Init => CalmRest
  BY RestBegins DEF CalmRest
<1>2. Inv /\ CalmRest /\ [Next]_vars => CalmRest'
  BY RestKept, SetupStays DEF CalmRest
<1> QED  BY <1>1, <1>2, InitSafe, StepSafe, PTL DEF Spec

(* A Master that waits for the threads of the Worker finds them with no permit *)
(* left over, and on sem_dimi only if packet_callback will post it: for any    *)
(* number of Queries and any files, wherever an eviction or an error arrived.  *)
THEOREM RestClean == Spec => []RestIsClean
<1>1. Inv /\ CalmRest => RestIsClean
  <2> SUFFICES ASSUME Inv, CalmRest, ~setup.prompt, AtRest
               PROVE  (ti.pc = "dimi") = hubo_error /\ \A s \in DOMAIN sem : sem[s] = 0
    BY DEF RestIsClean
  <2>1. hubo_error \in BOOLEAN /\ DOMAIN sem = Semaphores
    BY DEF Inv, TypeOK
  <2>2. (ti.pc = "dimi" <=> hubo_error) /\ \A s \in Semaphores : sem[s] = 0
    BY RestMeans DEF CalmRest
  <2> QED  BY <2>1, <2>2
<1> QED  BY <1>1, CalmRestHolds, PTL


-----------------------------------------------------------------------------
(* The instructions of a Query, in order *)

LEMMA OrderBegins == Init => OrderInv
<1> SUFFICES ASSUME Init PROVE OrderInv
  OBVIOUS
<1>1. /\ actual.q = NoQuery /\ actual.file = NoQuery /\ ti.pc = "top" /\ ti.is_free
      /\ toWorker = <<>> /\ toMaster = <<>> /\ tm = "idle" /\ sem["query_recibida"] = 0
      /\ \A q \in Queries : query[q].pc = 0 /\ following[q] = 0
  BY DEF Init, Semaphores
<1>2. PositionKept
  BY <1>1, QueriesAssumption DEF PositionKept
<1>3. PositionGiven
  BY <1>1, HeldEmpty DEF PositionGiven
<1>4. QueryIsGiven
  BY <1>1 DEF QueryIsGiven, Arriving
<1> QED  BY <1>2, <1>3, <1>4, RestBegins DEF OrderInv

(* The eviction is in the hands of the interpreter. *)
Evicts == ti.pc = "flush" \/ (ti.pc = "wait" /\ ti.op = "EVICTION")

(* A step that neither executes an instruction nor moves a Query between the   *)
(* Master and the Worker; it may count the one executed, load the file of the  *)
(* Query that arrived or tell the Master where the Query was left.             *)
LEMMA OrderStays ==
  ASSUME OrderInv, following' = following, query' = query,
         actual'.q = actual.q, actual'.file \in {NoQuery, actual.q},
         actual'.pc + One(InMidst') = actual.pc + One(InMidst),
         ti'.pc = "load" => ti'.file = actual.q,
         Arriving' \/ ti'.pc = "load" => Arriving \/ ti.pc = "load",
         Evicts' => ti'.is_free,
         ~ti'.is_free => ~ti.is_free \/ (ti.pc = "load" /\ Held(toMaster') = {}),
         \A m \in Held(toWorker') : m \in Held(toWorker) \/ m.op # "EXECUTE",
         \A m \in Held(toMaster') :
           \/ m \in Held(toMaster)
           \/ /\ m.q = actual.q
              /\ m.op # "END" => ti'.is_free /\ (m.q \in Queries => m.pc = following[m.q])
  PROVE  PositionKept' /\ PositionGiven' /\ QueryIsGiven'
<1>1. PositionKept'
  BY DEF OrderInv, PositionKept
<1>2. PositionGiven'
  <2>1. ASSUME NEW m \in Held(toWorker'), m.op = "EXECUTE"
        PROVE  m.q \in Queries /\ m.pc = following[m.q] /\ query[m.q].sp = "EXEC"
    BY <2>1 DEF OrderInv, PositionGiven
  <2>2. ASSUME NEW m \in Held(toMaster')
        PROVE  /\ m.q = actual.q
               /\ m.op # "END" => ti'.is_free /\ (m.q \in Queries => m.pc = following[m.q])
    BY <2>2 DEF OrderInv, PositionGiven
  <2>3. \A q \in Queries : query[q].sp = "READY" => query[q].pc = following[q]
    BY DEF OrderInv, PositionGiven
  <2> QED  BY <2>1, <2>2, <2>3 DEF PositionGiven
<1>3. QueryIsGiven'
  <2>1. Arriving \/ ti.pc = "load" => actual.q \in Queries /\ query[actual.q].sp = "EXEC"
    BY DEF OrderInv, QueryIsGiven
  <2>2. ~ti.is_free => actual.q \in Queries /\ query[actual.q].sp # "READY"
    BY DEF OrderInv, QueryIsGiven
  <2>3. Arriving' \/ ti'.pc = "load"
        => actual'.q \in Queries /\ query'[actual'.q].sp = "EXEC"
    BY <2>1
  <2>4. ~ti'.is_free => actual'.q \in Queries /\ query'[actual'.q].sp # "READY"
    BY <2>1, <2>2
  <2> QED  BY <2>3, <2>4 DEF QueryIsGiven, Evicts
<1> QED  BY <1>1, <1>2, <1>3

LEMMA GotoKeeps ==
  ASSUME ti \in Interpreter, NEW l, Goto(l)
  PROVE  ti'.pc = l /\ ti'.op = ti.op /\ ti'.is_free = ti.is_free /\ ti'.file = ti.file
  BY DEF Interpreter, Goto

(* A step of the interpreter that does no more than go on. *)
LEMMA OrderStaysWhileThere ==
  ASSUME OrderInv, following' = following, query' = query, actual' = actual,
         actual \in ActualQuery, toWorker' = toWorker, toMaster' = toMaster,
         InMidst' <=> InMidst, ti'.pc # "load", Arriving' => Arriving,
         Evicts' => ti'.is_free, ~ti'.is_free => ~ti.is_free
  PROVE  PositionKept' /\ PositionGiven' /\ QueryIsGiven'
<1>1. actual'.q = actual.q /\ actual'.file \in {NoQuery, actual.q}
  BY DEF OrderInv, PositionKept
<1>2. One(InMidst') = One(InMidst)
  BY DEF One
<1>3. actual'.pc + One(InMidst') = actual.pc + One(InMidst)
  BY <1>2
<1> QED  BY <1>1, <1>3, OrderStays

LEMMA OrderKeptWithin ==
  /\ Inv /\ OrderInv
  /\ \/ Top \/ AwaitAfterError \/ Leave \/ FetchPast \/ Ask \/ Answered \/ NotInterrupted
     \/ Interrupted
  => PositionKept' /\ PositionGiven' /\ QueryIsGiven'
<1> SUFFICES ASSUME Inv, OrderInv
             PROVE  Top \/ AwaitAfterError \/ Leave \/ FetchPast \/ Ask \/ Answered
                    \/ NotInterrupted \/ Interrupted
                    => PositionKept' /\ PositionGiven' /\ QueryIsGiven'
  OBVIOUS
<1>1. /\ ti \in Interpreter /\ sem \in [Semaphores -> Nat] /\ actual \in ActualQuery
      /\ ti.pc = "work" => ti.op # "EVICTION"
      /\ ti.pc = "flush" => ti.op = "EVICTION"
      /\ Evicts => ti.is_free
      /\ ti.back \in {"while", "top"}
  BY Typed, InterpreterMoves DEF Inv, OpInHand, OrderInv, QueryIsGiven, Evicts
<1>2. {"dimi", "query_recibida", "respuesta_storage", "get_data"} = Semaphores
  BY DEF Semaphores
<1>3. CASE Top
  <2>1. ti.pc = "top" /\ ti'.pc \in {"dimi", "await"} /\ ti'.is_free = ti.is_free
    BY <1>3, <1>1, GotoKeeps DEF Top, At
  <2>2. ~InMidst /\ ~InMidst' /\ ~Evicts'
    BY <2>1 DEF InMidst, Evicts
  <2>3. /\ following' = following /\ query' = query /\ actual' = actual /\ tm' = tm
        /\ toWorker' = toWorker /\ toMaster' = toMaster /\ sem' = sem
    BY <1>3 DEF Top, master
  <2>4. Arriving' = Arriving
    BY <2>3 DEF Arriving
  <2> QED  BY <2>1, <2>2, <2>3, <2>4, <1>1, OrderStaysWhileThere
<1>4. CASE AwaitAfterError
  <2>1. ti.pc = "dimi" /\ ti'.pc = "await" /\ ti'.is_free = ti.is_free
    BY <1>4, <1>1, GotoKeeps DEF AwaitAfterError, At
  <2>2. ~InMidst /\ ~InMidst' /\ ~Evicts'
    BY <2>1 DEF InMidst, Evicts
  <2>3. /\ following' = following /\ query' = query /\ actual' = actual /\ tm' = tm
        /\ toWorker' = toWorker /\ toMaster' = toMaster /\ Wait("dimi")
    BY <1>4 DEF AwaitAfterError, master
  <2>4. sem'["query_recibida"] = sem["query_recibida"]
    BY <2>3, <1>1, <1>2, PermitsCounted
  <2>5. Arriving' = Arriving
    BY <2>3, <2>4 DEF Arriving
  <2> QED  BY <2>1, <2>2, <2>3, <2>5, <1>1, OrderStaysWhileThere
<1>5. CASE Leave
  <2>1. ti.pc = "while" /\ ti' = [ti EXCEPT !.pc = "irq", !.back = "top"]
    BY <1>5 DEF Leave, At
  <2>2. ti'.pc = "irq" /\ ti'.is_free = ti.is_free
    BY <2>1, <1>1 DEF Interpreter
  <2>3. ~InMidst /\ ~InMidst' /\ ~Evicts'
    BY <2>1, <2>2 DEF InMidst, Evicts
  <2>4. /\ following' = following /\ query' = query /\ actual' = actual /\ tm' = tm
        /\ toWorker' = toWorker /\ toMaster' = toMaster /\ sem' = sem
    BY <1>5 DEF Leave, master
  <2>5. Arriving' = Arriving
    BY <2>4 DEF Arriving
  <2> QED  BY <2>2, <2>3, <2>4, <2>5, <1>1, OrderStaysWhileThere
<1>6. CASE FetchPast
  <2>1. /\ following' = following /\ query' = query /\ actual' = actual /\ tm' = tm
        /\ toWorker' = toWorker /\ toMaster' = toMaster /\ sem' = sem /\ ti' = ti
        /\ ti.pc = "while"
    BY <1>6 DEF FetchPast, master, At
  <2>2. Arriving' = Arriving /\ InMidst' = InMidst /\ Evicts' = Evicts
    BY <2>1 DEF Arriving, InMidst, Evicts
  <2> QED  BY <2>1, <2>2, <1>1, OrderStaysWhileThere
<1>7. CASE Ask
  <2>1. /\ following' = following /\ query' = query /\ actual' = actual /\ tm' = tm
        /\ toWorker' = toWorker /\ toMaster' = toMaster /\ sem' = sem
        /\ ti.pc \in {"work", "flush"}
    BY <1>7 DEF Ask, master
  <2>2. PICK r : ti' = [ti EXCEPT !.pc = "wait", !.last = r, !.n = @ + 1]
    BY <1>7, Zenon DEF Ask
  <2>3. ti'.pc = "wait" /\ ti'.op = ti.op /\ ti'.is_free = ti.is_free
    BY <2>2, <1>1 DEF Interpreter
  <2>4. Arriving' = Arriving
    BY <2>1 DEF Arriving
  <2>5. (InMidst' <=> InMidst) /\ (Evicts' <=> Evicts)
    BY <2>1, <2>3, <1>1 DEF InMidst, Evicts
  <2> QED  BY <2>1, <2>3, <2>4, <2>5, <1>1, OrderStaysWhileThere
<1>8. CASE Answered
  <2>1. /\ following' = following /\ query' = query /\ actual' = actual /\ tm' = tm
        /\ toWorker' = toWorker /\ toMaster' = toMaster /\ Wait(AnswerSem)
        /\ ti.pc = "wait"
    BY <1>8 DEF Answered, master, At
  <2>2. /\ ti'.pc = IF ti.op = "EVICTION" THEN "flush" ELSE "work"
        /\ ti'.op = ti.op /\ ti'.is_free = ti.is_free
    BY <1>8, <1>1, GotoKeeps DEF Answered
  <2>3. AnswerSem \in {"respuesta_storage", "get_data"}
    BY DEF AnswerSem
  <2>4. sem'["query_recibida"] = sem["query_recibida"]
    BY <2>1, <2>3, <1>1, <1>2, PermitsCounted
  <2>5. Arriving' = Arriving
    BY <2>1, <2>4 DEF Arriving
  <2>6. (InMidst' <=> InMidst) /\ (Evicts' <=> Evicts)
    BY <2>1, <2>2 DEF InMidst, Evicts
  <2> QED  BY <2>1, <2>2, <2>5, <2>6, <1>1, OrderStaysWhileThere
<1>9. CASE NotInterrupted
  <2>1. ti.pc = "irq" /\ ti'.pc \in {"while", "top"} /\ ti'.is_free = ti.is_free
    BY <1>9, <1>1, GotoKeeps DEF NotInterrupted, At
  <2>2. ~InMidst /\ ~InMidst' /\ ~Evicts'
    BY <2>1 DEF InMidst, Evicts
  <2>3. /\ following' = following /\ query' = query /\ actual' = actual /\ tm' = tm
        /\ toWorker' = toWorker /\ toMaster' = toMaster /\ sem' = sem
    BY <1>9 DEF NotInterrupted, master
  <2>4. Arriving' = Arriving
    BY <2>3 DEF Arriving
  <2> QED  BY <2>1, <2>2, <2>3, <2>4, <1>1, OrderStaysWhileThere
<1>10. CASE Interrupted
  <2>1. /\ ti.pc = "irq"
        /\ ti' = [ti EXCEPT !.pc = "flush", !.op = "EVICTION", !.last = "none", !.n = 0,
                            !.is_free = TRUE]
    BY <1>10 DEF Interrupted, At
  <2>2. ti'.pc = "flush" /\ ti'.is_free
    BY <2>1, <1>1 DEF Interpreter
  <2>3. ~InMidst /\ ~InMidst'
    BY <2>1, <2>2 DEF InMidst
  <2>4. /\ following' = following /\ query' = query /\ actual' = actual /\ tm' = tm
        /\ toWorker' = toWorker /\ toMaster' = toMaster /\ sem' = sem
    BY <1>10 DEF Interrupted, master
  <2>5. Arriving' = Arriving
    BY <2>4 DEF Arriving
  <2> QED  BY <2>2, <2>3, <2>4, <2>5, <1>1, OrderStaysWhileThere
<1> QED  BY <1>3, <1>4, <1>5, <1>6, <1>7, <1>8, <1>9, <1>10


LEMMA OrderKeptByInterpreter ==
  Inv /\ OrderInv /\ InterpreterNext => PositionKept' /\ PositionGiven' /\ QueryIsGiven'
<1> SUFFICES ASSUME Inv, OrderInv
             PROVE  InterpreterNext => PositionKept' /\ PositionGiven' /\ QueryIsGiven'
  OBVIOUS
<1>1. /\ ti \in Interpreter /\ sem \in [Semaphores -> Nat] /\ actual \in ActualQuery
      /\ actual.q \in Queries \cup {NoQuery} /\ actual.pc \in Nat
      /\ actual.file \in Queries \cup {NoQuery}
      /\ ti.pc = "work" => ti.op # "EVICTION"
      /\ ti.pc = "flush" => ti.op = "EVICTION"
      /\ Evicts => ti.is_free
      /\ ti.back \in {"while", "top"}
      /\ toWorker \in Seq(Messages) /\ toMaster \in Seq(Messages)
      /\ following \in [Queries -> Nat] /\ query \in [Queries -> Known]
  BY Typed, InterpreterMoves
     DEF Inv, TypeOK, OpInHand, OrderInv, QueryIsGiven, Evicts, ActualQuery
<1>2. actual.file \in {NoQuery, actual.q}
  BY DEF OrderInv, PositionKept
<1>3. CASE AwaitQuery
  <2>1. /\ ti.pc = "await" /\ ti' = [ti EXCEPT !.pc = "load", !.file = actual.q]
        /\ Wait("query_recibida")
        /\ following' = following /\ query' = query /\ actual' = actual /\ tm' = tm
        /\ toWorker' = toWorker /\ toMaster' = toMaster
    BY <1>3, Zenon DEF AwaitQuery, At, master
  <2>2. ti'.pc = "load" /\ ti'.file = actual.q /\ ti'.is_free = ti.is_free
    BY <2>1, <1>1 DEF Interpreter
  <2>3. Arriving
    <3>1. sem["query_recibida"] # 0
      BY <2>1, <1>1, PermitsCounted DEF Semaphores
    <3> QED  BY <3>1 DEF Arriving
  <2>4. ~InMidst /\ ~InMidst' /\ ~Evicts'
    BY <2>1, <2>2 DEF InMidst, Evicts
  <2> QED  BY <2>1, <2>2, <2>3, <2>4, <1>2, OrderStays DEF One
<1>4. CASE Load
  <2>1. /\ ti.pc = "load" /\ actual' = [actual EXCEPT !.file = ti.file]
        /\ ti' = [ti EXCEPT !.pc = "while", !.is_free = FALSE, !.file = NoQuery]
        /\ following' = following /\ query' = query /\ tm' = tm /\ sem' = sem
        /\ toWorker' = toWorker /\ toMaster' = toMaster
    BY <1>4, Zenon DEF Load, At, master
  <2>2. ti'.pc = "while"
    BY <2>1, <1>1 DEF Interpreter
  <2>3. actual'.q = actual.q /\ actual'.pc = actual.pc /\ actual'.file = ti.file
    BY <2>1, <1>1 DEF ActualQuery
  <2>4. ti.file = actual.q /\ toMaster = <<>>
    BY <2>1 DEF OrderInv, PositionKept, RestInv, OneOnItsWay
  <2>5. Held(toMaster') = {}
    BY <2>1, <2>4, HeldEmpty
  <2>6. ~InMidst /\ ~InMidst' /\ ~Evicts' /\ Arriving' = Arriving
    BY <2>1, <2>2 DEF InMidst, Evicts, Arriving
  <2> QED  BY <2>1, <2>2, <2>3, <2>4, <2>5, <2>6, OrderStays DEF One
<1>5. CASE Advance
  <2>1. /\ ti.pc \in {"work", "advance"} /\ actual' = [actual EXCEPT !.pc = @ + 1]
        /\ ti' = [ti EXCEPT !.pc = "irq", !.back = "while"]
        /\ following' = following /\ query' = query /\ tm' = tm /\ sem' = sem
        /\ toWorker' = toWorker /\ toMaster' = toMaster
    BY <1>5 DEF Advance, At, master
  <2>2. ti'.pc = "irq" /\ ti'.is_free = ti.is_free
    BY <2>1, <1>1 DEF Interpreter
  <2>3. actual'.q = actual.q /\ actual'.pc = actual.pc + 1 /\ actual'.file = actual.file
    BY <2>1, <1>1 DEF ActualQuery
  <2>4. InMidst /\ ~InMidst' /\ ~Evicts' /\ Arriving' = Arriving
    BY <2>1, <2>2 DEF InMidst, Evicts, Arriving
  <2>5. actual'.pc + One(InMidst') = actual.pc + One(InMidst)
    BY <2>3, <2>4, <1>1 DEF One
  <2> QED  BY <2>1, <2>2, <2>3, <2>4, <2>5, <1>2, OrderStays
<1>6. CASE End
  <2>1. /\ ti.pc = "work"
        /\ toMaster' = Append(toMaster, Message("END", actual.q, 0))
        /\ ti' = [ti EXCEPT !.pc = "advance", !.is_free = TRUE]
        /\ following' = following /\ query' = query /\ actual' = actual /\ tm' = tm
        /\ sem' = sem /\ toWorker' = toWorker
    BY <1>6, Zenon DEF End, At, master
  <2>2. ti'.pc = "advance" /\ ti'.is_free
    BY <2>1, <1>1 DEF Interpreter
  <2>3. InMidst /\ InMidst' /\ Arriving' = Arriving
    BY <2>1, <2>2 DEF InMidst, Arriving
  <2>4. /\ Message("END", actual.q, 0) \in Messages
        /\ Message("END", actual.q, 0).q = actual.q /\ Message("END", actual.q, 0).op = "END"
    BY <1>1 DEF Message, Messages
  <2>5. Held(toMaster') = Held(toMaster) \cup {Message("END", actual.q, 0)}
    BY <2>1, <2>4, <1>1, HeldMoves
  <2>6. actual'.pc + One(InMidst') = actual.pc + One(InMidst)
    BY <2>1, <2>3 DEF One
  <2> QED  BY <2>1, <2>2, <2>3, <2>4, <2>5, <2>6, <1>2, OrderStays
<1>7. CASE Evicted
  <2> DEFINE m == Message("EVICTED", actual.q, actual.pc)
  <2>1. /\ ti.pc = "flush" /\ toMaster' = Append(toMaster, m)
        /\ following' = following /\ query' = query /\ actual' = actual /\ tm' = tm
        /\ sem' = sem /\ toWorker' = toWorker
    BY <1>7, Zenon DEF Evicted, At, master
  <2>2. ti'.pc \in {"while", "top"} /\ ti'.is_free = ti.is_free /\ ti.is_free
    BY <2>1, <1>7, <1>1, GotoKeeps DEF Evicted, Evicts
  <2>3. ~InMidst /\ ~InMidst' /\ ~Evicts' /\ Arriving' = Arriving
    BY <2>1, <2>2 DEF InMidst, Evicts, Arriving
  <2>4. m \in Messages /\ m.q = actual.q /\ m.op = "EVICTED" /\ m.pc = actual.pc
    BY <1>1 DEF Message, Messages
  <2>5. m.q \in Queries => m.pc = following[m.q]
    BY <2>3, <2>4, <1>1 DEF OrderInv, PositionKept, One
  <2> HIDE DEF m
  <2>6. Held(toMaster') = Held(toMaster) \cup {m}
    BY <2>1, <2>4, <1>1, HeldMoves
  <2>7. actual'.pc + One(InMidst') = actual.pc + One(InMidst)
    BY <2>1, <2>3 DEF One
  <2> QED  BY <2>1, <2>2, <2>3, <2>4, <2>5, <2>6, <2>7, <1>2, OrderStays
<1>8. CASE Fetch
  <2>1. /\ ti.pc = "while" /\ ~ti.is_free /\ actual.file # NoQuery
        /\ following' = [following EXCEPT ![actual.q] = actual.pc + 1]
        /\ query' = query /\ actual' = actual /\ tm' = tm
        /\ sem' = sem /\ toWorker' = toWorker /\ toMaster' = toMaster
    BY <1>8, Zenon DEF Fetch, At, Runs, master
  <2>2. PICK op : ti' = [ti EXCEPT !.pc = "work", !.op = op, !.last = "none", !.n = 0]
    BY <1>8, Zenon DEF Fetch
  <2>3. ti'.pc = "work" /\ ti'.is_free = ti.is_free
    BY <2>2, <1>1 DEF Interpreter
  <2>4. actual.q \in Queries /\ query[actual.q].sp # "READY"
    BY <2>1 DEF OrderInv, QueryIsGiven
  <2>5. /\ following'[actual.q] = actual.pc + 1
        /\ \A q \in Queries : q # actual.q => following'[q] = following[q]
    BY <2>1, <2>4, <1>1
  <2>6. ~Arriving /\ InFlight(toWorker, "EXECUTE") = 0
    BY <2>1 DEF OrderInv, RestInv, OneOnItsWay, Waits
  <2>7. \A m \in Held(toWorker) : m.op # "EXECUTE"
    BY <2>6, <1>1, HeldCounted
  <2>8. \A m \in Held(toMaster) : m.q = actual.q /\ m.op = "END"
    BY <2>1 DEF OrderInv, PositionGiven
  <2>9. Arriving' = Arriving /\ InMidst'
    BY <2>1, <2>3 DEF Arriving, InMidst
  <2>10. PositionKept'
    <3>1. One(InMidst') = 1
      BY <2>9 DEF One
    <3>2. following'[actual.q] = actual.pc + One(InMidst')
      BY <2>5, <3>1
    <3> QED  BY <3>2, <2>1, <2>3, <1>2 DEF PositionKept
  <2>11. PositionGiven'
    <3>1. \A q \in Queries : query[q].sp = "READY" => query[q].pc = following[q]
      BY DEF OrderInv, PositionGiven
    <3>2. \A q \in Queries : query[q].sp = "READY" => query[q].pc = following'[q]
      BY <3>1, <2>4, <2>5
    <3> QED  BY <3>2, <2>1, <2>7, <2>8 DEF PositionGiven
  <2>12. QueryIsGiven'
    BY <2>1, <2>3, <2>4, <2>6, <2>9 DEF QueryIsGiven
  <2> QED  BY <2>10, <2>11, <2>12
<1> QED  BY <1>3, <1>4, <1>5, <1>6, <1>7, <1>8, OrderKeptWithin, Zenon DEF InterpreterNext


LEMMA OrderStaysForOthers ==
  ASSUME OrderInv, following' = following, query' = query, actual' = actual, ti' = ti,
         Arriving' => Arriving, Held(toMaster') \subseteq Held(toMaster),
         \A m \in Held(toWorker') : m \in Held(toWorker) \/ m.op # "EXECUTE"
  PROVE  PositionKept' /\ PositionGiven' /\ QueryIsGiven'
<1>1. InMidst' = InMidst /\ Evicts' = Evicts /\ (Evicts => ti.is_free)
  BY DEF InMidst, Evicts, OrderInv, QueryIsGiven
<1>2. actual'.file \in {NoQuery, actual.q} /\ (ti.pc = "load" => ti.file = actual.q)
  BY DEF OrderInv, PositionKept
<1>3. actual'.pc + One(InMidst') = actual.pc + One(InMidst)
  BY <1>1 DEF One
<1> QED  BY <1>1, <1>2, <1>3, OrderStays

LEMMA OrderKeptByMaster ==
  Inv /\ OrderInv /\ MasterThread => PositionKept' /\ PositionGiven' /\ QueryIsGiven'
<1> SUFFICES ASSUME Inv, OrderInv
             PROVE  MasterThread => PositionKept' /\ PositionGiven' /\ QueryIsGiven'
  OBVIOUS
<1>1. toWorker \in Seq(Messages) /\ following \in [Queries -> Nat]
      /\ actual.q \in Queries \cup {NoQuery}
  BY Typed DEF Inv, TypeOK, ActualQuery
<1>2. CASE ClearError \/ PostQuery
  <2>1. /\ following' = following /\ query' = query /\ actual' = actual /\ ti' = ti
        /\ toMaster' = toMaster /\ toWorker' = toWorker /\ Arriving
    BY <1>2 DEF ClearError, PostQuery, master, Arriving
  <2> QED  BY <2>1, OrderStaysForOthers
<1>3. CASE TakeEviction
  <2>1. /\ following' = following /\ query' = query /\ actual' = actual /\ ti' = ti
        /\ toMaster' = toMaster /\ tm' = tm /\ sem' = sem
        /\ toWorker # <<>> /\ toWorker' = Tail(toWorker)
    BY <1>3 DEF TakeEviction, Hears, master
  <2>2. Arriving' = Arriving
    BY <2>1 DEF Arriving
  <2>3. Held(toWorker') \subseteq Held(toWorker)
    BY <2>1, <1>1, HeldMoves
  <2> QED  BY <2>1, <2>2, <2>3, OrderStaysForOthers
<1>4. CASE TakeQuery
  <2>1. PICK m : m = Head(toWorker)
    OBVIOUS
  <2>2. /\ toWorker # <<>> /\ m.op = "EXECUTE" /\ toWorker' = Tail(toWorker)
        /\ actual' = [q |-> m.q, pc |-> m.pc, file |-> NoQuery]
        /\ following' = following /\ query' = query /\ ti' = ti /\ toMaster' = toMaster
    BY <1>4, <2>1 DEF TakeQuery, Hears, master
  <2>3. m \in Held(toWorker) /\ Held(toWorker') \subseteq Held(toWorker) /\ m \in Messages
    BY <2>1, <2>2, <1>1, HeldMoves
  <2>4. m.q \in Queries /\ m.pc = following[m.q] /\ query[m.q].sp = "EXEC" /\ m.pc \in Nat
    BY <2>2, <2>3 DEF OrderInv, PositionGiven, Messages
  <2>5. Waits /\ toMaster = <<>>
    <3>1. InFlight(toWorker, "EXECUTE") # 0
      BY <2>2, <2>3, <1>1, HeldCounted
    <3> QED  BY <3>1 DEF OrderInv, RestInv, OneOnItsWay
  <2>6. Held(toMaster') = {}
    BY <2>2, <2>5, HeldEmpty
  <2>7. actual'.q = m.q /\ actual'.pc = m.pc /\ actual'.file = NoQuery
    BY <2>2
  <2>8. ~InMidst' /\ ti'.pc # "load" /\ ~Evicts'
    BY <2>2, <2>5 DEF InMidst, Waits, Evicts
  <2>9. PositionKept'
    <3>1. One(InMidst') = 0
      BY <2>8 DEF One
    <3>2. following'[actual'.q] = actual'.pc + One(InMidst')
      BY <2>2, <2>4, <2>7, <3>1
    <3> QED  BY <3>2, <2>7, <2>8 DEF PositionKept
  <2>10. PositionGiven'
    BY <2>2, <2>3, <2>6 DEF OrderInv, PositionGiven
  <2>11. QueryIsGiven'
    BY <2>2, <2>4, <2>7, <2>8 DEF QueryIsGiven, Evicts
  <2> QED  BY <2>9, <2>10, <2>11
<1> QED  BY <1>2, <1>3, <1>4 DEF MasterThread

LEMMA OrderKeptByStorage ==
  Inv /\ OrderInv /\ StorageThread => PositionKept' /\ PositionGiven' /\ QueryIsGiven'
<1> SUFFICES ASSUME Inv, OrderInv
             PROVE  StorageThread => PositionKept' /\ PositionGiven' /\ QueryIsGiven'
  OBVIOUS
<1>1. /\ toMaster \in Seq(Messages) /\ sem \in [Semaphores -> Nat]
      /\ ts \in [pc : {"idle", "set", "post"}, sem : {"respuesta_storage", "get_data"}]
      /\ actual.q \in Queries \cup {NoQuery}
  BY Typed DEF Inv, ActualQuery
<1>2. {"dimi", "query_recibida", "respuesta_storage", "get_data"} = Semaphores
  BY DEF Semaphores
<1>3. CASE HearSuccess \/ SetError \/ PostError \/ Dropped
  <2>1. /\ following' = following /\ query' = query /\ actual' = actual /\ ti' = ti
        /\ toMaster' = toMaster /\ toWorker' = toWorker /\ tm' = tm
        /\ sem' = sem \/ \E s \in {"respuesta_storage", "get_data"} : Post(s)
    BY <1>3, <1>1 DEF HearSuccess, SetError, PostError, Dropped, master
  <2>2. sem'["query_recibida"] = sem["query_recibida"]
    BY <2>1, <1>1, <1>2, PermitsCounted
  <2>3. Arriving' = Arriving
    BY <2>1, <2>2 DEF Arriving
  <2> QED  BY <2>1, <2>3, OrderStaysForOthers
<1>4. CASE HearError
  <2> DEFINE m == Message("END", actual.q, 0)
  <2>1. /\ following' = following /\ query' = query /\ actual' = actual /\ ti' = ti
        /\ toMaster' = Append(toMaster, m) /\ toWorker' = toWorker /\ tm' = tm /\ sem' = sem
    BY <1>4, Zenon DEF HearError, master
  <2>2. m \in Messages /\ m.q = actual.q /\ m.op = "END"
    BY <1>1 DEF Message, Messages
  <2> HIDE DEF m
  <2>3. Held(toMaster') = Held(toMaster) \cup {m}
    BY <2>1, <2>2, <1>1, HeldMoves
  <2>4. InMidst' = InMidst /\ Evicts' = Evicts /\ Arriving' = Arriving /\ (Evicts => ti.is_free)
    BY <2>1 DEF InMidst, Evicts, Arriving, OrderInv, QueryIsGiven
  <2>5. actual'.file \in {NoQuery, actual.q} /\ (ti.pc = "load" => ti.file = actual.q)
    BY <2>1 DEF OrderInv, PositionKept
  <2>6. actual'.pc + One(InMidst') = actual.pc + One(InMidst)
    BY <2>1, <2>4 DEF One
  <2> QED  BY <2>1, <2>2, <2>3, <2>4, <2>5, <2>6, OrderStays
<1> QED  BY <1>3, <1>4 DEF StorageThread

(* The three parts, with what the Master knows of the Queries changed.         *)
LEMMA OrderKeptByPeer ==
  /\ Inv /\ OrderInv /\ ~setup.prompt
  /\ AskEviction \/ Learn \/ \E q \in Queries : Give(q)
  => PositionKept' /\ PositionGiven' /\ QueryIsGiven'
<1> SUFFICES ASSUME Inv, OrderInv, ~setup.prompt
             PROVE  AskEviction \/ Learn \/ (\E q \in Queries : Give(q))
                    => PositionKept' /\ PositionGiven' /\ QueryIsGiven'
  OBVIOUS
<1>1. /\ toWorker \in Seq(Messages) /\ toMaster \in Seq(Messages)
      /\ query \in [Queries -> Known]
      /\ actual.q \in Queries \cup {NoQuery}
  BY Typed DEF Inv, ActualQuery
<1>2. ASSUME following' = following, actual' = actual, ti' = ti, tm' = tm, sem' = sem
      PROVE  PositionKept' /\ Arriving' = Arriving
  BY <1>2 DEF OrderInv, PositionKept, InMidst, One, Arriving
<1>3. CASE AskEviction
  <2> DEFINE m == Message("EVICT", NoQuery, 0)
  <2>1. /\ following' = following /\ query' = query /\ actual' = actual /\ ti' = ti
        /\ toMaster' = toMaster /\ toWorker' = Append(toWorker, m) /\ tm' = tm /\ sem' = sem
    BY <1>3, Zenon DEF AskEviction
  <2>2. m \in Messages /\ m.op = "EVICT"
    BY DEF Message, Messages
  <2> HIDE DEF m
  <2>3. Held(toWorker') = Held(toWorker) \cup {m}
    BY <2>1, <2>2, <1>1, HeldMoves
  <2> QED  BY <2>1, <2>2, <2>3, <1>2, OrderStaysForOthers
<1>4. CASE Learn
  <2>1. PICK m : m = Head(toMaster)
    OBVIOUS
  <2>2. /\ toMaster # <<>> /\ toMaster' = Tail(toMaster) /\ toWorker' = toWorker
        /\ following' = following /\ actual' = actual /\ ti' = ti /\ tm' = tm /\ sem' = sem
        /\ query' = IF m.q = NoQuery THEN query
                    ELSE IF m.op = "END" THEN [query EXCEPT ![m.q].sp = "EXIT"]
                    ELSE [query EXCEPT ![m.q].sp = IF @ = "EXIT" THEN "EXIT" ELSE "READY",
                                       ![m.q].pc = m.pc]
    BY <1>4, <2>1, Zenon DEF Learn
  <2>3. m \in Held(toMaster) /\ Held(toMaster') \subseteq Held(toMaster) /\ m \in Messages
    BY <2>1, <2>2, <1>1, HeldMoves
  <2>4. /\ m.q = actual.q
        /\ m.op # "END" => ti.is_free /\ (m.q \in Queries => m.pc = following[m.q])
        /\ m.q \in Queries \cup {NoQuery}
    BY <2>3 DEF OrderInv, PositionGiven, Messages
  <2>5. InFlight(toWorker, "EXECUTE") = 0 /\ ~Arriving /\ ti.pc # "load"
    BY <2>2 DEF OrderInv, RestInv, OneOnItsWay
  <2>6. \A x \in Held(toWorker') : x.op # "EXECUTE"
    BY <2>2, <2>5, <1>1, HeldCounted
  <2>7. CASE m.q = NoQuery
    <3>1. query' = query
      BY <2>2, <2>7
    <3> QED  BY <2>2, <2>3, <3>1, <1>2, OrderStaysForOthers
  <2>8. CASE m.q # NoQuery
    <3>1. m.q \in Queries
      BY <2>4, <2>8
    <3>2. \A q \in Queries : query[q] = [sp |-> query[q].sp, pc |-> query[q].pc,
                                         given |-> query[q].given]
      BY <1>1 DEF Known
    <3>3. /\ \A q \in Queries : q # m.q => query'[q] = query[q]
          /\ m.op = "END" => query'[m.q].sp = "EXIT"
          /\ m.op # "END" => query'[m.q].pc = m.pc
      <4>1. CASE m.op = "END"
        <5>1. query' = [query EXCEPT ![m.q].sp = "EXIT"]
          BY <2>2, <2>8, <4>1
        <5> QED  BY <5>1, <4>1, <3>1, <1>1 DEF Known
      <4>2. CASE m.op # "END"
        <5>1. query' = [query EXCEPT ![m.q].sp = IF @ = "EXIT" THEN "EXIT" ELSE "READY",
                                     ![m.q].pc = m.pc]
          BY <2>2, <2>8, <4>2
        <5> QED  BY <5>1, <4>2, <3>1, <1>1 DEF Known
      <4> QED  BY <4>1, <4>2
    <3>4. \A q \in Queries : query'[q].sp = "READY" => query'[q].pc = following'[q]
      <4>1. \A q \in Queries : query[q].sp = "READY" => query[q].pc = following[q]
        BY DEF OrderInv, PositionGiven
      <4>2. query'[m.q].sp = "READY" => query'[m.q].pc = following[m.q]
        BY <3>1, <3>3, <2>4
      <4>3. following' = following
        BY <2>2
      <4> QED  BY <4>1, <4>2, <4>3, <3>3
    <3>5. PositionGiven'
      BY <3>4, <2>2, <2>3, <2>6 DEF OrderInv, PositionGiven
    <3>6. ~ti.is_free => query'[actual.q].sp # "READY"
      <4>1. ~ti.is_free => m.op = "END"
        BY <2>4
      <4> QED  BY <4>1, <3>3, <2>4
    <3>7. QueryIsGiven'
      <4>1. ~ti.is_free => actual.q \in Queries
        BY DEF OrderInv, QueryIsGiven
      <4>2. Evicts => ti.is_free
        BY DEF OrderInv, QueryIsGiven, Evicts
      <4>3. Arriving' = Arriving
        BY <1>2, <2>2
      <4> QED  BY <4>1, <4>2, <4>3, <3>6, <2>2, <2>5 DEF QueryIsGiven, Evicts
    <3> QED  BY <3>5, <3>7, <1>2, <2>2
  <2> QED  BY <2>7, <2>8
<1>5. ASSUME NEW p \in Queries, Give(p)
      PROVE  PositionKept' /\ PositionGiven' /\ QueryIsGiven'
  <2> DEFINE m == Message("EXECUTE", p, query[p].pc)
  <2>1. /\ following' = following /\ actual' = actual /\ ti' = ti /\ tm' = tm /\ sem' = sem
        /\ toMaster' = toMaster /\ toWorker' = Append(toWorker, m)
        /\ AtRest /\ toMaster = <<>> /\ query[p].sp = "READY"
        /\ query' = [query EXCEPT ![p].sp = "EXEC", ![p].given = @ + 1]
    BY <1>5, Zenon DEF Give
  <2>2. query[p].pc \in Nat
    BY <1>1 DEF Known
  <2>3. m \in Messages /\ m.q = p /\ m.op = "EXECUTE" /\ m.pc = query[p].pc
    BY <2>2 DEF Message, Messages
  <2> HIDE DEF m
  <2>4. Held(toWorker') = Held(toWorker) \cup {m} /\ Held(toMaster') = {}
    BY <2>1, <2>3, <1>1, HeldMoves, HeldEmpty
  <2>5. query'[p].sp = "EXEC" /\ \A q \in Queries : q # p => query'[q] = query[q]
    BY <2>1, <1>1 DEF Known
  <2>6. query[p].pc = following[p]
    BY <2>1 DEF OrderInv, PositionGiven
  <2>7. ~Arriving /\ ti.pc # "load" /\ Waits
    BY <2>1, RestMeans DEF OrderInv, Waits
  <2>8. PositionGiven'
    <3>1. ASSUME NEW x \in Held(toWorker'), x.op = "EXECUTE"
          PROVE  x.q \in Queries /\ x.pc = following[x.q] /\ query'[x.q].sp = "EXEC"
      <4>1. CASE x = m
        BY <4>1, <2>3, <2>5, <2>6
      <4>2. CASE x \in Held(toWorker)
        <5>1. x.q \in Queries /\ x.pc = following[x.q] /\ query[x.q].sp = "EXEC"
          BY <4>2, <3>1 DEF OrderInv, PositionGiven
        <5> QED  BY <5>1, <2>5
      <4> QED  BY <4>1, <4>2, <2>4
    <3>2. \A q \in Queries : query'[q].sp = "READY" => query'[q].pc = following[q]
      <4>1. \A q \in Queries : query[q].sp = "READY" => query[q].pc = following[q]
        BY DEF OrderInv, PositionGiven
      <4> QED  BY <4>1, <2>5
    <3> QED  BY <3>1, <3>2, <2>1, <2>4 DEF PositionGiven
  <2>9. QueryIsGiven'
    <3>1. ~ti.is_free => actual.q \in Queries /\ query[actual.q].sp # "READY"
      BY DEF OrderInv, QueryIsGiven
    <3>2. ~ti.is_free => query'[actual.q].sp # "READY"
      BY <3>1, <2>5
    <3>3. Arriving' = Arriving
      BY <1>2, <2>1
    <3> QED  BY <3>1, <3>2, <3>3, <2>1, <2>7 DEF QueryIsGiven, Waits
  <2> QED  BY <2>8, <2>9, <1>2, <2>1
<1> QED  BY <1>3, <1>4, <1>5

LEMMA OrderKept == Inv /\ OrderInv /\ ~setup.prompt /\ [Next]_vars => OrderInv'
<1> SUFFICES ASSUME Inv, OrderInv, ~setup.prompt, [Next]_vars PROVE OrderInv'
  OBVIOUS
<1>1. RestInv'
  BY RestKept DEF OrderInv
<1>2. CASE UNCHANGED vars
  BY <1>2, <1>1, OrderStaysForOthers DEF vars, OrderInv, master, Arriving
<1> QED  BY <1>1, <1>2, OrderKeptByInterpreter, OrderKeptByMaster, OrderKeptByStorage,
            OrderKeptByPeer DEF Next, OrderInv

LEMMA PoliteHolds == Spec => [](Inv /\ PoliteInv)
<1>1. Init => PoliteInv
  BY OrderBegins DEF PoliteInv
<1>2. Inv /\ PoliteInv /\ [Next]_vars => PoliteInv'
  BY OrderKept, SetupStays DEF PoliteInv
<1> QED  BY <1>1, <1>2, InitSafe, StepSafe, PTL DEF Spec

(* The instructions of every Query are executed one after the other, none      *)
(* skipped and none twice, across any number of evictions, errors and other    *)
(* Queries in between, if the Master waits for the threads of the Worker: for  *)
(* any number of Queries and any files.                                        *)
THEOREM InOrder == Spec => []InstructionsInOrder
<1>1. Inv /\ PoliteInv => InstructionsInOrder
  <2> SUFFICES ASSUME Inv, PoliteInv, ~setup.prompt, At("while"), Runs
               PROVE  actual.pc = following[actual.q]
    BY DEF InstructionsInOrder
  <2>1. actual.file # NoQuery /\ ti.pc = "while" /\ ~ti.is_free
    BY DEF Runs, At
  <2>2. actual.q \in Queries /\ actual.pc \in Nat
    BY <2>1, Typed DEF Inv, PoliteInv, OrderInv, QueryIsGiven, ActualQuery
  <2>3. following[actual.q] = actual.pc + One(InMidst) /\ ~InMidst
    BY <2>1, <2>2 DEF PoliteInv, OrderInv, PositionKept, InMidst
  <2> QED  BY <2>2, <2>3 DEF One
<1> QED  BY <1>1, PoliteHolds, PTL

=============================================================================
