-------------------------- MODULE MasterFifoProofs --------------------------
(* What holds of the Master under FIFO, where the scheduler evicts nothing:   *)
(* a Query is given away once, and its program counter never goes back.       *)
EXTENDS MasterProofs

Fifo == setup.mode = "FIFO"

(* An EXECUTE of q is on its way to w, or was the last that w was given. *)
OnItsWay(q, w) == \E i \in DOMAIN toWorker[w] : toWorker[w][i].q = q
Sent(q, w) == peer[w].q = q \/ OnItsWay(q, w)

(* The scheduler does not evict, and only for a Query Control that hangs up   *)
(* does another thread.                                                       *)
NoEviction ==
  /\ sched.pc \notin {"send", "again", "age"}
  /\ sched.pc \in {"pop", "assign"} => worker[sched.w].is_free
  /\ \A c \in Callers : evict[c].pc # "idle" => evict[c].to = "EXIT" /\ c # Scheduler
  /\ \A c \in Callers :
       evict[c].pc = "move" => query[evict[c].q].sp \in {"EXEC", "EXIT"}
  /\ \A c \in Callers : evict[c].arg \in {"NONE", "EXEC", "EXIT"}

(* The Query that is to be given is in READY no more. *)
Assigned(q) == sched.pc = "assign" /\ sched.q = q
TakenOnce == \A q \in Queries : Assigned(q) => ~In(q, ready) /\ query[q].sp # "NONE"

(* One that was given went to one Worker, and is not given again. *)
GivenOnce ==
  \A q \in Queries : \A w \in Workers : Sent(q, w) =>
    /\ \A x \in Workers : Sent(q, x) => w = x
    /\ query[q].sp # "NONE" /\ ~In(q, ready) /\ ~Assigned(q)

FifoInv == Fifo => NoEviction /\ TakenOnce /\ GivenOnce

-----------------------------------------------------------------------------
LEMMA NoQueryIsNone == NoQuery \notin Queries
  BY QueriesAssumption DEF NoQuery, Queries

(* The state of a Query goes on, and none comes back to READY. *)
Ahead ==
  \A q \in Queries :
    /\ query[q].sp # "NONE" => query'[q].sp # "NONE"
    /\ query[q].sp \in {"EXEC", "EXIT"} => query'[q].sp \in {"EXEC", "EXIT"}
    /\ In(q, ready') => In(q, ready) \/ query[q].sp = "NONE"

LEMMA AheadByMoved ==
  ASSUME Inv, NEW q \in Queries, NEW to \in {"EXEC", "EXIT"}, Moved(q, to)
  PROVE  Ahead
<1>1. /\ query'[q].sp = to
      /\ \A p \in Queries : p # q => query'[p] = query[p]
      /\ \A p : p # q => (In(p, ready') <=> In(p, ready))
      /\ In(q, ready') => In(q, ready)
  <2>1. to \in States \cup {"NONE"} /\ to # "READY"
    BY DEF States
  <2> QED  BY <2>1, Typed, MovedKeeps
<1> QED  BY <1>1 DEF Ahead

LEMMA AheadByQueryTo ==
  ASSUME Inv, NEW q \in Queries, NEW to \in {"EXEC", "EXIT"}, QueryTo(q, to)
  PROVE  Ahead
<1>1. CASE Refused(q, to)
  <2>1. query' = query /\ ready' = ready
    BY <1>1, Zenon DEF QueryTo
  <2> QED  BY <2>1 DEF Ahead
<1>2. CASE ~Refused(q, to)
  <2>1. Moved(q, to)
    BY <1>2, Zenon DEF QueryTo
  <2> QED  BY <2>1, AheadByMoved
<1> QED  BY <1>1, <1>2

LEMMA AheadByNothing ==
  ASSUME query' = query, ready' = ready
  PROVE  Ahead
  BY DEF Ahead

LEMMA AheadAccept == Inv /\ Accept => Ahead
<1> SUFFICES ASSUME Inv PROVE Accept => Ahead
  OBVIOUS
<1>1. CASE ListQuery \/ \E w \in Workers : ConnectWorker(w)
  BY <1>1, AheadByNothing DEF ListQuery, ConnectWorker, states
<1>2. ASSUME NEW q \in Queries, ConnectQuery(q) PROVE Ahead
  <2>1. PICK s \in FreshStates :
          LET to == IF s = "EXIT" THEN "EXIT" ELSE "READY" IN
          /\ query' = [query EXCEPT ![q].sp = to]
          /\ ready' = IF to = "READY" THEN Append(ready, q) ELSE ready
    BY <1>2, Zenon DEF ConnectQuery
  <2> DEFINE to == IF s = "EXIT" THEN "EXIT" ELSE "READY"
  <2>2. /\ query[q].sp = "NONE" /\ ~In(q, ready)
        /\ query' = [query EXCEPT ![q].sp = to]
        /\ ready' = Append(ready, q) \/ ready' = ready
        /\ to \in {"READY", "EXIT"}
    <3>1. query[q].sp = "NONE"
      BY <1>2 DEF ConnectQuery
    <3> QED  BY <2>1, <3>1, PlacedNow
  <2> HIDE DEF to
  <2>3. query'[q].sp = to /\ \A p \in Queries : p # q => query'[p] = query[p]
    BY <2>2, Typed DEF QueryStructs
  <2>4. \A p : In(p, ready') => In(p, ready) \/ p = q
    BY <2>2, Typed, AppendKeeps
  <2> QED  BY <2>2, <2>3, <2>4 DEF Ahead
<1> QED  BY <1>1, <1>2 DEF Accept

LEMMA AheadSchedule == Inv /\ Fifo /\ NoEviction /\ Schedule => Ahead
<1> SUFFICES ASSUME Inv, Fifo, NoEviction PROVE Schedule => Ahead
  OBVIOUS
<1>1. CASE PopQuery
  <2>1. query' = query /\ (ready' = ready \/ (ready # <<>> /\ ready' = Tail(ready)))
    BY <1>1, Zenon DEF PopQuery, Fifo
  <2>2. \A q : In(q, ready') => In(q, ready)
    BY <2>1, Typed, TailKeeps
  <2> QED  BY <2>1, <2>2 DEF Ahead
<1>2. CASE ToExec
  <2>1. sched.q \in Queries /\ QueryTo(sched.q, "EXEC")
    BY <1>2, Typed DEF ToExec, SchedulerHolds
  <2> QED  BY <2>1, AheadByQueryTo
<1>3. CASE NothingToDo \/ ChooseWorker \/ EvictFirst \/ SendQuery \/ ToBusy \/ SkipQuery \/ AgeEnd
  BY <1>3, AheadByNothing DEF NothingToDo, ChooseWorker, EvictFirst, SendQuery, ToBusy, SkipQuery,
     AgeEnd, states
<1>4. ~ChooseByPriority /\ ~PopAgain /\ ~AgeQuery
  BY DEF ChooseByPriority, PopAgain, AgeQuery, Fifo, NoEviction
<1> QED  BY <1>1, <1>2, <1>3, <1>4 DEF Schedule

LEMMA AheadEviction ==
  ASSUME Inv, NoEviction, NEW c \in Callers, Eviction(c)
  PROVE  Ahead
<1>1. CASE EvictCheck(c) \/ EvictSend(c) \/ EvictReads(c) \/ EvictRelease(c)
  BY <1>1, AheadByNothing DEF EvictCheck, EvictSend, EvictReads, EvictRelease, states
<1>2. CASE EvictMove(c)
  <2> DEFINE q == evict[c].q
             to == evict[c].arg
  <2>1. q \in Queries /\ to \in {"EXEC", "EXIT"} /\ QueryTo(q, to)
    BY <1>2, Typed DEF EvictMove, CallsHold, NoEviction
  <2> HIDE DEF q, to
  <2> QED  BY <2>1, AheadByQueryTo
<1>3. CASE EvictAnswered(c)
  <2> DEFINE q == worker[evict[c].w].q
             n == worker[evict[c].w].pc
             to == evict[c].to
  <2>1. /\ evict[c].pc = "wait" /\ ready' = ready
        /\ \/ UNCHANGED query
           \/ Known(q) /\ query' = [query EXCEPT ![q].pc = n, ![q].sp = to]
    BY <1>3, Zenon DEF EvictAnswered, Crash, states
  <2>2. CASE UNCHANGED query
    BY <2>1, <2>2, AheadByNothing
  <2>3. CASE ~UNCHANGED query
    <3>1. q \in Queries /\ n \in Nat /\ to = "EXIT"
      <4>1. evict[c].w \in Workers
        BY <2>1, Typed DEF CallsHold
      <4> QED  BY <2>1, <2>3, <4>1, Typed DEF WorkerStructs, Known, NoEviction
    <3>2. query' = [query EXCEPT ![q].pc = n, ![q].sp = to]
      BY <2>1, <2>3
    <3> HIDE DEF q, n, to
    <3>3. query'[q].sp = to /\ \A p \in Queries : p # q => query'[p] = query[p]
      BY <3>1, <3>2, Typed, QueryAnswered
    <3> QED  BY <2>1, <3>1, <3>3 DEF Ahead
  <2> QED  BY <2>2, <2>3
<1> QED  BY <1>1, <1>2, <1>3 DEF Eviction

LEMMA AheadServe ==
  ASSUME Inv, NEW w \in Workers, Serve(w)
  PROVE  Ahead
<1>1. CASE EndExit(w)
  <2>1. conn[w].q \in Queries /\ Moved(conn[w].q, "EXIT")
    BY <1>1, Typed DEF EndExit, ConnectionsHold
  <2> QED  BY <2>1, AheadByMoved
<1>2. CASE LoseQuery(w) /\ Known(worker[w].id_query)
  <2>1. worker[w].id_query \in Queries /\ QueryTo(worker[w].id_query, "EXIT")
    BY <1>2, Typed, Zenon DEF LoseQuery, Known
  <2> QED  BY <2>1, AheadByQueryTo
<1>3. CASE query' = query /\ ready' = ready
  BY <1>3, AheadByNothing
<1>4. TakeEvicted(w) \/ TakeEnd(w) => query' = query /\ ready' = ready
  BY Zenon DEF TakeEvicted, TakeEnd, Crash, states
<1>5. EndFree(w) \/ LoseWorker(w) \/ RemoveWorker(w) => query' = query /\ ready' = ready
  BY Zenon DEF EndFree, LoseWorker, RemoveWorker, Crash, states
<1>6. LoseQuery(w) /\ ~Known(worker[w].id_query) => query' = query /\ ready' = ready
  BY DEF LoseQuery, states
<1> QED  BY <1>1, <1>2, <1>3, <1>4, <1>5, <1>6 DEF Serve

LEMMA AheadNext == Inv /\ Fifo /\ NoEviction /\ Next => Ahead
<1> SUFFICES ASSUME Inv, Fifo, NoEviction PROVE Next => Ahead
  OBVIOUS
<1>1. ASSUME NEW q \in Queries, HangUp(q) \/ Closed(q) PROVE Ahead
  <2>1. CASE HangupExit(q)
    BY <2>1, AheadByQueryTo DEF HangupExit
  <2>2. CASE HangUp(q) \/ HangupExec(q)
    BY <2>2, AheadByNothing DEF HangUp, HangupExec, states
  <2> QED  BY <1>1, <2>1, <2>2 DEF Closed
<1>2. ASSUME NEW w \in Workers, Peer(w) \/ PeerDies(w) PROVE Ahead
  BY <1>2, PeerFrame, AheadByNothing DEF Master, states
<1> QED  BY <1>1, <1>2, AheadAccept, AheadSchedule, AheadEviction, AheadServe DEF Next

-----------------------------------------------------------------------------
(* What is sent to a Worker *)

LEMMA Posted ==
  ASSUME toWorker \in [Workers -> Seq(Messages)], NEW w \in Workers, NEW m \in Messages,
         Send(w, m)
  PROVE  \A x \in Workers : \A q :
           (\E i \in DOMAIN toWorker'[x] : toWorker'[x][i].q = q)
             => OnItsWay(q, x) \/ (x = w /\ q = m.q)
<1>1. toWorker' = toWorker \/ toWorker' = [toWorker EXCEPT ![w] = Append(toWorker[w], m)]
  BY DEF Send
<1>2. CASE toWorker' = toWorker
  BY <1>2 DEF OnItsWay
<1>3. CASE toWorker' = [toWorker EXCEPT ![w] = Append(toWorker[w], m)]
  <2> DEFINE s == toWorker[w]
             t == Append(s, m)
  <2>1. s \in Seq(Messages) /\ toWorker'[w] = t
        /\ \A x \in Workers : x # w => toWorker'[x] = toWorker[x]
    BY <1>3
  <2>2. \A i \in DOMAIN t : (i \in DOMAIN s /\ t[i] = s[i]) \/ t[i] = m
    <3> HIDE DEF s
    <3> QED  BY <2>1
  <2>3. \A q : (\E i \in DOMAIN t : t[i].q = q) => (\E i \in DOMAIN s : s[i].q = q) \/ q = m.q
    BY <2>2
  <2> HIDE DEF t
  <2> QED  BY <2>1, <2>3 DEF OnItsWay
<1> QED  BY <1>1, <1>2, <1>3

LEMMA Delivered ==
  ASSUME NEW s \in Seq(Messages), s # <<>>
  PROVE  /\ Head(s) \in Messages
         /\ \E i \in DOMAIN s : s[i] = Head(s)
         /\ \A j \in DOMAIN Tail(s) : \E i \in DOMAIN s : s[i] = Tail(s)[j]
<1>1. Head(s) \in Messages /\ Head(s) = s[1] /\ 1 \in DOMAIN s
  OBVIOUS
<1>2. ASSUME NEW j \in DOMAIN Tail(s)
      PROVE  j + 1 \in DOMAIN s /\ s[j + 1] = Tail(s)[j]
  OBVIOUS
<1> QED  BY <1>1, <1>2

(* What reaches a Worker was on its way. *)
LEMMA PeersHave ==
  ASSUME Inv, NEW w \in Workers, Peer(w) \/ PeerDies(w)
  PROVE  \A x \in Workers : \A q \in Queries : Sent(q, x)' => Sent(q, x)
<1>1. /\ peer \in [Workers -> Peers] /\ toWorker \in [Workers -> Seq(Messages)]
      /\ peer[w] \in Peers
  BY Typed
<1>2. ASSUME toWorker' = toWorker, \A x \in Workers : peer'[x].q = peer[x].q
      PROVE  \A x \in Workers : \A q \in Queries : Sent(q, x)' => Sent(q, x)
  BY <1>2 DEF Sent, OnItsWay
<1>3. ASSUME NEW p, p.q = peer[w].q, toWorker' = toWorker, Becomes(w, p)
      PROVE  \A x \in Workers : \A q \in Queries : Sent(q, x)' => Sent(q, x)
  <2>1. \A x \in Workers : peer'[x].q = peer[x].q
    BY <1>1, <1>3 DEF Becomes
  <2> QED  BY <1>2, <1>3, <2>1
<1>4. ASSUME NEW pc, NEW at, NEW given, Interrupted(w, pc, at, given)
      PROVE  \A x \in Workers : \A q \in Queries : Sent(q, x)' => Sent(q, x)
  <2> DEFINE p == [peer[w] EXCEPT !.pc = pc, !.at = at, !.given = given, !.desalojado = FALSE]
  <2>1. p.q = peer[w].q
    BY <1>1 DEF Peers
  <2>2. toWorker' = toWorker /\ Becomes(w, p)
    BY <1>4 DEF Interrupted
  <2> HIDE DEF p
  <2> QED  BY <1>3, <2>1, <2>2
<1>5. CASE PeerTakes(w)
  <2> DEFINE m == Head(toWorker[w])
             p == peer[w]
             b == CASE m.op = "EVICT" -> [p EXCEPT !.desalojado = TRUE]
                    [] p.at = "idle" -> [p EXCEPT !.q = m.q, !.pc = m.pc, !.at = "run"]
                    [] OTHER -> [p EXCEPT !.q = m.q, !.pc = m.pc, !.given = TRUE]
  <2>1. /\ toWorker[w] # <<>> /\ Becomes(w, b)
        /\ toWorker' = [toWorker EXCEPT ![w] = Tail(@)]
    BY <1>5, Zenon DEF PeerTakes
  <2>2. b.q = peer[w].q \/ b.q = m.q
    <3>1. \/ b = [p EXCEPT !.desalojado = TRUE]
          \/ b = [p EXCEPT !.q = m.q, !.pc = m.pc, !.at = "run"]
          \/ b = [p EXCEPT !.q = m.q, !.pc = m.pc, !.given = TRUE]
      OBVIOUS
    <3> HIDE DEF b, m
    <3> QED  BY <1>1, <3>1 DEF Peers
  <2> HIDE DEF b
  <2>3. /\ \E i \in DOMAIN toWorker[w] : toWorker[w][i] = m
        /\ \A j \in DOMAIN Tail(toWorker[w]) :
             \E i \in DOMAIN toWorker[w] : toWorker[w][i] = Tail(toWorker[w])[j]
    BY <1>1, <2>1, Delivered
  <2> HIDE DEF m
  <2>4. /\ toWorker'[w] = Tail(toWorker[w]) /\ peer'[w] = b
        /\ \A x \in Workers : x # w => toWorker'[x] = toWorker[x] /\ peer'[x] = peer[x]
    BY <1>1, <2>1 DEF Becomes
  <2>5. \A q \in Queries : Sent(q, w)' => Sent(q, w)
    BY <2>2, <2>3, <2>4 DEF Sent, OnItsWay
  <2> QED  BY <2>4, <2>5 DEF Sent, OnItsWay
<1>6. CASE PeerDies(w)
  <2>1. /\ peer' = [peer EXCEPT ![w] = [FreshPeer EXCEPT !.up = FALSE]]
        /\ toWorker' = [toWorker EXCEPT ![w] = <<>>]
    BY <1>6 DEF PeerDies, Becomes
  <2>2. /\ toWorker'[w] = <<>> /\ peer'[w].q = NoQuery
        /\ \A x \in Workers : x # w => toWorker'[x] = toWorker[x] /\ peer'[x] = peer[x]
    BY <1>1, <2>1 DEF FreshPeer
  <2>3. \A q \in Queries : ~Sent(q, w)'
    BY <2>2, NoQueryIsNone DEF Sent, OnItsWay
  <2> QED  BY <2>2, <2>3 DEF Sent, OnItsWay
<1>7. CASE PeerErrs(w)
  BY <1>2, <1>7 DEF PeerErrs
<1>8. CASE PeerEnds(w)
  <2> DEFINE p == [peer[w] EXCEPT !.at = "ended"]
  <2>1. p.q = peer[w].q
    BY <1>1 DEF Peers
  <2>2. toWorker' = toWorker /\ Becomes(w, p)
    BY <1>8 DEF PeerEnds
  <2> HIDE DEF p
  <2> QED  BY <1>3, <2>1, <2>2
<1>9. CASE PeerSteps(w) \/ PeerEnded(w) \/ PeerLeaves(w) \/ PeerStops(w)
  BY <1>4, <1>9, Zenon DEF PeerSteps, PeerEnded, PeerLeaves, PeerStops
<1> QED  BY <1>5, <1>6, <1>7, <1>8, <1>9 DEF Peer, PeerGoes

LEMMA EvictSends ==
  ASSUME Inv, NEW c \in Callers, Eviction(c)
  PROVE  \A x \in Workers : \A q \in Queries : Sent(q, x)' => Sent(q, x)
<1>1. peer' = peer
  BY EvictionFrame
<1>2. CASE EvictSend(c)
  <2>1. /\ evict[c].w \in Workers /\ Send(evict[c].w, Evict)
        /\ Evict \in Messages /\ Evict.q = NoQuery
    BY <1>2, Typed DEF EvictSend, CallsHold, Evict, Message, Messages
  <2>2. \A x \in Workers : \A q :
          (\E i \in DOMAIN toWorker'[x] : toWorker'[x][i].q = q)
             => OnItsWay(q, x) \/ (x = evict[c].w /\ q = Evict.q)
    BY <2>1, Typed, Posted
  <2> QED  BY <1>1, <2>1, <2>2, NoQueryIsNone DEF Sent, OnItsWay
<1>3. Eviction(c) /\ ~EvictSend(c) => toWorker' = toWorker
  BY Zenon DEF Eviction, EvictCheck, EvictAnswered, EvictReads, EvictMove, EvictRelease, Crash,
     net
<1> QED  BY <1>1, <1>2, <1>3 DEF Sent, OnItsWay

LEMMA ScheduleSends ==
  ASSUME Inv, Schedule
  PROVE  \A x \in Workers : \A q \in Queries :
           Sent(q, x)' => Sent(q, x) \/ (SendQuery /\ x = sched.w /\ q = sched.q)
<1>1. peer' = peer
  BY ScheduleFrame
<1>2. CASE SendQuery
  <2> DEFINE m == Message("EXECUTE", sched.q, query[sched.q].pc)
  <2>1. sched.w \in Workers /\ sched.q \in Queries /\ Send(sched.w, m)
    BY <1>2, Typed DEF SendQuery, SchedulerHolds
  <2>2. m \in Messages /\ m.q = sched.q
    <3>1. query[sched.q].pc \in Nat
      BY <2>1, Typed DEF QueryStructs
    <3> QED  BY <2>1, <3>1, MessageTyped DEF Message
  <2> HIDE DEF m
  <2>3. \A x \in Workers : \A q :
          (\E i \in DOMAIN toWorker'[x] : toWorker'[x][i].q = q)
             => OnItsWay(q, x) \/ (x = sched.w /\ q = m.q)
    BY <2>1, <2>2, Typed, Posted
  <2> QED  BY <1>1, <1>2, <2>2, <2>3 DEF Sent, OnItsWay
<1>3. Schedule /\ ~SendQuery => toWorker' = toWorker
  BY Zenon DEF Schedule, NothingToDo, ChooseWorker, PopQuery, ChooseByPriority, PopAgain,
     EvictFirst, ToExec, ToBusy, AgeQuery, SkipQuery, AgeEnd, Crash, net
<1> QED  BY <1>1, <1>2, <1>3 DEF Sent, OnItsWay

LEMMA Sends ==
  ASSUME Inv, Next
  PROVE  \A x \in Workers : \A q \in Queries :
           Sent(q, x)' => Sent(q, x) \/ (SendQuery /\ x = sched.w /\ q = sched.q)
<1>1. CASE peer' = peer /\ toWorker' = toWorker
  BY <1>1 DEF Sent, OnItsWay
<1>2. \/ peer' = peer /\ toWorker' = toWorker
      \/ Schedule
      \/ \E c \in Callers : Eviction(c)
      \/ \E w \in Workers : Peer(w) \/ PeerDies(w)
  BY AcceptFrame, ServeFrame, HangupFrame, Zenon DEF Next, net
<1> QED  BY <1>1, <1>2, ScheduleSends, EvictSends, PeersHave

-----------------------------------------------------------------------------
(* The steps *)

(* The scheduler's turns under FIFO. *)
LEMMA FifoTurns ==
  ASSUME Inv, Fifo, NoEviction, Schedule
  PROVE  /\ ChooseWorker \/ PopQuery \/ SendQuery \/ ToExec \/ ToBusy
         /\ SendQuery => sched.pc = "assign"
<1>1. /\ ~NothingToDo /\ ~ChooseByPriority /\ ~PopAgain /\ ~AgeQuery /\ ~SkipQuery /\ ~AgeEnd
      /\ sched.pc # "send"
  BY DEF NothingToDo, ChooseByPriority, PopAgain, AgeQuery, SkipQuery, AgeEnd, Fifo, NoEviction
<1>2. ~EvictFirst
  BY DEF EvictFirst, Idle, NoEviction
<1>3. SendQuery => sched.pc = "assign"
  BY <1>1 DEF SendQuery
<1> QED  BY <1>1, <1>2, <1>3 DEF Schedule

LEMMA FifoSchedule ==
  ASSUME Inv, Fifo, NoEviction, Schedule
  PROVE  /\ evict' = evict
         /\ sched'.pc \notin {"send", "again", "age"}
         /\ sched'.pc \in {"pop", "assign"} => worker' = worker /\ worker[sched'.w].is_free
         /\ sched'.pc = "assign" =>
              In(sched'.q, ready) /\ ~In(sched'.q, ready') /\ query' = query
<1>1. sched \in SchedulerAt
  BY Typed
<1>2. CASE ChooseWorker
  <2>1. /\ sched' = [sched EXCEPT !.pc = "pop", !.w = First(Free)]
        /\ worker' = worker /\ evict' = evict /\ Free # {}
    BY <1>2 DEF ChooseWorker
  <2>2. First(Free) \in Free
    BY <2>1, FreeIsListed, FirstIsOne, Typed
  <2>3. worker[First(Free)].is_free
    BY <2>2 DEF Free
  <2> DEFINE f == First(Free)
  <2> HIDE DEF f
  <2>4. sched'.pc = "pop" /\ sched'.w = f
    BY <1>1, <2>1 DEF SchedulerAt, f
  <2> QED  BY <2>1, <2>3, <2>4 DEF f
<1>3. CASE PopQuery
  <2>1. worker' = worker /\ evict' = evict /\ query' = query /\ sched.pc = "pop"
    BY <1>3 DEF PopQuery
  <2>2. CASE ready = <<>>
    <3>1. sched' = Rested
      BY <1>3, <2>2 DEF PopQuery
    <3>2. Rested.pc = "execute"
      BY DEF Rested, Fifo
    <3> QED  BY <2>1, <3>1, <3>2
  <2>3. CASE ready # <<>>
    <3>1. ready' = Tail(ready) /\ sched' = [sched EXCEPT !.pc = "assign", !.q = Head(ready)]
      BY <1>3, <2>3, Zenon DEF PopQuery, Fifo
    <3>2. sched'.pc = "assign" /\ sched'.q = Head(ready) /\ sched'.w = sched.w
      BY <1>1, <3>1 DEF SchedulerAt
    <3>3. In(Head(ready), ready) /\ ~In(Head(ready), Tail(ready))
      BY <2>3, Typed, TailKeeps
    <3>4. worker[sched.w].is_free
      BY <2>1 DEF NoEviction
    <3> QED  BY <2>1, <3>1, <3>2, <3>3, <3>4
  <2> QED  BY <2>2, <2>3
<1>4. CASE SendQuery \/ ToExec
  <2>1. sched'.pc \in {"exec", "busy"} /\ evict' = evict
    BY <1>1, <1>4 DEF SendQuery, ToExec, SchedulerAt
  <2> QED  BY <2>1
<1>5. CASE ToBusy
  <2>1. sched' = Rested /\ evict' = evict
    BY <1>5 DEF ToBusy
  <2>2. Rested.pc = "execute"
    BY DEF Rested, Fifo
  <2> QED  BY <2>1, <2>2
<1> QED  BY <1>2, <1>3, <1>4, <1>5, FifoTurns

(* Only the scheduler makes a Worker busy. *)
LEMMA StaysFree ==
  ASSUME Inv, Next, ~Schedule, NEW w \in Workers, worker[w].is_free
  PROVE  worker'[w].is_free
<1>1. worker \in [Workers -> WorkerStructs]
  BY Typed
<1>2. CASE worker' = worker
  BY <1>2
<1>3. ASSUME NEW c \in Callers, Eviction(c) PROVE worker'[w].is_free
  <2>1. evict[c].pc # "idle" => evict[c].w \in Workers
    BY Typed DEF CallsHold
  <2>2. CASE EvictSend(c)
    <3>1. worker' = [worker EXCEPT ![evict[c].w].estoy_desalojando = TRUE]
      BY <2>2, Zenon DEF EvictSend
    <3> QED  BY <1>1, <3>1 DEF WorkerStructs
  <2>3. CASE EvictAnswered(c) /\ worker' # worker
    <3>1. worker' = [worker EXCEPT ![evict[c].w].sem = @ - 1]
      BY <2>3, Zenon DEF EvictAnswered, Crash
    <3> QED  BY <1>1, <3>1 DEF WorkerStructs
  <2>4. CASE EvictRelease(c)
    <3>1. worker' = [worker EXCEPT ![evict[c].w].is_free = TRUE,
                                   ![evict[c].w].id_query = NoQuery]
      BY <2>4, Zenon DEF EvictRelease
    <3> QED  BY <1>1, <3>1 DEF WorkerStructs
  <2>5. EvictCheck(c) \/ EvictReads(c) \/ EvictMove(c) => worker' = worker
    BY DEF EvictCheck, EvictReads, EvictMove
  <2> QED  BY <1>2, <1>3, <2>2, <2>3, <2>4, <2>5 DEF Eviction
<1>4. ASSUME NEW x \in Workers, Serve(x) PROVE worker'[w].is_free
  <2>1. CASE TakeEvicted(x) /\ worker' # worker
    <3> DEFINE m == Head(toMaster[x])
    <3>1. worker' = [worker EXCEPT ![x].q = m.q, ![x].pc = m.pc,
                                   ![x].estoy_desalojando = FALSE, ![x].sem = @ + 1]
      BY <2>1, Zenon DEF TakeEvicted, Crash
    <3> HIDE DEF m
    <3> QED  BY <1>1, <3>1 DEF WorkerStructs
  <2>2. CASE worker' = [worker EXCEPT ![x].id_query = NoQuery, ![x].is_free = TRUE]
    BY <1>1, <2>2 DEF WorkerStructs
  <2>3. Serve(x) => \/ TakeEvicted(x)
                    \/ worker' = [worker EXCEPT ![x].id_query = NoQuery, ![x].is_free = TRUE]
                    \/ worker' = worker
    BY Zenon DEF Serve, TakeEnd, EndExit, EndFree, LoseWorker, LoseQuery, RemoveWorker, Freed,
       Crash
  <2> QED  BY <1>2, <1>4, <2>1, <2>2, <2>3
<1>5. \/ worker' = worker
      \/ \E c \in Callers : Eviction(c)
      \/ \E x \in Workers : Serve(x)
  BY AcceptFrame, HangupFrame, PeerFrame, Zenon DEF Next, Master
<1> QED  BY <1>2, <1>3, <1>4, <1>5

(* What a call has read: a state of the Query that it moves. *)
LEMMA CallReadsState ==
  ASSUME Inv, NEW c \in Callers, Eviction(c)
  PROVE  \/ evict'[c].arg \in {"NONE", evict[c].arg}
         \/ evict[c].pc = "move" /\ evict'[c].arg = query[evict[c].q].sp
<1>1. evict \in [Callers -> Calls]
  BY Typed
<1>2. CASE EvictReads(c)
  BY <1>1, <1>2 DEF EvictReads, Calls
<1>3. CASE evict' = evict \/ evict' = Return(c)
  BY <1>1, <1>3 DEF Return, NoCall
<1>4. CASE \E pc : evict' = [evict EXCEPT ![c].pc = pc]
  BY <1>1, <1>4 DEF Calls
<1>5. CASE \E pc, b : evict' = [evict EXCEPT ![c].pc = pc, ![c].blind = b]
  BY <1>1, <1>5 DEF Calls
<1>6. CASE \E pc, q : evict' = [evict EXCEPT ![c].pc = pc, ![c].q = q]
  BY <1>1, <1>6 DEF Calls
<1>7. EvictCheck(c) \/ EvictSend(c) \/ EvictMove(c) \/ EvictRelease(c)
        => \/ evict' = Return(c)
           \/ \E pc : evict' = [evict EXCEPT ![c].pc = pc]
           \/ \E pc, b : evict' = [evict EXCEPT ![c].pc = pc, ![c].blind = b]
  BY Zenon DEF EvictCheck, EvictSend, EvictMove, EvictRelease
<1>8. EvictAnswered(c)
        => \/ evict' = evict \/ evict' = Return(c)
           \/ \E pc, q : evict' = [evict EXCEPT ![c].pc = pc, ![c].q = q]
  BY Zenon DEF EvictAnswered, Crash
<1> QED  BY <1>2, <1>3, <1>4, <1>5, <1>6, <1>7, <1>8 DEF Eviction

LEMMA StaysQuiet == Inv /\ Fifo /\ NoEviction /\ Next => NoEviction'
<1> SUFFICES ASSUME Inv, Fifo, NoEviction, Next PROVE NoEviction'
  OBVIOUS
<1>1. \A q \in Queries : query[q].sp \in {"EXEC", "EXIT"} => query'[q].sp \in {"EXEC", "EXIT"}
  BY AheadNext DEF Ahead
<1>2. ASSUME evict' = evict
      PROVE  /\ \A c \in Callers : evict'[c].pc # "idle" => evict'[c].to = "EXIT" /\ c # Scheduler
             /\ \A c \in Callers :
                  evict'[c].pc = "move" => query'[evict'[c].q].sp \in {"EXEC", "EXIT"}
             /\ \A c \in Callers : evict'[c].arg \in {"NONE", "EXEC", "EXIT"}
  BY <1>1, <1>2, Typed DEF NoEviction, CallsHold
<1>3. CASE Schedule
  BY <1>2, <1>3, FifoSchedule DEF NoEviction
<1>4. ASSUME ~Schedule, sched' = sched
      PROVE  /\ sched'.pc \notin {"send", "again", "age"}
             /\ sched'.pc \in {"pop", "assign"} => worker'[sched'.w].is_free
  BY <1>4, StaysFree, Typed DEF NoEviction, SchedulerHolds
<1>5. CASE ~Schedule /\ sched' = sched /\ evict' = evict
  BY <1>2, <1>4, <1>5 DEF NoEviction
<1>6. ASSUME ~Schedule, NEW c \in Callers, Eviction(c) PROVE NoEviction'
  <2>1. sched' = sched
    BY <1>6, EvictionFrame
  <2>2. \A d \in Callers : evict'[d].pc # "idle" => evict[d].pc # "idle" /\ evict'[d].to = evict[d].to
    BY <1>6, CallGoes
  <2>3. \A d \in Callers : evict'[d].pc # "idle" => evict'[d].to = "EXIT" /\ d # Scheduler
    BY <2>2 DEF NoEviction
  <2>4. ASSUME NEW d \in Callers, evict'[d].pc = "move"
        PROVE  query'[evict'[d].q].sp \in {"EXEC", "EXIT"}
    <3>1. CASE d = c /\ evict[c].pc = "wait"
      <4>1. query'[evict'[c].q].sp = evict[c].to
        BY <1>6, <2>4, <3>1, CallGoes
      <4> QED  BY <3>1, <4>1 DEF NoEviction
    <3>2. CASE d = c /\ evict[c].pc = "move"
      <4>1. evict'[c].q = evict[c].q /\ query' = query
        BY <1>6, <2>4, <3>2, CallGoes
      <4> QED  BY <3>2, <4>1 DEF NoEviction
    <3>3. CASE d # c
      <4>1. evict'[d] = evict[d]
        BY <1>6, <3>3, CallGoes
      <4>2. evict[d].q \in Queries /\ query[evict[d].q].sp \in {"EXEC", "EXIT"}
        BY <2>4, <4>1, Typed DEF NoEviction, CallsHold
      <4> QED  BY <1>1, <4>1, <4>2
    <3> QED  BY <1>6, <2>4, <3>1, <3>2, <3>3, CallGoes
  <2>5. \A d \in Callers : evict'[d].arg \in {"NONE", "EXEC", "EXIT"}
    BY <1>6, CallGoes, CallReadsState DEF NoEviction
  <2> QED  BY <1>4, <1>6, <2>1, <2>3, <2>4, <2>5 DEF NoEviction
<1>7. ASSUME ~Schedule, NEW q \in Queries, HangupExec(q) PROVE NoEviction'
  <2>1. sched' = sched /\ Hangup(q) # Scheduler
    BY <1>7 DEF HangupExec, Hangup, Scheduler
  <2>2. CASE evict' = evict
    BY <1>5, <1>7, <2>1, <2>2
  <2>3. CASE /\ evict'[Hangup(q)].pc = "check" /\ evict'[Hangup(q)].to = "EXIT"
             /\ evict'[Hangup(q)].arg = "NONE"
             /\ \A d \in Callers : d # Hangup(q) => evict'[d] = evict[d]
    <3>1. \A d \in Callers : evict'[d].pc # "idle" => evict'[d].to = "EXIT" /\ d # Scheduler
      BY <2>1, <2>3 DEF NoEviction
    <3>2. \A d \in Callers :
            evict'[d].pc = "move" => query'[evict'[d].q].sp \in {"EXEC", "EXIT"}
      BY <1>1, <2>3, Typed DEF NoEviction, CallsHold
    <3>3. \A d \in Callers : evict'[d].arg \in {"NONE", "EXEC", "EXIT"}
      BY <2>3 DEF NoEviction
    <3> QED  BY <1>4, <1>7, <2>1, <3>1, <3>2, <3>3 DEF NoEviction
  <2> QED  BY <1>7, <2>2, <2>3, HangupCalls
<1>8. \/ Schedule
      \/ sched' = sched /\ evict' = evict
      \/ \E c \in Callers : Eviction(c)
      \/ \E q \in Queries : HangupExec(q)
  <2>1. \A q \in Queries : HangUp(q) \/ HangupExit(q) => sched' = sched /\ evict' = evict
    BY DEF HangUp, HangupExit
  <2> QED  BY <2>1, AcceptFrame, ServeFrame, PeerFrame, Zenon DEF Next, Master, Closed
<1> QED  BY <1>3, <1>5, <1>6, <1>7, <1>8

LEMMA StaysTaken == Inv /\ Fifo /\ NoEviction /\ TakenOnce /\ Next => TakenOnce'
<1> SUFFICES ASSUME Inv, Fifo, NoEviction, TakenOnce, Next, NEW q \in Queries, Assigned(q)'
             PROVE  ~In(q, ready') /\ query'[q].sp # "NONE"
  BY DEF TakenOnce
<1>1. sched'.pc = "assign" /\ sched'.q = q
  BY DEF Assigned
<1>2. CASE Schedule
  <2>1. In(q, ready) /\ ~In(q, ready') /\ query' = query
    BY <1>1, <1>2, FifoSchedule
  <2> QED  BY <2>1, PlacedNow
<1>3. CASE sched' = sched
  <2>1. ~In(q, ready) /\ query[q].sp # "NONE"
    BY <1>1, <1>3 DEF TakenOnce, Assigned
  <2> QED  BY <2>1, AheadNext DEF Ahead
<1>4. Schedule \/ sched' = sched
  BY AcceptFrame, EvictionFrame, ServeFrame, HangupFrame, PeerFrame, Zenon DEF Next, Master
<1> QED  BY <1>2, <1>3, <1>4

LEMMA StaysGivenOnce ==
  Inv /\ Fifo /\ NoEviction /\ TakenOnce /\ GivenOnce /\ Next => GivenOnce'
<1> SUFFICES ASSUME Inv, Fifo, NoEviction, TakenOnce, GivenOnce, Next,
                    NEW q \in Queries, NEW w \in Workers, Sent(q, w)'
             PROVE  /\ \A x \in Workers : Sent(q, x)' => w = x
                    /\ query'[q].sp # "NONE" /\ ~In(q, ready') /\ ~Assigned(q)'
  BY DEF GivenOnce
<1> DEFINE Now(x) == SendQuery /\ x = sched.w /\ q = sched.q
<1>1. \A x \in Workers : Sent(q, x)' => Sent(q, x) \/ Now(x)
  BY Sends
<1>2. SendQuery => sched.pc = "assign"
  BY FifoTurns DEF Schedule
<1>3. \A x \in Workers : Now(x) => Assigned(q)
  BY <1>2 DEF Assigned
<1>4. ASSUME NEW x \in Workers, Sent(q, x)' PROVE w = x
  BY <1>1, <1>3, <1>4 DEF GivenOnce
<1>5. query[q].sp # "NONE" /\ ~In(q, ready)
  BY <1>1, <1>3 DEF GivenOnce, TakenOnce
<1>6. query'[q].sp # "NONE" /\ ~In(q, ready')
  BY <1>5, AheadNext DEF Ahead
<1>7. ~Assigned(q)'
  <2>1. CASE Schedule
    BY <1>5, <2>1, FifoSchedule DEF Assigned
  <2>2. CASE ~Schedule
    <3>1. sched' = sched
      BY <2>2, AcceptFrame, EvictionFrame, ServeFrame, HangupFrame, PeerFrame, Zenon
         DEF Next, Master
    <3>2. ~SendQuery
      BY <2>2 DEF Schedule
    <3>3. ~Assigned(q)
      BY <1>1, <3>2 DEF GivenOnce
    <3> QED  BY <3>1, <3>3 DEF Assigned
  <2> QED  BY <2>1, <2>2
<1> QED  BY <1>4, <1>6, <1>7

LEMMA FifoHolds == Spec => [](Inv /\ FifoInv)
<1>1. Init => FifoInv
  <2> SUFFICES ASSUME Init PROVE NoEviction /\ TakenOnce /\ GivenOnce
    BY DEF FifoInv
  <2>1. \A c \in Callers : evict[c].pc = "idle" /\ evict[c].arg = "NONE"
    BY DEF Init, NoCall
  <2>2. \A q \in Queries : \A w \in Workers : ~Sent(q, w)
    BY NoQueryIsNone DEF Init, Sent, OnItsWay, FreshPeer
  <2> QED  BY <2>1, <2>2 DEF Init, NoEviction, TakenOnce, GivenOnce, Assigned
<1>2. Inv /\ FifoInv /\ [Next]_vars => FifoInv'
  <2>1. CASE Next
    <3>1. setup' = setup
      BY <2>1, AcceptFrame, ScheduleFrame, EvictionFrame, ServeFrame, HangupFrame, PeerFrame,
         Zenon DEF Next, Master
    <3>2. Fifo' => Fifo
      BY <3>1 DEF Fifo
    <3> QED  BY <2>1, <3>2, StaysQuiet, StaysTaken, StaysGivenOnce DEF FifoInv
  <2>2. CASE UNCHANGED vars
    <3>1. Fifo' => Fifo
      BY <2>2 DEF Fifo, vars
    <3>2. NoEviction => NoEviction'
      BY <2>2 DEF NoEviction, vars, states
    <3>3. TakenOnce => TakenOnce'
      BY <2>2 DEF TakenOnce, Assigned, In, vars, states
    <3>4. GivenOnce => GivenOnce'
      BY <2>2 DEF GivenOnce, Sent, OnItsWay, Assigned, In, vars, states, net
    <3> QED  BY <3>1, <3>2, <3>3, <3>4 DEF FifoInv
  <2> QED  BY <2>1, <2>2
<1> QED  BY <1>1, <1>2, InitSafe, StepSafe, PTL DEF Spec

(* Under FIFO no two Workers ever run the same Query, for any number of       *)
(* Queries and Workers, whoever hangs up or is lost, whenever the Workers     *)
(* answer: execute_worker_on_this_query gives each away once, and no path     *)
(* (an eviction for a Query Control that is gone, an error reported twice)    *)
(* brings it back to READY.                                                   *)
THEOREM OneWorkerEach == Spec => []RunsOnOneWorker
<1>1. Inv /\ FifoInv => RunsOnOneWorker
  BY DEF FifoInv, Fifo, GivenOnce, Sent, RunsOnOneWorker
<1> QED  BY <1>1, FifoHolds, PTL

-----------------------------------------------------------------------------
(* The Master as a queue: nobody disconnects, and the network is slower than  *)
(* the Master's threads.                                                      *)

CalmSetups ==
  /\ \A s \in Setups :
       s.mode = "FIFO" /\ s.mortal = {} /\ s.impatient = {} /\ ~s.prompt /\ ~s.repeats
  /\ "EXIT" \notin FreshStates

(* Nothing is evicted, and no Worker is lost. *)
Undisturbed ==
  /\ \A c \in Callers : evict[c].pc = "idle"
  /\ \A q \in Queries : hangup[q] \in {"none", "gone"}
  /\ \A w \in Workers : peer[w].up /\ ~peer[w].desalojado

(* A Worker, from one Query to the next: the scheduler has given it its Query *)
(* and not yet marked it busy; the Query is in EXEC.                          *)
JustSent(w) == sched.pc \in {"exec", "busy"} /\ sched.w = w
Marking(w) ==
  /\ JustSent(w) /\ sched.q = worker[w].id_query
  /\ query[sched.q].sp = IF sched.pc = "exec" THEN "READY" ELSE "EXEC"
Busy(w, sp) ==
  /\ ~JustSent(w) /\ ~worker[w].is_free
  /\ query[worker[w].id_query].sp = sp

Silent(w) == toWorker[w] = <<>> /\ toMaster[w] = <<>>
Unoccupied(w) == peer[w].at # "run" /\ ~peer[w].given
Open(w) == conn[w].pc \in {"none", "idle"}
Alone(s, op, q) == Len(s) = 1 /\ s[1].op = op /\ s[1].q = q

Resting(w) ==
  /\ worker[w].id_query = NoQuery /\ worker[w].is_free /\ ~JustSent(w)
  /\ Silent(w) /\ Unoccupied(w) /\ Open(w)
Going(w) ==
  /\ Marking(w) \/ Busy(w, "EXEC")
  /\ Alone(toWorker[w], "EXECUTE", worker[w].id_query) /\ toMaster[w] = <<>>
  /\ Unoccupied(w) /\ Open(w)
Working(w) ==
  /\ Marking(w) \/ Busy(w, "EXEC")
  /\ Silent(w) /\ Open(w)
  /\ peer[w].q = worker[w].id_query /\ (peer[w].at = "run" <=> ~peer[w].given)
Ending(w) ==
  /\ Busy(w, "EXEC") /\ worker[w].id_query \in queries
  /\ toWorker[w] = <<>> /\ Alone(toMaster[w], "END", worker[w].id_query)
  /\ Unoccupied(w) /\ Open(w) /\ peer[w].q = worker[w].id_query
Leaving(w) ==
  /\ \/ conn[w].pc = "exit" /\ Busy(w, "EXEC")
     \/ conn[w].pc = "free" /\ Busy(w, "EXIT")
  /\ conn[w].q = worker[w].id_query
  /\ Silent(w) /\ Unoccupied(w) /\ peer[w].q = worker[w].id_query
Stage(w) ==
  \/ Resting(w)
  \/ worker[w].id_query \in Queries /\ (Going(w) \/ Working(w) \/ Ending(w) \/ Leaving(w))
InStages == \A w \in Workers : Stage(w)

(* Who was told is in EXIT, or about to be. *)
ToldEnds ==
  \A q \in told : \/ query[q].sp = "EXIT"
                  \/ \E w \in Workers : conn[w].pc = "exit" /\ conn[w].q = q

(* A Query is in queries once the accepting thread has come so far. *)
ListedSoon == \A q \in Queries : query[q].sp # "NONE" => Known(q) \/ acceptor = q

(* The Query that is to be given has not been given before. *)
StillReady == sched.pc = "assign" => query[sched.q].sp = "READY"

(* A Worker that has connected is found. *)
Found ==
  \A w \in Workers : /\ conn[w].pc # "none" => w \in Listed
                     /\ conn[w].pc \in {"exit", "free"} => conn[w].i # 0

CalmInv ==
  Undisturbed /\ InStages /\ ToldEnds /\ ListedSoon /\ StillReady /\ StateLists /\ Found

CalmAll == CalmSetups /\ Inv /\ FifoInv /\ CalmInv

LEMMA CalmNow ==
  ASSUME CalmAll
  PROVE  /\ Inv /\ Fifo /\ NoEviction /\ TakenOnce /\ GivenOnce /\ CalmInv
         /\ setup.mortal = {} /\ setup.impatient = {} /\ ~setup.prompt /\ ~setup.repeats
<1>1. setup \in Setups
  BY Typed DEF CalmAll, TypeOK
<1> QED  BY <1>1 DEF CalmAll, CalmSetups, FifoInv, Fifo

LEMMA AloneTaken ==
  ASSUME NEW s \in Seq(Messages), NEW op, NEW q, Alone(s, op, q)
  PROVE  s # <<>> /\ Head(s).op = op /\ Head(s).q = q /\ Tail(s) = <<>>
<1>1. Len(s) = 1
  BY DEF Alone
<1>2. s # <<>>
  BY <1>1, EmptySeq
<1>3. Tail(s) \in Seq(Messages) /\ Len(Tail(s)) = 0 /\ Head(s) = s[1]
  BY <1>1, <1>2, HeadTailProperties
<1>4. Tail(s) = <<>>
  BY <1>3, EmptySeq
<1> QED  BY <1>2, <1>3, <1>4 DEF Alone

LEMMA AloneSent ==
  ASSUME NEW s \in Seq(Messages), s = <<>>, NEW m \in Messages
  PROVE  Alone(Append(s, m), m.op, m.q)
  BY DEF Alone

(* A Worker that has a Query has been sent it, and no other has been. *)
LEMMA HasItsOwn ==
  ASSUME CalmAll, NEW w \in Workers, worker[w].id_query \in Queries
  PROVE  Sent(worker[w].id_query, w)
<1> DEFINE q == worker[w].id_query
<1>1. Going(w) \/ Working(w) \/ Ending(w) \/ Leaving(w)
  BY CalmNow, NoQueryIsNone DEF CalmInv, InStages, Stage, Resting
<1>2. CASE Going(w)
  <2>1. toWorker[w] \in Seq(Messages) /\ Alone(toWorker[w], "EXECUTE", q)
    BY <1>2, CalmNow, Typed DEF Going
  <2> HIDE DEF q
  <2>2. 1 \in DOMAIN toWorker[w] /\ toWorker[w][1].q = q
    BY <2>1 DEF Alone
  <2> QED  BY <2>2 DEF Sent, OnItsWay, q
<1>3. CASE Working(w) \/ Ending(w) \/ Leaving(w)
  BY <1>3 DEF Working, Ending, Leaving, Sent
<1> QED  BY <1>1, <1>2, <1>3

LEMMA HasItAlone ==
  ASSUME CalmAll, NEW w \in Workers, NEW x \in Workers,
         worker[w].id_query \in Queries, worker[x].id_query = worker[w].id_query
  PROVE  x = w
  BY CalmNow, HasItsOwn DEF GivenOnce

(* Whoever has a Query has one that has been assigned. *)
LEMMA HasBeenGiven ==
  ASSUME CalmAll, NEW w \in Workers, NEW q \in Queries, worker[w].id_query = q
  PROVE  query[q].sp # "NONE" /\ ~In(q, ready) /\ ~Assigned(q)
  BY CalmNow, HasItsOwn DEF GivenOnce

(* A Worker that is free has nothing. *)
LEMMA FreeRests ==
  ASSUME CalmAll, NEW w \in Workers, worker[w].is_free, ~JustSent(w)
  PROVE  Resting(w)
  BY CalmNow DEF CalmInv, InStages, Stage, Going, Working, Ending, Leaving, Busy, Marking

-----------------------------------------------------------------------------
(* A step that a Worker has no part in. *)
LEMMA StageKept ==
  ASSUME NEW x \in Workers, Stage(x),
         toWorker'[x] = toWorker[x], toMaster'[x] = toMaster[x], peer'[x] = peer[x],
         conn'[x] = conn[x] \/ (Open(x) /\ Open(x)'), worker'[x] = worker[x],
         worker[x].id_query \in Queries =>
           query'[worker[x].id_query].sp = query[worker[x].id_query].sp,
         sched' = sched \/ (~JustSent(x) /\ ~JustSent(x)'),
         queries \subseteq queries'
  PROVE  Stage(x)'
<1>1. JustSent(x)' <=> JustSent(x)
  BY DEF JustSent
<1>2. /\ Silent(x) => Silent(x)'
      /\ Unoccupied(x) => Unoccupied(x)'
      /\ \A op, q : Alone(toWorker[x], op, q) => Alone(toWorker'[x], op, q)
      /\ \A op, q : Alone(toMaster[x], op, q) => Alone(toMaster'[x], op, q)
  BY DEF Silent, Unoccupied, Alone
<1>3. Resting(x) => Resting(x)'
  BY <1>1, <1>2 DEF Resting, Open
<1>4. ASSUME worker[x].id_query \in Queries
      PROVE  /\ Marking(x) => Marking(x)'
             /\ Busy(x, "EXEC") => Busy(x, "EXEC")'
             /\ Busy(x, "EXIT") => Busy(x, "EXIT")'
  <2>1. Marking(x) => Marking(x)'
    BY <1>1, <1>4 DEF Marking
  <2>2. Busy(x, "EXEC") => Busy(x, "EXEC")'
    BY <1>1, <1>4 DEF Busy
  <2>3. Busy(x, "EXIT") => Busy(x, "EXIT")'
    BY <1>1, <1>4 DEF Busy
  <2> QED  BY <2>1, <2>2, <2>3
<1>5. ASSUME worker[x].id_query \in Queries
      PROVE  /\ Going(x) => Going(x)'
             /\ Working(x) => Working(x)'
             /\ Ending(x) => Ending(x)'
             /\ Leaving(x) => Leaving(x)'
  <2>1. Going(x) => Going(x)'
    BY <1>2, <1>4, <1>5 DEF Going, Open
  <2>2. Working(x) => Working(x)'
    BY <1>2, <1>4, <1>5 DEF Working, Open
  <2>3. Ending(x) => Ending(x)'
    BY <1>2, <1>4, <1>5 DEF Ending, Open
  <2>4. Leaving(x) => Leaving(x)'
    BY <1>2, <1>4, <1>5 DEF Leaving, Open
  <2> QED  BY <2>1, <2>2, <2>3, <2>4
<1> QED  BY <1>3, <1>5 DEF Stage

(* The steps that there are. *)
LEMMA CalmSteps ==
  ASSUME CalmAll, Next
  PROVE  \/ Accept
         \/ ChooseWorker \/ PopQuery \/ (SendQuery /\ sched.pc = "assign") \/ ToExec \/ ToBusy
         \/ \E w \in Workers : TakeEnd(w) \/ EndExit(w) \/ EndFree(w)
         \/ \E w \in Workers :
              PeerTakes(w) \/ PeerSteps(w) \/ PeerEnds(w) \/ PeerEnded(w) \/ PeerStops(w)
         \/ \E q \in Queries : HangUp(q)
<1>1. Schedule =>
        ChooseWorker \/ PopQuery \/ (SendQuery /\ sched.pc = "assign") \/ ToExec \/ ToBusy
  BY CalmNow, FifoTurns
<1>2. ASSUME NEW c \in Callers PROVE ~Eviction(c)
  <2>1. evict[c].pc = "idle"
    BY CalmNow DEF CalmInv, Undisturbed
  <2> QED  BY <2>1, Zenon DEF Eviction, EvictCheck, EvictSend, EvictAnswered, EvictReads,
              EvictMove, EvictRelease
<1>3. ASSUME NEW w \in Workers
      PROVE  ~LoseWorker(w) /\ ~LoseQuery(w) /\ ~RemoveWorker(w) /\ ~TakeEvicted(w)
  <2>1. Stage(w) /\ peer[w].up
    BY CalmNow DEF CalmInv, InStages, Undisturbed
  <2>2. conn[w].pc \in {"none", "idle", "exit", "free"}
    BY <2>1 DEF Stage, Resting, Going, Working, Ending, Leaving, Open
  <2>3. ~LoseWorker(w) /\ ~LoseQuery(w) /\ ~RemoveWorker(w)
    BY <2>1, <2>2 DEF LoseWorker, LoseQuery, RemoveWorker
  <2>4. toMaster[w] = <<>> \/ Head(toMaster[w]).op = "END"
    <3>1. toMaster[w] = <<>> \/ Alone(toMaster[w], "END", worker[w].id_query)
      BY <2>1 DEF Stage, Resting, Going, Working, Ending, Leaving, Silent
    <3> QED  BY <3>1, AloneTaken, CalmNow, Typed
  <2>5. ~TakeEvicted(w)
    BY <2>4 DEF TakeEvicted, Arrives
  <2> QED  BY <2>3, <2>5
<1>4. ASSUME NEW q \in Queries PROVE ~Closed(q)
  BY CalmNow DEF CalmInv, Undisturbed, Closed, HangupExit, HangupExec
<1>5. ASSUME NEW w \in Workers PROVE ~PeerErrs(w) /\ ~PeerLeaves(w) /\ ~PeerDies(w)
  <2>1. ~(peer[w].at = "run" /\ peer[w].given)
    BY CalmNow DEF CalmInv, InStages, Stage, Resting, Going, Working, Ending, Leaving, Unoccupied
  <2>2. ~PeerLeaves(w)
    BY <2>1 DEF PeerLeaves, Runs
  <2> QED  BY <2>2, CalmNow DEF PeerErrs, PeerDies
<1> QED  BY <1>1, <1>2, <1>3, <1>4, <1>5, Zenon DEF Next, Serve, Peer, PeerGoes


LEMMA StagesAccept == CalmAll /\ Accept => InStages'
<1> SUFFICES ASSUME CalmAll PROVE Accept => InStages'
  OBVIOUS
<1>1. InStages /\ conn \in [Workers -> ConnectionAt]
  BY CalmNow, Typed DEF CalmInv
<1>2. CASE ListQuery
  <2>1. ASSUME NEW x \in Workers PROVE Stage(x)'
    BY <1>1, <1>2, StageKept DEF ListQuery, states, net, InStages
  <2> QED  BY <2>1 DEF InStages
<1>3. ASSUME NEW q \in Queries, ConnectQuery(q) PROVE InStages'
  <2>1. /\ UNCHANGED <<queries, worker, sched, conn, net>> /\ query[q].sp = "NONE"
        /\ \A p \in Queries : p # q => query'[p] = query[p]
    <3>1. \E s : query' = [query EXCEPT ![q].sp = s]
      BY <1>3, Zenon DEF ConnectQuery
    <3> QED  BY <1>3, <3>1, CalmNow, Typed DEF ConnectQuery
  <2>2. ASSUME NEW x \in Workers PROVE Stage(x)'
    <3>1. worker[x].id_query # q
      BY <2>1, HasBeenGiven
    <3> QED  BY <1>1, <2>1, <3>1, StageKept DEF InStages, net
  <2> QED  BY <2>2 DEF InStages
<1>4. ASSUME NEW w \in Workers, ConnectWorker(w) PROVE InStages'
  <2>1. /\ UNCHANGED <<query, queries, worker, sched, toWorker, toMaster, peer>>
        /\ conn[w].pc = "none" /\ conn' = [conn EXCEPT ![w].pc = "idle"]
    BY <1>4 DEF ConnectWorker, states, net
  <2>2. conn'[w].pc = "idle" /\ \A x \in Workers : x # w => conn'[x] = conn[x]
    BY <1>1, <2>1 DEF ConnectionAt
  <2>3. ASSUME NEW x \in Workers PROVE Stage(x)'
    <3>1. conn'[x] = conn[x] \/ (Open(x) /\ Open(x)')
      BY <2>1, <2>2 DEF Open
    <3> QED  BY <1>1, <2>1, <3>1, StageKept DEF InStages
  <2> QED  BY <2>3 DEF InStages
<1> QED  BY <1>2, <1>3, <1>4 DEF Accept

(* The Query that is about to be given. *)
LEMMA SendsTo ==
  ASSUME CalmAll, SendQuery, sched.pc = "assign"
  PROVE  /\ sched.w \in Workers /\ sched.q \in Queries
         /\ Resting(sched.w) /\ query[sched.q].sp = "READY"
         /\ \A x \in Workers : worker[x].id_query # sched.q
<1>1. sched.w \in Workers /\ sched.q \in Queries
  BY CalmNow, Typed DEF SchedulerHolds
<1>2. worker[sched.w].is_free /\ ~JustSent(sched.w)
  BY CalmNow DEF NoEviction, JustSent
<1>3. Resting(sched.w)
  BY <1>1, <1>2, FreeRests
<1>4. Assigned(sched.q)
  BY DEF Assigned
<1>5. \A x \in Workers : worker[x].id_query # sched.q
  BY <1>1, <1>4, HasBeenGiven
<1> QED  BY <1>1, <1>3, <1>5, CalmNow DEF CalmInv, StillReady

(* The Query that was given, until its Worker is busy. *)
LEMMA MarkingNow ==
  ASSUME CalmAll, sched.pc \in {"exec", "busy"}
  PROVE  /\ sched.w \in Workers /\ sched.q \in Queries
         /\ Marking(sched.w) /\ worker[sched.w].id_query = sched.q
         /\ Going(sched.w) \/ Working(sched.w)
         /\ \A x \in Workers : x # sched.w => worker[x].id_query # sched.q
<1>1. sched.w \in Workers /\ JustSent(sched.w)
  BY CalmNow, Typed DEF SchedulerHolds, JustSent
<1>2. Marking(sched.w) /\ (Going(sched.w) \/ Working(sched.w))
      /\ worker[sched.w].id_query \in Queries
  BY <1>1, CalmNow DEF CalmInv, InStages, Stage, Resting, Going, Working, Ending, Leaving, Busy
<1>3. worker[sched.w].id_query = sched.q
  BY <1>2 DEF Marking
<1> QED  BY <1>1, <1>2, <1>3, HasItAlone

LEMMA StagesSend == CalmAll /\ SendQuery /\ sched.pc = "assign" => InStages'
<1> SUFFICES ASSUME CalmAll, SendQuery, sched.pc = "assign" PROVE InStages'
  OBVIOUS
<1>1. InStages /\ sched \in SchedulerAt /\ worker \in [Workers -> WorkerStructs]
      /\ query \in [Queries -> QueryStructs] /\ toWorker \in [Workers -> Seq(Messages)]
  BY CalmNow, Typed DEF CalmInv
<1>2. PICK w \in Workers, q \in Queries : w = sched.w /\ q = sched.q
  BY SendsTo
<1>3. Resting(w) /\ query[q].sp = "READY" /\ peer[w].up
  BY <1>2, SendsTo, CalmNow DEF CalmInv, Undisturbed
<1> DEFINE m == Message("EXECUTE", q, query[q].pc)
<1>4. /\ worker' = [worker EXCEPT ![w].id_query = q]
      /\ toWorker' = [toWorker EXCEPT ![w] = Append(toWorker[w], m)]
      /\ sched' = [sched EXCEPT !.pc = "exec"]
      /\ UNCHANGED <<query, queries, conn, toMaster, peer>>
  BY <1>2, <1>3 DEF SendQuery, Send, states
<1>5. m \in Messages /\ m.op = "EXECUTE" /\ m.q = q
  <2>1. query[q].pc \in Nat
    BY <1>1 DEF QueryStructs
  <2> QED  BY <2>1, MessageTyped DEF Message
<1> HIDE DEF m
<1>6. /\ worker'[w].id_query = q /\ toWorker'[w] = Append(toWorker[w], m)
      /\ sched'.pc = "exec" /\ sched'.w = w /\ sched'.q = q
      /\ \A x \in Workers : x # w => worker'[x] = worker[x] /\ toWorker'[x] = toWorker[x]
  BY <1>1, <1>2, <1>4 DEF WorkerStructs, SchedulerAt
<1>7. ASSUME NEW x \in Workers, x # w PROVE Stage(x)'
  <2>1. ~JustSent(x) /\ ~JustSent(x)'
    BY <1>2, <1>6, <1>7 DEF JustSent
  <2> QED  BY <1>1, <1>4, <1>6, <1>7, <2>1, StageKept DEF InStages
<1>8. Alone(toWorker'[w], "EXECUTE", q)
  BY <1>1, <1>3, <1>5, <1>6, AloneSent DEF Resting, Silent
<1>9. Going(w)'
  <2>1. Marking(w)'
    BY <1>3, <1>4, <1>6 DEF Marking, JustSent
  <2>2. toMaster'[w] = <<>> /\ Unoccupied(w)' /\ Open(w)'
    BY <1>3, <1>4 DEF Resting, Silent, Unoccupied, Open
  <2> QED  BY <1>6, <1>8, <2>1, <2>2 DEF Going
<1> QED  BY <1>6, <1>7, <1>9 DEF InStages, Stage


LEMMA StageMarked ==
  ASSUME NEW w \in Workers, Going(w) \/ Working(w),
         toWorker' = toWorker, toMaster' = toMaster, peer' = peer, conn' = conn,
         worker'[w].id_query = worker[w].id_query,
         Marking(w)' \/ Busy(w, "EXEC")'
  PROVE  Going(w)' \/ Working(w)'
<1>1. /\ Silent(w) => Silent(w)'
      /\ Unoccupied(w) => Unoccupied(w)'
      /\ Open(w) => Open(w)'
  BY DEF Silent, Unoccupied, Open
<1>2. Going(w) => Going(w)'
  BY <1>1 DEF Going, Alone
<1>3. Working(w) => Working(w)'
  BY <1>1 DEF Working
<1> QED  BY <1>2, <1>3

(* query_to(q, STATE_EXEC) *)
LEMMA NowInExec ==
  ASSUME CalmAll, ToExec
  PROVE  /\ sched.q \in Queries /\ query[sched.q].sp = "READY" /\ Moved(sched.q, "EXEC")
         /\ query'[sched.q].sp = "EXEC"
         /\ \A p \in Queries : p # sched.q => query'[p] = query[p]
         /\ told' = told
<1>1. sched.pc = "exec" /\ QueryTo(sched.q, "EXEC") /\ "EXEC" \in States \cup {"NONE"}
  BY DEF ToExec, States
<1>2. sched.q \in Queries /\ query[sched.q].sp = "READY"
  BY <1>1, MarkingNow DEF Marking
<1>3. Moved(sched.q, "EXEC")
  BY <1>1, <1>2 DEF QueryTo, Refused
<1>4. /\ query'[sched.q].sp = "EXEC"
      /\ \A p \in Queries : p # sched.q => query'[p] = query[p]
  BY <1>1, <1>2, <1>3, CalmNow, Typed, MovedKeeps
<1>5. told' = told
  BY <1>1, <1>4 DEF QueryTo
<1> QED  BY <1>2, <1>3, <1>4, <1>5

LEMMA StagesSchedule ==
  CalmAll /\ (ChooseWorker \/ PopQuery \/ ToExec \/ ToBusy) => InStages'
<1> SUFFICES ASSUME CalmAll PROVE ChooseWorker \/ PopQuery \/ ToExec \/ ToBusy => InStages'
  OBVIOUS
<1>1. InStages /\ sched \in SchedulerAt /\ worker \in [Workers -> WorkerStructs]
  BY CalmNow, Typed DEF CalmInv
<1>2. Rested.pc = "execute"
  BY CalmNow DEF Rested, Fifo
<1>3. CASE ChooseWorker \/ PopQuery
  <2>1. /\ sched.pc \in {"execute", "pop"} /\ sched'.pc \in {"pop", "assign", "execute"}
        /\ UNCHANGED <<query, queries, worker, conn, toWorker, toMaster, peer>>
    <3>1. CASE ChooseWorker
      <4>1. sched' = [sched EXCEPT !.pc = "pop", !.w = First(Free)] /\ sched.pc = "execute"
        BY <3>1 DEF ChooseWorker, Execute
      <4> DEFINE f == First(Free)
      <4> HIDE DEF f
      <4>2. sched'.pc = "pop"
        BY <1>1, <4>1 DEF SchedulerAt, f
      <4> QED  BY <3>1, <4>1, <4>2 DEF ChooseWorker, states, net
    <3>2. CASE PopQuery
      <4>1. sched.pc = "pop" /\ (sched' = Rested \/ \E h : sched' = [sched EXCEPT !.pc = "assign", !.q = h])
        BY <3>2, Zenon DEF PopQuery
      <4>2. sched'.pc \in {"assign", "execute"}
        BY <1>1, <1>2, <4>1 DEF SchedulerAt
      <4> QED  BY <3>2, <4>1, <4>2 DEF PopQuery, states, net
    <3> QED  BY <1>3, <3>1, <3>2
  <2>2. \A x \in Workers : ~JustSent(x) /\ ~JustSent(x)'
    BY <2>1 DEF JustSent
  <2>3. ASSUME NEW x \in Workers PROVE Stage(x)'
    BY <1>1, <2>1, <2>2, StageKept DEF InStages
  <2> QED  BY <2>3 DEF InStages
<1>4. CASE ToExec
  <2>1. /\ sched.pc = "exec" /\ sched' = [sched EXCEPT !.pc = "busy"]
        /\ UNCHANGED <<queries, worker, conn, toWorker, toMaster, peer>>
    BY <1>4 DEF ToExec, net
  <2>2. sched'.pc = "busy" /\ sched'.w = sched.w /\ sched'.q = sched.q
    BY <1>1, <2>1 DEF SchedulerAt
  <2>3. /\ query'[sched.q].sp = "EXEC"
        /\ \A p \in Queries : p # sched.q => query'[p] = query[p]
    BY <1>4, NowInExec
  <2>4. /\ sched.w \in Workers /\ (Going(sched.w) \/ Working(sched.w))
        /\ worker[sched.w].id_query = sched.q /\ sched.q \in Queries
        /\ \A x \in Workers : x # sched.w => worker[x].id_query # sched.q
    BY <2>1, MarkingNow
  <2>5. ASSUME NEW x \in Workers, x # sched.w PROVE Stage(x)'
    <3>1. ~JustSent(x) /\ ~JustSent(x)'
      BY <2>2, <2>5 DEF JustSent
    <3>2. worker[x].id_query \in Queries =>
            query'[worker[x].id_query].sp = query[worker[x].id_query].sp
      BY <2>3, <2>4, <2>5
    <3> QED  BY <1>1, <2>1, <3>1, <3>2, StageKept DEF InStages
  <2>6. PICK w \in Workers : w = sched.w
    BY <2>4
  <2>7. Marking(w)'
    BY <2>1, <2>2, <2>3, <2>4, <2>6 DEF Marking, JustSent
  <2>8. Going(w)' \/ Working(w)'
    BY <2>1, <2>4, <2>6, <2>7, StageMarked
  <2>9. worker'[w].id_query \in Queries
    BY <2>1, <2>4, <2>6
  <2> QED  BY <2>5, <2>6, <2>8, <2>9 DEF InStages, Stage
<1>5. CASE ToBusy
  <2>1. /\ sched.pc = "busy" /\ sched' = Rested /\ worker' = [worker EXCEPT ![sched.w].is_free = FALSE]
        /\ UNCHANGED <<query, queries, conn, toWorker, toMaster, peer>>
    BY <1>5 DEF ToBusy, states, net
  <2>2. /\ sched.w \in Workers /\ (Going(sched.w) \/ Working(sched.w)) /\ Marking(sched.w)
        /\ worker[sched.w].id_query = sched.q /\ sched.q \in Queries
    BY <2>1, MarkingNow
  <2>3. PICK w \in Workers : w = sched.w
    BY <2>2
  <2>4. /\ worker'[w].id_query = worker[w].id_query /\ ~worker'[w].is_free
        /\ \A x \in Workers : x # w => worker'[x] = worker[x]
    BY <1>1, <2>1, <2>3 DEF WorkerStructs
  <2>5. \A x \in Workers : ~JustSent(x)'
    BY <1>2, <2>1 DEF JustSent
  <2>6. ASSUME NEW x \in Workers, x # w PROVE Stage(x)'
    <3>1. ~JustSent(x)
      BY <2>3, <2>6 DEF JustSent
    <3> QED  BY <1>1, <2>1, <2>4, <2>5, <2>6, <3>1, StageKept DEF InStages
  <2>7. query[sched.q].sp = "EXEC"
    BY <2>1, <2>2 DEF Marking
  <2>8. Busy(w, "EXEC")'
    BY <2>1, <2>2, <2>3, <2>4, <2>5, <2>7 DEF Busy
  <2>9. Going(w)' \/ Working(w)'
    BY <2>1, <2>2, <2>3, <2>4, <2>8, StageMarked
  <2> QED  BY <2>2, <2>3, <2>4, <2>6, <2>9 DEF InStages, Stage
<1> QED  BY <1>3, <1>4, <1>5

-----------------------------------------------------------------------------
(* A Worker's answer is handled. *)

LEMMA EndTaken ==
  ASSUME CalmAll, NEW w \in Workers, TakeEnd(w)
  PROVE  /\ Ending(w) /\ worker[w].id_query \in Queries
         /\ told' = told \cup {worker[w].id_query}
         /\ conn' = [conn EXCEPT ![w].pc = "exit", ![w].q = worker[w].id_query,
                                 ![w].i = Index(w)]
         /\ toMaster' = [toMaster EXCEPT ![w] = <<>>]
         /\ UNCHANGED <<query, queries, ready, lists, worker, workers, sched, evict, hangup,
                        toWorker, peer, acceptor>>
<1> DEFINE q == Head(toMaster[w]).q
<1>1. /\ toMaster[w] \in Seq(Messages) /\ toMaster[w] # <<>> /\ conn[w].pc = "idle"
      /\ toMaster \in [Workers -> Seq(Messages)]
  BY CalmNow, Typed DEF TakeEnd, Arrives
<1>2. Ending(w) /\ worker[w].id_query \in Queries
  BY <1>1, CalmNow DEF CalmInv, InStages, Stage, Resting, Going, Working, Leaving, Silent
<1>3. Alone(toMaster[w], "END", worker[w].id_query)
  BY <1>2 DEF Ending
<1>4. q = worker[w].id_query /\ Tail(toMaster[w]) = <<>>
  BY <1>1, <1>3, AloneTaken
<1>5. Known(q)
  BY <1>2, <1>4 DEF Known, Ending
<1>6. /\ told' = told \cup {q}
      /\ conn' = [conn EXCEPT ![w].pc = "exit", ![w].q = q, ![w].i = Index(w)]
      /\ toMaster' = [toMaster EXCEPT ![w] = Tail(@)]
      /\ UNCHANGED <<query, queries, ready, lists, worker, workers, sched, evict, hangup,
                     toWorker, peer, acceptor>>
  BY <1>5, Zenon DEF TakeEnd, Taken
<1> HIDE DEF q
<1>7. toMaster' = [toMaster EXCEPT ![w] = <<>>]
  BY <1>1, <1>4, <1>6
<1> QED  BY <1>2, <1>4, <1>6, <1>7

LEMMA EndMoved ==
  ASSUME CalmAll, NEW w \in Workers, EndExit(w)
  PROVE  /\ Leaving(w) /\ Busy(w, "EXEC") /\ worker[w].id_query \in Queries
         /\ conn[w].q = worker[w].id_query /\ Moved(conn[w].q, "EXIT")
         /\ query'[conn[w].q].sp = "EXIT"
         /\ \A p \in Queries : p # conn[w].q => query'[p] = query[p]
         /\ conn' = [conn EXCEPT ![w].pc = "free"]
         /\ UNCHANGED <<queries, told, worker, sched, evict, hangup, net, acceptor>>
<1>1. conn[w].pc = "exit" /\ Moved(conn[w].q, "EXIT") /\ "EXIT" \in States \cup {"NONE"}
      /\ conn' = [conn EXCEPT ![w].pc = "free"]
      /\ UNCHANGED <<queries, told, worker, sched, evict, hangup, net, acceptor>>
  BY DEF EndExit, States
<1>2. Leaving(w) /\ worker[w].id_query \in Queries
  BY <1>1, CalmNow DEF CalmInv, InStages, Stage, Resting, Going, Working, Ending, Open
<1>3. Busy(w, "EXEC") /\ conn[w].q = worker[w].id_query
  BY <1>1, <1>2 DEF Leaving
<1>4. /\ query'[conn[w].q].sp = "EXIT"
      /\ \A p \in Queries : p # conn[w].q => query'[p] = query[p]
  BY <1>1, <1>2, <1>3, CalmNow, Typed, MovedKeeps
<1> QED  BY <1>1, <1>2, <1>3, <1>4

LEMMA EndFreed ==
  ASSUME CalmAll, NEW w \in Workers, EndFree(w)
  PROVE  /\ Leaving(w) /\ Busy(w, "EXIT") /\ worker[w].id_query \in Queries
         /\ worker'[w].id_query = NoQuery /\ worker'[w].is_free
         /\ \A x \in Workers : x # w => worker'[x] = worker[x]
         /\ conn' = [conn EXCEPT ![w].pc = "idle", ![w].q = NoQuery, ![w].i = 0]
         /\ UNCHANGED <<query, ready, lists, queries, told, workers, sched, evict, hangup, net,
                        acceptor>>
<1>5. conn[w].pc = "free" => conn[w].i # 0
  BY CalmNow DEF CalmInv, Found
<1>1. conn[w].pc = "free" /\ Freed(w)
      /\ conn' = [conn EXCEPT ![w].pc = "idle", ![w].q = NoQuery, ![w].i = 0]
      /\ UNCHANGED <<query, ready, lists, queries, told, workers, sched, evict, hangup, net,
                     acceptor>>
  BY <1>5 DEF EndFree, states
<1>2. Leaving(w) /\ worker[w].id_query \in Queries
  BY <1>1, CalmNow DEF CalmInv, InStages, Stage, Resting, Going, Working, Ending, Open
<1>3. Busy(w, "EXIT")
  BY <1>1, <1>2 DEF Leaving
<1>4. /\ worker'[w].id_query = NoQuery /\ worker'[w].is_free
      /\ \A x \in Workers : x # w => worker'[x] = worker[x]
  BY <1>1, CalmNow, Typed DEF Freed, WorkerStructs
<1> QED  BY <1>1, <1>2, <1>3, <1>4

LEMMA StagesServe ==
  ASSUME CalmAll, NEW w \in Workers, TakeEnd(w) \/ EndExit(w) \/ EndFree(w)
  PROVE  InStages'
<1>1. /\ InStages /\ conn \in [Workers -> ConnectionAt]
      /\ toMaster \in [Workers -> Seq(Messages)]
  BY CalmNow, Typed DEF CalmInv
<1>2. CASE TakeEnd(w)
  <2>1. PICK q \in Queries : q = worker[w].id_query
    BY <1>2, EndTaken
  <2>2. /\ Ending(w) /\ UNCHANGED <<query, queries, worker, sched, toWorker, peer>>
        /\ conn' = [conn EXCEPT ![w].pc = "exit", ![w].q = q, ![w].i = Index(w)]
        /\ toMaster' = [toMaster EXCEPT ![w] = <<>>]
    BY <1>2, <2>1, EndTaken
  <2>3. /\ conn'[w].pc = "exit" /\ conn'[w].q = q /\ toMaster'[w] = <<>>
        /\ \A x \in Workers : x # w => conn'[x] = conn[x] /\ toMaster'[x] = toMaster[x]
    BY <1>1, <2>2 DEF ConnectionAt
  <2>4. ASSUME NEW x \in Workers, x # w PROVE Stage(x)'
    BY <1>1, <2>2, <2>3, <2>4, StageKept DEF InStages
  <2>5. Busy(w, "EXEC")'
    BY <2>2 DEF Ending, Busy, JustSent
  <2>6. Leaving(w)'
    BY <2>1, <2>2, <2>3, <2>5 DEF Ending, Leaving, Silent, Unoccupied
  <2> QED  BY <2>1, <2>2, <2>4, <2>6 DEF InStages, Stage
<1>3. CASE EndExit(w)
  <2>1. PICK q \in Queries : q = worker[w].id_query
    BY <1>3, EndMoved
  <2>2. /\ Leaving(w) /\ Busy(w, "EXEC")
        /\ UNCHANGED <<queries, worker, sched, toWorker, toMaster, peer>>
        /\ query'[q].sp = "EXIT" /\ \A p \in Queries : p # q => query'[p] = query[p]
        /\ conn' = [conn EXCEPT ![w].pc = "free"] /\ conn[w].q = q
    BY <1>3, <2>1, EndMoved DEF net
  <2>3. /\ conn'[w].pc = "free" /\ conn'[w].q = q
        /\ \A x \in Workers : x # w => conn'[x] = conn[x]
    BY <1>1, <2>2 DEF ConnectionAt
  <2>4. ASSUME NEW x \in Workers, x # w PROVE Stage(x)'
    <3>1. worker[x].id_query # q
      BY <2>1, <2>4, HasItAlone
    <3>2. worker[x].id_query \in Queries =>
            query'[worker[x].id_query].sp = query[worker[x].id_query].sp
      BY <2>2, <3>1
    <3> QED  BY <1>1, <2>2, <2>3, <2>4, <3>2, StageKept DEF InStages
  <2>5. Busy(w, "EXIT")'
    BY <2>1, <2>2 DEF Busy, JustSent
  <2>6. Leaving(w)'
    BY <2>1, <2>2, <2>3, <2>5 DEF Leaving, Silent, Unoccupied
  <2> QED  BY <2>1, <2>2, <2>4, <2>6 DEF InStages, Stage
<1>4. CASE EndFree(w)
  <2>1. /\ Leaving(w) /\ Busy(w, "EXIT")
        /\ UNCHANGED <<query, queries, sched, toWorker, toMaster, peer>>
        /\ conn' = [conn EXCEPT ![w].pc = "idle", ![w].q = NoQuery, ![w].i = 0]
        /\ worker'[w].id_query = NoQuery /\ worker'[w].is_free
        /\ \A x \in Workers : x # w => worker'[x] = worker[x]
    BY <1>4, EndFreed DEF net
  <2>2. conn'[w].pc = "idle" /\ \A x \in Workers : x # w => conn'[x] = conn[x]
    BY <1>1, <2>1 DEF ConnectionAt
  <2>3. ASSUME NEW x \in Workers, x # w PROVE Stage(x)'
    BY <1>1, <2>1, <2>2, <2>3, StageKept DEF InStages
  <2>4. Resting(w)'
    BY <2>1, <2>2 DEF Leaving, Busy, JustSent, Resting, Silent, Unoccupied, Open
  <2> QED  BY <2>3, <2>4 DEF InStages, Stage
<1> QED  BY <1>2, <1>3, <1>4


-----------------------------------------------------------------------------
(* A Worker goes on. *)

LEMMA StagesShifted ==
  ASSUME CalmAll, NEW w \in Workers, NEW p,
         peer' = [peer EXCEPT ![w] = p], p.q = peer[w].q,
         Unoccupied(w) => p.at # "run" /\ ~p.given,
         (peer[w].at = "run" <=> ~peer[w].given) => (p.at = "run" <=> ~p.given),
         UNCHANGED <<query, queries, worker, sched, conn, toWorker, toMaster>>
  PROVE  InStages'
<1>1. InStages /\ peer \in [Workers -> Peers]
  BY CalmNow, Typed DEF CalmInv
<1>2. peer'[w] = p /\ \A x \in Workers : x # w => peer'[x] = peer[x]
  BY <1>1
<1>3. ASSUME NEW x \in Workers, x # w PROVE Stage(x)'
  BY <1>1, <1>2, <1>3, StageKept DEF InStages
<1>4. /\ Unoccupied(w) => Unoccupied(w)'
      /\ Silent(w) => Silent(w)'
      /\ Open(w) => Open(w)'
      /\ Marking(w) => Marking(w)'
      /\ JustSent(w)' <=> JustSent(w)
  BY <1>2 DEF Unoccupied, Silent, Open, Marking, JustSent
<1>5. /\ Busy(w, "EXEC") => Busy(w, "EXEC")'
      /\ Busy(w, "EXIT") => Busy(w, "EXIT")'
  BY DEF Busy, JustSent
<1>6. Resting(w) => Resting(w)'
  BY <1>4 DEF Resting
<1>7. Going(w) => Going(w)'
  BY <1>4, <1>5 DEF Going, Alone
<1>8. Working(w) => Working(w)'
  BY <1>2, <1>4, <1>5 DEF Working
<1>9. Ending(w) => Ending(w)'
  BY <1>2, <1>4, <1>5 DEF Ending, Alone
<1>10. Leaving(w) => Leaving(w)'
  BY <1>2, <1>4, <1>5 DEF Leaving
<1>11. Stage(w)'
  BY <1>1, <1>6, <1>7, <1>8, <1>9, <1>10 DEF InStages, Stage
<1> QED  BY <1>3, <1>11 DEF InStages

(* The threads of the Master wait while a Worker answers. *)
LEMMA RestNow ==
  ASSUME CalmAll, Reacts
  PROVE  /\ acceptor = NoQuery /\ sched.pc = "execute"
         /\ \A w \in Workers : conn[w].pc \in {"none", "idle", "gone"}
         /\ \A w \in Workers : ~JustSent(w)
<1>1. AtRest /\ Scheduler \in Callers
  BY CalmNow DEF Reacts, Callers
<1>2. evict[Scheduler].pc = "idle"
  BY <1>1, CalmNow DEF CalmInv, Undisturbed
<1> QED  BY <1>1, <1>2 DEF AtRest, JustSent

(* What each step of a Worker does to it, where nothing is evicted. *)
LEMMA PeerCalm ==
  ASSUME CalmAll, NEW w \in Workers,
         PeerTakes(w) \/ PeerSteps(w) \/ PeerEnds(w) \/ PeerEnded(w) \/ PeerStops(w)
  PROVE  /\ UNCHANGED Master
         /\ \/ /\ Going(w) /\ toMaster' = toMaster
               /\ toWorker' = [toWorker EXCEPT ![w] = <<>>]
               /\ peer'[w].q = worker[w].id_query
               /\ peer'[w].at = "run" <=> ~peer'[w].given
            \/ /\ Working(w) /\ peer[w].at = "run" /\ ~peer[w].given /\ Reacts
               /\ toWorker' = toWorker
               /\ toMaster' = [toMaster EXCEPT ![w] = Append(@, Message("END", peer[w].q, 0))]
               /\ peer'[w].q = peer[w].q /\ peer'[w].at = "ended" /\ ~peer'[w].given
            \/ \E p : /\ peer' = [peer EXCEPT ![w] = p] /\ p.q = peer[w].q
                      /\ Unoccupied(w) => p.at # "run" /\ ~p.given
                      /\ (peer[w].at = "run" <=> ~peer[w].given) => (p.at = "run" <=> ~p.given)
                      /\ UNCHANGED <<toWorker, toMaster>>
         /\ \A x \in Workers : x # w => peer'[x] = peer[x]
         /\ peer'[w].up /\ ~peer'[w].desalojado
<1>1. /\ peer \in [Workers -> Peers] /\ peer[w] \in Peers /\ peer[w].up /\ ~peer[w].desalojado
      /\ toWorker \in [Workers -> Seq(Messages)] /\ toMaster \in [Workers -> Seq(Messages)]
      /\ Stage(w)
  BY CalmNow, Typed DEF CalmInv, Undisturbed, InStages
<1>2. UNCHANGED Master
  BY PeerFrame DEF Peer, PeerGoes
<1>3. ASSUME NEW pc, NEW at, NEW given, Interrupted(w, pc, at, given),
             Unoccupied(w) => at # "run" /\ ~given,
             (peer[w].at = "run" <=> ~peer[w].given) => (at = "run" <=> ~given)
      PROVE  /\ \E p : /\ peer' = [peer EXCEPT ![w] = p] /\ p.q = peer[w].q
                       /\ Unoccupied(w) => p.at # "run" /\ ~p.given
                       /\ (peer[w].at = "run" <=> ~peer[w].given) => (p.at = "run" <=> ~p.given)
                       /\ UNCHANGED <<toWorker, toMaster>>
             /\ \A x \in Workers : x # w => peer'[x] = peer[x]
             /\ peer'[w].up /\ ~peer'[w].desalojado
  <2> DEFINE p == [peer[w] EXCEPT !.pc = pc, !.at = at, !.given = given, !.desalojado = FALSE]
  <2>1. /\ p.q = peer[w].q /\ p.at = at /\ p.given = given /\ p.up = peer[w].up
        /\ p.desalojado = FALSE
    BY <1>1 DEF Peers
  <2>2. UNCHANGED <<toWorker, toMaster>> /\ peer' = [peer EXCEPT ![w] = p]
    BY <1>1, <1>3 DEF Interrupted, Becomes
  <2> HIDE DEF p
  <2>3. peer'[w] = p /\ \A x \in Workers : x # w => peer'[x] = peer[x]
    BY <1>1, <2>2
  <2> QED  BY <1>1, <1>3, <2>1, <2>2, <2>3
<1>4. CASE PeerTakes(w)
  <2> DEFINE m == Head(toWorker[w])
             p == peer[w]
             b == CASE m.op = "EVICT" -> [p EXCEPT !.desalojado = TRUE]
                    [] p.at = "idle" -> [p EXCEPT !.q = m.q, !.pc = m.pc, !.at = "run"]
                    [] OTHER -> [p EXCEPT !.q = m.q, !.pc = m.pc, !.given = TRUE]
  <2>1. /\ toWorker[w] # <<>> /\ peer' = [peer EXCEPT ![w] = b] /\ toMaster' = toMaster
        /\ toWorker' = [toWorker EXCEPT ![w] = Tail(@)]
    BY <1>4, Zenon DEF PeerTakes, Becomes
  <2>2. Going(w)
    BY <1>1, <2>1 DEF Stage, Resting, Working, Ending, Leaving, Silent
  <2>3. m.op = "EXECUTE" /\ m.q = worker[w].id_query /\ Tail(toWorker[w]) = <<>>
    BY <1>1, <2>2, AloneTaken DEF Going
  <2>4. peer[w].at # "run" /\ ~peer[w].given
    BY <2>2 DEF Going, Unoccupied
  <2>5. /\ b.q = m.q /\ b.up /\ ~b.desalojado
        /\ b.at = "run" <=> ~b.given
    <3>1. \/ p.at = "idle" /\ b = [p EXCEPT !.q = m.q, !.pc = m.pc, !.at = "run"]
          \/ b = [p EXCEPT !.q = m.q, !.pc = m.pc, !.given = TRUE]
      BY <2>3
    <3> HIDE DEF b, m
    <3>2. CASE b = [p EXCEPT !.q = m.q, !.pc = m.pc, !.at = "run"]
      BY <1>1, <2>4, <3>2 DEF Peers
    <3>3. CASE b = [p EXCEPT !.q = m.q, !.pc = m.pc, !.given = TRUE]
      BY <1>1, <2>4, <3>3 DEF Peers
    <3> QED  BY <3>1, <3>2, <3>3
  <2> HIDE DEF b, m
  <2>6. peer'[w] = b /\ \A x \in Workers : x # w => peer'[x] = peer[x]
    BY <1>1, <2>1
  <2>7. toWorker' = [toWorker EXCEPT ![w] = <<>>]
    BY <1>1, <2>1, <2>3
  <2> QED  BY <1>2, <2>1, <2>2, <2>3, <2>5, <2>6, <2>7
<1>5. CASE PeerEnds(w)
  <2> DEFINE p == [peer[w] EXCEPT !.at = "ended"]
  <2>1. /\ peer[w].at = "run" /\ ~peer[w].given /\ Reacts /\ toWorker' = toWorker
        /\ toMaster' = [toMaster EXCEPT ![w] = Append(@, Message("END", peer[w].q, 0))]
        /\ peer' = [peer EXCEPT ![w] = p]
    BY <1>5 DEF PeerEnds, Runs, Answer, Becomes
  <2>2. Working(w)
    BY <1>1, <2>1 DEF Stage, Resting, Going, Ending, Leaving, Unoccupied
  <2>3. p.q = peer[w].q /\ p.at = "ended" /\ p.given = peer[w].given
        /\ p.up = peer[w].up /\ p.desalojado = peer[w].desalojado
    BY <1>1 DEF Peers
  <2> HIDE DEF p
  <2>4. peer'[w] = p /\ \A x \in Workers : x # w => peer'[x] = peer[x]
    BY <1>1, <2>1
  <2> QED  BY <1>1, <1>2, <2>1, <2>2, <2>3, <2>4
<1>6. CASE PeerSteps(w)
  <2>1. peer[w].at = "run" /\ Interrupted(w, peer[w].pc + 1, "run", FALSE)
    BY <1>1, <1>6 DEF PeerSteps, Runs
  <2>2. ~Unoccupied(w)
    BY <2>1 DEF Unoccupied
  <2> QED  BY <1>2, <1>3, <2>1, <2>2
<1>7. CASE PeerEnded(w)
  <2>1. peer[w].at = "ended" /\ Interrupted(w, peer[w].pc + 1, "out", peer[w].given)
    BY <1>7 DEF PeerEnded, Runs
  <2>2. Unoccupied(w) => ~peer[w].given
    BY DEF Unoccupied
  <2> QED  BY <1>2, <1>3, <2>1, <2>2
<1>8. CASE PeerStops(w)
  <2>1. peer[w].at = "out" /\
        Interrupted(w, peer[w].pc, IF peer[w].given THEN "run" ELSE "idle", FALSE)
    BY <1>8 DEF PeerStops, Runs
  <2>2. CASE peer[w].given
    <3>1. Interrupted(w, peer[w].pc, "run", FALSE) /\ ~Unoccupied(w)
      BY <2>1, <2>2 DEF Unoccupied
    <3> QED  BY <1>2, <1>3, <3>1
  <2>3. CASE ~peer[w].given
    <3>1. Interrupted(w, peer[w].pc, "idle", FALSE)
      BY <2>1, <2>3
    <3> QED  BY <1>2, <1>3, <2>1, <2>3, <3>1
  <2> QED  BY <2>2, <2>3
<1> QED  BY <1>4, <1>5, <1>6, <1>7, <1>8

LEMMA StagesPeer ==
  ASSUME CalmAll, NEW w \in Workers,
         PeerTakes(w) \/ PeerSteps(w) \/ PeerEnds(w) \/ PeerEnded(w) \/ PeerStops(w)
  PROVE  InStages'
<1>1. /\ InStages /\ toMaster \in [Workers -> Seq(Messages)]
      /\ toWorker \in [Workers -> Seq(Messages)]
  BY CalmNow, Typed DEF CalmInv
<1>2. /\ UNCHANGED <<query, queries, worker, sched, conn>>
      /\ \A x \in Workers : x # w => peer'[x] = peer[x]
  BY PeerCalm DEF Master, states
<1>3. CASE /\ Going(w) /\ toMaster' = toMaster
           /\ toWorker' = [toWorker EXCEPT ![w] = <<>>]
           /\ peer'[w].q = worker[w].id_query
           /\ peer'[w].at = "run" <=> ~peer'[w].given
  <2>1. toWorker'[w] = <<>> /\ \A x \in Workers : x # w => toWorker'[x] = toWorker[x]
    BY <1>1, <1>3
  <2>2. ASSUME NEW x \in Workers, x # w PROVE Stage(x)'
    BY <1>1, <1>2, <1>3, <2>1, <2>2, StageKept DEF InStages
  <2>3. Marking(w)' \/ Busy(w, "EXEC")'
    BY <1>2, <1>3 DEF Going, Marking, Busy, JustSent
  <2>4. Working(w)'
    BY <1>2, <1>3, <2>1, <2>3 DEF Going, Working, Silent, Open
  <2>5. worker[w].id_query \in Queries
    <3>1. toWorker[w] # <<>>
      BY <1>1, <1>3, AloneTaken DEF Going
    <3> QED  BY <1>1, <3>1 DEF InStages, Stage, Resting, Silent
  <2> QED  BY <1>2, <2>2, <2>4, <2>5 DEF InStages, Stage
<1>4. CASE /\ Working(w) /\ peer[w].at = "run" /\ ~peer[w].given /\ Reacts
           /\ toWorker' = toWorker
           /\ toMaster' = [toMaster EXCEPT ![w] = Append(@, Message("END", peer[w].q, 0))]
           /\ peer'[w].q = peer[w].q /\ peer'[w].at = "ended" /\ ~peer'[w].given
  <2> DEFINE m == Message("END", peer[w].q, 0)
  <2>1. PICK q \in Queries : q = worker[w].id_query
    BY <1>1, <1>4 DEF InStages, Stage, Resting, Unoccupied
  <2>2. m \in Messages /\ m.op = "END" /\ m.q = q
    <3>1. peer[w].q = q /\ 0 \in Nat
      BY <1>4, <2>1 DEF Working
    <3> QED  BY <3>1, MessageTyped DEF Message
  <2>3. toMaster' = [toMaster EXCEPT ![w] = Append(@, m)]
    BY <1>4
  <2> HIDE DEF m
  <2>4. toMaster'[w] = Append(toMaster[w], m)
        /\ \A x \in Workers : x # w => toMaster'[x] = toMaster[x]
    BY <1>1, <2>3
  <2>5. Alone(toMaster'[w], "END", q)
    <3>1. toMaster[w] \in Seq(Messages) /\ toMaster[w] = <<>>
      BY <1>1, <1>4 DEF Working, Silent
    <3>2. Alone(Append(toMaster[w], m), m.op, m.q)
      BY <2>2, <3>1, AloneSent
    <3> QED  BY <2>2, <2>4, <3>2
  <2>6. ASSUME NEW x \in Workers, x # w PROVE Stage(x)'
    BY <1>1, <1>2, <1>4, <2>4, <2>6, StageKept DEF InStages
  <2>7. Busy(w, "EXEC") /\ acceptor = NoQuery
    BY <1>4, RestNow DEF Working, Marking
  <2>8. q \in queries
    <3>1. query[q].sp # "NONE"
      BY <2>1, <2>7 DEF Busy
    <3> QED  BY <2>7, <3>1, CalmNow, NoQueryIsNone DEF CalmInv, ListedSoon, Known
  <2>9. Busy(w, "EXEC")'
    BY <1>2, <2>7 DEF Busy, JustSent
  <2>10. Ending(w)'
    BY <1>2, <1>4, <2>1, <2>5, <2>8, <2>9 DEF Ending, Working, Silent, Unoccupied, Open
  <2> QED  BY <1>2, <2>1, <2>6, <2>10 DEF InStages, Stage
<1>5. ASSUME NEW p, peer' = [peer EXCEPT ![w] = p], p.q = peer[w].q,
             Unoccupied(w) => p.at # "run" /\ ~p.given,
             (peer[w].at = "run" <=> ~peer[w].given) => (p.at = "run" <=> ~p.given),
             UNCHANGED <<toWorker, toMaster>>
      PROVE  InStages'
  BY <1>2, <1>5, StagesShifted
<1> QED  BY <1>3, <1>4, <1>5, PeerCalm


-----------------------------------------------------------------------------
(* What the steps change *)

LEMMA Connected ==
  ASSUME CalmAll, NEW q \in Queries, ConnectQuery(q)
  PROVE  /\ query[q].sp = "NONE" /\ acceptor = NoQuery /\ acceptor' = q
         /\ query'[q].sp = "READY" /\ \A p \in Queries : p # q => query'[p] = query[p]
         /\ ready' = Append(ready, q)
         /\ UNCHANGED <<lists, told, queries, worker, sched, conn, hangup, evict, net>>
<1>1. PICK s \in FreshStates :
        LET to == IF s = "EXIT" THEN "EXIT" ELSE "READY" IN
        /\ query' = [query EXCEPT ![q].sp = to]
        /\ ready' = IF to = "READY" THEN Append(ready, q) ELSE ready
        /\ told' = IF to = "EXIT" THEN told \cup {q} ELSE told
  BY Zenon DEF ConnectQuery
<1>2. s # "EXIT"
  BY DEF CalmAll, CalmSetups
<1>3. query' = [query EXCEPT ![q].sp = "READY"] /\ ready' = Append(ready, q) /\ told' = told
  BY <1>1, <1>2
<1>4. query'[q].sp = "READY" /\ \A p \in Queries : p # q => query'[p] = query[p]
  BY <1>3, CalmNow, Typed DEF QueryStructs
<1> QED  BY <1>3, <1>4 DEF ConnectQuery

LEMMA Popped ==
  ASSUME CalmAll, PopQuery
  PROVE  /\ sched.pc = "pop"
         /\ UNCHANGED <<query, queries, lists, told, worker, acceptor, conn, hangup, evict, net>>
         /\ \/ sched'.pc = "execute" /\ ready' = ready
            \/ /\ ready # <<>> /\ ready' = Tail(ready)
               /\ sched'.pc = "assign" /\ sched'.q = Head(ready)
<1>1. /\ sched.pc = "pop"
      /\ UNCHANGED <<query, queries, lists, told, worker, acceptor, conn, hangup, evict, net>>
  BY DEF PopQuery
<1>2. CASE ready = <<>>
  <2>1. sched' = Rested /\ ready' = ready
    BY <1>2 DEF PopQuery
  <2>2. Rested.pc = "execute"
    BY CalmNow DEF Rested, Fifo
  <2> QED  BY <1>1, <2>1, <2>2
<1>3. CASE ready # <<>>
  <2>1. ready' = Tail(ready) /\ sched' = [sched EXCEPT !.pc = "assign", !.q = Head(ready)]
    BY <1>3, CalmNow, Zenon DEF PopQuery, Fifo
  <2>2. sched'.pc = "assign" /\ sched'.q = Head(ready)
    BY <2>1, CalmNow, Typed DEF SchedulerAt
  <2> QED  BY <1>1, <1>3, <2>1, <2>2
<1> QED  BY <1>2, <1>3

(* The turns of the scheduler that change nothing but itself and a Worker. *)
LEMMA Turned ==
  ASSUME CalmAll, ChooseWorker \/ (SendQuery /\ sched.pc = "assign") \/ ToExec \/ ToBusy
  PROVE  /\ ToExec \/ UNCHANGED <<query, ready, lists, told>>
         /\ UNCHANGED <<queries, acceptor, conn, hangup, evict, peer>>
         /\ sched'.pc # "assign"
         /\ sched.pc = "assign" <=> (SendQuery /\ sched.pc = "assign")
<1>1. sched \in SchedulerAt
  BY CalmNow, Typed
<1>2. CASE ChooseWorker
  <2>1. sched' = [sched EXCEPT !.pc = "pop", !.w = First(Free)] /\ sched.pc = "execute"
    BY <1>2 DEF ChooseWorker, Execute
  <2> DEFINE f == First(Free)
  <2> HIDE DEF f
  <2>2. sched'.pc = "pop"
    BY <1>1, <2>1 DEF SchedulerAt, f
  <2> QED  BY <1>2, <2>1, <2>2 DEF ChooseWorker, states, net
<1>3. CASE SendQuery /\ sched.pc = "assign"
  <2>1. sched'.pc = "exec"
    BY <1>1, <1>3 DEF SendQuery, SchedulerAt
  <2> QED  BY <1>3, <2>1 DEF SendQuery, states
<1>4. CASE ToExec
  <2>1. sched'.pc = "busy" /\ sched.pc = "exec"
    BY <1>1, <1>4 DEF ToExec, SchedulerAt
  <2> QED  BY <1>4, <2>1 DEF ToExec, net
<1>5. CASE ToBusy
  <2>1. Rested.pc = "execute"
    BY CalmNow DEF Rested, Fifo
  <2> QED  BY <1>5, <2>1 DEF ToBusy, states, net
<1> QED  BY <1>2, <1>3, <1>4, <1>5

(* A Query Control that was told closes when its Query is over. *)
LEMMA HungUp ==
  ASSUME CalmAll, NEW q \in Queries, HangUp(q)
  PROVE  /\ \A p \in Queries : hangup'[p] = hangup[p] \/ hangup'[p] = "gone"
         /\ UNCHANGED <<query, ready, lists, told, queries, worker, acceptor, sched, conn, evict,
                        net>>
<1>1. /\ Reacts /\ q \in told
      /\ hangup' = [hangup EXCEPT ![q] = CASE query[q].sp = "READY" -> "exit"
                                           [] query[q].sp = "EXEC" -> "exec"
                                           [] OTHER -> "gone"]
      /\ UNCHANGED <<query, ready, lists, told, queries, worker, acceptor, sched, conn, evict,
                     net>>
  BY CalmNow DEF HangUp, states
<1>2. query[q].sp = "EXIT"
  BY <1>1, RestNow, CalmNow DEF CalmInv, ToldEnds
<1>3. hangup' = [hangup EXCEPT ![q] = "gone"]
  BY <1>1, <1>2
<1> QED  BY <1>1, <1>3, CalmNow, Typed

-----------------------------------------------------------------------------
LEMMA CalmUndisturbed == CalmAll /\ Next => Undisturbed'
<1> SUFFICES ASSUME CalmAll, Next PROVE Undisturbed'
  OBVIOUS
<1>1. Undisturbed
  BY CalmNow DEF CalmInv
<1>2. CASE UNCHANGED <<evict, hangup, peer>>
  BY <1>1, <1>2 DEF Undisturbed
<1>3. ASSUME NEW w \in Workers,
             PeerTakes(w) \/ PeerSteps(w) \/ PeerEnds(w) \/ PeerEnded(w) \/ PeerStops(w)
      PROVE  Undisturbed'
  BY <1>1, <1>3, PeerCalm DEF Undisturbed, Master
<1>4. ASSUME NEW q \in Queries, HangUp(q) PROVE Undisturbed'
  BY <1>1, <1>4, HungUp DEF Undisturbed, net
<1>5. \A w \in Workers : TakeEnd(w) \/ EndExit(w) \/ EndFree(w) => UNCHANGED <<evict, hangup, peer>>
  BY EndTaken, EndMoved, EndFreed DEF net
<1>6. Accept => UNCHANGED <<evict, hangup, peer>>
  BY AcceptFrame DEF net
<1>7. PopQuery => UNCHANGED <<evict, hangup, peer>>
  BY Popped DEF net
<1>8. ChooseWorker \/ (SendQuery /\ sched.pc = "assign") \/ ToExec \/ ToBusy
        => UNCHANGED <<evict, hangup, peer>>
  BY Turned
<1> QED  BY <1>2, <1>3, <1>4, <1>5, <1>6, <1>7, <1>8, CalmSteps

(* _query_to keeps dict_state and the Queries in step. *)
LEMMA ListsMoved ==
  ASSUME query \in [Queries -> QueryStructs], ready \in Seq(Queries), NoDups(ready),
         lists \in [{"EXEC", "EXIT"} -> SUBSET Queries], StateLists,
         NEW q \in Queries, NEW to \in {"EXEC", "EXIT"}, Moved(q, to)
  PROVE  StateLists'
<1>1. /\ query'[q].sp = to
      /\ \A p \in Queries : p # q => query'[p] = query[p]
      /\ \A p : p # q => (In(p, ready') <=> In(p, ready))
      /\ In(q, ready') => In(q, ready) /\ query[q].sp # "READY"
  <2>1. to \in States \cup {"NONE"} /\ to # "READY"
    BY DEF States
  <2> QED  BY <2>1, MovedKeeps
<1>2. /\ \A p \in Queries : p # q => (p \in lists'["EXEC"] <=> p \in lists["EXEC"])
      /\ \A p \in Queries : p # q => (p \in lists'["EXIT"] <=> p \in lists["EXIT"])
      /\ q \in lists'["EXEC"] <=> to = "EXEC"
      /\ q \in lists'["EXIT"] <=> to = "EXIT"
  <2> DEFINE from == query[q].sp
             exec == IF from = "EXEC" THEN lists["EXEC"] \ {q} ELSE lists["EXEC"]
             exit == IF from = "EXIT" THEN lists["EXIT"] \ {q} ELSE lists["EXIT"]
             left == [lists EXCEPT !["EXEC"] = exec, !["EXIT"] = exit]
  <2>1. left = [lists EXCEPT !["EXEC"] = IF from = "EXEC" THEN @ \ {q} ELSE @,
                             !["EXIT"] = IF from = "EXIT" THEN @ \ {q} ELSE @]
    OBVIOUS
  <2>2. /\ q \notin exec /\ q \notin exit
        /\ \A p \in Queries : p # q => (p \in exec <=> p \in lists["EXEC"])
        /\ \A p \in Queries : p # q => (p \in exit <=> p \in lists["EXIT"])
    BY DEF StateLists
  <2>3. lists' = [left EXCEPT !["EXEC"] = IF to = "EXEC" THEN @ \cup {q} ELSE @,
                              !["EXIT"] = IF to = "EXIT" THEN @ \cup {q} ELSE @]
    BY <2>1 DEF Moved
  <2> HIDE DEF exec, exit, from
  <2>4. left["EXEC"] = exec /\ left["EXIT"] = exit /\ left = [lists EXCEPT !["EXEC"] = exec, !["EXIT"] = exit]
    OBVIOUS
  <2> HIDE DEF left
  <2>5. /\ lists'["EXEC"] = IF to = "EXEC" THEN exec \cup {q} ELSE exec
        /\ lists'["EXIT"] = IF to = "EXIT" THEN exit \cup {q} ELSE exit
    BY <2>3, <2>4
  <2> QED  BY <2>2, <2>5
<1>3. ~In(q, ready')
  BY <1>1 DEF StateLists
<1> QED  BY <1>1, <1>2, <1>3 DEF StateLists

LEMMA CalmLists == CalmAll /\ Next => StateLists'
<1> SUFFICES ASSUME CalmAll, Next PROVE StateLists'
  OBVIOUS
<1>1. /\ StateLists /\ query \in [Queries -> QueryStructs] /\ ready \in Seq(Queries)
      /\ NoDups(ready) /\ lists \in [{"EXEC", "EXIT"} -> SUBSET Queries]
  BY CalmNow, Typed DEF CalmInv
<1>2. ASSUME UNCHANGED <<query, lists>>, \A q : In(q, ready') => In(q, ready) PROVE StateLists'
  BY <1>1, <1>2 DEF StateLists
<1>3. CASE UNCHANGED <<query, ready, lists>>
  BY <1>2, <1>3
<1>4. ASSUME NEW q \in Queries, ConnectQuery(q) PROVE StateLists'
  <2>1. /\ query[q].sp = "NONE" /\ query'[q].sp = "READY"
        /\ \A p \in Queries : p # q => query'[p] = query[p]
        /\ ready' = Append(ready, q) /\ lists' = lists
    BY <1>4, Connected
  <2>2. ~In(q, ready)
    BY <2>1, CalmNow, PlacedNow
  <2>3. \A p : In(p, ready') <=> In(p, ready) \/ p = q
    BY <1>1, <2>1, <2>2, AppendKeeps
  <2> QED  BY <1>1, <2>1, <2>3 DEF StateLists
<1>5. CASE PopQuery
  <2>1. \A q : In(q, ready') => In(q, ready)
    BY <1>1, <1>5, Popped, TailKeeps
  <2> QED  BY <1>2, <1>5, <2>1, Popped
<1>6. CASE ToExec
  BY <1>1, <1>6, NowInExec, ListsMoved
<1>7. ASSUME NEW w \in Workers, EndExit(w) PROVE StateLists'
  <2>1. conn[w].q \in Queries /\ Moved(conn[w].q, "EXIT")
    BY <1>7, EndMoved
  <2> QED  BY <1>1, <2>1, ListsMoved
<1>8. \A w \in Workers : TakeEnd(w) \/ EndFree(w) => UNCHANGED <<query, ready, lists>>
  BY EndTaken, EndFreed
<1>9. \A q \in Queries : HangUp(q) => UNCHANGED <<query, ready, lists>>
  BY HungUp
<1>10. \A w \in Workers : PeerTakes(w) \/ PeerSteps(w) \/ PeerEnds(w) \/ PeerEnded(w) \/ PeerStops(w)
         => UNCHANGED <<query, ready, lists>>
  BY PeerCalm DEF Master, states
<1>11. ChooseWorker \/ (SendQuery /\ sched.pc = "assign") \/ ToBusy
         => ToExec \/ UNCHANGED <<query, ready, lists>>
  BY Turned
<1>12. ListQuery \/ (\E w \in Workers : ConnectWorker(w)) => UNCHANGED <<query, ready, lists>>
  BY DEF ListQuery, ConnectWorker, states
<1> QED  BY <1>3, <1>4, <1>5, <1>6, <1>7, <1>8, <1>9, <1>10, <1>11, <1>12, CalmSteps DEF Accept


LEMMA CalmTold == CalmAll /\ Next => ToldEnds'
<1> SUFFICES ASSUME CalmAll, Next PROVE ToldEnds'
  OBVIOUS
<1>1. ToldEnds /\ told \subseteq Queries /\ conn \in [Workers -> ConnectionAt]
  BY CalmNow, Typed DEF CalmInv
<1>2. ASSUME told' = told, conn' = conn,
             \A q \in Queries : query[q].sp = "EXIT" => query'[q].sp = "EXIT"
      PROVE  ToldEnds'
  BY <1>1, <1>2 DEF ToldEnds
<1>3. CASE UNCHANGED <<told, conn, query>>
  BY <1>2, <1>3
<1>4. ASSUME NEW q \in Queries, ConnectQuery(q) PROVE ToldEnds'
  BY <1>2, <1>4, Connected
<1>5. ASSUME NEW w \in Workers, ConnectWorker(w) PROVE ToldEnds'
  <2>1. /\ UNCHANGED <<told, query>> /\ conn[w].pc = "none"
        /\ \A x \in Workers : x # w => conn'[x] = conn[x]
    BY <1>1, <1>5 DEF ConnectWorker, states
  <2> QED  BY <1>1, <2>1 DEF ToldEnds
<1>6. CASE ToExec
  <2>1. /\ told' = told /\ query[sched.q].sp = "READY"
        /\ \A p \in Queries : p # sched.q => query'[p] = query[p]
    BY <1>6, NowInExec
  <2>2. conn' = conn
    BY <1>6 DEF ToExec
  <2>3. \A q \in Queries : query[q].sp = "EXIT" => query'[q].sp = "EXIT"
    BY <2>1
  <2> QED  BY <1>2, <2>1, <2>2, <2>3
<1>7. ASSUME NEW w \in Workers, TakeEnd(w) PROVE ToldEnds'
  <2>1. PICK q \in Queries : q = worker[w].id_query
    BY <1>7, EndTaken
  <2>2. /\ told' = told \cup {q} /\ query' = query /\ conn[w].pc = "idle"
        /\ conn' = [conn EXCEPT ![w].pc = "exit", ![w].q = q, ![w].i = Index(w)]
    BY <1>7, <2>1, EndTaken DEF TakeEnd, Arrives
  <2>3. /\ conn'[w].pc = "exit" /\ conn'[w].q = q
        /\ \A x \in Workers : x # w => conn'[x] = conn[x]
    BY <1>1, <2>2 DEF ConnectionAt
  <2>4. ASSUME NEW p \in told'
        PROVE  query'[p].sp = "EXIT" \/ \E x \in Workers : conn'[x].pc = "exit" /\ conn'[x].q = p
    <3>1. CASE p = q
      BY <2>3, <3>1
    <3>2. CASE p \in told
      <4>1. query[p].sp = "EXIT" \/ \E x \in Workers : conn[x].pc = "exit" /\ conn[x].q = p
        BY <1>1, <3>2 DEF ToldEnds
      <4> QED  BY <2>2, <2>3, <4>1
    <3> QED  BY <2>2, <2>4, <3>1, <3>2
  <2> QED  BY <2>4 DEF ToldEnds
<1>8. ASSUME NEW w \in Workers, EndExit(w) PROVE ToldEnds'
  <2>1. PICK q \in Queries : q = conn[w].q
    BY <1>8, EndMoved
  <2>2. /\ told' = told /\ query'[q].sp = "EXIT"
        /\ \A p \in Queries : p # q => query'[p] = query[p]
        /\ conn' = [conn EXCEPT ![w].pc = "free"]
    BY <1>8, <2>1, EndMoved
  <2>3. \A x \in Workers : x # w => conn'[x] = conn[x]
    BY <2>2
  <2>4. ASSUME NEW p \in told'
        PROVE  query'[p].sp = "EXIT" \/ \E x \in Workers : conn'[x].pc = "exit" /\ conn'[x].q = p
    <3>1. CASE p # q
      <4>1. query[p].sp = "EXIT" \/ \E x \in Workers : conn[x].pc = "exit" /\ conn[x].q = p
        BY <1>1, <2>2, <2>4 DEF ToldEnds
      <4> QED  BY <1>1, <2>1, <2>2, <2>3, <2>4, <3>1, <4>1
    <3> QED  BY <2>2, <3>1
  <2> QED  BY <2>4 DEF ToldEnds
<1>9. ASSUME NEW w \in Workers, EndFree(w) PROVE ToldEnds'
  <2>1. UNCHANGED <<told, query>> /\ conn[w].pc = "free"
        /\ \A x \in Workers : x # w => conn'[x] = conn[x]
    BY <1>1, <1>9, EndFreed DEF EndFree
  <2> QED  BY <1>1, <2>1 DEF ToldEnds
<1>10. ListQuery => UNCHANGED <<told, conn, query>>
  BY DEF ListQuery, states
<1>11. ChooseWorker \/ (SendQuery /\ sched.pc = "assign") \/ ToBusy
         => ToExec \/ UNCHANGED <<told, conn, query>>
  BY Turned
<1>12. PopQuery => UNCHANGED <<told, conn, query>>
  BY Popped
<1>13. \A w \in Workers : PeerTakes(w) \/ PeerSteps(w) \/ PeerEnds(w) \/ PeerEnded(w) \/ PeerStops(w)
         => UNCHANGED <<told, conn, query>>
  BY PeerCalm DEF Master, states
<1>14. \A q \in Queries : HangUp(q) => UNCHANGED <<told, conn, query>>
  BY HungUp
<1> QED  BY <1>3, <1>4, <1>5, <1>6, <1>7, <1>8, <1>9, <1>10, <1>11, <1>12, <1>13, <1>14,
            CalmSteps DEF Accept

LEMMA CalmListed == CalmAll /\ Next => ListedSoon'
<1> SUFFICES ASSUME CalmAll, Next PROVE ListedSoon'
  OBVIOUS
<1>1. ListedSoon
  BY CalmNow DEF CalmInv
<1>2. ASSUME acceptor' = acceptor, queries' = queries,
             \A q \in Queries : query'[q].sp # "NONE" => query[q].sp # "NONE"
      PROVE  ListedSoon'
  BY <1>1, <1>2 DEF ListedSoon, Known
<1>3. CASE UNCHANGED <<acceptor, queries, query>>
  BY <1>2, <1>3
<1>4. ASSUME NEW q \in Queries, ConnectQuery(q) PROVE ListedSoon'
  <2>1. /\ acceptor = NoQuery /\ acceptor' = q /\ queries' = queries
        /\ \A p \in Queries : p # q => query'[p] = query[p]
    BY <1>4, Connected
  <2> QED  BY <1>1, <2>1, NoQueryIsNone DEF ListedSoon, Known
<1>5. CASE ListQuery
  <2>1. queries' = queries \cup {acceptor} /\ query' = query
    BY <1>5 DEF ListQuery, states
  <2> QED  BY <1>1, <2>1 DEF ListedSoon, Known
<1>6. CASE ToExec
  <2>1. /\ query[sched.q].sp = "READY" /\ UNCHANGED <<acceptor, queries>>
        /\ \A p \in Queries : p # sched.q => query'[p] = query[p]
    BY <1>6, NowInExec, Turned
  <2>2. \A q \in Queries : query'[q].sp # "NONE" => query[q].sp # "NONE"
    BY <2>1
  <2> QED  BY <1>2, <2>1, <2>2
<1>7. ASSUME NEW w \in Workers, EndExit(w) PROVE ListedSoon'
  <2>1. /\ conn[w].q = worker[w].id_query /\ Busy(w, "EXEC") /\ UNCHANGED <<acceptor, queries>>
        /\ \A p \in Queries : p # conn[w].q => query'[p] = query[p]
    BY <1>7, EndMoved
  <2>2. \A q \in Queries : query'[q].sp # "NONE" => query[q].sp # "NONE"
    BY <2>1 DEF Busy
  <2> QED  BY <1>2, <2>1, <2>2
<1>8. \A w \in Workers : ConnectWorker(w) => UNCHANGED <<acceptor, queries, query>>
  BY DEF ConnectWorker, states
<1>9. ChooseWorker \/ (SendQuery /\ sched.pc = "assign") \/ ToBusy
        => ToExec \/ UNCHANGED <<acceptor, queries, query>>
  BY Turned
<1>10. PopQuery => UNCHANGED <<acceptor, queries, query>>
  BY Popped
<1>11. \A w \in Workers : PeerTakes(w) \/ PeerSteps(w) \/ PeerEnds(w) \/ PeerEnded(w) \/ PeerStops(w)
         => UNCHANGED <<acceptor, queries, query>>
  BY PeerCalm DEF Master, states
<1>12. \A q \in Queries : HangUp(q) => UNCHANGED <<acceptor, queries, query>>
  BY HungUp
<1>13. \A w \in Workers : TakeEnd(w) \/ EndFree(w) => UNCHANGED <<acceptor, queries, query>>
  BY EndTaken, EndFreed
<1> QED  BY <1>3, <1>4, <1>5, <1>6, <1>7, <1>8, <1>9, <1>10, <1>11, <1>12, <1>13, CalmSteps
            DEF Accept

LEMMA CalmFound == CalmAll /\ Next => Found'
<1> SUFFICES ASSUME CalmAll, Next PROVE Found'
  OBVIOUS
<1>1. Found /\ conn \in [Workers -> ConnectionAt] /\ workers \in Seq(Workers) /\ Inv
  BY CalmNow, Typed DEF CalmInv
<1>2. CASE UNCHANGED <<conn, workers>>
  BY <1>1, <1>2 DEF Found, Listed
<1>3. ASSUME NEW w \in Workers, Listed \subseteq Listed', w \in Listed',
             \A x \in Workers : x # w => conn'[x] = conn[x],
             conn'[w].pc \in {"exit", "free"} => conn'[w].i # 0
      PROVE  Found'
  BY <1>1, <1>3 DEF Found
<1>4. ASSUME NEW w \in Workers, ConnectWorker(w) PROVE Found'
  <2>1. workers' = Append(workers, w) /\ conn' = [conn EXCEPT ![w].pc = "idle"]
    BY <1>4 DEF ConnectWorker
  <2>2. /\ DOMAIN workers = 1 .. Len(workers) /\ DOMAIN workers' = 1 .. Len(workers) + 1
        /\ Len(workers) \in Nat /\ workers'[Len(workers) + 1] = w
        /\ \A i \in 1 .. Len(workers) : workers'[i] = workers[i]
    BY <1>1, <2>1
  <2>3. Listed \subseteq Listed' /\ w \in Listed'
    BY <2>2 DEF Listed
  <2>4. conn'[w].pc = "idle" /\ \A x \in Workers : x # w => conn'[x] = conn[x]
    BY <1>1, <2>1 DEF ConnectionAt
  <2> QED  BY <1>3, <2>3, <2>4
<1>5. ASSUME NEW w \in Workers, TakeEnd(w) PROVE Found'
  <2> DEFINE q == worker[w].id_query
             i == Index(w)
  <2>1. /\ conn' = [conn EXCEPT ![w].pc = "exit", ![w].q = q, ![w].i = i]
        /\ conn[w].pc = "idle"
    BY <1>5, EndTaken DEF TakeEnd, Arrives
  <2>2. w \in Listed /\ i # 0
    BY <1>1, <2>1, IndexIsPlace DEF Found
  <2>3. Listed' = Listed
    BY <1>5, EndTaken DEF Listed
  <2> HIDE DEF q, i
  <2>4. conn'[w].i = i /\ \A x \in Workers : x # w => conn'[x] = conn[x]
    BY <1>1, <2>1 DEF ConnectionAt
  <2> QED  BY <1>3, <2>2, <2>3, <2>4
<1>6. ASSUME NEW w \in Workers, EndExit(w) PROVE Found'
  <2>1. conn' = [conn EXCEPT ![w].pc = "free"] /\ workers' = workers /\ conn[w].pc = "exit"
    BY <1>6 DEF EndExit
  <2>2. w \in Listed /\ conn[w].i # 0 /\ Listed' = Listed
    BY <1>1, <2>1 DEF Found, Listed
  <2>3. conn'[w].i = conn[w].i /\ \A x \in Workers : x # w => conn'[x] = conn[x]
    BY <1>1, <2>1 DEF ConnectionAt
  <2> QED  BY <1>3, <2>2, <2>3
<1>7. ASSUME NEW w \in Workers, EndFree(w) PROVE Found'
  <2>1. /\ conn' = [conn EXCEPT ![w].pc = "idle", ![w].q = NoQuery, ![w].i = 0]
        /\ workers' = workers /\ conn[w].pc = "free"
    BY <1>7, EndFreed DEF EndFree
  <2>2. w \in Listed /\ Listed' = Listed
    BY <1>1, <2>1 DEF Found, Listed
  <2>3. conn'[w].pc = "idle" /\ \A x \in Workers : x # w => conn'[x] = conn[x]
    BY <1>1, <2>1 DEF ConnectionAt
  <2> QED  BY <1>3, <2>2, <2>3
<1>8. ListQuery \/ (\E q \in Queries : ConnectQuery(q)) => UNCHANGED <<conn, workers>>
  BY Zenon DEF ListQuery, ConnectQuery
<1>9. ChooseWorker \/ PopQuery \/ (SendQuery /\ sched.pc = "assign") \/ ToExec \/ ToBusy
        => UNCHANGED <<conn, workers>>
  BY Zenon DEF ChooseWorker, PopQuery, SendQuery, ToExec, ToBusy
<1>10. \A w \in Workers : PeerTakes(w) \/ PeerSteps(w) \/ PeerEnds(w) \/ PeerEnded(w) \/ PeerStops(w)
         => UNCHANGED <<conn, workers>>
  BY PeerCalm DEF Master
<1>11. \A q \in Queries : HangUp(q) => UNCHANGED <<conn, workers>>
  BY Zenon DEF HangUp
<1> QED  BY <1>2, <1>4, <1>5, <1>6, <1>7, <1>8, <1>9, <1>10, <1>11, CalmSteps DEF Accept

LEMMA CalmReady == CalmAll /\ Next => StillReady'
<1> SUFFICES ASSUME CalmAll, Next, sched'.pc = "assign" PROVE query'[sched'.q].sp = "READY"
  BY DEF StillReady
<1>1. CASE PopQuery
  <2>1. ready # <<>> /\ sched'.q = Head(ready) /\ query' = query
    BY <1>1, Popped
  <2>2. Head(ready) \in Queries /\ In(Head(ready), ready)
    BY <2>1, CalmNow, Typed, TailKeeps
  <2> QED  BY <2>1, <2>2, CalmNow DEF CalmInv, StateLists
<1>2. ASSUME sched' = sched, \A q \in Queries : Assigned(q) => query'[q].sp = query[q].sp
      PROVE  query'[sched'.q].sp = "READY"
  <2>1. sched.q \in Queries /\ Assigned(sched.q) /\ query[sched.q].sp = "READY"
    BY <1>2, CalmNow, Typed DEF CalmInv, StillReady, Assigned, SchedulerHolds
  <2> QED  BY <1>2, <2>1
<1>3. ASSUME NEW q \in Queries, ConnectQuery(q) PROVE query'[sched'.q].sp = "READY"
  <2>1. /\ sched' = sched /\ query[q].sp = "NONE"
        /\ \A p \in Queries : p # q => query'[p] = query[p]
    BY <1>3, Connected
  <2>2. ~Assigned(q)
    BY <2>1, CalmNow DEF TakenOnce
  <2> QED  BY <1>2, <2>1, <2>2
<1>4. ASSUME NEW w \in Workers, EndExit(w) PROVE query'[sched'.q].sp = "READY"
  <2>1. PICK q \in Queries : q = conn[w].q /\ worker[w].id_query = q
    BY <1>4, EndMoved
  <2>2. sched' = sched /\ \A p \in Queries : p # q => query'[p] = query[p]
    BY <1>4, <2>1, EndMoved
  <2>3. ~Assigned(q)
    BY <2>1, HasBeenGiven
  <2> QED  BY <1>2, <2>2, <2>3
<1>5. ChooseWorker \/ (SendQuery /\ sched.pc = "assign") \/ ToExec \/ ToBusy => sched'.pc # "assign"
  BY Turned
<1>6. ListQuery \/ (\E w \in Workers : ConnectWorker(w)) => UNCHANGED <<sched, query>>
  BY DEF ListQuery, ConnectWorker, states
<1>7. \A w \in Workers : PeerTakes(w) \/ PeerSteps(w) \/ PeerEnds(w) \/ PeerEnded(w) \/ PeerStops(w)
        => UNCHANGED <<sched, query>>
  BY PeerCalm DEF Master, states
<1>8. \A q \in Queries : HangUp(q) => UNCHANGED <<sched, query>>
  BY HungUp
<1>9. \A w \in Workers : TakeEnd(w) \/ EndFree(w) => UNCHANGED <<sched, query>>
  BY EndTaken, EndFreed
<1>10. UNCHANGED <<sched, query>> => query'[sched'.q].sp = "READY"
  BY <1>2
<1> QED  BY <1>1, <1>3, <1>4, <1>5, <1>6, <1>7, <1>8, <1>9, <1>10, CalmSteps DEF Accept

LEMMA CalmStages == CalmAll /\ Next => InStages'
<1> SUFFICES ASSUME CalmAll, Next PROVE InStages'
  OBVIOUS
<1>1. ASSUME NEW q \in Queries, HangUp(q) PROVE InStages'
  <2>1. UNCHANGED <<query, queries, worker, sched, conn, toWorker, toMaster, peer>>
    BY <1>1, HungUp DEF net
  <2> QED  BY <2>1, StageKept, CalmNow DEF CalmInv, InStages
<1> QED  BY <1>1, StagesAccept, StagesSend, StagesSchedule, StagesServe, StagesPeer, CalmSteps

LEMMA CalmHolds ==
  ASSUME CalmSetups
  PROVE  Spec => [](Inv /\ FifoInv /\ CalmInv)
<1>1. Init => CalmInv
  <2> SUFFICES ASSUME Init PROVE CalmInv
    OBVIOUS
  <2>1. \A c \in Callers : evict[c].pc = "idle"
    BY DEF Init, NoCall
  <2>2. \A w \in Workers : peer[w] = FreshPeer /\ worker[w] = FreshWorker /\ conn[w].pc = "none"
    BY DEF Init
  <2>3. InStages
    BY <2>2 DEF Init, InStages, Stage, Resting, JustSent, Silent, Unoccupied, Open, FreshPeer,
       FreshWorker
  <2>4. Undisturbed
    BY <2>1, <2>2 DEF Init, Undisturbed, FreshPeer
  <2>5. Found
    BY <2>2 DEF Found
  <2> QED  BY <2>3, <2>4, <2>5
           DEF Init, CalmInv, ToldEnds, ListedSoon, StillReady, StateLists, In
<1>2. Inv /\ FifoInv /\ CalmInv /\ [Next]_vars => CalmInv'
  <2> SUFFICES ASSUME Inv, FifoInv, CalmInv, [Next]_vars PROVE CalmInv'
    OBVIOUS
  <2>1. CASE Next
    BY <2>1, CalmUndisturbed, CalmStages, CalmTold, CalmListed, CalmReady, CalmLists, CalmFound
       DEF CalmAll, CalmInv
  <2>2. CASE UNCHANGED vars
    <3>1. /\ UNCHANGED <<query, queries, ready, lists, told, worker, acceptor, sched, conn>>
          /\ UNCHANGED <<hangup, evict, toWorker, toMaster, peer>>
      BY <2>2 DEF vars, states, net
    <3>2. InStages'
      BY <3>1, StageKept DEF CalmInv, InStages
    <3>3. Undisturbed' /\ ToldEnds' /\ ListedSoon' /\ StillReady'
      BY <3>1 DEF CalmInv, Undisturbed, ToldEnds, ListedSoon, Known, StillReady
    <3>4. StateLists'
      BY <3>1 DEF CalmInv, StateLists, In
    <3>5. Found'
      BY <2>2, <3>1 DEF CalmInv, Found, Listed, vars
    <3> QED  BY <3>2, <3>3, <3>4, <3>5 DEF CalmInv
  <2> QED  BY <2>1, <2>2
<1> QED  BY <1>1, <1>2, FifoHolds, PTL DEF Spec

(* dict_state agrees with the sp of every Query, under FIFO and while nobody  *)
(* disconnects and the threads of the Master are faster than the network, for *)
(* any number of Queries and Workers: query_to moves it from the list of the  *)
(* state it had, which is the one it was in.                                  *)
THEOREM ListsAgree ==
  ASSUME CalmSetups
  PROVE  Spec => []StateLists
<1>1. CalmInv => StateLists
  BY DEF CalmInv
<1> QED  BY <1>1, CalmHolds, PTL


-----------------------------------------------------------------------------
(* The Master implements the queue of Dispatcher.                             *)

Waits == IF Held(sched.q) /\ sched.pc = "assign" THEN <<sched.q>> \o ready ELSE ready
Has == [w \in Workers |-> worker[w].id_query]
Over == {q \in Queries : query[q].sp = "EXIT"}

LEMMA WaitsNow == Waits = IF sched.pc = "assign" THEN <<sched.q>> \o ready ELSE ready
  BY DEF Waits, Held

LEMMA StaysSame ==
  ASSUME UNCHANGED <<Waits, Has, Over>>
  PROVE  UNCHANGED Queue!vars
  BY DEF Queue!vars, Waits, Has, Over

(* Nothing that waits, has been given or is over has its sp unset. *)
LEMMA NotYet ==
  ASSUME CalmAll, NEW q \in Queries, query[q].sp = "NONE"
  PROVE  q \notin Queue!Waiting \cup Queue!Given \cup Over
<1>1. ~In(q, ready) /\ ~Assigned(q)
  BY CalmNow, PlacedNow DEF TakenOnce
<1>2. \A w \in Workers : worker[w].id_query # q
  BY HasBeenGiven
<1>3. q \notin Queue!Given
  BY <1>2 DEF Queue!Given
<1>4. q \notin Queue!Waiting
  <2>1. \A i \in DOMAIN Waits : Waits[i] # q
    <3>1. CASE sched.pc = "assign"
      <4>1. Waits = <<sched.q>> \o ready /\ sched.q \in Queries /\ sched.q # q
            /\ ready \in Seq(Queries)
        BY <1>1, <3>1, WaitsNow, CalmNow, Typed DEF Assigned, SchedulerHolds
      <4>2. \A i \in DOMAIN (<<sched.q>> \o ready) :
              (<<sched.q>> \o ready)[i] = sched.q
              \/ \E j \in DOMAIN ready : ready[j] = (<<sched.q>> \o ready)[i]
        BY <4>1, Prefixed
      <4> QED  BY <1>1, <4>1, <4>2, Zenon DEF In
    <3>2. CASE sched.pc # "assign"
      BY <1>1, <3>2, WaitsNow DEF In
    <3> QED  BY <3>1, <3>2
  <2> QED  BY <2>1, Zenon DEF Queue!Waiting, Waits
<1> QED  BY <1>3, <1>4 DEF Over

LEMMA Submits ==
  ASSUME CalmAll, NEW q \in Queries, ConnectQuery(q)
  PROVE  Queue!Submit(q)
<1>1. /\ query[q].sp = "NONE" /\ query'[q].sp = "READY" /\ ready' = Append(ready, q)
      /\ \A p \in Queries : p # q => query'[p] = query[p]
      /\ UNCHANGED <<worker, sched>>
  BY Connected
<1>2. Waits' = Append(Waits, q)
  <2>1. CASE sched.pc = "assign"
    <3>1. sched.q \in Queries /\ ready \in Seq(Queries)
      BY <2>1, CalmNow, Typed DEF SchedulerHolds
    <3>2. <<sched.q>> \o Append(ready, q) = Append(<<sched.q>> \o ready, q)
      BY <3>1, Prefixed
    <3>3. Waits' = <<sched.q>> \o Append(ready, q)
      BY <1>1, <2>1 DEF Waits, Held
    <3> QED  BY <2>1, <3>2, <3>3, WaitsNow
  <2>2. CASE sched.pc # "assign"
    BY <1>1, <2>2 DEF Waits, Held
  <2> QED  BY <2>1, <2>2
<1>3. Has' = Has
  BY <1>1 DEF Has
<1>4. Over' = Over
  BY <1>1 DEF Over
<1> QED  BY <1>1, <1>2, <1>3, <1>4, NotYet DEF Queue!Submit, Waits, Has, Over

LEMMA Gives ==
  ASSUME CalmAll, SendQuery, sched.pc = "assign"
  PROVE  \E w \in Workers : Queue!Give(w)
<1>1. PICK w \in Workers, q \in Queries : w = sched.w /\ q = sched.q
  BY SendsTo
<1>2. /\ worker[w].id_query = NoQuery /\ worker \in [Workers -> WorkerStructs]
      /\ ready \in Seq(Queries)
  BY <1>1, SendsTo, CalmNow, Typed DEF Resting
<1>3. worker' = [worker EXCEPT ![w].id_query = q]
  BY <1>1 DEF SendQuery
<1>4. UNCHANGED <<query, ready>> /\ sched'.pc # "assign"
  BY Turned DEF ToExec
<1>5. Waits # <<>> /\ Head(Waits) = q /\ Tail(Waits) = ready
  <2>1. Waits = <<q>> \o ready
    BY <1>1, WaitsNow
  <2>2. <<q>> \o ready # <<>> /\ Head(<<q>> \o ready) = q /\ Tail(<<q>> \o ready) = ready
    BY <1>2, Prefixed
  <2> QED  BY <2>1, <2>2
<1>6. Waits' = ready
  BY <1>4 DEF Waits, Held
<1>7. Has[w] = NoQuery /\ Has' = [Has EXCEPT ![w] = q]
  <2>1. \A x \in Workers : worker'[x].id_query = IF x = w THEN q ELSE worker[x].id_query
    BY <1>2, <1>3 DEF WorkerStructs
  <2> QED  BY <1>2, <2>1 DEF Has
<1>8. Over' = Over
  BY <1>4 DEF Over
<1> QED  BY <1>5, <1>6, <1>7, <1>8 DEF Queue!Give, Waits, Has, Over

LEMMA Finishes ==
  ASSUME CalmAll, NEW w \in Workers, EndExit(w)
  PROVE  \E q \in Queries : Queue!Finish(q)
<1>1. PICK q \in Queries : q = conn[w].q /\ worker[w].id_query = q
  BY EndMoved
<1>2. /\ Busy(w, "EXEC") /\ Moved(q, "EXIT") /\ query'[q].sp = "EXIT"
      /\ \A p \in Queries : p # q => query'[p] = query[p]
      /\ UNCHANGED <<worker, sched>>
  BY <1>1, EndMoved
<1>3. query[q].sp = "EXEC"
  BY <1>1, <1>2 DEF Busy
<1>4. ready' = ready
  BY <1>2, <1>3 DEF Moved
<1>5. UNCHANGED <<Waits, Has>>
  BY <1>2, <1>4 DEF Waits, Held, Has
<1>6. Over' = Over \cup {q}
  BY <1>2 DEF Over
<1>7. q \in Queue!Given \ Over
  BY <1>1, <1>3 DEF Queue!Given, Over
<1> QED  BY <1>5, <1>6, <1>7 DEF Queue!Finish, Waits, Has, Over

LEMMA Releases ==
  ASSUME CalmAll, NEW w \in Workers, EndFree(w)
  PROVE  Queue!Release(w)
<1>1. /\ Busy(w, "EXIT") /\ worker[w].id_query \in Queries
      /\ worker'[w].id_query = NoQuery /\ \A x \in Workers : x # w => worker'[x] = worker[x]
      /\ UNCHANGED <<query, ready, sched>>
  BY EndFreed
<1>2. Has[w] \in Over
  BY <1>1 DEF Has, Over, Busy
<1>3. Has' = [Has EXCEPT ![w] = NoQuery]
  BY <1>1 DEF Has
<1>4. UNCHANGED <<Waits, Over>>
  BY <1>1 DEF Waits, Held, Over
<1> QED  BY <1>2, <1>3, <1>4 DEF Queue!Release, Waits, Has, Over


LEMMA Mapped ==
  CalmAll /\ Next => [Queue!Next]_Queue!vars
<1> SUFFICES ASSUME CalmAll, Next PROVE Queue!Next \/ UNCHANGED Queue!vars
  OBVIOUS
<1>1. UNCHANGED <<query, ready, worker, sched>> => UNCHANGED Queue!vars
  BY StaysSame DEF Waits, Held, Has, Over
<1>2. ASSUME NEW q \in Queries, ConnectQuery(q) PROVE Queue!Next
  BY <1>2, Submits DEF Queue!Next
<1>3. CASE SendQuery /\ sched.pc = "assign"
  BY <1>3, Gives DEF Queue!Next
<1>4. ASSUME NEW w \in Workers, EndExit(w) PROVE Queue!Next
  BY <1>4, Finishes DEF Queue!Next
<1>5. ASSUME NEW w \in Workers, EndFree(w) PROVE Queue!Next
  BY <1>5, Releases DEF Queue!Next
<1>6. CASE PopQuery
  <2>1. UNCHANGED <<query, worker>> /\ sched.pc # "assign"
    BY <1>6, Popped
  <2>2. Waits' = Waits
    <3>1. Waits = ready
      BY <2>1, WaitsNow
    <3>2. CASE sched'.pc = "execute" /\ ready' = ready
      BY <3>1, <3>2 DEF Waits, Held
    <3>3. CASE ready # <<>> /\ ready' = Tail(ready) /\ sched'.pc = "assign" /\ sched'.q = Head(ready)
      <4>1. ready \in Seq(Queries) /\ Head(ready) \in Queries
        BY <3>3, CalmNow, Typed, PlacedNow, TailKeeps
      <4>2. <<Head(ready)>> \o Tail(ready) = ready
        BY <3>3, <4>1, Prefixed
      <4>3. Waits' = <<Head(ready)>> \o Tail(ready)
        BY <3>3 DEF Waits, Held
      <4> QED  BY <3>1, <4>2, <4>3
    <3> QED  BY <1>6, <3>2, <3>3, Popped
  <2> QED  BY <2>1, <2>2, StaysSame DEF Has, Over
<1>7. CASE ToExec
  <2>1. /\ sched.q \in Queries /\ query[sched.q].sp = "READY" /\ Moved(sched.q, "EXEC")
        /\ query'[sched.q].sp = "EXEC" /\ \A p \in Queries : p # sched.q => query'[p] = query[p]
    BY <1>7, NowInExec
  <2>2. sched.pc = "exec" /\ sched'.pc # "assign" /\ worker' = worker
    BY <1>7, Turned DEF ToExec
  <2>3. ~In(sched.q, ready)
    BY <2>2, MarkingNow, HasBeenGiven
  <2>4. ready' = ready
    BY <2>1, <2>3 DEF Moved, Without
  <2>5. Waits' = Waits
    BY <2>2, <2>4 DEF Waits, Held
  <2>6. Over' = Over
    BY <2>1 DEF Over
  <2> QED  BY <2>2, <2>5, <2>6, StaysSame DEF Has
<1>8. CASE ToBusy
  <2>1. UNCHANGED <<query, ready>> /\ sched.pc # "assign" /\ sched'.pc # "assign"
    BY <1>8, Turned DEF ToBusy, states
  <2>2. Waits' = Waits
    BY <2>1 DEF Waits, Held
  <2>3. worker' = [worker EXCEPT ![sched.w].is_free = FALSE] /\ worker \in [Workers -> WorkerStructs]
    BY <1>8, CalmNow, Typed DEF ToBusy
  <2>4. \A x \in Workers : worker'[x].id_query = worker[x].id_query
    BY <2>3 DEF WorkerStructs
  <2> QED  BY <2>1, <2>2, <2>4, StaysSame DEF Has, Over
<1>9. CASE ChooseWorker
  <2>1. UNCHANGED <<query, ready, worker>> /\ sched.pc # "assign" /\ sched'.pc # "assign"
    BY <1>9, Turned DEF ChooseWorker, Execute, states
  <2> QED  BY <2>1, StaysSame DEF Waits, Held, Has, Over
<1>10. ListQuery \/ (\E w \in Workers : ConnectWorker(w)) => UNCHANGED <<query, ready, worker, sched>>
  BY DEF ListQuery, ConnectWorker, states
<1>11. \A w \in Workers : TakeEnd(w) => UNCHANGED <<query, ready, worker, sched>>
  BY EndTaken
<1>12. \A w \in Workers : PeerTakes(w) \/ PeerSteps(w) \/ PeerEnds(w) \/ PeerEnded(w) \/ PeerStops(w)
         => UNCHANGED <<query, ready, worker, sched>>
  BY PeerCalm DEF Master, states
<1>13. \A q \in Queries : HangUp(q) => UNCHANGED <<query, ready, worker, sched>>
  BY HungUp
<1> QED  BY <1>1, <1>2, <1>3, <1>4, <1>5, <1>6, <1>7, <1>8, <1>9, <1>10, <1>11, <1>12, <1>13,
            CalmSteps DEF Accept

(* Under FIFO, while nobody disconnects and the threads of the Master are     *)
(* faster than the network, the Master implements the queue of Dispatcher,    *)
(* for any number of Queries and Workers: each Query is given away once, in   *)
(* the order of arrival, to a Worker that has none, and keeps it until it is  *)
(* over (get_query_available, execute_worker_on_this_query, work_worker).     *)
THEOREM Implements ==
  ASSUME CalmSetups
  PROVE  Spec => DispatcherSpec
<1>1. Init => Queue!Init
  <2> SUFFICES ASSUME Init PROVE Queue!Init
    OBVIOUS
  <2>1. sched.pc # "assign" /\ ready = <<>>
    BY DEF Init
  <2>2. Waits = <<>>
    BY <2>1, WaitsNow
  <2>3. Has = [w \in Workers |-> NoQuery]
    BY DEF Init, Has, FreshWorker
  <2>4. Over = {}
    BY DEF Init, Over
  <2> QED  BY <2>2, <2>3, <2>4 DEF Queue!Init, Waits, Has, Over
<1>2. Inv /\ FifoInv /\ CalmInv /\ [Next]_vars => [Queue!Next]_Queue!vars
  <2>1. Inv /\ FifoInv /\ CalmInv /\ Next => [Queue!Next]_Queue!vars
    BY Mapped DEF CalmAll
  <2>2. UNCHANGED vars => UNCHANGED Queue!vars
    <3>1. UNCHANGED vars => UNCHANGED <<Waits, Has, Over>>
      BY DEF vars, states, Waits, Held, Has, Over
    <3> QED  BY <3>1, StaysSame
  <2> QED  BY <2>1, <2>2
<1> QED  BY <1>1, <1>2, CalmHolds, PTL DEF Spec, DispatcherSpec, Queue!Spec

-----------------------------------------------------------------------------
(* Program counters.  What is still to be heard of the Queries that a Worker  *)
(* was given is what it has answered last, then the answers under way, then   *)
(* what it has itself; the other messages say nothing.                        *)
Says(r, s, p) ==
  [k \in 0 .. Len(s) + 1 |->
     IF k = 0 THEN r ELSE IF k = Len(s) + 1 THEN p
     ELSE IF s[k].op = "EVICTED" THEN s[k] ELSE Evict]
Trail(w) == Says(worker[w], toMaster[w], peer[w])

Names(t, q) == \E k \in DOMAIN t : t[k].q = q
Rising(t, q, n) ==
  \A j, k \in DOMAIN t : t[j].q = q /\ t[k].q = q /\ j <= k =>
    n <= t[j].pc /\ t[j].pc <= t[k].pc

(* Not yet in the hands of a Worker. *)
Unstarted(q) ==
  \/ query[q].sp = "NONE" \/ In(q, ready) \/ Assigned(q)
  \/ \E w \in Workers : OnItsWay(q, w)

SentOnce ==
  \A w \in Workers : \A i, j \in DOMAIN toWorker[w] :
    toWorker[w][i].q \in Queries /\ toWorker[w][i].q = toWorker[w][j].q => i = j
Unmarked ==
  \A q \in Queries : Unstarted(q) =>
    query[q].pc = 0 /\ \A w \in Workers : ~Names(Trail(w), q)
MarkedOnce ==
  \A q \in Queries : \A w, x \in Workers :
    Names(Trail(w), q) /\ Names(Trail(x), q) => w = x
AllRising == \A q \in Queries : \A w \in Workers : Rising(Trail(w), q, query[q].pc)

(* All that is said of a Query comes from one Worker, and the later the       *)
(* further: no answer is behind what the Master knows.                        *)
PcInv == SentOnce /\ Unmarked /\ MarkedOnce /\ AllRising

(* u says of q what t says, or less, and in the same order. *)
Follows(t, u, q) ==
  /\ Names(u, q) => Names(t, q)
  /\ \A n \in Nat : Rising(t, q, n) => Rising(u, q, n)

LEMMA SaysIs ==
  ASSUME NEW r \in WorkerStructs, NEW s \in Seq(Messages), NEW p \in Peers,
         NEW t, t = Says(r, s, p)
  PROVE  /\ Len(s) \in Nat /\ DOMAIN t = 0 .. Len(s) + 1
         /\ t[0] = r /\ t[Len(s) + 1] = p
         /\ \A k \in 1 .. Len(s) :
              /\ s[k] \in Messages
              /\ s[k].op = "EVICTED" => t[k] = s[k]
              /\ s[k].op # "EVICTED" => t[k].q = NoQuery
         /\ \A k \in DOMAIN t : t[k].pc \in Nat
<1>1. Len(s) \in Nat /\ DOMAIN t = 0 .. Len(s) + 1
  BY DEF Says
<1>2. t[0] = r /\ t[Len(s) + 1] = p
  BY <1>1 DEF Says
<1>3. ASSUME NEW k \in 1 .. Len(s)
      PROVE  /\ s[k] \in Messages
             /\ t[k] = IF s[k].op = "EVICTED" THEN s[k] ELSE Evict
  BY <1>1 DEF Says
<1>4. Evict.q = NoQuery /\ Evict.pc = 0
  BY DEF Evict, Message
<1>5. \A k \in DOMAIN t : t[k].pc \in Nat
  <2>1. r.pc \in Nat /\ p.pc \in Nat /\ \A m \in Messages : m.pc \in Nat
    BY DEF WorkerStructs, Peers, Messages
  <2>2. \A k \in DOMAIN t : k = 0 \/ k = Len(s) + 1 \/ k \in 1 .. Len(s)
    BY <1>1
  <2> QED  BY <1>2, <1>3, <1>4, <2>1, <2>2
<1> QED  BY <1>1, <1>2, <1>3, <1>4, <1>5

(* An instruction, or another Query for the Worker. *)
LEMMA SaysSame ==
  ASSUME NEW r \in WorkerStructs, NEW s \in Seq(Messages), NEW p \in Peers,
         NEW r2 \in WorkerStructs, NEW p2 \in Peers, r2.q = r.q, r2.pc = r.pc,
         NEW q \in Queries, p2.q = q => p.q = q /\ p.pc <= p2.pc
  PROVE  Follows(Says(r, s, p), Says(r2, s, p2), q)
<1> DEFINE t == Says(r, s, p)
           u == Says(r2, s, p2)
           l == Len(s) + 1
<1>1. /\ l \in Nat /\ DOMAIN t = 0 .. l /\ t[0] = r /\ t[l] = p
      /\ \A k \in DOMAIN t : t[k].pc \in Nat
  BY SaysIs
<1>2. /\ DOMAIN u = 0 .. l /\ u[0] = r2 /\ u[l] = p2
      /\ \A k \in DOMAIN u : u[k].pc \in Nat
  BY SaysIs
<1>3. \A k \in 1 .. Len(s) : u[k] = t[k]
  BY DEF Says
<1>4. l = Len(s) + 1 /\ Len(s) \in Nat
  OBVIOUS
<1> HIDE DEF t, u, l
<1>5. \A k \in 0 .. l : u[k].q = q =>
        t[k].q = q /\ t[k].pc <= u[k].pc /\ (k # l => u[k].pc = t[k].pc)
  <2>1. \A k \in 0 .. l : k = 0 \/ k = l \/ k \in 1 .. Len(s)
    BY <1>4
  <2> QED  BY <1>1, <1>2, <1>3, <1>4, <2>1
<1>6. Names(u, q) => Names(t, q)
  BY <1>1, <1>2, <1>5 DEF Names
<1>7. ASSUME NEW n \in Nat, Rising(t, q, n) PROVE Rising(u, q, n)
  <2> SUFFICES ASSUME NEW j \in 0 .. l, NEW k \in 0 .. l, u[j].q = q, u[k].q = q, j <= k
               PROVE  n <= u[j].pc /\ u[j].pc <= u[k].pc
    BY <1>2 DEF Rising
  <2>1. n <= t[j].pc /\ t[j].pc <= t[k].pc
    BY <1>1, <1>5, <1>7 DEF Rising
  <2>2. CASE j = l
    BY <1>1, <1>2, <1>5, <2>1, <2>2
  <2>3. CASE j # l
    BY <1>1, <1>2, <1>5, <2>1, <2>3
  <2> QED  BY <2>2, <2>3
<1> QED  BY <1>6, <1>7 DEF Follows, t, u

(* An answer. *)
LEMMA SaysMore ==
  ASSUME NEW r \in WorkerStructs, NEW s \in Seq(Messages), NEW p \in Peers,
         NEW m \in Messages, NEW p2 \in Peers, NEW q \in Queries,
         p2.q = p.q, p.pc <= p2.pc,
         m.op = "EVICTED" => m.q = p.q /\ m.pc = p2.pc
  PROVE  Follows(Says(r, s, p), Says(r, Append(s, m), p2), q)
<1> DEFINE t == Says(r, s, p)
           s2 == Append(s, m)
           u == Says(r, s2, p2)
           l == Len(s) + 1
<1>1. /\ l \in Nat /\ DOMAIN t = 0 .. l /\ t[0] = r /\ t[l] = p
      /\ \A k \in DOMAIN t : t[k].pc \in Nat
  BY SaysIs
<1>2. s2 \in Seq(Messages) /\ Len(s2) = l /\ s2[l] = m /\ \A k \in 1 .. Len(s) : s2[k] = s[k]
  OBVIOUS
<1> HIDE DEF s2
<1>3. /\ DOMAIN u = 0 .. l + 1 /\ u[0] = r /\ u[l + 1] = p2
      /\ l \in 1 .. Len(s2)
      /\ m.op = "EVICTED" => u[l] = m
      /\ m.op # "EVICTED" => u[l].q = NoQuery
      /\ \A k \in DOMAIN u : u[k].pc \in Nat
  BY <1>1, <1>2, SaysIs
<1>4. \A k \in 1 .. Len(s) : u[k] = t[k]
  BY <1>2 DEF Says
<1>5. l = Len(s) + 1 /\ Len(s) \in Nat
  OBVIOUS
<1> HIDE DEF t, u, l
<1>6. /\ \A k \in 0 .. l + 1 : k < l => u[k] = t[k]
      /\ \A k \in 0 .. l + 1 : k >= l /\ u[k].q = q => t[l].q = q /\ u[k].pc = p2.pc
  <2>1. \A k \in 0 .. l + 1 : k < l => k = 0 \/ k \in 1 .. Len(s)
    BY <1>5
  <2>2. \A k \in 0 .. l + 1 : k >= l => k = l \/ k = l + 1
    BY <1>5
  <2>3. u[0] = t[0]
    BY <1>1, <1>3
  <2>4. u[l].q = q => t[l].q = q /\ u[l].pc = p2.pc
    <3>1. q # NoQuery
      BY NoQueryIsNone
    <3> QED  BY <1>1, <1>3, <3>1
  <2>5. u[l + 1].q = q => t[l].q = q /\ u[l + 1].pc = p2.pc
    BY <1>1, <1>3
  <2>6. ASSUME NEW k \in 0 .. l + 1, k < l PROVE u[k] = t[k]
    BY <1>4, <2>1, <2>3, <2>6
  <2>7. ASSUME NEW k \in 0 .. l + 1, k >= l, u[k].q = q PROVE t[l].q = q /\ u[k].pc = p2.pc
    BY <2>2, <2>4, <2>5, <2>7
  <2> QED  BY <2>6, <2>7
<1>7. Names(u, q) => Names(t, q)
  <2> SUFFICES ASSUME NEW k \in 0 .. l + 1, u[k].q = q PROVE Names(t, q)
    BY <1>3 DEF Names
  <2>1. CASE k < l
    BY <1>1, <1>6, <2>1 DEF Names
  <2>2. CASE k >= l
    BY <1>1, <1>6, <2>2 DEF Names
  <2> QED  BY <1>1, <2>1, <2>2
<1>8. ASSUME NEW n \in Nat, Rising(t, q, n) PROVE Rising(u, q, n)
  <2> SUFFICES ASSUME NEW j \in 0 .. l + 1, NEW k \in 0 .. l + 1, u[j].q = q, u[k].q = q, j <= k
               PROVE  n <= u[j].pc /\ u[j].pc <= u[k].pc
    BY <1>3 DEF Rising
  <2>1. p.pc \in Nat /\ p2.pc \in Nat
    BY DEF Peers
  <2>2. CASE k < l
    <3>1. u[j] = t[j] /\ u[k] = t[k] /\ j \in DOMAIN t /\ k \in DOMAIN t
      BY <1>1, <1>6, <2>2
    <3> QED  BY <1>8, <3>1 DEF Rising
  <2>3. CASE j < l /\ k >= l
    <3>1. u[j] = t[j] /\ j \in DOMAIN t /\ l \in DOMAIN t /\ t[l].q = q /\ u[k].pc = p2.pc
      BY <1>1, <1>6, <2>3
    <3>2. n <= t[j].pc /\ t[j].pc <= t[l].pc /\ t[j].pc \in Nat
      BY <1>1, <1>8, <2>3, <3>1 DEF Rising
    <3> QED  BY <1>1, <2>1, <3>1, <3>2
  <2>4. CASE j >= l
    <3>1. l \in DOMAIN t /\ t[l].q = q /\ u[j].pc = p2.pc /\ u[k].pc = p2.pc
      BY <1>1, <1>6, <2>4
    <3>2. n <= t[l].pc
      BY <1>1, <1>8, <3>1 DEF Rising
    <3> QED  BY <1>1, <2>1, <3>1, <3>2
  <2> QED  BY <1>1, <2>2, <2>3, <2>4
<1> QED  BY <1>7, <1>8 DEF Follows, t, u, s2

(* The first message is taken. *)
LEMMA SaysLess ==
  ASSUME NEW r \in WorkerStructs, NEW s \in Seq(Messages), NEW p \in Peers,
         NEW r2 \in WorkerStructs, NEW q \in Queries, s # <<>>,
         \/ Head(s).op = "EVICTED" /\ r2.q = Head(s).q /\ r2.pc = Head(s).pc
         \/ r2.q = r.q /\ r2.pc = r.pc
  PROVE  Follows(Says(r, s, p), Says(r2, Tail(s), p), q)
<1> DEFINE t == Says(r, s, p)
           s2 == Tail(s)
           u == Says(r2, s2, p)
           l == Len(s)
<1>1. /\ l \in Nat /\ DOMAIN t = 0 .. l + 1 /\ t[0] = r /\ t[l + 1] = p
      /\ l >= 1 /\ s[1] = Head(s) /\ (s[1].op = "EVICTED" => t[1] = s[1])
      /\ \A k \in DOMAIN t : t[k].pc \in Nat
  <2>1. Len(s) >= 1 /\ 1 \in 1 .. Len(s) /\ s[1] = Head(s)
    OBVIOUS
  <2> QED  BY <2>1, SaysIs
<1>2. s2 \in Seq(Messages) /\ Len(s2) + 1 = l /\ \A k \in 1 .. Len(s2) : s2[k] = s[k + 1]
  OBVIOUS
<1> HIDE DEF s2
<1>3. /\ DOMAIN u = 0 .. l /\ u[0] = r2 /\ u[l] = p
      /\ \A k \in DOMAIN u : u[k].pc \in Nat
  BY <1>2, SaysIs
<1>4. \A k \in 1 .. Len(s2) : u[k] = t[k + 1]
  <2> SUFFICES ASSUME NEW k \in 1 .. Len(s2) PROVE u[k] = t[k + 1]
    OBVIOUS
  <2>1. k \in Int /\ k # 0 /\ k # Len(s2) + 1 /\ k \in 0 .. Len(s2) + 1
    BY <1>2
  <2>2. k + 1 # 0 /\ k + 1 # Len(s) + 1 /\ k + 1 \in 0 .. Len(s) + 1
    BY <1>2, <2>1
  <2> QED  BY <1>2, <2>1, <2>2 DEF Says
<1>5. Len(s2) + 1 = l /\ Len(s2) \in Nat
  BY <1>2
<1> HIDE DEF t, u, l
<1>6. \A k \in 1 .. l : u[k] = t[k + 1]
  <2>1. \A k \in 1 .. l : k = l \/ k \in 1 .. Len(s2)
    BY <1>5
  <2> QED  BY <1>1, <1>3, <1>4, <2>1
<1>7. PICK z \in {0, 1} : u[0].q = t[z].q /\ u[0].pc = t[z].pc
  BY <1>1, <1>3
<1>8. Names(u, q) => Names(t, q)
  <2> SUFFICES ASSUME NEW k \in 0 .. l, u[k].q = q PROVE Names(t, q)
    BY <1>3 DEF Names
  <2>1. CASE k = 0
    BY <1>1, <1>7, <2>1 DEF Names
  <2>2. CASE k # 0
    <3>1. k \in 1 .. l /\ k + 1 \in DOMAIN t
      BY <1>1, <2>2
    <3> QED  BY <1>6, <3>1 DEF Names
  <2> QED  BY <2>1, <2>2
<1>9. ASSUME NEW n \in Nat, Rising(t, q, n) PROVE Rising(u, q, n)
  <2> SUFFICES ASSUME NEW j \in 0 .. l, NEW k \in 0 .. l, u[j].q = q, u[k].q = q, j <= k
               PROVE  n <= u[j].pc /\ u[j].pc <= u[k].pc
    BY <1>3 DEF Rising
  <2>1. PICK x \in DOMAIN t :
          u[j].q = t[x].q /\ u[j].pc = t[x].pc /\ x <= j + 1 /\ (j # 0 => x = j + 1)
          /\ (j = 0 => x = z)
    <3>1. CASE j = 0
      BY <1>1, <1>7, <3>1
    <3>2. CASE j # 0
      <4>1. j \in 1 .. l /\ j + 1 \in DOMAIN t
        BY <1>1, <3>2
      <4> QED  BY <1>6, <3>2, <4>1
    <3> QED  BY <3>1, <3>2
  <2>2. PICK y \in DOMAIN t :
          u[k].q = t[y].q /\ u[k].pc = t[y].pc /\ (k # 0 => y = k + 1) /\ (k = 0 => y = z)
    <3>1. CASE k = 0
      BY <1>1, <1>7, <3>1
    <3>2. CASE k # 0
      <4>1. k \in 1 .. l /\ k + 1 \in DOMAIN t
        BY <1>1, <3>2
      <4> QED  BY <1>6, <3>2, <4>1
    <3> QED  BY <3>1, <3>2
  <2>3. x <= y
    BY <1>1, <2>1, <2>2
  <2> QED  BY <1>9, <2>1, <2>2, <2>3 DEF Rising
<1> QED  BY <1>8, <1>9 DEF Follows, t, u, s2

(* A Query that nobody had answered for reaches a Worker. *)
LEMMA SaysNew ==
  ASSUME NEW r \in WorkerStructs, NEW s \in Seq(Messages), NEW p \in Peers, NEW p2 \in Peers,
         NEW q \in Queries, ~Names(Says(r, s, p), q)
  PROVE  Rising(Says(r, s, p2), q, 0)
<1> DEFINE t == Says(r, s, p)
           u == Says(r, s, p2)
           l == Len(s) + 1
<1>1. l \in Nat /\ DOMAIN t = 0 .. l /\ t[0] = r
  BY SaysIs
<1>2. /\ DOMAIN u = 0 .. l /\ u[0] = r /\ \A k \in DOMAIN u : u[k].pc \in Nat
  BY SaysIs
<1>3. \A k \in 1 .. Len(s) : u[k] = t[k]
  BY DEF Says
<1>4. ~Names(t, q)
  OBVIOUS
<1>5. Len(s) \in Nat /\ l = Len(s) + 1
  OBVIOUS
<1> HIDE DEF t, u, l
<1>6. \A k \in 0 .. l : u[k].q = q => k = l
  <2>1. \A k \in 0 .. l : k = 0 \/ k = l \/ k \in 1 .. Len(s)
    BY <1>5
  <2> QED  BY <1>1, <1>2, <1>3, <1>4, <2>1 DEF Names
<1>7. Rising(u, q, 0)
  <2> SUFFICES ASSUME NEW j \in 0 .. l, NEW k \in 0 .. l, u[j].q = q, u[k].q = q
               PROVE  0 <= u[j].pc /\ u[j].pc <= u[k].pc
    BY <1>2 DEF Rising
  <2>1. j = l /\ k = l /\ u[l].pc \in Nat
    BY <1>2, <1>6
  <2> QED  BY <2>1
<1> QED  BY <1>7 DEF u

-----------------------------------------------------------------------------
(* What a step does to the trails *)

LEMMA TrailSame ==
  ASSUME Inv, Inv', NEW w \in Workers, NEW q \in Queries,
         worker'[w].q = worker[w].q, worker'[w].pc = worker[w].pc,
         toMaster'[w] = toMaster[w],
         peer'[w].q = q => peer[w].q = q /\ peer[w].pc <= peer'[w].pc
  PROVE  Follows(Trail(w), Trail(w)', q)
<1>1. /\ worker[w] \in WorkerStructs /\ worker'[w] \in WorkerStructs
      /\ toMaster[w] \in Seq(Messages) /\ peer[w] \in Peers /\ peer'[w] \in Peers
  BY DEF Inv, TypeOK
<1>2. Follows(Says(worker[w], toMaster[w], peer[w]),
              Says(worker'[w], toMaster[w], peer'[w]), q)
  BY <1>1, SaysSame
<1> QED  BY <1>2 DEF Trail

LEMMA TrailKept ==
  ASSUME Inv, Inv', NEW w \in Workers, NEW q \in Queries,
         worker'[w].q = worker[w].q, worker'[w].pc = worker[w].pc,
         toMaster'[w] = toMaster[w], peer'[w] = peer[w]
  PROVE  Follows(Trail(w), Trail(w)', q)
<1>1. peer[w].pc <= peer[w].pc
  <2>1. peer[w].pc \in Nat
    BY Typed DEF Peers
  <2> QED  BY <2>1
<1> QED  BY <1>1, TrailSame

LEMMA TrailMore ==
  ASSUME Inv, Inv', NEW w \in Workers, NEW q \in Queries, NEW m \in Messages,
         worker' = worker, Answer(w, m),
         peer'[w].q = peer[w].q, peer[w].pc <= peer'[w].pc,
         m.op = "EVICTED" => m.q = peer[w].q /\ m.pc = peer'[w].pc
  PROVE  Follows(Trail(w), Trail(w)', q)
<1>1. /\ worker[w] \in WorkerStructs /\ toMaster[w] \in Seq(Messages)
      /\ peer[w] \in Peers /\ peer'[w] \in Peers /\ toMaster \in [Workers -> Seq(Messages)]
  BY DEF Inv, TypeOK
<1>2. toMaster'[w] = Append(toMaster[w], m) /\ worker'[w] = worker[w]
  BY <1>1 DEF Answer
<1>3. Follows(Says(worker[w], toMaster[w], peer[w]),
              Says(worker[w], Append(toMaster[w], m), peer'[w]), q)
  BY <1>1, SaysMore
<1> QED  BY <1>2, <1>3 DEF Trail

(* atender_interrupcion answers with the counter that it leaves. *)
LEMMA TrailInterrupted ==
  ASSUME Inv, Inv', NEW w \in Workers, NEW q \in Queries, NEW n \in Nat,
         n >= peer[w].pc, NEW at, NEW given, Interrupted(w, n, at, given)
  PROVE  Follows(Trail(w), Trail(w)', q)
<1>1. peer \in [Workers -> Peers] /\ peer[w] \in Peers /\ peer[w].q \in Queries \cup {NoQuery}
      /\ peer[w].pc \in Nat
  BY Typed DEF Peers
<1>2. peer'[w].q = peer[w].q /\ peer'[w].pc = n
  <2>1. peer' = [peer EXCEPT ![w] =
          [peer[w] EXCEPT !.pc = n, !.at = at, !.given = given, !.desalojado = FALSE]]
    BY Zenon DEF Interrupted, Becomes
  <2>2. peer'[w] =
          [peer[w] EXCEPT !.pc = n, !.at = at, !.given = given, !.desalojado = FALSE]
    BY <1>1, <2>1
  <2> QED  BY <1>1, <2>2 DEF Peers
<1>3. worker' = worker
  BY DEF Interrupted, Master
<1>4. peer[w].pc <= peer'[w].pc
  BY <1>1, <1>2
<1>5. CASE toMaster' = toMaster
  BY <1>2, <1>3, <1>4, <1>5, TrailSame
<1>6. CASE Answer(w, Message("EVICTED", peer[w].q, n))
  <2> DEFINE m == Message("EVICTED", peer[w].q, n)
  <2>1. m \in Messages
    BY <1>1, MessageTyped
  <2>2. m.q = peer[w].q /\ m.pc = n
    BY DEF Message
  <2>3. Answer(w, m)
    BY <1>6
  <2> HIDE DEF m
  <2> QED  BY <1>2, <1>3, <1>4, <2>1, <2>2, <2>3, TrailMore
<1> QED  BY <1>5, <1>6 DEF Interrupted

(* Which Query a Worker is given shows on its trail when it takes it. *)
Takes(w, q) ==
  /\ toWorker[w] # <<>> /\ Head(toWorker[w]).q = q
  /\ toWorker'[w] = Tail(toWorker[w])
  /\ peer'[w].q = q /\ worker' = worker /\ toMaster' = toMaster /\ query' = query

LEMMA PeerTrails ==
  ASSUME Inv, Inv', NEW w \in Workers, Peer(w) \/ PeerDies(w), NEW q \in Queries
  PROVE  Follows(Trail(w), Trail(w)', q) \/ Takes(w, q)
<1>1. /\ peer \in [Workers -> Peers] /\ toWorker \in [Workers -> Seq(Messages)]
      /\ peer[w] \in Peers /\ peer[w].pc \in Nat /\ peer[w].q \in Queries \cup {NoQuery}
      /\ peer[w].pc + 1 \in Nat /\ peer[w].pc + 0 \in Nat /\ 0 \in Nat
  BY Typed DEF Peers
<1>2. worker' = worker /\ query' = query
  BY PeerFrame DEF Master, states
<1>3. CASE PeerTakes(w)
  <2> DEFINE m == Head(toWorker[w])
             p == peer[w]
             b == CASE m.op = "EVICT" -> [p EXCEPT !.desalojado = TRUE]
                    [] p.at = "idle" -> [p EXCEPT !.q = m.q, !.pc = m.pc, !.at = "run"]
                    [] OTHER -> [p EXCEPT !.q = m.q, !.pc = m.pc, !.given = TRUE]
  <2>1. /\ toWorker[w] # <<>> /\ Becomes(w, b) /\ toMaster' = toMaster
        /\ toWorker' = [toWorker EXCEPT ![w] = Tail(@)]
    BY <1>3, Zenon DEF PeerTakes
  <2>2. (b.q = p.q /\ b.pc = p.pc) \/ b.q = m.q
    <3>1. \/ b = [p EXCEPT !.desalojado = TRUE]
          \/ b = [p EXCEPT !.q = m.q, !.pc = m.pc, !.at = "run"]
          \/ b = [p EXCEPT !.q = m.q, !.pc = m.pc, !.given = TRUE]
      OBVIOUS
    <3> HIDE DEF b, m
    <3> QED  BY <1>1, <3>1 DEF Peers
  <2> HIDE DEF b, m
  <2>3. peer'[w] = b /\ toWorker'[w] = Tail(toWorker[w])
    BY <1>1, <2>1 DEF Becomes
  <2>4. CASE b.q = p.q /\ b.pc = p.pc
    <3>1. peer[w].pc <= peer'[w].pc
      BY <1>1, <2>3, <2>4
    <3> QED  BY <1>2, <2>1, <2>3, <2>4, <3>1, TrailSame
  <2>5. CASE b.q = m.q /\ m.q # q
    BY <1>2, <2>1, <2>3, <2>5, TrailSame
  <2>6. CASE b.q = m.q /\ m.q = q
    BY <1>2, <2>1, <2>3, <2>6 DEF Takes, m
  <2> QED  BY <2>2, <2>4, <2>5, <2>6
<1>4. CASE PeerDies(w)
  <2>1. peer' = [peer EXCEPT ![w] = [FreshPeer EXCEPT !.up = FALSE]] /\ toMaster' = toMaster
    BY <1>4 DEF PeerDies, Becomes
  <2>2. peer'[w].q = NoQuery
    BY <1>1, <2>1 DEF FreshPeer
  <2>3. peer'[w].q # q
    BY <2>2, NoQueryIsNone
  <2> QED  BY <1>2, <2>1, <2>3, TrailSame
<1>5. CASE PeerErrs(w) \/ PeerEnds(w)
  <2> DEFINE m == Message("END", peer[w].q, 0)
  <2>1. m \in Messages
    BY <1>1, MessageTyped
  <2>2. m.op = "END"
    BY DEF Message
  <2>3. Answer(w, m)
    BY <1>5, Zenon DEF PeerErrs, PeerEnds
  <2>4. peer'[w].q = peer[w].q /\ peer'[w].pc = peer[w].pc
    <3>1. peer' = peer \/ peer' = [peer EXCEPT ![w] = [peer[w] EXCEPT !.at = "ended"]]
      BY <1>5, Zenon DEF PeerErrs, PeerEnds, Becomes
    <3>2. peer'[w] = peer[w] \/ peer'[w] = [peer[w] EXCEPT !.at = "ended"]
      BY <1>1, <3>1
    <3> QED  BY <1>1, <3>2 DEF Peers
  <2>5. peer[w].pc <= peer'[w].pc
    BY <1>1, <2>4
  <2> HIDE DEF m
  <2> QED  BY <1>2, <2>1, <2>2, <2>3, <2>4, <2>5, TrailMore
<1>6. CASE PeerSteps(w) \/ PeerEnded(w) \/ PeerLeaves(w) \/ PeerStops(w)
  <2>1. \E n \in {peer[w].pc, peer[w].pc + 1}, at \in {"idle", "run", "out"},
           given \in BOOLEAN : Interrupted(w, n, at, given)
    <3>1. CASE PeerSteps(w)
      <4>1. Interrupted(w, peer[w].pc + 1, IF peer[w].desalojado THEN "out" ELSE "run", FALSE)
        BY <3>1, Zenon DEF PeerSteps
      <4> QED  BY <4>1, Zenon
    <3>2. CASE PeerEnded(w)
      <4>1. Interrupted(w, peer[w].pc + 1, "out", peer[w].given) /\ peer[w].given \in BOOLEAN
        BY <1>1, <3>2 DEF PeerEnded, Peers
      <4> QED  BY <4>1, Zenon
    <3>3. CASE PeerLeaves(w)
      <4>1. PICK done \in {0, 1} : Interrupted(w, peer[w].pc + done, "out", TRUE)
        BY <3>3, Zenon DEF PeerLeaves
      <4>2. peer[w].pc + done \in {peer[w].pc, peer[w].pc + 1}
        BY <1>1, <4>1
      <4> QED  BY <4>1, <4>2, Zenon
    <3>4. CASE PeerStops(w)
      <4>1. Interrupted(w, peer[w].pc, IF peer[w].given THEN "run" ELSE "idle", FALSE)
        BY <3>4, Zenon DEF PeerStops
      <4> QED  BY <4>1, Zenon
    <3> QED  BY <1>6, <3>1, <3>2, <3>3, <3>4
  <2>2. PICK n \in {peer[w].pc, peer[w].pc + 1}, at \in {"idle", "run", "out"},
             given \in BOOLEAN : Interrupted(w, n, at, given)
    BY <2>1
  <2>3. n \in Nat /\ n >= peer[w].pc
    BY <1>1
  <2> QED  BY <2>2, <2>3, TrailInterrupted
<1> QED  BY <1>3, <1>4, <1>5, <1>6 DEF Peer, PeerGoes

LEMMA PeerOthers ==
  ASSUME Inv, NEW x \in Workers, Peer(x) \/ PeerDies(x), NEW w \in Workers, w # x
  PROVE  peer'[w] = peer[w] /\ toMaster'[w] = toMaster[w]
<1>1. /\ peer \in [Workers -> Peers] /\ toMaster \in [Workers -> Seq(Messages)]
  BY Typed
<1>2. \A p : Becomes(x, p) => peer'[w] = peer[w]
  BY <1>1 DEF Becomes
<1>3. \A m : Answer(x, m) => toMaster'[w] = toMaster[w]
  BY <1>1 DEF Answer
<1>4. peer'[w] = peer[w]
  <2>1. peer' = peer \/ \E p : Becomes(x, p)
    BY Zenon DEF Peer, PeerTakes, PeerSteps, PeerErrs, PeerGoes, PeerEnds, PeerEnded, PeerLeaves,
       PeerStops, PeerDies, Interrupted
  <2> QED  BY <1>2, <2>1
<1>5. toMaster'[w] = toMaster[w]
  <2>1. toMaster' = toMaster \/ \E m : Answer(x, m)
    BY Zenon DEF Peer, PeerTakes, PeerSteps, PeerErrs, PeerGoes, PeerEnds, PeerEnded, PeerLeaves,
       PeerStops, PeerDies, Interrupted
  <2> QED  BY <1>3, <2>1
<1> QED  BY <1>4, <1>5

(* Only TakeEvicted writes resp_desalojo. *)
LEMMA EvictionReads ==
  ASSUME Inv, NEW c \in Callers, Eviction(c), NEW w \in Workers
  PROVE  worker'[w].q = worker[w].q /\ worker'[w].pc = worker[w].pc
<1>1. worker \in [Workers -> WorkerStructs]
  BY Typed
<1>2. CASE worker' = worker
  BY <1>2
<1>3. CASE EvictSend(c)
  <2>1. worker' = [worker EXCEPT ![evict[c].w].estoy_desalojando = TRUE]
    BY <1>3, Zenon DEF EvictSend
  <2> QED  BY <1>1, <2>1 DEF WorkerStructs
<1>4. CASE EvictAnswered(c) /\ worker' # worker
  <2>1. worker' = [worker EXCEPT ![evict[c].w].sem = @ - 1]
    BY <1>4, Zenon DEF EvictAnswered, Crash
  <2> QED  BY <1>1, <2>1 DEF WorkerStructs
<1>5. CASE EvictRelease(c)
  <2>1. worker' = [worker EXCEPT ![evict[c].w].is_free = TRUE,
                                 ![evict[c].w].id_query = NoQuery]
    BY <1>5, Zenon DEF EvictRelease
  <2> QED  BY <1>1, <2>1 DEF WorkerStructs
<1>6. EvictCheck(c) \/ EvictReads(c) \/ EvictMove(c) => worker' = worker
  BY DEF EvictCheck, EvictReads, EvictMove
<1> QED  BY <1>2, <1>3, <1>4, <1>5, <1>6 DEF Eviction

LEMMA ServeTrails ==
  ASSUME Inv, Inv', NEW x \in Workers, Serve(x), NEW w \in Workers, NEW q \in Queries
  PROVE  Follows(Trail(w), Trail(w)', q)
<1>1. worker \in [Workers -> WorkerStructs] /\ toMaster \in [Workers -> Seq(Messages)]
  BY Typed
<1>2. peer' = peer
  BY ServeFrame
<1>3. CASE toMaster'[w] = toMaster[w] /\ worker'[w].q = worker[w].q /\ worker'[w].pc = worker[w].pc
  BY <1>2, <1>3, TrailKept
<1>4. ASSUME worker' = worker \/ Freed(x)
      PROVE  worker'[w].q = worker[w].q /\ worker'[w].pc = worker[w].pc
  <2>1. \/ worker'[w] = worker[w]
        \/ worker'[w] = [worker[w] EXCEPT !.id_query = NoQuery, !.is_free = TRUE]
    BY <1>1, <1>4 DEF Freed
  <2>2. worker[w] \in WorkerStructs
    BY <1>1
  <2> QED  BY <2>1, <2>2 DEF WorkerStructs
<1>5. ASSUME x = w, toMaster' = [toMaster EXCEPT ![x] = Tail(@)], toMaster[x] # <<>>,
             \/ /\ Head(toMaster[w]).op = "EVICTED"
                /\ worker'[w].q = Head(toMaster[w]).q /\ worker'[w].pc = Head(toMaster[w]).pc
             \/ worker'[w].q = worker[w].q /\ worker'[w].pc = worker[w].pc
      PROVE  Follows(Trail(w), Trail(w)', q)
  <2>1. /\ worker[w] \in WorkerStructs /\ toMaster[w] \in Seq(Messages) /\ peer[w] \in Peers
        /\ worker'[w] \in WorkerStructs
    BY DEF Inv, TypeOK
  <2>2. toMaster'[w] = Tail(toMaster[w])
    BY <1>1, <1>5
  <2>3. Follows(Says(worker[w], toMaster[w], peer[w]),
                Says(worker'[w], Tail(toMaster[w]), peer[w]), q)
    BY <1>5, <2>1, SaysLess
  <2> QED  BY <1>2, <2>2, <2>3 DEF Trail
<1>6. CASE TakeEvicted(x)
  <2> DEFINE m == Head(toMaster[x])
  <2>1. \/ worker' = worker /\ toMaster' = toMaster
        \/ /\ toMaster' = [toMaster EXCEPT ![x] = Tail(@)]
           /\ worker' = [worker EXCEPT ![x].q = m.q, ![x].pc = m.pc,
                                       ![x].estoy_desalojando = FALSE, ![x].sem = @ + 1]
    BY <1>6, Zenon DEF TakeEvicted, Crash, Taken, net
  <2>2. toMaster[x] # <<>> /\ m.op = "EVICTED"
    BY <1>6 DEF TakeEvicted, Arrives
  <2>3. CASE worker' = worker /\ toMaster' = toMaster
    BY <1>3, <2>3
  <2>4. CASE ~(worker' = worker /\ toMaster' = toMaster) /\ x = w
    <3>1. worker' = [worker EXCEPT ![x].q = m.q, ![x].pc = m.pc,
                                   ![x].estoy_desalojando = FALSE, ![x].sem = @ + 1]
      BY <2>1, <2>4
    <3>2. toMaster' = [toMaster EXCEPT ![x] = Tail(@)]
      BY <2>1, <2>4
    <3> HIDE DEF m
    <3>3. worker'[w].q = m.q /\ worker'[w].pc = m.pc
      BY <1>1, <2>4, <3>1 DEF WorkerStructs
    <3> QED  BY <1>5, <2>2, <2>4, <3>2, <3>3 DEF m
  <2>5. CASE ~(worker' = worker /\ toMaster' = toMaster) /\ x # w
    <3>1. worker'[w] = worker[w]
      <4> HIDE DEF m
      <4> QED  BY <1>1, <2>1, <2>5
    <3>2. toMaster'[w] = toMaster[w]
      BY <1>1, <2>1, <2>5
    <3> QED  BY <1>3, <3>1, <3>2
  <2> QED  BY <2>3, <2>4, <2>5
<1>7. CASE TakeEnd(x)
  <2>1. /\ worker' = worker \/ Freed(x)
        /\ toMaster' = toMaster \/ toMaster' = [toMaster EXCEPT ![x] = Tail(@)]
    BY <1>7, Zenon DEF TakeEnd, Crash, Taken, net
  <2>2. toMaster[x] # <<>>
    BY <1>7 DEF TakeEnd, Arrives
  <2>3. worker'[w].q = worker[w].q /\ worker'[w].pc = worker[w].pc
    BY <1>4, <2>1
  <2>4. CASE toMaster'[w] = toMaster[w]
    BY <1>3, <2>3, <2>4
  <2>5. CASE toMaster'[w] # toMaster[w]
    <3>1. x = w /\ toMaster' = [toMaster EXCEPT ![x] = Tail(@)]
      BY <1>1, <2>1, <2>5
    <3> QED  BY <1>5, <2>2, <2>3, <3>1
  <2> QED  BY <2>4, <2>5
<1>8. CASE EndExit(x) \/ EndFree(x) \/ LoseWorker(x) \/ LoseQuery(x) \/ RemoveWorker(x)
  <2>1. toMaster' = toMaster /\ (worker' = worker \/ Freed(x))
    BY <1>8, Zenon DEF EndExit, EndFree, LoseWorker, LoseQuery, RemoveWorker, Crash, net
  <2> QED  BY <1>3, <1>4, <2>1
<1> QED  BY <1>6, <1>7, <1>8 DEF Serve

LEMMA TrailsFollow ==
  ASSUME Inv, Inv', Next, NEW w \in Workers, NEW q \in Queries
  PROVE  Follows(Trail(w), Trail(w)', q) \/ Takes(w, q)
<1>1. worker \in [Workers -> WorkerStructs]
  BY Typed
<1>2. CASE toMaster' = toMaster /\ peer' = peer /\ worker' = worker
  BY <1>2, TrailKept
<1>3. CASE Schedule
  <2>1. toMaster' = toMaster /\ peer' = peer
    BY <1>3, ScheduleFrame
  <2>2. worker'[w].q = worker[w].q /\ worker'[w].pc = worker[w].pc
    <3>1. \/ worker' = worker
          \/ worker' = [worker EXCEPT ![sched.w].id_query = sched.q]
          \/ worker' = [worker EXCEPT ![sched.w].is_free = FALSE]
      BY <1>3, Zenon DEF Schedule, NothingToDo, ChooseWorker, PopQuery, ChooseByPriority,
         PopAgain, EvictFirst, SendQuery, ToExec, ToBusy, AgeQuery, SkipQuery, AgeEnd, Crash
    <3> QED  BY <1>1, <3>1 DEF WorkerStructs
  <2> QED  BY <2>1, <2>2, TrailKept
<1>4. ASSUME NEW c \in Callers, Eviction(c) PROVE Follows(Trail(w), Trail(w)', q)
  BY <1>4, EvictionFrame, EvictionReads, TrailKept
<1>5. ASSUME NEW x \in Workers, Peer(x) \/ PeerDies(x)
      PROVE  Follows(Trail(w), Trail(w)', q) \/ Takes(w, q)
  <2>1. CASE x = w
    BY <1>5, <2>1, PeerTrails
  <2>2. CASE x # w
    <3>1. peer'[w] = peer[w] /\ toMaster'[w] = toMaster[w]
      BY <1>5, <2>2, PeerOthers
    <3>2. worker' = worker
      BY <1>5, PeerFrame DEF Master
    <3> QED  BY <3>1, <3>2, TrailKept
  <2> QED  BY <2>1, <2>2
<1>6. \/ Schedule
      \/ \E c \in Callers : Eviction(c)
      \/ \E x \in Workers : Serve(x)
      \/ \E x \in Workers : Peer(x) \/ PeerDies(x)
      \/ toMaster' = toMaster /\ peer' = peer /\ worker' = worker
  BY AcceptFrame, HangupFrame, Zenon DEF Next, net
<1> QED  BY <1>2, <1>3, <1>4, <1>5, <1>6, ServeTrails

-----------------------------------------------------------------------------
(* What a step does to the counters that the Master keeps: only the answer to *)
(* an eviction sets one.                                                      *)
Answers(q) ==
  /\ worker' # worker /\ toMaster' = toMaster /\ peer' = peer
  /\ \E w \in Workers : worker[w].q = q /\ query'[q].pc = worker[w].pc

LEMMA QueryToPc ==
  ASSUME Inv, NEW q \in Queries, NEW to \in States \cup {"NONE"}, QueryTo(q, to)
  PROVE  \A p \in Queries : query'[p].pc = query[p].pc
  BY Typed, QueryToKeeps

LEMMA PcByEviction ==
  ASSUME Inv, NEW c \in Callers, Eviction(c), NEW q \in Queries
  PROVE  query'[q].pc = query[q].pc \/ Answers(q)
<1>1. CASE EvictMove(c)
  <2>1. evict[c].q \in Queries
    BY <1>1, Typed DEF EvictMove, CallsHold
  <2>2. evict[c].arg \in States \cup {"NONE"}
    BY Typed DEF Calls
  <2>3. QueryTo(evict[c].q, evict[c].arg)
    BY <1>1, Zenon DEF EvictMove
  <2> QED  BY <2>1, <2>2, <2>3, QueryToPc
<1>2. CASE EvictAnswered(c)
  <2> DEFINE v == evict[c].w
             p == worker[v].q
             n == worker[v].pc
  <2>1. /\ evict[c].pc = "wait" /\ worker[v].sem > 0
        /\ \/ UNCHANGED query
           \/ /\ Known(p) /\ query' = [query EXCEPT ![p].pc = n, ![p].sp = evict[c].to]
              /\ worker' = [worker EXCEPT ![v].sem = @ - 1]
    BY <1>2, Zenon DEF EvictAnswered, Crash, states
  <2>2. CASE UNCHANGED query
    BY <2>2
  <2>3. CASE ~UNCHANGED query
    <3>1. v \in Workers /\ worker \in [Workers -> WorkerStructs] /\ worker[v].sem \in Nat
      BY <2>1, Typed DEF CallsHold, WorkerStructs
    <3>2. p \in Queries /\ n \in Nat
      BY <2>1, <2>3, <3>1, Typed DEF WorkerStructs, Known
    <3>3. worker' # worker
      <4>1. worker'[v].sem = worker[v].sem - 1
        BY <2>1, <2>3, <3>1 DEF WorkerStructs
      <4> QED  BY <3>1, <4>1
    <3>4. toMaster' = toMaster /\ peer' = peer
      BY EvictionFrame
    <3>5. query' = [query EXCEPT ![p].pc = n, ![p].sp = evict[c].to]
      BY <2>1, <2>3
    <3>6. CASE q = p
      <4>1. query[p] \in QueryStructs /\ query \in [Queries -> QueryStructs]
        BY <3>2, Typed
      <4>2. query'[p].pc = n
        <5> HIDE DEF p, n
        <5> QED  BY <3>2, <3>5, <4>1 DEF QueryStructs
      <4> QED  BY <3>1, <3>3, <3>4, <3>6, <4>2 DEF Answers
    <3>7. CASE q # p
      <4>1. query'[q] = query[q]
        <5> HIDE DEF p, n
        <5> QED  BY <3>5, <3>7, Typed
      <4> QED  BY <4>1
    <3> QED  BY <3>6, <3>7
  <2> QED  BY <2>2, <2>3
<1>3. EvictCheck(c) \/ EvictSend(c) \/ EvictReads(c) \/ EvictRelease(c) => query' = query
  BY DEF EvictCheck, EvictSend, EvictReads, EvictRelease, states
<1> QED  BY <1>1, <1>2, <1>3 DEF Eviction

LEMMA PcSet ==
  ASSUME Inv, Fifo, NoEviction, Next, NEW q \in Queries
  PROVE  query'[q].pc = query[q].pc \/ Answers(q)
<1>1. query \in [Queries -> QueryStructs]
  BY Typed
<1>2. CASE query' = query
  BY <1>2
<1>3. ASSUME NEW p \in Queries, NEW to \in States, QueryTo(p, to)
      PROVE  query'[q].pc = query[q].pc
  BY <1>3, QueryToPc
<1>4. ASSUME NEW p \in Queries, ConnectQuery(p) PROVE query'[q].pc = query[q].pc
  <2>1. \E to : query' = [query EXCEPT ![p].sp = to]
    BY <1>4, Zenon DEF ConnectQuery
  <2> QED  BY <1>1, <2>1 DEF QueryStructs
<1>5. CASE Schedule
  <2>1. ChooseWorker \/ PopQuery \/ SendQuery \/ ToBusy => query' = query
    BY DEF ChooseWorker, PopQuery, SendQuery, ToBusy, states
  <2>2. CASE ToExec
    <3>1. sched.q \in Queries /\ QueryTo(sched.q, "EXEC") /\ "EXEC" \in States
      BY <2>2, Typed DEF ToExec, SchedulerHolds, States
    <3> QED  BY <1>3, <3>1
  <2> QED  BY <1>2, <1>5, <2>1, <2>2, FifoTurns
<1>6. ASSUME NEW w \in Workers, Serve(w) PROVE query'[q].pc = query[q].pc
  <2>1. CASE EndExit(w)
    <3>1. conn[w].q \in Queries /\ Moved(conn[w].q, "EXIT") /\ "EXIT" \in States \cup {"NONE"}
      BY <2>1, Typed DEF EndExit, ConnectionsHold, States
    <3> QED  BY <3>1, Typed, MovedKeeps
  <2>2. CASE LoseQuery(w) /\ Known(worker[w].id_query)
    <3>1. worker[w].id_query \in Queries /\ QueryTo(worker[w].id_query, "EXIT")
      BY <2>2, Typed, Zenon DEF LoseQuery, Known
    <3> QED  BY <1>3, <3>1 DEF States
  <2>3. LoseQuery(w) /\ ~Known(worker[w].id_query) => query' = query
    BY DEF LoseQuery, states
  <2>4. TakeEvicted(w) \/ TakeEnd(w) \/ EndFree(w) \/ LoseWorker(w) \/ RemoveWorker(w)
          => query' = query
    BY Zenon DEF TakeEvicted, TakeEnd, EndFree, LoseWorker, RemoveWorker, Crash, states
  <2> QED  BY <1>2, <1>6, <2>1, <2>2, <2>3, <2>4 DEF Serve
<1>7. ASSUME NEW p \in Queries, HangUp(p) \/ Closed(p) PROVE query'[q].pc = query[q].pc
  <2>1. CASE HangupExit(p)
    BY <1>3, <2>1 DEF HangupExit, States
  <2>2. HangUp(p) \/ HangupExec(p) => query' = query
    BY DEF HangUp, HangupExec, states
  <2> QED  BY <1>2, <1>7, <2>1, <2>2 DEF Closed
<1>8. \A w \in Workers : Peer(w) \/ PeerDies(w) => query' = query
  BY PeerFrame DEF Master, states
<1>9. ListQuery \/ (\E w \in Workers : ConnectWorker(w)) => query' = query
  BY DEF ListQuery, ConnectWorker, states
<1> QED  BY <1>2, <1>4, <1>5, <1>6, <1>7, <1>8, <1>9, PcByEviction DEF Next, Accept

-----------------------------------------------------------------------------
(* What is on its way *)

LEMMA PeerWays ==
  ASSUME Inv, NEW x \in Workers, Peer(x) \/ PeerDies(x), NEW w \in Workers
  PROVE  \/ toWorker'[w] = toWorker[w] \/ toWorker'[w] = <<>>
         \/ toWorker[w] # <<>> /\ toWorker'[w] = Tail(toWorker[w])
<1>1. toWorker \in [Workers -> Seq(Messages)]
  BY Typed
<1>2. CASE PeerTakes(x)
  <2>1. toWorker[x] # <<>> /\ toWorker' = [toWorker EXCEPT ![x] = Tail(@)]
    BY <1>2 DEF PeerTakes
  <2> QED  BY <1>1, <2>1
<1>3. CASE PeerDies(x)
  <2>1. toWorker' = [toWorker EXCEPT ![x] = <<>>]
    BY <1>3 DEF PeerDies
  <2> QED  BY <1>1, <2>1
<1>4. PeerSteps(x) \/ PeerErrs(x) \/ PeerGoes(x) => toWorker' = toWorker
  BY Zenon DEF PeerSteps, PeerErrs, PeerGoes, PeerEnds, PeerEnded, PeerLeaves, PeerStops,
     Interrupted
<1> QED  BY <1>2, <1>3, <1>4 DEF Peer

(* What becomes of the messages on their way to w. *)
Posts(w, m) ==
  /\ toWorker'[w] = Append(toWorker[w], m)
  /\ m.q \in Queries => Assigned(m.q)
Way(w) ==
  \/ toWorker'[w] = toWorker[w] \/ toWorker'[w] = <<>>
  \/ toWorker[w] # <<>> /\ toWorker'[w] = Tail(toWorker[w])
  \/ \E m \in Messages : Posts(w, m)

LEMMA Ways ==
  ASSUME Inv, Fifo, NoEviction, Next, NEW w \in Workers
  PROVE  Way(w)
<1>1. toWorker \in [Workers -> Seq(Messages)]
  BY Typed
<1>2. ASSUME NEW x \in Workers, NEW m \in Messages, Send(x, m), m.q \in Queries => Assigned(m.q)
      PROVE  Way(w)
  <2>1. toWorker' = toWorker \/ toWorker' = [toWorker EXCEPT ![x] = Append(toWorker[x], m)]
    <3>1. toWorker' = [toWorker EXCEPT ![x] =
                         IF peer[x].up THEN Append(toWorker[x], m) ELSE toWorker[x]]
      BY <1>2 DEF Send
    <3>2. CASE peer[x].up
      BY <3>1, <3>2, Zenon
    <3>3. CASE ~peer[x].up
      <4>1. toWorker' = [toWorker EXCEPT ![x] = toWorker[x]]
        BY <3>1, <3>3, Zenon
      <4> QED  BY <1>1, <4>1
    <3> QED  BY <3>2, <3>3
  <2>2. toWorker'[w] = toWorker[w] \/ toWorker'[w] = Append(toWorker[w], m)
    BY <1>1, <2>1
  <2>3. toWorker'[w] = Append(toWorker[w], m) => Posts(w, m)
    BY <1>2 DEF Posts
  <2> QED  BY <2>2, <2>3 DEF Way
<1>3. CASE SendQuery /\ sched.pc = "assign"
  <2> DEFINE m == Message("EXECUTE", sched.q, query[sched.q].pc)
  <2>1. sched.w \in Workers /\ sched.q \in Queries /\ Send(sched.w, m)
    BY <1>3, Typed DEF SendQuery, SchedulerHolds
  <2>2. m \in Messages /\ m.q = sched.q
    <3>1. query[sched.q].pc \in Nat
      BY <2>1, Typed DEF QueryStructs
    <3> QED  BY <2>1, <3>1, MessageTyped DEF Message
  <2>3. Assigned(m.q)
    BY <1>3, <2>2 DEF Assigned
  <2> HIDE DEF m
  <2> QED  BY <1>2, <2>1, <2>2, <2>3
<1>4. ASSUME NEW c \in Callers, EvictSend(c)
      PROVE  Way(w)
  <2>1. /\ evict[c].w \in Workers /\ Send(evict[c].w, Evict)
        /\ Evict \in Messages /\ Evict.q = NoQuery
    BY <1>4, Typed DEF EvictSend, CallsHold, Evict, Message, Messages
  <2>2. Evict.q \notin Queries
    BY <2>1, NoQueryIsNone
  <2> QED  BY <1>2, <2>1, <2>2
<1>5. \/ toWorker' = toWorker
      \/ SendQuery /\ sched.pc = "assign"
      \/ \E c \in Callers : EvictSend(c)
      \/ \E x \in Workers : Peer(x) \/ PeerDies(x)
  <2>1. Schedule => toWorker' = toWorker \/ (SendQuery /\ sched.pc = "assign")
    <3>1. ChooseWorker \/ PopQuery \/ ToExec \/ ToBusy => toWorker' = toWorker
      BY Zenon DEF ChooseWorker, PopQuery, ToExec, ToBusy, net
    <3> QED  BY <3>1, FifoTurns
  <2>2. \A c \in Callers : Eviction(c) /\ ~EvictSend(c) => toWorker' = toWorker
    BY Zenon DEF Eviction, EvictCheck, EvictAnswered, EvictReads, EvictMove, EvictRelease,
       Crash, net
  <2>3. \/ toWorker' = toWorker \/ Schedule \/ (\E c \in Callers : Eviction(c))
        \/ \E x \in Workers : Peer(x) \/ PeerDies(x)
    BY AcceptFrame, ServeFrame, HangupFrame, Zenon DEF Next, net
  <2> QED  BY <2>1, <2>2, <2>3
<1>6. toWorker' = toWorker => Way(w)
  BY DEF Way
<1>7. (\E x \in Workers : Peer(x) \/ PeerDies(x)) => Way(w)
  BY PeerWays DEF Way
<1> QED  BY <1>3, <1>4, <1>5, <1>6, <1>7

LEMMA StaysSentOnce ==
  ASSUME Inv, Fifo, NoEviction, GivenOnce, SentOnce, Next
  PROVE  SentOnce'
<1> SUFFICES ASSUME NEW w \in Workers,
                    NEW i \in DOMAIN toWorker'[w], NEW j \in DOMAIN toWorker'[w],
                    toWorker'[w][i].q \in Queries, toWorker'[w][i].q = toWorker'[w][j].q
             PROVE  i = j
  BY DEF SentOnce
<1> DEFINE s == toWorker[w]
<1>1. s \in Seq(Messages)
  BY Typed
<1>2. \A k, l \in DOMAIN s : s[k].q \in Queries /\ s[k].q = s[l].q => k = l
  BY DEF SentOnce
<1>3. CASE toWorker'[w] = toWorker[w] \/ toWorker'[w] = <<>>
  BY <1>2, <1>3
<1>4. CASE toWorker[w] # <<>> /\ toWorker'[w] = Tail(toWorker[w])
  <2>1. \A k \in DOMAIN Tail(s) : k + 1 \in DOMAIN s /\ Tail(s)[k] = s[k + 1] /\ k \in Nat
    <3> HIDE DEF s
    <3> QED  BY <1>1, <1>4
  <2>2. toWorker'[w] = Tail(s)
    BY <1>4
  <2> HIDE DEF s
  <2>3. i + 1 = j + 1
    BY <1>2, <2>1, <2>2
  <2> QED  BY <2>1, <2>2, <2>3
<1>5. ASSUME NEW m \in Messages, Posts(w, m)
      PROVE  i = j
  <2>1. \A k \in DOMAIN Append(s, m) :
          (k \in DOMAIN s /\ Append(s, m)[k] = s[k])
          \/ (k = Len(s) + 1 /\ Append(s, m)[k] = m)
    <3> HIDE DEF s
    <3> QED  BY <1>1, <1>5
  <2>2. m.q \in Queries => \A k \in DOMAIN s : s[k].q # m.q
    BY <1>5 DEF Posts, GivenOnce, Sent, OnItsWay
  <2>3. toWorker'[w] = Append(s, m)
    BY <1>5 DEF Posts
  <2> HIDE DEF s
  <2> QED  BY <1>2, <2>1, <2>2, <2>3
<1>6. Way(w)
  BY Ways, Zenon
<1> QED  BY <1>3, <1>4, <1>5, <1>6 DEF Way

LEMMA OnTheWay ==
  ASSUME Inv, Fifo, NoEviction, Next, NEW w \in Workers, NEW q \in Queries, OnItsWay(q, w)'
  PROVE  OnItsWay(q, w) \/ Assigned(q)
<1> DEFINE s == toWorker[w]
<1>1. s \in Seq(Messages)
  BY Typed
<1>2. PICK i \in DOMAIN toWorker'[w] : toWorker'[w][i].q = q
  BY DEF OnItsWay
<1>3. CASE toWorker'[w] = toWorker[w] \/ toWorker'[w] = <<>>
  BY <1>2, <1>3 DEF OnItsWay
<1>4. CASE toWorker[w] # <<>> /\ toWorker'[w] = Tail(toWorker[w])
  <2>1. \A k \in DOMAIN Tail(s) : k + 1 \in DOMAIN s /\ Tail(s)[k] = s[k + 1]
    <3> HIDE DEF s
    <3> QED  BY <1>1, <1>4
  <2> QED  BY <1>2, <1>4, <2>1 DEF OnItsWay
<1>5. ASSUME NEW m \in Messages, Posts(w, m)
      PROVE  OnItsWay(q, w) \/ Assigned(q)
  <2>1. \A k \in DOMAIN Append(s, m) :
          (k \in DOMAIN s /\ Append(s, m)[k] = s[k]) \/ Append(s, m)[k] = m
    <3> HIDE DEF s
    <3> QED  BY <1>1, <1>5
  <2>2. toWorker'[w] = Append(s, m) /\ (m.q \in Queries => Assigned(m.q))
    BY <1>5 DEF Posts
  <2> QED  BY <1>2, <2>1, <2>2 DEF OnItsWay
<1>6. Way(w)
  BY Ways, Zenon
<1> QED  BY <1>3, <1>4, <1>5, <1>6 DEF Way

LEMMA UnstartedBefore ==
  ASSUME Inv, Fifo, NoEviction, Next, NEW q \in Queries, Unstarted(q)'
  PROVE  Unstarted(q)
<1>1. /\ query[q].sp # "NONE" => query'[q].sp # "NONE"
      /\ In(q, ready') => In(q, ready) \/ query[q].sp = "NONE"
  BY AheadNext DEF Ahead
<1>2. Assigned(q)' => In(q, ready) \/ Assigned(q)
  <2>1. CASE Schedule
    BY <2>1, FifoSchedule DEF Assigned
  <2>2. CASE sched' = sched
    BY <2>2 DEF Assigned
  <2> QED  BY <2>1, <2>2, AcceptFrame, EvictionFrame, ServeFrame, HangupFrame, PeerFrame, Zenon
           DEF Next, Master
<1>3. \A w \in Workers : OnItsWay(q, w)' => OnItsWay(q, w) \/ Assigned(q)
  BY OnTheWay
<1>4. query'[q].sp = "NONE" \/ In(q, ready') \/ Assigned(q)' \/ \E w \in Workers : OnItsWay(q, w)'
  BY DEF Unstarted, In
<1> QED  BY <1>1, <1>2, <1>3, <1>4 DEF Unstarted

-----------------------------------------------------------------------------
(* The invariant *)

(* What is given to a Worker is on its way once, and has no trail yet. *)
LEMMA TakenIsNew ==
  ASSUME Inv, GivenOnce, GivenOnce', PcInv, NEW w \in Workers, NEW q \in Queries, Takes(w, q)
  PROVE  /\ OnItsWay(q, w) /\ Unstarted(q) /\ query[q].pc = 0
         /\ \A x \in Workers : ~Names(Trail(x), q)
         /\ ~Unstarted(q)'
<1> DEFINE s == toWorker[w]
<1>1. s \in Seq(Messages) /\ s # <<>> /\ Head(s).q = q
  BY Typed DEF Takes
<1>2. /\ 1 \in DOMAIN s /\ s[1].q = q
      /\ \A k \in DOMAIN Tail(s) :
           k + 1 \in DOMAIN s /\ Tail(s)[k] = s[k + 1] /\ k \in Nat /\ k # 0
  <2> HIDE DEF s
  <2> QED  BY <1>1
<1>3. OnItsWay(q, w) /\ Unstarted(q)
  BY <1>2 DEF OnItsWay, Unstarted
<1>4. query[q].pc = 0 /\ \A x \in Workers : ~Names(Trail(x), q)
  BY <1>3 DEF PcInv, Unmarked
<1>5. ~OnItsWay(q, w)'
  <2> SUFFICES ASSUME NEW k \in DOMAIN Tail(s), Tail(s)[k].q = q PROVE FALSE
    BY DEF Takes, OnItsWay
  <2>1. \A i, j \in DOMAIN s : s[i].q \in Queries /\ s[i].q = s[j].q => i = j
    BY DEF PcInv, SentOnce
  <2>2. k + 1 \in DOMAIN s /\ s[k + 1].q = q /\ k \in Nat /\ k # 0
    BY <1>2
  <2> HIDE DEF s
  <2>3. 1 = k + 1
    BY <1>2, <2>1, <2>2
  <2> QED  BY <2>2, <2>3
<1>6. Sent(q, w)'
  BY DEF Takes, Sent
<1>7. /\ \A x \in Workers : Sent(q, x)' => w = x
      /\ query'[q].sp # "NONE" /\ ~In(q, ready') /\ ~Assigned(q)'
  BY <1>6 DEF GivenOnce, In
<1>8. \A x \in Workers : ~OnItsWay(q, x)'
  BY <1>5, <1>7 DEF Sent
<1>9. ~Unstarted(q)'
  <2>1. Unstarted(q)' => \/ query'[q].sp = "NONE" \/ In(q, ready') \/ Assigned(q)'
                        \/ \E x \in Workers : OnItsWay(q, x)'
    BY DEF Unstarted, In
  <2> QED  BY <1>7, <1>8, <2>1
<1> QED  BY <1>3, <1>4, <1>9

(* An answer that sets a counter is the oldest of the Query's trail. *)
LEMMA AnswerIsLeast ==
  ASSUME Inv, PcInv, NEW q \in Queries, Answers(q)
  PROVE  \E w \in Workers :
           /\ Names(Trail(w), q)
           /\ query[q].pc <= query'[q].pc
           /\ Rising(Trail(w), q, query'[q].pc)
<1>1. PICK w \in Workers : worker[w].q = q /\ query'[q].pc = worker[w].pc
  BY DEF Answers
<1> DEFINE t == Trail(w)
<1>2. DOMAIN t = 0 .. Len(toMaster[w]) + 1 /\ Len(toMaster[w]) \in Nat /\ t[0] = worker[w]
      /\ \A k \in DOMAIN t : t[k].pc \in Nat
  <2>1. worker[w] \in WorkerStructs /\ toMaster[w] \in Seq(Messages) /\ peer[w] \in Peers
    BY Typed
  <2> QED  BY <2>1, SaysIs DEF Trail
<1>3. Rising(t, q, query[q].pc)
  BY DEF PcInv, AllRising
<1> HIDE DEF t
<1>4. 0 \in DOMAIN t /\ \A k \in DOMAIN t : 0 <= k
  BY <1>2
<1>5. t[0].q = q /\ t[0].pc = query'[q].pc
  BY <1>1, <1>2
<1>6. Names(t, q)
  BY <1>4, <1>5 DEF Names
<1>7. query[q].pc <= query'[q].pc
  BY <1>2, <1>3, <1>4, <1>5 DEF Rising
<1>8. Rising(t, q, query'[q].pc)
  <2> SUFFICES ASSUME NEW j \in DOMAIN t, NEW k \in DOMAIN t, t[j].q = q, t[k].q = q, j <= k
               PROVE  query'[q].pc <= t[j].pc /\ t[j].pc <= t[k].pc
    BY DEF Rising
  <2>1. t[j].pc <= t[k].pc
    BY <1>3 DEF Rising
  <2>2. t[0].pc <= t[j].pc
    BY <1>3, <1>4, <1>5 DEF Rising
  <2> QED  BY <1>5, <2>1, <2>2
<1> QED  BY <1>6, <1>7, <1>8 DEF t

LEMMA StaysUnmarked ==
  ASSUME Inv, Inv', Fifo, NoEviction, GivenOnce, GivenOnce', PcInv, Next
  PROVE  Unmarked'
<1> SUFFICES ASSUME NEW q \in Queries, Unstarted(q)'
             PROVE  query'[q].pc = 0 /\ \A w \in Workers : ~Names(Trail(w), q)'
  BY DEF Unmarked
<1>1. query[q].pc = 0 /\ \A w \in Workers : ~Names(Trail(w), q)
  BY UnstartedBefore DEF PcInv, Unmarked
<1>2. query'[q].pc = 0
  BY <1>1, PcSet, AnswerIsLeast
<1>3. ASSUME NEW w \in Workers PROVE ~Names(Trail(w), q)'
  <2>1. ~Takes(w, q)
    BY TakenIsNew
  <2>2. Follows(Trail(w), Trail(w)', q)
    BY <2>1, TrailsFollow
  <2> QED  BY <1>1, <2>2 DEF Follows, Names
<1> QED  BY <1>2, <1>3

LEMMA StaysMarkedOnce ==
  ASSUME Inv, Inv', Fifo, NoEviction, GivenOnce, GivenOnce', PcInv, Next
  PROVE  MarkedOnce'
<1> SUFFICES ASSUME NEW q \in Queries, NEW w \in Workers, NEW x \in Workers,
                    Names(Trail(w), q)', Names(Trail(x), q)'
             PROVE  w = x
  BY DEF MarkedOnce
<1>1. ASSUME NEW v \in Workers, Names(Trail(v), q)' PROVE Names(Trail(v), q) \/ Takes(v, q)
  BY <1>1, TrailsFollow DEF Follows, Names
<1>2. CASE Names(Trail(w), q) /\ Names(Trail(x), q)
  BY <1>2 DEF PcInv, MarkedOnce
<1>3. CASE Takes(w, q)
  <2>1. OnItsWay(q, w) /\ ~Names(Trail(x), q)
    BY <1>3, TakenIsNew
  <2>2. Takes(x, q)
    BY <1>1, <2>1
  <2>3. OnItsWay(q, x)
    BY <2>2, TakenIsNew
  <2> QED  BY <2>1, <2>3 DEF GivenOnce, Sent
<1>4. CASE Takes(x, q)
  <2>1. OnItsWay(q, x) /\ ~Names(Trail(w), q)
    BY <1>4, TakenIsNew
  <2>2. Takes(w, q)
    BY <1>1, <2>1
  <2>3. OnItsWay(q, w)
    BY <2>2, TakenIsNew
  <2> QED  BY <2>1, <2>3 DEF GivenOnce, Sent
<1> QED  BY <1>1, <1>2, <1>3, <1>4

LEMMA StaysRising ==
  ASSUME Inv, Inv', Fifo, NoEviction, GivenOnce, GivenOnce', PcInv, Next
  PROVE  AllRising'
<1> SUFFICES ASSUME NEW q \in Queries, NEW w \in Workers
             PROVE  Rising(Trail(w)', q, query'[q].pc)
  BY DEF AllRising, Rising
<1>1. query[q].pc \in Nat /\ query'[q].pc \in Nat
  <2>1. query[q] \in QueryStructs /\ query'[q] \in QueryStructs
    BY DEF Inv, TypeOK
  <2> QED  BY <2>1 DEF QueryStructs
<1>2. CASE Takes(w, q)
  <2>1. query[q].pc = 0 /\ ~Names(Trail(w), q) /\ query' = query
    BY <1>2, TakenIsNew DEF Takes
  <2>2. /\ worker[w] \in WorkerStructs /\ toMaster[w] \in Seq(Messages)
        /\ peer[w] \in Peers /\ peer'[w] \in Peers
    BY DEF Inv, TypeOK
  <2>3. Rising(Says(worker[w], toMaster[w], peer'[w]), q, 0)
    BY <2>1, <2>2, SaysNew DEF Trail
  <2>4. worker' = worker /\ toMaster' = toMaster
    BY <1>2 DEF Takes
  <2> QED  BY <2>1, <2>3, <2>4 DEF Trail
<1>3. CASE Follows(Trail(w), Trail(w)', q) /\ query'[q].pc = query[q].pc
  <2>1. Rising(Trail(w), q, query[q].pc)
    BY DEF PcInv, AllRising
  <2> QED  BY <1>1, <1>3, <2>1 DEF Follows
<1>4. CASE Follows(Trail(w), Trail(w)', q) /\ Answers(q)
  <2>1. PICK v \in Workers : Names(Trail(v), q) /\ Rising(Trail(v), q, query'[q].pc)
    BY <1>4, AnswerIsLeast
  <2>2. CASE v = w
    BY <1>1, <1>4, <2>1, <2>2 DEF Follows
  <2>3. CASE v # w
    <3>1. ~Names(Trail(w), q)
      BY <2>1, <2>3 DEF PcInv, MarkedOnce
    <3>2. ~Names(Trail(w)', q)
      BY <1>4, <3>1 DEF Follows
    <3> QED  BY <3>2 DEF Names, Rising
  <2> QED  BY <2>2, <2>3
<1> QED  BY <1>2, <1>3, <1>4, TrailsFollow, PcSet

LEMMA PcHolds ==
  ASSUME \A s \in Setups : s.mode = "FIFO"
  PROVE  Spec => [](Inv /\ FifoInv /\ PcInv)
<1>1. Inv => Fifo
  BY Typed DEF TypeOK, Fifo
<1>2. Init => PcInv
  <2> SUFFICES ASSUME Init PROVE PcInv
    OBVIOUS
  <2>1. \A w \in Workers : /\ worker[w] = FreshWorker /\ toMaster[w] = <<>>
                           /\ peer[w] = FreshPeer /\ toWorker[w] = <<>>
    BY DEF Init
  <2>2. ASSUME NEW w \in Workers, NEW q \in Queries PROVE ~Names(Trail(w), q)
    <3> DEFINE t == Trail(w)
    <3>1. t = [k \in 0 .. 1 |-> IF k = 0 THEN FreshWorker ELSE FreshPeer]
      <4>1. Len(<<>>) = 0 /\ 0 + 1 = 1
        OBVIOUS
      <4>2. t = Says(FreshWorker, <<>>, FreshPeer)
        BY <2>1 DEF Trail
      <4> HIDE DEF t
      <4>3. \A k \in 0 .. 1 : k = 0 \/ k = 1
        OBVIOUS
      <4> QED  BY <4>1, <4>2, <4>3 DEF Says
    <3>2. FreshWorker.q = NoQuery /\ FreshPeer.q = NoQuery
      BY DEF FreshWorker, FreshPeer
    <3> HIDE DEF t
    <3>3. \A k \in DOMAIN t : t[k].q = NoQuery
      BY <3>1, <3>2
    <3> QED  BY <3>3, NoQueryIsNone DEF Names, t
  <2>3. SentOnce
    BY <2>1 DEF SentOnce
  <2>4. Unmarked
    BY <2>2 DEF Unmarked, Init
  <2>5. MarkedOnce
    BY <2>2 DEF MarkedOnce
  <2>6. AllRising
    BY <2>2 DEF AllRising, Rising, Names
  <2> QED  BY <2>3, <2>4, <2>5, <2>6 DEF PcInv
<1>3. Inv /\ FifoInv /\ PcInv /\ [Next]_vars /\ Inv' /\ FifoInv' => PcInv'
  <2> SUFFICES ASSUME Inv, FifoInv, PcInv, [Next]_vars, Inv', FifoInv' PROVE PcInv'
    OBVIOUS
  <2>1. Fifo /\ NoEviction /\ GivenOnce
    BY <1>1 DEF FifoInv
  <2>2. CASE Next
    <3>1. setup' = setup
      BY <2>2, AcceptFrame, ScheduleFrame, EvictionFrame, ServeFrame, HangupFrame, PeerFrame,
         Zenon DEF Next, Master
    <3>2. Fifo'
      BY <2>1, <3>1 DEF Fifo
    <3>3. GivenOnce'
      BY <3>2 DEF FifoInv
    <3>4. SentOnce'
      BY <2>1, <2>2, StaysSentOnce DEF PcInv
    <3>5. Unmarked' /\ MarkedOnce' /\ AllRising'
      BY <2>1, <2>2, <3>3, StaysUnmarked, StaysMarkedOnce, StaysRising
    <3> QED  BY <3>4, <3>5 DEF PcInv
  <2>3. CASE UNCHANGED vars
    <3>1. UNCHANGED <<query, ready, sched, toWorker, toMaster, peer, worker>>
      BY <2>3 DEF vars, states
    <3>2. SentOnce' /\ MarkedOnce' /\ AllRising'
      BY <3>1 DEF PcInv, SentOnce, MarkedOnce, AllRising, Trail
    <3>3. Unmarked'
      BY <3>1 DEF PcInv, Unmarked, Trail, Unstarted, OnItsWay, Assigned, In
    <3> QED  BY <3>2, <3>3 DEF PcInv
  <2> QED  BY <2>2, <2>3
<1> QED  BY <1>2, <1>3, FifoHolds, PTL DEF Spec

(* Under FIFO the counter of a Query only goes on, for any number of Queries  *)
(* and Workers: what the Master learns from the answer to an eviction is      *)
(* never behind what it knew, however late the answer comes and whatever the  *)
(* Worker was given meanwhile (_desalojo_abstract, work_worker,               *)
(* atender_interrupcion).                                                     *)
THEOREM NeverBack ==
  ASSUME \A s \in Setups : s.mode = "FIFO"
  PROVE  Spec => PcNeverFalls
<1>1. Inv => Fifo
  BY Typed DEF TypeOK, Fifo
<1>2. Inv /\ FifoInv /\ PcInv /\ [Next]_vars
        => [\A q \in Queries : query'[q].pc >= query[q].pc]_vars
  <2> SUFFICES ASSUME Inv, FifoInv, PcInv, Next, NEW q \in Queries
               PROVE  query'[q].pc >= query[q].pc
    OBVIOUS
  <2>1. Fifo /\ NoEviction
    BY <1>1 DEF FifoInv
  <2>2. query[q].pc \in Nat /\ query'[q].pc \in Nat
    <3>1. Inv'
      BY StepSafe
    <3>2. query[q] \in QueryStructs /\ query'[q] \in QueryStructs
      BY <3>1 DEF Inv, TypeOK
    <3> QED  BY <3>2 DEF QueryStructs
  <2> QED  BY <2>1, <2>2, PcSet, AnswerIsLeast
<1> QED  BY <1>2, PcHolds, PTL DEF Spec, PcNeverFalls

=============================================================================
