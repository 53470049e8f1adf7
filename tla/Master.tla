------------------------------- MODULE Master -------------------------------
(****************************************************************************)
(* The Master's scheduler of Queries.  A Query Control hands in a Query; it *)
(* waits in READY, runs in EXEC on a Worker, and ends in EXIT.  The threads *)
(* are: the one that accepts connections, the scheduler, one per Worker and *)
(* one per Query Control that is connected, and one per eviction that aging *)
(* asks for.  A Worker is what the Master sees of it: it executes the       *)
(* instructions of one Query and looks for an eviction after each.          *)
(*                                                                          *)
(* A step is a section under safe_query_to, or the accesses to the shared   *)
(* structures between two that another thread can observe.                  *)
(****************************************************************************)
EXTENDS Integers, Sequences, FiniteSets

CONSTANTS
  NQueries,    \* Query Controls that may connect
  Workers,     \* the Workers, each of which connects at most once
  NoOne,       \* not a Worker
  Setups,      \* the configurations of the system
  Priority,    \* the priority of each Query: 0 is the highest
  MaxEvictors, \* bound: threads that evict the Query of one Worker at once
  FreshStates  \* what the sp of a query* may hold before it is assigned

Queries == 0 .. NQueries - 1
NoQuery == -1
States == {"READY", "EXEC", "EXIT"}

ASSUME QueriesAssumption == NQueries \in Nat /\ Priority \in [Queries -> Nat]
ASSUME WorkersAssumption == NoOne \notin Workers
ASSUME BoundsAssumption == MaxEvictors \in Nat /\ FreshStates \subseteq States

(* algoritmo_planificacion and tiempo_aging of master.config; the Workers that *)
(* may connect, and those of them that may disconnect; the Query Controls that *)
(* may be stopped before their Query ends; whether a peer may react before the *)
(* threads of the Master are at rest; the longest a Query may be; whether one  *)
(* instruction may report several errors.                                      *)
ASSUME SetupsAssumption ==
  Setups \subseteq
    [mode : {"FIFO", "AGING", "PRIORITY"}, crew : SUBSET Workers, mortal : SUBSET Workers,
     impatient : SUBSET Queries, prompt : BOOLEAN, maxpc : Nat,
     repeats : BOOLEAN]

(* The threads that run _desalojo_abstract. *)
Scheduler == <<"scheduler", NoOne, 0>>
Hangup(q) == <<"query", NoOne, q>>
Evictor(w, n) == <<"evictor", w, n>>
Callers == {Scheduler} \cup {Hangup(q) : q \in Queries}
           \cup {Evictor(w, n) : w \in Workers, n \in 1 .. MaxEvictors}

VARIABLES
  setup,    \* one of Setups
  query,    \* the query structs
  queries,  \* the list queries
  ready,    \* the queue READY of dict_state
  lists,    \* its lists EXEC and EXIT
  told,     \* the Query Controls that were sent REQUEST_KILL
  worker,   \* the worker structs
  workers,  \* the list workers
  acceptor, \* the Query that the accepting thread is about to list
  sched,    \* the scheduler's thread
  conn,     \* the thread of each Worker's connection
  hangup,   \* the thread of each Query Control's connection
  evict,    \* the calls of _desalojo_abstract
  toWorker, \* messages in flight to each Worker
  toMaster, \* and from it
  peer,     \* the Workers
  up        \* FALSE once the process has died on a null pointer

vars == <<setup, query, queries, ready, lists, told, worker, workers, acceptor, sched,
          conn, hangup, evict, toWorker, toMaster, peer, up>>
states == <<query, ready, lists, told>>
net == <<toWorker, toMaster, peer>>

Messages == [op : {"EXECUTE", "EVICT", "EVICTED", "END"},
             q : Queries \cup {NoQuery}, pc : Nat]
Message(op, q, pc) == [op |-> op, q |-> q, pc |-> pc]
Evict == Message("EVICT", NoQuery, 0)

(* sem_desalojo is the semaphore, q and pc are those of resp_desalojo. *)
FreshWorker == [id_query |-> NoQuery, is_free |-> TRUE, estoy_desalojando |-> FALSE,
                sem |-> 0, q |-> NoQuery, pc |-> 0]
FreshPeer == [q |-> NoQuery, pc |-> 0, given |-> FALSE, at |-> "idle", desalojado |-> FALSE,
              up |-> TRUE]
NoCall == [pc |-> "idle", w |-> NoOne, to |-> "READY", q |-> NoQuery, blind |-> FALSE,
           arg |-> "NONE"]

(* The structs of the Queries and of the Workers, where the threads are, and   *)
(* what they hold there.                                                      *)
QueryStructs == [sp : States \cup {"NONE"}, pc : Nat, priority : Nat]
WorkerStructs == [id_query : Queries \cup {NoQuery}, is_free : BOOLEAN,
                  estoy_desalojando : BOOLEAN, sem : Nat, q : Queries \cup {NoQuery}, pc : Nat]
SchedulerAt == [pc : {"execute", "pop", "again", "assign", "send", "exec", "busy", "age"},
                w : Workers \cup {NoOne}, q : Queries \cup {NoQuery}, i : Nat]
ConnectionAt == [pc : {"none", "idle", "exit", "free", "lost", "remove", "gone"},
                 q : Queries \cup {NoQuery}, i : Nat]
Calls == [pc : {"idle", "check", "send", "wait", "move", "release"},
          w : Workers \cup {NoOne}, to : {"READY", "EXIT"},
          q : Queries \cup {NoQuery}, blind : BOOLEAN, arg : States \cup {"NONE"}]
Peers == [q : Queries \cup {NoQuery}, pc : Nat, given : BOOLEAN,
          at : {"idle", "run", "ended", "out"}, desalojado : BOOLEAN, up : BOOLEAN]

TypeOK ==
  /\ setup \in Setups
  /\ query \in [Queries -> QueryStructs]
  /\ queries \subseteq Queries
  /\ ready \in Seq(Queries)
  /\ lists \in [{"EXEC", "EXIT"} -> SUBSET Queries]
  /\ told \subseteq Queries
  /\ worker \in [Workers -> WorkerStructs]
  /\ workers \in Seq(Workers)
  /\ acceptor \in Queries \cup {NoQuery}
  /\ sched \in SchedulerAt
  /\ conn \in [Workers -> ConnectionAt]
  /\ hangup \in [Queries -> {"none", "exit", "exec", "gone"}]
  /\ evict \in [Callers -> Calls]
  /\ toWorker \in [Workers -> Seq(Messages)]
  /\ toMaster \in [Workers -> Seq(Messages)]
  /\ peer \in [Workers -> Peers]
  /\ up \in BOOLEAN

Init ==
  /\ setup \in Setups
  /\ query = [q \in Queries |-> [sp |-> "NONE", pc |-> 0, priority |-> Priority[q]]]
  /\ queries = {}
  /\ ready = <<>>
  /\ lists = [l \in {"EXEC", "EXIT"} |-> {}]
  /\ told = {}
  /\ worker = [w \in Workers |-> FreshWorker]
  /\ workers = <<>>
  /\ acceptor = NoQuery
  /\ sched = [pc |-> "execute", w |-> NoOne, q |-> NoQuery, i |-> 0]
  /\ conn = [w \in Workers |-> [pc |-> "none", q |-> NoQuery, i |-> 0]]
  /\ hangup = [q \in Queries |-> "none"]
  /\ evict = [c \in Callers |-> NoCall]
  /\ toWorker = [w \in Workers |-> <<>>]
  /\ toMaster = [w \in Workers |-> <<>>]
  /\ peer = [w \in Workers |-> FreshPeer]
  /\ up = TRUE

-----------------------------------------------------------------------------
(* Helpers *)

Listed == {workers[i] : i \in DOMAIN workers}

(* list_remove, and list_remove_by_condition_by, which removes the first only. *)
Removed(s, i) == SubSeq(s, 1, i - 1) \o SubSeq(s, i + 1, Len(s))
FirstOf(s, q) == CHOOSE i \in DOMAIN s : s[i] = q /\ \A j \in DOMAIN s : s[j] = q => i <= j
In(q, s) == \E i \in DOMAIN s : s[i] = q
Without(s, q) == IF In(q, s) THEN Removed(s, FirstOf(s, q)) ELSE s

(* get_query_by_qid finds only what list_add has put in queries. *)
Known(q) == q \in queries

(* Faulty: the list the Query was in keeps it. *)
MovedKeeping(q, to) ==
  /\ query' = [query EXCEPT ![q].sp = to]
  /\ ready' = IF to = "READY" /\ ~In(q, ready)
              THEN Append(ready, q) ELSE ready
  /\ lists' = [lists EXCEPT !["EXEC"] = IF to = "EXEC" THEN @ \cup {q} ELSE @,
                            !["EXIT"] = IF to = "EXIT" THEN @ \cup {q} ELSE @]

(* _query_to: out of the list of its state, into the list of the other, if it *)
(* is not there yet; a Query in EXIT is not made READY.                       *)
Refused(q, to) == query[q].sp = "EXIT" /\ to = "READY"
Moved(q, to) ==
  LET from == query[q].sp
      left == [lists EXCEPT !["EXEC"] = IF from = "EXEC" THEN @ \ {q} ELSE @,
                            !["EXIT"] = IF from = "EXIT" THEN @ \ {q} ELSE @]
      rest == IF from = "READY" THEN Without(ready, q) ELSE ready IN
  /\ query' = [query EXCEPT ![q].sp = to]
  /\ ready' = IF to = "READY" /\ ~In(q, rest)
              THEN Append(rest, q) ELSE rest
  /\ lists' = [left EXCEPT !["EXEC"] = IF to = "EXEC" THEN @ \cup {q} ELSE @,
                           !["EXIT"] = IF to = "EXIT" THEN @ \cup {q} ELSE @]

(* Faulty: nobody is told. *)
QueryToQuiet(q, to) ==
  /\ IF Refused(q, to) THEN UNCHANGED <<query, ready, lists>> ELSE Moved(q, to)
  /\ UNCHANGED told

(* query_to also tells the Query Control of a Query that is now in EXIT, even *)
(* when it was there and the new state was refused.                           *)
QueryTo(q, to) ==
  /\ IF Refused(q, to) THEN UNCHANGED <<query, ready, lists>> ELSE Moved(q, to)
  /\ told' = IF query'[q].sp = "EXIT" THEN told \cup {q} ELSE told

(* Nothing arrives at a Worker that is gone. *)
Send(w, m) ==
  toWorker' = [toWorker EXCEPT ![w] = IF peer[w].up THEN Append(@, m) ELSE @]

(* get_worker_by_qid, get_worker_by_wid: the first of the list. *)
WorkersOf(q) == {w \in Listed : worker[w].id_query = q}
First(S) ==
  CHOOSE w \in S : \E i \in DOMAIN workers :
    workers[i] = w /\ \A j \in DOMAIN workers : workers[j] \in S => i <= j

(* A null pointer is followed. *)
Crash ==
  /\ up' = FALSE
  /\ UNCHANGED <<setup, states, queries, worker, workers, acceptor, sched,
                 conn, hangup, evict, net>>

(* list_sort on the priorities says nothing of the order of equal ones. *)
ByPriority(s, t) ==
  /\ t \in [DOMAIN s -> {s[i] : i \in DOMAIN s}]
  /\ \A i \in DOMAIN s : \E j \in DOMAIN s : t[j] = s[i]
  /\ \A i, j \in DOMAIN s : i < j => query[t[i]].priority <= query[t[j]].priority

(* The threads of the Master wait, and the scheduler sleeps between two rounds. *)
AtRest ==
  /\ acceptor = NoQuery
  /\ \/ sched.pc = "execute"
     \/ sched.pc \in {"again", "send"} /\ evict[Scheduler].pc # "idle"
  /\ \A w \in Workers : conn[w].pc \in {"none", "idle", "gone"}
  /\ \A q \in Queries : hangup[q] \in {"none", "gone"}
  /\ \A c \in Callers : evict[c].pc \in {"idle", "wait"}
Reacts == setup.prompt \/ AtRest

-----------------------------------------------------------------------------
(* Connections *)

(* A Query Control: the Query is put in READY, from whatever its sp held. *)
ConnectQuery(q) ==
  /\ up
  /\ acceptor = NoQuery
  /\ query[q].sp = "NONE" /\ \A p \in Queries : p < q => query[p].sp # "NONE"
  /\ \E s \in FreshStates :
       LET to == IF s = "EXIT" THEN "EXIT" ELSE "READY" IN
       /\ query' = [query EXCEPT ![q].sp = to]
       /\ ready' = IF to = "READY" THEN Append(ready, q) ELSE ready
       /\ told' = IF to = "EXIT" THEN told \cup {q} ELSE told
  /\ acceptor' = q
  /\ UNCHANGED <<setup, queries, lists, worker, workers, sched, conn, hangup, evict, net,
                 up>>

(* list_add(queries, q), sem_post(&sem_have_query). *)
ListQuery ==
  /\ up
  /\ acceptor # NoQuery
  /\ queries' = queries \cup {acceptor}
  /\ acceptor' = NoQuery
  /\ UNCHANGED <<setup, states, worker, workers, sched, conn, hangup,
                 evict, net, up>>

MutexSched == \A w \in Workers : conn[w].pc # "remove"

ConnectWorker(w) ==
  /\ up
  /\ acceptor = NoQuery /\ MutexSched
  /\ conn[w].pc = "none" /\ w \in setup.crew
  /\ workers' = Append(workers, w)
  /\ conn' = [conn EXCEPT ![w].pc = "idle"]
  /\ UNCHANGED <<setup, states, queries, worker, acceptor, sched, hangup,
                 evict, net, up>>

-----------------------------------------------------------------------------
(* _desalojo_abstract, called by c *)

Call(c, w, to) == [evict EXCEPT ![c] = [NoCall EXCEPT !.pc = "check", !.w = w, !.to = to]]
Return(c) == [evict EXCEPT ![c] = NoCall]

EvictCheck(c) ==
  LET w == worker[evict[c].w] IN
  /\ up
  /\ evict[c].pc = "check"
  /\ evict' = IF w.estoy_desalojando \/ w.is_free THEN Return(c)
              ELSE [evict EXCEPT ![c].pc = "send"]
  /\ UNCHANGED <<setup, states, queries, worker, workers, acceptor, sched,
                 conn, hangup, net, up>>

(* q_worker, of which only the log needs to know, may be null. *)
EvictSend(c) ==
  LET w == evict[c].w IN
  /\ up
  /\ evict[c].pc = "send"
  /\ worker' = [worker EXCEPT ![w].estoy_desalojando = TRUE]
  /\ Send(w, Evict)
  /\ evict' = [evict EXCEPT ![c].pc = "wait", ![c].blind = ~Known(worker[w].id_query)]
  /\ UNCHANGED <<setup, states, queries, workers, acceptor, sched, conn,
                 hangup, toMaster, peer, up>>

(* The answer: of the Query it names, pc and sp are set before its list is.   *)
EvictAnswered(c) ==
  LET e == evict[c]
      q == worker[e.w].q IN
  /\ up
  /\ e.pc = "wait" /\ worker[e.w].sem > 0
  /\ IF Known(q) /\ e.blind /\ e.to = "READY"
     THEN Crash
     ELSE /\ worker' = [worker EXCEPT ![e.w].sem = @ - 1]
          /\ IF Known(q)
             THEN /\ query' = [query EXCEPT ![q].pc = worker[e.w].pc, ![q].sp = e.to]
                  /\ evict' = [evict EXCEPT ![c].pc = "move", ![c].q = q]
             ELSE evict' = Return(c) /\ UNCHANGED query
          /\ UNCHANGED <<setup, queries, ready, lists, told, workers, acceptor, sched, conn,
                         hangup, net, up>>

(* query_to(q, q->sp): sp is read before safe_query_to is locked. *)
EvictReads(c) ==
  /\ up
  /\ evict[c].pc = "move" /\ evict[c].arg = "NONE"
  /\ evict' = [evict EXCEPT ![c].arg = query[evict[c].q].sp]
  /\ UNCHANGED <<setup, states, queries, worker, workers, acceptor, sched, conn, hangup, net,
                 up>>

(* Faulty: the Query is READY without being queued. *)
EvictMoveForgets(c) ==
  /\ up
  /\ evict[c].pc = "move" /\ evict[c].arg # "NONE"
  /\ evict' = [evict EXCEPT ![c].pc = "release"]
  /\ UNCHANGED <<setup, states, queries, worker, workers, acceptor, sched, conn, hangup, net,
                 up>>

(* Faulty: a Query that waits again will start again. *)
EvictMoveRestarts(c) ==
  LET q == evict[c].q IN
  /\ up
  /\ evict[c].pc = "move" /\ evict[c].arg # "NONE"
  /\ query' = [query EXCEPT ![q].pc = 0]
  /\ ready' = IF query[q].sp = "READY" THEN Append(Without(ready, q), q) ELSE ready
  /\ evict' = [evict EXCEPT ![c].pc = "release"]
  /\ UNCHANGED <<setup, lists, told, queries, worker, workers, acceptor, sched, conn, hangup,
                 net, up>>

EvictMove(c) ==
  /\ up
  /\ evict[c].pc = "move" /\ evict[c].arg # "NONE"
  /\ QueryTo(evict[c].q, evict[c].arg)
  /\ evict' = [evict EXCEPT ![c].pc = "release"]
  /\ UNCHANGED <<setup, queries, worker, workers, acceptor, sched, conn, hangup, net, up>>

EvictRelease(c) ==
  /\ up
  /\ evict[c].pc = "release"
  /\ worker' = [worker EXCEPT ![evict[c].w].is_free = TRUE,
                              ![evict[c].w].id_query = NoQuery]
  /\ evict' = Return(c)
  /\ UNCHANGED <<setup, states, queries, workers, acceptor, sched, conn,
                 hangup, net, up>>

-----------------------------------------------------------------------------
(* The scheduler *)

(* sem_have_worker, sem_have_query: once for all. *)
Started == queries # {} /\ \E w \in Workers : conn[w].pc # "none"

(* After execute_worker: with aging, the pass over the queries. *)
Rested == [pc |-> IF setup.mode = "AGING" THEN "age" ELSE "execute",
           w |-> NoOne, q |-> NoQuery, i |-> 0]

Free == {w \in Listed : worker[w].is_free}
Execute == sched.pc = "execute" /\ Started /\ ready # <<>>

NothingToDo ==
  /\ up
  /\ sched.pc = "execute" /\ Started /\ setup.mode = "AGING" /\ (ready = <<>> \/ Free = {})
  /\ sched' = Rested
  /\ UNCHANGED <<setup, states, queries, worker, workers, acceptor, conn, hangup, evict,
                 net, up>>

(* get_first_worker_free *)
ChooseWorker ==
  /\ up
  /\ Execute /\ setup.mode # "PRIORITY" /\ Free # {}
  /\ sched' = [sched EXCEPT !.pc = "pop", !.w = First(Free)]
  /\ UNCHANGED <<setup, states, queries, worker, workers, acceptor, conn, hangup, evict,
                 net, up>>

(* get_query_available: in order of arrival, or of priority. *)
PopQuery ==
  /\ up
  /\ sched.pc = "pop"
  /\ IF ready = <<>> THEN sched' = Rested /\ UNCHANGED ready
     ELSE \E t \in [DOMAIN ready -> Queries] :
            /\ IF setup.mode = "FIFO" THEN t = ready ELSE ByPriority(ready, t)
            /\ ready' = Tail(t)
            /\ sched' = [sched EXCEPT !.pc = "assign", !.q = Head(t)]
  /\ UNCHANGED <<setup, query, queries, lists, told, worker, workers, acceptor, conn,
                 hangup, evict, net, up>>

(* PRIORITIES without aging: the Worker whose Query has the lowest priority,  *)
(* to find which every Worker's Query is read, if there is more than one.     *)
NoLowest == \/ workers = <<>>
            \/ Len(workers) > 1 /\ \E w \in Listed : ~Known(worker[w].id_query)
Lowest ==
  First({w \in Listed : Len(workers) = 1 \/ \A x \in Listed :
    query[worker[w].id_query].priority >= query[worker[x].id_query].priority})
Idle(w) == worker[w].id_query = NoQuery \/ worker[w].is_free

ChooseByPriority ==
  /\ up
  /\ Execute /\ setup.mode = "PRIORITY"
  /\ IF NoLowest \/ (~Idle(Lowest) /\ ~Known(worker[Lowest].id_query)) THEN Crash
     ELSE \E t \in [DOMAIN ready -> Queries] :
       /\ ByPriority(ready, t)
       /\ IF Idle(Lowest)
          THEN /\ ready' = Tail(t)
               /\ sched' = [sched EXCEPT !.pc = "assign", !.w = Lowest, !.q = Head(t)]
               /\ UNCHANGED evict
          ELSE /\ ready' = t
               /\ IF query[worker[Lowest].id_query].priority >= query[Head(t)].priority
                  THEN /\ evict' = Call(Scheduler, Lowest, "READY")
                       /\ sched' = [sched EXCEPT !.pc = "again", !.w = Lowest]
                  ELSE UNCHANGED <<sched, evict>>
       /\ UNCHANGED <<setup, query, queries, lists, told, worker, workers, acceptor, conn,
                      hangup, net, up>>

(* The eviction is over: the first of READY, which may have changed. *)
PopAgain ==
  /\ up
  /\ sched.pc = "again" /\ evict[Scheduler].pc = "idle"
  /\ IF ready = <<>> THEN Crash
     ELSE /\ ready' = Tail(ready)
          /\ sched' = [sched EXCEPT !.pc = "assign", !.q = Head(ready)]
          /\ UNCHANGED <<setup, query, queries, lists, told, worker, workers, acceptor, conn,
                         hangup, evict, net, up>>

(* execute_worker_on_this_query *)
EvictFirst ==
  /\ up
  /\ sched.pc = "assign" /\ ~Idle(sched.w)
  /\ evict' = Call(Scheduler, sched.w, "READY")
  /\ sched' = [sched EXCEPT !.pc = "send"]
  /\ UNCHANGED <<setup, states, queries, worker, workers, acceptor, conn, hangup, net, up>>

SendQuery ==
  LET w == sched.w
      q == sched.q IN
  /\ up
  /\ \/ sched.pc = "assign" /\ Idle(w)
     \/ sched.pc = "send" /\ evict[Scheduler].pc = "idle"
  /\ worker' = [worker EXCEPT ![w].id_query = q]
  /\ Send(w, Message("EXECUTE", q, query[q].pc))
  /\ sched' = [sched EXCEPT !.pc = "exec"]
  /\ UNCHANGED <<setup, states, queries, workers, acceptor, conn, hangup, evict, toMaster,
                 peer, up>>

(* Faulty: the state is that of a Query that waits. *)
ToExecReady ==
  /\ up
  /\ sched.pc = "exec"
  /\ QueryTo(sched.q, "READY")
  /\ sched' = [sched EXCEPT !.pc = "busy"]
  /\ UNCHANGED <<setup, queries, worker, workers, acceptor, conn, hangup, evict, net, up>>

ToExec ==
  /\ up
  /\ sched.pc = "exec"
  /\ QueryTo(sched.q, "EXEC")
  /\ sched' = [sched EXCEPT !.pc = "busy"]
  /\ UNCHANGED <<setup, queries, worker, workers, acceptor, conn, hangup, evict, net, up>>

(* Faulty: the Worker stays free. *)
ToBusyForgets ==
  /\ up
  /\ sched.pc = "busy"
  /\ sched' = Rested
  /\ UNCHANGED <<setup, states, queries, worker, workers, acceptor, conn, hangup, evict, net,
                 up>>

ToBusy ==
  /\ up
  /\ sched.pc = "busy"
  /\ worker' = [worker EXCEPT ![sched.w].is_free = FALSE]
  /\ sched' = Rested
  /\ UNCHANGED <<setup, states, queries, workers, acceptor, conn, hangup, evict, net, up>>

-----------------------------------------------------------------------------
(* Aging: one Query of the list after the other. *)

(* on_query_priority_changed goes through the Workers until one has a Query of *)
(* a lower priority than q, of number p now.                                  *)
Hit(q, p, w) ==
  /\ worker[w].id_query \notin {NoQuery, q}
  /\ ~Known(worker[w].id_query) \/ query[worker[w].id_query].priority > p
FirstHit(q, p) == First({w \in Listed : Hit(q, p, w)})

(* desalojo_worker_de_este_query starts a thread for each of its Workers. *)
Slot(w) == {n \in 1 .. MaxEvictors : evict[Evictor(w, n)].pc = "idle"}
ToEvict(v) ==
  LET busy == {x \in WorkersOf(v) : worker[x].estoy_desalojando} IN
  {w \in WorkersOf(v) : busy = {} \/ First({w} \cup busy) \notin busy}

(* Faulty: the priority is not kept from falling below 0. *)
AgeQueryBelow ==
  /\ up
  /\ sched.pc = "age" /\ sched.i \in queries
  /\ query[sched.i].sp = "READY"
  /\ query' = [query EXCEPT ![sched.i].priority = @ - 1]
  /\ sched' = [sched EXCEPT !.i = @ + 1]
  /\ UNCHANGED <<setup, queries, ready, lists, told, worker, workers, acceptor, conn,
                 hangup, evict, net, up>>

AgeQuery ==
  LET q == sched.i
      p == query[q].priority - 1 IN
  /\ up
  /\ sched.pc = "age" /\ q \in queries
  /\ query[q].sp = "READY" /\ p >= 0
  /\ IF \A w \in Listed : ~Hit(q, p, w) THEN UNCHANGED <<evict, up>>
     ELSE LET v == worker[FirstHit(q, p)].id_query IN
          IF ~Known(v) THEN up' = FALSE /\ UNCHANGED evict
          ELSE /\ \A w \in ToEvict(v) : Slot(w) # {}
               /\ evict' = [c \in Callers |->
                    IF \E w \in ToEvict(v) : c = Evictor(w, CHOOSE n \in Slot(w) : TRUE)
                    THEN [NoCall EXCEPT !.pc = "check", !.w = c[2]] ELSE evict[c]]
               /\ UNCHANGED up
  /\ query' = [query EXCEPT ![q].priority = p]
  /\ sched' = [sched EXCEPT !.i = @ + 1]
  /\ UNCHANGED <<setup, queries, ready, lists, told, worker, workers, acceptor, conn,
                 hangup, net>>

(* Not READY, of the highest priority already, or not yet for so long. *)
SkipQuery ==
  /\ up
  /\ sched.pc = "age" /\ sched.i \in queries
  /\ sched' = [sched EXCEPT !.i = @ + 1]
  /\ UNCHANGED <<setup, states, queries, worker, workers, acceptor, conn, hangup, evict,
                 net, up>>

AgeEnd ==
  /\ up
  /\ sched.pc = "age" /\ sched.i \notin queries
  /\ sched' = [sched EXCEPT !.pc = "execute", !.i = 0]
  /\ UNCHANGED <<setup, states, queries, worker, workers, acceptor, conn, hangup, evict,
                 net, up>>

-----------------------------------------------------------------------------
(* work_worker: a message of Worker w; get_worker_by_wid finds it by its id.  *)

Arrives(w, op) ==
  up /\ conn[w].pc = "idle" /\ toMaster[w] # <<>> /\ Head(toMaster[w]).op = op
(* Where a struct is in workers: none is found of one that is not there.      *)
Index(w) == IF w \in Listed THEN CHOOSE i \in DOMAIN workers : workers[i] = w ELSE 0
Taken(w) == toMaster' = [toMaster EXCEPT ![w] = Tail(@)]
Freed(w) == worker' = [worker EXCEPT ![w].id_query = NoQuery, ![w].is_free = TRUE]

(* REQUEST_DESALOJO: the answer is left for the thread that waits for one. *)
TakeEvicted(w) ==
  LET m == Head(toMaster[w]) IN
  /\ Arrives(w, "EVICTED")
  /\ IF w \notin Listed THEN Crash
     ELSE /\ Taken(w)
          /\ worker' = [worker EXCEPT ![w].q = m.q, ![w].pc = m.pc,
                                      ![w].estoy_desalojando = FALSE, ![w].sem = @ + 1]
          /\ UNCHANGED <<setup, states, queries, workers, acceptor, sched, conn, hangup,
                         evict, toWorker, peer, up>>

(* QUERY_END, or an error: the Query Control is told; a Query that is not in  *)
(* queries yet is not found, and only the Worker is released.                 *)
TakeEnd(w) ==
  LET q == Head(toMaster[w]).q IN
  /\ Arrives(w, "END")
  /\ IF w \notin Listed /\ ~Known(q) THEN Crash
     ELSE /\ Taken(w)
          /\ IF Known(q)
             THEN /\ told' = told \cup {q}
                  /\ conn' = [conn EXCEPT ![w].pc = "exit", ![w].q = q, ![w].i = Index(w)]
                  /\ UNCHANGED worker
             ELSE Freed(w) /\ UNCHANGED <<told, conn>>
          /\ UNCHANGED <<setup, query, queries, ready, lists, workers, acceptor, sched,
                         hangup, evict, toWorker, peer, up>>

(* query_to_no_notify *)
EndExit(w) ==
  /\ up
  /\ conn[w].pc = "exit"
  /\ Moved(conn[w].q, "EXIT")
  /\ conn' = [conn EXCEPT ![w].pc = "free"]
  /\ UNCHANGED <<setup, told, queries, worker, workers, acceptor, sched, hangup, evict, net,
                 up>>

(* Faulty: the Worker is not marked free. *)
EndFreeForgets(w) ==
  /\ up
  /\ conn[w].pc = "free"
  /\ worker' = [worker EXCEPT ![w].id_query = NoQuery]
  /\ conn' = [conn EXCEPT ![w].pc = "idle", ![w].q = NoQuery, ![w].i = 0]
  /\ UNCHANGED <<setup, states, queries, workers, acceptor, sched, hangup, evict, net, up>>

(* The struct that was found, or not, when the message arrived. *)
EndFree(w) ==
  /\ up
  /\ conn[w].pc = "free"
  /\ IF conn[w].i = 0 THEN Crash
     ELSE /\ Freed(w)
          /\ conn' = [conn EXCEPT ![w].pc = "idle", ![w].q = NoQuery, ![w].i = 0]
          /\ UNCHANGED <<setup, states, queries, workers, acceptor, sched, hangup, evict, net,
                         up>>

(* disconnect_callback: the index is looked up before mutex_sched is locked. *)
LoseWorker(w) ==
  /\ up
  /\ conn[w].pc = "idle" /\ ~peer[w].up /\ toMaster[w] = <<>>
  /\ conn' = [conn EXCEPT ![w].pc = IF w \in Listed THEN "lost" ELSE "gone", ![w].i = Index(w)]
  /\ UNCHANGED <<setup, states, queries, worker, workers, acceptor, sched, hangup, evict,
                 net, up>>

LoseQuery(w) ==
  LET q == worker[w].id_query IN
  /\ up
  /\ conn[w].pc = "lost" /\ MutexSched
  /\ IF Known(q) THEN QueryTo(q, "EXIT") ELSE UNCHANGED states
  /\ conn' = [conn EXCEPT ![w].pc = "remove"]
  /\ UNCHANGED <<setup, queries, worker, workers, acceptor, sched, hangup, evict, net, up>>

(* list_remove does nothing past the end. *)
RemoveWorker(w) ==
  LET k == conn[w].i IN
  /\ up
  /\ conn[w].pc = "remove"
  /\ workers' = IF k <= Len(workers) THEN Removed(workers, k) ELSE workers
  /\ conn' = [conn EXCEPT ![w].pc = "gone"]
  /\ UNCHANGED <<setup, states, queries, worker, acceptor, sched, hangup, evict, net, up>>

-----------------------------------------------------------------------------
(* disconnect_callback of a Query Control, which closes when it is told that  *)
(* its Query is over.                                                         *)

HangUp(q) ==
  /\ up
  /\ Reacts
  /\ hangup[q] = "none" /\ Known(q) /\ q \in told \cup setup.impatient
  /\ hangup' = [hangup EXCEPT ![q] =
       CASE query[q].sp = "READY" -> "exit"
         [] query[q].sp = "EXEC" -> "exec"
         [] OTHER -> "gone"]
  /\ UNCHANGED <<setup, states, queries, worker, workers, acceptor, sched, conn, evict,
                 net, up>>

HangupExit(q) ==
  /\ up
  /\ hangup[q] = "exit"
  /\ QueryTo(q, "EXIT")
  /\ hangup' = [hangup EXCEPT ![q] = "exec"]
  /\ UNCHANGED <<setup, queries, worker, workers, acceptor, sched, conn, evict, net, up>>

(* The Query is running: its Worker is asked to evict it, for good. *)
HangupExec(q) ==
  /\ up
  /\ hangup[q] = "exec"
  /\ evict' = IF query[q].sp = "EXEC" /\ WorkersOf(q) # {}
              THEN Call(Hangup(q), First(WorkersOf(q)), "EXIT") ELSE evict
  /\ hangup' = [hangup EXCEPT ![q] = "gone"]
  /\ UNCHANGED <<setup, states, queries, worker, workers, acceptor, sched, conn, net, up>>

-----------------------------------------------------------------------------
(* The Workers, as far as the Master can tell *)

Master == <<setup, states, queries, worker, workers, acceptor, sched, conn, hangup, evict,
            up>>

Becomes(w, p) == peer' = [peer EXCEPT ![w] = p]

(* packet_callback: actual_query and sem_query_recibida, or                  *)
(* desalojado_por_prioridad.                                                  *)
PeerTakes(w) ==
  LET m == Head(toWorker[w])
      p == peer[w] IN
  /\ up
  /\ p.up /\ toWorker[w] # <<>>
  /\ toWorker' = [toWorker EXCEPT ![w] = Tail(@)]
  /\ Becomes(w,
       CASE m.op = "EVICT" -> [p EXCEPT !.desalojado = TRUE]
         [] p.at = "idle" -> [p EXCEPT !.q = m.q, !.pc = m.pc, !.at = "run"]
         [] OTHER -> [p EXCEPT !.q = m.q, !.pc = m.pc, !.given = TRUE])
  /\ UNCHANGED <<Master, toMaster>>

Runs(w, at) == up /\ Reacts /\ peer[w].up /\ peer[w].at = at
Answer(w, m) == toMaster' = [toMaster EXCEPT ![w] = Append(@, m)]

(* atender_interrupcion, which answers for the Query that is the actual one.  *)
Interrupted(w, pc, at, given) ==
  LET p == peer[w] IN
  /\ IF p.desalojado THEN Answer(w, Message("EVICTED", p.q, pc)) ELSE UNCHANGED toMaster
  /\ Becomes(w, [p EXCEPT !.pc = pc, !.at = at, !.given = given, !.desalojado = FALSE])
  /\ UNCHANGED <<Master, toWorker>>

(* An instruction. *)
PeerSteps(w) ==
  /\ Runs(w, "run") /\ ~peer[w].given /\ peer[w].pc < setup.maxpc
  /\ Interrupted(w, peer[w].pc + 1, IF peer[w].desalojado THEN "out" ELSE "run", FALSE)

(* END, or an instruction that the Storage refuses: the Query is over. *)
PeerEnds(w) ==
  /\ Runs(w, "run") /\ ~peer[w].given
  /\ Answer(w, Message("END", peer[w].q, 0))
  /\ Becomes(w, [peer[w] EXCEPT !.at = "ended"])
  /\ UNCHANGED <<Master, toWorker>>

(* An instruction of several requests, the first refused: it makes the others  *)
(* all the same, and the error of one is charged to the Query that is the     *)
(* actual one by then.  Two messages in flight are the bound.                  *)
PeerErrs(w) ==
  /\ setup.repeats
  /\ Runs(w, "ended") /\ Len(toMaster[w]) < 2
  /\ Answer(w, Message("END", peer[w].q, 0))
  /\ UNCHANGED <<Master, toWorker, peer>>

(* pc++ of the Query that is the actual one by now. *)
PeerEnded(w) == Runs(w, "ended") /\ Interrupted(w, peer[w].pc + 1, "out", peer[w].given)

(* Another Query, whose instructions are not read yet, has taken its place. *)
PeerLeaves(w) ==
  /\ Runs(w, "run") /\ peer[w].given
  /\ \E done \in {0, 1} : Interrupted(w, peer[w].pc + done, "out", TRUE)

(* Once more, and the loop waits for a Query or goes on with the one it has.  *)
PeerStops(w) ==
  /\ Runs(w, "out")
  /\ Interrupted(w, peer[w].pc, IF peer[w].given THEN "run" ELSE "idle", FALSE)

PeerDies(w) ==
  /\ up
  /\ w \in setup.mortal /\ peer[w].up /\ conn[w].pc # "none"
  /\ Becomes(w, [FreshPeer EXCEPT !.up = FALSE])
  /\ toWorker' = [toWorker EXCEPT ![w] = <<>>]
  /\ UNCHANGED <<Master, toMaster>>

-----------------------------------------------------------------------------
Accept ==
  \/ ListQuery \/ \E q \in Queries : ConnectQuery(q)
  \/ \E w \in Workers : ConnectWorker(w)

Schedule ==
  \/ NothingToDo \/ ChooseWorker \/ PopQuery \/ ChooseByPriority \/ PopAgain
  \/ EvictFirst \/ SendQuery \/ ToExec \/ ToBusy \/ AgeQuery \/ SkipQuery \/ AgeEnd

Eviction(c) ==
  \/ EvictCheck(c) \/ EvictSend(c) \/ EvictAnswered(c)
  \/ EvictReads(c) \/ EvictMove(c) \/ EvictRelease(c)

Serve(w) ==
  \/ TakeEvicted(w) \/ TakeEnd(w) \/ EndExit(w) \/ EndFree(w)
  \/ LoseWorker(w) \/ LoseQuery(w) \/ RemoveWorker(w)

Closed(q) == HangupExit(q) \/ HangupExec(q)

PeerGoes(w) == PeerEnds(w) \/ PeerEnded(w) \/ PeerLeaves(w) \/ PeerStops(w)
Peer(w) == PeerTakes(w) \/ PeerSteps(w) \/ PeerErrs(w) \/ PeerGoes(w)

Next ==
  \/ Accept \/ Schedule
  \/ \E c \in Callers : Eviction(c)
  \/ \E w \in Workers : Serve(w) \/ Peer(w) \/ PeerDies(w)
  \/ \E q \in Queries : HangUp(q) \/ Closed(q)

Spec == Init /\ [][Next]_vars

(* Every thread of the Master that can go on does, and a Worker goes on with  *)
(* its Query, which has an end.                                               *)
Fairness ==
  /\ WF_vars(ListQuery) /\ WF_vars(Schedule)
  /\ \A c \in Callers : WF_vars(Eviction(c))
  /\ \A w \in Workers :
       /\ WF_vars(Serve(w)) /\ WF_vars(PeerTakes(w))
       /\ WF_vars(PeerGoes(w))
  /\ \A q \in Queries : WF_vars(Closed(q))
FairSpec == Spec /\ Fairness

-----------------------------------------------------------------------------
(* Properties *)

Held(q) == sched.q = q /\ sched.pc \in {"assign", "send", "exec"}

(* No Query is forgotten: one that is READY is in the queue, once, or in the  *)
(* hands of the scheduler, or of an eviction that is about to queue it, for   *)
(* all the threads that move it (query_to against queue_pop and q->sp = spto).*)
ReadyIsQueued ==
  \A q \in Queries : query[q].sp = "READY" =>
    \/ Cardinality({i \in DOMAIN ready : ready[i] = q}) = 1
    \/ Held(q)
    \/ \E c \in Callers : evict[c].pc = "move" /\ evict[c].q = q

(* Where nothing is evicted for a Query of more priority, a Query runs on one *)
(* Worker, whatever is hung up, lost and assigned meanwhile: it is given away *)
(* once (execute_worker_on_this_query), and never is its code run twice.      *)
RunsOnOneWorker ==
  setup.mode = "FIFO" => \A q \in Queries : \A w, x \in Workers :
    peer[w].at = "run" /\ peer[w].q = q /\ peer[x].at = "run" /\ peer[x].q = q => w = x

(* A Query that was evicted resumes where it stopped, or later, never before: *)
(* no answer of a Worker overwrites a newer program counter.                  *)
PcNeverFalls == [][\A q \in Queries : query'[q].pc >= query[q].pc]_vars

(* Whoever's Query is in EXIT has been told, on every path that leads there.  *)
ExitIsTold ==
  \A q \in Queries : query[q].sp = "EXIT" =>
    q \in told \/ \E c \in Callers : evict[c].pc = "move" /\ evict[c].q = q

(* dict_state agrees with the Queries: each is in the list of its state.      *)
StateLists ==
  \A q \in Queries :
    /\ query[q].sp = "EXEC" <=> q \in lists["EXEC"]
    /\ query[q].sp = "EXIT" <=> q \in lists["EXIT"]
    /\ In(q, ready) => query[q].sp = "READY"

(* "Algo que esta en EXIT nunca pasa a otro estado" (handlers.h:25), which a  *)
(* QUERY_END that arrives before query_to(q, STATE_EXEC) disproves.           *)
ExitIsFinal ==
  [][\A q \in Queries : query[q].sp = "EXIT" => query'[q].sp = "EXIT"]_vars

(* A Query that is accepted while there are Workers ends: work_worker frees   *)
(* the Worker of each that ends, and the scheduler finds it and the next one. *)
QueriesEnd ==
  \A q \in Queries :
    (query[q].sp # "NONE" /\ workers # <<>>) ~> query[q].sp = "EXIT"

(* Without evictions the Master is a queue that hands each Query, once and in *)
(* the order of arrival, to a Worker that has none.                           *)
Queue == INSTANCE Dispatcher WITH
  waiting <- IF Held(sched.q) /\ sched.pc = "assign" THEN <<sched.q>> \o ready ELSE ready,
  running <- [w \in Workers |-> worker[w].id_query],
  done <- {q \in Queries : query[q].sp = "EXIT"}
DispatcherSpec == Queue!Spec

=============================================================================
