-------------------------------- MODULE Worker --------------------------------
(****************************************************************************)
(* The threads of a Worker: the interpreter of Queries, the callback of the *)
(* Master's connection and the callback of the Storage's.  They share the   *)
(* Query at hand, two flags and four semaphores.  What an instruction does  *)
(* in memory is left to WorkerMemory: here it is the requests it makes to   *)
(* the Storage, one after another, each waited for.                         *)
(*                                                                          *)
(* A step goes from one access to what the threads share to the next that   *)
(* another thread can tell from it.                                         *)
(****************************************************************************)
EXTENDS Integers, Sequences, FiniteSets

CONSTANTS
  NQueries,   \* Queries that the Master may give
  NoQuery,    \* the id of no Query
  Scripts,    \* the instructions of each Query's file
  MaxAsked,   \* bound: requests to the Storage in one instruction or flush
  MaxGiven,   \* bound: times that the Master gives the same Query
  Setups      \* how the Master behaves

Queries == 0 .. NQueries - 1

(* REMOTE is CREATE, TRUNCATE, TAG or DELETE: one request. *)
Ops == {"REMOTE", "WRITE", "READ", "FLUSH", "COMMIT", "NOOP", "END"}
Requests == {"none", "REMOTE", "READ_BLOCK", "WRITE_BLOCK", "WRITE_BLOCK_NOT_ERROR",
             "COMMIT_TAG"}

ASSUME QueriesAssumption ==
  /\ NQueries \in Nat /\ NoQuery \notin Queries
  /\ Scripts \in [Queries -> Seq(Ops)]
(* Whether the Master may react before the threads of the Worker are at rest,  *)
(* and the Queries it may give.                                                *)
ASSUME BoundsAssumption ==
  /\ MaxAsked \in Nat \ {0} /\ MaxGiven \in Nat \ {0}
  /\  Setups \subseteq [prompt : BOOLEAN, queries : SUBSET Queries]

VARIABLES
  setup,     \* one of Setups
  query,     \* what the Master knows of each Query
  busy,      \* !is_free of its worker struct
  asked,     \* estoy_desalojando of it
  toWorker, toMaster, \* messages in flight
  actual,    \* actual_query, and the Query whose file its instructions are of
  hubo_error,
  desalojado, \* desalojado_por_prioridad
  sem,       \* the semaphores
  ti,        \* the interpreter, loop_atender_queries
  tm,        \* packet_callback of the Master
  ts,        \* packet_callback of the Storage
  asks,      \* the request that the Storage has not dealt with
  following, \* history: the instruction of each Query after those executed
  up         \* FALSE once the process has died on a null pointer

master == <<query, busy, asked>>
vars == <<setup, query, busy, asked, toWorker, toMaster, actual, hubo_error, desalojado,
          sem, ti, tm, ts, asks, following, up>>

Messages == [op : {"EXECUTE", "EVICT", "EVICTED", "END"},
             q : Queries \cup {NoQuery}, pc : Nat]
Message(op, q, pc) == [op |-> op, q |-> q, pc |-> pc]

Known == [sp : {"READY", "EXEC", "EXIT"}, pc : Nat, given : 0 .. MaxGiven]
ActualQuery == [q : Queries \cup {NoQuery}, pc : Nat, file : Queries \cup {NoQuery}]
Semaphores == {"dimi", "query_recibida", "respuesta_storage", "get_data"}

(* last is the request made before, n how many; after an interrupt check the   *)
(* interpreter goes to back.                                                   *)
Interpreter ==
  [pc : {"top", "dimi", "await", "load", "while", "work", "wait", "advance", "irq", "flush"},
   op : Ops \cup {"EVICTION"}, last : Requests, n : Nat, back : {"while", "top"},
   is_free : BOOLEAN, file : Queries \cup {NoQuery}]

TypeOK ==
  /\ setup \in Setups
  /\ query \in [Queries -> Known]
  /\ busy \in BOOLEAN /\ asked \in BOOLEAN
  /\ toWorker \in Seq(Messages) /\ toMaster \in Seq(Messages)
  /\ actual \in ActualQuery
  /\ hubo_error \in BOOLEAN /\ desalojado \in BOOLEAN
  /\ sem \in [Semaphores -> Nat]
  /\ ti \in Interpreter
  /\ tm \in {"idle", "clear", "post"}
  /\ ts \in [pc : {"idle", "set", "post"}, sem : {"respuesta_storage", "get_data"}]
  /\ asks \in Requests
  /\ following \in [Queries -> Nat]
  /\ up \in BOOLEAN

(* inicializar_worker *)
Init ==
  /\ setup \in Setups
  /\ query = [q \in Queries |-> [sp |-> "READY", pc |-> 0, given |-> 0]]
  /\ busy = FALSE /\ asked = FALSE
  /\ toWorker = <<>> /\ toMaster = <<>>
  /\ actual = [q |-> NoQuery, pc |-> 0, file |-> NoQuery]
  /\ hubo_error = FALSE /\ desalojado = FALSE
  /\ sem = [s \in Semaphores |-> 0]
  /\ ti = [pc |-> "top", op |-> "NOOP", last |-> "none", n |-> 0, back |-> "while",
           is_free |-> TRUE, file |-> NoQuery]
  /\ tm = "idle" /\ ts = [pc |-> "idle", sem |-> "get_data"]
  /\ asks = "none"
  /\ following = [q \in Queries |-> 0]
  /\ up = TRUE

-----------------------------------------------------------------------------
(* Helpers *)

Post(s) == sem' = [sem EXCEPT ![s] = @ + 1]
Wait(s) == sem[s] > 0 /\ sem' = [sem EXCEPT ![s] = @ - 1]

(* The request that may follow another in an instruction.  A page fault may    *)
(* write a victim back before it reads its page.                               *)
Follows(op) ==
  CASE op = "REMOTE" -> {<<"none", "REMOTE">>}
    [] op \in {"WRITE", "READ"} ->
         ({"none", "READ_BLOCK"} \X {"WRITE_BLOCK", "READ_BLOCK"})
         \cup {<<"WRITE_BLOCK", "READ_BLOCK">>}
    [] op = "FLUSH" -> {"none", "WRITE_BLOCK"} \X {"WRITE_BLOCK"}
    [] op = "COMMIT" -> {"none", "WRITE_BLOCK"} \X {"WRITE_BLOCK", "COMMIT_TAG"}
    [] op = "EVICTION" -> {"none", "WRITE_BLOCK_NOT_ERROR"} \X {"WRITE_BLOCK_NOT_ERROR"}
    [] OTHER -> {}

(* hubo_error is looked at where the code does: a READ returns at a page it    *)
(* could not get and a flush stops, but the page of a victim that was refused  *)
(* is still read, COMMIT_TAG is sent all the same, a WRITE goes on with its    *)
(* next piece and the flush of an eviction with the next File:Tag.             *)
GoesOn(r) ==
  \/ ~hubo_error \/ ti.last = "none" \/ ti.op \in {"WRITE", "EVICTION"}
  \/ r = "COMMIT_TAG"
  \/ ti.last = "WRITE_BLOCK" /\ r = "READ_BLOCK"

(* The instruction has made the requests it must make. *)
Complete ==
  CASE ti.op \in {"WRITE", "READ"} -> ti.last # "WRITE_BLOCK"
    [] ti.op = "REMOTE" -> ti.last = "REMOTE"
    [] ti.op = "COMMIT" -> ti.last = "COMMIT_TAG"
    [] OTHER -> ti.op # "END"

(* Where the interpreter waits for the answer to its last request.             *)
AnswerSem == IF ti.last = "READ_BLOCK" THEN "get_data" ELSE "respuesta_storage"

At(l) == up /\ ti.pc = l
Goto(l) == ti' = [ti EXCEPT !.pc = l]

-----------------------------------------------------------------------------
(* The interpreter: from one Query to the next *)

Top ==
  /\ At("top")
  /\ Goto(IF hubo_error THEN "dimi" ELSE "await")
  /\ UNCHANGED <<setup, master, toWorker, toMaster, actual, hubo_error, desalojado, sem,
                 tm, ts, asks, following, up>>

AwaitAfterError ==
  /\ At("dimi")
  /\ Wait("dimi")
  /\ Goto("await")
  /\ UNCHANGED <<setup, master, toWorker, toMaster, actual, hubo_error, desalojado, tm, ts,
                 asks, following, up>>

(* With the path of the last Query received, whichever permit this is.         *)
AwaitQuery ==
  /\ At("await")
  /\ Wait("query_recibida")
  /\ ti' = [ti EXCEPT !.pc = "load", !.file = actual.q]
  /\ UNCHANGED <<setup, master, toWorker, toMaster, actual, hubo_error, desalojado, tm, ts,
                 asks, following, up>>

(* obtener_instrucciones_v2 *)
Load ==
  /\ At("load")
  /\ actual' = [actual EXCEPT !.file = ti.file]
  /\ ti' = [ti EXCEPT !.pc = "while", !.is_free = FALSE, !.file = NoQuery]
  /\ UNCHANGED <<setup, master, toWorker, toMaster, hubo_error, desalojado, sem, tm, ts,
                 asks, following, up>>

-----------------------------------------------------------------------------
(* The interpreter: one instruction after the other *)

Runs == ~ti.is_free /\ ~hubo_error /\ actual.file # NoQuery
Script == Scripts[actual.file]

(* The loop ends, or has met a Query whose instructions are not loaded.        *)
Leave ==
  /\ At("while") /\ ~Runs
  /\ ti' = [ti EXCEPT !.pc = "irq", !.back = "top"]
  /\ UNCHANGED <<setup, master, toWorker, toMaster, actual, hubo_error, desalojado, sem,
                 tm, ts, asks, following, up>>

Fetch ==
  /\ At("while") /\ Runs /\ actual.pc < Len(Script)
  /\ ti' = [ti EXCEPT !.pc = "work", !.op = Script[actual.pc + 1], !.last = "none", !.n = 0]
  /\ following' = [following EXCEPT ![actual.q] = actual.pc + 1]
  /\ UNCHANGED <<setup, master, toWorker, toMaster, actual, hubo_error, desalojado, sem,
                 tm, ts, asks, up>>

(* list_get gives NULL past the end of the list, and remove_new_line takes its *)
(* length.                                                                     *)
FetchPast ==
  /\ At("while") /\ Runs /\ actual.pc >= Len(Script)
  /\ up' = FALSE
  /\ UNCHANGED <<setup, master, toWorker, toMaster, actual, hubo_error, desalojado, sem,
                 ti, tm, ts, asks, following>>

(* A request, of the instruction or of the flush of an eviction. *)
Ask ==
  /\ up /\ ti.pc \in {"work", "flush"}
  /\ \E r \in Requests :
       /\ <<ti.last, r>> \in Follows(ti.op) /\ GoesOn(r)
       /\ ti.n < MaxAsked \/ (~Complete /\ r # "WRITE_BLOCK")
       /\ asks' = r
       /\ ti' = [ti EXCEPT !.pc = "wait", !.last = r, !.n = @ + 1]
  /\ UNCHANGED <<setup, master, toWorker, toMaster, actual, hubo_error, desalojado, sem,
                 tm, ts, following, up>>

Answered ==
  /\ At("wait")
  /\ Wait(AnswerSem)
  /\ Goto(IF ti.op = "EVICTION" THEN "flush" ELSE "work")
  /\ UNCHANGED <<setup, master, toWorker, toMaster, actual, hubo_error, desalojado, tm, ts,
                 asks, following, up>>

(* Faulty: the Master is not told. *)
EndQuiet ==
  /\ At("work") /\ ti.op = "END"
  /\ ti' = [ti EXCEPT !.pc = "advance", !.is_free = TRUE]
  /\ UNCHANGED <<setup, master, toWorker, toMaster, actual, hubo_error, desalojado, sem, tm,
                 ts, asks, following, up>>

(* QUERY_END is sent from inside the instruction. *)
End ==
  /\ At("work") /\ ti.op = "END"
  /\ toMaster' = Append(toMaster, Message("END", actual.q, 0))
  /\ ti' = [ti EXCEPT !.pc = "advance", !.is_free = TRUE]
  /\ UNCHANGED <<setup, master, toWorker, actual, hubo_error, desalojado, sem, tm, ts,
                 asks, following, up>>

(* The instruction is over: pc++ of the Query that is the actual one by now.   *)
Advance ==
  /\ At("advance") \/ (At("work") /\ Complete)
  /\ actual' = [actual EXCEPT !.pc = @ + 1]
  /\ ti' = [ti EXCEPT !.pc = "irq", !.back = "while"]
  /\ UNCHANGED <<setup, master, toWorker, toMaster, hubo_error, desalojado, sem, tm, ts,
                 asks, following, up>>

(* atender_interrupcion, after an instruction and after the loop. *)
NotInterrupted ==
  /\ At("irq") /\ ~desalojado
  /\ Goto(ti.back)
  /\ UNCHANGED <<setup, master, toWorker, toMaster, actual, hubo_error, desalojado, sem,
                 tm, ts, asks, following, up>>

(* Faulty: desalojado_por_prioridad stays set. *)
InterruptedKeeps ==
  /\ At("irq") /\ desalojado
  /\ ti' = [ti EXCEPT !.pc = "flush", !.op = "EVICTION", !.last = "none", !.n = 0,
                      !.is_free = TRUE]
  /\ UNCHANGED <<setup, master, toWorker, toMaster, actual, hubo_error, desalojado, sem, tm,
                 ts, asks, following, up>>

Interrupted ==
  /\ At("irq") /\ desalojado
  /\ desalojado' = FALSE
  /\ ti' = [ti EXCEPT !.pc = "flush", !.op = "EVICTION", !.last = "none", !.n = 0,
                      !.is_free = TRUE]
  /\ UNCHANGED <<setup, master, toWorker, toMaster, actual, hubo_error, sem, tm, ts, asks,
                 following, up>>

(* Faulty: with the instruction before the one at hand. *)
EvictedBefore ==
  /\ At("flush")
  /\ toMaster' = Append(toMaster, Message("EVICTED", actual.q, actual.pc - 1))
  /\ Goto(ti.back)
  /\ UNCHANGED <<setup, master, toWorker, actual, hubo_error, desalojado, sem, tm, ts, asks,
                 following, up>>

Evicted ==
  /\ At("flush")
  /\ toMaster' = Append(toMaster, Message("EVICTED", actual.q, actual.pc))
  /\ Goto(ti.back)
  /\ UNCHANGED <<setup, master, toWorker, actual, hubo_error, desalojado, sem, tm, ts,
                 asks, following, up>>

-----------------------------------------------------------------------------
(* packet_callback, from the Master *)

Hears(op) == up /\ tm = "idle" /\ toWorker # <<>> /\ Head(toWorker).op = op

(* Faulty: a Query that was evicted begins again. *)
TakeQueryAnew ==
  /\ Hears("EXECUTE")
  /\ toWorker' = Tail(toWorker)
  /\ IF hubo_error THEN Post("dimi") ELSE UNCHANGED sem
  /\ actual' = [q |-> Head(toWorker).q, pc |-> 0, file |-> NoQuery]
  /\ tm' = "clear"
  /\ UNCHANGED <<setup, master, toMaster, hubo_error, desalojado, ti, ts, asks, following, up>>

(* Faulty: the interpreter is left waiting on sem_dimi. *)
TakeQueryNoDimi ==
  /\ Hears("EXECUTE")
  /\ toWorker' = Tail(toWorker)
  /\ actual' = [q |-> Head(toWorker).q, pc |-> Head(toWorker).pc, file |-> NoQuery]
  /\ tm' = "clear"
  /\ UNCHANGED <<setup, master, toMaster, hubo_error, desalojado, sem, ti, ts, asks,
                 following, up>>

TakeQuery ==
  LET m == Head(toWorker) IN
  /\ Hears("EXECUTE")
  /\ toWorker' = Tail(toWorker)
  /\ IF hubo_error THEN Post("dimi") ELSE UNCHANGED sem
  /\ actual' = [q |-> m.q, pc |-> m.pc, file |-> NoQuery]
  /\ tm' = "clear"
  /\ UNCHANGED <<setup, master, toMaster, hubo_error, desalojado, ti, ts, asks, following,
                 up>>

ClearError ==
  /\ up /\ tm = "clear"
  /\ hubo_error' = FALSE
  /\ tm' = "post"
  /\ UNCHANGED <<setup, master, toWorker, toMaster, actual, desalojado, sem, ti, ts, asks,
                 following, up>>

PostQuery ==
  /\ up /\ tm = "post"
  /\ Post("query_recibida")
  /\ tm' = "idle"
  /\ UNCHANGED <<setup, master, toWorker, toMaster, actual, hubo_error, desalojado, ti, ts,
                 asks, following, up>>

TakeEviction ==
  /\ Hears("EVICT")
  /\ toWorker' = Tail(toWorker)
  /\ desalojado' = TRUE
  /\ UNCHANGED <<setup, master, toMaster, actual, hubo_error, sem, ti, tm, ts, asks,
                 following, up>>

-----------------------------------------------------------------------------
(* packet_callback, from the Storage *)

(* READ_WRITE_OVERFLOW posts sem_get_data, to whatever request it answers, and *)
(* every other error sem_respuesta_storage.                                    *)
ErrorPosts(r) ==
  {"respuesta_storage"}
  \cup (IF r \in {"READ_BLOCK", "WRITE_BLOCK", "WRITE_BLOCK_NOT_ERROR"} THEN {"get_data"} ELSE {})

HearSuccess ==
  /\ up /\ ts.pc = "idle" /\ asks # "none"
  /\ Post(IF asks = "READ_BLOCK" THEN "get_data" ELSE "respuesta_storage")
  /\ asks' = "none"
  /\ UNCHANGED <<setup, master, toWorker, toMaster, actual, hubo_error, desalojado, ti, tm,
                 ts, following, up>>

(* The Master is told first. *)
HearError ==
  /\ up /\ ts.pc = "idle" /\ asks # "none"
  /\ \E s \in ErrorPosts(asks) : ts' = [pc |-> "set", sem |-> s]
  /\ toMaster' = Append(toMaster, Message("END", actual.q, 0))
  /\ asks' = "none"
  /\ UNCHANGED <<setup, master, toWorker, actual, hubo_error, desalojado, sem, ti, tm,
                 following, up>>

SetError ==
  /\ up /\ ts.pc = "set"
  /\ hubo_error' = TRUE
  /\ ts' = [ts EXCEPT !.pc = "post"]
  /\ UNCHANGED <<setup, master, toWorker, toMaster, actual, desalojado, sem, ti, tm, asks,
                 following, up>>

(* Faulty: both semaphores, to be on the safe side. *)
PostErrorBoth ==
  /\ up /\ ts.pc = "post"
  /\ sem' = [sem EXCEPT !["respuesta_storage"] = @ + 1, !["get_data"] = @ + 1]
  /\ ts' = [ts EXCEPT !.pc = "idle"]
  /\ UNCHANGED <<setup, master, toWorker, toMaster, actual, hubo_error, desalojado, ti, tm,
                 asks, following, up>>

PostError ==
  /\ up /\ ts.pc = "post"
  /\ Post(ts.sem)
  /\ ts' = [ts EXCEPT !.pc = "idle"]
  /\ UNCHANGED <<setup, master, toWorker, toMaster, actual, hubo_error, desalojado, ti, tm,
                 asks, following, up>>

(* A request that the Storage drops without an answer. *)
Dropped ==
  /\ up /\ ts.pc = "idle" /\ asks # "none"
  /\ asks' = "none"
  /\ UNCHANGED <<setup, master, toWorker, toMaster, actual, hubo_error, desalojado, sem,
                 ti, tm, ts, following, up>>

-----------------------------------------------------------------------------
(* The Master, as far as the Worker can tell *)

(* The threads of the Worker wait, and so does whatever they were sent. *)
AtRest ==
  /\ toWorker = <<>> /\ tm = "idle" /\ ts.pc = "idle"
  /\ \/ ti.pc = "dimi" /\ sem["dimi"] = 0
     \/ ti.pc = "await" /\ sem["query_recibida"] = 0

(* SendQuery of Master, to a Worker that it takes for free. *)
Give(q) ==
  /\ up
  /\ setup.prompt \/ (AtRest /\ toMaster = <<>>)
  /\ ~busy /\ q \in setup.queries /\ query[q].sp = "READY" /\ query[q].given < MaxGiven
  /\ toWorker' = Append(toWorker, Message("EXECUTE", q, query[q].pc))
  /\ busy' = TRUE
  /\ query' = [query EXCEPT ![q].sp = "EXEC", ![q].given = @ + 1]
  /\ UNCHANGED <<setup, asked, toMaster, actual, hubo_error, desalojado, sem, ti, tm, ts,
                 asks, following, up>>

(* EvictSend of Master *)
AskEviction ==
  /\ up
  /\ busy /\ ~asked
  /\ toWorker' = Append(toWorker, Message("EVICT", NoQuery, 0))
  /\ asked' = TRUE
  /\ UNCHANGED <<setup, query, busy, toMaster, actual, hubo_error, desalojado, sem, ti, tm,
                 ts, asks, following, up>>

(* TakeEnd and TakeEvicted of Master: a Query that is over stays so. *)
Learn ==
  LET m == Head(toMaster) IN
  /\ up
  /\ setup.prompt \/ AtRest
  /\ toMaster # <<>>
  /\ toMaster' = Tail(toMaster)
  /\ busy' = FALSE
  /\ asked' = (asked /\ m.op # "EVICTED")
  /\ query' = IF m.q = NoQuery THEN query
              ELSE IF m.op = "END" THEN [query EXCEPT ![m.q].sp = "EXIT"]
              ELSE [query EXCEPT ![m.q].sp = IF @ = "EXIT" THEN "EXIT" ELSE "READY",
                                 ![m.q].pc = m.pc]
  /\ UNCHANGED <<setup, toWorker, actual, hubo_error, desalojado, sem, ti, tm, ts, asks,
                 following, up>>

-----------------------------------------------------------------------------
InterpreterNext ==
  \/ Top \/ AwaitAfterError \/ AwaitQuery \/ Load \/ Leave \/ Fetch \/ FetchPast
  \/ Ask \/ Answered \/ End \/ Advance \/ NotInterrupted \/ Interrupted \/ Evicted
MasterThread == TakeQuery \/ ClearError \/ PostQuery \/ TakeEviction
StorageThread == HearSuccess \/ HearError \/ SetError \/ PostError \/ Dropped

Next ==
  \/ InterpreterNext \/ MasterThread \/ StorageThread
  \/ AskEviction \/ Learn \/ \E q \in Queries : Give(q)

Spec == Init /\ [][Next]_vars

(* The threads of the process run, and the Storage deals with what it is sent. *)
FairSpec ==
  Spec /\ WF_vars(InterpreterNext) /\ WF_vars(MasterThread) /\ WF_vars(StorageThread)

-----------------------------------------------------------------------------
(* Properties *)

One(P) == IF P THEN 1 ELSE 0

(* How many of the messages in flight are of an operation. *)
InFlight(s, op) == Cardinality({i \in DOMAIN s : s[i].op = op})

(* An eviction is being dealt with by the interpreter. *)
Handling == ti.op = "EVICTION" /\ ti.pc \in {"flush", "wait"}

(* While the Master sends nothing before the threads of the Worker wait, the   *)
(* instructions of a Query are executed one after the other, none skipped and  *)
(* none twice, across every eviction and every Query run in between: pc++ in   *)
(* loop_atender_queries and the pc of REQUEST_EXECUTE_QUERY.                   *)
InstructionsInOrder ==
  ~setup.prompt /\ At("while") /\ Runs => actual.pc = following[actual.q]

(* However messages and errors cross, an eviction that the Master asks for is  *)
(* in one place: on its way, in desalojado_por_prioridad, in                   *)
(* atender_interrupcion or in the answer; never lost, never answered twice.    *)
EvictionsAccounted ==
  InFlight(toWorker, "EVICT") + InFlight(toMaster, "EVICTED") + One(desalojado)
  + One(Handling) = One(asked)

(* A permit of sem_respuesta_storage or sem_get_data belongs to the request    *)
(* that waits: whatever fails, no answer is left for a later request to find.  *)
AnswersMatch ==
  One(asks # "none") + One(ts.pc # "idle") + sem["respuesta_storage"] + sem["get_data"]
    <= One(ti.pc = "wait")

(* With a Master that waits, too, the Worker comes to rest with no permit that *)
(* a later Query would find, and waits on sem_dimi only if packet_callback     *)
(* will post it, which is while hubo_error is set.                             *)
RestIsClean ==
  ~setup.prompt /\ AtRest =>
    /\ (ti.pc = "dimi") = hubo_error
    /\ \A s \in DOMAIN sem : sem[s] = 0

(* The interpreter waits for an answer that does not come, or that was posted  *)
(* on the other semaphore.                                                     *)
Deaf == ti.pc = "wait" /\ asks = "none" /\ ts.pc = "idle" /\ sem[AnswerSem] = 0

(* A Query that is given to a Worker by a Master that waits ends, fails or is  *)
(* evicted, and the Master hears of it, unless the Storage does not answer or  *)
(* the file has no END.                                                        *)
QueryIsAnswered ==
  ~setup.prompt /\ busy ~>
    \/ Deaf \/ ~up
    \/ \E i \in DOMAIN toMaster : toMaster[i].q # NoQuery /\ query[toMaster[i].q].sp = "EXEC"

(* "si tenés 10 instrucciones no te podés ir a la instrucción 11 porque se     *)
(* hace percha" (funciones_worker.h:250), which list_get does not keep from    *)
(* happening when an EXECUTE arrives between QUERY_END and pc++.               *)
WithinInstructions == up

=============================================================================
