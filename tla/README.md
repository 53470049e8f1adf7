# Verification of Master of Files

Formal models of the *Master of Files* system (`so-deploy/`): TLA+ modules translated from the C
sources, TLC configurations that check them on small instances, and TLAPS proofs of what holds for
every instance. Paths below are relative to `so-deploy/`; line numbers are those of the sources.

## 1. The system

Four kinds of process talk over TCP. Each connection has a thread of its own that handles one message
after the other (`loop_network`, `utils/src/modules/sockets/network.h:247`).

| Component | State it keeps | Operations | Talks to |
|---|---|---|---|
| **Query Control** (`query_control/src/main.c`) | the path and the priority of one Query | sends them to the Master, prints what comes back until `REQUEST_KILL` | Master |
| **Master: scheduler** (`master/src`) | `queries`, `workers`, the READY queue and the EXEC and EXIT lists of `dict_state`, an eviction semaphore and flag per Worker | a scheduler thread (`execute_worker`, aging), one accepting thread, one thread per connection (`work_worker`, `disconnect_callback`), one thread per eviction | Query Controls, Workers |
| **Worker: interpreter** (`worker/src/main.c`, `funciones_worker.h`, `fase_execute.h`) | `actual_query`, the program counter, `hubo_error`, `desalojado_por_prioridad`, semaphores | fetch, decode, execute, check interrupts; a thread for the Master's messages, a thread for the Storage's answers | Master, Storage |
| **Worker: memory** (`worker/src/memoria.h`) | frames, one global page table, LRU queue, Clock-M bits | page fault, victim, write back, flush | Storage, through the interpreter |
| **Storage** (`storage/src`) | the directories and metadata files of File:Tags, hard links, physical blocks, bitmap, hash index, File:Tag locks, three global mutexes | CREATE, TRUNCATE, TAG, COMMIT, WRITE, READ, DELETE | Workers |
| **utils** | sockets, packets, threads, lists, configuration files | used by all | |
| **test**, scripts, configurations | none | manual trials, build, deployment | |

### How they interact

- A Query Control sends one Query and waits. The Master answers with `READ` data and, at the end, with
  `REQUEST_KILL`; the Query Control then closes. Closing earlier cancels the Query
  (`disconnect_callback`, `master/src/main.c`).
- The Master sends a Worker `REQUEST_EXECUTE_QUERY` and `REQUEST_DESALOJO_AGING`; the Worker answers
  `QUERY_END`, an error code, or `REQUEST_DESALOJO` with the program counter.
- A Worker sends the Storage one request at a time per interpreter step and waits on a semaphore that
  the thread of the Storage's connection posts. Some requests get no answer at all.
- In the Storage, the threads of all the Workers share one volume. The lock of a File:Tag
  (`file_tag_locks`), `bitmap_lock` and `hash_index_lock` protect parts of each handler.

### What is hard in each

| Component | Hard behaviour | What makes it correct |
|---|---|---|
| Storage | handlers are many file operations long; locks cover only some of them; copies of the metadata and of the hash index are used after the lock is gone; error paths return without an answer; one global `t_config` | blocks are neither lost nor given twice; the hash index and the metadata tell the truth; sharing is invisible; committed contents never change; every lock is given back and every request ends |
| Master | six kinds of threads move Queries between three lists; the answer to an eviction is left in the Worker's struct for whoever waits; a peer may answer before the Master has written down that it asked | no READY Query is forgotten; the program counter never falls; whoever's Query is over is told; under FIFO a Query runs on one Worker, first come first served, and every Query ends |
| Worker: interpreter | three threads share `actual_query`, `hubo_error` and four semaphores with no mutex; which semaphore is posted depends on the answer and not on who waits | each request is matched with its own answer; an evicted Query resumes at the first instruction not executed; no instruction is skipped; the interpreter never waits for what cannot come |
| Worker: memory | an LRU queue that is also the page table; Clock-M with two bits; write back when a page is evicted | what a READ returns is what was last written, or what the Storage has; a modified page is never dropped |
| Query Control, utils, scripts | none of their own: they carry messages and data | |

## 2. Modules

| Module | What it is |
|---|---|
| `Storage` | the handlers of the Storage, step by step |
| `TagStore` | what the Storage promises: separate File:Tags, each changed by the requests that name it and in no other way, of which committed ones are frozen |
| `StorageProofs` | of `Storage`, whatever is asked: the types, the bounds of its loops, the lock discipline |
| `StorageBlockProofs` | of `Storage`, for Workers that change File:Tags of their own: what is linked, occupied, shared and indexed |
| `StorageStoreProofs` | for the same Workers: that `Storage` implements `TagStore`, keeps what is committed, and keeps each content once |
| `WorkerProofs` | the inductive invariant of `Worker`: types, evictions, answers; with a Master that waits, rest and the order of instructions |
| `SequenceFacts` | lemmas on lists that several of the proofs use: what an element added, taken off, left out or moved to the end does to the positions |
| `MasterProofs` | the inductive invariant of `Master`, for every configuration: types, the READY queue, who is told |
| `MasterFifoProofs` | `Master` under FIFO: one Worker for each Query, program counters that never fall; where nobody disconnects, the lists and the refinement of `Dispatcher` |
| `WorkerMemoryProofs` | the inductive invariant of `WorkerMemory`: types, frames, pages, victims; what is seen of a File:Tag |
| `MCStorage` | instances of `Storage`: what each Worker asks for in each run |
| `Master` | the scheduler, its connections and evictions, with the Workers as the Master sees them |
| `Dispatcher` | what the Master promises under FIFO: a queue |
| `MCMaster` | instances of `Master`: algorithms, who may disconnect, how fast the network is |
| `WorkerMemory` | the internal memory of one Worker, under the interpreter's instructions and evictions |
| `MCWorkerMemory` | instances of `WorkerMemory`: what the Queries contain |
| `Worker` | the three threads of one Worker, with their flags and semaphores |
| `MCWorker` | instances of `Worker`: the Queries, and a Master that waits or does not |

Operators named in a comment as *faulty* are variants of the operator that follows them, with a bug a
programmer could have written. No specification uses them: they are there to try each property, which
must fail when the faulty one takes the place of the other.

### 2.1 Storage

A step is one system call, or one section under `bitmap_lock`, `block_locks` or `hash_index_lock`, that
another thread can observe. `th[w]` is the stack of the thread of Worker `w`: where it is (`pc`), the
request, and the locals of the handler.

| State | Code |
|---|---|
| `files`, `dirs` | directories under `files/`; a File:Tag has one with `logical_blocks/` in it |
| `meta` | `metadata.config`: TAMAÑO, BLOCKS, ESTADO |
| `links` | the hard links `logical_blocks/NNNNNN.dat`; `st_nlink` is counted from them (`Refs`) |
| `used`, `content` | the bitmap; the files of `physical_blocks/` |
| `hashIndex` | `blocks_hash_index.config`, by content instead of by MD5 |
| `tagLock`, `hashLock` | `file_tag_locks`, `hash_index_lock` |
| `config` | the global `t_config` of `utils/src/libs/config.h` |
| `ans` | the last message sent to the Worker; NONE if the handler returned without any |
| `up` | FALSE after a null pointer was followed: metadata of a directory that has none yet |

| Actions | Code |
|---|---|
| `CreateExists`, `CreateStart`, `MakeDirectory`, `OpenMetadata`, `SaveMetadata` | `create_file.h`, `create_metadata` |
| `TruncateCommited`, `TruncateNoSpace`, `TruncateStart`, `Grow`, `Unlink`, `Stat`, `Free` | `truncate_file.h` |
| `TagExists`, `TagNoSpace`, `TagStart`, `TagClone`, `TagCloneFails`, `TagLink`, `TagCloned` | `tag_file.h` |
| `CommitCommited` to `CommitEnd`, `LoadIndex`, `HashBlock` | `commit_tag.h` |
| `Write...` | `write_block.h`, `escribir_bloque_fisico`, `clonar_bloque_fisico` |
| `ReadOverflow`, `ReadBlock` | `read_block.h` |
| `DeleteStart`, `Unlink`, `Stat`, `Free`, `Unhash`, `RemoveDirectory` | `delete_tag.h` |
| `Missing`, `CrashOnMetadata`, `Receive`, `Reconnect` | `comunicacion_worker.h`, `main.c` |

What the abstraction merges or leaves out: saving a metadata file, removing a directory tree and cloning
a block are one step each (the last is under `block_locks`); so are the unlink and the link of a WRITE
and of a COMMIT. Where `UnlinkFails` is TRUE an unlink of a logical block may fail: COMMIT goes on with the next block
(`CommitUnlinkFails`), the others go on as if it had not (`Unlinked`). A failed removal of a directory and other I/O
errors are left out, and so is what happens to memory that another thread freed (the shared
`t_config` may be destroyed twice). MD5 is taken to be injective. Loading a configuration
is merged with saving it except for `DebugBuild`: compiled without optimisation `load_config` returns
whatever the global holds by then, another thread's file perhaps. The contents of a block never
written are arbitrary (`BufferOf`). A handler that returns without an answer leaves its Worker waiting
for ever; the Worker is stopped and connects again (`Reconnect`).

`Init` is a freshly formatted volume (`FRESH_START=TRUE`). `Restart`, where `Restarts` is TRUE, is a stop of
the process at any step and a start on the same volume (`inicializar_file_system` with
`FRESH_START=FALSE`): what is on disk stays as it is, the locks are new, every handler is gone, and the
metadata of initial_file:BASE alone is looked at (`valido_inicial_file`). A stop inside one system call,
or what a kernel crash does to files that were not synced, is left out.

### 2.2 Master

A step is a section under `safe_query_to`, or the accesses to shared structures between two that another
thread can observe.

| State | Code |
|---|---|
| `query`, `queries`, `acceptor` | the `query` structs (`sp`, `pc`, priority); the list `queries`; the Query the accepting thread has made READY and not listed yet |
| `ready`, `lists` | `dict_state` |
| `worker`, `workers` | the `worker` structs (`id_query`, `is_free`, `estoy_desalojando`, `sem_desalojo`, `resp_desalojo`), the list |
| `sched` | the scheduler's thread: `execute_worker`, `execute_worker_on_this_query`, the pass of aging |
| `evict` | each thread that is inside `_desalojo_abstract`: the scheduler, the connections of Query Controls that hang up, the threads that aging starts |
| `conn`, `hangup` | the threads of the connections: where `work_worker` and `disconnect_callback` are |
| `toWorker`, `toMaster` | messages in flight; a connection delivers them in order |
| `peer` | the Worker, as far as the Master can tell: its actual Query, the program counter, an EXECUTE it has not started, `desalojado_por_prioridad` |
| `told` | the Query Controls that were sent `REQUEST_KILL` |

| Actions | Code |
|---|---|
| `ConnectQuery`, `ListQuery`, `ConnectWorker` | `go_loop_net`, `master/src/main.c` |
| `ChooseWorker`, `PopQuery`, `EvictFirst`, `SendQuery`, `ToExec`, `ToBusy`, `NothingToDo` | `execute_worker`, `execute_worker_on_this_query`, `sched/scheduler.h` |
| `ChooseByPriority`, `PopAgain` | `execute_worker` under PRIORITIES without aging |
| `AgeQuery`, `SkipQuery`, `AgeEnd` | the aging part of the scheduler, `on_query_priority_changed` |
| `EvictCheck`, `EvictSend`, `EvictAnswered`, `EvictReads`, `EvictMove`, `EvictRelease` | `_desalojo_abstract`, `sched/base_scheduler.h` |
| `TakeEvicted`, `TakeEnd`, `EndExit`, `EndFree` | `work_worker` |
| `LoseWorker`, `LoseQuery`, `RemoveWorker`, `HangUp`, `HangupExit`, `HangupExec` | `disconnect_callback` |
| `Peer...` | the Worker: `packet_callback`, `loop_atender_queries`, `atender_interrupcion`; `PeerErrs` is a second error of one instruction |

A member of `Setups` is a configuration of the system: the algorithm; which Workers there are; which
peers may disconnect (`mortal`, `impatient`); how long a Query may be (`maxpc`); whether one
instruction may report several errors (`repeats`); and `prompt`, whether a peer may react while a thread of the Master is between two of its steps. With `prompt` FALSE a message
takes longer to come back than the Master's handlers take (`AtRest`): the schedules in which a peer
overtakes the Master's bookkeeping are left to the setups where it is TRUE.

What the abstraction merges or leaves out: a step of `query_to` is atomic, since it is under
`safe_query_to` (the argument `q->sp` of `base_scheduler.h:139` is read before, `EvictReads`); a message is handled with
the struct that `get_worker_by_wid` found when it arrived, and the process dies if it found none (`Index`, `EndFree`); the order of Queries of equal priority after `list_sort` is arbitrary; `q->sp` is read
before it was ever assigned when a Query is created (`FreshStates` says what it may hold; `malloc` of
fresh memory mostly gives 0, READY); the time that aging waits for is nondeterministic; the push and the pop
that race on the READY queue are atomic; READ data that passes through is left out, and so are
SIGPIPE, reused file descriptors, and the struct of a Worker that is freed while in use.
The loop of the Worker is merged where nobody can tell: taking a Query and reading its
instructions are one step unless another EXECUTE arrives between (`given`). Of what `Worker` shows
a Worker to do, the `Peer` actions do not have: an error during the flush of an eviction, a Worker that
dies of an instruction past the end of its Query, and one that waits for ever for the Storage.

### 2.3 WorkerMemory

One Worker, and of the Storage only what the Worker gets from it: the state of each File:Tag, how many
blocks it has and what is in them. A step of the interpreter goes from one request to the Storage to the
next; in between another Worker may commit or delete a File:Tag (`Rival`, limited by `Rivals`).

| Variable | Code |
|---|---|
| `algorithm` | `cw.algoritmo_reemplazo` |
| `memory`, `libre` | `memory`, the field `libre` of `lista_frames` |
| `table` | `tabla_pags_global`: the page table and the queue of both algorithms |
| `outgoing` | the victim between `seleccionar_victima` and the end of `liberar_entrada_TPG` |
| `hubo_error` | the same |
| `pc`, `instr`, `done`, `rest`, `leido` | where the interpreter is in `ejecutar_instruccion`: the instruction, the bytes of it that are dealt with, the File:Tags still to be flushed, what a READ has put together |
| `state`, `size`, `store` | the Storage |

| Actions | Code |
|---|---|
| `Fetch`, `NewQuery` | `decode_y_execute`; REQUEST_EXECUTE_QUERY, which forgets the error |
| `WritePiece`, `ReadPiece`, `SendRead` | `realizar_escritura`, `realizar_lectura`, with the loop of `ejecutar_instruccion`; `mandarLecturaAMaster` |
| `Miss`, `WriteBack`, `WriteBackUnheard` | `manejar_miss_memoria`: `seleccionar_victima`, `liberar_entrada_TPG` |
| `Fault`, `FaultRefused`, `FaultUnheard` | `reservar_frame`, `actualizar_pagina`: GET_DATA, an error, an error that posts the other semaphore |
| `FlushPage`, `FlushedAll`, `FlushUnheard` | `ejecutar_flush`, page by page |
| `Commit` | COMMIT_TAG, which is sent whatever became of the flush |
| `Create`, `Truncate`, `Delete`, `Refused` | CREATE, TRUNCATE and DELETE: requests to the Storage that leave memory alone |
| `Evict` | `atender_interrupcion`: `flushear_tabla_paginas`, whose refused writes are not reported |

An entry of the table has one field more than the code's, `stale`, which is history: its block was dropped
by a DELETE or a TRUNCATE since the page was fetched. The properties of contents leave those pages out,
because of them they do not hold (section 5); the others speak of them too. `leido` notes of each byte whether its
page was stale when it was read, which is history too. Left out: TAG, which touches
neither memory nor a File:Tag that is there; the writes of other Workers to the blocks this one caches, which
nothing in the code keeps coherent; the copy of each fetched block that is sent to the Master; strings that
end at a NUL byte; what the Storage does with a silent write past the end of a File:Tag (it is answered, and
the contents are lost for the Worker). A memory of less than one block, on which the first fault fails, is
excluded by `SizesAssumption`. An eviction is taken between two instructions, which is where
`atender_interrupcion` is called; when it is asked for is the affair of `Worker`.
`buscar_victima_clock_modificado` does not return what its recursive call found: it is taken to return it,
as both builds happen to do because the value is still in the register of results.

### 2.4 Worker

The three threads of a Worker: the interpreter (`loop_atender_queries`), the callback of the Master's
connection and that of the Storage's (`packet_callback`). What an instruction does in memory is in
`WorkerMemory`; here it is the requests it makes, one after another, any of which may succeed, fail with
either kind of error, or not be answered. A step goes from one access to what the threads share to the next
that another thread can tell from it.

| Variable | Code |
|---|---|
| `actual` | `actual_query`: its id, its `pc`, and the Query whose file its list of instructions was read from (none until `obtener_instrucciones_v2` has run) |
| `hubo_error`, `desalojado`, `sem` | `hubo_error`, `desalojado_por_prioridad`; `sem_dimi`, `sem_query_recibida`, `sem_respuesta_storage`, `sem_get_data` |
| `ti` | the interpreter: where it is, the instruction, the last request, `is_free` |
| `tm`, `ts` | the other two threads: which of their writes is next |
| `asks` | the request that the Storage has not dealt with |
| `query`, `busy`, `asked`, `toWorker`, `toMaster` | the Master, reduced to what a Worker can tell: it gives a Query to a Worker that is free, asks for evictions of one that is not, and frees it when it hears of an end or an eviction |
| `following` | history: for each Query, the instruction after the last one executed |
| `up` | FALSE once an instruction past the end was asked for (`list_get` gives NULL, which is followed) |

| Actions | Code |
|---|---|
| `Top`, `AwaitAfterError`, `AwaitQuery`, `Load` | `loop_atender_queries` between two Queries: `sem_dimi`, `sem_query_recibida`, `obtener_instrucciones_v2` |
| `Fetch`, `FetchPast`, `Ask`, `Answered`, `End`, `Advance`, `Leave` | its inner loop and `ejecutar_instruccion`; QUERY_END; `pc++` |
| `NotInterrupted`, `Interrupted`, `Evicted` | `atender_interrupcion` |
| `TakeQuery`, `ClearError`, `PostQuery`, `TakeEviction` | `packet_callback`, REQUEST_EXECUTE_QUERY and REQUEST_DESALOJO_AGING |
| `HearSuccess`, `HearError`, `SetError`, `PostError` | `packet_callback`, the answers of the Storage |
| `Dropped` | a request that the Storage does not answer |
| `Give`, `AskEviction`, `Learn` | the Master: `SendQuery`, `EvictSend`, `TakeEnd` and `TakeEvicted` of `Master` |

A member of `Setups` is a way of the Master to behave. With `prompt` FALSE (`Polite`) it gives a Query, and
takes note of an answer, when the threads of the Worker wait (`AtRest`): the way over the network and
through the Master takes longer than what is left to the Worker after QUERY_END. With `prompt` TRUE it may
be quicker, which nothing in the code excludes. Evictions come at any moment in both.

Dead code is left out: `REQUEST_DESALOJO` (`main.c:160-206`) and `need_stop` answer a message that no Master
sends, and with them `need_desalojo` and `sem_need_desalojo`, which are posted and awaited nowhere else.

## 3. What is checked

| Run | Instance | Shows |
|---|---|---|
| `storage_solo` | 1 Worker, any sequence of all eight requests on two File:Tags, 4 blocks, 2 logical blocks, debug build | no block is lost or given twice (`LinkedBlocksAllocated`, `NoBlockLost`), the metadata is what the links say, the hash index is true, only frozen blocks are shared, contents committed twice are kept once, a TAG is a copy, the store promised to Workers is implemented (`StoreSpec`: each step changes at most the File:Tag of the Worker's request, as the request says), every request ends, nothing deadlocks |
| `storage_pair` | 2 Workers on separate File:Tags, 3 blocks, so that clones fail | the same of the state they share: bitmap, block 0, hash index; `hash_index_lock` is given back (`HashLockInSection`); and neither Worker changes what the other reads, because each changes only what it asked to (`StoreSpec`) |
| `storage_any` | 2 Workers on one File:Tag, 2 blocks, debug build, deletions, TAGs onto it, flushes that report no error, unlinks that fail, process deaths | whatever they do to each other's data, the locks of the File:Tags are taken and given back properly, `hash_index_lock` is held wherever a logical block is reassigned (`LockDiscipline`), and no loop leaves its list (`HandlerShape`), across stops and restarts at any step |
| `write_commit`, `delete_commit` | 2 Workers | violations, see 5 |
| `commit_unlink` | 1 Worker, unlinks that fail | a violation, see 5 |
| `master_fifo` | FIFO, 3 Queries, 2 Workers, nobody disconnects, slow network | the lists agree with the states; the scheduler implements the queue of `Dispatcher`; every Query ends |
| `master_any` | 2 Queries; FIFO with a Worker that is lost out of two, or the only one with a fast network; aging and priorities with two Workers; a Query Control that hangs up at any moment | no READY Query is out of the queue and of every hand, under FIFO none runs on two Workers, no program counter falls, whoever's Query is over is told, with instructions that report several errors (one Worker, and priorities) |
| `exit_final` | 1 Query, 1 Worker, fast network | a violation, see 5 |
| `worker_memory` | LRU and Clock-M, 2 frames, File:Tags of 2 pages and of 1, any sequence of instructions and evictions; the larger one is cut and grows again, the smaller one is deleted and created, and committed or deleted by another Worker at any request; READs that begin in a stale page are among them | frames and entries agree on every error path (`FramesAccounted`); a page not marked is what the Storage has (`CleanIsStored`); the victim is the first of the lowest class (`VictimIsLowest`); faults, replacements, flushes and TRUNCATEs do not show (`MemoryIsTransparent`); a WRITE or FLUSH that ends well did all it should (`WriteStoresAll`, `FlushPersists`), and a READ sends what the File:Tag has but for bytes of stale pages (`ReadReturnsView`); an instruction ends, or waits for an answer that never comes |
| `worker` | 5 Queries that hold between them every kind of instruction, one of them without END; any request fails or is not answered; evictions at any moment; a Master that waits and one that does not | no instruction is skipped or repeated across evictions (`InstructionsInOrder`); no eviction is lost or answered twice (`EvictionsAccounted`); no answer is left for another request (`AnswersMatch`); the Worker comes to rest without stray permits, and on `sem_dimi` only after an error (`RestIsClean`); each Query given is answered for (`QueryIsAnswered`) |
| `worker_prompt` | the same Worker under a Master that does not wait | a violation, see 5 |

**Bounds.** `MaxLogical`, `NBlocks`, `Sizes` and the requests bound the Storage: two logical blocks are
what it takes for a loop to have a first and a last round, for one File:Tag to hold the same content
twice, and for a TAG to fail half way; four blocks let two File:Tags be full and leave the one that copy
on write needs, three and two make every clone compete. Size 3 of blocks of 2 is rounded up, and 0
drops every block. Two contents, one of them that of block 0, are equal or differ. In `Master` three
Queries make a queue with an order while two Workers run; two suffice for a Query to be evicted for
another; `MaxEvictors` bounds the threads that evict from one Worker at once; a Query has at most
two instructions (`maxpc` 1), so that it can be evicted before, between and at its end. `master_any` has two Queries, which is not
enough for everything: with a third, under aging, a Query may run on two Workers (section 5). What is
said of any number of Queries is what is proved (section 4). In
`WorkerMemory` three pages compete for two frames, so that one instruction can evict the page it began
with, and a block of two bytes tells the beginning of a page from its middle. With the bounds
each passing run ends within three minutes or so, and every action is taken in some passing run. In `Worker` an
instruction makes up to two requests that may fail (`MaxAsked` counts those before the last), so that
a second error of one instruction is there, and the Master gives a Query at most twice (`MaxGiven`), so that
one is evicted and resumed; the setup that waits and the one that does not have separate Queries.

**Fairness.** Storage: weak fairness of each thread's steps (`Handle(w)`): a connection thread with a
message is scheduled by the operating system and waits only for locks. Nothing makes a Worker ask.
Master: weak fairness of the accepting thread's second half, of the scheduler, of each thread inside an
eviction, of each connection, and of a Worker that has received a Query and of its end, because a Query
has finitely many instructions (`PeerGoes` contains no plain instruction, so it stays enabled until
the Query is over). Nothing makes a Query arrive, a peer disconnect or time for aging pass.
Worker memory: weak fairness of the interpreter inside an instruction (`Interpret`), which is one thread
that waits only for the Storage; nothing makes it fetch, or another Worker commit.
Worker: weak fairness of each of its threads, and of the Storage dealing with a request (one of the
outcomes may be that it is dropped). Nothing makes the Master give, evict or listen.

**Liveness is narrower than safety.** `QueriesEnd` is stated where nobody disconnects and nothing is
evicted: with evictions the Master may wait for ever (see 5). `HashLockReleased`, which is violated (`commit_unlink`), allows the process
to have died. `RequestsEnd` is checked with one Worker; an answer is not promised, because several
error paths send none. `InstructionsEnd` counts the waits for an answer that never comes as ends: they
are `pc` "stuck", the only reason why that run does not check for deadlock. `QueryIsAnswered` excepts the
same waits (`Deaf`) and a file without END, after which the process dies, and is stated for a Master that waits.

**Only in some runs.** `LinkedBlocksAllocated`, `NoBlockLost`, `HashIndexSound` and `StoreSpec` are checked with
one Worker and with two on separate File:Tags of which one is committed; `write_commit`, `delete_commit`, `TagClone.cfg` and `Restart.cfg`
show why no more can be claimed. `HashLockInSection` is checked where no unlink fails; `commit_unlink` shows why. `MetadataMatchesLinks`, `SharedIsFrozen`, `Deduplicated` and `TagIsCopy` are
checked with one Worker; section 4 says for which sets of requests all of them are proved. No run deletes `initial_file:BASE`. Of `WorkerMemory`,
`WriteStoresAll` and `ReadReturnsView` hold for pieces that do not go from the middle of a page into the
next (`PlainInstructions`; `WorkerUnaligned.cfg` shows the loss of a WRITE that does), and the properties of contents for a File:Tag that is
open to writes. `ReadReturnsView` speaks of the bytes of a READ that were not read in a stale page: those come from memory, and the fault of a
later page of the same READ may drop them before the READ is sent. `RunsOnOneWorker` is stated for FIFO.

## 4. What is proved

By TLAPS, for every value of the constants:

| Theorem | Says |
|---|---|
| `StorageProofs!InvHolds` | `Inv == TypeOK /\ HandlerShape` is an invariant |
| `StorageProofs!TypeCorrect` | `TypeOK` |
| `StorageProofs!HandlersInBounds` | `HandlerShape`: no loop index leaves its list, no block number that is about to be linked or stored is that of no block, no metadata file has more blocks than the bound |
| `StorageProofs!LocksAreDisciplined` | `LockDiscipline`: a File:Tag's lock is held exactly by the handler that is inside its section, and a handler that reassigns a logical block in a COMMIT holds `hash_index_lock`; unlinks that fail and restarts included |
| `StorageProofs!HashLockGivenBack` | if no unlink fails, `HashLockInSection`: `hash_index_lock` is held only inside its section |
| `StorageBlockProofs!BlockInvHolds` | if `Orderly`, `BlockInv`: the invariant on which the next nine rest |
| `StorageBlockProofs!LinkedAreAllocated` | if `Orderly`, `LinkedBlocksAllocated`: what is linked is occupied |
| `StorageBlockProofs!NoneIsLost` | if `Orderly`, `NoBlockLost`: what is occupied is linked, or in the hands of one handler |
| `StorageBlockProofs!MetadataIsTrue` | if `Orderly`, `MetadataMatchesLinks`: the BLOCKS of a File:Tag at rest are its links |
| `StorageBlockProofs!IndexIsSound` | if `Orderly`, `HashIndexSound`: a hash leads to a block with that content, or to one that a DELETE is about to drop |
| `StorageBlockProofs!SharedStaysFrozen` | if `Orderly`, `SharedIsFrozen`: but for block 0, only blocks of committed File:Tags are shared |
| `StorageBlockProofs!TagCopies` | if `Orderly`, `TagIsCopy`: a TAG reads as its origin |
| `StorageStoreProofs!StoreIsImplemented` | if `Orderly`, `StoreSpec`: the Storage is the store of separate File:Tags of `TagStore`; no step changes a File:Tag but the one its Worker has asked to change |
| `StorageStoreProofs!CommittedStays` | if `Orderly`, `CommittedFrozen`: what is committed reads the same until it is deleted (violated where `Orderly` fails: `write_commit`, `Restart.cfg`) |
| `StorageStoreProofs!OneBlockPerContent` | if `Orderly` and `OneIndexer`, `Deduplicated`: committed File:Tags at rest have one block per content |
| `MasterProofs!TypeCorrect` | `TypeOK` of `Master` |
| `MasterProofs!EveryoneIsTold` | `ExitIsTold`: whoever's Query is in EXIT was told, is gone, or is about to be told |
| `MasterProofs!NoneForgotten` | `ReadyIsQueued`: a READY Query is once in the queue, or in one thread's hand |
| `MasterFifoProofs!OneWorkerEach` | `RunsOnOneWorker`: under FIFO no two Workers run the same Query |
| `MasterFifoProofs!NeverBack` | if every setup is FIFO, `PcNeverFalls`: the counter that the Master keeps of a Query never falls |
| `MasterFifoProofs!ListsAgree` | in the setting of `master_fifo`, `StateLists`: the lists of `dict_state` are what the states say |
| `MasterFifoProofs!Implements` | in that setting, `DispatcherSpec`: the scheduler is a queue |
| `WorkerMemoryProofs!TypeCorrect` | `TypeOK` of `WorkerMemory` |
| `WorkerMemoryProofs!FramesAgree` | `FramesAccounted`: page table and list of frames agree |
| `WorkerMemoryProofs!CleanPages` | `CleanIsStored`: a page that is not marked modified is what the Storage has |
| `WorkerMemoryProofs!LowestVictim` | `VictimIsLowest`: the passes of Clock-M find the first entry of the lowest class |
| `WorkerMemoryProofs!Transparent` | `MemoryIsTransparent`: only a WRITE of it changes what is seen of a byte |
| `WorkerMemoryProofs!FlushStores` | `FlushPersists`: after a FLUSH or a COMMIT without error the Storage has what the Worker sees |
| `WorkerMemoryProofs!WholeWrites` | `WriteStoresAll`, if `WithinPages`: a WRITE without error wrote all its bytes, where they belong |
| `WorkerMemoryProofs!WholeReads` | `ReadReturnsView`, if `WithinPages`: a READ without error sends what the File:Tag has, but for bytes of stale pages |
| `WorkerProofs!TypeCorrect` | `TypeOK` of `Worker` |
| `WorkerProofs!EvictionsNeverLost` | `EvictionsAccounted`: an eviction that is due is in one place, and none is where none is due |
| `WorkerProofs!NoAnswerLeftOver` | `AnswersMatch`: no permit of the Storage's semaphores outlives the request it answers |
| `WorkerProofs!InOrder` | `InstructionsInOrder`: under a Master that waits no instruction is skipped or repeated |
| `WorkerProofs!RestClean` | `RestIsClean`: such a Master finds no permit left over |

### 4.1 Assumptions

The `ASSUME`s of the modules, which TLC evaluates in every run: in `Storage` that NoWorker is nobody
(`WorkersAssumption`), that the volume has a block, a content for it and initial_file:BASE
(`VolumeAssumption`), that a request's size takes no more logical blocks than the bound, and that a logical
block number is in it (`RequestsAssumption`); in `Master` that priorities are numbers, NoOne is no Worker and
the setups are setups; in `WorkerMemory` that there is a File:Tag, a frame and a byte to a block (`SizesAssumption`), that a WRITE or READ
is of some byte, that a WRITE's text has the length it says and that a TRUNCATE asks no more than `PagesOf`
(`InstructionsAssumption`); in `Worker` that the files are sequences of instructions.

Some theorems have a hypothesis of their own on the instance. Those of `Storage` (section *Settings* of the
module) speak of what the Workers may ask for together, in any number, order and interleaving:

- `Orderly`, of all that `StorageBlockProofs` and `StorageStoreProofs` prove. Each part of it excludes something that
  makes the conclusions false:
  - `Apart`: no Worker changes a File:Tag that another changes or copies (any may read it, and TAG from
    initial_file:BASE). A WRITE and a TAG work with metadata they have read before they hold a lock of it:
    `write_commit`.
  - `DeletesAlone`: nobody else commits while a Worker deletes what it commits. Between the check of `st_nlink` and the
    removal of the hash another COMMIT may link to the block: `delete_commit`.
  - `RoomForTags`: a TAG of more than one block may count on the free blocks it has counted, because no other Worker
    allocates. Otherwise a clone may fail half way, and the blocks of those before it are freed while the links stay
    (`TagCloneFails`): `TagClone.cfg`.
  - no silent WRITE (`WRITE_NOT_ERROR`), which does not check its bounds, and no DELETE of initial_file:BASE, which
    frees block 0.
  - in a debug build, one Worker: with more, the global `t_config` sends metadata to another File:Tag's file.
  - no restart: `Restart.cfg`.
  - no unlink that fails: TRUNCATE, WRITE and DELETE then go on with lists that are not the links, and COMMIT keeps
    `hash_index_lock` (`commit_unlink`).
- `OneIndexer`, of `OneBlockPerContent`: whoever commits is the only one to commit and to delete. A COMMIT works with a copy of the
  whole index, read at its start, and saves it whole: of two at once each forgets what the other has added, and the
  DELETE of a File:Tag that was never committed removes a hash by its block number, which may have been given
  to another File:Tag and committed since. Neither makes the index lie (`IndexIsSound`); a content is then kept twice.

`storage_solo` has both and `storage_pair` the first, while `write_commit` is not `Apart`, `delete_commit` not
`DeletesAlone`, and `TagClone.cfg` lacks `RoomForTags` alone: TLC evaluates this (`SettingsAssumption` of `MCStorage`).

- `CalmSetups`, of `ListsAgree` and `Implements`, is the setting of `master_fifo`: FIFO, nobody disconnects, no
  instruction reports two errors, and a message takes longer to come back than the Master's handlers take. Without them
  the conclusion is false: an eviction leaves a Query in two lists, and a quick END makes a Query go from
  EXIT to EXEC (section 5). `FreshStates` must not have EXIT: a Query whose `query*` happened to hold it is told that
  it is over, is in no list and never runs.
- `~UnlinkFails`, of `HashLockGivenBack`: `commit_unlink` shows why.
- `WithinPages`, of `WholeWrites` for WRITEs and of `WholeReads` for READs: one begins where a page does or ends in the page where it begins. The
  others lose bytes, or read those of another page (section 5). The instructions of `worker_memory` satisfy it (`PlainInstructions`).

- Every setup is FIFO, of `NeverBack`; whoever disconnects, and however quick the Workers are. With aging or priorities an
  evicted Query is given again, and what two Workers hold of it would have to be ordered too: there
  TLC checks `PcNeverFalls`, with two Queries.

`OneWorkerEach` has no hypothesis: its property is stated for setups under FIFO, whoever disconnects. `InOrder` and `RestClean`
have none either: their properties are stated where `setup.prompt` is FALSE, and `worker_prompt` shows why.

### 4.2 Arguments

*Storage.* `TypeOK` is not inductive: `blocks[i]` may be no block, or no element at all, unless the
position of a handler says where its counter is, and `MaxLogical` bounds nothing unless the lists that
other threads saved in the metadata do not exceed it. `HandlerShape` says both, position by position,
of one stack at a time, so that a step of one thread is checked on its own stack and on the metadata it
writes (lemmas `OneThread` and `UpdateKept`). `Restart` empties every stack and writes one metadata, of one
block (`RestartSafe`, `BaseMetaTyped`). It makes no assumption on what the other threads
did meanwhile, which is why it holds without the locks; the metadata may be another handler's, and is
only known to be a list of blocks within the bound. `LockDiscipline` is inductive on top of it: each action
either goes from a position to one with the same locks (`GoesOn`), or takes or gives back one
(`TakesLock`, `GivesLock`, `TakesHashLock`, `GivesHashLock`). `HandlerShape` is needed there to know that
the loop of a COMMIT that releases a lock is the one that took it. The invariant, `LockInv`, carries `HashLockInSection` along where
no unlink fails; a COMMIT whose unlink fails leaves the section with the lock (`KeepsHashLock`), where nothing needs it to be free.

*Storage, blocks.* `BlockInv` has two halves. `VolumeInv` is what holds of the volume between any two steps: links lead to occupied
and written blocks, no block is lost, File:Tags at rest have the links of their metadata, two logical blocks share one
other than block 0 only if a COMMIT is done with both (`Settled`), and hashes lead to blocks whose references
are all settled (`Sound`), so that nobody will write to them. `HandlerInv` is what one handler knows, position by
position: its File:Tag is as it read it (`MetaKnown`), its links are those of its list but for the one at
hand (`LinksKnown`), its copy of the index is sound even where the index has changed since (`CopySound`), and the block in
its hands is in nobody else's, linked nowhere and in no copy of the index (`HandKnown`). The proof goes by
rely and guarantee: `Effect(w)` says what a step of w may do to the rest, each action is shown to stay within it and to
keep its own `HandlerInv`, and `StepKept` shows once that a step within it keeps the volume and what the
other handlers know. `Apart` makes the File:Tags of two handlers
different (`Separate`), and `DeletesAlone` is needed where a block being freed is still indexed (`Unhashing`). Room for a TAG is a count of free blocks, kept with the library's facts on cardinalities.

*Storage, what is seen.* `StoreState`, `StoreData` and `StoreAsked` are the refinement mapping; what is asked is the request of the handler
(`Pending`), so that the File:Tag a step may change is the one it names (`Subject`, which is `Dest` of the code). A step that changes neither what any logical
block reads (`SeenSame`) nor a state (`StateSame`) is a stutter: copies, reservations, relinking to a
block with the same content, all of the index. The rest are one step of `TagStore` each (`PutMapped` and what follows
it), and it is there that a block written in place must be read
through one link only (`InPlaceOwn`), that a block which TRUNCATE adds reads as Zero, because nobody writes block 0 (`ZeroKept`),
and that what a TAG makes public reads as its origin (`TagCopies`). `CommittedStays` follows from the
refinement alone (`CommittedStep`). `OneBlockPerContent` adds `Indexed`: the copy of the COMMIT is the index, and what is
settled and not being deleted (`Kept`) is what the index has for its content.

*Master.* `Inv == TypeOK /\ Handles /\ CallsOfThreads /\ QueuedOnce /\ ReadyHeld /\ ExitIsTold`. `Handles` says
what each thread holds at each position, so that no index is out of a list; `CallsOfThreads`, from where
`_desalojo_abstract` is called, without which two threads could be taken for one; `QueuedOnce`, that the
queue has no Query twice and none that did not connect; `ReadyHeld` is `ReadyIsQueued` with "in the queue" for "in
the queue once", which follows from it and `QueuedOnce` by counting positions. Every move of a Query is
one of `Moved`, so what `query_to` does to lists and states is proved once (`MovedKeeps`).

Under FIFO `FifoInv` adds that no thread evicts but for a Query Control that hangs up (`NoEviction`: what such a call has read of its Query is at most EXEC or EXIT), that
the Query about to be given is in READY no more (`TakenOnce`), and that one that was given went to one Worker and is
not READY (`GivenOnce`): a state never goes back (`Ahead`), so it is never given again. `NeverBack`
adds `PcInv`. What is still to be heard of a Query from a Worker is a trail of counters (`Trail`: the last answer taken, the
answers on their way, and what the Worker has). At most one Worker has one (`MarkedOnce`), it rises and is never behind
the Master's counter (`AllRising`), and a Query that was not given yet has none and its counter is 0 (`Unmarked`,
`SentOnce`): so no answer, late or not, sets a counter back. For the lists and the
refinement, `CalmInv` says of each Worker at which of five stages it is (`InStages`: at rest, with an EXECUTE on its way,
at work, with its END on its way, being freed), and of the scheduler which it has just sent one. In each stage the Master's struct, the two
connections and the Worker's own Query agree, and the struct that a message was handled with was found (`Found`), which is what `query_to` needs to find a Query in the list of its
state. The refinement maps READY, the Query at hand and the assignments to the abstract queue, and proves that each
step is a step of `Dispatcher` or leaves it alone.

*Worker memory.* `Inv == TypeOK /\ StorageKnown /\ InHand /\ TableApart /\ PagesInStore`. `InHand` says what the
interpreter has at each position; `TableApart`, that any two entries, the victim included, have different pages
and frames, and that the free frames are the others; `PagesInStore`, that a page that is not stale has a block, and one
that is not modified either has its contents. The queue is reordered by both algorithms, so what the proofs need of
it is stated for a list rearranged by any bijection of its positions (`Rearranged`). What is seen of a byte is `Byte(ft, p, o, x)`: it
is x in the entry of its page, among those of the table and the victim, or x in the Storage if there is
none. Each action is shown to keep `Byte`, except a WRITE at its own bytes, and `View` is `Byte` of a File:Tag without stale
pages. For FLUSH, `FlushAtHand` follows the list of File:Tags to flush to its end, where nothing
is modified, and a view with nothing modified is the Storage's. For WRITE, `WriteAtHand` says that the pieces already
written are still seen, and that their pages can be given back to the Storage (`Safe`), whatever was faulted for the
later ones: an entry after a step is the heir of one before it (`Inherits`). For READ, `ReadAtHand` says that the bytes read so far, those of
stale pages apart, are still seen where they were read: a page that is not stale may be replaced and fetched again
before the READ is sent, and is the same.

*Worker.* `EvictionsAccounted` and `AnswersMatch` are inductive with the types and `OpInHand`: the
interpreter is in the flush of an eviction, and nowhere else between two requests, because of an eviction.
The first counts messages in queues of any length, so the lemmas `Sent` and `Received` say what one more or one less
does to the count; the rest is a sum of four terms that each step moves one unit within (`Surplus`).
`AnswersMatch` follows from there being one interpreter, which asks only when it does not wait: whichever of the two
semaphores an error posts, the sum of what is asked, being answered and answered stays at one. Neither needs
the Master to wait for the Worker to be at rest (`setup.prompt`), nor the Storage to answer.

With a Master that waits, `RestInv` says that at most one Query is on its way to the interpreter, as a message, in
`packet_callback` or as the permit of `sem_query_recibida` (`OneOnItsWay`), that the interpreter waits meanwhile with all that it told the
Master received, and that it waits on `sem_dimi` just when there was an error, whose permit comes with the Query (`ErrorIsMet`). It
needs `AnswersMatch`: no error of the Storage can be under way while the interpreter waits for a Query. `OrderInv` adds where
a Query was left: what its struct has (`PositionKept`), and what the messages and the Master have
(`PositionGiven`), are the instruction after the last one executed; and the Query that the interpreter has is not
READY in the Master (`QueryIsGiven`), so that nobody else moves its position.

### 4.3 What is only model-checked

- Liveness (`RequestsEnd`, `QueriesEnd`, `InstructionsEnd`, `QueryIsAnswered`), which is beyond
  this prover.
- The violations of section 5: that what a theorem's hypothesis excludes does make its conclusion false.
- `PcNeverFalls` of `Master` with aging or priorities, which TLC checks with two Queries; under FIFO it is `NeverBack`.

Induction over data is out of the provers' reach: lists are reasoned about by their length and elements, which is all
that the theorems need.

## 5. Where the code disagrees

Shown by a run:

- **A WRITE undoes a COMMIT** (`write_commit`, `write_block.h:48`): state and blocks are read before the
  lock is taken, and saved after.
- **A COMMIT links to a block that a DELETE has freed** (`delete_commit`, `delete_tag.h:90`,
  `commit_tag.h:65`).
- **A COMMIT whose unlink fails keeps `hash_index_lock`** (`commit_unlink`, `commit_tag.h:133`): no COMMIT or DELETE
  that comes to need it ends any more.
- **A Query goes from EXIT to EXEC** (`exit_final`, `scheduler.h:49`), and its Worker stays taken.
- **A Query's first instruction is skipped, or the Worker dies** (`worker_prompt`,
  `funciones_worker.h:303`): QUERY_END is sent before `pc++`, which counts the next Query's.

Shown by a configuration that is not among the runs, and that TLC finds violated:

- **A TAG whose clone fails frees blocks that stay linked** (`TagClone.cfg` of `MCStorage`, `tag_file.h:116`): the free
  blocks it counted were not reserved, and what it has linked is not removed.
- **A stop in the middle of a TRUNCATE lets a WRITE overwrite block 0** (`Restart.cfg` of `MCStorage`,
  `inicializacion_storage.h:265`): the metadata still names block 0, of which one link is left.
- **A WRITE loses bytes at the end of a page** (`WorkerUnaligned.cfg` of `MCWorkerMemory`, `fase_execute.h:114`): it is
  cut in pieces counted from its own base, and what does not fit in the page of a piece is dropped.

Seen while modelling, with no run of their own:

- *Storage.* A TRUNCATE answered SUCCESS may write another File:Tag's metadata (`config.h:194`), in a build
  without optimisation (`CDEBUG` of `storage/settings.mk`); `storage_any` runs with it. DELETE accepts initial_file:BASE and frees block 0. CREATE records the block size as the
  size of an empty File. TAG builds the destination under the origin's file. WRITE without a free
  block, COMMIT of a committed File:Tag, TAG whose clone fails, READ of a missing link: no answer.
- *Evictions.* `_desalojo_abstract` sets `q->sp` itself (`base_scheduler.h:127`), so that the guard of
  `_query_to` is passed by: a Query that ended, and whose Worker then answers an eviction, is READY
  again. For the same reason the list it was in keeps it, and it is in two. If the Worker had already
  ended its Query when the eviction was asked for, nobody answers until its next Query: under
  PRIORITIES it is the scheduler that waits, for ever.
- *Priorities without aging.* With two Workers or more of which one has no Query, the search for the
  lowest priority follows a null pointer (`scheduler.h:53-59`). A Query of equal priority is evicted
  (`>=`, line 92; the comments of lines 81 and 94 say lower).
- *Order of messages.* `REQUEST_KILL` is sent before `query_to_no_notify`: the Query Control may hang up
  while the Query is still in EXEC, and the eviction that follows reaches the Worker's next Query. A
  Query that ends before the accepting thread has listed it is not found and stays in EXEC.
  `is_free` and the hang-up check of `disconnect_callback` are read and used apart: a Query that is popped
  while it is moved to EXIT runs nevertheless.
- *Lost Workers.* The index to remove is looked up before the lock (`main.c:219`) and used after it
  (`221`). A Query that is being given to the Worker that is lost stays in EXEC.
- *Answers that never come.* A page fault on a File:Tag that is not there waits for ever
  (`worker/src/main.c:250`), and so do a silent flush of a committed one (`fase_execute.h:396`), a COMMIT
  of a committed one, any write for which the Storage has no free block, and the flush or the write back of a
  page that a TRUNCATE has cut off (`main.c:246`). In `Worker` these are `Deaf`, in `WorkerMemory` "stuck".
- *Memory.* CREATE, TRUNCATE and DELETE leave the pages of the File:Tag in memory: after a DELETE and a
  CREATE of the same name a READ returns the old contents and a FLUSH writes them (the entries that are
  `stale`). A READ whose base is not a multiple of the block goes on from the end of a page in the next frame
  of memory, whatever page is in it (`fase_execute.h:159`): the instructions of `worker_memory` have none of these.
  A WRITE to a committed File:Tag is accepted, and read back, until the page is written back. END
  does not flush.
- *Errors.* An instruction of several requests goes on after one that was refused (`funciones_worker.h:52`) and
  may report several errors: the second is charged to whatever Query is the actual one by then, and the
  Master ends that one (`PeerErrs` of `Master`). The Master is told before `hubo_error` is set
  (`main.c:239-242`): if its next EXECUTE is quicker, the flag is cleared and then set, and the interpreter waits
  on `sem_dimi` until the EXECUTE after that one, of which it takes the path; if it comes between the two looks
  at the flag, a permit of `sem_dimi` is left for a later error, which is then not waited for.
- *Late evictions.* A request that arrives after END stays in `desalojado_por_prioridad`, and is answered for the
  next Query, which is evicted at its first instruction. With aging, three Queries and two
  Workers one Query then runs on both: the interpreter answers the late request for the Query that it was given
  meanwhile (`funciones_worker.h:314`) and runs it all the same; `_desalojo_abstract` puts that Query in READY and frees
  the Worker (`base_scheduler.h:141`), and the scheduler gives it to the other.
- *Ends of files.* A file whose last instruction is not END is read past its end: NULL goes to
  `remove_new_line`, and the Worker dies.

## 6. Plan

In this order; the first six are done.

1. `Storage`, `TagStore`, their runs; proofs of types, bounds and locks.
2. `Master`, `Dispatcher`, their runs.
3. `WorkerMemory` and its run, with CREATE, TRUNCATE and DELETE and the pages that outlive their blocks.
4. `Worker`: the interpreter, with its three threads and semaphores, under a Storage that answers each
   request with either kind of error or not at all, and a Master that may send EXECUTE and EVICT at any moment.
5. `Storage` after a stop at any step (`Restart`).
6. Proofs: of `Storage`, types, bounds and locks, and for Workers on File:Tags of their own the blocks, the index, the
   refinement of `TagStore`, the frozen contents and one block per content; of `Master`, types, the READY queue, who is told, and under FIFO one
   Worker for each Query, counters that never fall, the lists and the refinement of `Dispatcher`; of `WorkerMemory`, types, frames, clean pages, victims,
   transparency, FLUSH, WRITE and READ; of `Worker`, types, evictions, answers, rest and the order of instructions.
7. Left for later: `PcNeverFalls` of `Master` proved with aging or priorities; two Workers that cache one File:Tag; an abstract File:Tag that the memory implements, which
   `MemoryIsTransparent`, `WriteStoresAll` and `ReadReturnsView` now say piece by piece; `Worker` under `Master`
   itself, in place of the `Peer` actions there and of `Give`, `AskEviction` and `Learn` here.

Not planned: Query Control beyond its two events; `utils`, taken to deliver the messages of one
connection in order, one at a time; conversions of data; scripts.

## 7. Running

    tlc -config StorageSolo.cfg MCStorage.tla
    tlc -config MasterAny.cfg MCMaster.tla
    tlc -config TagClone.cfg MCStorage.tla
    tlc -config WorkerMemory.cfg MCWorkerMemory.tla
    tlc -config Worker.cfg MCWorker.tla
    tlapm StorageProofs.tla
    tlapm StorageBlockProofs.tla
    tlapm StorageStoreProofs.tla
    tlapm SequenceFacts.tla
    tlapm MasterProofs.tla
    tlapm MasterFifoProofs.tla
    tlapm WorkerMemoryProofs.tla
    tlapm WorkerProofs.tla

`PROJECT.json` lists the runs with their configurations, and gives for each definition the lines it models.
