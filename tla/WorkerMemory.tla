---------------------------- MODULE WorkerMemory ----------------------------
(****************************************************************************)
(* The internal memory of a Worker: a few frames in which the interpreter   *)
(* keeps pages of File:Tags, fetched from the Storage on a miss and written *)
(* back when they are replaced, flushed or committed.  The queue of entries *)
(* is at once the page table and the order of the replacement algorithm.    *)
(*                                                                          *)
(* A step goes from one request to the Storage to the next: between two of  *)
(* them other Workers may commit or delete a File:Tag.                      *)
(****************************************************************************)
EXTENDS Integers, Sequences, FiniteSets, FiniteSetsExt, SequencesExt

CONSTANTS
  FileTags,     \* the names
  PagesOf,      \* bound: logical blocks that each File:Tag may have
  BlockSize,    \* BLOCK_SIZE of the Storage, which is the size of a page
  NFrames,      \* TAM_MEMORIA / BLOCK_SIZE
  Bytes, Blank, \* what a byte may be, and what it is first
  Algorithms,   \* values that ALGORITMO_REEMPLAZO may have
  Instructions, \* what the Queries may contain
  Rivals        \* the states into which other Workers may put each File:Tag

Frames == 0 .. NFrames - 1
Offsets == 0 .. BlockSize - 1
Addresses == 0 .. NFrames * BlockSize - 1
Pages(ft) == 0 .. PagesOf[ft] - 1
States == {"NONE", "WORK_IN_PROGRESS", "COMMITED"}

(* tam is the length of the contents that are written, or that are read, or    *)
(* the size of a TRUNCATE.                                                     *)
Remote == {"CREATE", "TRUNCATE", "DELETE"}
Instruction == [op : {"WRITE", "READ", "FLUSH", "COMMIT", "EVICT"} \cup Remote,
                ft : FileTags, base : Nat, tam : Nat, text : Seq(Bytes)]
(* stale is history: the page was not fetched, or its block was dropped since. *)
Entry == [ft : FileTags, pag : Nat, marco : Frames, uso : BOOLEAN, modificada : BOOLEAN,
          stale : BOOLEAN]
(* A byte that a READ has read, and whether its page was stale: history, too. *)
Read == [byte : Bytes, stale : BOOLEAN]

ASSUME SizesAssumption ==
  /\ FileTags # {}
  /\ BlockSize \in Nat \ {0} /\ NFrames \in Nat \ {0}
  /\ PagesOf \in [FileTags -> Nat] /\ Blank \in Bytes
ASSUME AlgorithmsAssumption == Algorithms \subseteq {"LRU", "CLOCK-M"}
ASSUME InstructionsAssumption ==
  /\ Instructions \subseteq Instruction
  /\ \A r \in Instructions :
       /\ r.op # "EVICT"
       /\ r.op \in {"WRITE", "READ"} => r.tam > 0
       /\ r.op = "WRITE" => Len(r.text) = r.tam
       /\ r.op = "TRUNCATE" => r.tam <= PagesOf[r.ft] * BlockSize
ASSUME RivalsAssumption == Rivals \in [FileTags -> SUBSET {"NONE", "COMMITED"}]

VARIABLES
  algorithm,   \* algoritmo_reemplazo
  memory,      \* the bytes of the frames, one frame after the other
  libre,       \* the frames that are free
  table,       \* tabla_pags_global
  outgoing,    \* the victim that has left the table and still has its frame
  hubo_error,  \* the Storage refused something since the Query began
  pc,          \* where the interpreter is
  instr,       \* the instruction it executes
  done,        \* the bytes of it that are dealt with
  rest,        \* the File:Tags that are still to be flushed
  leido,       \* what a READ has read
  state, size, store \* of the Storage: the state of each File:Tag, how many
                     \* blocks it has and what is in them

mem == <<memory, libre, table, outgoing>>
storage == <<state, size, store>>
vars == <<algorithm, memory, libre, table, outgoing, hubo_error, pc, instr, done, rest, leido,
          state, size, store>>

Idle == [op |-> "FLUSH", ft |-> CHOOSE ft \in FileTags : TRUE, base |-> 0, tam |-> 1,
         text |-> <<>>]

TypeOK ==
  /\ algorithm \in Algorithms
  /\ memory \in [Addresses -> Bytes]
  /\ libre \subseteq Frames
  /\ table \in Seq(Entry)
  /\ outgoing \in Seq(Entry) /\ Len(outgoing) <= 1
  /\ hubo_error \in BOOLEAN
  /\ pc \in {"idle", "piece", "writeback", "fault", "send", "flush", "commit", "remote",
           "stuck"}
  /\ instr \in Instruction
  /\ done \in Nat
  /\ rest \in Seq(FileTags)
  /\ leido \in Seq(Read)
  /\ state \in [FileTags -> States]
  /\ \A ft \in FileTags : size[ft] \in 0 .. PagesOf[ft]
  /\ \A ft \in FileTags : store[ft] \in [Pages(ft) -> [Offsets -> Bytes]]

(* Any File:Tags that other Workers have made; memory holds what it held.     *)
Init ==
  /\ algorithm \in Algorithms
  /\ memory = [a \in Addresses |-> Blank]
  /\ libre = Frames
  /\ table = <<>> /\ outgoing = <<>>
  /\ hubo_error = FALSE
  /\ pc = "idle" /\ instr = Idle /\ done = 0 /\ rest = <<>> /\ leido = <<>>
  /\ state = [ft \in FileTags |-> "WORK_IN_PROGRESS"]
  /\ size = PagesOf
  /\ store = [ft \in FileTags |-> [p \in Pages(ft) |-> [o \in Offsets |-> Blank]]]

-----------------------------------------------------------------------------
(* Helpers *)

EntriesOf(ft, p) == {i \in DOMAIN table : table[i].ft = ft /\ table[i].pag = p}
Cached(ft, p) == EntriesOf(ft, p) # {}
IndexOf(ft, p) == Min(EntriesOf(ft, p))

Contents(m) == [o \in Offsets |-> memory[m * BlockSize + o]]

(* Faulty: every piece begins with its page. *)
OffsetNone == 0

(* Where the piece at hand begins, and its length: calcular_pagina and         *)
(* obtener_offset on the address of the piece.                                 *)
Address == instr.base + done
Page == Address \div BlockSize
Offset == Address % BlockSize
Piece == IF done + BlockSize > instr.tam THEN instr.tam - done ELSE BlockSize

(* The interpreter forgets the instruction when it is over.                    *)
Forgets == instr' = IF pc' = "idle" THEN Idle ELSE instr

(* Where it goes after the last piece. *)
Finished == IF instr.op = "READ" THEN "send" ELSE "idle"

(* Faulty: the pieces are counted from 1. *)
NextPieceEarly ==
  IF done + BlockSize + 1 < instr.tam THEN pc' = "piece" /\ done' = done + BlockSize
  ELSE pc' = Finished /\ done' = 0

(* Faulty: the loop does not advance. *)
NextPieceStuck == done' = done /\ pc' = "piece"

NextPiece ==
  IF done + BlockSize < instr.tam THEN pc' = "piece" /\ done' = done + BlockSize
  ELSE pc' = Finished /\ done' = 0

-----------------------------------------------------------------------------
(* The replacement algorithms: the victim, and the queue without it.          *)

Choice(i, s) == [victim |-> <<s[i]>>, queue |-> SubSeq(s, i + 1, Len(s)) \o SubSeq(s, 1, i - 1)]
Unused(s, m) == {i \in DOMAIN s : ~s[i].uso /\ s[i].modificada = m}
Passed(s) == [i \in DOMAIN s |-> [s[i] EXCEPT !.uso = FALSE]]

(* Faulty: the first pass takes a page whether it is modified or not. *)
ClockRoundAny(s) ==
  LET unused == Unused(s, FALSE) \cup Unused(s, TRUE) IN
  IF unused # {} THEN Choice(Min(unused), s) ELSE [victim |-> <<>>, queue |-> Passed(s)]

(* Two passes: one that is neither used nor modified, or one that is modified *)
(* and not used; the second forgets the use of those it passes by.            *)
ClockRound(s) ==
  LET i == Min(Unused(s, TRUE)) IN
  CASE Unused(s, FALSE) # {} -> Choice(Min(Unused(s, FALSE)), s)
    [] Unused(s, FALSE) = {} /\ Unused(s, TRUE) # {} ->
         [victim |-> <<s[i]>>,
          queue |-> SubSeq(s, i + 1, Len(s)) \o Passed(SubSeq(s, 1, i - 1))]
    [] OTHER -> [victim |-> <<>>, queue |-> Passed(s)]

(* With no victim it calls itself, and the second time there is one.          *)
SeleccionarVictima(s) ==
  IF algorithm = "LRU" THEN Choice(1, s)
  ELSE IF ClockRound(s).victim # <<>> THEN ClockRound(s) ELSE ClockRound(ClockRound(s).queue)

-----------------------------------------------------------------------------
(* The interpreter takes an instruction, if the Query has had no error. *)

Fetch ==
  /\ pc = "idle" /\ ~hubo_error
  /\ \E r \in Instructions :
       /\ instr' = r
       /\ pc' = CASE r.op \in {"WRITE", "READ"} -> "piece"
                  [] r.op \in Remote -> "remote"
                  [] OTHER -> "flush"
       /\ rest' = IF r.op \in {"FLUSH", "COMMIT"} THEN <<r.ft>> ELSE <<>>
  /\ done' = 0 /\ leido' = <<>>
  /\ UNCHANGED <<algorithm, mem, hubo_error, storage>>

(* REQUEST_EXECUTE_QUERY: the error was of the Query before. *)
NewQuery ==
  /\ pc = "idle" /\ hubo_error
  /\ hubo_error' = FALSE
  /\ UNCHANGED <<algorithm, mem, pc, instr, done, rest, leido, storage>>

-----------------------------------------------------------------------------
(* WRITE and READ, one piece of a block's size after the other *)

Working(op) == pc = "piece" /\ instr.op = op /\ Cached(instr.ft, Page)

(* actualizarPrioridadLRU: the entry goes to the end, with either algorithm.  *)
Touched(i, e) == table' = Append(RemoveAt(table, i), e)

(* Faulty: the page is not marked. *)
WritePieceUnmarked ==
  LET i == IndexOf(instr.ft, Page)
      m == table[i].marco IN
  /\ Working("WRITE")
  /\ memory' = [a \in Addresses |->
       LET k == a - m * BlockSize - Offset IN
       IF k \in 0 .. Piece - 1 /\ Offset + k < BlockSize THEN instr.text[done + k + 1]
       ELSE memory[a]]
  /\ Touched(i, [table[i] EXCEPT !.uso = TRUE])
  /\ NextPiece
  /\ Forgets
  /\ UNCHANGED <<algorithm, libre, outgoing, hubo_error, rest, leido, storage>>

(* realizar_escritura: no further than the end of the frame. *)
WritePiece ==
  LET i == IndexOf(instr.ft, Page)
      m == table[i].marco IN
  /\ Working("WRITE")
  /\ memory' = [a \in Addresses |->
       LET k == a - m * BlockSize - Offset IN
       IF k \in 0 .. Piece - 1 /\ Offset + k < BlockSize THEN instr.text[done + k + 1]
       ELSE memory[a]]
  /\ Touched(i, [table[i] EXCEPT !.uso = TRUE, !.modificada = TRUE])
  /\ NextPiece
  /\ Forgets
  /\ UNCHANGED <<algorithm, libre, outgoing, hubo_error, rest, leido, storage>>

(* realizar_lectura: as many bytes as were asked for, from the frame on; past *)
(* the last frame, whatever is there.                                         *)
ReadPiece ==
  LET i == IndexOf(instr.ft, Page)
      first == table[i].marco * BlockSize + Offset IN
  /\ Working("READ")
  /\ \E bytes \in [1 .. Piece -> Bytes] :
       /\ \A k \in 1 .. Piece :
            first + k - 1 \in Addresses => bytes[k] = memory[first + k - 1]
       /\ leido' = leido \o [k \in 1 .. Piece |-> [byte |-> bytes[k], stale |-> table[i].stale]]
  /\ Touched(i, [table[i] EXCEPT !.uso = TRUE])
  /\ NextPiece
  /\ Forgets
  /\ UNCHANGED <<algorithm, memory, libre, outgoing, hubo_error, rest, storage>>

(* mandarLecturaAMaster *)
SendRead ==
  /\ pc = "send"
  /\ pc' = "idle" /\ leido' = <<>>
  /\ Forgets
  /\ UNCHANGED <<algorithm, mem, hubo_error, done, rest, storage>>

(* manejar_miss_memoria *)
Miss ==
  LET choice == SeleccionarVictima(table) IN
  /\ pc = "piece" /\ ~Cached(instr.ft, Page)
  /\ IF libre # {} THEN pc' = "fault" /\ UNCHANGED <<table, outgoing>>
     ELSE pc' = "writeback" /\ table' = choice.queue /\ outgoing' = choice.victim
  /\ UNCHANGED <<algorithm, instr, memory, libre, hubo_error, done, rest, leido, storage>>

(* WRITE_BLOCK: refused if the File:Tag is committed, or is not there.  One     *)
(* that reports no error is accepted past the end, too, where it is lost.      *)
Accepted(ft) == state[ft] = "WORK_IN_PROGRESS"
Persisted(e) ==
  store' = IF Accepted(e.ft) /\ e.pag < size[e.ft]
           THEN [store EXCEPT ![e.ft][e.pag] = Contents(e.marco)] ELSE store

(* No answer, or READ_WRITE_OVERFLOW, which posts sem_get_data while            *)
(* sem_respuesta_storage is waited for: error says which.  Without a free      *)
(* block for the copy there is no answer.                                      *)
Unheard(e, error) ==
  \/ Accepted(e.ft) /\ ~error
  \/ Accepted(e.ft) /\ instr.op # "EVICT" /\ e.pag >= size[e.ft] /\ error
  \/ state[e.ft] = "COMMITED" /\ instr.op = "EVICT" /\ ~error
Heard(e) ==
  CASE Accepted(e.ft) -> instr.op = "EVICT" \/ e.pag < size[e.ft]
    [] state[e.ft] = "COMMITED" -> instr.op # "EVICT"
    [] OTHER -> TRUE

(* Faulty: the victim is not written. *)
WriteBackNot ==
  /\ pc = "writeback"
  /\ libre' = libre \cup {outgoing[1].marco}
  /\ outgoing' = <<>>
  /\ pc' = "fault"
  /\ UNCHANGED <<algorithm, instr, memory, table, done, rest, leido, hubo_error, storage>>

(* liberar_entrada_TPG: the frame is free whether the page was accepted or not. *)
WriteBack ==
  LET e == outgoing[1] IN
  /\ pc = "writeback"
  /\ e.modificada => Heard(e)
  /\ IF e.modificada
     THEN Persisted(e) /\ hubo_error' = (hubo_error \/ ~Accepted(e.ft))
     ELSE UNCHANGED <<store, hubo_error>>
  /\ libre' = libre \cup {e.marco}
  /\ outgoing' = <<>>
  /\ pc' = "fault"
  /\ UNCHANGED <<algorithm, instr, memory, table, done, rest, leido, state, size>>

WriteBackUnheard ==
  /\ pc = "writeback" /\ outgoing[1].modificada
  /\ \E error \in BOOLEAN :
       /\ Unheard(outgoing[1], error)
       /\ hubo_error' = (hubo_error \/ error)
  /\ pc' = "stuck"
  /\ UNCHANGED <<algorithm, instr, mem, done, rest, leido, storage>>

(* Faulty: the frame after those in use, counted from 1. *)
ReservedNext == Cardinality(Frames \ libre) + 1

(* READ_BLOCK is answered with GET_DATA, of a committed File:Tag too. *)
Found == state[instr.ft] # "NONE" /\ Page < size[instr.ft]

(* reservar_frame *)
Reserved == Min(libre)
Reserve ==
  /\ libre' = libre \ {Reserved}
  /\ table' = Append(table, [ft |-> instr.ft, pag |-> Page, marco |-> Reserved,
                             uso |-> TRUE, modificada |-> FALSE, stale |-> ~Found])

Fault ==
  /\ pc = "fault" /\ Found /\ ~hubo_error
  /\ Reserve
  /\ memory' = [a \in Addresses |->
       IF a - Reserved * BlockSize \in Offsets
       THEN store[instr.ft][Page][a - Reserved * BlockSize] ELSE memory[a]]
  /\ pc' = "piece"
  /\ UNCHANGED <<algorithm, instr, outgoing, hubo_error, done, rest, leido, storage>>

(* Faulty: the frame stays taken. *)
FaultRefusedKeeping ==
  /\ pc = "fault" /\ state[instr.ft] # "NONE" /\ (hubo_error \/ ~Found)
  /\ hubo_error' = TRUE
  /\ libre' = libre \ {Reserved}
  /\ IF instr.op = "WRITE" THEN NextPiece ELSE pc' = "idle" /\ done' = 0
  /\ leido' = <<>>
  /\ Forgets
  /\ UNCHANGED <<algorithm, memory, table, outgoing, rest, storage>>

(* READ_WRITE_OVERFLOW, or an error that came with the victim: the entry is   *)
(* taken out again.  A READ returns; a WRITE goes on with its next piece.     *)
FaultRefused ==
  /\ pc = "fault" /\ state[instr.ft] # "NONE" /\ (hubo_error \/ ~Found)
  /\ hubo_error' = TRUE
  /\ IF instr.op = "WRITE" THEN NextPiece ELSE pc' = "idle" /\ done' = 0
  /\ leido' = <<>>
  /\ Forgets
  /\ UNCHANGED <<algorithm, mem, rest, storage>>

(* TAG_NOT_FOUND posts sem_respuesta_storage, and sem_get_data is waited for. *)
FaultUnheard ==
  /\ pc = "fault" /\ state[instr.ft] = "NONE"
  /\ Reserve
  /\ hubo_error' = TRUE
  /\ pc' = "stuck"
  /\ UNCHANGED <<algorithm, instr, memory, outgoing, done, rest, leido, storage>>

-----------------------------------------------------------------------------
(* FLUSH, COMMIT, and the eviction of the Query *)

Modified(ft) == {i \in DOMAIN table : table[i].ft = ft /\ table[i].modificada}

FlushNext ==
  /\ rest' = Tail(rest)
  /\ pc' = IF Len(rest) > 1 THEN "flush" ELSE IF instr.op = "COMMIT" THEN "commit" ELSE "idle"

FlushedAll ==
  /\ pc = "flush" /\ Modified(Head(rest)) = {}
  /\ FlushNext
  /\ Forgets
  /\ UNCHANGED <<algorithm, mem, hubo_error, done, leido, storage>>

(* What an accepted page is marked as. *)
Saved(e) == [e EXCEPT !.modificada = FALSE, !.stale = @ /\ e.pag >= size[e.ft]]

(* Faulty: only the first of the modified pages is written. *)
FlushPageOne ==
  LET ft == Head(rest)
      i == Min(Modified(ft)) IN
  /\ pc = "flush" /\ Modified(ft) # {}
  /\ Heard(table[i])
  /\ Persisted(table[i])
  /\ hubo_error' = (hubo_error \/ ~Accepted(ft))
  /\ FlushNext
  /\ table' = [table EXCEPT ![i] = Saved(@)]
  /\ Forgets
  /\ UNCHANGED <<algorithm, memory, libre, outgoing, done, leido, state, size>>

(* ejecutar_flush stops at the first error, and at one of the Query before it. *)
FlushPage ==
  LET ft == Head(rest)
      i == Min(Modified(ft)) IN
  /\ pc = "flush" /\ Modified(ft) # {}
  /\ Heard(table[i])
  /\ Persisted(table[i])
  /\ hubo_error' = (hubo_error \/ ~Accepted(ft))
  /\ IF hubo_error' THEN FlushNext /\ UNCHANGED table
     ELSE table' = [table EXCEPT ![i] = Saved(@)] /\ UNCHANGED <<rest, pc>>
  /\ Forgets
  /\ UNCHANGED <<algorithm, memory, libre, outgoing, done, leido, state, size>>

FlushUnheard ==
  /\ pc = "flush" /\ Modified(Head(rest)) # {}
  /\ \E error \in BOOLEAN :
       /\ Unheard(table[Min(Modified(Head(rest)))], error)
       /\ hubo_error' = (hubo_error \/ error)
  /\ pc' = "stuck"
  /\ UNCHANGED <<algorithm, instr, mem, done, rest, leido, storage>>

(* COMMIT_TAG is sent whatever became of the flush; it is not answered if the *)
(* File:Tag is committed already.                                             *)
Commit ==
  LET ft == instr.ft IN
  /\ pc = "commit"
  /\ state' = [state EXCEPT ![ft] = IF @ = "WORK_IN_PROGRESS" THEN "COMMITED" ELSE @]
  /\ hubo_error' = (hubo_error \/ state[ft] = "NONE")
  /\ pc' = IF state[ft] = "COMMITED" THEN "stuck" ELSE "idle"
  /\ Forgets
  /\ UNCHANGED <<algorithm, mem, done, rest, leido, size, store>>

(* CREATE, TRUNCATE and DELETE are the Storage's affair: the pages that are in  *)
(* memory stay, whatever becomes of their blocks.                              *)
Overtaken(s, ft, n) ==
  [i \in DOMAIN s |->
    IF s[i].ft = ft /\ s[i].pag >= n THEN [s[i] EXCEPT !.stale = TRUE] ELSE s[i]]
Resize(ft, n) ==
  /\ size' = [size EXCEPT ![ft] = n]
  /\ store' = [store EXCEPT ![ft] =
       [p \in Pages(ft) |-> IF p < n THEN @[p] ELSE [o \in Offsets |-> Blank]]]
  /\ table' = Overtaken(table, ft, n)
  /\ outgoing' = Overtaken(outgoing, ft, n)

Blocks(tam) == (tam + BlockSize - 1) \div BlockSize

Create ==
  LET ft == instr.ft IN
  /\ pc = "remote" /\ instr.op = "CREATE" /\ state[ft] = "NONE"
  /\ state' = [state EXCEPT ![ft] = "WORK_IN_PROGRESS"]
  /\ pc' = "idle"
  /\ Forgets
  /\ UNCHANGED <<algorithm, mem, hubo_error, done, rest, leido, size, store>>

Truncate ==
  /\ pc = "remote" /\ instr.op = "TRUNCATE" /\ Accepted(instr.ft)
  /\ Resize(instr.ft, Blocks(instr.tam))
  /\ pc' = "idle"
  /\ Forgets
  /\ UNCHANGED <<algorithm, memory, libre, hubo_error, done, rest, leido, state>>

Delete ==
  LET ft == instr.ft IN
  /\ pc = "remote" /\ instr.op = "DELETE" /\ state[ft] # "NONE"
  /\ state' = [state EXCEPT ![ft] = "NONE"]
  /\ Resize(ft, 0)
  /\ pc' = "idle"
  /\ Forgets
  /\ UNCHANGED <<algorithm, memory, libre, hubo_error, done, rest, leido>>

(* The File:Tag is or is not there, is committed, or there is no space to grow. *)
Refused ==
  LET ft == instr.ft IN
  /\ pc = "remote"
  /\ \/ instr.op = "CREATE" /\ state[ft] # "NONE"
     \/ instr.op = "DELETE" /\ state[ft] = "NONE"
     \/ instr.op = "TRUNCATE" /\ (~Accepted(ft) \/ Blocks(instr.tam) > size[ft])
  /\ hubo_error' = TRUE
  /\ pc' = "idle"
  /\ Forgets
  /\ UNCHANGED <<algorithm, mem, done, rest, leido, storage>>

(* atender_interrupcion, between two instructions: flushear_tabla_paginas, the *)
(* File:Tags in the order in which they are first met, with writes whose       *)
(* errors the Storage does not report.                                         *)
Evict ==
  LET met == {i \in DOMAIN table : \A j \in 1 .. i - 1 : table[j].ft # table[i].ft} IN
  /\ pc = "idle" /\ table # <<>>
  /\ instr' = [Idle EXCEPT !.op = "EVICT"]
  /\ \E seen \in [1 .. Cardinality(met) -> met] :
       /\ \A i, j \in DOMAIN seen : i < j => seen[i] < seen[j]
       /\ rest' = [k \in DOMAIN seen |-> table[seen[k]].ft]
  /\ pc' = "flush"
  /\ UNCHANGED <<algorithm, mem, hubo_error, done, leido, storage>>

-----------------------------------------------------------------------------
(* Another Worker commits or deletes a File:Tag, as long as this one can tell. *)
Rival(ft) ==
  /\ pc # "stuck"
  /\ \E s \in Rivals[ft] :
       /\ s = "COMMITED" => state[ft] = "WORK_IN_PROGRESS"
       /\ state[ft] # "NONE"
       /\ state' = [state EXCEPT ![ft] = s]
       /\ IF s = "NONE" THEN Resize(ft, 0) ELSE UNCHANGED <<size, store, table, outgoing>>
  /\ UNCHANGED <<algorithm, memory, libre, hubo_error, pc, instr, done, rest, leido>>

Interpret ==
  \/ WritePiece \/ ReadPiece \/ SendRead \/ Miss \/ WriteBack \/ WriteBackUnheard
  \/ Fault \/ FaultRefused \/ FaultUnheard
  \/ FlushedAll \/ FlushPage \/ FlushUnheard \/ Commit
  \/ Create \/ Truncate \/ Delete \/ Refused

Next == Fetch \/ NewQuery \/ Evict \/ Interpret \/ \E ft \in FileTags : Rival(ft)

Spec == Init /\ [][Next]_vars

(* The interpreter goes on with its instruction. *)
FairSpec == Spec /\ WF_vars(Interpret)

-----------------------------------------------------------------------------
(* Properties *)

(* The byte of a File:Tag that an instruction sees: that of the frame of its  *)
(* page, in the table or on its way out, or else that of the Storage.         *)
EntryAt(ft, p) ==
  CASE Cached(ft, p) -> <<table[IndexOf(ft, p)]>>
    [] ~Cached(ft, p) /\ outgoing # <<>> /\ outgoing[1].ft = ft /\ outgoing[1].pag = p -> outgoing
    [] OTHER -> <<>>
View(ft) ==
  [a \in 0 .. PagesOf[ft] * BlockSize - 1 |->
    LET e == EntryAt(ft, a \div BlockSize) IN
    IF e # <<>> THEN memory[(e[1].marco * BlockSize) + (a % BlockSize)]
    ELSE store[ft][a \div BlockSize][a % BlockSize]]

Open(ft) == state[ft] = "WORK_IN_PROGRESS"

(* The block of a byte is there, and its page in memory is a page of it.      *)
Sound(ft, a) ==
  LET e == EntryAt(ft, a \div BlockSize) IN
  a \div BlockSize < size[ft] /\ (e # <<>> => ~e[1].stale)
Stays(ft, a) == Sound(ft, a) /\ (a \div BlockSize < size[ft])'

(* The table and the list of frames agree, on every path, errors included: a  *)
(* page has one entry and a frame, a frame is free or has one page.           *)
FramesAccounted ==
  LET s == table \o outgoing IN
  /\ \A i, j \in DOMAIN s : i # j =>
       s[i].marco # s[j].marco /\ <<s[i].ft, s[i].pag>> # <<s[j].ft, s[j].pag>>
  /\ libre = Frames \ {s[i].marco : i \in DOMAIN s}

(* A page that is not marked modified is what the Storage has, unless its      *)
(* block was dropped since: it can go without being written.                  *)
CleanIsStored ==
  \A i \in DOMAIN table :
    ~table[i].modificada /\ ~table[i].stale =>
      Contents(table[i].marco) = store[table[i].ft][table[i].pag]

(* Faults, replacements, write backs, flushes and the TRUNCATEs that leave a   *)
(* page do not show: what is seen of a File:Tag that is open to writes        *)
(* changes by a WRITE of it, and where that is writing, only.                  *)
MemoryIsTransparent ==
  [][\A ft \in FileTags : Open(ft) /\ Open(ft)' =>
       \A a \in DOMAIN View(ft) :
         View(ft)'[a] # View(ft)[a] /\ Stays(ft, a) =>
           pc = "piece" /\ instr.op = "WRITE" /\ instr.ft = ft
           /\ a \in instr.base .. instr.base + instr.tam - 1]_vars

Ends(op, ft) == instr.op = op /\ instr.ft = ft /\ pc # "idle" /\ pc' = "idle" /\ ~hubo_error'

(* "escribirá en la Memoria Interna los bytes correspondientes a partir de la *)
(* dirección base" (enums.h:105): all of them, when the WRITE ends well.      *)
WriteStoresAll ==
  [][\A ft \in FileTags : Ends("WRITE", ft) /\ Open(ft) =>
       \A k \in 1 .. instr.tam : View(ft)'[instr.base + k - 1] = instr.text[k]]_vars

(* What a READ sends to the Master is as long as it was asked for, and what    *)
(* the File:Tag has, although its pages may be replaced and fetched again      *)
(* before it is sent: but for the bytes that were read in a page whose block   *)
(* had been dropped, which the next fault of the same READ may lose.           *)
ReadReturnsView ==
  pc = "send" /\ Open(instr.ft) =>
    /\ Len(leido) = instr.tam
    /\ \A k \in 1 .. instr.tam :
         ~leido[k].stale => leido[k].byte = View(instr.ft)[instr.base + k - 1]

(* After a FLUSH or a COMMIT without error the Storage has what the Worker    *)
(* sees, page by page, those that left memory before included.                *)
FlushPersists ==
  [][\A ft \in FileTags : Ends("FLUSH", ft) \/ Ends("COMMIT", ft) =>
       \A a \in DOMAIN View(ft) : Sound(ft, a)' =>
         View(ft)'[a] = store'[ft][a \div BlockSize][a % BlockSize]]_vars

(* The victim of either algorithm is in memory, and that of Clock-M is the    *)
(* first of the queue among those of the lowest class: not used before used,  *)
(* and not modified before modified.                                          *)
Class(e) == (IF e.uso THEN 2 ELSE 0) + (IF e.modificada THEN 1 ELSE 0)
VictimIsLowest ==
  algorithm = "CLOCK-M" /\ table # <<>> =>
    LET best == {i \in DOMAIN table : \A j \in DOMAIN table : Class(table[i]) <= Class(table[j])}
        first == table[Min(best)]
        v == SeleccionarVictima(table).victim[1] IN
    <<v.ft, v.pag>> = <<first.ft, first.pag>>

(* An instruction ends, or waits for an answer that never comes.              *)
InstructionsEnd == pc # "idle" ~> pc \in {"idle", "stuck"}

=============================================================================
