------------------------------- MODULE Storage -------------------------------
(****************************************************************************)
(* The Storage module: one thread per connected Worker serves requests on a *)
(* file system of hard links.  A File:Tag is a directory with a metadata    *)
(* file and one hard link per logical block; a bitmap says which physical   *)
(* blocks are occupied and an index maps the hash of a committed block to   *)
(* the physical block that holds it.                                        *)
(*                                                                          *)
(* A step is one system call, or one section under bitmap_lock, block_locks *)
(* or hash_index_lock, that another thread can observe.  Logical block i of *)
(* the code is number i + 1 here.                                           *)
(****************************************************************************)
EXTENDS Integers, Sequences, FiniteSets

CONSTANTS
  Workers,     \* connection threads, one per Worker
  NoWorker,    \* "nobody holds the lock"
  Files, Tags, \* names a request may use
  Base,        \* the File:Tag initial_file:BASE, as <<file, tag>>
  Data,        \* contents of a whole block
  Zero,        \* the content of physical block 0 of a formatted volume
  NoData,      \* a physical block never written, a hash not computed yet
  NBlocks,     \* FS_SIZE / BLOCK_SIZE
  MaxLogical,  \* bound: logical blocks of a File:Tag
  BlockSize,   \* BLOCK_SIZE
  Sizes,       \* sizes a TRUNCATE may ask for
  Requests,    \* what each Worker may ask for
  DebugBuild,  \* does load_config return what the global holds by then?
  Restarts,    \* may the process stop, and start again on the same volume?
  UnlinkFails  \* may unlink(2) of a logical block fail?

FT == Files \X Tags
Blocks == 0 .. NBlocks - 1
NoBlock == -1
NoMeta == [state |-> "NONE", size |-> 0, blocks |-> <<>>]
BaseMeta == [state |-> "COMMITED", size |-> BlockSize, blocks |-> <<0>>]
NoHash == [d \in Data |-> NoBlock]

(* Blocks that a file of n bytes takes. *)
BlocksNeeded(n) == (n + BlockSize - 1) \div BlockSize

Ops == {"CREATE", "TRUNCATE", "TAG", "COMMIT", "WRITE", "WRITE_NOT_ERROR",
        "READ", "DELETE"}
Codes == {"BLOCK_SIZE", "SUCCESS", "GET_DATA", "FILE_NOT_FOUND", "TAG_NOT_FOUND",
          "INSUFFICIENT_SPACE", "WRITE_NO_PERMISSION", "TAG_YA_EXISTENTE",
          "FILE_YA_EXISTENTE", "READ_WRITE_OVERFLOW"}

(* What a request carries: ft and, for a TAG, the destination; n is a logical *)
(* block, or the size of a TRUNCATE.                                          *)
Request == [op : Ops, ft : FT, dst : FT, n : Nat, d : Data]
NoRequest == [op |-> "CREATE", ft |-> Base, dst |-> Base, n |-> 0, d |-> Zero]

ASSUME WorkersAssumption == NoWorker \notin Workers
ASSUME VolumeAssumption ==
  /\ Base \in FT
  /\ Zero \in Data /\ NoData \notin Data
  /\ NBlocks \in Nat \ {0} /\ MaxLogical \in Nat \ {0} /\ BlockSize \in Nat \ {0}
  /\ DebugBuild \in BOOLEAN /\ Restarts \in BOOLEAN /\ UnlinkFails \in BOOLEAN
ASSUME RequestsAssumption ==
  /\ Sizes \subseteq Nat
  /\ \A n \in Sizes : BlocksNeeded(n) \in 0 .. MaxLogical
  /\ Requests \in [Workers -> SUBSET Request]
  /\ \A w \in Workers : \A r \in Requests[w] :
       IF r.op = "TRUNCATE" THEN r.n \in Sizes ELSE r.n \in 1 .. MaxLogical

VARIABLES
  files,     \* directories under files/
  dirs,      \* File:Tag directories, each with its logical_blocks
  meta,      \* metadata.config of each File:Tag
  links,     \* the hard link of each logical block
  used,      \* the bitmap: the blocks whose bit is set
  content,   \* physical_blocks/
  hashIndex, \* blocks_hash_index.config
  tagLock,   \* file_tag_locks
  hashLock,  \* hash_index_lock
  config,    \* the global t_config, as the File:Tag whose metadata it loaded
  th,        \* the stack of each thread
  ans,       \* the last message sent to each Worker
  up         \* FALSE once the process has died on a null pointer

disk == <<files, dirs, meta, links, used, content, hashIndex>>
vars == <<files, dirs, meta, links, used, content, hashIndex, tagLock, hashLock,
          config, th, ans, up>>

PCs == {"idle", "start", "mkdir", "grow", "unlink", "stat", "free", "unhash",
        "rmdir", "clone", "link", "index", "hash", "lookup", "relink", "restat",
        "refree", "save", "locate", "load", "enter", "inplace", "cow", "redirect",
        "open", "close"}

(* The locals of a handler: bloques_fisicos (bloques_destino in a TAG, whose   *)
(* bloques_origen are orig), the size, the loop counter, the block just       *)
(* cloned, the copy of the hash index and the hash just computed.             *)
Thread == [pc : PCs, req : Request, blocks : Seq(Blocks), orig : Seq(Blocks),
           size : Nat, i : Nat, new : Blocks \cup {NoBlock},
           bhi : [Data -> Blocks \cup {NoBlock}], hash : Data \cup {NoData}]
IdleThread == [pc |-> "idle", req |-> NoRequest, blocks |-> <<>>, orig |-> <<>>,
               size |-> 0, i |-> 0, new |-> NoBlock, bhi |-> NoHash, hash |-> NoData]

Meta == [state : {"NONE", "WORK_IN_PROGRESS", "COMMITED"}, size : Nat,
         blocks : Seq(Blocks)]

TypeOK ==
  /\ files \subseteq Files
  /\ dirs \subseteq FT
  /\ meta \in [FT -> Meta]
  /\ links \in [FT -> [1 .. MaxLogical -> Blocks \cup {NoBlock}]]
  /\ used \subseteq Blocks
  /\ content \in [Blocks -> Data \cup {NoData}]
  /\ hashIndex \in [Data -> Blocks \cup {NoBlock}]
  /\ tagLock \in [FT -> Workers \cup {NoWorker}]
  /\ hashLock \in Workers \cup {NoWorker}
  /\ config \in FT
  /\ th \in [Workers -> Thread]
  /\ ans \in [Workers -> Codes \cup {"PENDING", "NONE"}]
  /\ up \in BOOLEAN

(* inicializar_file_system with FRESH_START: initial_file:BASE is committed   *)
(* and its one logical block is a link to block 0.                            *)
Init ==
  /\ files = {Base[1]}
  /\ dirs = {Base}
  /\ meta = [ft \in FT |->
       IF ft = Base THEN BaseMeta ELSE NoMeta]
  /\ links = [ft \in FT |-> [i \in 1 .. MaxLogical |->
       IF ft = Base /\ i = 1 THEN 0 ELSE NoBlock]]
  /\ used = {0}
  /\ content = [b \in Blocks |-> IF b = 0 THEN Zero ELSE NoData]
  /\ hashIndex = NoHash
  /\ tagLock = [ft \in FT |-> NoWorker]
  /\ hashLock = NoWorker
  /\ config = Base
  /\ th = [w \in Workers |-> IdleThread]
  /\ ans = [w \in Workers |-> "BLOCK_SIZE"]
  /\ up = TRUE

-----------------------------------------------------------------------------
(* Helpers *)

Op(w) == th[w].req.op
Ft(w) == th[w].req.ft

(* The links that make st_nlink of a physical block exceed 1. *)
Refs(b) == {p \in FT \X (1 .. MaxLogical) : links[p[1]][p[2]] = b}

(* Faulty: the links are not counted. *)
ExclusiveAny(b) == Refs(b) # {}

(* st_nlink == 2: one logical block refers to the physical block. *)
Exclusive(b) == \E p \in Refs(b) : Refs(b) = {p}
Shared(b) == \E p, q \in Refs(b) : p # q

FreeBlocks == Blocks \ used
IsFirstFree(b) == b \in FreeBlocks /\ \A c \in FreeBlocks : b <= c

(* What a buffer holds after a fread of the block: one never written leaves it *)
(* uninitialized.                                                             *)
BufferOf(b) == IF content[b] \in Data THEN {content[b]} ELSE Data

(* list_get gives NULL, that is block 0, past the end of the list. *)
BlockAt(blocks, n) == IF n \in DOMAIN blocks THEN blocks[n] ELSE 0

(* list_replace does nothing past the end of the list. *)
ReplaceAt(blocks, n, b) ==
  IF n \in DOMAIN blocks THEN [blocks EXCEPT ![n] = b] ELSE blocks

(* link(2) fails when the name is taken or its directory does not exist. *)
WithLink(ls, ft, i, b) ==
  IF ft \in dirs /\ ls[ft][i] = NoBlock THEN [ls EXCEPT ![ft][i] = b] ELSE ls
WithoutLink(ls, ft, i) == [ls EXCEPT ![ft][i] = NoBlock]

(* What an unlink may leave.  But for COMMIT, the code warns of one that has  *)
(* failed and goes on as after one that has not.                              *)
Unlinked(ls, ft, i) ==
  {WithoutLink(ls, ft, i)} \cup (IF UnlinkFails THEN {ls} ELSE {})

(* tag_file_ops builds the destination from the origin's file. *)
Target(r) == <<r.ft[1], r.dst[2]>>

(* The File:Tag whose metadata the handler of w writes. *)
Dest(w) == IF Op(w) = "TAG" THEN Target(th[w].req) ELSE Ft(w)

MissingCode(ft) ==
  IF ft[1] \notin files THEN "FILE_NOT_FOUND" ELSE "TAG_NOT_FOUND"

Goto(w, l) == th' = [th EXCEPT ![w].pc = l]

(* The handler of w ends, holding the lock of its File:Tag. *)
Finish(w, code) ==
  /\ th' = [th EXCEPT ![w] = IdleThread]
  /\ ans' = [ans EXCEPT ![w] = code]
  /\ tagLock' = [tagLock EXCEPT ![Ft(w)] = NoWorker]

(* The handler of w ends before it has taken, or in the step that has taken,  *)
(* the lock.                                                                  *)
Reject(w, code) ==
  /\ th' = [th EXCEPT ![w] = IdleThread]
  /\ ans' = [ans EXCEPT ![w] = code]
  /\ UNCHANGED <<disk, tagLock, hashLock, config, up>>

(* tratar_mensaje takes the File:Tag's lock for every operation but a write.  *)
Locks(w) == tagLock[Ft(w)] = NoWorker
Take(w) == tagLock' = [tagLock EXCEPT ![Ft(w)] = w]

Begins(w, op) == up /\ th[w].pc = "start" /\ Op(w) = op /\ Locks(w)
At(w, l) == up /\ th[w].pc = l

-----------------------------------------------------------------------------
(* A Worker connects, asks, and waits for the answer. *)

(* packet_callback: the next request of a Worker that has its last answer. *)
Receive(w) ==
  /\ up /\ th[w].pc = "idle" /\ ans[w] \in Codes
  /\ \E r \in Requests[w] :
       th' = [th EXCEPT ![w].pc =
                IF r.op \in {"WRITE", "WRITE_NOT_ERROR"} THEN "locate" ELSE "start",
              ![w].req = r]
  /\ ans' = [ans EXCEPT ![w] = "PENDING"]
  /\ UNCHANGED <<disk, tagLock, hashLock, config, up>>

(* A Worker whose request was dropped without an answer waits for ever; it    *)
(* is stopped and started again.                                              *)
Reconnect(w) ==
  /\ up /\ th[w].pc = "idle" /\ ans[w] = "NONE"
  /\ ans' = [ans EXCEPT ![w] = "BLOCK_SIZE"]
  /\ UNCHANGED <<disk, tagLock, hashLock, config, th, up>>

(* The process is stopped, or has died, at any moment, and is started again    *)
(* with FRESH_START=FALSE: valido_inicial_file makes what is missing of       *)
(* initial_file:BASE, init_block_locks the locks, and nothing else is looked  *)
(* at.  The Workers connect again.                                            *)
Restart ==
  /\ Restarts
  /\ files' = files \cup {Base[1]}
  /\ dirs' = dirs \cup {Base}
  /\ meta' = [meta EXCEPT ![Base] = IF @ = NoMeta THEN BaseMeta ELSE @]
  /\ used' = IF meta[Base] = NoMeta THEN used \cup {0} ELSE used
  /\ links' = [links EXCEPT ![Base][1] = IF Base \in dirs THEN @ ELSE 0]
  /\ tagLock' = [ft \in FT |-> NoWorker]
  /\ hashLock' = NoWorker
  /\ config' = Base
  /\ th' = [w \in Workers |-> IdleThread]
  /\ ans' = [w \in Workers |-> "BLOCK_SIZE"]
  /\ up' = TRUE
  /\ UNCHANGED <<content, hashIndex>>

(* A missing key of a metadata file that is not there is a null pointer, and  *)
(* the process dies.                                                          *)
Crash ==
  /\ up' = FALSE
  /\ UNCHANGED <<disk, tagLock, hashLock, config, th, ans>>

(* file_tag_exist_or_not fails. *)
Missing(w) ==
  \E op \in {"TRUNCATE", "TAG", "COMMIT", "DELETE", "READ"} :
    /\ Begins(w, op)
    /\ Ft(w) \notin dirs
    /\ Reject(w, IF op = "READ" THEN "TAG_NOT_FOUND" ELSE MissingCode(Ft(w)))

(* The File:Tag has a directory and no metadata. *)
CrashOnMetadata(w) ==
  \E op \in {"TRUNCATE", "TAG", "COMMIT", "DELETE", "READ"} :
    /\ Begins(w, op)
    /\ Ft(w) \in dirs /\ meta[Ft(w)] = NoMeta
    /\ op = "TAG" => Dest(w) \notin dirs
    /\ Crash

Loaded(w, op) == Begins(w, op) /\ Ft(w) \in dirs /\ meta[Ft(w)] # NoMeta

-----------------------------------------------------------------------------
(* CREATE_FILE *)

CreateExists(w) ==
  /\ Begins(w, "CREATE") /\ Ft(w) \in dirs
  /\ Reject(w, "FILE_YA_EXISTENTE")

CreateStart(w) ==
  /\ Begins(w, "CREATE") /\ Ft(w) \notin dirs
  /\ Take(w)
  /\ th' = [th EXCEPT ![w].pc = "mkdir", ![w].size = BlockSize]
  /\ UNCHANGED <<disk, hashLock, config, ans, up>>

(* create_nested_directories: also the destination of a TAG. *)
MakeDirectory(w) ==
  /\ At(w, "mkdir")
  /\ files' = files \cup {Dest(w)[1]}
  /\ dirs' = dirs \cup {Dest(w)}
  /\ Goto(w, IF Op(w) = "TAG" THEN "clone" ELSE "open")
  /\ UNCHANGED <<meta, links, used, content, hashIndex, tagLock, hashLock, config,
                 ans, up>>

(* create_metadata, first half: load_config assigns the global. *)
OpenMetadata(w) ==
  /\ At(w, "open")
  /\ config' = Dest(w)
  /\ Goto(w, "close")
  /\ UNCHANGED <<disk, tagLock, hashLock, ans, up>>

(* create_metadata, second half: the values go to the file of the config that *)
(* load_config returned, which in a debug build may be another thread's.      *)
SaveMetadata(w) ==
  /\ At(w, "close")
  /\ \E ft \in {Dest(w)} \cup (IF DebugBuild THEN {config} ELSE {}) :
       meta' = IF ft \in dirs
               THEN [meta EXCEPT ![ft] = [state |-> "WORK_IN_PROGRESS",
                                          size |-> th[w].size,
                                          blocks |-> th[w].blocks]]
               ELSE meta
  /\ Finish(w, "SUCCESS")
  /\ UNCHANGED <<files, dirs, links, used, content, hashIndex, hashLock, config, up>>

-----------------------------------------------------------------------------
(* TRUNCATE_FILE *)

TruncateCommited(w) ==
  /\ Loaded(w, "TRUNCATE") /\ meta[Ft(w)].state = "COMMITED"
  /\ Reject(w, "WRITE_NO_PERMISSION")

(* The blocks to add, of which as many must be free: none is reserved. *)
Missed(w) == BlocksNeeded(th[w].req.n) - Len(meta[Ft(w)].blocks)

TruncateNoSpace(w) ==
  /\ Loaded(w, "TRUNCATE") /\ meta[Ft(w)].state # "COMMITED"
  /\ Missed(w) > 0 /\ Missed(w) > Cardinality(FreeBlocks)
  /\ Reject(w, "INSUFFICIENT_SPACE")

TruncateStart(w) ==
  LET m == meta[Ft(w)] IN
  /\ Loaded(w, "TRUNCATE") /\ m.state # "COMMITED"
  /\ Missed(w) > 0 => Missed(w) <= Cardinality(FreeBlocks)
  /\ Take(w)
  /\ th' = [th EXCEPT ![w].pc = IF Missed(w) > 0 THEN "grow"
                                ELSE IF Missed(w) < 0 THEN "unlink" ELSE "open",
                      ![w].size = th[w].req.n,
                      ![w].blocks = m.blocks,
                      ![w].i = IF Missed(w) > 0 THEN Len(m.blocks) + 1
                               ELSE Len(m.blocks)]
  /\ UNCHANGED <<disk, hashLock, config, ans, up>>

(* One logical block more, linked to physical block 0. *)
Grow(w) ==
  LET i == th[w].i IN
  /\ At(w, "grow")
  /\ links' = WithLink(links, Ft(w), i, 0)
  /\ th' = [th EXCEPT ![w].blocks = Append(th[w].blocks, 0), ![w].i = i + 1,
                      ![w].pc = IF i < BlocksNeeded(th[w].size) THEN "grow"
                                ELSE "open"]
  /\ UNCHANGED <<files, dirs, meta, used, content, hashIndex, tagLock, hashLock,
                 config, ans, up>>

(* Faulty: the round after the last block is run too. *)
NextDropPast(w) ==
  LET i == th[w].i IN
  th' = IF Op(w) = "DELETE"
        THEN [th EXCEPT ![w].i = i + 1,
               ![w].pc = IF i <= Len(th[w].blocks) THEN "unlink" ELSE "rmdir"]
        ELSE [th EXCEPT ![w].i = i - 1,
               ![w].blocks = SubSeq(th[w].blocks, 1, i - 1),
               ![w].pc = IF i - 1 > BlocksNeeded(th[w].size) THEN "unlink"
                         ELSE "open"]

(* The loop that drops logical blocks, of TRUNCATE from the last one down and *)
(* of DELETE from the first one up, goes to its next round or ends.           *)
NextDrop(w) ==
  LET i == th[w].i IN
  th' = IF Op(w) = "DELETE"
        THEN [th EXCEPT ![w].i = i + 1,
               ![w].pc = IF i < Len(th[w].blocks) THEN "unlink" ELSE "rmdir"]
        ELSE [th EXCEPT ![w].i = i - 1,
               ![w].blocks = SubSeq(th[w].blocks, 1, i - 1),
               ![w].pc = IF i - 1 > BlocksNeeded(th[w].size) THEN "unlink"
                         ELSE "open"]

Unlink(w) ==
  /\ At(w, "unlink")
  /\ links' \in Unlinked(links, Ft(w), th[w].i)
  /\ Goto(w, "stat")
  /\ UNCHANGED <<files, dirs, meta, used, content, hashIndex, tagLock, hashLock,
                 config, ans, up>>

(* Faulty: the link being dropped is counted among those that are left. *)
StatTwo(w) ==
  /\ At(w, "stat")
  /\ IF ~Shared(th[w].blocks[th[w].i]) THEN Goto(w, "free") ELSE NextDrop(w)
  /\ UNCHANGED <<disk, tagLock, hashLock, config, ans, up>>

(* stat of the block that the metadata named, after the unlink. *)
Stat(w) ==
  /\ At(w, "stat")
  /\ IF Refs(th[w].blocks[th[w].i]) = {} THEN Goto(w, "free") ELSE NextDrop(w)
  /\ UNCHANGED <<disk, tagLock, hashLock, config, ans, up>>

(* liberar_bloque, under bitmap_lock. *)
Free(w) ==
  /\ At(w, "free")
  /\ used' = used \ {th[w].blocks[th[w].i]}
  /\ IF Op(w) = "DELETE" THEN Goto(w, "unhash") ELSE NextDrop(w)
  /\ UNCHANGED <<files, dirs, meta, links, content, hashIndex, tagLock, hashLock,
                 config, ans, up>>

-----------------------------------------------------------------------------
(* DELETE_TAG *)

DeleteStart(w) ==
  LET blocks == meta[Ft(w)].blocks IN
  /\ Loaded(w, "DELETE")
  /\ Take(w)
  /\ th' = [th EXCEPT ![w].pc = IF blocks = <<>> THEN "rmdir" ELSE "unlink",
                      ![w].blocks = blocks, ![w].i = 1]
  /\ UNCHANGED <<disk, hashLock, config, ans, up>>

(* remove_hash_by_blockname drops one hash of the block, if it has any. *)
HashesOf(b) == {d \in Data : hashIndex[d] = b}

(* Faulty: the hash of a freed block stays in the index. *)
UnhashNothing(w) ==
  /\ At(w, "unhash") /\ hashLock = NoWorker
  /\ NextDrop(w)
  /\ UNCHANGED <<disk, tagLock, hashLock, config, ans, up>>

Unhash(w) ==
  LET hashes == HashesOf(th[w].blocks[th[w].i]) IN
  /\ At(w, "unhash")
  /\ hashLock = NoWorker
  /\ \/ hashes = {} /\ hashIndex' = hashIndex
     \/ \E d \in hashes : hashIndex' = [hashIndex EXCEPT ![d] = NoBlock]
  /\ NextDrop(w)
  /\ UNCHANGED <<files, dirs, meta, links, used, content, tagLock, hashLock, config,
                 ans, up>>

(* delete_directory: the File's directory stays. *)
RemoveDirectory(w) ==
  /\ At(w, "rmdir")
  /\ dirs' = dirs \ {Ft(w)}
  /\ meta' = [meta EXCEPT ![Ft(w)] = NoMeta]
  /\ links' = [links EXCEPT ![Ft(w)] = [i \in 1 .. MaxLogical |-> NoBlock]]
  /\ Finish(w, "SUCCESS")
  /\ UNCHANGED <<files, used, content, hashIndex, hashLock, config, up>>

-----------------------------------------------------------------------------
(* TAG_FILE: only the lock of the origin is held. *)

(* The directory of file_destino, made before anything else is checked. *)
WithFileDestino(w) == files' = files \cup {th[w].req.dst[1]}

TagRejected(w, code) ==
  /\ WithFileDestino(w)
  /\ th' = [th EXCEPT ![w] = IdleThread]
  /\ ans' = [ans EXCEPT ![w] = code]
  /\ UNCHANGED <<dirs, meta, links, used, content, hashIndex, tagLock, hashLock,
                 config, up>>

TagExists(w) ==
  /\ Begins(w, "TAG") /\ Ft(w) \in dirs /\ Dest(w) \in dirs
  /\ TagRejected(w, "TAG_YA_EXISTENTE")

TagNoSpace(w) ==
  /\ Loaded(w, "TAG") /\ Dest(w) \notin dirs
  /\ Len(meta[Ft(w)].blocks) > Cardinality(FreeBlocks)
  /\ TagRejected(w, "INSUFFICIENT_SPACE")

TagStart(w) ==
  /\ Loaded(w, "TAG") /\ Dest(w) \notin dirs
  /\ Len(meta[Ft(w)].blocks) <= Cardinality(FreeBlocks)
  /\ Take(w)
  /\ WithFileDestino(w)
  /\ th' = [th EXCEPT ![w].pc = "mkdir", ![w].size = meta[Ft(w)].size,
                      ![w].orig = meta[Ft(w)].blocks, ![w].i = 1]
  /\ UNCHANGED <<dirs, meta, links, used, content, hashIndex, hashLock, config, ans,
                 up>>

(* Faulty: the copy is not written. *)
CloneUncopied(b, src) ==
  IsFirstFree(b) /\ used' = used \cup {b} /\ content' = [content EXCEPT ![b] = Zero]

(* Faulty: the bit is not set. *)
CloneUnmarked(b, src) ==
  IsFirstFree(b) /\ used' = used /\ content' = [content EXCEPT ![b] = content[src]]

(* clonar_bloque_fisico, from the search of a free bit to the copy. *)
CloneInto(b, src) ==
  /\ IsFirstFree(b)
  /\ used' = used \cup {b}
  /\ \E d \in BufferOf(src) : content' = [content EXCEPT ![b] = d]

TagClone(w) ==
  LET i == th[w].i IN
  /\ At(w, "clone") /\ i <= Len(th[w].orig)
  /\ \E b \in Blocks :
       /\ CloneInto(b, th[w].orig[i])
       /\ th' = [th EXCEPT ![w].pc = "link", ![w].new = b]
  /\ UNCHANGED <<files, dirs, meta, links, hashIndex, tagLock, hashLock, config, ans,
                 up>>

(* No block is left: those already cloned are freed, the directory stays with *)
(* its links, and nothing is answered.                                        *)
TagCloneFails(w) ==
  /\ At(w, "clone") /\ th[w].i <= Len(th[w].orig) /\ FreeBlocks = {}
  /\ used' = used \ {th[w].blocks[j] : j \in DOMAIN th[w].blocks}
  /\ Finish(w, "NONE")
  /\ UNCHANGED <<files, dirs, meta, links, content, hashIndex, hashLock, config, up>>

(* Faulty: the destination is linked to the block of the origin. *)
TagLinkOrigin(w) ==
  LET i == th[w].i IN
  /\ At(w, "link")
  /\ links' = WithLink(links, Dest(w), i, th[w].orig[i])
  /\ th' = [th EXCEPT ![w].pc = "clone", ![w].i = i + 1, ![w].new = NoBlock,
                      ![w].blocks = Append(th[w].blocks, th[w].orig[i])]
  /\ UNCHANGED <<files, dirs, meta, used, content, hashIndex, tagLock, hashLock,
                 config, ans, up>>

TagLink(w) ==
  LET i == th[w].i IN
  /\ At(w, "link")
  /\ links' = WithLink(links, Dest(w), i, th[w].new)
  /\ th' = [th EXCEPT ![w].pc = "clone", ![w].i = i + 1, ![w].new = NoBlock,
                      ![w].blocks = Append(th[w].blocks, th[w].new)]
  /\ UNCHANGED <<files, dirs, meta, used, content, hashIndex, tagLock, hashLock,
                 config, ans, up>>

TagCloned(w) ==
  /\ At(w, "clone") /\ th[w].i > Len(th[w].orig)
  /\ Goto(w, "open")
  /\ UNCHANGED <<disk, tagLock, hashLock, config, ans, up>>

-----------------------------------------------------------------------------
(* COMMIT_TAG *)

(* Nothing is done, and nothing is answered. *)
CommitCommited(w) ==
  /\ Loaded(w, "COMMIT") /\ meta[Ft(w)].state = "COMMITED"
  /\ Reject(w, "NONE")

(* The state is saved before any block is looked at. *)
CommitStart(w) ==
  LET m == meta[Ft(w)] IN
  /\ Loaded(w, "COMMIT") /\ m.state # "COMMITED"
  /\ Take(w)
  /\ meta' = [meta EXCEPT ![Ft(w)].state = "COMMITED"]
  /\ th' = [th EXCEPT ![w].pc = "index", ![w].blocks = m.blocks,
                      ![w].size = m.size, ![w].i = 1]
  /\ UNCHANGED <<files, dirs, links, used, content, hashIndex, hashLock, config, ans,
                 up>>

(* The copy of the index on which the handler works, loaded without the lock. *)
LoadIndex(w) ==
  /\ At(w, "index")
  /\ th' = [th EXCEPT ![w].pc = "hash", ![w].bhi = hashIndex]
  /\ UNCHANGED <<disk, tagLock, hashLock, config, ans, up>>

(* Faulty: the loop does not advance. *)
NextCommitStuck(w) == th' = [th EXCEPT ![w].pc = "hash", ![w].hash = NoData]

(* The next block: th with its round of the commit loop. *)
NextCommit(w) ==
  th' = [th EXCEPT ![w].pc = "hash", ![w].i = th[w].i + 1, ![w].hash = NoData]

(* crypto_md5 of the logical block; one whose link is missing is skipped. *)
HashBlock(w) ==
  LET i == th[w].i
      b == links[Ft(w)][i] IN
  /\ At(w, "hash") /\ i <= Len(th[w].blocks)
  /\ IF b = NoBlock THEN NextCommit(w)
     ELSE \E d \in BufferOf(b) :
            th' = [th EXCEPT ![w].pc = "lookup", ![w].hash = d]
  /\ UNCHANGED <<disk, tagLock, hashLock, config, ans, up>>

Current(w) == th[w].blocks[th[w].i]
Existing(w) == th[w].bhi[th[w].hash]

(* Faulty: the index is not saved. *)
CommitInsertUnsaved(w) ==
  /\ At(w, "lookup") /\ hashLock = NoWorker
  /\ Existing(w) = NoBlock
  /\ NextCommit(w)
  /\ UNCHANGED <<disk, tagLock, hashLock, config, ans, up>>

(* A new content: the whole copy is saved with one hash more. *)
CommitInsert(w) ==
  LET bhi == [th[w].bhi EXCEPT ![th[w].hash] = Current(w)] IN
  /\ At(w, "lookup") /\ hashLock = NoWorker
  /\ Existing(w) = NoBlock
  /\ hashIndex' = bhi
  /\ th' = [th EXCEPT ![w].bhi = bhi, ![w].pc = "hash", ![w].i = th[w].i + 1,
                      ![w].hash = NoData]
  /\ UNCHANGED <<files, dirs, meta, links, used, content, tagLock, hashLock, config,
                 ans, up>>

CommitSame(w) ==
  /\ At(w, "lookup") /\ hashLock = NoWorker
  /\ Existing(w) = Current(w)
  /\ NextCommit(w)
  /\ UNCHANGED <<disk, tagLock, hashLock, config, ans, up>>

CommitFound(w) ==
  /\ At(w, "lookup") /\ hashLock = NoWorker
  /\ Existing(w) \notin {NoBlock, Current(w)}
  /\ hashLock' = w
  /\ Goto(w, "relink")
  /\ UNCHANGED <<disk, tagLock, config, ans, up>>

(* A failed unlink goes on with the next block, and keeps hash_index_lock. *)
CommitUnlinkFails(w) ==
  /\ At(w, "relink") /\ UnlinkFails
  /\ NextCommit(w)
  /\ UNCHANGED <<disk, tagLock, hashLock, config, ans, up>>

(* unlink, then link to the block that has the content already. *)
CommitRelink(w) ==
  LET ft == Ft(w)
      i == th[w].i IN
  /\ At(w, "relink")
  /\ links' = WithLink(WithoutLink(links, ft, i), ft, i, Existing(w))
  /\ Goto(w, "restat")
  /\ UNCHANGED <<files, dirs, meta, used, content, hashIndex, tagLock, hashLock,
                 config, ans, up>>

(* Faulty: the block that was replaced is never freed. *)
CommitStatNever(w) ==
  At(w, "restat") /\ Goto(w, "save") /\ UNCHANGED <<disk, tagLock, hashLock, config, ans, up>>

CommitStat(w) ==
  /\ At(w, "restat")
  /\ Goto(w, IF Refs(Current(w)) = {} THEN "refree" ELSE "save")
  /\ UNCHANGED <<disk, tagLock, hashLock, config, ans, up>>

CommitFree(w) ==
  /\ At(w, "refree")
  /\ used' = used \ {Current(w)}
  /\ Goto(w, "save")
  /\ UNCHANGED <<files, dirs, meta, links, content, hashIndex, tagLock, hashLock,
                 config, ans, up>>

(* Faulty: hash_index_lock is not released. *)
CommitSaveKeeping(w) ==
  LET blocks == ReplaceAt(th[w].blocks, th[w].i, Existing(w)) IN
  /\ At(w, "save")
  /\ meta' = [meta EXCEPT ![Ft(w)].blocks = blocks]
  /\ th' = [th EXCEPT ![w].blocks = blocks, ![w].pc = "hash",
                      ![w].i = th[w].i + 1, ![w].hash = NoData]
  /\ UNCHANGED <<files, dirs, links, used, content, hashIndex, tagLock, hashLock,
                 config, ans, up>>

(* The metadata with the block replaced; hash_index_lock is released. *)
CommitSave(w) ==
  LET blocks == ReplaceAt(th[w].blocks, th[w].i, Existing(w)) IN
  /\ At(w, "save")
  /\ meta' = IF Ft(w) \in dirs
             THEN [meta EXCEPT ![Ft(w)] = [state |-> "COMMITED",
                                           size |-> th[w].size, blocks |-> blocks]]
             ELSE meta
  /\ hashLock' = NoWorker
  /\ th' = [th EXCEPT ![w].blocks = blocks, ![w].pc = "hash",
                      ![w].i = th[w].i + 1, ![w].hash = NoData]
  /\ UNCHANGED <<files, dirs, links, used, content, hashIndex, tagLock, config, ans,
                 up>>

CommitEnd(w) ==
  /\ At(w, "hash") /\ th[w].i > Len(th[w].blocks)
  /\ Finish(w, "SUCCESS")
  /\ UNCHANGED <<disk, hashLock, config, up>>

-----------------------------------------------------------------------------
(* WRITE_BLOCK and WRITE_BLOCK_NOT_ERROR, which reports no error: the state   *)
(* and the blocks are read before the lock is taken.                          *)

Reports(w) == Op(w) = "WRITE"

WriteLocate(w) ==
  /\ At(w, "locate")
  /\ \/ /\ Ft(w) \notin dirs
        /\ Reject(w, MissingCode(Ft(w)))
     \/ /\ Ft(w) \in dirs
        /\ Goto(w, "load")
        /\ UNCHANGED <<disk, tagLock, hashLock, config, ans, up>>

WriteCrash(w) == At(w, "load") /\ meta[Ft(w)] = NoMeta /\ Crash

WriteCommited(w) ==
  /\ At(w, "load") /\ meta[Ft(w)].state = "COMMITED"
  /\ Reject(w, IF Reports(w) THEN "WRITE_NO_PERMISSION" ELSE "NONE")

(* Only a write that reports errors checks its bounds. *)
WithinBounds(w) == Reports(w) => th[w].req.n <= Len(meta[Ft(w)].blocks)

WriteOverflow(w) ==
  /\ At(w, "load") /\ meta[Ft(w)].state = "WORK_IN_PROGRESS"
  /\ ~WithinBounds(w)
  /\ Reject(w, "READ_WRITE_OVERFLOW")

WriteLoad(w) ==
  LET m == meta[Ft(w)] IN
  /\ At(w, "load") /\ m.state = "WORK_IN_PROGRESS"
  /\ WithinBounds(w)
  /\ th' = [th EXCEPT ![w].pc = "enter", ![w].blocks = m.blocks, ![w].size = m.size]
  /\ UNCHANGED <<disk, tagLock, hashLock, config, ans, up>>

Written(w) == BlockAt(th[w].blocks, th[w].req.n)

(* Faulty: the lock is not waited for. *)
WriteEnterUnlocked(w) ==
  /\ At(w, "enter")
  /\ Goto(w, IF Exclusive(Written(w)) THEN "inplace" ELSE "cow")
  /\ UNCHANGED <<disk, tagLock, hashLock, config, ans, up>>

(* The lock, and the stat that chooses between writing in place and copying. *)
WriteEnter(w) ==
  /\ At(w, "enter") /\ Locks(w)
  /\ \/ /\ Refs(Written(w)) = {}
        /\ Reject(w, "NONE")
     \/ /\ Refs(Written(w)) # {}
        /\ Take(w)
        /\ Goto(w, IF Exclusive(Written(w)) THEN "inplace" ELSE "cow")
        /\ UNCHANGED <<disk, hashLock, config, ans, up>>

(* escribir_bloque_fisico on the block of the logical block. *)
WriteInPlace(w) ==
  /\ At(w, "inplace")
  /\ content' = [content EXCEPT ![Written(w)] = th[w].req.d]
  /\ Goto(w, "open")
  /\ UNCHANGED <<files, dirs, meta, links, used, hashIndex, tagLock, hashLock, config,
                 ans, up>>

WriteClone(w) ==
  /\ At(w, "cow")
  /\ \E b \in Blocks :
       /\ CloneInto(b, Written(w))
       /\ th' = [th EXCEPT ![w].pc = "redirect", ![w].new = b]
  /\ UNCHANGED <<files, dirs, meta, links, hashIndex, tagLock, hashLock, config, ans,
                 up>>

(* Faulty: the -1 of clonar_bloque_fisico is taken for a block. *)
WriteCloneUnchecked(w) ==
  /\ At(w, "cow") /\ FreeBlocks = {}
  /\ Goto(w, "redirect")
  /\ UNCHANGED <<disk, tagLock, hashLock, config, ans, up>>

WriteCloneFails(w) ==
  /\ At(w, "cow") /\ FreeBlocks = {}
  /\ Finish(w, "NONE")
  /\ UNCHANGED <<disk, hashLock, config, up>>

(* Faulty: the new block is not put in the list. *)
WriteRedirectUnlisted(w) ==
  LET n == th[w].req.n IN
  /\ At(w, "redirect")
  /\ content' = [content EXCEPT ![th[w].new] = th[w].req.d]
  /\ links' = WithLink(WithoutLink(links, Ft(w), n), Ft(w), n, th[w].new)
  /\ th' = [th EXCEPT ![w].pc = "open", ![w].new = NoBlock]
  /\ UNCHANGED <<files, dirs, meta, used, hashIndex, tagLock, hashLock, config, ans,
                 up>>

(* The copy is written and the logical block, unlinked, is linked to it. *)
WriteRedirect(w) ==
  LET ft == Ft(w)
      n == th[w].req.n
      b == th[w].new IN
  /\ At(w, "redirect")
  /\ content' = [content EXCEPT ![b] = th[w].req.d]
  /\ \E ls \in Unlinked(links, ft, n) : links' = WithLink(ls, ft, n, b)
  /\ th' = [th EXCEPT ![w].pc = "open", ![w].new = NoBlock,
                      ![w].blocks = ReplaceAt(th[w].blocks, n, b)]
  /\ UNCHANGED <<files, dirs, meta, used, hashIndex, tagLock, hashLock, config, ans,
                 up>>

-----------------------------------------------------------------------------
(* READ_BLOCK *)

ReadOverflow(w) ==
  /\ Loaded(w, "READ") /\ th[w].req.n > Len(meta[Ft(w)].blocks)
  /\ Reject(w, "READ_WRITE_OVERFLOW")

(* The file of the logical block is answered, if it is there. *)
ReadBlock(w) ==
  LET n == th[w].req.n IN
  /\ Loaded(w, "READ") /\ n <= Len(meta[Ft(w)].blocks)
  /\ Reject(w, IF links[Ft(w)][n] = NoBlock THEN "NONE" ELSE "GET_DATA")

-----------------------------------------------------------------------------
Create(w) == CreateExists(w) \/ CreateStart(w)
Truncate(w) == TruncateCommited(w) \/ TruncateNoSpace(w) \/ TruncateStart(w) \/ Grow(w)
Tag(w) == \/ TagExists(w) \/ TagNoSpace(w) \/ TagStart(w)
          \/ TagClone(w) \/ TagCloneFails(w) \/ TagLink(w) \/ TagCloned(w)
Commit(w) == \/ CommitCommited(w) \/ CommitStart(w) \/ LoadIndex(w) \/ HashBlock(w)
             \/ CommitInsert(w) \/ CommitSame(w) \/ CommitFound(w) \/ CommitRelink(w)
             \/ CommitUnlinkFails(w)
             \/ CommitStat(w) \/ CommitFree(w) \/ CommitSave(w) \/ CommitEnd(w)
Write(w) == \/ WriteLocate(w) \/ WriteCrash(w) \/ WriteCommited(w) \/ WriteOverflow(w)
            \/ WriteLoad(w) \/ WriteEnter(w) \/ WriteInPlace(w) \/ WriteClone(w)
            \/ WriteCloneFails(w) \/ WriteRedirect(w)
Read(w) == ReadOverflow(w) \/ ReadBlock(w)
Delete(w) == DeleteStart(w) \/ Unhash(w) \/ RemoveDirectory(w)
Drop(w) == Unlink(w) \/ Stat(w) \/ Free(w)
Metadata(w) == MakeDirectory(w) \/ OpenMetadata(w) \/ SaveMetadata(w)

(* A step of the handler that thread w runs. *)
Handle(w) ==
  \/ Missing(w) \/ CrashOnMetadata(w)
  \/ Create(w) \/ Truncate(w) \/ Tag(w) \/ Commit(w) \/ Write(w) \/ Read(w)
  \/ Delete(w) \/ Drop(w) \/ Metadata(w)

Next ==
  \/ \E w \in Workers : Receive(w) \/ Reconnect(w) \/ Handle(w)
  \/ Restart

Spec == Init /\ [][Next]_vars

(* A thread with a message to handle keeps running. *)
Fairness == \A w \in Workers : WF_vars(Handle(w))
FairSpec == Spec /\ Fairness

-----------------------------------------------------------------------------
(* Properties *)

(* Handlers that have taken the lock of their File:Tag. *)
LockedPCs == PCs \ {"idle", "start", "locate", "load", "enter"}
HashPCs == {"relink", "restat", "refree", "save"}

(* The destination of a TAG that is being made: no lock protects it. *)
UnderTag(ft) ==
  \E w \in Workers : Op(w) = "TAG" /\ th[w].pc \in LockedPCs /\ Dest(w) = ft

Quiet(ft) == tagLock[ft] = NoWorker /\ ~UnderTag(ft)

Visible(ft) ==
  [i \in 1 .. MaxLogical |->
    IF links[ft][i] = NoBlock THEN NoData ELSE content[links[ft][i]]]

Deleting(ft) ==
  \E w \in Workers : tagLock[ft] = w /\ Op(w) = "DELETE"

(* Two handlers never work on one File:Tag at the same time, and the lock of  *)
(* the File:Tag is taken and given back on every path of tratar_mensaje and   *)
(* write_block_ops.  No two COMMITs reassign a logical block at a time: from  *)
(* the moment it finds another block with the hash to the moment the metadata *)
(* is saved, a handler has hash_index_lock.                                   *)
LockDiscipline ==
  /\ \A w \in Workers : \A ft \in FT :
       tagLock[ft] = w <=> th[w].pc \in LockedPCs /\ Ft(w) = ft
  /\ \A w \in Workers : th[w].pc \in HashPCs => hashLock = w

(* As long as no unlink fails, COMMIT gives hash_index_lock back at the end   *)
(* of its section: who holds it is inside, and will come out.                 *)
HashLockInSection ==
  \A w \in Workers : hashLock = w => th[w].pc \in HashPCs

(* The loops of the handlers stay inside their lists, and a block number that *)
(* is about to be linked or stored is that of a block: list_get, list_replace *)
(* and list_remove are never asked for what is not there.                     *)
WellShaped(t) ==
  /\ Len(t.blocks) <= MaxLogical /\ Len(t.orig) <= MaxLogical
  /\ t.req.op = "TRUNCATE" /\ t.pc # "idle" => t.req.n \in Sizes
  /\ t.pc \in {"idle", "start", "locate", "load", "mkdir"} => t.blocks = <<>>
  /\ t.pc = "mkdir" /\ t.req.op = "TAG" => t.i = 1
  /\ t.pc = "grow" =>
       /\ t.i = Len(t.blocks) + 1 /\ t.size \in Sizes /\ t.size = t.req.n
       /\ t.i <= BlocksNeeded(t.size)
  /\ t.pc \in {"unlink", "stat", "free", "unhash"} =>
       /\ t.i \in 1 .. Len(t.blocks)
       /\ t.req.op # "DELETE" =>
            /\ t.i = Len(t.blocks) /\ t.size \in Sizes /\ t.size = t.req.n
            /\ t.pc = "unlink" => t.i > BlocksNeeded(t.size)
  /\ t.pc = "clone" => t.i = Len(t.blocks) + 1 /\ t.i <= Len(t.orig) + 1
  /\ t.pc = "link" => t.i = Len(t.blocks) + 1 /\ t.i <= Len(t.orig)
  /\ t.pc \in {"link", "redirect"} => t.new \in Blocks
  /\ t.pc \in {"index", "hash"} => t.i >= 1
  /\ t.pc \in {"lookup"} \cup HashPCs => t.i \in 1 .. Len(t.blocks) /\ t.hash \in Data
  /\ t.pc \in HashPCs => t.bhi[t.hash] \in Blocks
HandlerShape ==
  /\ \A ft \in FT : Len(meta[ft].blocks) <= MaxLogical
  /\ \A w \in Workers : WellShaped(th[w])

(* A physical block to which a logical block is linked is marked occupied: it *)
(* is not given to anyone else (liberar_bloque after the stat).               *)
LinkedBlocksAllocated ==
  \A ft \in FT : \A i \in 1 .. MaxLogical :
    links[ft][i] # NoBlock => links[ft][i] \in used

(* The blocks a thread has reserved and not linked yet, or unlinked and not   *)
(* freed yet.                                                                 *)
InHand(w, b) ==
  \/ th[w].pc \in {"link", "redirect"} /\ th[w].new = b
  \/ th[w].pc \in {"stat", "free", "restat", "refree"} /\ th[w].blocks[th[w].i] = b

(* No block is lost: one that is marked occupied is linked, or is in the      *)
(* hands of a handler that is about to link it or to free it.                 *)
NoBlockLost ==
  \A b \in used : Refs(b) # {} \/ \E w \in Workers : InHand(w, b)

(* The BLOCKS of a metadata file are the hard links of its directory, in      *)
(* order: the list that DELETE, COMMIT and WRITE trust is the one READ opens. *)
MetadataMatchesLinks ==
  \A ft \in dirs : Quiet(ft) =>
    \A i \in 1 .. MaxLogical :
      links[ft][i] = IF i \in DOMAIN meta[ft].blocks THEN meta[ft].blocks[i]
                     ELSE NoBlock

(* A hash of the index leads to an occupied block with that content, so that  *)
(* a COMMIT that reassigns a logical block does not change what is read.      *)
HashIndexSound ==
  \A d \in Data : hashIndex[d] # NoBlock =>
    \/ hashIndex[d] \in used /\ content[hashIndex[d]] = d
    \/ \E w \in Workers :
         th[w].pc = "unhash" /\ th[w].blocks[th[w].i] = hashIndex[d]

(* Only block 0 and the blocks of committed File:Tags are shared: a WRITE in  *)
(* place reaches nobody else.                                                 *)
SharedIsFrozen ==
  \A b \in Blocks \ {0} : Shared(b) =>
    \A p \in Refs(b) : meta[p[1]].state = "COMMITED"

(* COMMIT leaves one physical block per content: no two logical blocks of     *)
(* committed File:Tags, initial_file:BASE apart, keep one content twice.      *)
Deduplicated ==
  \A p, q \in (FT \ {Base}) \X (1 .. MaxLogical) :
    LET b == links[p[1]][p[2]]
        c == links[q[1]][q[2]] IN
    (/\ {meta[p[1]].state, meta[q[1]].state} = {"COMMITED"}
     /\ Quiet(p[1]) /\ Quiet(q[1])
     /\ b # NoBlock /\ c # NoBlock /\ content[b] = content[c]) => b = c

(* When a TAG is about to write the metadata of its destination, it reads     *)
(* the same as the origin, although the two share no block.                   *)
TagIsCopy ==
  \A w \in Workers : (Op(w) = "TAG" /\ th[w].pc \in {"open", "close"}) =>
    Visible(Dest(w)) = Visible(Ft(w))

(* The request that a Worker is waiting for. *)
Pending(w) == IF th[w].pc = "idle" THEN [op |-> "NONE"] ELSE th[w].req

(* What the Workers see is a store of separate File:Tags: a handler changes   *)
(* what is read of the File:Tag of its own request, in the way the request    *)
(* says, and nothing that another Worker reads, nor that is committed.        *)
Store == INSTANCE TagStore WITH
  FileTags <- FT, Positions <- 1 .. MaxLogical,
  Needed <- [n \in Sizes |-> BlocksNeeded(n)],
  state <- [ft \in FT |-> IF Deleting(ft) THEN "DELETING" ELSE meta[ft].state],
  data <- [ft \in FT |-> Visible(ft)],
  asked <- [w \in Workers |-> Pending(w)]
StoreSpec == Store!Spec

(* A request does not keep its thread for ever: it is answered, or dropped.   *)
RequestsEnd == \A w \in Workers : th[w].pc # "idle" ~> th[w].pc = "idle"

(* hash_index_lock, which all the COMMITs and DELETEs need, is given back:    *)
(* commit_tag_ops says that it locks the index and that it unlocks it.        *)
HashLockReleased ==
  hashLock # NoWorker ~> (hashLock = NoWorker \/ ~up)

(* What COMMIT promises ("no se realizaran mas cambios"): a File:Tag that is  *)
(* committed stays so, with the same contents, until it is deleted.           *)
CommittedFrozen ==
  [][\A ft \in FT : (meta[ft].state = "COMMITED" /\ ~Deleting(ft)) =>
       (Deleting(ft)' \/ (meta'[ft].state = "COMMITED" /\ Visible(ft)' = Visible(ft)))]_vars

-----------------------------------------------------------------------------
(* Settings: what the Workers of an instance may ask for together *)

(* The File:Tags that a request changes, and the one that it only copies. *)
Changes(r) ==
  IF r.op = "READ" THEN {} ELSE IF r.op = "TAG" THEN {Target(r)} ELSE {r.ft}
Copies(r) == IF r.op = "TAG" THEN {r.ft} ELSE {}

(* No Worker changes a File:Tag that another one changes or copies, but for   *)
(* initial_file:BASE, which stays as it is: the metadata that a handler has   *)
(* read is still what the file says.                                          *)
Apart ==
  \A v, w \in Workers : v # w =>
    \A r \in Requests[v], s \in Requests[w] :
      Changes(r) \cap (Changes(s) \cup Copies(s)) \subseteq {Base}

Commits(w, ft) == \E r \in Requests[w] : r.op = "COMMIT" /\ r.ft = ft

(* Nobody else commits while a Worker deletes what it has committed. *)
DeletesAlone ==
  \A v, w \in Workers : v # w =>
    \A r \in Requests[v] : r.op = "DELETE" /\ Commits(v, r.ft) =>
      \A ft \in FT : ~Commits(w, ft)

(* The free blocks that a TAG has counted are not taken by anybody else, if   *)
(* it needs more than one.                                                    *)
Allocates(w) == \E r \in Requests[w] : r.op \in {"WRITE", "TAG"}
RoomForTags ==
  \A w \in Workers : \A r \in Requests[w] : r.op = "TAG" =>
    r.ft = Base \/ \A v \in Workers : v # w => ~Allocates(v)

(* initial_file:BASE is not deleted, a write checks its bounds, two Workers   *)
(* do not share the static config of a debug build, unlink does not fail, and *)
(* the Storage does not stop half way.                                        *)
Orderly ==
  /\ Apart /\ DeletesAlone /\ RoomForTags
  /\ \A w \in Workers : \A r \in Requests[w] :
       r.op # "WRITE_NOT_ERROR" /\ (r.op = "DELETE" => r.ft # Base)
  /\ DebugBuild => \A v, w \in Workers : v = w
  /\ ~Restarts /\ ~UnlinkFails

(* Whoever commits is the only one to commit and to delete. *)
OneIndexer ==
  \A v, w \in Workers : v # w =>
    \A r \in Requests[v], s \in Requests[w] :
      r.op = "COMMIT" => s.op \notin {"COMMIT", "DELETE"}

=============================================================================
