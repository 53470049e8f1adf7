-------------------------- MODULE StorageBlockProofs --------------------------
(****************************************************************************)
(* What the blocks of the volume are for: which are linked, occupied, shared *)
(* and indexed, while any number of Workers change File:Tags of their own.   *)
(****************************************************************************)
EXTENDS StorageProofs, FiniteSetTheorems

-----------------------------------------------------------------------------
(* What a handler knows *)

Works(w) == th[w].pc \in LockedPCs
LoopPCs == {"hash", "lookup"} \cup HashPCs
Relinked == {"restat", "refree", "save"}

(* The operation that each position belongs to. *)
Asked(w) ==
  LET pc == th[w].pc IN
  /\ pc # "idle" => th[w].req \in Requests[w]
  /\ pc = "start" => Op(w) # "WRITE"
  /\ pc = "mkdir" => Op(w) \in {"CREATE", "TAG"}
  /\ pc = "grow" => Op(w) = "TRUNCATE"
  /\ pc \in {"unlink", "stat", "free"} => Op(w) \in {"TRUNCATE", "DELETE"}
  /\ pc \in {"unhash", "rmdir"} => Op(w) = "DELETE"
  /\ pc \in {"clone", "link"} => Op(w) = "TAG"
  /\ pc \in {"index"} \cup LoopPCs => Op(w) = "COMMIT"
  /\ pc \in {"locate", "load", "enter", "inplace", "cow", "redirect"} => Op(w) = "WRITE"
  /\ pc \in {"open", "close"} => Op(w) \in {"CREATE", "TRUNCATE", "TAG", "WRITE"}

(* Its own File:Tag is as it found it. *)
MetaKnown(w) ==
  /\ Works(w) => Dest(w) # Base /\ (Dest(w) \in dirs <=> th[w].pc # "mkdir")
  /\ Works(w) /\ Op(w) \in {"CREATE", "TAG"} => meta[Dest(w)] = NoMeta
  /\ Works(w) /\ Op(w) = "CREATE" => th[w].blocks = <<>>
  /\ Works(w) /\ Op(w) = "TRUNCATE" => meta[Ft(w)].state = "WORK_IN_PROGRESS"
  /\ Works(w) /\ Op(w) = "DELETE" => meta[Ft(w)].state # "NONE"
  /\ th[w].pc = "rmdir" => th[w].i = Len(th[w].blocks) + 1
  /\ Works(w) /\ Op(w) = "COMMIT" =>
       meta[Ft(w)].state = "COMMITED" /\ meta[Ft(w)].blocks = th[w].blocks
  /\ (Works(w) \/ th[w].pc = "enter") /\ Op(w) = "WRITE" =>
       /\ meta[Ft(w)].state = "WORK_IN_PROGRESS"
       /\ th[w].req.n \in DOMAIN th[w].blocks
       /\ th[w].pc \notin {"open", "close"} => meta[Ft(w)].blocks = th[w].blocks
  /\ th[w].pc = "inplace" => Written(w) # 0
  /\ th[w].pc \in {"cow", "redirect"} => Written(w) = 0
  /\ th[w].pc = "close" /\ DebugBuild => config = Dest(w)

(* The links of its own File:Tag are those of its list, but for the one being *)
(* dropped or reassigned.                                                     *)
Entry(s, j) == IF j \in DOMAIN s THEN s[j] ELSE NoBlock
Place(w, j) ==
  IF \/ j \notin DOMAIN th[w].blocks
     \/ th[w].pc \in {"stat", "free", "unhash"} /\ j = th[w].i
     \/ Op(w) = "DELETE" /\ j < th[w].i
  THEN NoBlock
  ELSE IF th[w].pc \in Relinked /\ j = th[w].i THEN Existing(w) ELSE th[w].blocks[j]
LinksKnown(w) ==
  Works(w) => \A j \in 1 .. MaxLogical : links[Dest(w)][j] = Place(w, j)

(* A logical block of a committed File:Tag that its COMMIT is done with. *)
Settled(ft, j) ==
  /\ meta[ft].state = "COMMITED"
  /\ \A w \in Workers : Works(w) /\ Op(w) = "COMMIT" /\ Ft(w) = ft =>
       \/ j < th[w].i
       \/ j = th[w].i /\ th[w].pc \in Relinked

Nowhere(b) == \A ft \in FT : \A j \in 1 .. MaxLogical : links[ft][j] # b
SettledRefs(b) ==
  \/ b = 0
  \/ \A ft \in FT : \A j \in 1 .. MaxLogical : links[ft][j] = b => Settled(ft, j)

(* A hash that leads to a block that nobody will change. *)
Sound(d, b) == b \in used /\ content[b] = d /\ SettledRefs(b)

(* The copy of the index of a COMMIT, and the hash it has computed. *)
CopySound(w) ==
  th[w].pc \in LoopPCs => \A d \in Data :
    th[w].bhi[d] # NoBlock => Sound(d, th[w].bhi[d])
HashKnown(w) ==
  th[w].pc \in {"lookup", "relink"} => content[Current(w)] = th[w].hash

(* A DELETE of a committed File:Tag: its blocks may be shared and indexed. *)
Dooms(w) == Works(w) /\ Op(w) = "DELETE" /\ meta[Ft(w)].state = "COMMITED"

(* A block it has freed, whose hash it is about to drop. *)
Unhashing(b) ==
  \E w \in Workers :
    th[w].pc = "unhash" /\ Dooms(w) /\ th[w].blocks[th[w].i] = b

(* The block in a handler's hands is nobody else's: it is occupied, linked    *)
(* nowhere, in no other hands and in no copy of the index.                    *)
HandKnown(w) ==
  \A b \in Blocks : InHand(w, b) =>
    /\ b \in used
    /\ b = 0 \/ Nowhere(b) \/ (Dooms(w) /\ SettledRefs(b))
    /\ th[w].pc \in {"link", "redirect", "free", "refree"} => Nowhere(b)
    /\ th[w].pc = "link" => content[b] \in Data
    /\ b # 0 => \A v \in Workers : v # w => ~InHand(v, b)
    /\ b # 0 => \A v \in Workers : th[v].pc \in LoopPCs => \A d \in Data : th[v].bhi[d] # b
    /\ b # 0 => \A d \in Data : hashIndex[d] = b => Unhashing(b) \/ Dooms(w)

(* What a TAG has copied reads like the origin. *)
CopyKnown(w) ==
  Works(w) /\ Op(w) = "TAG" =>
    /\ Ft(w) # Dest(w)
    /\ meta[Ft(w)].blocks = th[w].orig
    /\ Len(th[w].blocks) <= Len(th[w].orig)
    /\ \A j \in DOMAIN th[w].blocks : content[th[w].blocks[j]] = content[th[w].orig[j]]
    /\ th[w].pc = "link" => content[th[w].new] = content[th[w].orig[th[w].i]]
    /\ th[w].pc \in {"open", "close"} => Len(th[w].blocks) = Len(th[w].orig)

(* The free blocks that it has still to take are there. *)
RoomKnown(w) ==
  Op(w) = "TAG" /\ th[w].pc \in {"mkdir", "clone", "link"} =>
    \/ Len(th[w].orig) <= 1
    \/ /\ \A v \in Workers : v # w => ~Allocates(v)
       /\ Cardinality(FreeBlocks) + Len(th[w].blocks)
            + (IF th[w].pc = "link" THEN 1 ELSE 0) >= Len(th[w].orig)

HandlerInv(w) ==
  /\ Asked(w) /\ MetaKnown(w) /\ LinksKnown(w) /\ CopySound(w) /\ HashKnown(w)
  /\ HandKnown(w) /\ CopyKnown(w) /\ RoomKnown(w)

-----------------------------------------------------------------------------
(* What holds of the volume *)

Catalogue ==
  /\ Base \in dirs /\ meta[Base] = BaseMeta
  /\ \A ft \in FT : ft \notin dirs \/ meta[ft].state = "NONE" => meta[ft] = NoMeta
  /\ \A ft \in FT \ {Base} : meta[ft].state = "COMMITED" =>
       \E w \in Workers : Commits(w, ft)

AtRest(ft) == \A w \in Workers : Works(w) => Dest(w) # ft
LinksAtRest ==
  \A ft \in FT : AtRest(ft) =>
    \A j \in 1 .. MaxLogical : links[ft][j] = Entry(meta[ft].blocks, j)

LinkedWritten ==
  \A ft \in FT : \A j \in 1 .. MaxLogical :
    links[ft][j] # NoBlock => content[links[ft][j]] \in Data

(* Two logical blocks share one that is not block 0 only after a COMMIT. *)
SharedIsSettled ==
  \A f, g \in FT : \A i, j \in 1 .. MaxLogical :
    (f # g \/ i # j) /\ links[f][i] = links[g][j] /\ links[f][i] \notin {NoBlock, 0}
      => Settled(f, i)

IndexSound ==
  /\ \A d \in Data : hashIndex[d] # NoBlock =>
       Unhashing(hashIndex[d]) \/ Sound(d, hashIndex[d])
  /\ \A d, e \in Data : hashIndex[d] = hashIndex[e] /\ hashIndex[d] # NoBlock => d = e

VolumeInv ==
  /\ Catalogue /\ LinksAtRest /\ LinkedBlocksAllocated /\ NoBlockLost /\ LinkedWritten
  /\ SharedIsSettled /\ IndexSound

BlockInv == VolumeInv /\ \A w \in Workers : HandlerInv(w)

-----------------------------------------------------------------------------
(* What a step of w may do to what is not its own *)

SameTag(ft) ==
  links'[ft] = links[ft] /\ meta'[ft] = meta[ft] /\ (ft \in dirs' <=> ft \in dirs)

(* A block whose contents it may write. *)
OwnBlock(w, b) ==
  \/ b \notin used
  \/ th[w].pc = "redirect" /\ th[w].new = b
  \/ th[w].pc = "inplace" /\ Written(w) = b

TagEffect(w) ==
  /\ OnlyMoves(w)
  /\ \A ft \in FT : SameTag(ft) \/ (/\ ft = Dest(w) /\ ft # Base
                                    /\ th[w].pc # "idle" /\ Op(w) # "READ"
                                    /\ Works(w) \/ Works(w)')
  /\ Works(w)' => th'[w].req = th[w].req

LinkEffect(w) ==
  /\ \A ft \in FT : \A j \in 1 .. MaxLogical :
       \/ links'[ft][j] = links[ft][j]
       \/ links'[ft][j] \in {NoBlock, 0}
       \/ th[w].pc \in {"link", "redirect"} /\ links'[ft][j] = th[w].new
       \/ th[w].pc = "relink" /\ links'[ft][j] = Existing(w) /\ Settled(ft, j)'
  /\ th[w].pc \in {"link", "redirect"} =>
       \A f, g \in FT : \A i, j \in 1 .. MaxLogical :
         links'[f][i] = th[w].new /\ links'[g][j] = th[w].new => f = g /\ i = j
  /\ \A ft \in FT : \A j \in 1 .. MaxLogical : \A b \in Blocks :
       links[ft][j] = b /\ links'[ft][j] # b => b = 0 \/ InHand(w, b)'
  /\ \A ft \in FT : \A j \in 1 .. MaxLogical :
       Settled(ft, j) => Settled(ft, j)' \/ links'[ft][j] = NoBlock

BlockEffect(w) ==
  /\ \A b \in used \ used' :
       /\ InHand(w, b) /\ th[w].pc \in {"free", "refree"}
       /\ Dooms(w) => Unhashing(b)'
  /\ \A b \in used' \ used : InHand(w, b)' /\ Allocates(w)
  /\ \A b \in Blocks : content'[b] = content[b] \/ (OwnBlock(w, b) /\ content'[b] \in Data)
  /\ th[w].pc = "redirect" => content'[th[w].new] \in Data

IndexEffect(w) ==
  /\ \/ \A d \in Data : hashIndex'[d] \in {hashIndex[d], NoBlock}
     \/ th[w].pc = "lookup" /\ th'[w].pc \in LoopPCs /\ hashIndex' = th'[w].bhi
  /\ th[w].pc = "unhash" => \A d \in Data : hashIndex'[d] # th[w].blocks[th[w].i]
  /\ th'[w].pc \in LoopPCs => \A d \in Data :
       \/ th[w].pc \in LoopPCs /\ th'[w].bhi[d] = th[w].bhi[d]
       \/ th[w].pc = "index" /\ th'[w].bhi[d] = hashIndex[d]
       \/ th[w].pc = "lookup" /\ th'[w].bhi[d] = Current(w)

HandEffect(w) ==
  /\ \A b \in Blocks : InHand(w, b)' =>
       \/ InHand(w, b) \/ b \notin used
       \/ Works(w) /\ \E j \in 1 .. MaxLogical : links[Dest(w)][j] = b
  /\ \A b \in Blocks : InHand(w, b) => InHand(w, b)' \/ b \notin used' \/ ~Nowhere(b)'

(* Its own File:Tag, from one entry of the catalogue to the next, and at the   *)
(* end of its work.                                                           *)
EntryEffect(w) ==
  \/ meta'[Dest(w)] = meta[Dest(w)] /\ (Dest(w) \in dirs' <=> Dest(w) \in dirs)
  \/ meta'[Dest(w)] = NoMeta
  \/ Dest(w) \in dirs' /\ meta'[Dest(w)].state = "WORK_IN_PROGRESS"
  \/ Dest(w) \in dirs' /\ meta'[Dest(w)].state = "COMMITED" /\ Op(w) = "COMMIT"
RestEffect(w) ==
  Works(w) /\ ~Works(w)' =>
    \A j \in 1 .. MaxLogical : links'[Dest(w)][j] = Entry(meta'[Dest(w)].blocks, j)

Effect(w) ==
  TagEffect(w) /\ LinkEffect(w) /\ BlockEffect(w) /\ IndexEffect(w) /\ HandEffect(w)

-----------------------------------------------------------------------------
(* A handler and the others *)

LEMMA PcSets2 ==
  /\ LoopPCs = {"hash", "lookup", "relink", "restat", "refree", "save"}
  /\ HashPCs = {"relink", "restat", "refree", "save"}
  /\ Relinked = {"restat", "refree", "save"}
  /\ LockedPCs = {"mkdir", "grow", "unlink", "stat", "free", "unhash", "rmdir", "clone",
                  "link", "index", "hash", "lookup", "relink", "restat", "refree", "save",
                  "inplace", "cow", "redirect", "open", "close"}
  BY DEF LoopPCs, HashPCs, Relinked, LockedPCs, PCs

LEMMA WorkOp ==
  ASSUME NEW w \in Workers, Asked(w), Works(w) \/ th[w].pc = "enter"
  PROVE  /\ th[w].pc # "idle" /\ th[w].req \in Requests[w]
         /\ Op(w) \in {"CREATE", "TRUNCATE", "TAG", "COMMIT", "WRITE", "DELETE"}
  BY PcSets2 DEF Asked, Works

LEMMA LinkTable ==
  ASSUME Inv
  PROVE  links \in [FT -> [1 .. MaxLogical -> Blocks \cup {NoBlock}]]
  BY DEF Inv, TypeOK

LEMMA Threads ==
  ASSUME Inv
  PROVE  th \in [Workers -> Thread]
  BY DEF Inv, TypeOK

LEMMA Parts ==
  ASSUME BlockInv, NEW w \in Workers
  PROVE  /\ Asked(w) /\ MetaKnown(w) /\ LinksKnown(w) /\ CopySound(w) /\ HashKnown(w)
         /\ HandKnown(w) /\ CopyKnown(w) /\ RoomKnown(w)
  BY DEF BlockInv, HandlerInv

LEMMA Separate ==
  ASSUME Inv, Orderly, NEW v \in Workers, NEW w \in Workers, v # w,
         th[v].req \in Requests[v], Op(v) # "READ",
         th[w].req \in Requests[w], Op(w) # "READ", Dest(w) # Base
  PROVE  Dest(v) # Dest(w) /\ (Op(v) = "TAG" => Ft(v) # Dest(w))
<1>1. Dest(w) \in Changes(th[w].req)
  BY DEF Changes, Dest, Op, Ft
<1>2. /\ Dest(v) \in Changes(th[v].req)
      /\ Op(v) = "TAG" => Ft(v) \in Copies(th[v].req)
  BY DEF Changes, Copies, Dest, Op, Ft
<1>3. Changes(th[w].req) \cap (Changes(th[v].req) \cup Copies(th[v].req)) \subseteq {Base}
  BY DEF Orderly, Apart
<1> QED  BY <1>1, <1>2, <1>3

LEMMA OnlyOne ==
  ASSUME Inv, NEW w \in Workers, TagEffect(w), NEW v \in Workers, v # w
  PROVE  th'[v] = th[v]
  BY DEF TagEffect, OnlyMoves, Inv, TypeOK

(* The File:Tags of the other handlers stay as they are. *)
LEMMA OtherTags ==
  ASSUME Inv, Orderly, BlockInv, NEW w \in Workers, TagEffect(w),
         NEW v \in Workers, v # w, Works(v) \/ th[v].pc = "enter"
  PROVE  /\ Dest(v) \in FT /\ SameTag(Dest(v))
         /\ Op(v) = "TAG" => Ft(v) \in FT /\ SameTag(Ft(v))
<1>1. th[v].req \in Requests[v] /\ Op(v) # "READ"
  BY Parts, WorkOp
<1>2. Dest(v) \in FT /\ Ft(v) \in FT
  BY Typed
<1>3. ASSUME NEW ft \in FT, ~SameTag(ft)
      PROVE  /\ ft = Dest(w) /\ Dest(w) # Base /\ Op(w) # "READ"
             /\ th[w].req \in Requests[w]
  BY <1>3, Parts DEF TagEffect, Asked
<1> QED  BY <1>1, <1>2, <1>3, Separate

LEMMA Distinct ==
  ASSUME Inv, Orderly, BlockInv, NEW w \in Workers, NEW v \in Workers, v # w,
         Works(w), Works(v) \/ th[v].pc = "enter"
  PROVE  Dest(v) # Dest(w) /\ (Op(v) = "TAG" => Ft(v) # Dest(w))
  BY Parts, WorkOp, Separate DEF MetaKnown

LEMMA OtherMeta ==
  ASSUME Inv, Orderly, BlockInv, NEW w \in Workers, TagEffect(w),
         NEW v \in Workers, v # w
  PROVE  Asked(v)' /\ MetaKnown(v)' /\ LinksKnown(v)'
<1>1. th'[v] = th[v]
  BY OnlyOne
<1>2. Asked(v) /\ MetaKnown(v) /\ LinksKnown(v)
  BY Parts
<1>3. Asked(v)'
  BY <1>1, <1>2 DEF Asked, Op
<1>4. CASE Works(v) \/ th[v].pc = "enter"
  <2>1. SameTag(Dest(v)) /\ Op(v) # "TAG" => SameTag(Ft(v))
    BY <1>4, OtherTags DEF Dest
  <2>2. MetaKnown(v)'
    BY <1>1, <1>2, <1>4, <2>1, OtherTags
    DEF MetaKnown, Works, Op, Ft, Dest, SameTag, Written, Orderly
  <2>3. LinksKnown(v)'
    BY <1>1, <1>2, <1>4, OtherTags
    DEF LinksKnown, Place, Existing, Works, Op, Ft, Dest, SameTag
  <2> QED  BY <1>3, <2>2, <2>3
<1>5. CASE ~Works(v) /\ th[v].pc # "enter"
  BY <1>1, <1>2, <1>3, <1>5, PcSets2 DEF MetaKnown, LinksKnown, Works
<1> QED  BY <1>4, <1>5

-----------------------------------------------------------------------------
(* Blocks of one handler and of the others *)

LEMMA BaseLinked ==
  ASSUME Inv, BlockInv
  PROVE  0 \in Blocks /\ links[Base][1] = 0 /\ 0 \in used /\ ~Nowhere(0)
<1>1. 0 \in Blocks /\ Base \in FT /\ 1 \in 1 .. MaxLogical /\ NoBlock # 0
  BY VolumeAssumption DEF Blocks, NoBlock
<1>2. AtRest(Base)
  BY Parts DEF AtRest, MetaKnown
<1>3. links[Base][1] = Entry(meta[Base].blocks, 1)
  BY <1>1, <1>2 DEF BlockInv, VolumeInv, LinksAtRest
<1>4. meta[Base].blocks = <<0>>
  BY DEF BlockInv, VolumeInv, Catalogue, BaseMeta
<1>5. links[Base][1] = 0
  BY <1>3, <1>4 DEF Entry
<1>6. 0 \in used
  BY <1>1, <1>5 DEF BlockInv, VolumeInv, LinkedBlocksAllocated
<1> QED  BY <1>1, <1>5, <1>6 DEF Nowhere

LEMMA HandsTyped ==
  ASSUME Inv, NEW w \in Workers, NEW b, InHand(w, b)
  PROVE  b \in Blocks
<1>1. CASE th[w].pc \in {"link", "redirect"}
  BY <1>1, Typed DEF InHand, WellShaped
<1>2. CASE th[w].pc \in {"stat", "free", "restat", "refree"}
  <2>1. th[w].i \in 1 .. Len(th[w].blocks) /\ th[w].blocks \in Seq(Blocks)
    BY <1>2, Typed DEF WellShaped, HashPCs, Thread
  <2> QED  BY <1>2, <2>1 DEF InHand
<1> QED  BY <1>1, <1>2 DEF InHand

(* A handler that writes in place writes its own block. *)
LEMMA InPlaceOwn ==
  ASSUME Inv, BlockInv, NEW w \in Workers, th[w].pc = "inplace"
  PROVE  /\ Written(w) \in Blocks /\ Written(w) # 0
         /\ Works(w) /\ Op(w) = "WRITE" /\ Dest(w) = Ft(w) /\ Ft(w) \in FT
         /\ th[w].req.n \in 1 .. MaxLogical
         /\ links[Ft(w)][th[w].req.n] = Written(w)
         /\ \A ft \in FT : \A j \in 1 .. MaxLogical :
              links[ft][j] = Written(w) => ft = Ft(w) /\ j = th[w].req.n
         /\ \A j \in 1 .. MaxLogical : ~Settled(Ft(w), j)
         /\ ~SettledRefs(Written(w))
<1>1. /\ Works(w) /\ Op(w) = "WRITE" /\ Dest(w) = Ft(w) /\ Ft(w) \in FT
      /\ th[w].req.n \in DOMAIN th[w].blocks /\ Written(w) # 0
      /\ meta[Ft(w)].state = "WORK_IN_PROGRESS"
  BY Parts, Typed, PcSets2 DEF MetaKnown, Works, Asked, Dest
<1>2. th[w].blocks \in Seq(Blocks) /\ Len(th[w].blocks) <= MaxLogical
  BY Typed DEF Thread, WellShaped
<1>3. PICK n : n = th[w].req.n
  OBVIOUS
<1>4. n \in 1 .. MaxLogical /\ th[w].blocks[n] \in Blocks /\ Written(w) = th[w].blocks[n]
  BY <1>1, <1>2, <1>3, VolumeAssumption DEF Written, BlockAt
<1>5. links[Ft(w)][n] = Written(w)
  BY <1>1, <1>3, <1>4, Parts, PcSets2 DEF LinksKnown, Place, Relinked
<1>6. \A j \in 1 .. MaxLogical : ~Settled(Ft(w), j)
  BY <1>1 DEF Settled
<1>7. Written(w) \notin {NoBlock, 0}
  BY <1>1, <1>4 DEF Blocks, NoBlock
<1>8. \A ft \in FT : \A j \in 1 .. MaxLogical :
        links[ft][j] = Written(w) => ft = Ft(w) /\ j = n
  BY <1>1, <1>4, <1>5, <1>6, <1>7 DEF BlockInv, VolumeInv, SharedIsSettled
<1>9. ~SettledRefs(Written(w))
  BY <1>1, <1>4, <1>5, <1>6 DEF SettledRefs
<1> QED  BY <1>1, <1>3, <1>4, <1>5, <1>6, <1>8, <1>9

LEMMA OwnHand ==
  ASSUME Inv, BlockInv, NEW w \in Workers, th[w].pc \in {"link", "redirect"}
  PROVE  /\ th[w].new \in Blocks \cap used /\ InHand(w, th[w].new)
         /\ th[w].new \notin {0, NoBlock} /\ Nowhere(th[w].new)
<1>1. th[w].new \in Blocks /\ InHand(w, th[w].new)
  BY Typed DEF WellShaped, InHand
<1>2. Nowhere(th[w].new) /\ th[w].new \in used
  BY <1>1, Parts DEF HandKnown
<1> QED  BY <1>1, <1>2, BaseLinked DEF Blocks, NoBlock

(* Nobody else's logical block is in a block that a handler writes. *)
LEMMA OwnUnlinked ==
  ASSUME Inv, BlockInv, NEW w \in Workers, NEW b \in Blocks, OwnBlock(w, b),
         NEW ft \in FT, NEW j \in 1 .. MaxLogical, links[ft][j] = b
  PROVE  th[w].pc = "inplace" /\ ft = Dest(w) /\ j = th[w].req.n
<1>1. CASE b \notin used
  BY <1>1 DEF BlockInv, VolumeInv, LinkedBlocksAllocated, Blocks, NoBlock
<1>2. CASE th[w].pc = "redirect" /\ th[w].new = b
  BY <1>2, OwnHand DEF Nowhere
<1>3. CASE th[w].pc = "inplace" /\ Written(w) = b
  BY <1>3, InPlaceOwn
<1> QED  BY <1>1, <1>2, <1>3 DEF OwnBlock

(* Nor is it in the copy that a COMMIT has of the index. *)
LEMMA OwnUncopied ==
  ASSUME Inv, BlockInv, NEW w \in Workers, NEW b \in Blocks, OwnBlock(w, b),
         NEW v \in Workers, th[v].pc \in LoopPCs, NEW d \in Data
  PROVE  th[v].bhi[d] # b
<1>1. b # NoBlock
  BY DEF Blocks, NoBlock
<1>2. th[v].bhi[d] = b => Sound(d, b)
  BY <1>1, Parts DEF CopySound
<1>3. CASE b \notin used
  BY <1>2, <1>3 DEF Sound
<1>4. CASE th[w].pc = "redirect" /\ th[w].new = b
  BY <1>4, OwnHand, Parts DEF HandKnown
<1>5. CASE th[w].pc = "inplace" /\ Written(w) = b
  BY <1>2, <1>5, InPlaceOwn DEF Sound
<1> QED  BY <1>3, <1>4, <1>5 DEF OwnBlock

LEMMA HandUncopied ==
  ASSUME Inv, BlockInv, NEW w \in Workers, NEW b \in Blocks, InHand(w, b), b # 0,
         NEW v \in Workers, th[v].pc \in LoopPCs, NEW d \in Data
  PROVE  th[v].bhi[d] # b
  BY Parts DEF HandKnown

LEMMA FreedNotZero ==
  ASSUME Inv, BlockInv, NEW w \in Workers, NEW b \in Blocks, InHand(w, b),
         th[w].pc \in {"link", "redirect", "free", "refree"}
  PROVE  b # 0 /\ Nowhere(b)
  BY Parts, BaseLinked DEF HandKnown

(* What a hash leads to stays as it is, unless the handler frees or links it. *)
LEMMA SoundKept ==
  ASSUME Inv, BlockInv, NEW w \in Workers, LinkEffect(w), BlockEffect(w),
         NEW b \in Blocks, NEW d \in Data, Sound(d, b),
         ~OwnBlock(w, b),
         b # 0 /\ InHand(w, b) => b \in used' /\ th[w].pc \notin {"link", "redirect"}
  PROVE  Sound(d, b)'
<1>1. b \in used'
  <2>1. CASE b \notin used'
    BY <2>1, FreedNotZero DEF BlockEffect, Sound
  <2> QED  BY <2>1
<1>2. content'[b] = d
  BY DEF BlockEffect, Sound
<1>3. ASSUME b # 0, NEW ft \in FT, NEW j \in 1 .. MaxLogical, links'[ft][j] = b
      PROVE  Settled(ft, j)'
  <2>1. b # NoBlock
    BY DEF Blocks, NoBlock
  <2>2. CASE links'[ft][j] = links[ft][j]
    <3>1. Settled(ft, j)
      BY <1>3, <2>2 DEF Sound, SettledRefs
    <3> QED  BY <1>3, <2>1, <3>1 DEF LinkEffect
  <2>3. CASE th[w].pc \in {"link", "redirect"} /\ links'[ft][j] = th[w].new
    BY <1>3, <2>3 DEF InHand
  <2> QED  BY <1>3, <2>1, <2>2, <2>3 DEF LinkEffect
<1>4. SettledRefs(b)'
  BY <1>3 DEF SettledRefs
<1> QED  BY <1>1, <1>2, <1>4 DEF Sound

LEMMA CopyKept ==
  ASSUME Inv, BlockInv, NEW w \in Workers, LinkEffect(w), BlockEffect(w),
         NEW v \in Workers, th[v].pc \in LoopPCs, NEW d \in Data,
         NEW b, b = th[v].bhi[d], b # NoBlock
  PROVE  b \in Blocks /\ Sound(d, b) /\ Sound(d, b)'
<1>1. b \in Blocks
  BY Typed DEF Thread
<1>2. Sound(d, b)
  BY Parts DEF CopySound
<1>3. ~OwnBlock(w, b) /\ (b # 0 => ~InHand(w, b))
  BY <1>1, OwnUncopied, HandUncopied
<1> QED  BY <1>1, <1>2, <1>3, SoundKept

-----------------------------------------------------------------------------
(* What the other handlers know stays true *)

LEMMA CommitterOf ==
  ASSUME Inv, Orderly, BlockInv, NEW w \in Workers, th[w].pc # "idle", Op(w) # "READ",
         Dest(w) # Base, meta[Dest(w)].state = "COMMITED"
  PROVE  Commits(w, Dest(w))
<1>1. PICK u \in Workers : Commits(u, Dest(w))
  BY Typed DEF BlockInv, VolumeInv, Catalogue
<1>2. th[w].req \in Requests[w] /\ Dest(w) \in Changes(th[w].req)
  BY Parts DEF Asked, Changes, Dest, Op, Ft
<1>3. PICK r \in Requests[u] : r.op = "COMMIT" /\ r.ft = Dest(w)
  BY <1>1 DEF Commits
<1>4. Dest(w) \in Changes(r)
  BY <1>3 DEF Changes
<1>5. CASE u # w
  BY <1>2, <1>3, <1>4, <1>5 DEF Orderly, Apart
<1> QED  BY <1>1, <1>5

(* While a committed File:Tag is deleted no other handler commits, or works   *)
(* on a committed File:Tag.                                                   *)
LEMMA DoomsAlone ==
  ASSUME Inv, Orderly, BlockInv, NEW v \in Workers, NEW w \in Workers, v # w, Dooms(v),
         Works(w)
  PROVE  Op(w) # "COMMIT" /\ \A j : ~Settled(Dest(w), j)
<1>1. /\ th[v].pc # "idle" /\ Op(v) = "DELETE" /\ th[v].req \in Requests[v]
      /\ Dest(v) = Ft(v) /\ Dest(v) # Base /\ meta[Dest(v)].state = "COMMITED"
  BY Parts, WorkOp DEF Dooms, Dest, MetaKnown
<1>2. Commits(v, Ft(v))
  BY <1>1, CommitterOf
<1>3. \A ft \in FT : ~Commits(w, ft)
  BY <1>1, <1>2 DEF Orderly, DeletesAlone, Op, Ft
<1>4. th[w].req \in Requests[w] /\ th[w].pc # "idle" /\ Op(w) # "READ" /\ Dest(w) # Base
  BY Parts, WorkOp DEF MetaKnown
<1>5. Dest(w) \in FT /\ Ft(w) \in FT
  BY Typed
<1>6. Op(w) # "COMMIT"
  BY <1>3, <1>4, <1>5 DEF Commits, Op, Ft
<1>7. meta[Dest(w)].state # "COMMITED"
  BY <1>3, <1>4, <1>5, CommitterOf
<1> QED  BY <1>6, <1>7 DEF Settled

LEMMA UnhashingAlone ==
  ASSUME Inv, Orderly, BlockInv, NEW b, Unhashing(b), NEW w \in Workers, Works(w)
  PROVE  Op(w) # "COMMIT"
<1>1. PICK v \in Workers : th[v].pc = "unhash" /\ Dooms(v)
  BY DEF Unhashing
<1>2. CASE v = w
  BY <1>1, <1>2 DEF Dooms
<1>3. CASE v # w
  BY <1>1, <1>3, DoomsAlone
<1> QED  BY <1>2, <1>3

(* The contents of what a File:Tag is linked to. *)
LEMMA SeenKept ==
  ASSUME Inv, BlockInv, NEW w \in Workers, BlockEffect(w),
         NEW ft \in FT, ft # Dest(w) \/ th[w].pc # "inplace",
         NEW j \in 1 .. MaxLogical, NEW b \in Blocks, links[ft][j] = b
  PROVE  content'[b] = content[b]
  BY OwnUnlinked DEF BlockEffect

LEMMA OtherCopySound ==
  ASSUME Inv, Orderly, BlockInv, NEW w \in Workers, Effect(w), NEW v \in Workers, v # w
  PROVE  CopySound(v)' /\ HashKnown(v)'
<1>1. th'[v] = th[v]
  BY OnlyOne DEF Effect
<1>2. CopySound(v)'
  <2>1. ASSUME th[v].pc \in LoopPCs, NEW d \in Data, th[v].bhi[d] # NoBlock
        PROVE  Sound(d, th[v].bhi[d])'
    <3>1. PICK b : b = th[v].bhi[d]
      OBVIOUS
    <3>2. Sound(d, b)'
      BY <2>1, <3>1, CopyKept DEF Effect
    <3>3. b = th'[v].bhi[d]
      BY <1>1, <3>1
    <3> QED  BY <3>2, <3>3 DEF Sound, SettledRefs
  <2>2. ASSUME th'[v].pc \in LoopPCs, NEW d \in Data, th'[v].bhi[d] # NoBlock
        PROVE  Sound(d, th[v].bhi[d])'
    BY <1>1, <2>1, <2>2
  <2> QED  BY <2>2 DEF CopySound
<1>3. HashKnown(v)'
  <2>1. CASE th[v].pc \in {"lookup", "relink"}
    <3>1. PICK b : b = Current(v)
      OBVIOUS
    <3>2. b \in Blocks /\ Ft(v) \in FT /\ Works(v)
      BY <2>1, <3>1, CurrentTyped, Typed, PcSets2 DEF Works
    <3>3. th[v].i \in DOMAIN th[v].blocks /\ th[v].i \in 1 .. MaxLogical
      <4>1. th[v].blocks \in Seq(Blocks)
        BY Typed DEF Thread
      <4>2. th[v].i \in 1 .. Len(th[v].blocks) /\ Len(th[v].blocks) <= MaxLogical
        BY <2>1, CurrentTyped, PcSets2
      <4> QED  BY <4>1, <4>2, VolumeAssumption
    <3>4. Op(v) = "COMMIT" /\ Dest(v) = Ft(v)
      BY <2>1, Parts, PcSets2 DEF Asked, Dest
    <3>5. links[Ft(v)][th[v].i] = b
      BY <2>1, <3>1, <3>2, <3>3, <3>4, Parts, PcSets2 DEF LinksKnown, Place, Current
    <3>6. Ft(v) # Dest(w) \/ th[w].pc # "inplace"
      BY <3>2, <3>4, Distinct, PcSets2 DEF Works
    <3>7. content'[b] = content[b]
      BY <3>2, <3>3, <3>5, <3>6, SeenKept DEF Effect
    <3>8. content[b] = th[v].hash
      BY <2>1, <3>1, Parts DEF HashKnown
    <3> QED  BY <1>1, <3>1, <3>7, <3>8 DEF HashKnown, Current
  <2> QED  BY <1>1, <2>1 DEF HashKnown
<1> QED  BY <1>2, <1>3

LEMMA DoomsKept ==
  ASSUME Inv, Orderly, BlockInv, NEW w \in Workers, TagEffect(w),
         NEW v \in Workers, v # w, Dooms(v)
  PROVE  Dooms(v)'
<1>1. th'[v] = th[v]
  BY OnlyOne
<1>2. SameTag(Ft(v))
  BY OtherTags DEF Dooms, Dest
<1> QED  BY <1>1, <1>2 DEF Dooms, SameTag, Works, Op, Ft

(* What is in one handler's hands, the others neither link nor take. *)
LEMMA OtherUnlinked ==
  ASSUME Inv, Orderly, BlockInv, NEW w \in Workers, LinkEffect(w),
         NEW v \in Workers, v # w, NEW b \in Blocks, InHand(v, b), b # 0,
         NEW ft \in FT, NEW j \in 1 .. MaxLogical, links'[ft][j] = b
  PROVE  links[ft][j] = b /\ (Settled(ft, j) => Settled(ft, j)')
<1>1. b # NoBlock
  BY DEF Blocks, NoBlock
<1>2. ~(th[w].pc \in {"link", "redirect"} /\ th[w].new = b)
  BY Parts DEF HandKnown, InHand
<1>3. ~(th[w].pc = "relink" /\ Existing(w) = b)
  <2>1. th[w].pc = "relink" => th[w].hash \in Data
    BY Typed, PcSets2 DEF WellShaped
  <2> QED  BY <2>1, Parts, PcSets2 DEF HandKnown, Existing
<1> QED  BY <1>1, <1>2, <1>3 DEF LinkEffect

LEMMA OtherHandKept ==
  ASSUME Inv, Orderly, BlockInv, NEW w \in Workers, Effect(w),
         NEW v \in Workers, v # w, NEW b \in Blocks, InHand(v, b)
  PROVE  /\ b \in used'
         /\ b = 0 \/ Nowhere(b)' \/ (Dooms(v)' /\ SettledRefs(b)')
         /\ Nowhere(b) /\ b # 0 => Nowhere(b)'
         /\ content[b] \in Data => content'[b] \in Data
<1>1. HandKnown(v) /\ b \in used
  BY Parts DEF HandKnown
<1>2. b \in used'
  <2>1. CASE b \notin used'
    BY <1>1, <2>1, FreedNotZero DEF Effect, BlockEffect, HandKnown
  <2> QED  BY <2>1
<1>3. Nowhere(b) /\ b # 0 => Nowhere(b)'
  <2>1. ASSUME Nowhere(b), b # 0 PROVE  \A ft \in FT : \A j \in 1 .. MaxLogical : links'[ft][j] # b
    BY <2>1, OtherUnlinked DEF Nowhere, Effect
  <2> QED  BY <2>1 DEF Nowhere
<1>4. Dooms(v) /\ SettledRefs(b) /\ b # 0 => Dooms(v)' /\ SettledRefs(b)'
  <2>1. ASSUME Dooms(v), SettledRefs(b), b # 0
        PROVE  \A ft \in FT : \A j \in 1 .. MaxLogical : links'[ft][j] = b => Settled(ft, j)'
    BY <2>1, OtherUnlinked DEF SettledRefs, Effect
  <2> QED  BY <2>1, DoomsKept DEF SettledRefs, Effect
<1> QED  BY <1>1, <1>2, <1>3, <1>4 DEF HandKnown, Effect, BlockEffect

LEMMA OtherHandApart ==
  ASSUME Inv, Orderly, BlockInv, NEW w \in Workers, Effect(w),
         NEW v \in Workers, v # w, NEW b \in Blocks, InHand(v, b), b # 0
  PROVE  /\ ~InHand(w, b)'
         /\ th'[w].pc \in LoopPCs => \A d \in Data : th'[w].bhi[d] # b
<1>1. HandKnown(v) /\ b \in used /\ (Nowhere(b) \/ (Dooms(v) /\ SettledRefs(b)))
  BY Parts DEF HandKnown
<1>2. ASSUME Works(w), NEW j \in 1 .. MaxLogical, links[Dest(w)][j] = b
      PROVE  FALSE
  <2>1. Dest(w) \in FT
    BY Typed
  <2>2. Dooms(v) /\ Settled(Dest(w), j)
    BY <1>1, <1>2, <2>1 DEF Nowhere, SettledRefs
  <2> QED  BY <1>2, <2>2, DoomsAlone
<1>3. ~InHand(w, b)'
  BY <1>1, <1>2 DEF Effect, HandEffect, HandKnown
<1>4. ASSUME th'[w].pc \in LoopPCs, NEW d \in Data, th'[w].bhi[d] = b
      PROVE  FALSE
  <2>1. CASE th[w].pc \in LoopPCs /\ th'[w].bhi[d] = th[w].bhi[d]
    BY <1>1, <1>4, <2>1 DEF HandKnown
  <2>2. CASE th[w].pc = "index" /\ th'[w].bhi[d] = hashIndex[d]
    <3>1. Op(w) = "COMMIT" /\ Works(w)
      BY <2>2, Parts, PcSets2 DEF Asked, Works
    <3>2. ~Unhashing(b) /\ ~Dooms(v)
      BY <3>1, UnhashingAlone, DoomsAlone
    <3> QED  BY <1>1, <1>4, <2>2, <3>2 DEF HandKnown
  <2>3. CASE th[w].pc = "lookup" /\ th'[w].bhi[d] = Current(w)
    <3>1. Op(w) = "COMMIT" /\ Works(w) /\ th[w].blocks \in Seq(Blocks)
          /\ th[w].i \in 1 .. Len(th[w].blocks) /\ Len(th[w].blocks) <= MaxLogical
      BY <2>3, Parts, PcSets2, Typed DEF Asked, Works, WellShaped, Thread
    <3>2. th[w].i \in 1 .. MaxLogical /\ th[w].i \in DOMAIN th[w].blocks
      BY <3>1, VolumeAssumption
    <3>3. links[Dest(w)][th[w].i] = Current(w)
      BY <2>3, <3>1, <3>2, Parts, PcSets2 DEF LinksKnown, Place, Current
    <3> QED  BY <1>2, <1>4, <2>3, <3>1, <3>2, <3>3
  <2> QED  BY <1>4, <2>1, <2>2, <2>3 DEF Effect, IndexEffect
<1> QED  BY <1>3, <1>4

LEMMA OtherHandUnhashed ==
  ASSUME Inv, Orderly, BlockInv, NEW w \in Workers, Effect(w),
         NEW v \in Workers, v # w, NEW b \in Blocks, InHand(v, b), b # 0,
         NEW d \in Data, hashIndex'[d] = b
  PROVE  Unhashing(b)' \/ Dooms(v)'
<1>1. HandKnown(v) /\ (Dooms(v) => Dooms(v)')
  BY Parts, DoomsKept DEF Effect
<1>2. b # NoBlock
  BY DEF Blocks, NoBlock
<1>3. hashIndex'[d] = hashIndex[d]
  BY <1>2, OtherHandApart DEF Effect, IndexEffect
<1>4. Unhashing(b) \/ Dooms(v)
  BY <1>1, <1>3 DEF HandKnown
<1>5. ASSUME NEW u \in Workers, th[u].pc = "unhash", Dooms(u), th[u].blocks[th[u].i] = b
      PROVE  th'[u].pc = "unhash" /\ Dooms(u)' /\ th'[u].blocks[th'[u].i] = b
  <2>1. u # w
    BY <1>5 DEF Effect, IndexEffect
  <2> QED  BY <1>5, <2>1, OnlyOne, DoomsKept DEF Effect
<1>6. Unhashing(b) => Unhashing(b)'
  BY <1>5 DEF Unhashing
<1> QED  BY <1>1, <1>4, <1>6

LEMMA OtherHands ==
  ASSUME Inv, Orderly, BlockInv, NEW w \in Workers, Effect(w), NEW v \in Workers, v # w
  PROVE  HandKnown(v)'
<1>1. th'[v] = th[v] /\ \A u \in Workers : u # w => th'[u] = th[u]
  BY OnlyOne DEF Effect
<1>2. HandKnown(v)
  BY Parts
<1>3. ASSUME NEW b \in Blocks, InHand(v, b)'
      PROVE  /\ b \in used'
             /\ b = 0 \/ Nowhere(b)' \/ (Dooms(v)' /\ SettledRefs(b)')
             /\ th'[v].pc \in {"link", "redirect", "free", "refree"} => Nowhere(b)'
             /\ th'[v].pc = "link" => content'[b] \in Data
             /\ b # 0 => \A u \in Workers : u # v => ~InHand(u, b)'
             /\ b # 0 => \A u \in Workers : th'[u].pc \in LoopPCs =>
                           \A d \in Data : th'[u].bhi[d] # b
             /\ b # 0 => \A d \in Data : hashIndex'[d] = b => Unhashing(b)' \/ Dooms(v)'
  <2>1. InHand(v, b)
    BY <1>1, <1>3 DEF InHand
  <2>2. /\ b \in used'
        /\ b = 0 \/ Nowhere(b)' \/ (Dooms(v)' /\ SettledRefs(b)')
    BY <2>1, OtherHandKept
  <2>3. th'[v].pc \in {"link", "redirect", "free", "refree"} => Nowhere(b)'
    BY <1>1, <2>1, OtherHandKept, FreedNotZero
  <2>4. th'[v].pc = "link" => content'[b] \in Data
    BY <1>1, <1>2, <2>1, OtherHandKept DEF HandKnown
  <2>5. b # 0 => \A u \in Workers : u # v => ~InHand(u, b)'
    <3>1. ASSUME b # 0, NEW u \in Workers, u # v, u # w PROVE ~InHand(u, b)'
      BY <1>1, <1>2, <2>1, <3>1 DEF HandKnown, InHand
    <3> QED  BY <2>1, <3>1, OtherHandApart
  <2>6. b # 0 => \A u \in Workers : th'[u].pc \in LoopPCs =>
                   \A d \in Data : th'[u].bhi[d] # b
    <3>1. ASSUME b # 0, NEW u \in Workers, u # w, th'[u].pc \in LoopPCs, NEW d \in Data
          PROVE th'[u].bhi[d] # b
      BY <1>1, <1>2, <2>1, <3>1 DEF HandKnown
    <3> QED  BY <2>1, <3>1, OtherHandApart
  <2> QED  BY <2>1, <2>2, <2>3, <2>4, <2>5, <2>6, OtherHandUnhashed
<1> QED  BY <1>3 DEF HandKnown

-----------------------------------------------------------------------------
(* A TAG and the others *)

(* The logical blocks of the origin and of the destination are those of the   *)
(* handler's lists.                                                           *)
LEMMA TagLinks ==
  ASSUME Inv, Orderly, BlockInv, NEW v \in Workers, Works(v), Op(v) = "TAG"
  PROVE  /\ Ft(v) \in FT /\ Dest(v) \in FT
         /\ th[v].blocks \in Seq(Blocks) /\ th[v].orig \in Seq(Blocks)
         /\ \A j \in DOMAIN th[v].blocks :
              j \in 1 .. MaxLogical /\ links[Dest(v)][j] = th[v].blocks[j]
         /\ \A j \in DOMAIN th[v].orig :
              j \in 1 .. MaxLogical /\ links[Ft(v)][j] = th[v].orig[j]
<1>1. CopyKnown(v) /\ LinksKnown(v) /\ Asked(v)
  BY Parts
<1>2. /\ Ft(v) \in FT /\ Dest(v) \in FT
      /\ th[v].blocks \in Seq(Blocks) /\ th[v].orig \in Seq(Blocks)
      /\ Len(th[v].blocks) <= MaxLogical /\ Len(th[v].orig) <= MaxLogical
  BY Typed DEF Thread, WellShaped
<1>3. AtRest(Ft(v))
  BY <1>1, Distinct DEF AtRest, CopyKnown
<1>4. ASSUME NEW j \in DOMAIN th[v].orig
      PROVE  j \in 1 .. MaxLogical /\ links[Ft(v)][j] = th[v].orig[j]
  <2>1. j \in 1 .. MaxLogical
    BY <1>2, <1>4, VolumeAssumption
  <2>2. links[Ft(v)][j] = Entry(meta[Ft(v)].blocks, j)
    BY <1>2, <1>3, <2>1 DEF BlockInv, VolumeInv, LinksAtRest
  <2> QED  BY <1>1, <1>4, <2>1, <2>2 DEF CopyKnown, Entry
<1>5. ASSUME NEW j \in DOMAIN th[v].blocks
      PROVE  j \in 1 .. MaxLogical /\ links[Dest(v)][j] = th[v].blocks[j]
  <2>1. j \in 1 .. MaxLogical
    BY <1>2, <1>5, VolumeAssumption
  <2>2. th[v].pc \notin {"stat", "free", "unhash"} \cup Relinked
    BY <1>1, PcSets2 DEF Asked
  <2> QED  BY <1>1, <1>5, <2>1, <2>2 DEF LinksKnown, Place
<1> QED  BY <1>2, <1>4, <1>5

LEMMA OtherCopy ==
  ASSUME Inv, Orderly, BlockInv, NEW w \in Workers, Effect(w), NEW v \in Workers, v # w
  PROVE  CopyKnown(v)'
<1>1. th'[v] = th[v] /\ CopyKnown(v)
  BY OnlyOne, Parts DEF Effect
<1>2. CASE Works(v) /\ Op(v) = "TAG"
  <2>1. SameTag(Ft(v)) /\ SameTag(Dest(v))
    BY <1>2, OtherTags DEF Effect
  <2>2. th[w].pc = "inplace" => Ft(v) # Dest(w) /\ Dest(v) # Dest(w)
    BY <1>2, Distinct, PcSets2 DEF Works
  <2>3. ASSUME NEW j \in DOMAIN th[v].blocks
        PROVE  content'[th[v].blocks[j]] = content[th[v].blocks[j]]
    <3>1. PICK b : b = th[v].blocks[j]
      OBVIOUS
    <3>2. b \in Blocks /\ j \in 1 .. MaxLogical /\ links[Dest(v)][j] = b /\ Dest(v) \in FT
      BY <1>2, <2>3, <3>1, TagLinks
    <3> QED  BY <2>2, <3>1, <3>2, SeenKept DEF Effect
  <2>4. ASSUME NEW j \in DOMAIN th[v].orig
        PROVE  content'[th[v].orig[j]] = content[th[v].orig[j]]
    <3>1. PICK b : b = th[v].orig[j]
      OBVIOUS
    <3>2. b \in Blocks /\ j \in 1 .. MaxLogical /\ links[Ft(v)][j] = b /\ Ft(v) \in FT
      BY <1>2, <2>4, <3>1, TagLinks
    <3> QED  BY <2>2, <3>1, <3>2, SeenKept DEF Effect
  <2>5. DOMAIN th[v].blocks \subseteq DOMAIN th[v].orig
    BY <1>1, <1>2, TagLinks DEF CopyKnown
  <2>6. th[v].pc = "link" => content'[th[v].new] = content[th[v].new]
                             /\ th[v].i \in DOMAIN th[v].orig
    <3>1. CASE th[v].pc = "link"
      <4>1. th[v].i \in DOMAIN th[v].orig
        BY <1>2, <3>1, TagLinks, Typed DEF WellShaped, Thread
      <4>2. PICK b : b = th[v].new
        OBVIOUS
      <4>3. b \in Blocks \cap used /\ InHand(v, b) /\ b # 0 /\ Nowhere(b)
        BY <3>1, <4>2, OwnHand
      <4>4. ~OwnBlock(w, b)
        <5>1. CASE th[w].pc = "redirect" /\ th[w].new = b
          BY <4>3, <5>1, Parts DEF HandKnown, InHand
        <5>2. CASE th[w].pc = "inplace" /\ Written(w) = b
          BY <4>3, <5>2, InPlaceOwn DEF Nowhere
        <5> QED  BY <4>3, <5>1, <5>2 DEF OwnBlock
      <4> QED  BY <4>1, <4>2, <4>3, <4>4 DEF Effect, BlockEffect
    <3> QED  BY <3>1
  <2> QED  BY <1>1, <1>2, <2>1, <2>3, <2>4, <2>5, <2>6
           DEF CopyKnown, SameTag, Works, Op, Ft, Dest
<1>3. CASE ~(Works(v) /\ Op(v) = "TAG")
  BY <1>1, <1>3 DEF CopyKnown, Works, Op
<1> QED  BY <1>2, <1>3

LEMMA FreeIsFinite ==
  ASSUME NEW S \in SUBSET Blocks
  PROVE  IsFiniteSet(S) /\ Cardinality(S) \in Nat
<1>1. IsFiniteSet(Blocks)
  BY FS_Interval, VolumeAssumption DEF Blocks
<1> QED  BY <1>1, FS_Subset, FS_CardinalityType

LEMMA OtherRoom ==
  ASSUME Inv, Orderly, BlockInv, NEW w \in Workers, Effect(w), NEW v \in Workers, v # w
  PROVE  RoomKnown(v)'
<1>1. th'[v] = th[v] /\ RoomKnown(v)
  BY OnlyOne, Parts DEF Effect
<1>2. CASE ~Allocates(w)
  <2>1. used' \subseteq used
    BY <1>2 DEF Effect, BlockEffect
  <2>2. used \subseteq Blocks
    BY DEF Inv, TypeOK
  <2>3. FreeBlocks \subseteq FreeBlocks' /\ FreeBlocks' \in SUBSET Blocks
    BY <2>1, <2>2 DEF FreeBlocks
  <2>4. PICK m, n \in Nat : m = Cardinality(FreeBlocks) /\ n = Cardinality(FreeBlocks') /\ m <= n
    <3>1. ASSUME NEW S \in SUBSET Blocks, NEW T \in SUBSET Blocks, S \subseteq T
          PROVE  \E m, n \in Nat : m = Cardinality(S) /\ n = Cardinality(T) /\ m <= n
      BY <3>1, FreeIsFinite, FS_Subset
    <3> QED  BY <2>3, <3>1 DEF FreeBlocks
  <2>5. Len(th[v].blocks) \in Nat /\ Len(th[v].orig) \in Nat
    BY Typed DEF Thread
  <2> QED  BY <1>1, <2>4, <2>5 DEF RoomKnown, Op
<1>3. CASE Allocates(w)
  <2>1. Op(v) = "TAG" /\ th[v].pc \in {"mkdir", "clone", "link"} => Len(th[v].orig) <= 1
    BY <1>1, <1>3 DEF RoomKnown
  <2> QED  BY <1>1, <2>1 DEF RoomKnown, Op
<1> QED  BY <1>2, <1>3

LEMMA OthersKept ==
  ASSUME Inv, Orderly, BlockInv, NEW w \in Workers, Effect(w), NEW v \in Workers, v # w
  PROVE  HandlerInv(v)'
  BY OtherMeta, OtherCopySound, OtherHands, OtherCopy, OtherRoom DEF HandlerInv, Effect

-----------------------------------------------------------------------------
(* The volume *)

LEMMA BaseKept ==
  ASSUME Inv, BlockInv, NEW w \in Workers, TagEffect(w)
  PROVE  SameTag(Base)
  BY VolumeAssumption DEF TagEffect

LEMMA CatalogueKept ==
  ASSUME Inv, Orderly, BlockInv, NEW w \in Workers, TagEffect(w), EntryEffect(w)
  PROVE  Catalogue'
<1>1. Catalogue
  BY DEF BlockInv, VolumeInv
<1>2. Base \in dirs' /\ meta'[Base] = BaseMeta
  BY <1>1, BaseKept DEF Catalogue, SameTag
<1>3. ASSUME NEW ft \in FT
      PROVE  /\ ft \notin dirs' \/ meta'[ft].state = "NONE" => meta'[ft] = NoMeta
             /\ ft # Base /\ meta'[ft].state = "COMMITED" => \E u \in Workers : Commits(u, ft)
  <2>1. CASE SameTag(ft)
    BY <1>1, <2>1 DEF Catalogue, SameTag
  <2>2. CASE ~SameTag(ft)
    <3>1. ft = Dest(w) /\ th[w].pc # "idle" /\ ft # Base /\ th[w].req \in Requests[w]
      BY <2>2, Parts DEF TagEffect, Asked
    <3>2. CASE \/ meta'[ft] = NoMeta
               \/ meta'[ft] = meta[ft] /\ (ft \in dirs' <=> ft \in dirs)
      BY <1>1, <3>1, <3>2 DEF NoMeta, Catalogue
    <3>3. CASE ft \in dirs' /\ meta'[ft].state = "WORK_IN_PROGRESS"
      BY <3>3
    <3>4. CASE ft \in dirs' /\ meta'[ft].state = "COMMITED" /\ Op(w) = "COMMIT"
      BY <3>1, <3>4 DEF Commits, Op, Dest, Ft
    <3> QED  BY <2>2, <3>1, <3>2, <3>3, <3>4 DEF EntryEffect
  <2> QED  BY <2>1, <2>2
<1> QED  BY <1>2, <1>3 DEF Catalogue, Commits

LEMMA LinksAtRestKept ==
  ASSUME Inv, Orderly, BlockInv, NEW w \in Workers, TagEffect(w), RestEffect(w)
  PROVE  LinksAtRest'
<1>1. \A u \in Workers : u # w => th'[u] = th[u]
  BY OnlyOne
<1>2. ASSUME NEW ft \in FT, AtRest(ft)', NEW j \in 1 .. MaxLogical
      PROVE  links'[ft][j] = Entry(meta'[ft].blocks, j)
  <2>1. \A u \in Workers : u # w => (Works(u) => Dest(u) # ft)
    BY <1>1, <1>2 DEF AtRest, Works, Dest, Op, Ft
  <2>2. Works(w)' => Dest(w) # ft
    BY <1>2 DEF AtRest, TagEffect, Dest, Op, Ft
  <2>3. CASE Works(w) /\ Dest(w) = ft
    BY <1>2, <2>2, <2>3 DEF RestEffect
  <2>4. CASE ~(Works(w) /\ Dest(w) = ft)
    <3>1. AtRest(ft) /\ SameTag(ft)
      BY <2>1, <2>2, <2>4 DEF AtRest, TagEffect
    <3> QED  BY <1>2, <3>1 DEF BlockInv, VolumeInv, LinksAtRest, SameTag
  <2> QED  BY <2>3, <2>4
<1> QED  BY <1>2 DEF LinksAtRest

(* What a logical block is linked to after the step. *)
LEMMA RelinkedTo ==
  ASSUME Inv, BlockInv, NEW w \in Workers, th[w].pc = "relink"
  PROVE  /\ Existing(w) \in Blocks /\ th[w].hash \in Data
         /\ Sound(th[w].hash, Existing(w))
<1>1. th[w].hash \in Data /\ Existing(w) \in Blocks
  BY PcSets2, Typed DEF WellShaped, Existing
<1>2. th[w].bhi[th[w].hash] # NoBlock
  BY <1>1 DEF Existing, Blocks, NoBlock
<1> QED  BY <1>1, <1>2, PcSets2, Parts DEF CopySound, Existing

LEMMA LinkedTo ==
  ASSUME Inv, BlockInv, NEW w \in Workers, Effect(w),
         NEW ft \in FT, NEW j \in 1 .. MaxLogical, NEW b, b = links'[ft][j], b # NoBlock
  PROVE  /\ b \in Blocks \cap used
         /\ \/ links[ft][j] = b /\ content[b] \in Data
            \/ b = 0 /\ content[b] \in Data
            \/ th[w].pc \in {"link", "redirect"} /\ b = th[w].new
            \/ th[w].pc = "relink" /\ b = Existing(w) /\ Settled(ft, j)' /\ content[b] \in Data
<1>1. LinkedBlocksAllocated /\ LinkedWritten /\ used \subseteq Blocks
  BY DEF BlockInv, VolumeInv, Inv, TypeOK
<1>2. CASE links[ft][j] = b
  BY <1>1, <1>2 DEF LinkedBlocksAllocated, LinkedWritten
<1>3. CASE b = 0
  <2>1. Base \in FT /\ 1 \in 1 .. MaxLogical /\ links[Base][1] # NoBlock
    BY BaseLinked, VolumeAssumption DEF NoBlock
  <2>2. content[0] \in Data
    BY <1>1, <2>1, BaseLinked DEF LinkedWritten
  <2> QED  BY <1>3, <2>2, BaseLinked
<1>4. CASE th[w].pc \in {"link", "redirect"} /\ b = th[w].new
  BY <1>4, OwnHand
<1>5. CASE th[w].pc = "relink" /\ b = Existing(w) /\ Settled(ft, j)'
  BY <1>5, RelinkedTo DEF Sound
<1> QED  BY <1>2, <1>3, <1>4, <1>5 DEF Effect, LinkEffect

LEMMA AllocatedKept ==
  ASSUME Inv, BlockInv, NEW w \in Workers, Effect(w)
  PROVE  LinkedBlocksAllocated' /\ LinkedWritten'
<1>1. ASSUME NEW ft \in FT, NEW j \in 1 .. MaxLogical, links'[ft][j] # NoBlock
      PROVE  links'[ft][j] \in used' /\ content'[links'[ft][j]] \in Data
  <2>1. PICK b : b = links'[ft][j]
    OBVIOUS
  <2>2. b \in Blocks \cap used
    BY <1>1, <2>1, LinkedTo
  <2>3. b \in used'
    <3>1. CASE b \notin used'
      <4>1. th[w].pc \in {"free", "refree"} /\ b # 0 /\ Nowhere(b)
        BY <2>2, <3>1, FreedNotZero DEF Effect, BlockEffect
      <4>2. links[ft][j] = b
        BY <1>1, <2>1, <4>1, LinkedTo
      <4> QED  BY <4>1, <4>2 DEF Nowhere
    <3> QED  BY <3>1
  <2>4. content[b] \in Data => content'[b] \in Data
    BY <2>2 DEF Effect, BlockEffect
  <2>5. th[w].pc = "link" => content[th[w].new] \in Data
    BY OwnHand, Parts DEF HandKnown
  <2>6. content'[b] \in Data
    BY <1>1, <2>1, <2>4, <2>5, LinkedTo DEF Effect, BlockEffect
  <2> QED  BY <2>1, <2>3, <2>6
<1> QED  BY <1>1 DEF LinkedBlocksAllocated, LinkedWritten

LEMMA NoneLost ==
  ASSUME Inv, Inv', BlockInv, NEW w \in Workers, Effect(w)
  PROVE  NoBlockLost'
<1> DEFINE Linked(b) == \E ft \in FT : \E j \in 1 .. MaxLogical : links'[ft][j] = b
<1>1. \A b : Linked(b) => Refs(b)' # {}
  <2>1. ASSUME NEW b, NEW ft \in FT, NEW j \in 1 .. MaxLogical, links'[ft][j] = b
        PROVE  Refs(b)' # {}
    <3>1. <<ft, j>> \in Refs(b)'
      BY <2>1 DEF Refs
    <3> QED  BY <3>1
  <2> QED  BY <2>1
<1>2. ASSUME NEW b \in used', ~Linked(b)
      PROVE  \E u \in Workers : InHand(u, b)'
  <2>1. b \in Blocks
    BY DEF Inv, TypeOK
  <2>2. CASE b \notin used
    BY <1>2, <2>2 DEF Effect, BlockEffect
  <2>3. CASE Refs(b) # {}
    <3>1. PICK ft \in FT, j \in 1 .. MaxLogical : links[ft][j] = b
      BY <2>3 DEF Refs
    <3>2. b # 0
      BY <1>2, BaseKept, BaseLinked, VolumeAssumption DEF Effect, SameTag
    <3> QED  BY <1>2, <2>1, <3>1, <3>2 DEF Effect, LinkEffect
  <2>4. ASSUME NEW u \in Workers, InHand(u, b)
        PROVE  InHand(u, b)'
    <3>1. CASE u = w
      BY <1>2, <2>1, <2>4, <3>1 DEF Effect, HandEffect, Nowhere
    <3>2. CASE u # w
      BY <2>4, <3>2, OnlyOne DEF Effect, InHand
    <3> QED  BY <3>1, <3>2
  <2> QED  BY <2>2, <2>3, <2>4 DEF BlockInv, VolumeInv, NoBlockLost
<1> QED  BY <1>1, <1>2 DEF NoBlockLost

LEMMA SharedKept ==
  ASSUME Inv, BlockInv, NEW w \in Workers, Effect(w)
  PROVE  SharedIsSettled'
<1>1. ASSUME NEW f \in FT, NEW g \in FT, NEW i \in 1 .. MaxLogical, NEW j \in 1 .. MaxLogical,
             f # g \/ i # j, links'[f][i] = links'[g][j], links'[f][i] \notin {NoBlock, 0}
      PROVE  Settled(f, i)'
  <2>1. PICK b : b = links'[f][i]
    OBVIOUS
  <2>2. b \in Blocks /\ b \notin {NoBlock, 0}
    BY <1>1, <2>1, LinkedTo
  <2>3. Settled(f, i) => Settled(f, i)'
    BY <1>1 DEF Effect, LinkEffect
  <2>4. CASE links[f][i] = b
    <3>1. CASE links[g][j] = b
      BY <1>1, <2>2, <2>3, <2>4, <3>1 DEF BlockInv, VolumeInv, SharedIsSettled
    <3>2. CASE th[w].pc \in {"link", "redirect"} /\ b = th[w].new
      BY <2>4, <3>2, OwnHand DEF Nowhere
    <3>3. CASE th[w].pc = "relink" /\ b = Existing(w)
      BY <2>2, <2>3, <2>4, <3>3, RelinkedTo DEF Sound, SettledRefs
    <3> QED  BY <1>1, <2>1, <2>2, <3>1, <3>2, <3>3, LinkedTo
  <2>5. CASE th[w].pc \in {"link", "redirect"} /\ b = th[w].new
    <3>1. \A ff, gg \in FT : \A ii, jj \in 1 .. MaxLogical :
            links'[ff][ii] = th[w].new /\ links'[gg][jj] = th[w].new => ff = gg /\ ii = jj
      BY <2>5 DEF Effect, LinkEffect
    <3>2. links'[f][i] = th[w].new /\ links'[g][j] = th[w].new
      BY <1>1, <2>1, <2>5
    <3>3. f = g /\ i = j
      BY <3>1, <3>2
    <3> QED  BY <1>1, <3>3
  <2> QED  BY <1>1, <2>1, <2>2, <2>4, <2>5, LinkedTo
<1> QED  BY <1>1 DEF SharedIsSettled

LEMMA IndexKept ==
  ASSUME Inv, Orderly, BlockInv, NEW w \in Workers, Effect(w), CopySound(w)'
  PROVE  IndexSound'
<1>1. ASSUME NEW d \in Data, NEW b, b = hashIndex[d], hashIndex'[d] = b, b # NoBlock
      PROVE  Unhashing(b)' \/ Sound(d, b)'
  <2>1. b \in Blocks
    BY <1>1 DEF Inv, TypeOK
  <2>2. ASSUME NEW u \in Workers, th[u].pc = "unhash", Dooms(u), th[u].blocks[th[u].i] = b
        PROVE  th'[u].pc = "unhash" /\ Dooms(u)' /\ th'[u].blocks[th'[u].i] = b
    <3>1. u # w
      BY <1>1, <2>2 DEF Effect, IndexEffect
    <3> QED  BY <2>2, <3>1, OnlyOne, DoomsKept DEF Effect
  <2>3. CASE Unhashing(b)
    BY <2>2, <2>3 DEF Unhashing
  <2>4. CASE ~Unhashing(b)
    <3>1. Sound(d, b)
      BY <1>1, <2>4 DEF BlockInv, VolumeInv, IndexSound
    <3>2. b # 0 /\ InHand(w, b) => Dooms(w)
      BY <1>1, <2>1, <2>4, Parts DEF HandKnown
    <3>3. Dooms(w) => th[w].pc \notin {"link", "redirect"}
      BY Parts DEF Dooms, Asked
    <3>4. ~OwnBlock(w, b)
      <4>1. CASE th[w].pc = "redirect" /\ th[w].new = b
        BY <3>2, <3>3, <4>1, OwnHand
      <4>2. CASE th[w].pc = "inplace" /\ Written(w) = b
        BY <3>1, <4>2, InPlaceOwn DEF Sound
      <4> QED  BY <3>1, <4>1, <4>2 DEF OwnBlock, Sound
    <3>5. CASE b \notin used'
      <4>1. InHand(w, b) /\ b # 0
        BY <2>1, <3>1, <3>5, FreedNotZero DEF Effect, BlockEffect, Sound
      <4> QED  BY <3>1, <3>2, <3>5, <4>1 DEF Effect, BlockEffect, Sound
    <3>6. CASE b \in used'
      BY <2>1, <3>1, <3>2, <3>3, <3>4, <3>6, SoundKept DEF Effect
    <3> QED  BY <3>5, <3>6
  <2> QED  BY <2>3, <2>4
<1>2. ASSUME NEW d \in Data, NEW b, b = hashIndex'[d], b # NoBlock,
             hashIndex' = th'[w].bhi, th'[w].pc \in LoopPCs
      PROVE  Sound(d, b)'
  <2>1. Sound(d, th[w].bhi[d])'
    BY <1>2 DEF CopySound
  <2>2. b = th'[w].bhi[d]
    BY <1>2
  <2> QED  BY <2>1, <2>2 DEF Sound, SettledRefs
<1>3. ASSUME NEW d \in Data, NEW b, b = hashIndex'[d], b # NoBlock
      PROVE  Unhashing(b)' \/ Sound(d, b)'
  BY <1>1, <1>2, <1>3 DEF Effect, IndexEffect
<1>4. ASSUME NEW d \in Data, hashIndex'[d] # NoBlock
      PROVE  (Unhashing(hashIndex[d]) \/ Sound(d, hashIndex[d]))'
  <2>1. PICK b : b = hashIndex'[d]
    OBVIOUS
  <2>2. Unhashing(b)' \/ Sound(d, b)'
    BY <1>3, <1>4, <2>1
  <2>3. CASE Unhashing(b)'
    BY <2>1, <2>3 DEF Unhashing
  <2>4. CASE Sound(d, b)'
    BY <2>1, <2>4 DEF Sound, SettledRefs
  <2> QED  BY <2>2, <2>3, <2>4
<1>5. ASSUME NEW d \in Data, NEW e \in Data, hashIndex'[d] = hashIndex'[e],
             hashIndex'[d] # NoBlock
      PROVE  d = e
  <2>1. CASE \A c \in Data : hashIndex'[c] \in {hashIndex[c], NoBlock}
    BY <1>5, <2>1 DEF BlockInv, VolumeInv, IndexSound
  <2>2. CASE hashIndex' = th'[w].bhi /\ th'[w].pc \in LoopPCs
    <3>1. PICK b : b = hashIndex'[d]
      OBVIOUS
    <3>2. Sound(d, b)' /\ Sound(e, b)'
      BY <1>2, <1>5, <2>2, <3>1
    <3> QED  BY <3>2 DEF Sound
  <2> QED  BY <2>1, <2>2 DEF Effect, IndexEffect
<1> QED  BY <1>4, <1>5 DEF IndexSound

LEMMA VolumeKept ==
  ASSUME Inv, Inv', Orderly, BlockInv, NEW w \in Workers, Effect(w), CopySound(w)',
         EntryEffect(w), RestEffect(w)
  PROVE  VolumeInv'
  BY CatalogueKept, LinksAtRestKept, AllocatedKept, NoneLost, SharedKept, IndexKept
  DEF VolumeInv, Effect

(* A step of w keeps all of it if it does no more than its effect and its     *)
(* handler still knows what it should.                                        *)
LEMMA StepKept ==
  ASSUME Inv, Inv', Orderly, BlockInv, NEW w \in Workers, Effect(w), EntryEffect(w),
         RestEffect(w), HandlerInv(w)'
  PROVE  BlockInv'
<1>1. \A v \in Workers : HandlerInv(v)'
  BY OthersKept
<1>2. CopySound(w)'
  BY DEF HandlerInv
<1>3. VolumeInv'
  BY <1>2, VolumeKept
<1> QED  BY <1>1, <1>3 DEF BlockInv

-----------------------------------------------------------------------------
(* Steps that change nothing on the volume *)

volume == <<dirs, meta, links, used, content, hashIndex>>

(* A COMMIT is not done with less than before. *)
CommitGoesOn(w) ==
  Works(w)' /\ Op(w) = "COMMIT" =>
    /\ Works(w)
    /\ \/ th'[w].i > th[w].i
       \/ th'[w].i = th[w].i /\ (th[w].pc \in Relinked => th'[w].pc \in Relinked)

LEMMA SettledStays ==
  ASSUME Inv, Inv', NEW w \in Workers, OnlyMoves(w), Works(w)' => th'[w].req = th[w].req,
         CommitGoesOn(w), NEW ft \in FT, meta'[ft] = meta[ft], NEW j \in Int, Settled(ft, j)
  PROVE  Settled(ft, j)'
<1>1. \A u \in Workers : u # w => th'[u] = th[u]
  BY DEF OnlyMoves, Inv, TypeOK
<1>2. \A u \in Workers : th[u].i \in Nat
  BY Typed DEF Thread
<1>3. th'[w].i \in Nat
  BY DEF Inv, TypeOK, Thread
<1>4. ASSUME Works(w)', Op(w)' = "COMMIT", Ft(w)' = ft
      PROVE  j < th'[w].i \/ (j = th'[w].i /\ th'[w].pc \in Relinked)
  <2>1. Op(w) = "COMMIT" /\ Ft(w) = ft /\ Works(w)
    BY <1>4 DEF Op, Ft, CommitGoesOn
  <2>2. j < th[w].i \/ (j = th[w].i /\ th[w].pc \in Relinked)
    BY <2>1 DEF Settled
  <2> QED  BY <1>2, <1>3, <1>4, <2>1, <2>2 DEF CommitGoesOn
<1>5. ASSUME NEW u \in Workers, u # w, Works(u)', Op(u)' = "COMMIT", Ft(u)' = ft
      PROVE  j < th'[u].i \/ (j = th'[u].i /\ th'[u].pc \in Relinked)
  BY <1>1, <1>5 DEF Settled, Works, Op, Ft
<1> QED  BY <1>4, <1>5 DEF Settled

LEMMA LinksSame ==
  ASSUME Inv, Inv', NEW w \in Workers, OnlyMoves(w), Works(w)' => th'[w].req = th[w].req,
         CommitGoesOn(w), links' = links, meta' = meta, th[w].pc \notin {"link", "redirect"}
  PROVE  LinkEffect(w)
  BY SettledStays DEF LinkEffect

LEMMA Silent ==
  ASSUME Inv, Inv', BlockInv, NEW w \in Workers, UNCHANGED volume, OnlyMoves(w),
         Works(w)' => th'[w].req = th[w].req,
         th[w].pc \notin {"link", "redirect", "unhash"}, CommitGoesOn(w), HandEffect(w),
         th'[w].pc \in LoopPCs =>
           \/ th[w].pc \in LoopPCs /\ th'[w].bhi = th[w].bhi
           \/ th[w].pc = "index" /\ th'[w].bhi = hashIndex
  PROVE  Effect(w) /\ EntryEffect(w)
<1>1. \A ft \in FT : SameTag(ft)
  BY DEF SameTag, volume
<1>2. TagEffect(w)
  BY <1>1 DEF TagEffect
<1>3. LinkEffect(w)
  BY LinksSame DEF volume
<1>4. BlockEffect(w)
  BY DEF BlockEffect, volume
<1>5. IndexEffect(w)
  BY DEF IndexEffect, volume
<1>6. Dest(w) \in FT
  BY Typed
<1> QED  BY <1>1, <1>2, <1>3, <1>4, <1>5, <1>6 DEF Effect, EntryEffect, SameTag

(* The positions of a handler that has a block in its hands. *)
HandPCs == {"link", "redirect", "stat", "free", "restat", "refree"}

(* What a handler does not need to know yet. *)
LEMMA Vacuous ==
  ASSUME NEW w \in Workers
  PROVE  /\ th'[w].pc \notin LoopPCs => CopySound(w)' /\ HashKnown(w)'
         /\ th'[w].pc \notin HandPCs => HandKnown(w)' /\ \A b : ~InHand(w, b)'
         /\ th[w].pc \notin HandPCs => \A b : ~InHand(w, b)
         /\ th'[w].req.op # "TAG" => CopyKnown(w)' /\ RoomKnown(w)'
         /\ ~Works(w)' => CopyKnown(w)' /\ RoomKnown(w)' /\ LinksKnown(w)'
  BY PcSets2 DEF CopySound, HashKnown, HandKnown, InHand, HandPCs, CopyKnown, RoomKnown,
                 LinksKnown, Op, Works

LEMMA EarlyKnown ==
  ASSUME NEW w \in Workers, th'[w].pc \in {"idle", "start", "locate", "load"}, Asked(w)'
  PROVE  HandlerInv(w)' /\ ~Works(w)'
<1>1. ~Works(w)' /\ th'[w].pc \notin LoopPCs \cup HandPCs
  BY PcSets2 DEF Works, HandPCs
<1>2. MetaKnown(w)'
  BY <1>1 DEF MetaKnown, Works
<1> QED  BY <1>1, <1>2, Vacuous DEF HandlerInv

LEMMA IdleAsked ==
  ASSUME NEW w \in Workers, th'[w].pc = "idle"
  PROVE  Asked(w)'
  BY PcSets2 DEF Asked

LEMMA BetweenQuiet ==
  ASSUME NEW w \in Workers, th[w].pc \in Between
  PROVE  ~Works(w) /\ th[w].pc \notin HandPCs \cup LoopPCs \cup {"index", "unhash"}
  BY PcSets2, PcSets DEF Works, HandPCs, Between

(* A handler that holds no lock goes on, or ends, and still holds none. *)
LEMMA BetweenKept ==
  ASSUME Inv, Inv', Orderly, BlockInv, NEW w \in Workers, th[w].pc \in Between,
         OnlyMoves(w), th'[w].pc \in {"idle", "start", "locate", "load"}, Asked(w)',
         UNCHANGED volume
  PROVE  BlockInv'
<1>1. HandlerInv(w)' /\ ~Works(w)'
  BY EarlyKnown
<1>2. th'[w].pc \notin HandPCs \cup LoopPCs
  BY PcSets2 DEF HandPCs
<1>3. HandEffect(w)
  BY <1>2, Vacuous, BetweenQuiet DEF HandEffect
<1>4. CommitGoesOn(w)
  BY <1>1 DEF CommitGoesOn
<1>5. Effect(w) /\ EntryEffect(w)
  BY <1>1, <1>2, <1>3, <1>4, BetweenQuiet, Silent DEF HandPCs
<1>6. RestEffect(w)
  BY BetweenQuiet DEF RestEffect
<1> QED  BY <1>1, <1>5, <1>6, StepKept

LEMMA EndsKept ==
  ASSUME Inv, Inv', Orderly, BlockInv, NEW w \in Workers, th[w].pc \in Between,
         th' = [th EXCEPT ![w] = IdleThread], UNCHANGED volume
  PROVE  BlockInv'
<1>1. OnlyMoves(w) /\ th'[w].pc = "idle"
  BY DEF OnlyMoves, IdleThread, Inv, TypeOK
<1> QED  BY <1>1, IdleAsked, BetweenKept

LEMMA RejectKept ==
  ASSUME Inv, Inv', Orderly, BlockInv, NEW w \in Workers, NEW code,
         th[w].pc \in Between, Reject(w, code)
  PROVE  BlockInv'
  BY EndsKept DEF Reject, disk, volume

LEMMA TagRejectedKept ==
  ASSUME Inv, Inv', Orderly, BlockInv, NEW w \in Workers, NEW code,
         th[w].pc \in Between, TagRejected(w, code)
  PROVE  BlockInv'
  BY EndsKept DEF TagRejected, volume

LEMMA ReceiveKept ==
  ASSUME Inv, Inv', Orderly, BlockInv, NEW w \in Workers, Receive(w)
  PROVE  BlockInv'
<1>1. PICK r \in Requests[w] :
        th' = [th EXCEPT ![w].pc =
                 IF r.op \in {"WRITE", "WRITE_NOT_ERROR"} THEN "locate" ELSE "start",
               ![w].req = r]
  BY DEF Receive
<1>2. /\ OnlyMoves(w) /\ th'[w].req = r
      /\ th'[w].pc = IF r.op \in {"WRITE", "WRITE_NOT_ERROR"} THEN "locate" ELSE "start"
  BY <1>1 DEF OnlyMoves, Inv, TypeOK, Thread
<1>3. r.op # "WRITE_NOT_ERROR"
  BY DEF Orderly
<1>4. Asked(w)'
  BY <1>2, <1>3, PcSets2 DEF Asked, Op
<1>5. th[w].pc \in Between
  BY PcSets DEF Receive
<1> QED  BY <1>2, <1>4, <1>5, BetweenKept DEF Receive, disk, volume

LEMMA VolumeSame ==
  ASSUME BlockInv, UNCHANGED <<volume, th, config>>
  PROVE  BlockInv'
<1>1. dirs' = dirs /\ meta' = meta /\ links' = links /\ used' = used /\ content' = content
      /\ hashIndex' = hashIndex /\ th' = th /\ config' = config
  BY DEF volume
<1>2. ASSUME NEW w \in Workers PROVE HandlerInv(w)'
  <2>1. HandlerInv(w)
    BY DEF BlockInv
  <2>2. Asked(w)'
    BY <1>1, <2>1 DEF HandlerInv, Asked, Op
  <2>3. MetaKnown(w)'
    BY <1>1, <2>1 DEF HandlerInv, MetaKnown, Works, Op, Ft, Dest, Written
  <2>4. LinksKnown(w)'
    BY <1>1, <2>1 DEF HandlerInv, LinksKnown, Place, Works, Op, Ft, Dest, Existing
  <2>5. CopySound(w)' /\ HashKnown(w)'
    BY <1>1, <2>1 DEF HandlerInv, CopySound, Sound, SettledRefs, Settled, Works, Op, Ft,
                      HashKnown, Current
  <2>6. HandKnown(w)'
    BY <1>1, <2>1 DEF HandlerInv, HandKnown, InHand, Nowhere, SettledRefs, Settled, Works,
                      Op, Ft, Dooms, Unhashing
  <2>7. CopyKnown(w)' /\ RoomKnown(w)'
    BY <1>1, <2>1 DEF HandlerInv, CopyKnown, RoomKnown, FreeBlocks, Works, Op, Ft, Dest
  <2> QED  BY <2>2, <2>3, <2>4, <2>5, <2>6, <2>7 DEF HandlerInv
<1>3. VolumeInv
  BY DEF BlockInv
<1>4. Catalogue' /\ LinksAtRest' /\ LinkedBlocksAllocated' /\ LinkedWritten'
  BY <1>1, <1>3 DEF VolumeInv, Catalogue, LinksAtRest, AtRest, Works, Dest, Op, Ft,
                    LinkedBlocksAllocated, LinkedWritten
<1>5. NoBlockLost' /\ SharedIsSettled'
  BY <1>1, <1>3 DEF VolumeInv, NoBlockLost, Refs, InHand, SharedIsSettled, Settled, Works,
                    Op, Ft
<1>6. IndexSound'
  BY <1>1, <1>3 DEF VolumeInv, IndexSound, Unhashing, Dooms, Sound, SettledRefs, Settled,
                    Works, Op, Ft
<1> QED  BY <1>2, <1>4, <1>5, <1>6 DEF BlockInv, VolumeInv

LEMMA CrashKept ==
  ASSUME BlockInv, Crash
  PROVE  BlockInv'
  BY VolumeSame DEF Crash, disk, volume

LEMMA AtRestOwn ==
  ASSUME Inv, Orderly, BlockInv, NEW w \in Workers, th[w].pc \in {"start", "enter"},
         Op(w) # "READ"
  PROVE  /\ AtRest(Dest(w)) /\ Dest(w) \in FT /\ Ft(w) \in FT
         /\ th[w].req \in Requests[w] /\ ~Works(w)
         /\ \A j \in 1 .. MaxLogical : links[Dest(w)][j] = Entry(meta[Dest(w)].blocks, j)
<1>1. th[w].req \in Requests[w] /\ ~Works(w)
  BY Parts, PcSets2 DEF Asked, Works
<1>2. ASSUME NEW u \in Workers, Works(u), Dest(u) = Dest(w)
      PROVE  FALSE
  <2>1. u # w /\ Dest(u) # Base /\ th[u].req \in Requests[u] /\ Op(u) # "READ"
    BY <1>1, <1>2, Parts, WorkOp DEF MetaKnown
  <2> QED  BY <1>1, <1>2, <2>1, Separate
<1>3. Dest(w) \in FT /\ Ft(w) \in FT
  BY Typed
<1> QED  BY <1>1, <1>2, <1>3 DEF AtRest, BlockInv, VolumeInv, LinksAtRest

(* A handler that has just taken its lock knows what it has read. *)
LEMMA StartKept ==
  ASSUME Inv, Inv', Orderly, BlockInv, NEW w \in Workers, th[w].pc \in {"start", "enter"},
         UNCHANGED volume, OnlyMoves(w), th'[w].req = th[w].req, Op(w) # "READ",
         th'[w].pc \in LockedPCs \ (LoopPCs \cup HandPCs), Op(w) # "COMMIT",
         Asked(w)', MetaKnown(w)', CopyKnown(w)', RoomKnown(w)',
         th'[w].blocks = meta[Dest(w)].blocks, Op(w) = "DELETE" => th'[w].i = 1,
         th'[w].pc # "unhash"
  PROVE  BlockInv'
<1>1. HandEffect(w)
  BY Vacuous, BetweenQuiet, PcSets DEF HandEffect
<1>2. ~Works(w)
  BY AtRestOwn
<1>3. Effect(w) /\ EntryEffect(w)
  BY <1>1, <1>2, PcSets2, Silent DEF CommitGoesOn, HandPCs
<1>4. RestEffect(w)
  BY <1>2 DEF RestEffect
<1>5. \A j \in 1 .. MaxLogical : Place(w, j)' = Entry(meta[Dest(w)].blocks, j)
  <2>1. th'[w].pc \notin {"stat", "free", "unhash"} \cup Relinked
    BY PcSets2 DEF HandPCs
  <2>2. \A j \in 1 .. MaxLogical : Op(w) = "DELETE" => ~(j < th'[w].i)
    OBVIOUS
  <2> QED  BY <2>1, <2>2 DEF Place, Entry, Op
<1>6. LinksKnown(w)'
  BY <1>5, AtRestOwn DEF LinksKnown, Dest, Op, Ft, volume
<1>7. CopySound(w)' /\ HashKnown(w)' /\ HandKnown(w)'
  BY Vacuous
<1>8. HandlerInv(w)'
  BY <1>6, <1>7 DEF HandlerInv
<1> QED  BY <1>3, <1>4, <1>8, StepKept

LEMMA CreateStartKept ==
  ASSUME Inv, Inv', Orderly, BlockInv, NEW w \in Workers, CreateStart(w)
  PROVE  BlockInv'
<1>1. /\ th[w].pc = "start" /\ Op(w) = "CREATE" /\ Ft(w) \notin dirs /\ Dest(w) = Ft(w)
      /\ th' = [th EXCEPT ![w].pc = "mkdir", ![w].size = BlockSize]
      /\ UNCHANGED <<volume, config>>
  BY DEF CreateStart, Begins, Dest, disk, volume
<1>2. /\ OnlyMoves(w) /\ th'[w].pc = "mkdir" /\ th'[w].req = th[w].req
      /\ th'[w].blocks = <<>>
  <2>1. OnlyMoves(w) /\ th'[w] = [th[w] EXCEPT !.pc = "mkdir", !.size = BlockSize]
    BY <1>1, Threads DEF OnlyMoves
  <2>2. th[w].blocks = <<>>
    BY <1>1, Typed DEF WellShaped
  <2> QED  BY <2>1, <2>2, Typed DEF Thread
<1>3. Catalogue /\ Ft(w) \in FT
  BY Typed DEF BlockInv, VolumeInv
<1>4. meta[Ft(w)] = NoMeta /\ meta[Ft(w)].blocks = <<>> /\ Ft(w) # Base
  BY <1>1, <1>3 DEF Catalogue, NoMeta
<1>5. Asked(w)'
  BY <1>1, <1>2, AtRestOwn, PcSets2 DEF Asked, Op
<1>6. MetaKnown(w)'
  BY <1>1, <1>2, <1>4, PcSets2 DEF MetaKnown, Works, Op, Ft, Dest, volume
<1>7. th'[w].req.op # "TAG" /\ th'[w].pc \in LockedPCs \ (LoopPCs \cup HandPCs)
  BY <1>1, <1>2, PcSets2 DEF Op, HandPCs
<1> QED  BY <1>1, <1>2, <1>4, <1>5, <1>6, <1>7, Vacuous, StartKept

LEMMA LoadedState ==
  ASSUME Inv, BlockInv, NEW w \in Workers, meta[Ft(w)] # NoMeta
  PROVE  /\ Ft(w) \in FT /\ Ft(w) \in dirs
         /\ meta[Ft(w)].state \in {"WORK_IN_PROGRESS", "COMMITED"}
         /\ meta[Base].state = "COMMITED"
         /\ meta[Ft(w)].blocks \in Seq(Blocks)
         /\ Len(meta[Ft(w)].blocks) <= MaxLogical
  BY Typed, LoadedMeta DEF BlockInv, VolumeInv, Catalogue, BaseMeta, Meta

LEMMA TruncateStartKept ==
  ASSUME Inv, Inv', Orderly, BlockInv, NEW w \in Workers, TruncateStart(w)
  PROVE  BlockInv'
<1>1. PICK n, i :
        \E l \in {"grow", "unlink", "open"} :
          th' = [th EXCEPT ![w].pc = l, ![w].size = n, ![w].blocks = meta[Ft(w)].blocks,
                           ![w].i = i]
  BY DEF TruncateStart
<1>2. /\ th[w].pc = "start" /\ Op(w) = "TRUNCATE" /\ meta[Ft(w)] # NoMeta /\ Dest(w) = Ft(w)
      /\ meta[Ft(w)].state # "COMMITED" /\ UNCHANGED <<volume, config>>
  BY DEF TruncateStart, Loaded, Begins, Dest, disk, volume
<1>3. /\ OnlyMoves(w) /\ th'[w].pc \in {"grow", "unlink", "open"} /\ th'[w].req = th[w].req
      /\ th'[w].blocks = meta[Ft(w)].blocks
  <2>1. PICK l \in {"grow", "unlink", "open"} :
          th' = [th EXCEPT ![w].pc = l, ![w].size = n, ![w].blocks = meta[Ft(w)].blocks,
                           ![w].i = i]
    BY <1>1
  <2> QED  BY <2>1 DEF OnlyMoves, Inv, TypeOK, Thread
<1>4. Asked(w)'
  BY <1>2, <1>3, AtRestOwn, PcSets2 DEF Asked, Op
<1>5. MetaKnown(w)'
  BY <1>2, <1>3, LoadedState, PcSets2 DEF MetaKnown, Works, Op, Ft, Dest, volume
<1>6. th'[w].req.op # "TAG" /\ th'[w].pc \in LockedPCs \ (LoopPCs \cup HandPCs)
  BY <1>2, <1>3, PcSets2 DEF Op, HandPCs
<1> QED  BY <1>2, <1>3, <1>4, <1>5, <1>6, Vacuous, StartKept

LEMMA DeleteStartKept ==
  ASSUME Inv, Inv', Orderly, BlockInv, NEW w \in Workers, DeleteStart(w)
  PROVE  BlockInv'
<1>1. PICK l \in {"rmdir", "unlink"} :
        /\ th' = [th EXCEPT ![w].pc = l, ![w].blocks = meta[Ft(w)].blocks, ![w].i = 1]
        /\ l = "rmdir" => meta[Ft(w)].blocks = <<>>
  BY DEF DeleteStart
<1>2. /\ th[w].pc = "start" /\ Op(w) = "DELETE" /\ meta[Ft(w)] # NoMeta /\ Dest(w) = Ft(w)
      /\ UNCHANGED <<volume, config>>
  BY DEF DeleteStart, Loaded, Begins, Dest, disk, volume
<1>3. /\ OnlyMoves(w) /\ th'[w].pc = l /\ th'[w].req = th[w].req /\ th'[w].i = 1
      /\ th'[w].blocks = meta[Ft(w)].blocks
  BY <1>1 DEF OnlyMoves, Inv, TypeOK, Thread
<1>4. Asked(w)' /\ Ft(w) # Base
  BY <1>2, <1>3, AtRestOwn, PcSets2 DEF Asked, Op, Orderly, Ft
<1>5. l = "rmdir" => th'[w].i = Len(th'[w].blocks) + 1
  BY <1>1, <1>3
<1>6. MetaKnown(w)'
  BY <1>2, <1>3, <1>4, <1>5, LoadedState, PcSets2 DEF MetaKnown, Works, Op, Ft, Dest, volume
<1>7. th'[w].req.op # "TAG" /\ th'[w].pc \in LockedPCs \ (LoopPCs \cup HandPCs)
  BY <1>2, <1>3, PcSets2 DEF Op, HandPCs
<1> QED  BY <1>2, <1>3, <1>4, <1>6, <1>7, Vacuous, StartKept

LEMMA TagStartKept ==
  ASSUME Inv, Inv', Orderly, BlockInv, NEW w \in Workers, TagStart(w)
  PROVE  BlockInv'
<1>1. /\ th[w].pc = "start" /\ Op(w) = "TAG" /\ meta[Ft(w)] # NoMeta /\ Dest(w) \notin dirs
      /\ th' = [th EXCEPT ![w].pc = "mkdir", ![w].size = meta[Ft(w)].size,
                          ![w].orig = meta[Ft(w)].blocks, ![w].i = 1]
      /\ Len(meta[Ft(w)].blocks) <= Cardinality(FreeBlocks)
      /\ UNCHANGED <<volume, config>>
  BY DEF TagStart, Loaded, Begins, disk, volume
<1>2. /\ OnlyMoves(w) /\ th'[w].pc = "mkdir" /\ th'[w].req = th[w].req
      /\ th'[w].blocks = <<>> /\ th'[w].orig = meta[Ft(w)].blocks
  BY <1>1, Typed DEF OnlyMoves, Inv, TypeOK, Thread, WellShaped
<1>3. Catalogue /\ Dest(w) \in FT
  BY Typed DEF BlockInv, VolumeInv
<1>4. meta[Dest(w)] = NoMeta /\ meta[Dest(w)].blocks = <<>> /\ Dest(w) # Base
  BY <1>1, <1>3 DEF Catalogue, NoMeta
<1>5. Asked(w)'
  BY <1>1, <1>2, AtRestOwn, PcSets2 DEF Asked, Op
<1>6. Dest(w)' = Dest(w) /\ Ft(w)' = Ft(w) /\ Op(w)' = Op(w) /\ Works(w)'
  BY <1>2, PcSets2 DEF Dest, Ft, Op, Works
<1>7. dirs' = dirs /\ meta' = meta
  BY <1>1 DEF volume
<1>8. MetaKnown(w)'
  BY <1>1, <1>2, <1>4, <1>6, <1>7, PcSets2 DEF MetaKnown
<1>9. Ft(w) # Dest(w) /\ Len(meta[Ft(w)].blocks) \in Nat
  BY <1>1, LoadedState
<1>10. CopyKnown(w)'
  <2>1. th'[w].pc \notin {"link", "open", "close"} /\ DOMAIN th'[w].blocks = {}
        /\ Len(th'[w].blocks) = 0
    BY <1>2
  <2> QED  BY <1>2, <1>9, <1>6, <1>7, <2>1 DEF CopyKnown
<1>11. RoomKnown(w)'
  <2>1. CASE Ft(w) = Base
    <3>1. Len(meta[Ft(w)].blocks) = 1
      BY <1>3, <2>1 DEF Catalogue, BaseMeta
    <3> QED  BY <1>2, <3>1 DEF RoomKnown
  <2>2. CASE Ft(w) # Base
    <3>1. \A v \in Workers : v # w => ~Allocates(v)
      BY <1>1, <2>2, AtRestOwn DEF Orderly, RoomForTags, Op, Ft
    <3>2. FreeBlocks' = FreeBlocks
      BY <1>1 DEF FreeBlocks, volume
    <3>3. Cardinality(FreeBlocks) \in Nat
      BY FreeIsFinite DEF FreeBlocks
    <3> QED  BY <1>1, <1>2, <1>9, <3>1, <3>2, <3>3 DEF RoomKnown
  <2> QED  BY <2>1, <2>2
<1>12. th'[w].pc \in LockedPCs \ (LoopPCs \cup HandPCs)
  BY <1>2, PcSets2 DEF HandPCs
<1> QED  BY <1>1, <1>2, <1>4, <1>5, <1>8, <1>10, <1>11, <1>12, StartKept

-----------------------------------------------------------------------------
(* WRITE_BLOCK *)

(* A handler of another operation than TAG with no block in its hands and no  *)
(* copy of the index.                                                         *)
LEMMA PlainKnown ==
  ASSUME NEW w \in Workers, th'[w].pc \in LockedPCs \ (LoopPCs \cup HandPCs),
         Op(w)' # "TAG", Asked(w)', MetaKnown(w)', LinksKnown(w)'
  PROVE  HandlerInv(w)'
<1>1. CopyKnown(w)' /\ RoomKnown(w)'
  BY Vacuous DEF Op
<1>2. CopySound(w)' /\ HashKnown(w)' /\ HandKnown(w)'
  BY Vacuous
<1> QED  BY <1>1, <1>2 DEF HandlerInv

LEMMA WriteLoadKept ==
  ASSUME Inv, Inv', Orderly, BlockInv, NEW w \in Workers, WriteLoad(w)
  PROVE  BlockInv'
<1>1. /\ th[w].pc = "load" /\ UNCHANGED <<volume, config>>
      /\ meta[Ft(w)].state = "WORK_IN_PROGRESS" /\ WithinBounds(w)
      /\ th' = [th EXCEPT ![w].pc = "enter", ![w].blocks = meta[Ft(w)].blocks,
                          ![w].size = meta[Ft(w)].size]
  BY DEF WriteLoad, At, disk, volume
<1>2. /\ OnlyMoves(w) /\ th'[w].pc = "enter" /\ th'[w].req = th[w].req
      /\ th'[w].blocks = meta[Ft(w)].blocks
  BY <1>1 DEF OnlyMoves, Inv, TypeOK, Thread
<1>3. th[w].pc \in Between /\ Op(w) = "WRITE" /\ th[w].req \in Requests[w]
  BY <1>1, PcSets, Parts DEF Asked
<1>4. ~Works(w)' /\ th'[w].pc \notin HandPCs \cup LoopPCs
  BY <1>2, PcSets2 DEF HandPCs, Works
<1>5. HandEffect(w) /\ CommitGoesOn(w)
  BY <1>3, <1>4, Vacuous, BetweenQuiet DEF HandEffect, CommitGoesOn
<1>6. Effect(w) /\ EntryEffect(w) /\ RestEffect(w)
  BY <1>1, <1>2, <1>3, <1>4, <1>5, BetweenQuiet, Silent DEF RestEffect, HandPCs
<1>7. th[w].req.n \in DOMAIN meta[Ft(w)].blocks
  <2>1. th[w].req.n \in 1 .. MaxLogical
    BY <1>3, RequestsAssumption DEF Op
  <2>2. PICK n : n = th[w].req.n
    OBVIOUS
  <2>3. n <= Len(meta[Ft(w)].blocks)
    BY <1>1, <1>3, <2>2 DEF WithinBounds, Reports
  <2> QED  BY <2>1, <2>2, <2>3, LoadedMeta, VolumeAssumption
<1>8. Asked(w)'
  BY <1>2, <1>3, PcSets2 DEF Asked, Op
<1>9. MetaKnown(w)'
  BY <1>1, <1>2, <1>3, <1>4, <1>7 DEF MetaKnown, Op, Ft, volume
<1>10. HandlerInv(w)'
  BY <1>4, <1>8, <1>9, Vacuous DEF HandlerInv
<1> QED  BY <1>6, <1>10, StepKept

(* What a WRITE knows of its own File:Tag. *)
LEMMA WriteKnown ==
  ASSUME Inv, BlockInv, NEW w \in Workers, th[w].pc \in {"inplace", "cow", "redirect"}
  PROVE  /\ Works(w) /\ Op(w) = "WRITE" /\ Dest(w) = Ft(w) /\ Ft(w) \in FT /\ Ft(w) # Base
         /\ Ft(w) \in dirs /\ meta[Ft(w)].state = "WORK_IN_PROGRESS"
         /\ th[w].req \in Requests[w] /\ th[w].req.d \in Data
         /\ th[w].blocks \in Seq(Blocks) /\ Len(th[w].blocks) <= MaxLogical
         /\ th[w].req.n \in DOMAIN th[w].blocks /\ th[w].req.n \in 1 .. MaxLogical
         /\ meta[Ft(w)].blocks = th[w].blocks
         /\ Written(w) = th[w].blocks[th[w].req.n]
         /\ \A j \in 1 .. MaxLogical : links[Ft(w)][j] = Entry(th[w].blocks, j)
<1>1. Works(w) /\ Op(w) = "WRITE" /\ Dest(w) = Ft(w) /\ th[w].req \in Requests[w]
  BY PcSets2, Parts DEF Works, Asked, Dest
<1>2. /\ Ft(w) \in FT /\ Ft(w) # Base /\ Ft(w) \in dirs
      /\ meta[Ft(w)].state = "WORK_IN_PROGRESS"
      /\ meta[Ft(w)].blocks = th[w].blocks /\ th[w].req.n \in DOMAIN th[w].blocks
  BY <1>1, Parts, Typed DEF MetaKnown
<1>3. /\ th[w].blocks \in Seq(Blocks) /\ Len(th[w].blocks) <= MaxLogical
      /\ th[w].req.d \in Data
  BY Typed DEF Thread, WellShaped, Request
<1>4. th[w].req.n \in 1 .. MaxLogical
  <2>1. PICK n : n = th[w].req.n
    OBVIOUS
  <2> QED  BY <1>2, <1>3, <2>1, VolumeAssumption
<1>5. \A j \in 1 .. MaxLogical : links[Ft(w)][j] = Entry(th[w].blocks, j)
  BY <1>1, Parts, PcSets2 DEF LinksKnown, Place, Entry
<1> QED  BY <1>1, <1>2, <1>3, <1>4, <1>5 DEF Written, BlockAt

LEMMA WriteEnterKept ==
  ASSUME Inv, Inv', Orderly, BlockInv, NEW w \in Workers, WriteEnter(w)
  PROVE  BlockInv'
<1>1. CASE Reject(w, "NONE")
  BY <1>1, RejectKept, PcSets DEF WriteEnter, At
<1>2. CASE ~Reject(w, "NONE")
  <2>1. PICK l : l = IF Exclusive(Written(w)) THEN "inplace" ELSE "cow"
    OBVIOUS
  <2>2. /\ th[w].pc = "enter" /\ UNCHANGED <<volume, config>>
        /\ Refs(Written(w)) # {} /\ Goto(w, l)
    BY <1>2, <2>1 DEF WriteEnter, At, disk, volume
  <2>3. OnlyMoves(w) /\ th'[w] = [th[w] EXCEPT !.pc = l]
    BY <2>2 DEF Goto, OnlyMoves, Inv, TypeOK
  <2>4. th[w] \in Thread
    BY Typed
  <2>5. th'[w].pc = l /\ th'[w].req = th[w].req /\ th'[w].blocks = th[w].blocks
    BY <2>3, <2>4 DEF Thread
  <2>6. /\ Op(w) = "WRITE" /\ Dest(w) = Ft(w) /\ meta[Ft(w)].state = "WORK_IN_PROGRESS"
        /\ meta[Ft(w)].blocks = th[w].blocks /\ th[w].req.n \in DOMAIN th[w].blocks
    BY <2>2, Parts DEF Asked, MetaKnown, Dest
  <2>7. PICK n : n = th[w].req.n
    OBVIOUS
  <2>8. PICK b : b = Written(w)
    OBVIOUS
  <2>9. n \in 1 .. MaxLogical /\ b \in Blocks /\ b = th[w].blocks[n] /\ links[Ft(w)][n] = b
    <3>1. th[w].blocks \in Seq(Blocks) /\ Len(th[w].blocks) <= MaxLogical
      BY <2>4, Typed DEF Thread, WellShaped
    <3>2. n \in 1 .. MaxLogical /\ b \in Blocks /\ b = th[w].blocks[n]
      BY <2>6, <2>7, <2>8, <3>1, VolumeAssumption DEF Written, BlockAt
    <3> QED  BY <2>2, <2>6, <2>7, <3>2, AtRestOwn DEF Entry
  <2>10. Ft(w) \in FT /\ Ft(w) \in dirs /\ Ft(w) # Base
    <3>1. meta[Ft(w)] # NoMeta
      BY <2>6 DEF NoMeta
    <3> QED  BY <2>6, <3>1, LoadedState
  <2>11. Exclusive(b) => b # 0
    <3>1. <<Ft(w), n>> \in Refs(b)
      BY <2>9, <2>10 DEF Refs
    <3>2. b = 0 => <<Base, 1>> \in Refs(b)
      BY BaseLinked, VolumeAssumption DEF Refs
    <3>3. <<Ft(w), n>> # <<Base, 1>>
      BY <2>10
    <3> QED  BY <3>1, <3>2, <3>3 DEF Exclusive
  <2>12. ~Exclusive(b) => b = 0
    <3>1. <<Ft(w), n>> \in Refs(b)
      BY <2>9, <2>10 DEF Refs
    <3>2. ASSUME ~Exclusive(b), b # 0 PROVE FALSE
      <4>1. PICK q \in Refs(b) : q # <<Ft(w), n>>
        BY <3>1, <3>2 DEF Exclusive
      <4>2. PICK g \in FT, j \in 1 .. MaxLogical : q = <<g, j>> /\ links[g][j] = b
        BY <4>1 DEF Refs
      <4>3. Settled(Ft(w), n)
        <5>1. Ft(w) # g \/ n # j
          BY <4>1, <4>2
        <5>2. b \notin {NoBlock, 0}
          BY <2>9, <3>2 DEF Blocks, NoBlock
        <5> QED  BY <2>9, <2>10, <4>2, <5>1, <5>2 DEF BlockInv, VolumeInv, SharedIsSettled
      <4> QED  BY <2>6, <4>3 DEF Settled
    <3> QED  BY <3>2
  <2>13. Written(w)' = b
    BY <2>5, <2>8 DEF Written
  <2>14. Asked(w)'
    BY <2>1, <2>2, <2>5, <2>6, Parts, PcSets2 DEF Asked, Op
  <2>15. MetaKnown(w)'
    BY <2>1, <2>2, <2>5, <2>6, <2>8, <2>10, <2>11, <2>12, <2>13, PcSets2
    DEF MetaKnown, Works, Op, Ft, Dest, volume
  <2>16. th'[w].pc \in LockedPCs \ (LoopPCs \cup HandPCs) /\ th'[w].pc # "unhash"
         /\ th'[w].req.op # "TAG"
    BY <2>1, <2>5, <2>6, PcSets2 DEF HandPCs, Op
  <2> QED  BY <2>2, <2>3, <2>5, <2>6, <2>14, <2>15, <2>16, Vacuous, StartKept
<1> QED  BY <1>1, <1>2

LEMMA WriteInPlaceKept ==
  ASSUME Inv, Inv', Orderly, BlockInv, NEW w \in Workers, WriteInPlace(w)
  PROVE  BlockInv'
<1>1. /\ th[w].pc = "inplace" /\ Goto(w, "open") /\ config' = config
      /\ content' = [content EXCEPT ![Written(w)] = th[w].req.d]
      /\ UNCHANGED <<dirs, meta, links, used, hashIndex>>
  BY DEF WriteInPlace, At
<1>2. OnlyMoves(w) /\ th'[w] = [th[w] EXCEPT !.pc = "open"]
  BY <1>1 DEF Goto, OnlyMoves, Inv, TypeOK
<1>3. /\ th'[w].pc = "open" /\ th'[w].req = th[w].req /\ th'[w].blocks = th[w].blocks
  BY <1>2, Typed DEF Thread
<1>4. Works(w) /\ Op(w) = "WRITE" /\ Dest(w) = Ft(w) /\ Works(w)'
  BY <1>1, <1>3, WriteKnown, PcSets2 DEF Works
<1>5. ~(th[w].pc \in HandPCs) /\ th'[w].pc \notin HandPCs \cup LoopPCs
  BY <1>1, <1>3, PcSets2 DEF HandPCs
<1>6. TagEffect(w) /\ EntryEffect(w)
  BY <1>1, <1>2, <1>3, Typed DEF TagEffect, EntryEffect, SameTag
<1>7. LinkEffect(w)
  BY <1>1, <1>2, <1>3, <1>4, LinksSame DEF CommitGoesOn
<1>8. BlockEffect(w)
  BY <1>1, WriteKnown DEF BlockEffect, OwnBlock, Inv, TypeOK
<1>9. IndexEffect(w)
  BY <1>1, <1>5 DEF IndexEffect
<1>10. HandEffect(w) /\ RestEffect(w)
  BY <1>4, <1>5, Vacuous DEF HandEffect, RestEffect
<1>11. Asked(w)'
  BY <1>3, <1>4, WorkOp, Parts, PcSets2 DEF Asked, Op
<1>12. MetaKnown(w)'
  BY <1>1, <1>3, <1>4, WriteKnown, PcSets2 DEF MetaKnown, Works, Op, Ft, Dest
<1>13. LinksKnown(w)'
  BY <1>1, <1>3, <1>4, WriteKnown, PcSets2 DEF LinksKnown, Place, Entry, Works, Op, Ft, Dest
<1>14. HandlerInv(w)'
  BY <1>3, <1>4, <1>5, <1>11, <1>12, <1>13, PlainKnown, PcSets2 DEF Op
<1> QED  BY <1>6, <1>7, <1>8, <1>9, <1>10, <1>14, StepKept DEF Effect

(* A free block that a handler has taken is in its hands alone. *)
LEMMA TakenKnown ==
  ASSUME Inv, Orderly, BlockInv, NEW w \in Workers, TagEffect(w), links' = links,
         hashIndex' = hashIndex, NEW b \in Blocks \ used, b \in used',
         \A c : InHand(w, c)' => c = b, th[w].pc # "unhash",
         th'[w].pc \in {"link", "redirect"}, content'[b] \in Data
  PROVE  HandKnown(w)'
<1>1. \A u \in Workers : u # w => th'[u] = th[u]
  BY OnlyOne
<1>2. b # NoBlock /\ b # 0
  BY BaseLinked DEF Blocks, NoBlock
<1>3. Nowhere(b)'
  BY <1>2 DEF BlockInv, VolumeInv, LinkedBlocksAllocated, Nowhere
<1>4. ASSUME NEW u \in Workers, u # w PROVE ~InHand(u, b)'
  <2>1. ~InHand(u, b)
    BY Parts DEF HandKnown
  <2> QED  BY <1>1, <1>4, <2>1 DEF InHand
<1>5. ASSUME NEW u \in Workers, th'[u].pc \in LoopPCs, NEW d \in Data
      PROVE  th'[u].bhi[d] # b
  <2>1. u # w
    BY <1>5, PcSets2
  <2>2. th[u].bhi[d] = b => Sound(d, b)
    BY <1>1, <1>2, <1>5, <2>1, Parts DEF CopySound
  <2> QED  BY <1>1, <2>1, <2>2 DEF Sound
<1>6. ASSUME NEW d \in Data, hashIndex'[d] = b PROVE Unhashing(b)'
  <2>1. Unhashing(b)
    BY <1>2, <1>6 DEF BlockInv, VolumeInv, IndexSound, Sound
  <2>2. PICK u \in Workers : th[u].pc = "unhash" /\ Dooms(u) /\ th[u].blocks[th[u].i] = b
    BY <2>1 DEF Unhashing
  <2>3. th'[u] = th[u] /\ Dooms(u)'
    BY <1>1, <2>2, DoomsKept
  <2> QED  BY <2>2, <2>3 DEF Unhashing
<1>7. ASSUME NEW c \in Blocks, InHand(w, c)'
      PROVE  /\ c \in used' /\ Nowhere(c)' /\ content'[c] \in Data
             /\ \A u \in Workers : u # w => ~InHand(u, c)'
             /\ \A u \in Workers : th'[u].pc \in LoopPCs => \A d \in Data : th'[u].bhi[d] # c
             /\ \A d \in Data : hashIndex'[d] = c => Unhashing(c)'
  <2>1. c = b
    BY <1>7
  <2> QED  BY <1>3, <1>4, <1>5, <1>6, <2>1
<1> QED  BY <1>7 DEF HandKnown

(* A free block is taken and another one is copied into it. *)
LEMMA CloneEffect ==
  ASSUME Inv, Inv', Orderly, BlockInv, NEW w \in Workers, th[w].pc \in {"clone", "cow"},
         NEW b \in Blocks, NEW src, CloneInto(b, src), NEW l \in {"link", "redirect"},
         th' = [th EXCEPT ![w].pc = l, ![w].new = b],
         UNCHANGED <<dirs, meta, links, hashIndex, config>>
  PROVE  /\ Effect(w) /\ EntryEffect(w) /\ RestEffect(w) /\ HandKnown(w)'
         /\ th'[w] = [th[w] EXCEPT !.pc = l, !.new = b]
         /\ b \in FreeBlocks /\ used' = used \cup {b}
         /\ content'[b] \in BufferOf(src) /\ \A c \in Blocks : c # b => content'[c] = content[c]
<1>1. OnlyMoves(w) /\ th'[w] = [th[w] EXCEPT !.pc = l, !.new = b]
  BY DEF OnlyMoves, Inv, TypeOK
<1>2. th'[w].pc = l /\ th'[w].new = b /\ th'[w].req = th[w].req
  BY DEF Inv, TypeOK, Thread
<1>3. /\ b \in FreeBlocks /\ used' = used \cup {b} /\ content'[b] \in BufferOf(src)
      /\ \A c \in Blocks : c # b => content'[c] = content[c]
  BY DEF CloneInto, IsFirstFree, Inv, TypeOK
<1>4. content'[b] \in Data /\ b \in Blocks \ used /\ b \in used'
  BY <1>3 DEF BufferOf, FreeBlocks
<1>5. Works(w) /\ Works(w)' /\ Op(w) \in {"TAG", "WRITE"} /\ th[w].req \in Requests[w]
  BY <1>2, Parts, PcSets2 DEF Works, Asked
<1>6. th[w].pc \notin HandPCs /\ \A c : InHand(w, c)' <=> c = b
  BY <1>2 DEF HandPCs, InHand
<1>7. TagEffect(w) /\ EntryEffect(w) /\ RestEffect(w)
  BY <1>1, <1>2, <1>5, Typed DEF TagEffect, EntryEffect, SameTag, RestEffect
<1>8. LinkEffect(w)
  BY <1>1, <1>2, <1>5, LinksSame DEF CommitGoesOn
<1>9. BlockEffect(w)
  BY <1>3, <1>4, <1>5, <1>6 DEF BlockEffect, OwnBlock, Allocates, Op
<1>10. IndexEffect(w)
  BY <1>2, PcSets2 DEF IndexEffect
<1>11. HandEffect(w)
  BY <1>4, <1>6, Vacuous DEF HandEffect
<1>12. HandKnown(w)'
  BY <1>2, <1>4, <1>6, <1>7, TakenKnown
<1> QED  BY <1>1, <1>3, <1>7, <1>8, <1>9, <1>10, <1>11, <1>12 DEF Effect

LEMMA WriteCloneKept ==
  ASSUME Inv, Inv', Orderly, BlockInv, NEW w \in Workers, WriteClone(w)
  PROVE  BlockInv'
<1>1. th[w].pc = "cow" /\ UNCHANGED <<dirs, meta, links, hashIndex, config>>
  BY DEF WriteClone, At
<1>2. PICK b \in Blocks : /\ CloneInto(b, Written(w))
                          /\ th' = [th EXCEPT ![w].pc = "redirect", ![w].new = b]
  BY DEF WriteClone
<1>3. /\ Effect(w) /\ EntryEffect(w) /\ RestEffect(w) /\ HandKnown(w)'
      /\ th'[w] = [th[w] EXCEPT !.pc = "redirect", !.new = b]
  BY <1>1, <1>2, CloneEffect
<1>4. /\ th'[w].pc = "redirect" /\ th'[w].req = th[w].req /\ th'[w].blocks = th[w].blocks
  BY <1>3, Typed DEF Thread
<1>5. Works(w) /\ Op(w) = "WRITE" /\ Dest(w) = Ft(w) /\ Works(w)'
  BY <1>1, <1>4, WriteKnown, PcSets2 DEF Works
<1>6. Asked(w)'
  BY <1>4, <1>5, WorkOp, Parts, PcSets2 DEF Asked, Op
<1>7. Written(w)' = Written(w) /\ Written(w) = 0
  BY <1>1, <1>4, Parts DEF Written, MetaKnown
<1>8. MetaKnown(w)'
  BY <1>1, <1>4, <1>5, <1>7, WriteKnown, PcSets2 DEF MetaKnown, Works, Op, Ft, Dest
<1>9. LinksKnown(w)'
  BY <1>1, <1>4, <1>5, WriteKnown, PcSets2 DEF LinksKnown, Place, Entry, Works, Op, Ft, Dest
<1>10. CopyKnown(w)' /\ RoomKnown(w)' /\ CopySound(w)' /\ HashKnown(w)'
  BY <1>4, <1>5, Vacuous, PcSets2 DEF Op
<1> QED  BY <1>3, <1>6, <1>8, <1>9, <1>10, StepKept DEF HandlerInv

(* The handler ends, and its File:Tag is at rest. *)
LEMMA FinishKept ==
  ASSUME Inv, Inv', Orderly, BlockInv, NEW w \in Workers, UNCHANGED volume,
         th' = [th EXCEPT ![w] = IdleThread], Works(w),
         th[w].pc \notin HandPCs \cup {"unhash"},
         \A j \in 1 .. MaxLogical : Place(w, j) = Entry(meta[Dest(w)].blocks, j)
  PROVE  BlockInv'
<1>1. OnlyMoves(w) /\ th'[w].pc = "idle"
  BY DEF OnlyMoves, IdleThread, Inv, TypeOK
<1>2. ~Works(w)' /\ th'[w].pc \notin HandPCs \cup LoopPCs
  BY <1>1, PcSets2 DEF Works, HandPCs
<1>3. HandEffect(w)
  BY <1>2, Vacuous DEF HandEffect
<1>4. Effect(w) /\ EntryEffect(w)
  BY <1>1, <1>2, <1>3, Silent DEF CommitGoesOn, HandPCs
<1>5. RestEffect(w)
  BY Parts DEF RestEffect, LinksKnown, volume
<1>6. HandlerInv(w)'
  BY <1>1, IdleAsked, EarlyKnown
<1> QED  BY <1>4, <1>5, <1>6, StepKept

LEMMA WriteCloneFailsKept ==
  ASSUME Inv, Inv', Orderly, BlockInv, NEW w \in Workers, WriteCloneFails(w)
  PROVE  BlockInv'
<1>1. th[w].pc = "cow" /\ UNCHANGED volume /\ th' = [th EXCEPT ![w] = IdleThread]
  BY DEF WriteCloneFails, At, Finish, disk, volume
<1>2. \A j \in 1 .. MaxLogical : Place(w, j) = Entry(meta[Dest(w)].blocks, j)
  BY <1>1, WriteKnown, PcSets2 DEF Place, Entry
<1> QED  BY <1>1, <1>2, WriteKnown, FinishKept DEF HandPCs

LEMMA NoUnlinkFails ==
  ASSUME Orderly, NEW ls, NEW ft, NEW i
  PROVE  Unlinked(ls, ft, i) = {WithoutLink(ls, ft, i)}
  BY DEF Orderly, Unlinked

LEMMA WriteRedirectKept ==
  ASSUME Inv, Inv', Orderly, BlockInv, NEW w \in Workers, WriteRedirect(w)
  PROVE  BlockInv'
<1>1. PICK n : n = th[w].req.n
  OBVIOUS
<1>2. PICK b : b = th[w].new
  OBVIOUS
<1>3. /\ th[w].pc = "redirect" /\ UNCHANGED <<dirs, meta, used, hashIndex, config>>
      /\ content' = [content EXCEPT ![b] = th[w].req.d]
      /\ links' = WithLink(WithoutLink(links, Ft(w), n), Ft(w), n, b)
      /\ th' = [th EXCEPT ![w].pc = "open", ![w].new = NoBlock,
                          ![w].blocks = ReplaceAt(th[w].blocks, n, b)]
  BY <1>1, <1>2, NoUnlinkFails DEF WriteRedirect, At
<1>4. /\ b \in Blocks \cap used /\ b \notin {0, NoBlock} /\ Nowhere(b) /\ InHand(w, b)
      /\ n \in 1 .. MaxLogical /\ n \in DOMAIN th[w].blocks /\ Ft(w) \in FT
  BY <1>1, <1>2, <1>3, OwnHand, WriteKnown
<1>5. /\ links'[Ft(w)][n] = b
      /\ \A ft \in FT : \A j \in 1 .. MaxLogical :
           ft # Ft(w) \/ j # n => links'[ft][j] = links[ft][j]
      /\ \A ft \in FT : ft # Ft(w) => links'[ft] = links[ft]
  <2>1. Ft(w) \in dirs
    BY <1>3, WriteKnown
  <2> QED  BY <1>3, <1>4, <2>1, LinkTable DEF WithLink, WithoutLink
<1>6. /\ OnlyMoves(w) /\ th'[w].pc = "open" /\ th'[w].req = th[w].req
      /\ th'[w].blocks = ReplaceAt(th[w].blocks, n, b)
  BY <1>3, Typed DEF OnlyMoves, Inv, TypeOK, Thread
<1>7. /\ DOMAIN th'[w].blocks = DOMAIN th[w].blocks /\ th'[w].blocks[n] = b
      /\ \A j \in DOMAIN th[w].blocks : j # n => th'[w].blocks[j] = th[w].blocks[j]
  BY <1>4, <1>6, WriteKnown DEF ReplaceAt
<1>8. Works(w) /\ Op(w) = "WRITE" /\ Dest(w) = Ft(w) /\ Works(w)'
  BY <1>3, <1>6, WriteKnown, PcSets2 DEF Works
<1>9. th'[w].pc \notin HandPCs \cup LoopPCs
  BY <1>6, PcSets2 DEF HandPCs
<1>10. TagEffect(w) /\ EntryEffect(w) /\ RestEffect(w)
  BY <1>3, <1>5, <1>6, <1>8, WriteKnown
  DEF TagEffect, EntryEffect, SameTag, RestEffect
<1>11. links[Ft(w)][n] = 0
  <2>1. Written(w) = 0
    BY <1>3, Parts DEF MetaKnown
  <2> QED  BY <1>1, <1>3, <1>4, <2>1, WriteKnown DEF Entry
<1>12. LinkEffect(w)
  <2>1. \A ft \in FT : \A j \in 1 .. MaxLogical : Settled(ft, j) => Settled(ft, j)'
    <3>1. CommitGoesOn(w)
      BY <1>8 DEF CommitGoesOn
    <3>2. meta' = meta /\ OnlyMoves(w) /\ th'[w].req = th[w].req
      BY <1>3, <1>6
    <3> QED  BY <3>1, <3>2, SettledStays
  <2>2. \A ft \in FT : \A j \in 1 .. MaxLogical : links'[ft][j] = b => ft = Ft(w) /\ j = n
    BY <1>4, <1>5 DEF Nowhere
  <2>3. \A ft \in FT : \A j \in 1 .. MaxLogical :
          links'[ft][j] = links[ft][j] \/ links'[ft][j] = b
    BY <1>5
  <2>4. \A ft \in FT : \A j \in 1 .. MaxLogical :
          links'[ft][j] # links[ft][j] => links[ft][j] = 0
    BY <1>5, <1>11
  <2> QED  BY <1>2, <1>3, <2>1, <2>2, <2>3, <2>4 DEF LinkEffect
<1>13. BlockEffect(w)
  BY <1>2, <1>3, <1>4, WriteKnown DEF BlockEffect, OwnBlock, Inv, TypeOK
<1>14. IndexEffect(w)
  BY <1>3, <1>9 DEF IndexEffect
<1>15. HandEffect(w)
  <2>1. \A c \in Blocks : InHand(w, c) => c = b
    BY <1>2, <1>3 DEF InHand
  <2>2. ~Nowhere(b)'
    BY <1>4, <1>5 DEF Nowhere
  <2>3. \A c : ~InHand(w, c)'
    BY <1>9, Vacuous
  <2> QED  BY <2>1, <2>2, <2>3 DEF HandEffect
<1>16. Asked(w)'
  BY <1>6, <1>8, WorkOp, Parts, PcSets2 DEF Asked, Op
<1>17. MetaKnown(w)'
  <2>1. n \in DOMAIN th'[w].blocks
    BY <1>4, <1>7
  <2>2. Dest(w)' = Ft(w) /\ Ft(w)' = Ft(w) /\ Op(w)' = "WRITE"
    BY <1>6, <1>8 DEF Dest, Ft, Op
  <2> QED  BY <1>1, <1>3, <1>6, <1>8, <2>1, <2>2, WriteKnown DEF MetaKnown
<1>18. LinksKnown(w)'
  <2>1. ASSUME NEW j \in 1 .. MaxLogical
        PROVE  links'[Ft(w)][j] = Entry(th'[w].blocks, j)
    <3>1. links[Ft(w)][j] = Entry(th[w].blocks, j)
      BY <1>3, <2>1, WriteKnown
    <3>2. CASE j = n
      BY <1>4, <1>5, <1>7, <3>2 DEF Entry
    <3>3. CASE j # n
      BY <1>4, <1>5, <1>7, <2>1, <3>1, <3>3 DEF Entry
    <3> QED  BY <3>2, <3>3
  <2> QED  BY <1>6, <1>8, <2>1, PcSets2 DEF LinksKnown, Place, Entry, Works, Op, Ft, Dest
<1>19. HandlerInv(w)'
  BY <1>6, <1>8, <1>9, <1>16, <1>17, <1>18, PlainKnown, PcSets2 DEF Op
<1> QED  BY <1>10, <1>12, <1>13, <1>14, <1>15, <1>19, StepKept DEF Effect

-----------------------------------------------------------------------------
(* The directory and the metadata that CREATE_FILE, TRUNCATE_FILE, TAG_FILE   *)
(* and WRITE_BLOCK make *)

LEMMA GotoFacts ==
  ASSUME Inv, NEW w \in Workers, NEW l, Goto(w, l)
  PROVE  /\ OnlyMoves(w) /\ th'[w] = [th[w] EXCEPT !.pc = l] /\ th'[w].pc = l
         /\ th'[w].req = th[w].req /\ th'[w].blocks = th[w].blocks /\ th'[w].i = th[w].i
         /\ th'[w].orig = th[w].orig /\ th'[w].size = th[w].size /\ th'[w].bhi = th[w].bhi
         /\ th'[w].new = th[w].new /\ th'[w].hash = th[w].hash
         /\ Op(w)' = Op(w) /\ Ft(w)' = Ft(w) /\ Dest(w)' = Dest(w)
<1>1. OnlyMoves(w) /\ th'[w] = [th[w] EXCEPT !.pc = l]
  BY DEF Goto, OnlyMoves, Inv, TypeOK
<1>2. /\ th'[w].pc = l
      /\ th'[w].req = th[w].req /\ th'[w].blocks = th[w].blocks /\ th'[w].i = th[w].i
      /\ th'[w].orig = th[w].orig /\ th'[w].size = th[w].size /\ th'[w].bhi = th[w].bhi
      /\ th'[w].new = th[w].new /\ th'[w].hash = th[w].hash
  BY <1>1, Typed DEF Thread
<1>3. Op(w)' = Op(w) /\ Ft(w)' = Ft(w) /\ Dest(w)' = Dest(w)
  BY <1>2 DEF Op, Ft, Dest
<1> QED  BY <1>1, <1>2, <1>3

LEMMA MakeDirectoryKept ==
  ASSUME Inv, Inv', Orderly, BlockInv, NEW w \in Workers, MakeDirectory(w)
  PROVE  BlockInv'
<1>1. PICK l : l = IF Op(w) = "TAG" THEN "clone" ELSE "open"
  OBVIOUS
<1>2. /\ th[w].pc = "mkdir" /\ dirs' = dirs \cup {Dest(w)} /\ Goto(w, l)
      /\ UNCHANGED <<meta, links, used, content, hashIndex, config>>
  BY <1>1 DEF MakeDirectory, At
<1>3. /\ OnlyMoves(w) /\ th'[w].pc = l /\ th'[w].req = th[w].req
      /\ th'[w].blocks = th[w].blocks /\ th'[w].orig = th[w].orig /\ th'[w].i = th[w].i
      /\ Op(w)' = Op(w) /\ Ft(w)' = Ft(w) /\ Dest(w)' = Dest(w)
  BY <1>2, GotoFacts
<1>4. Works(w) /\ Op(w) \in {"CREATE", "TAG"} /\ Dest(w) # Base /\ Dest(w) \in FT
      /\ meta[Dest(w)] = NoMeta /\ th[w].req \in Requests[w]
  BY <1>2, Parts, Typed, PcSets2 DEF Works, Asked, MetaKnown
<1>5. l \in LockedPCs \ (LoopPCs \cup HandPCs) /\ Works(w)' /\ l \in {"clone", "open"}
      /\ th[w].pc \notin HandPCs
  BY <1>1, <1>2, <1>3, PcSets2 DEF HandPCs, Works
<1>6. TagEffect(w) /\ EntryEffect(w) /\ RestEffect(w)
  BY <1>2, <1>3, <1>4, <1>5 DEF TagEffect, EntryEffect, SameTag, RestEffect
<1>7. LinkEffect(w)
  BY <1>2, <1>3, <1>4, LinksSame DEF CommitGoesOn
<1>8. BlockEffect(w) /\ IndexEffect(w) /\ HandEffect(w)
  BY <1>2, <1>3, <1>5, Vacuous DEF BlockEffect, IndexEffect, HandEffect
<1>9. Asked(w)'
  BY <1>1, <1>3, <1>4, PcSets2 DEF Asked
<1>10. MetaKnown(w)'
  <2>1. th'[w].pc \notin {"enter", "rmdir", "inplace", "cow", "redirect", "close", "mkdir"}
    BY <1>3, <1>5
  <2>2. Dest(w) \in dirs'
    BY <1>2
  <2> QED  BY <1>2, <1>3, <1>4, <2>1, <2>2, Parts DEF MetaKnown
<1>11. LinksKnown(w)'
  <2>1. th'[w].pc \notin {"stat", "free", "unhash"} \cup Relinked
        /\ th[w].pc \notin {"stat", "free", "unhash"} \cup Relinked
    BY <1>2, <1>3, <1>5, PcSets2
  <2>2. \A j : Place(w, j)' = Place(w, j)
    BY <1>3, <2>1 DEF Place
  <2> QED  BY <1>2, <1>3, <1>4, <2>2, Parts DEF LinksKnown
<1>12. CopyKnown(w)' /\ RoomKnown(w)'
  <2>1. Op(w) = "TAG" => th'[w].pc = "clone"
    BY <1>1, <1>3
  <2>2. CopyKnown(w)'
    BY <1>2, <1>3, <1>4, <2>1, Parts DEF CopyKnown
  <2>3. FreeBlocks' = FreeBlocks
    BY <1>2 DEF FreeBlocks
  <2> QED  BY <1>2, <1>3, <2>1, <2>2, <2>3, Parts DEF RoomKnown
<1>13. HandlerInv(w)'
  BY <1>3, <1>5, <1>9, <1>10, <1>11, <1>12, Vacuous DEF HandlerInv
<1> QED  BY <1>6, <1>7, <1>8, <1>13, StepKept DEF Effect

LEMMA OpenMetadataKept ==
  ASSUME Inv, Inv', Orderly, BlockInv, NEW w \in Workers, OpenMetadata(w)
  PROVE  BlockInv'
<1>1. th[w].pc = "open" /\ config' = Dest(w) /\ UNCHANGED volume /\ Goto(w, "close")
  BY DEF OpenMetadata, At, disk, volume
<1>2. /\ OnlyMoves(w) /\ th'[w].pc = "close" /\ th'[w].req = th[w].req
      /\ th'[w].blocks = th[w].blocks /\ th'[w].orig = th[w].orig /\ th'[w].i = th[w].i
      /\ Op(w)' = Op(w) /\ Ft(w)' = Ft(w) /\ Dest(w)' = Dest(w)
  BY <1>1, GotoFacts
<1>3. /\ dirs' = dirs /\ meta' = meta /\ links' = links /\ used' = used
      /\ content' = content /\ hashIndex' = hashIndex
  BY <1>1 DEF volume
<1>4. Works(w) /\ Works(w)' /\ Op(w) \in {"CREATE", "TRUNCATE", "TAG", "WRITE"}
      /\ th[w].req \in Requests[w]
  BY <1>1, <1>2, Parts, PcSets2 DEF Works, Asked
<1>5. {"open", "close"} \subseteq LockedPCs \ (LoopPCs \cup HandPCs)
  BY PcSets2 DEF HandPCs
<1>6. HandEffect(w) /\ RestEffect(w)
  BY <1>1, <1>2, <1>4, <1>5, Vacuous DEF HandEffect, RestEffect
<1>7. Effect(w) /\ EntryEffect(w)
  BY <1>1, <1>2, <1>4, <1>5, <1>6, Silent DEF CommitGoesOn
<1>8. Asked(w)'
  BY <1>2, <1>4, PcSets2 DEF Asked
<1>9. MetaKnown(w)'
  BY <1>1, <1>2, <1>3, <1>4, Parts DEF MetaKnown
<1>10. LinksKnown(w)'
  <2>1. \A j : Place(w, j)' = Place(w, j)
    BY <1>1, <1>2, PcSets2 DEF Place
  <2> QED  BY <1>2, <1>3, <1>4, <2>1, Parts DEF LinksKnown
<1>11. CopyKnown(w)' /\ RoomKnown(w)'
  BY <1>1, <1>2, <1>3, <1>4, Parts DEF CopyKnown, RoomKnown
<1>12. HandlerInv(w)'
  BY <1>2, <1>5, <1>8, <1>9, <1>10, <1>11, Vacuous DEF HandlerInv
<1> QED  BY <1>6, <1>7, <1>12, StepKept

LEMMA SaveMetadataKept ==
  ASSUME Inv, Inv', Orderly, BlockInv, NEW w \in Workers, SaveMetadata(w)
  PROVE  BlockInv'
<1>1. /\ th[w].pc = "close" /\ th' = [th EXCEPT ![w] = IdleThread]
      /\ UNCHANGED <<dirs, links, used, content, hashIndex>>
  BY DEF SaveMetadata, At, Finish
<1>2. /\ Works(w) /\ Op(w) \in {"CREATE", "TRUNCATE", "TAG", "WRITE"}
      /\ Dest(w) # Base /\ Dest(w) \in dirs /\ Dest(w) \in FT
      /\ meta[Dest(w)].state # "COMMITED" /\ (DebugBuild => config = Dest(w))
  <2>1. Works(w) /\ Op(w) \in {"CREATE", "TRUNCATE", "TAG", "WRITE"} /\ Dest(w) \in FT
    BY <1>1, Parts, Typed, PcSets2 DEF Works, Asked
  <2>2. Op(w) # "TAG" => Dest(w) = Ft(w)
    BY DEF Dest
  <2> QED  BY <1>1, <2>1, <2>2, Parts DEF MetaKnown, NoMeta
<1>3. meta' = [meta EXCEPT ![Dest(w)] = [state |-> "WORK_IN_PROGRESS", size |-> th[w].size,
                                        blocks |-> th[w].blocks]]
  BY <1>2 DEF SaveMetadata
<1>4. /\ meta'[Dest(w)].state = "WORK_IN_PROGRESS" /\ meta'[Dest(w)].blocks = th[w].blocks
      /\ \A ft \in FT : ft # Dest(w) => meta'[ft] = meta[ft]
  BY <1>2, <1>3 DEF Inv, TypeOK
<1>5. OnlyMoves(w) /\ th'[w].pc = "idle"
  BY <1>1 DEF OnlyMoves, IdleThread, Inv, TypeOK
<1>6. ~Works(w)' /\ th'[w].pc \notin HandPCs \cup LoopPCs /\ th[w].pc \notin HandPCs
      /\ th[w].pc \notin Relinked
  BY <1>1, <1>5, PcSets2 DEF Works, HandPCs
<1>7. TagEffect(w) /\ EntryEffect(w)
  BY <1>1, <1>2, <1>4, <1>5, <1>6, Parts DEF TagEffect, EntryEffect, SameTag, Asked
<1>8. LinkEffect(w)
  <2>1. CommitGoesOn(w)
    BY <1>2 DEF CommitGoesOn
  <2>2. ASSUME NEW ft \in FT, NEW j \in 1 .. MaxLogical, Settled(ft, j)
        PROVE  Settled(ft, j)'
    <3>1. meta'[ft] = meta[ft]
      BY <1>2, <1>4, <2>2 DEF Settled
    <3> QED  BY <1>5, <1>6, <2>1, <2>2, <3>1, SettledStays
  <2> QED  BY <1>1, <2>2 DEF LinkEffect
<1>9. BlockEffect(w) /\ IndexEffect(w) /\ HandEffect(w)
  BY <1>1, <1>6, Vacuous DEF BlockEffect, IndexEffect, HandEffect
<1>10. RestEffect(w)
  <2>1. \A j \in 1 .. MaxLogical : links[Dest(w)][j] = Entry(th[w].blocks, j)
    BY <1>1, <1>2, <1>6, Parts DEF LinksKnown, Place, Entry
  <2> QED  BY <1>1, <1>4, <2>1 DEF RestEffect
<1>11. HandlerInv(w)'
  BY <1>5, IdleAsked, EarlyKnown
<1> QED  BY <1>7, <1>8, <1>9, <1>10, <1>11, StepKept DEF Effect

-----------------------------------------------------------------------------
(* TRUNCATE_FILE and DELETE_TAG *)

LEMMA DropKnown ==
  ASSUME Inv, Orderly, BlockInv, NEW w \in Workers,
         th[w].pc \in {"grow", "unlink", "stat", "free", "unhash"}
  PROVE  /\ Works(w) /\ Op(w) \in {"TRUNCATE", "DELETE"} /\ Dest(w) = Ft(w)
         /\ Ft(w) \in FT /\ Ft(w) # Base /\ Ft(w) \in dirs /\ th[w].req \in Requests[w]
         /\ meta[Ft(w)].state \in {"WORK_IN_PROGRESS", "COMMITED"}
         /\ Op(w) = "TRUNCATE" => meta[Ft(w)].state = "WORK_IN_PROGRESS"
         /\ th[w].blocks \in Seq(Blocks) /\ Len(th[w].blocks) <= MaxLogical
         /\ th[w].i \in 1 .. MaxLogical
         /\ th[w].pc = "grow" => th[w].i = Len(th[w].blocks) + 1
         /\ th[w].pc # "grow" => /\ th[w].i \in 1 .. Len(th[w].blocks)
                                 /\ th[w].i \in DOMAIN th[w].blocks
                                 /\ th[w].blocks[th[w].i] \in Blocks
         /\ th[w].pc # "grow" /\ Op(w) # "DELETE" => th[w].i = Len(th[w].blocks)
<1>1. /\ Works(w) /\ Op(w) \in {"TRUNCATE", "DELETE"} /\ Dest(w) = Ft(w)
      /\ th[w].req \in Requests[w]
  BY Parts, PcSets2 DEF Works, Asked, Dest
<1>2. /\ Ft(w) \in FT /\ Ft(w) # Base /\ Ft(w) \in dirs
      /\ meta[Ft(w)].state \in {"WORK_IN_PROGRESS", "COMMITED"}
      /\ Op(w) = "TRUNCATE" => meta[Ft(w)].state = "WORK_IN_PROGRESS"
  BY <1>1, Parts, Typed DEF MetaKnown, Meta
<1>3. /\ th[w].blocks \in Seq(Blocks) /\ Len(th[w].blocks) <= MaxLogical
      /\ th[w].i \in Nat /\ WellShaped(th[w])
  BY Typed DEF Thread, WellShaped
<1>4. CASE th[w].pc = "grow"
  <2>1. /\ th[w].i = Len(th[w].blocks) + 1 /\ th[w].size \in Sizes
        /\ th[w].i <= BlocksNeeded(th[w].size)
    BY <1>3, <1>4 DEF WellShaped
  <2>2. th[w].i \in 1 .. MaxLogical
    BY <1>3, <2>1, SizesNeed, VolumeAssumption
  <2> QED  BY <1>1, <1>2, <1>3, <1>4, <2>1, <2>2
<1>5. CASE th[w].pc # "grow"
  <2>1. th[w].i \in 1 .. Len(th[w].blocks) /\ (Op(w) # "DELETE" => th[w].i = Len(th[w].blocks))
    BY <1>3, <1>5 DEF WellShaped, Op
  <2>2. /\ th[w].i \in 1 .. MaxLogical /\ th[w].i \in DOMAIN th[w].blocks
        /\ th[w].blocks[th[w].i] \in Blocks
    BY <1>3, <2>1, VolumeAssumption
  <2> QED  BY <1>1, <1>2, <1>3, <1>5, <2>1, <2>2
<1> QED  BY <1>4, <1>5

(* The links of the File:Tag of one that grows it, or drops them. *)
LEMMA OneLinkKept ==
  ASSUME Inv, Inv', NEW w \in Workers, OnlyMoves(w), th'[w].req = th[w].req,
         Op(w) # "COMMIT", meta' = meta, th[w].pc \notin {"link", "redirect"},
         NEW n \in 1 .. MaxLogical, NEW c \in {0, NoBlock},
         links' = [links EXCEPT ![Ft(w)][n] = c],
         \A b \in Blocks : links[Ft(w)][n] = b => b = 0 \/ InHand(w, b)'
  PROVE  /\ LinkEffect(w) /\ links'[Ft(w)][n] = c
         /\ \A ft \in FT : ft # Ft(w) => links'[ft] = links[ft]
         /\ \A ft \in FT : \A j \in 1 .. MaxLogical :
              ft # Ft(w) \/ j # n => links'[ft][j] = links[ft][j]
<1>1. /\ links'[Ft(w)][n] = c
      /\ \A ft \in FT : ft # Ft(w) => links'[ft] = links[ft]
      /\ \A ft \in FT : \A j \in 1 .. MaxLogical :
           ft # Ft(w) \/ j # n => links'[ft][j] = links[ft][j]
  BY Typed DEF Inv, TypeOK
<1>2. CommitGoesOn(w)
  BY DEF CommitGoesOn
<1>3. \A ft \in FT : \A j \in 1 .. MaxLogical : Settled(ft, j) => Settled(ft, j)'
  BY <1>2, SettledStays
<1>4. \A ft \in FT : \A j \in 1 .. MaxLogical :
        links'[ft][j] = links[ft][j] \/ links'[ft][j] \in {NoBlock, 0}
  BY <1>1
<1>5. \A ft \in FT : \A j \in 1 .. MaxLogical : \A b \in Blocks :
        links[ft][j] = b /\ links'[ft][j] # b => b = 0 \/ InHand(w, b)'
  BY <1>1
<1> QED  BY <1>1, <1>3, <1>4, <1>5 DEF LinkEffect

LEMMA GrowKept ==
  ASSUME Inv, Inv', Orderly, BlockInv, NEW w \in Workers, Grow(w)
  PROVE  BlockInv'
<1>1. PICK i : i = th[w].i
  OBVIOUS
<1>2. PICK l \in {"grow", "open"} :
        /\ th[w].pc = "grow" /\ UNCHANGED <<dirs, meta, used, content, hashIndex, config>>
        /\ links' = WithLink(links, Ft(w), i, 0)
        /\ th' = [th EXCEPT ![w].blocks = Append(th[w].blocks, 0), ![w].i = i + 1,
                            ![w].pc = l]
  BY <1>1 DEF Grow, At
<1>3. /\ OnlyMoves(w) /\ th'[w].pc = l /\ th'[w].req = th[w].req
      /\ th'[w].blocks = Append(th[w].blocks, 0)
  <2>1. PICK k, s : k = i + 1 /\ s = Append(th[w].blocks, 0)
    OBVIOUS
  <2>2. OnlyMoves(w) /\ th'[w] = [th[w] EXCEPT !.blocks = s, !.i = k, !.pc = l]
    BY <1>2, <2>1, Threads DEF OnlyMoves
  <2> QED  BY <2>1, <2>2, Typed DEF Thread
<1>4. /\ Op(w)' = Op(w) /\ Ft(w)' = Ft(w) /\ Dest(w)' = Dest(w)
      /\ Works(w) /\ Works(w)' /\ Op(w) = "TRUNCATE" /\ Dest(w) = Ft(w) /\ Ft(w) \in FT
      /\ i \in 1 .. MaxLogical /\ i = Len(th[w].blocks) + 1 /\ th[w].blocks \in Seq(Blocks)
  <2>1. Op(w)' = Op(w) /\ Ft(w)' = Ft(w) /\ Dest(w)' = Dest(w)
    BY <1>3 DEF Op, Ft, Dest
  <2>2. Works(w) /\ Works(w)' /\ Op(w) = "TRUNCATE"
    BY <1>2, <1>3, Parts, PcSets2 DEF Works, Asked
  <2>3. Dest(w) = Ft(w) /\ Ft(w) \in FT /\ i \in 1 .. MaxLogical
        /\ i = Len(th[w].blocks) + 1 /\ th[w].blocks \in Seq(Blocks)
    BY <1>1, <1>2, <2>2, DropKnown, PcSets2 DEF Dest
  <2> QED  BY <2>1, <2>2, <2>3
<1>5. l \in LockedPCs \ (LoopPCs \cup HandPCs) /\ th[w].pc \notin HandPCs
      /\ \A pc \in {"grow", "open"} : pc \notin {"stat", "free", "unhash"} \cup Relinked
  BY <1>2, PcSets2 DEF HandPCs
<1>6. \A j \in 1 .. MaxLogical : links[Ft(w)][j] = Entry(th[w].blocks, j)
  BY <1>2, <1>4, <1>5, Parts DEF LinksKnown, Place, Entry
<1>7. links[Ft(w)][i] = NoBlock
  BY <1>4, <1>6 DEF Entry
<1>8. links' = [links EXCEPT ![Ft(w)][i] = 0]
  BY <1>2, <1>7, DropKnown DEF WithLink
<1>9. /\ LinkEffect(w) /\ links'[Ft(w)][i] = 0
      /\ \A ft \in FT : ft # Ft(w) => links'[ft] = links[ft]
      /\ \A j \in 1 .. MaxLogical : j # i => links'[Ft(w)][j] = links[Ft(w)][j]
  <2>1. \A b \in Blocks : links[Ft(w)][i] # b
    BY <1>7 DEF Blocks, NoBlock
  <2>2. PICK c \in {0, NoBlock} : c = 0
    OBVIOUS
  <2>3. links' = [links EXCEPT ![Ft(w)][i] = c]
    BY <1>8, <2>2
  <2>4. /\ LinkEffect(w) /\ links'[Ft(w)][i] = c
        /\ \A ft \in FT : ft # Ft(w) => links'[ft] = links[ft]
        /\ \A ft \in FT : \A j \in 1 .. MaxLogical :
             ft # Ft(w) \/ j # i => links'[ft][j] = links[ft][j]
    <3>1. OnlyMoves(w) /\ th'[w].req = th[w].req /\ Op(w) # "COMMIT" /\ meta' = meta
      BY <1>2, <1>3, <1>4
    <3>2. th[w].pc \notin {"link", "redirect"} /\ i \in 1 .. MaxLogical
      BY <1>2, <1>4
    <3>3. \A b \in Blocks : links[Ft(w)][i] = b => b = 0 \/ InHand(w, b)'
      BY <2>1
    <3> QED  BY <2>3, <3>1, <3>2, <3>3, OneLinkKept
  <2> QED  BY <1>4, <2>2, <2>4
<1>10. TagEffect(w) /\ EntryEffect(w) /\ RestEffect(w)
  BY <1>2, <1>3, <1>4, <1>9, DropKnown DEF TagEffect, EntryEffect, SameTag, RestEffect
<1>11. BlockEffect(w) /\ IndexEffect(w) /\ HandEffect(w)
  BY <1>2, <1>3, <1>5, Vacuous DEF BlockEffect, IndexEffect, HandEffect
<1>12. Asked(w)'
  BY <1>2, <1>3, <1>4, DropKnown, PcSets2 DEF Asked
<1>13. MetaKnown(w)'
  BY <1>2, <1>3, <1>4, DropKnown DEF MetaKnown
<1>14. LinksKnown(w)'
  <2>1. ASSUME NEW j \in 1 .. MaxLogical
        PROVE  links'[Ft(w)][j] = Entry(Append(th[w].blocks, 0), j)
    <3>1. CASE j = i
      BY <1>4, <1>9, <3>1 DEF Entry
    <3>2. CASE j # i
      <4>1. links'[Ft(w)][j] = Entry(th[w].blocks, j)
        BY <1>6, <1>9, <2>1, <3>2
      <4> QED  BY <1>4, <2>1, <3>2, <4>1 DEF Entry
    <3> QED  BY <3>1, <3>2
  <2>2. ASSUME NEW j \in 1 .. MaxLogical
        PROVE  Place(w, j)' = Entry(Append(th[w].blocks, 0), j)
    <3>1. th'[w].pc \notin {"stat", "free", "unhash"} \cup Relinked
      BY <1>3, <1>5
    <3>2. Op(w)' # "DELETE"
      BY <1>4
    <3> QED  BY <1>3, <3>1, <3>2 DEF Place, Entry
  <2> QED  BY <1>4, <2>1, <2>2 DEF LinksKnown
<1>15. HandlerInv(w)'
  BY <1>3, <1>4, <1>5, <1>12, <1>13, <1>14, PlainKnown
<1> QED  BY <1>9, <1>10, <1>11, <1>15, StepKept DEF Effect

(* What the logical block that is dropped was linked to. *)
LEMMA Dropped ==
  ASSUME Inv, Orderly, BlockInv, NEW w \in Workers, th[w].pc = "unlink",
         NEW b, b = th[w].blocks[th[w].i]
  PROVE  /\ links[Ft(w)][th[w].i] = b /\ b \in Blocks \cap used
         /\ \A ft \in FT : \A j \in 1 .. MaxLogical :
              links[ft][j] = b /\ b # 0 /\ (ft # Ft(w) \/ j # th[w].i) =>
                Dooms(w) /\ Settled(ft, j)
         /\ b # 0 /\ SettledRefs(b) => Dooms(w)
         /\ b # 0 => \A v \in Workers : v # w => ~InHand(v, b)
         /\ b # 0 => \A v \in Workers : th[v].pc \in LoopPCs => \A d \in Data : th[v].bhi[d] # b
         /\ b # 0 => \A d \in Data : hashIndex[d] = b => Unhashing(b) \/ Dooms(w)
<1>1. b \in Blocks /\ Ft(w) \in FT /\ th[w].i \in 1 .. MaxLogical /\ b # NoBlock
  BY DropKnown DEF Blocks, NoBlock
<1>2. links[Ft(w)][th[w].i] = b
  <2>1. th[w].pc \notin {"stat", "free", "unhash"} \cup Relinked
    BY PcSets2
  <2>2. th[w].i \in Nat /\ ~(th[w].i < th[w].i)
    BY <1>1
  <2>3. Place(w, th[w].i) = b
    BY <2>1, <2>2, DropKnown DEF Place
  <2> QED  BY <1>1, <2>3, DropKnown, Parts DEF LinksKnown
<1>3. b \in used
  BY <1>1, <1>2 DEF BlockInv, VolumeInv, LinkedBlocksAllocated
<1>4. Settled(Ft(w), th[w].i) => Dooms(w)
  BY DropKnown DEF Settled, Dooms
<1>5. b # 0 /\ SettledRefs(b) => Dooms(w)
  BY <1>1, <1>2, <1>4 DEF SettledRefs
<1>6. ASSUME NEW ft \in FT, NEW j \in 1 .. MaxLogical, links[ft][j] = b, b # 0,
             ft # Ft(w) \/ j # th[w].i
      PROVE  Dooms(w) /\ Settled(ft, j)
  <2>1. PICK i : i = th[w].i
    OBVIOUS
  <2>2. i \in 1 .. MaxLogical /\ links[Ft(w)][i] = b
    BY <1>1, <1>2, <2>1
  <2>3. SharedIsSettled /\ b \notin {NoBlock, 0}
    BY <1>1, <1>6 DEF BlockInv, VolumeInv
  <2>4. Settled(ft, j) /\ Settled(Ft(w), i)
    BY <1>1, <1>6, <2>1, <2>2, <2>3 DEF SharedIsSettled
  <2> QED  BY <1>4, <2>1, <2>4
<1>7. ASSUME b # 0, NEW v \in Workers, v # w, InHand(v, b)
      PROVE  FALSE
  <2>1. Dooms(v) /\ SettledRefs(b)
    BY <1>1, <1>2, <1>7, Parts DEF HandKnown, Nowhere
  <2>2. Works(w) /\ Dest(w) = Ft(w) /\ Settled(Ft(w), th[w].i)
    BY <1>1, <1>2, <1>7, <2>1, DropKnown DEF SettledRefs
  <2> QED  BY <1>7, <2>1, <2>2, DoomsAlone
<1>8. ASSUME b # 0, NEW v \in Workers, th[v].pc \in LoopPCs, NEW d \in Data, th[v].bhi[d] = b
      PROVE  FALSE
  <2>1. SettledRefs(b)
    BY <1>1, <1>8, Parts DEF CopySound, Sound
  <2>2. Works(v) /\ Op(v) = "COMMIT" /\ v # w
    BY <1>8, Parts, PcSets2 DEF Works, Asked
  <2> QED  BY <1>5, <1>8, <2>1, <2>2, DoomsAlone
<1>9. ASSUME b # 0, NEW d \in Data, hashIndex[d] = b
      PROVE  Unhashing(b) \/ Dooms(w)
  BY <1>1, <1>5, <1>9 DEF BlockInv, VolumeInv, IndexSound, Sound
<1> QED  BY <1>1, <1>2, <1>3, <1>5, <1>6, <1>7, <1>8, <1>9

LEMMA UnhashingKept ==
  ASSUME Inv, Orderly, BlockInv, NEW w \in Workers, TagEffect(w), th[w].pc # "unhash",
         NEW b, Unhashing(b)
  PROVE  Unhashing(b)'
<1>1. PICK u \in Workers : th[u].pc = "unhash" /\ Dooms(u) /\ th[u].blocks[th[u].i] = b
  BY DEF Unhashing
<1>2. th'[u] = th[u] /\ Dooms(u)'
  BY <1>1, OnlyOne, DoomsKept
<1> QED  BY <1>1, <1>2 DEF Unhashing

LEMMA UnlinkKept ==
  ASSUME Inv, Inv', Orderly, BlockInv, NEW w \in Workers, Unlink(w)
  PROVE  BlockInv'
<1>0. links' = WithoutLink(links, Ft(w), th[w].i)
  BY NoUnlinkFails DEF Unlink
<1>1. PICK i, b :
        /\ i = th[w].i /\ b = th[w].blocks[i]
        /\ th[w].pc = "unlink" /\ UNCHANGED <<dirs, meta, used, content, hashIndex, config>>
        /\ links' = [links EXCEPT ![Ft(w)][i] = NoBlock]
        /\ Goto(w, "stat")
  BY <1>0 DEF Unlink, At, WithoutLink
<1>2. /\ OnlyMoves(w) /\ th'[w].pc = "stat" /\ th'[w].req = th[w].req
      /\ th'[w].blocks = th[w].blocks /\ th'[w].i = th[w].i
      /\ Op(w)' = Op(w) /\ Ft(w)' = Ft(w) /\ Dest(w)' = Dest(w)
  BY <1>1, GotoFacts
<1>3. /\ Works(w) /\ Works(w)' /\ Op(w) \in {"TRUNCATE", "DELETE"} /\ Dest(w) = Ft(w)
      /\ Ft(w) \in FT /\ i \in 1 .. MaxLogical /\ th[w].i = i /\ Ft(w) # Base
  BY <1>1, <1>2, DropKnown, PcSets2 DEF Works
<1>4. /\ links[Ft(w)][i] = b /\ b \in Blocks \cap used
      /\ \A c : InHand(w, c)' <=> c = b
  <2>1. \A c : InHand(w, c)' <=> c = b
    BY <1>1, <1>2 DEF InHand
  <2> QED  BY <1>1, <2>1, Dropped
<1>5. /\ LinkEffect(w) /\ links'[Ft(w)][i] = NoBlock
      /\ \A ft \in FT : ft # Ft(w) => links'[ft] = links[ft]
      /\ \A ft \in FT : \A j \in 1 .. MaxLogical :
           ft # Ft(w) \/ j # i => links'[ft][j] = links[ft][j]
  BY <1>1, <1>2, <1>3, <1>4, OneLinkKept
<1>6. TagEffect(w) /\ EntryEffect(w) /\ RestEffect(w)
  BY <1>1, <1>2, <1>3, <1>5 DEF TagEffect, EntryEffect, SameTag, RestEffect
<1>7. BlockEffect(w) /\ IndexEffect(w)
  BY <1>1, <1>2, PcSets2 DEF BlockEffect, IndexEffect
<1>8. HandEffect(w)
  <2>1. \A c : ~InHand(w, c)
    BY <1>1, Vacuous DEF HandPCs
  <2>2. \E j \in 1 .. MaxLogical : links[Dest(w)][j] = b
    BY <1>3, <1>4
  <2> QED  BY <1>3, <1>4, <2>1, <2>2 DEF HandEffect
<1>9. Asked(w)'
  BY <1>2, <1>3, DropKnown, <1>1, PcSets2 DEF Asked
<1>10. MetaKnown(w)'
  <2>1. th'[w].pc \notin {"mkdir", "rmdir", "enter", "inplace", "cow", "redirect", "close"}
    BY <1>2
  <2> QED  BY <1>1, <1>2, <1>3, <2>1, DropKnown DEF MetaKnown
<1>11. LinksKnown(w)'
  <2>1. ASSUME NEW j \in 1 .. MaxLogical
        PROVE  links'[Ft(w)][j] = Place(w, j)'
    <3>1. CASE j = i
      BY <1>2, <1>3, <1>5, <3>1 DEF Place
    <3>2. CASE j # i
      <4>1. links'[Ft(w)][j] = Place(w, j)
        BY <1>3, <1>5, <2>1, <3>2, Parts DEF LinksKnown
      <4>2. Place(w, j)' = Place(w, j)
        BY <1>1, <1>2, <1>3, <3>2, PcSets2 DEF Place
      <4> QED  BY <4>1, <4>2
    <3> QED  BY <3>1, <3>2
  <2> QED  BY <1>2, <1>3, <2>1 DEF LinksKnown
<1>12. Dooms(w) => Dooms(w)'
  BY <1>1, <1>2, <1>3 DEF Dooms
<1>13. b = 0 \/ Nowhere(b)' \/ (Dooms(w)' /\ SettledRefs(b)')
  <2>1. ASSUME NEW ft \in FT, NEW j \in 1 .. MaxLogical, links'[ft][j] = b, b # 0
        PROVE  Dooms(w) /\ Settled(ft, j)'
    <3>1. b # NoBlock
      BY <1>4 DEF Blocks, NoBlock
    <3>2. links[ft][j] = b /\ (ft # Ft(w) \/ j # i)
      BY <1>5, <2>1, <3>1
    <3>3. Dooms(w) /\ Settled(ft, j)
      BY <1>1, <2>1, <3>2, Dropped
    <3> QED  BY <1>5, <2>1, <3>1, <3>3 DEF LinkEffect
  <2> QED  BY <1>12, <2>1 DEF Nowhere, SettledRefs
<1>14. HandKnown(w)'
  <2>1. \A v \in Workers : v # w => th'[v] = th[v]
    BY <1>6, OnlyOne
  <2>2. ASSUME b # 0, NEW v \in Workers, v # w PROVE ~InHand(v, b)'
    BY <1>1, <2>1, <2>2, Dropped DEF InHand
  <2>3. ASSUME b # 0, NEW v \in Workers, th'[v].pc \in LoopPCs, NEW d \in Data
        PROVE  th'[v].bhi[d] # b
    BY <1>1, <1>2, <2>1, <2>3, Dropped, PcSets2
  <2>4. ASSUME b # 0, NEW d \in Data, hashIndex'[d] = b
        PROVE  Unhashing(b)' \/ Dooms(w)'
    BY <1>1, <1>6, <1>12, <2>4, Dropped, UnhashingKept
  <2>5. ASSUME NEW c \in Blocks, InHand(w, c)'
        PROVE  /\ c \in used' /\ (c = 0 \/ Nowhere(c)' \/ (Dooms(w)' /\ SettledRefs(c)'))
               /\ c # 0 => \A v \in Workers : v # w => ~InHand(v, c)'
               /\ c # 0 => \A v \in Workers : th'[v].pc \in LoopPCs =>
                             \A d \in Data : th'[v].bhi[d] # c
               /\ c # 0 => \A d \in Data : hashIndex'[d] = c => Unhashing(c)' \/ Dooms(w)'
    <3>1. c = b
      BY <1>4, <2>5
    <3> QED  BY <1>1, <1>4, <1>13, <2>2, <2>3, <2>4, <3>1
  <2> QED  BY <1>2, <2>5 DEF HandKnown
<1>15. CopyKnown(w)' /\ RoomKnown(w)' /\ CopySound(w)' /\ HashKnown(w)'
  BY <1>2, <1>3, Vacuous, PcSets2 DEF Op
<1>16. HandlerInv(w)'
  BY <1>9, <1>10, <1>11, <1>14, <1>15 DEF HandlerInv
<1> QED  BY <1>5, <1>6, <1>7, <1>8, <1>16, StepKept DEF Effect

(* The loop that drops logical blocks goes on, or ends. *)
LEMMA NextDropKnown ==
  ASSUME Inv, Inv', Orderly, BlockInv, NEW w \in Workers,
         th[w].pc \in {"stat", "free", "unhash"}, NextDrop(w),
         UNCHANGED <<dirs, meta, links>>
  PROVE  /\ HandlerInv(w)' /\ OnlyMoves(w) /\ th'[w].req = th[w].req
         /\ Works(w)' /\ th'[w].pc \in {"unlink", "rmdir", "open"}
         /\ th'[w].pc \notin HandPCs \cup LoopPCs
<1>1. Moves(w, {"unlink", "rmdir", "open"})
  BY NextDropMoves
<1>2. /\ OnlyMoves(w) /\ th'[w].req = th[w].req /\ th'[w].pc \in {"unlink", "rmdir", "open"}
      /\ Op(w)' = Op(w) /\ Ft(w)' = Ft(w) /\ Dest(w)' = Dest(w)
  BY <1>1 DEF Moves, Op, Ft, Dest
<1>3. Works(w)' /\ th'[w].pc \in LockedPCs \ (LoopPCs \cup HandPCs)
      /\ th'[w].pc \notin {"stat", "free", "unhash"} \cup Relinked
      /\ th[w].pc \notin Relinked
  BY <1>2, PcSets2 DEF Works, HandPCs
<1>4. PICK i : i = th[w].i
  OBVIOUS
<1>5. /\ Works(w) /\ Op(w) \in {"TRUNCATE", "DELETE"} /\ Dest(w) = Ft(w)
      /\ th[w].blocks \in Seq(Blocks) /\ i \in 1 .. MaxLogical /\ i \in DOMAIN th[w].blocks
      /\ i \in 1 .. Len(th[w].blocks)
      /\ (Op(w) # "DELETE" => i = Len(th[w].blocks)) /\ Len(th[w].blocks) \in Nat
  BY <1>4, DropKnown
<1>6. \A j \in 1 .. MaxLogical :
        links[Ft(w)][j] = IF \/ j \notin DOMAIN th[w].blocks \/ j = i
                             \/ Op(w) = "DELETE" /\ j < i
                          THEN NoBlock ELSE th[w].blocks[j]
  BY <1>3, <1>4, <1>5, Parts DEF LinksKnown, Place
<1>7. CASE Op(w) = "DELETE"
  <2>1. PICK l : l = IF i < Len(th[w].blocks) THEN "unlink" ELSE "rmdir"
    OBVIOUS
  <2>2. th' = [th EXCEPT ![w].i = i + 1, ![w].pc = l]
    BY <1>4, <1>7, <2>1 DEF NextDrop
  <2>3. th'[w].i = i + 1 /\ th'[w].pc = l /\ th'[w].blocks = th[w].blocks
    BY <2>2, Typed DEF Inv, TypeOK, Thread
  <2>4. th'[w].pc = "rmdir" => th'[w].i = Len(th'[w].blocks) + 1
    BY <1>5, <2>1, <2>3
  <2>5. th'[w].pc \notin {"mkdir", "enter", "inplace", "cow", "redirect", "close"}
    BY <1>2
  <2>6. MetaKnown(w)'
    BY <1>2, <1>5, <1>7, <2>4, <2>5, DropKnown DEF MetaKnown
  <2>7. ASSUME NEW j \in 1 .. MaxLogical PROVE links[Ft(w)][j] = Place(w, j)'
    <3>1. j < i + 1 <=> j < i \/ j = i
      BY <1>5
    <3> QED  BY <1>2, <1>3, <1>6, <1>7, <2>3, <3>1 DEF Place
  <2>8. LinksKnown(w)'
    BY <1>2, <1>5, <2>7 DEF LinksKnown
  <2>9. Asked(w)'
    BY <1>2, <1>5, <1>7, DropKnown, PcSets2, <2>1, <2>3 DEF Asked
  <2> QED  BY <1>2, <1>3, <1>7, <2>6, <2>8, <2>9, PlainKnown
<1>8. CASE Op(w) # "DELETE"
  <2>1. PICK l \in {"unlink", "open"} :
          th' = [th EXCEPT ![w].i = i - 1, ![w].blocks = SubSeq(th[w].blocks, 1, i - 1),
                           ![w].pc = l]
    BY <1>4, <1>8 DEF NextDrop
  <2>2. th'[w].pc = l /\ th'[w].blocks = SubSeq(th[w].blocks, 1, i - 1)
    BY <2>1, Typed DEF Inv, TypeOK, Thread
  <2>3. th'[w].pc \notin {"mkdir", "rmdir", "enter", "inplace", "cow", "redirect", "close"}
    BY <2>2
  <2>4. MetaKnown(w)'
    BY <1>2, <1>5, <1>8, <2>3, DropKnown DEF MetaKnown
  <2>5. /\ DOMAIN th'[w].blocks = 1 .. (i - 1)
        /\ \A j \in 1 .. (i - 1) : th'[w].blocks[j] = th[w].blocks[j]
    BY <1>5, <2>2
  <2>6. DOMAIN th[w].blocks = 1 .. i
    BY <1>5, <1>8
  <2>7. ASSUME NEW j \in 1 .. MaxLogical PROVE links[Ft(w)][j] = Place(w, j)'
    <3>1. j \in 1 .. (i - 1) <=> j \in 1 .. i /\ j # i
      BY <1>5
    <3>2. links[Ft(w)][j] = IF j \in 1 .. (i - 1) THEN th[w].blocks[j] ELSE NoBlock
      BY <1>6, <1>8, <2>6, <3>1
    <3> QED  BY <1>2, <1>3, <1>8, <2>5, <3>2 DEF Place
  <2>8. LinksKnown(w)'
    BY <1>2, <1>5, <2>7 DEF LinksKnown
  <2>9. Asked(w)'
    BY <1>2, <1>5, <1>8, <2>2, DropKnown, PcSets2 DEF Asked
  <2> QED  BY <1>2, <1>3, <1>5, <1>8, <2>4, <2>8, <2>9, PlainKnown
<1>9. HandlerInv(w)'
  BY <1>7, <1>8
<1> QED  BY <1>2, <1>3, <1>9

LEMMA StatKept ==
  ASSUME Inv, Inv', Orderly, BlockInv, NEW w \in Workers, Stat(w)
  PROVE  BlockInv'
<1>1. PICK b : b = th[w].blocks[th[w].i]
  OBVIOUS
<1>2. /\ th[w].pc = "stat" /\ UNCHANGED <<volume, config>>
      /\ IF Refs(b) = {} THEN Goto(w, "free") ELSE NextDrop(w)
  BY <1>1 DEF Stat, At, disk, volume
<1>3. /\ dirs' = dirs /\ meta' = meta /\ links' = links /\ used' = used
      /\ content' = content /\ hashIndex' = hashIndex
  BY <1>2 DEF volume
<1>4. Works(w) /\ Op(w) # "COMMIT" /\ \A c : InHand(w, c) <=> c = b
  BY <1>1, <1>2, DropKnown DEF InHand
<1>5. CASE Refs(b) # {}
  <2>1. NextDrop(w)
    BY <1>2, <1>5
  <2>2. /\ HandlerInv(w)' /\ OnlyMoves(w) /\ th'[w].req = th[w].req /\ Works(w)'
        /\ th'[w].pc \notin HandPCs \cup LoopPCs
    BY <1>2, <1>3, <2>1, NextDropKnown
  <2>3. ~Nowhere(b)'
    BY <1>3, <1>5 DEF Nowhere, Refs
  <2>4. HandEffect(w)
    BY <1>4, <2>2, <2>3, Vacuous DEF HandEffect
  <2>5. Effect(w) /\ EntryEffect(w) /\ RestEffect(w)
    BY <1>2, <1>4, <2>2, <2>4, Silent DEF CommitGoesOn, RestEffect
  <2> QED  BY <2>2, <2>5, StepKept
<1>6. CASE Refs(b) = {}
  <2>1. Goto(w, "free")
    BY <1>2, <1>6
  <2>2. /\ OnlyMoves(w) /\ th'[w].pc = "free" /\ th'[w].req = th[w].req
        /\ th'[w].blocks = th[w].blocks /\ th'[w].i = th[w].i
        /\ Op(w)' = Op(w) /\ Ft(w)' = Ft(w) /\ Dest(w)' = Dest(w)
    BY <2>1, GotoFacts
  <2>3. Works(w)' /\ th'[w].pc \notin LoopPCs /\ \A c : InHand(w, c)' <=> c = b
    BY <1>1, <2>2, PcSets2 DEF Works, InHand
  <2>4. HandEffect(w)
    BY <1>4, <2>3 DEF HandEffect
  <2>5. Effect(w) /\ EntryEffect(w) /\ RestEffect(w)
    BY <1>2, <1>4, <2>2, <2>3, <2>4, Silent DEF CommitGoesOn, RestEffect
  <2>6. Asked(w)'
    BY <1>2, <2>2, DropKnown, PcSets2 DEF Asked
  <2>7. MetaKnown(w)'
    <3>1. th'[w].pc \notin {"mkdir", "rmdir", "enter", "inplace", "cow", "redirect", "close"}
      BY <2>2
    <3> QED  BY <1>2, <1>3, <2>2, <3>1, DropKnown DEF MetaKnown
  <2>8. LinksKnown(w)'
    <3>1. \A j : Place(w, j)' = Place(w, j)
      BY <1>2, <2>2, PcSets2 DEF Place
    <3> QED  BY <1>3, <1>4, <2>2, <3>1, Parts DEF LinksKnown
  <2>9. b \in Blocks /\ Nowhere(b)'
    <3>1. b \in Blocks
      BY <1>1, <1>2, DropKnown
    <3>2. ASSUME NEW ft \in FT, NEW j \in 1 .. MaxLogical, links[ft][j] = b PROVE FALSE
      <4>1. <<ft, j>> \in Refs(b)
        BY <3>2 DEF Refs
      <4> QED  BY <1>6, <4>1
    <3> QED  BY <1>3, <3>1, <3>2 DEF Nowhere
  <2>10. HandKnown(w)'
    <3>1. \A v \in Workers : v # w => th'[v] = th[v]
      BY <2>5, OnlyOne DEF Effect
    <3>2. HandKnown(w) /\ InHand(w, b)
      BY <1>4, Parts
    <3>3. ASSUME b # 0, NEW v \in Workers, v # w PROVE ~InHand(v, b)'
      BY <2>9, <3>1, <3>2, <3>3 DEF HandKnown, InHand
    <3>4. ASSUME b # 0, NEW v \in Workers, th'[v].pc \in LoopPCs, NEW d \in Data
          PROVE  th'[v].bhi[d] # b
      BY <2>3, <2>9, <3>1, <3>2, <3>4 DEF HandKnown
    <3>5. ASSUME b # 0, NEW d \in Data, hashIndex'[d] = b
          PROVE  Unhashing(b)' \/ Dooms(w)'
      <4>1. Unhashing(b) \/ Dooms(w)
        BY <1>3, <2>9, <3>2, <3>5 DEF HandKnown
      <4>2. Dooms(w) => Dooms(w)'
        BY <1>3, <2>2, <2>3 DEF Dooms
      <4> QED  BY <1>2, <2>5, <4>1, <4>2, UnhashingKept DEF Effect
    <3>6. b \in used'
      BY <1>3, <2>9, <3>2 DEF HandKnown
    <3>7. ASSUME NEW c \in Blocks, InHand(w, c)'
          PROVE  /\ c \in used' /\ Nowhere(c)'
                 /\ c # 0 => \A v \in Workers : v # w => ~InHand(v, c)'
                 /\ c # 0 => \A v \in Workers : th'[v].pc \in LoopPCs =>
                               \A d \in Data : th'[v].bhi[d] # c
                 /\ c # 0 => \A d \in Data : hashIndex'[d] = c => Unhashing(c)' \/ Dooms(w)'
      <4>1. c = b
        BY <2>3, <3>7
      <4> QED  BY <2>9, <3>3, <3>4, <3>5, <3>6, <4>1
    <3> QED  BY <2>2, <3>7 DEF HandKnown
  <2>11. CopyKnown(w)' /\ RoomKnown(w)' /\ CopySound(w)' /\ HashKnown(w)'
    <3>1. Op(w) # "TAG"
      BY <1>2, DropKnown
    <3> QED  BY <2>2, <2>3, <3>1, Vacuous DEF Op
  <2>12. HandlerInv(w)'
    BY <2>6, <2>7, <2>8, <2>10, <2>11 DEF HandlerInv
  <2> QED  BY <2>5, <2>12, StepKept
<1> QED  BY <1>5, <1>6

LEMMA FreeKept ==
  ASSUME Inv, Inv', Orderly, BlockInv, NEW w \in Workers, Free(w)
  PROVE  BlockInv'
<1>1. PICK b : b = th[w].blocks[th[w].i]
  OBVIOUS
<1>2. /\ th[w].pc = "free" /\ UNCHANGED <<dirs, meta, links, content, hashIndex, config>>
      /\ used' = used \ {b}
      /\ IF Op(w) = "DELETE" THEN Goto(w, "unhash") ELSE NextDrop(w)
  BY <1>1 DEF Free, At
<1>3. /\ Works(w) /\ Op(w) \in {"TRUNCATE", "DELETE"} /\ b \in Blocks
      /\ \A c : InHand(w, c) <=> c = b
  BY <1>1, <1>2, DropKnown DEF InHand
<1>4. /\ HandlerInv(w)' /\ OnlyMoves(w) /\ th'[w].req = th[w].req /\ Works(w)'
      /\ th'[w].pc \notin HandPCs \cup LoopPCs
      /\ Dooms(w) => Unhashing(b)'
  <2>1. CASE Op(w) # "DELETE"
    <3>1. NextDrop(w) /\ ~Dooms(w)
      BY <1>2, <2>1 DEF Dooms
    <3> QED  BY <1>2, <3>1, NextDropKnown
  <2>2. CASE Op(w) = "DELETE"
    <3>1. /\ OnlyMoves(w) /\ th'[w].pc = "unhash" /\ th'[w].req = th[w].req
          /\ th'[w].blocks = th[w].blocks /\ th'[w].i = th[w].i
          /\ Op(w)' = Op(w) /\ Ft(w)' = Ft(w) /\ Dest(w)' = Dest(w)
      BY <1>2, <2>2, GotoFacts
    <3>2. Works(w)' /\ th'[w].pc \in LockedPCs \ (HandPCs \cup LoopPCs)
      BY <3>1, PcSets2 DEF Works, HandPCs
    <3>3. Asked(w)'
      BY <1>2, <2>2, <3>1, DropKnown, PcSets2 DEF Asked
    <3>4. MetaKnown(w)'
      <4>1. th'[w].pc \notin {"mkdir", "rmdir", "enter", "inplace", "cow", "redirect", "close"}
        BY <3>1
      <4> QED  BY <1>2, <2>2, <3>1, <4>1, DropKnown DEF MetaKnown
    <3>5. LinksKnown(w)'
      <4>1. \A j : Place(w, j)' = Place(w, j)
        BY <1>2, <3>1, PcSets2 DEF Place
      <4> QED  BY <1>2, <1>3, <3>1, <4>1, Parts DEF LinksKnown
    <3>6. Dooms(w) => Unhashing(b)'
      BY <1>1, <1>2, <3>1, <3>2 DEF Dooms, Unhashing
    <3> QED  BY <2>2, <3>1, <3>2, <3>3, <3>4, <3>5, <3>6, PlainKnown
  <2> QED  BY <2>1, <2>2
<1>5. TagEffect(w) /\ EntryEffect(w) /\ RestEffect(w)
  BY <1>2, <1>4 DEF TagEffect, EntryEffect, SameTag, RestEffect
<1>6. LinkEffect(w)
  BY <1>2, <1>3, <1>4, LinksSame DEF CommitGoesOn
<1>7. BlockEffect(w)
  BY <1>2, <1>3, <1>4 DEF BlockEffect
<1>8. IndexEffect(w)
  BY <1>2, <1>4 DEF IndexEffect
<1>9. HandEffect(w)
  BY <1>2, <1>3, <1>4, Vacuous DEF HandEffect
<1> QED  BY <1>4, <1>5, <1>6, <1>7, <1>8, <1>9, StepKept DEF Effect

LEMMA UnhashKept ==
  ASSUME Inv, Inv', Orderly, BlockInv, NEW w \in Workers, Unhash(w)
  PROVE  BlockInv'
<1>1. PICK b : b = th[w].blocks[th[w].i]
  OBVIOUS
<1>2. /\ th[w].pc = "unhash" /\ UNCHANGED <<dirs, meta, links, used, content, config>>
      /\ \/ HashesOf(b) = {} /\ hashIndex' = hashIndex
         \/ \E d \in HashesOf(b) : hashIndex' = [hashIndex EXCEPT ![d] = NoBlock]
      /\ NextDrop(w)
  BY <1>1 DEF Unhash, At
<1>3. Works(w) /\ Op(w) \in {"TRUNCATE", "DELETE"} /\ b \in Blocks /\ b # NoBlock
      /\ th[w].pc \notin HandPCs
  BY <1>1, <1>2, DropKnown DEF Blocks, NoBlock, HandPCs
<1>4. /\ HandlerInv(w)' /\ OnlyMoves(w) /\ th'[w].req = th[w].req /\ Works(w)'
      /\ th'[w].pc \notin HandPCs \cup LoopPCs
  BY <1>2, NextDropKnown
<1>5. /\ \A d \in Data : hashIndex'[d] \in {hashIndex[d], NoBlock}
      /\ \A d \in Data : hashIndex'[d] # b
  <2>1. CASE HashesOf(b) = {} /\ hashIndex' = hashIndex
    <3>1. ASSUME NEW d \in Data, hashIndex[d] = b PROVE FALSE
      <4>1. d \in HashesOf(b)
        BY <3>1 DEF HashesOf
      <4> QED  BY <2>1, <4>1
    <3> QED  BY <2>1, <3>1
  <2>2. ASSUME NEW d \in HashesOf(b), hashIndex' = [hashIndex EXCEPT ![d] = NoBlock]
        PROVE  /\ \A e \in Data : hashIndex'[e] \in {hashIndex[e], NoBlock}
               /\ \A e \in Data : hashIndex'[e] # b
    <3>1. d \in Data /\ hashIndex[d] = b
      BY <2>2 DEF HashesOf
    <3>2. hashIndex'[d] = NoBlock /\ \A e \in Data : e # d => hashIndex'[e] = hashIndex[e]
      BY <2>2, <3>1 DEF Inv, TypeOK
    <3>3. \A e \in Data : hashIndex[e] = b => e = d
      BY <1>3, <3>1 DEF BlockInv, VolumeInv, IndexSound
    <3> QED  BY <1>3, <3>2, <3>3
  <2> QED  BY <1>2, <2>1, <2>2
<1>6. TagEffect(w) /\ EntryEffect(w) /\ RestEffect(w)
  BY <1>2, <1>4 DEF TagEffect, EntryEffect, SameTag, RestEffect
<1>7. LinkEffect(w)
  BY <1>2, <1>3, <1>4, LinksSame DEF CommitGoesOn
<1>8. BlockEffect(w) /\ HandEffect(w)
  BY <1>2, <1>3, <1>4, Vacuous DEF BlockEffect, HandEffect
<1>9. IndexEffect(w)
  BY <1>1, <1>2, <1>4, <1>5 DEF IndexEffect
<1> QED  BY <1>4, <1>6, <1>7, <1>8, <1>9, StepKept DEF Effect

LEMMA RemoveDirectoryKept ==
  ASSUME Inv, Inv', Orderly, BlockInv, NEW w \in Workers, RemoveDirectory(w)
  PROVE  BlockInv'
<1>1. /\ th[w].pc = "rmdir" /\ UNCHANGED <<used, content, hashIndex, config>>
      /\ dirs' = dirs \ {Ft(w)} /\ meta' = [meta EXCEPT ![Ft(w)] = NoMeta]
      /\ links' = [links EXCEPT ![Ft(w)] = [i \in 1 .. MaxLogical |-> NoBlock]]
      /\ th' = [th EXCEPT ![w] = IdleThread]
  BY DEF RemoveDirectory, At, Finish
<1>2. /\ Works(w) /\ Op(w) = "DELETE" /\ Dest(w) = Ft(w) /\ Ft(w) \in FT /\ Ft(w) # Base
      /\ th[w].i = Len(th[w].blocks) + 1 /\ th[w].blocks \in Seq(Blocks)
  BY <1>1, Parts, Typed, PcSets2 DEF Works, Asked, Dest, MetaKnown, Thread
<1>3. \A j \in 1 .. MaxLogical : links[Ft(w)][j] = NoBlock
  <2>1. ASSUME NEW j \in 1 .. MaxLogical PROVE Place(w, j) = NoBlock
    <3>1. j \notin DOMAIN th[w].blocks \/ j < th[w].i
      BY <1>2
    <3> QED  BY <1>2, <3>1 DEF Place
  <2> QED  BY <1>2, <2>1, Parts DEF LinksKnown
<1>4. /\ \A ft \in FT : ft # Ft(w) => links'[ft] = links[ft] /\ meta'[ft] = meta[ft]
      /\ meta'[Ft(w)] = NoMeta /\ \A j \in 1 .. MaxLogical : links'[Ft(w)][j] = NoBlock
  BY <1>1, <1>2 DEF Inv, TypeOK
<1>5. OnlyMoves(w) /\ th'[w].pc = "idle"
  BY <1>1 DEF OnlyMoves, IdleThread, Inv, TypeOK
<1>6. ~Works(w)' /\ th'[w].pc \notin HandPCs \cup LoopPCs /\ th[w].pc \notin HandPCs
  BY <1>1, <1>5, PcSets2 DEF Works, HandPCs
<1>7. TagEffect(w) /\ EntryEffect(w)
  BY <1>1, <1>2, <1>4, <1>5, <1>6, PcSets2 DEF TagEffect, EntryEffect, SameTag
<1>8. RestEffect(w)
  BY <1>2, <1>4 DEF RestEffect, Entry, NoMeta
<1>9. LinkEffect(w)
  <2>1. CommitGoesOn(w)
    BY <1>2 DEF CommitGoesOn
  <2>2. \A ft \in FT : \A j \in 1 .. MaxLogical : links'[ft][j] = links[ft][j]
    BY <1>3, <1>4
  <2>3. ASSUME NEW ft \in FT, NEW j \in 1 .. MaxLogical, Settled(ft, j)
        PROVE  Settled(ft, j)' \/ links'[ft][j] = NoBlock
    <3>1. CASE ft = Ft(w)
      BY <1>4, <2>3, <3>1
    <3>2. CASE ft # Ft(w)
      BY <1>4, <1>5, <1>6, <2>1, <2>3, <3>2, SettledStays
    <3> QED  BY <3>1, <3>2
  <2> QED  BY <1>1, <2>2, <2>3 DEF LinkEffect
<1>10. BlockEffect(w) /\ IndexEffect(w) /\ HandEffect(w)
  BY <1>1, <1>6, Vacuous DEF BlockEffect, IndexEffect, HandEffect
<1>11. HandlerInv(w)'
  BY <1>5, IdleAsked, EarlyKnown
<1> QED  BY <1>7, <1>8, <1>9, <1>10, <1>11, StepKept DEF Effect

-----------------------------------------------------------------------------
(* TAG_FILE *)

LEMMA TagKnown ==
  ASSUME Inv, Orderly, BlockInv, NEW w \in Workers, th[w].pc \in {"clone", "link"}
  PROVE  /\ Works(w) /\ Op(w) = "TAG" /\ Dest(w) \in FT /\ Dest(w) # Base /\ Ft(w) \in FT
         /\ Dest(w) \in dirs /\ meta[Dest(w)] = NoMeta /\ th[w].req \in Requests[w]
         /\ th[w].blocks \in Seq(Blocks) /\ th[w].orig \in Seq(Blocks)
         /\ Len(th[w].blocks) \in Nat /\ Len(th[w].orig) \in Nat
         /\ th[w].i = Len(th[w].blocks) + 1 /\ Len(th[w].blocks) <= Len(th[w].orig)
         /\ Len(th[w].orig) <= MaxLogical
         /\ \A j \in 1 .. MaxLogical : links[Dest(w)][j] = Entry(th[w].blocks, j)
<1>1. Works(w) /\ Op(w) = "TAG" /\ th[w].req \in Requests[w]
  BY Parts, PcSets2 DEF Works, Asked
<1>2. /\ Dest(w) \in FT /\ Dest(w) # Base /\ Ft(w) \in FT /\ Dest(w) \in dirs
      /\ meta[Dest(w)] = NoMeta
  BY <1>1, Parts, Typed DEF MetaKnown
<1>3. /\ th[w].blocks \in Seq(Blocks) /\ th[w].orig \in Seq(Blocks)
      /\ th[w].i = Len(th[w].blocks) + 1 /\ Len(th[w].orig) <= MaxLogical
  BY Typed DEF Thread, WellShaped
<1>4. Len(th[w].blocks) <= Len(th[w].orig)
  BY <1>1, Parts DEF CopyKnown
<1>5. \A j \in 1 .. MaxLogical : links[Dest(w)][j] = Entry(th[w].blocks, j)
  BY <1>1, Parts, PcSets2 DEF LinksKnown, Place, Entry
<1> QED  BY <1>1, <1>2, <1>3, <1>4, <1>5

(* The contents of what is linked stay when a free block is written. *)
LEMMA LinkedContent ==
  ASSUME Inv, BlockInv, NEW ft \in FT, NEW j \in 1 .. MaxLogical, NEW c \in Blocks,
         links[ft][j] = c
  PROVE  c \in used /\ content[c] \in Data
<1>1. c # NoBlock
  BY DEF Blocks, NoBlock
<1> QED  BY <1>1 DEF BlockInv, VolumeInv, LinkedBlocksAllocated, LinkedWritten

LEMMA OneLess ==
  ASSUME NEW S \in SUBSET Blocks, NEW b \in S
  PROVE  Cardinality(S \ {b}) = Cardinality(S) - 1 /\ Cardinality(S) \in Nat
  BY FreeIsFinite, FS_RemoveElement

LEMMA TagCloneKept ==
  ASSUME Inv, Inv', Orderly, BlockInv, NEW w \in Workers, TagClone(w)
  PROVE  BlockInv'
<1>1. /\ th[w].pc = "clone" /\ UNCHANGED <<dirs, meta, links, hashIndex, config>>
      /\ th[w].i <= Len(th[w].orig)
  BY DEF TagClone, At
<1>2. PICK b \in Blocks : /\ CloneInto(b, th[w].orig[th[w].i])
                          /\ th' = [th EXCEPT ![w].pc = "link", ![w].new = b]
  BY DEF TagClone
<1>3. PICK src : src = th[w].orig[th[w].i]
  OBVIOUS
<1>4. /\ Effect(w) /\ EntryEffect(w) /\ RestEffect(w) /\ HandKnown(w)'
      /\ b \in FreeBlocks /\ used' = used \cup {b} /\ content'[b] \in BufferOf(src)
      /\ \A c \in Blocks : c # b => content'[c] = content[c]
  BY <1>1, <1>2, <1>3, CloneEffect
<1>5. /\ th'[w].pc = "link" /\ th'[w].req = th[w].req /\ th'[w].blocks = th[w].blocks
      /\ th'[w].orig = th[w].orig /\ th'[w].i = th[w].i /\ th'[w].new = b
      /\ th'[w].blocks = th[w].blocks
  BY <1>2, Typed DEF Inv, TypeOK, Thread
<1>6. Op(w)' = Op(w) /\ Ft(w)' = Ft(w) /\ Dest(w)' = Dest(w)
  BY <1>5 DEF Op, Ft, Dest
<1>7. Works(w) /\ Works(w)' /\ Op(w) = "TAG"
  BY <1>1, <1>5, TagKnown, PcSets2 DEF Works
<1>8. Asked(w)'
  BY <1>1, <1>5, <1>6, TagKnown, PcSets2 DEF Asked
<1>9. MetaKnown(w)'
  BY <1>1, <1>5, <1>6, <1>7, TagKnown DEF MetaKnown
<1>10. LinksKnown(w)'
  <2>1. \A j : Place(w, j)' = Place(w, j)
    BY <1>1, <1>5, <1>6, PcSets2 DEF Place
  <2> QED  BY <1>1, <1>6, <1>7, <2>1, Parts DEF LinksKnown
<1>11. th[w].i \in DOMAIN th[w].orig /\ DOMAIN th[w].blocks \subseteq DOMAIN th[w].orig
  BY <1>1, TagKnown
<1>12. \A j \in DOMAIN th[w].orig : content'[th[w].orig[j]] = content[th[w].orig[j]]
  <2>1. ASSUME NEW j \in DOMAIN th[w].orig PROVE content'[th[w].orig[j]] = content[th[w].orig[j]]
    <3>1. PICK c : c = th[w].orig[j]
      OBVIOUS
    <3>2. c \in Blocks /\ c \in used
      BY <1>7, <2>1, <3>1, TagLinks, LinkedContent
    <3> QED  BY <1>4, <3>1, <3>2 DEF FreeBlocks
  <2> QED  BY <2>1
<1>13. \A j \in DOMAIN th[w].blocks : content'[th[w].blocks[j]] = content[th[w].blocks[j]]
  <2>1. ASSUME NEW j \in DOMAIN th[w].blocks
        PROVE  content'[th[w].blocks[j]] = content[th[w].blocks[j]]
    <3>1. PICK c : c = th[w].blocks[j]
      OBVIOUS
    <3>2. c \in Blocks /\ c \in used
      BY <1>7, <2>1, <3>1, TagLinks, LinkedContent
    <3> QED  BY <1>4, <3>1, <3>2 DEF FreeBlocks
  <2> QED  BY <2>1
<1>14. content'[b] = content[src]
  <2>1. src \in Blocks /\ content[src] \in Data
    BY <1>3, <1>7, <1>11, TagLinks, LinkedContent
  <2> QED  BY <1>4, <2>1 DEF BufferOf
<1>15. CopyKnown(w)'
  BY <1>1, <1>3, <1>5, <1>6, <1>7, <1>11, <1>12, <1>13, <1>14, Parts DEF CopyKnown
<1>16. RoomKnown(w)'
  <2>1. CASE Len(th[w].orig) <= 1
    BY <1>5, <2>1 DEF RoomKnown
  <2>2. CASE ~(Len(th[w].orig) <= 1)
    <3>1. /\ \A v \in Workers : v # w => ~Allocates(v)
          /\ Cardinality(FreeBlocks) + Len(th[w].blocks) + 0 >= Len(th[w].orig)
      BY <1>1, <1>7, <2>2, Parts DEF RoomKnown
    <3>2. FreeBlocks' = FreeBlocks \ {b}
      BY <1>4 DEF FreeBlocks
    <3>3. PICK n, m : n = Cardinality(FreeBlocks) /\ m = Cardinality(FreeBlocks')
      OBVIOUS
    <3>4. n \in Nat /\ m = n - 1
      BY <1>4, <3>2, <3>3, OneLess DEF FreeBlocks
    <3>5. m + Len(th[w].blocks) + 1 >= Len(th[w].orig)
      BY <1>1, <3>1, <3>3, <3>4, TagKnown
    <3> QED  BY <1>5, <3>1, <3>3, <3>5 DEF RoomKnown
  <2> QED  BY <2>1, <2>2
<1>17. CopySound(w)' /\ HashKnown(w)'
  BY <1>5, Vacuous, PcSets2
<1> QED  BY <1>4, <1>8, <1>9, <1>10, <1>15, <1>16, <1>17, StepKept DEF HandlerInv

LEMMA TagCloneFailsKept ==
  ASSUME Inv, Inv', Orderly, BlockInv, NEW w \in Workers, TagCloneFails(w)
  PROVE  BlockInv'
<1>1. /\ th[w].pc = "clone" /\ UNCHANGED <<dirs, meta, links, content, hashIndex, config>>
      /\ th[w].i <= Len(th[w].orig) /\ FreeBlocks = {}
      /\ used' = used \ {th[w].blocks[j] : j \in DOMAIN th[w].blocks}
      /\ th' = [th EXCEPT ![w] = IdleThread]
  BY DEF TagCloneFails, At, Finish
<1>2. Len(th[w].blocks) = 0
  <2>1. Len(th[w].orig) <= 1 \/ Cardinality(FreeBlocks) + Len(th[w].blocks) + 0 >= Len(th[w].orig)
    BY <1>1, TagKnown, Parts DEF RoomKnown
  <2>2. Cardinality(FreeBlocks) = 0
    BY <1>1, FS_EmptySet
  <2> QED  BY <1>1, <2>1, <2>2, TagKnown
<1>3. DOMAIN th[w].blocks = {}
  BY <1>1, <1>2, TagKnown
<1>4. UNCHANGED volume
  BY <1>1, <1>3 DEF volume
<1>5. \A j \in 1 .. MaxLogical : Place(w, j) = Entry(meta[Dest(w)].blocks, j)
  BY <1>1, <1>3, TagKnown DEF Place, Entry, NoMeta
<1> QED  BY <1>1, <1>4, <1>5, TagKnown, FinishKept DEF HandPCs

LEMMA OneMore ==
  ASSUME NEW s \in Seq(Blocks), NEW b \in Blocks, NEW i, i = Len(s) + 1
  PROVE  /\ DOMAIN Append(s, b) = (DOMAIN s) \cup {i} /\ Append(s, b)[i] = b
         /\ \A j \in DOMAIN s : j # i /\ Append(s, b)[j] = s[j]
         /\ Len(Append(s, b)) = i
<1>1. Len(Append(s, b)) = i /\ DOMAIN Append(s, b) = 1 .. i /\ Len(s) \in Nat
  OBVIOUS
<1>2. DOMAIN s = 1 .. Len(s)
  OBVIOUS
<1>3. 1 .. i = (1 .. Len(s)) \cup {i}
  BY <1>1
<1>4. \A j \in 1 .. Len(s) : j # i /\ Append(s, b)[j] = s[j]
  BY <1>1
<1>5. Append(s, b)[i] = b
  OBVIOUS
<1> QED  BY <1>1, <1>2, <1>3, <1>4, <1>5

LEMMA TagLinkKept ==
  ASSUME Inv, Inv', Orderly, BlockInv, NEW w \in Workers, TagLink(w)
  PROVE  BlockInv'
<1>1. PICK i, b :
        /\ i = th[w].i /\ b = th[w].new
        /\ th[w].pc = "link" /\ UNCHANGED <<dirs, meta, used, content, hashIndex, config>>
        /\ links' = WithLink(links, Dest(w), i, b)
        /\ th' = [th EXCEPT ![w].pc = "clone", ![w].i = i + 1, ![w].new = NoBlock,
                            ![w].blocks = Append(th[w].blocks, b)]
  BY DEF TagLink, At
<1>2. /\ b \in Blocks \cap used /\ b \notin {0, NoBlock} /\ Nowhere(b) /\ InHand(w, b)
      /\ \A c : InHand(w, c) => c = b
  <2>1. \A c : InHand(w, c) => c = b
    BY <1>1 DEF InHand
  <2> QED  BY <1>1, <2>1, OwnHand
<1>3. /\ OnlyMoves(w) /\ th'[w].pc = "clone" /\ th'[w].req = th[w].req
      /\ th'[w].blocks = Append(th[w].blocks, b) /\ th'[w].orig = th[w].orig
  <2>1. PICK k, s : k = i + 1 /\ s = Append(th[w].blocks, b)
    OBVIOUS
  <2>2. OnlyMoves(w) /\ th'[w] = [th[w] EXCEPT !.pc = "clone", !.i = k, !.new = NoBlock,
                                               !.blocks = s]
    BY <1>1, <2>1, Threads DEF OnlyMoves
  <2> QED  BY <2>1, <2>2, Typed DEF Thread
<1>4. Op(w)' = Op(w) /\ Ft(w)' = Ft(w) /\ Dest(w)' = Dest(w)
  BY <1>3 DEF Op, Ft, Dest
<1>5. /\ Works(w) /\ Works(w)' /\ Op(w) = "TAG" /\ i = Len(th[w].blocks) + 1
      /\ Dest(w) \in FT /\ Dest(w) \in dirs
      /\ i <= Len(th[w].orig) /\ i \in 1 .. MaxLogical
  <2>1. i <= Len(th[w].orig)
    BY <1>1, Typed DEF WellShaped
  <2>2. Works(w) /\ Op(w) = "TAG"
    BY <1>1, TagKnown, PcSets2 DEF Works
  <2>3. i = Len(th[w].blocks) + 1 /\ Dest(w) \in FT /\ Dest(w) \in dirs /\ i \in 1 .. MaxLogical
    BY <1>1, <2>1, TagKnown, VolumeAssumption
  <2> QED  BY <1>3, <2>1, <2>2, <2>3, PcSets2 DEF Works
<1>6. th'[w].pc \notin HandPCs \cup LoopPCs
  BY <1>3, PcSets2 DEF HandPCs
<1>7. links[Dest(w)][i] = NoBlock
  BY <1>1, <1>5, TagKnown DEF Entry
<1>8. /\ links'[Dest(w)][i] = b
      /\ \A ft \in FT : ft # Dest(w) => links'[ft] = links[ft]
      /\ \A ft \in FT : \A j \in 1 .. MaxLogical :
           ft # Dest(w) \/ j # i => links'[ft][j] = links[ft][j]
  BY <1>1, <1>5, <1>7, LinkTable DEF WithLink
<1>9. TagEffect(w) /\ EntryEffect(w) /\ RestEffect(w)
  BY <1>1, <1>3, <1>5, <1>8, TagKnown DEF TagEffect, EntryEffect, SameTag, RestEffect
<1>9a. meta' = meta /\ OnlyMoves(w) /\ th'[w].req = th[w].req
  BY <1>1, <1>3
<1>10. LinkEffect(w)
  <2>1. CommitGoesOn(w)
    BY <1>5 DEF CommitGoesOn
  <2>2. ASSUME NEW ft \in FT, NEW j \in 1 .. MaxLogical, Settled(ft, j)
        PROVE  Settled(ft, j)'
    BY <1>9a, <2>1, <2>2, SettledStays
  <2>3. \A ft \in FT : \A j \in 1 .. MaxLogical : links'[ft][j] = b => ft = Dest(w) /\ j = i
    BY <1>2, <1>8 DEF Nowhere
  <2>4. \A ft \in FT : \A j \in 1 .. MaxLogical :
          links'[ft][j] = links[ft][j] \/ links'[ft][j] = b
    BY <1>8
  <2>5. \A ft \in FT : \A j \in 1 .. MaxLogical : \A c \in Blocks :
          links[ft][j] = c => links'[ft][j] = c
    BY <1>7, <1>8 DEF Blocks, NoBlock
  <2>6. \A f, g \in FT : \A k, j \in 1 .. MaxLogical :
          links'[f][k] = b /\ links'[g][j] = b => f = g /\ k = j
    BY <2>3
  <2>7. th[w].pc = "link" /\ th[w].new = b
    BY <1>1
  <2> QED  BY <2>2, <2>4, <2>5, <2>6, <2>7 DEF LinkEffect
<1>11. BlockEffect(w) /\ IndexEffect(w)
  BY <1>1, <1>6 DEF BlockEffect, IndexEffect
<1>12. HandEffect(w)
  <2>1. ~Nowhere(b)'
    BY <1>5, <1>8 DEF Nowhere
  <2> QED  BY <1>2, <1>6, <2>1, Vacuous DEF HandEffect
<1>13. Asked(w)'
  BY <1>1, <1>3, <1>4, TagKnown, PcSets2 DEF Asked
<1>14. MetaKnown(w)'
  BY <1>1, <1>3, <1>4, <1>5, TagKnown DEF MetaKnown
<1>15. /\ DOMAIN th'[w].blocks = (DOMAIN th[w].blocks) \cup {i} /\ th'[w].blocks[i] = b
       /\ \A j \in DOMAIN th[w].blocks : j # i /\ th'[w].blocks[j] = th[w].blocks[j]
       /\ Len(th'[w].blocks) = i
  <2>1. PICK s : s = th[w].blocks
    OBVIOUS
  <2>2. s \in Seq(Blocks) /\ i = Len(s) + 1 /\ b \in Blocks
    BY <1>1, <1>2, <1>5, <2>1, TagKnown
  <2>3. th'[w].blocks = Append(s, b)
    BY <1>3, <2>1
  <2>4. /\ DOMAIN Append(s, b) = (DOMAIN s) \cup {i} /\ Append(s, b)[i] = b
        /\ \A j \in DOMAIN s : j # i /\ Append(s, b)[j] = s[j]
        /\ Len(Append(s, b)) = i
    BY <2>2, OneMore
  <2> QED  BY <2>1, <2>3, <2>4
<1>16. LinksKnown(w)'
  <2>1. ASSUME NEW j \in 1 .. MaxLogical
        PROVE  links'[Dest(w)][j] = Entry(th'[w].blocks, j)
    <3>1. links[Dest(w)][j] = Entry(th[w].blocks, j)
      BY <1>1, <2>1, TagKnown
    <3>2. CASE j = i
      BY <1>8, <1>15, <3>2 DEF Entry
    <3>3. CASE j # i
      BY <1>5, <1>8, <1>15, <2>1, <3>1, <3>3 DEF Entry
    <3> QED  BY <3>2, <3>3
  <2>2. \A j : Place(w, j)' = Entry(th'[w].blocks, j)
    BY <1>3, <1>4, <1>5, PcSets2 DEF Place, Entry
  <2> QED  BY <1>4, <2>1, <2>2 DEF LinksKnown
<1>17. CopyKnown(w)'
  <2>1. content[b] = content[th[w].orig[i]]
    BY <1>1, <1>5, Parts DEF CopyKnown
  <2>2. \A j \in DOMAIN th'[w].blocks : content[th'[w].blocks[j]] = content[th[w].orig[j]]
    <3>1. \A j \in DOMAIN th[w].blocks : content[th[w].blocks[j]] = content[th[w].orig[j]]
      BY <1>5, Parts DEF CopyKnown
    <3>2. ASSUME NEW j \in DOMAIN th'[w].blocks
          PROVE  content[th'[w].blocks[j]] = content[th[w].orig[j]]
      <4>1. CASE j = i
        BY <1>15, <2>1, <4>1
      <4>2. CASE j \in DOMAIN th[w].blocks
        BY <1>15, <3>1, <4>2
      <4> QED  BY <1>15, <4>1, <4>2
    <3> QED  BY <3>2
  <2>3. th[w].orig = th'[w].orig /\ th'[w].pc \notin {"link", "open", "close"}
    BY <1>3
  <2>4. Ft(w) # Dest(w) /\ meta[Ft(w)].blocks = th[w].orig
    BY <1>5, Parts DEF CopyKnown
  <2>5. Len(th'[w].blocks) <= Len(th'[w].orig)
    BY <1>5, <1>15, <2>3
  <2> QED  BY <1>1, <1>4, <2>2, <2>3, <2>4, <2>5 DEF CopyKnown
<1>18. RoomKnown(w)'
  <2>1. FreeBlocks' = FreeBlocks
    BY <1>1 DEF FreeBlocks
  <2>2. CASE Len(th[w].orig) <= 1
    BY <1>3, <2>2 DEF RoomKnown
  <2>3. CASE ~(Len(th[w].orig) <= 1)
    <3>1. /\ \A v \in Workers : v # w => ~Allocates(v)
          /\ Cardinality(FreeBlocks) + Len(th[w].blocks) + 1 >= Len(th[w].orig)
      BY <1>1, <1>5, <2>3, Parts DEF RoomKnown
    <3>2. Cardinality(FreeBlocks) \in Nat
      BY FreeIsFinite DEF FreeBlocks
    <3>3. Cardinality(FreeBlocks) + Len(th'[w].blocks) + 0 >= Len(th[w].orig)
      BY <1>1, <1>5, <1>15, <3>1, <3>2, TagKnown
    <3> QED  BY <1>3, <2>1, <3>1, <3>3 DEF RoomKnown
  <2> QED  BY <2>2, <2>3
<1>19. CopySound(w)' /\ HashKnown(w)' /\ HandKnown(w)'
  BY <1>6, Vacuous
<1>20. HandlerInv(w)'
  BY <1>13, <1>14, <1>16, <1>17, <1>18, <1>19 DEF HandlerInv
<1> QED  BY <1>9, <1>10, <1>11, <1>12, <1>20, StepKept DEF Effect

LEMMA TagClonedKept ==
  ASSUME Inv, Inv', Orderly, BlockInv, NEW w \in Workers, TagCloned(w)
  PROVE  BlockInv'
<1>1. /\ th[w].pc = "clone" /\ UNCHANGED <<volume, config>> /\ Goto(w, "open")
      /\ th[w].i > Len(th[w].orig)
  BY DEF TagCloned, At, disk, volume
<1>2. /\ OnlyMoves(w) /\ th'[w].pc = "open" /\ th'[w].req = th[w].req
      /\ th'[w].blocks = th[w].blocks /\ th'[w].orig = th[w].orig /\ th'[w].i = th[w].i
      /\ Op(w)' = Op(w) /\ Ft(w)' = Ft(w) /\ Dest(w)' = Dest(w)
  BY <1>1, GotoFacts
<1>3. /\ dirs' = dirs /\ meta' = meta /\ links' = links /\ used' = used
      /\ content' = content /\ hashIndex' = hashIndex
  BY <1>1 DEF volume
<1>4. Works(w) /\ Works(w)' /\ Op(w) = "TAG"
  BY <1>1, <1>2, TagKnown, PcSets2 DEF Works
<1>5. {"open", "clone"} \subseteq LockedPCs \ (LoopPCs \cup HandPCs)
  BY PcSets2 DEF HandPCs
<1>6. HandEffect(w) /\ RestEffect(w)
  BY <1>1, <1>2, <1>4, <1>5, Vacuous DEF HandEffect, RestEffect
<1>7. Effect(w) /\ EntryEffect(w)
  BY <1>1, <1>2, <1>4, <1>5, <1>6, Silent DEF CommitGoesOn
<1>8. Asked(w)'
  BY <1>1, <1>2, <1>4, TagKnown, PcSets2 DEF Asked
<1>9. MetaKnown(w)'
  BY <1>1, <1>2, <1>3, <1>4, TagKnown DEF MetaKnown
<1>10. LinksKnown(w)'
  <2>1. \A j : Place(w, j)' = Place(w, j)
    BY <1>1, <1>2, PcSets2 DEF Place
  <2> QED  BY <1>2, <1>3, <1>4, <2>1, Parts DEF LinksKnown
<1>11. CopyKnown(w)' /\ RoomKnown(w)'
  <2>1. Len(th[w].blocks) = Len(th[w].orig)
    BY <1>1, TagKnown
  <2> QED  BY <1>1, <1>2, <1>3, <1>4, <2>1, Parts DEF CopyKnown, RoomKnown
<1>12. HandlerInv(w)'
  BY <1>2, <1>5, <1>8, <1>9, <1>10, <1>11, Vacuous DEF HandlerInv
<1> QED  BY <1>6, <1>7, <1>12, StepKept

-----------------------------------------------------------------------------
(* COMMIT_TAG *)

LEMMA CommitKnown ==
  ASSUME Inv, Orderly, BlockInv, NEW w \in Workers, th[w].pc \in {"index"} \cup LoopPCs
  PROVE  /\ Works(w) /\ Op(w) = "COMMIT" /\ Dest(w) = Ft(w) /\ th[w].req \in Requests[w]
         /\ Ft(w) \in FT /\ Ft(w) # Base /\ Ft(w) \in dirs /\ ~Dooms(w)
         /\ meta[Ft(w)].state = "COMMITED" /\ meta[Ft(w)].blocks = th[w].blocks
         /\ th[w].blocks \in Seq(Blocks) /\ Len(th[w].blocks) <= MaxLogical
         /\ Len(th[w].blocks) \in Nat /\ th[w].i \in Nat
         /\ th[w].pc \in LoopPCs \ {"hash"} =>
              /\ th[w].i \in 1 .. MaxLogical /\ th[w].i \in DOMAIN th[w].blocks
              /\ Current(w) \in Blocks /\ Existing(w) \in Blocks \cup {NoBlock}
              /\ th[w].hash \in Data
         /\ \A j \in 1 .. MaxLogical :
              links[Ft(w)][j] = IF th[w].pc \in Relinked /\ j = th[w].i
                                THEN Existing(w) ELSE Entry(th[w].blocks, j)
<1>1. Works(w) /\ Op(w) = "COMMIT" /\ Dest(w) = Ft(w) /\ th[w].req \in Requests[w]
  BY PcSets2, Parts DEF Works, Asked, Dest
<1>2. /\ Ft(w) \in FT /\ Ft(w) # Base /\ Ft(w) \in dirs /\ ~Dooms(w)
      /\ meta[Ft(w)].state = "COMMITED" /\ meta[Ft(w)].blocks = th[w].blocks
  BY <1>1, Parts, Typed, PcSets2 DEF MetaKnown, Dooms
<1>3. /\ th[w].blocks \in Seq(Blocks) /\ Len(th[w].blocks) <= MaxLogical
      /\ Len(th[w].blocks) \in Nat /\ th[w].i \in Nat
  BY Typed DEF Thread, WellShaped
<1>4. th[w].pc \in LoopPCs \ {"hash"} =>
        /\ th[w].i \in 1 .. MaxLogical /\ th[w].i \in DOMAIN th[w].blocks
        /\ Current(w) \in Blocks /\ Existing(w) \in Blocks \cup {NoBlock}
        /\ th[w].hash \in Data
  <2>1. CASE th[w].pc \in LoopPCs \ {"hash"}
    <3>1. th[w].pc \in {"lookup"} \cup HashPCs
      BY <2>1 DEF LoopPCs
    <3>2. /\ Current(w) \in Blocks /\ Existing(w) \in Blocks \cup {NoBlock}
          /\ th[w].i \in 1 .. Len(th[w].blocks) /\ th[w].hash \in Data
      BY <3>1, CurrentTyped
    <3> QED  BY <1>3, <3>2, VolumeAssumption
  <2> QED  BY <2>1
<1>5. ASSUME NEW j \in 1 .. MaxLogical
      PROVE  links[Ft(w)][j] = IF th[w].pc \in Relinked /\ j = th[w].i
                               THEN Existing(w) ELSE Entry(th[w].blocks, j)
  <2>1. links[Ft(w)][j] = Place(w, j)
    BY <1>1, <1>5, Parts DEF LinksKnown
  <2>2. th[w].pc \notin {"stat", "free", "unhash"}
    BY PcSets2
  <2>3. th[w].pc \in Relinked => th[w].i \in DOMAIN th[w].blocks
    BY <1>4, PcSets2
  <2> QED  BY <1>1, <2>1, <2>2, <2>3 DEF Place, Entry
<1> QED  BY <1>1, <1>2, <1>3, <1>4, <1>5

(* The block that a COMMIT works on is its own until it is relinked. *)
LEMMA CurrentAlone ==
  ASSUME Inv, Orderly, BlockInv, NEW w \in Workers, th[w].pc \in {"lookup", "relink"},
         NEW b, b = Current(w)
  PROVE  /\ b \in Blocks \cap used /\ links[Ft(w)][th[w].i] = b /\ ~Settled(Ft(w), th[w].i)
         /\ \A ft \in FT : \A j \in 1 .. MaxLogical :
              links[ft][j] = b /\ b # 0 => ft = Ft(w) /\ j = th[w].i
         /\ b # 0 => \A v \in Workers : ~InHand(v, b)
         /\ b # 0 => \A v \in Workers : th[v].pc \in LoopPCs => \A d \in Data : th[v].bhi[d] # b
         /\ b # 0 => \A d \in Data : hashIndex[d] # b
<1>1. /\ Works(w) /\ Op(w) = "COMMIT" /\ Ft(w) \in FT /\ th[w].i \in 1 .. MaxLogical
      /\ b \in Blocks /\ th[w].i \in DOMAIN th[w].blocks
      /\ th[w].pc \notin Relinked
  BY CommitKnown, PcSets2
<1>2. links[Ft(w)][th[w].i] = b
  <2>1. links[Ft(w)][th[w].i] = Entry(th[w].blocks, th[w].i)
    BY <1>1, CommitKnown, PcSets2
  <2> QED  BY <1>1, <2>1 DEF Entry, Current
<1>3. ~Settled(Ft(w), th[w].i)
  <2>1. ~(th[w].i < th[w].i)
    BY <1>1
  <2> QED  BY <1>1, <2>1 DEF Settled
<1>4. b # NoBlock /\ b \in used
  BY <1>1, <1>2, LinkedContent DEF Blocks, NoBlock
<1>5. \A ft \in FT : \A j \in 1 .. MaxLogical :
        links[ft][j] = b /\ b # 0 => ft = Ft(w) /\ j = th[w].i
  BY <1>1, <1>2, <1>3, <1>4 DEF BlockInv, VolumeInv, SharedIsSettled
<1>6. b # 0 => ~SettledRefs(b)
  BY <1>1, <1>2, <1>3 DEF SettledRefs
<1>7. ~Nowhere(b)
  BY <1>1, <1>2 DEF Nowhere
<1>8. b # 0 => \A v \in Workers : ~InHand(v, b)
  BY <1>1, <1>6, <1>7, Parts DEF HandKnown
<1>9. b # 0 => \A v \in Workers : th[v].pc \in LoopPCs => \A d \in Data : th[v].bhi[d] # b
  BY <1>4, <1>6, Parts DEF CopySound, Sound
<1>10. b # 0 => \A d \in Data : hashIndex[d] # b
  <2>1. ~Unhashing(b)
    BY <1>1, UnhashingAlone
  <2> QED  BY <1>4, <1>6, <2>1 DEF BlockInv, VolumeInv, IndexSound, Sound
<1> QED  BY <1>1, <1>2, <1>3, <1>4, <1>5, <1>8, <1>9, <1>10

(* What a COMMIT knows after a step of its loop. *)
LEMMA LoopKnown ==
  ASSUME Inv, Orderly, BlockInv, NEW w \in Workers, th[w].pc \in {"index"} \cup LoopPCs,
         th'[w].pc \in LoopPCs, th'[w].req = th[w].req, dirs' = dirs,
         meta'[Ft(w)].state = "COMMITED", meta'[Ft(w)].blocks = th'[w].blocks,
         th'[w].pc \in Relinked => th'[w].i \in DOMAIN th'[w].blocks,
         \A j \in 1 .. MaxLogical :
           links'[Ft(w)][j] = IF th'[w].pc \in Relinked /\ j = th'[w].i
                              THEN Existing(w)' ELSE Entry(th'[w].blocks, j)
  PROVE  /\ Works(w)' /\ Op(w)' = Op(w) /\ Ft(w)' = Ft(w) /\ Dest(w)' = Dest(w)
         /\ RestEffect(w)
         /\ Asked(w)' /\ MetaKnown(w)' /\ LinksKnown(w)' /\ CopyKnown(w)' /\ RoomKnown(w)'
<1>1. Op(w)' = Op(w) /\ Ft(w)' = Ft(w) /\ Dest(w)' = Dest(w) /\ Works(w)'
  BY PcSets2 DEF Op, Ft, Dest, Works
<1>2. /\ Op(w) = "COMMIT" /\ Dest(w) = Ft(w) /\ Ft(w) # Base /\ Ft(w) \in dirs
      /\ th[w].req \in Requests[w]
  BY CommitKnown
<1>3. th'[w].pc \notin {"idle", "start", "mkdir", "grow", "unlink", "stat", "free", "unhash",
        "rmdir", "clone", "link", "locate", "load", "enter", "inplace", "cow", "redirect",
        "open", "close"}
  BY PcSets2
<1>4. Asked(w)'
  BY <1>1, <1>2, <1>3 DEF Asked
<1>5. MetaKnown(w)'
  BY <1>1, <1>2, <1>3 DEF MetaKnown
<1>6. LinksKnown(w)'
  <2>1. ASSUME NEW j \in 1 .. MaxLogical
        PROVE  Place(w, j)' = IF th'[w].pc \in Relinked /\ j = th'[w].i
                              THEN Existing(w)' ELSE Entry(th'[w].blocks, j)
    BY <1>1, <1>2, <1>3 DEF Place, Entry
  <2> QED  BY <1>1, <1>2, <2>1 DEF LinksKnown
<1>7. CopyKnown(w)' /\ RoomKnown(w)'
  BY <1>1, <1>2, Vacuous DEF Op
<1> QED  BY <1>1, <1>4, <1>5, <1>6, <1>7 DEF RestEffect

LEMMA CopyStays ==
  ASSUME Inv, BlockInv, NEW w \in Workers, LinkEffect(w), BlockEffect(w),
         th[w].pc \in LoopPCs, th'[w].bhi = th[w].bhi
  PROVE  CopySound(w)'
<1>1. ASSUME NEW d \in Data, th[w].bhi[d] # NoBlock
      PROVE  Sound(d, th[w].bhi[d])'
  <2>1. PICK b : b = th[w].bhi[d]
    OBVIOUS
  <2>2. Sound(d, b)'
    BY <1>1, <2>1, CopyKept
  <2>3. b = th'[w].bhi[d]
    BY <2>1
  <2> QED  BY <2>2, <2>3 DEF Sound, SettledRefs
<1> QED  BY <1>1 DEF CopySound

LEMMA CommitStartKept ==
  ASSUME Inv, Inv', Orderly, BlockInv, NEW w \in Workers, CommitStart(w)
  PROVE  BlockInv'
<1>1. /\ th[w].pc = "start" /\ Op(w) = "COMMIT" /\ Dest(w) = Ft(w) /\ Ft(w) \in dirs
      /\ meta[Ft(w)] # NoMeta /\ meta[Ft(w)].state # "COMMITED"
      /\ meta' = [meta EXCEPT ![Ft(w)].state = "COMMITED"]
      /\ th' = [th EXCEPT ![w].pc = "index", ![w].blocks = meta[Ft(w)].blocks,
                          ![w].size = meta[Ft(w)].size, ![w].i = 1]
      /\ UNCHANGED <<dirs, links, used, content, hashIndex, config>>
  BY DEF CommitStart, Loaded, Begins, Dest
<1>2. /\ OnlyMoves(w) /\ th'[w].pc = "index" /\ th'[w].req = th[w].req
      /\ th'[w].blocks = meta[Ft(w)].blocks
  BY <1>1, Typed DEF OnlyMoves, Inv, TypeOK, Thread
<1>3. Op(w)' = Op(w) /\ Ft(w)' = Ft(w) /\ Dest(w)' = Dest(w) /\ Works(w)' /\ ~Works(w)
  <2>1. Op(w)' = Op(w) /\ Ft(w)' = Ft(w) /\ Dest(w)' = Dest(w)
    BY <1>2 DEF Op, Ft, Dest
  <2>2. Works(w)' /\ ~Works(w)
    BY <1>1, <1>2, PcSets2 DEF Works
  <2> QED  BY <2>1, <2>2
<1>4. Ft(w) # Base /\ Ft(w) \in FT /\ th[w].req \in Requests[w]
  BY <1>1, LoadedState, AtRestOwn
<1>5. /\ meta'[Ft(w)].state = "COMMITED" /\ meta'[Ft(w)].blocks = meta[Ft(w)].blocks
      /\ \A ft \in FT : ft # Ft(w) => meta'[ft] = meta[ft]
  <2>1. meta[Ft(w)] \in Meta
    BY <1>4, Typed
  <2> QED  BY <1>1, <1>4, <2>1 DEF Inv, TypeOK, Meta
<1>6. th'[w].pc \in LockedPCs \ (LoopPCs \cup HandPCs)
  BY <1>2, PcSets2 DEF HandPCs
<1>7. TagEffect(w) /\ EntryEffect(w) /\ RestEffect(w)
  BY <1>1, <1>2, <1>3, <1>4, <1>5 DEF TagEffect, EntryEffect, SameTag, RestEffect
<1>8. LinkEffect(w)
  <2>1. ASSUME NEW ft \in FT, NEW j \in 1 .. MaxLogical, Settled(ft, j)
        PROVE  Settled(ft, j)'
    <3>1. ft # Ft(w) /\ meta'[ft] = meta[ft]
      BY <1>1, <1>5, <2>1 DEF Settled
    <3>2. \A u \in Workers : u # w => th'[u] = th[u]
      BY <1>7, OnlyOne
    <3> QED  BY <1>3, <2>1, <3>1, <3>2 DEF Settled, Works, Op, Ft
  <2> QED  BY <1>1, <2>1 DEF LinkEffect
<1>9. BlockEffect(w) /\ IndexEffect(w)
  BY <1>1, <1>6 DEF BlockEffect, IndexEffect
<1>10. HandEffect(w)
  <2>1. th[w].pc \notin HandPCs
    BY <1>1 DEF HandPCs
  <2> QED  BY <1>6, <2>1, Vacuous DEF HandEffect
<1>11. Asked(w)'
  BY <1>1, <1>2, <1>3, <1>4, PcSets2 DEF Asked
<1>12. MetaKnown(w)'
  BY <1>1, <1>2, <1>3, <1>4, <1>5 DEF MetaKnown
<1>13. LinksKnown(w)'
  <2>1. \A j \in 1 .. MaxLogical : links[Ft(w)][j] = Entry(meta[Ft(w)].blocks, j)
    BY <1>1, AtRestOwn
  <2>2. \A j : Place(w, j)' = Entry(meta[Ft(w)].blocks, j)
    BY <1>1, <1>2, <1>3, PcSets2 DEF Place, Entry
  <2> QED  BY <1>1, <1>3, <2>1, <2>2 DEF LinksKnown
<1>14. HandlerInv(w)'
  BY <1>1, <1>3, <1>6, <1>11, <1>12, <1>13, PlainKnown
<1> QED  BY <1>7, <1>8, <1>9, <1>10, <1>14, StepKept DEF Effect

(* The steps of the loop that only read the volume. *)
LEMMA RoundKept ==
  ASSUME Inv, Inv', Orderly, BlockInv, NEW w \in Workers,
         th[w].pc \in {"index", "hash", "lookup"}, th'[w].pc \in {"hash", "lookup", "relink"},
         UNCHANGED volume, OnlyMoves(w), th'[w].req = th[w].req,
         th'[w].blocks = th[w].blocks, th'[w].i >= th[w].i,
         \/ th[w].pc # "index" /\ th'[w].bhi = th[w].bhi
         \/ th[w].pc = "index" /\ th'[w].bhi = hashIndex,
         HashKnown(w)'
  PROVE  BlockInv'
<1>1. /\ dirs' = dirs /\ meta' = meta /\ links' = links /\ used' = used
      /\ content' = content /\ hashIndex' = hashIndex
  BY DEF volume
<1>2. /\ th[w].pc \in {"index"} \cup LoopPCs /\ th'[w].pc \in LoopPCs
      /\ th[w].pc \notin HandPCs \cup Relinked /\ th'[w].pc \notin HandPCs \cup Relinked
  BY PcSets2 DEF HandPCs
<1>3. \A j \in 1 .. MaxLogical :
        links[Ft(w)][j] = IF th[w].pc \in Relinked /\ j = th[w].i
                          THEN Existing(w) ELSE Entry(th[w].blocks, j)
  BY <1>2, CommitKnown
<1>4. meta[Ft(w)].state = "COMMITED" /\ meta[Ft(w)].blocks = th[w].blocks
  BY <1>2, CommitKnown
<1>5. \A j \in 1 .. MaxLogical :
        links'[Ft(w)][j] = IF th'[w].pc \in Relinked /\ j = th'[w].i
                           THEN Existing(w)' ELSE Entry(th'[w].blocks, j)
  BY <1>1, <1>2, <1>3
<1>6. meta'[Ft(w)].state = "COMMITED" /\ meta'[Ft(w)].blocks = th'[w].blocks
  BY <1>1, <1>4
<1>7. /\ Works(w)' /\ RestEffect(w)
      /\ Asked(w)' /\ MetaKnown(w)' /\ LinksKnown(w)' /\ CopyKnown(w)' /\ RoomKnown(w)'
  BY <1>1, <1>2, <1>5, <1>6, LoopKnown
<1>8. Works(w) /\ Op(w) = "COMMIT" /\ th[w].i \in Nat
  BY <1>2, CommitKnown
<1>9. CommitGoesOn(w)
  <2>1. th'[w].i \in Nat
    BY Typed DEF Inv, TypeOK, Thread
  <2>2. th'[w].i > th[w].i \/ th'[w].i = th[w].i
    BY <1>8, <2>1
  <2> QED  BY <1>2, <1>8, <2>2 DEF CommitGoesOn
<1>10. HandEffect(w) /\ HandKnown(w)'
  BY <1>2, Vacuous DEF HandEffect
<1>11. Effect(w) /\ EntryEffect(w)
  BY <1>2, <1>9, <1>10, PcSets2, Silent
<1>12. CopySound(w)'
  <2>1. CASE th[w].pc # "index"
    BY <1>2, <1>11, <2>1, CopyStays DEF Effect
  <2>2. CASE th[w].pc = "index"
    <3>1. ASSUME NEW d \in Data, NEW b, b = hashIndex[d], b # NoBlock
          PROVE  Sound(d, b)'
      <4>1. b \in Blocks
        BY <3>1 DEF Inv, TypeOK
      <4>2. Sound(d, b)
        BY <1>8, <3>1, UnhashingAlone DEF BlockInv, VolumeInv, IndexSound
      <4>3. ~OwnBlock(w, b) /\ ~InHand(w, b)
        BY <1>2, <2>2, <4>2, Vacuous DEF OwnBlock, Sound
      <4> QED  BY <1>11, <4>1, <4>2, <4>3, SoundKept DEF Effect
    <3>2. th'[w].bhi = hashIndex'
      BY <1>1, <2>2
    <3>3. hashIndex' = hashIndex
      BY <1>1
    <3>4. ASSUME NEW d \in Data, th'[w].bhi[d] # NoBlock
          PROVE  Sound(d, th[w].bhi[d])'
      <4>1. PICK b : b = hashIndex[d]
        OBVIOUS
      <4>2. b # NoBlock /\ b = th'[w].bhi[d]
        BY <3>2, <3>3, <3>4, <4>1
      <4>3. Sound(d, b)'
        BY <3>1, <4>1, <4>2
      <4> QED  BY <4>2, <4>3 DEF Sound, SettledRefs
    <3> QED  BY <3>4 DEF CopySound
  <2> QED  BY <2>1, <2>2
<1>13. HandlerInv(w)'
  BY <1>7, <1>10, <1>12 DEF HandlerInv
<1> QED  BY <1>7, <1>11, <1>13, StepKept

LEMMA LoadIndexKept ==
  ASSUME Inv, Inv', Orderly, BlockInv, NEW w \in Workers, LoadIndex(w)
  PROVE  BlockInv'
<1>1. /\ th[w].pc = "index" /\ UNCHANGED volume
      /\ th' = [th EXCEPT ![w].pc = "hash", ![w].bhi = hashIndex]
  BY DEF LoadIndex, At, disk, volume
<1>2. /\ OnlyMoves(w) /\ th'[w].pc = "hash" /\ th'[w].req = th[w].req
      /\ th'[w].blocks = th[w].blocks /\ th'[w].i = th[w].i /\ th'[w].bhi = hashIndex
  <2>1. OnlyMoves(w) /\ th'[w] = [th[w] EXCEPT !.pc = "hash", !.bhi = hashIndex]
    BY <1>1 DEF OnlyMoves, Inv, TypeOK
  <2> QED  BY <2>1, Typed DEF Thread
<1>3. HashKnown(w)' /\ th'[w].i >= th[w].i
  BY <1>2, Typed DEF HashKnown, Thread
<1> QED  BY <1>1, <1>2, <1>3, RoundKept

LEMMA NextCommitFacts ==
  ASSUME Inv, NEW w \in Workers, NextCommit(w)
  PROVE  /\ OnlyMoves(w) /\ th'[w].pc = "hash" /\ th'[w].req = th[w].req
         /\ th'[w].blocks = th[w].blocks /\ th'[w].i = th[w].i + 1 /\ th'[w].bhi = th[w].bhi
         /\ HashKnown(w)' /\ th'[w].i >= th[w].i
<1>1. /\ OnlyMoves(w) /\ th'[w].pc = "hash" /\ th'[w].req = th[w].req
      /\ th'[w].blocks = th[w].blocks /\ th'[w].i = th[w].i + 1 /\ th'[w].bhi = th[w].bhi
  BY Typed DEF NextCommit, OnlyMoves, Inv, TypeOK, Thread
<1> QED  BY <1>1, Typed DEF HashKnown, Thread

LEMMA HashBlockKept ==
  ASSUME Inv, Inv', Orderly, BlockInv, NEW w \in Workers, HashBlock(w)
  PROVE  BlockInv'
<1>1. PICK i, b : i = th[w].i /\ b = links[Ft(w)][i]
  OBVIOUS
<1>2. /\ th[w].pc = "hash" /\ UNCHANGED volume /\ i <= Len(th[w].blocks)
      /\ IF b = NoBlock THEN NextCommit(w)
         ELSE \E d \in BufferOf(b) : th' = [th EXCEPT ![w].pc = "lookup", ![w].hash = d]
  BY <1>1 DEF HashBlock, At, disk, volume
<1>3. CASE b = NoBlock
  <2>1. NextCommit(w)
    BY <1>2, <1>3
  <2> QED  BY <1>2, <2>1, NextCommitFacts, RoundKept
<1>4. CASE b # NoBlock
  <2>1. PICK d \in BufferOf(b) : th' = [th EXCEPT ![w].pc = "lookup", ![w].hash = d]
    BY <1>2, <1>4
  <2>2. /\ OnlyMoves(w) /\ th'[w].pc = "lookup" /\ th'[w].req = th[w].req
        /\ th'[w].blocks = th[w].blocks /\ th'[w].i = i /\ th'[w].bhi = th[w].bhi
        /\ th'[w].hash = d
    <3>1. OnlyMoves(w) /\ th'[w] = [th[w] EXCEPT !.pc = "lookup", !.hash = d]
      BY <2>1 DEF OnlyMoves, Inv, TypeOK
    <3> QED  BY <1>1, <3>1, Typed DEF Thread
  <2>3. i \in 1 .. MaxLogical /\ i \in DOMAIN th[w].blocks /\ Ft(w) \in FT
    <3>1. i \in Nat /\ i >= 1 /\ th[w].blocks \in Seq(Blocks) /\ Len(th[w].blocks) <= MaxLogical
      BY <1>1, <1>2, Typed DEF WellShaped, Thread
    <3> QED  BY <1>2, <3>1, Typed, VolumeAssumption
  <2>4. links[Ft(w)][i] = th[w].blocks[i]
    BY <1>1, <1>2, <2>3, CommitKnown, PcSets2 DEF Entry
  <2>5. b \in Blocks /\ b = th[w].blocks[i]
    <3>1. th[w].blocks \in Seq(Blocks)
      BY Typed DEF Thread
    <3> QED  BY <1>1, <2>3, <2>4, <3>1
  <2>6. content[b] = d
    BY <1>1, <2>1, <2>3, <2>5, LinkedContent DEF BufferOf
  <2>7. HashKnown(w)'
    BY <1>2, <2>2, <2>5, <2>6 DEF HashKnown, Current, volume
  <2>8. th'[w].i >= th[w].i
    BY <1>1, <2>2, <2>3
  <2> QED  BY <1>2, <2>2, <2>7, <2>8, RoundKept
<1> QED  BY <1>3, <1>4

LEMMA CommitSameKept ==
  ASSUME Inv, Inv', Orderly, BlockInv, NEW w \in Workers, CommitSame(w)
  PROVE  BlockInv'
<1>1. th[w].pc = "lookup" /\ UNCHANGED volume /\ NextCommit(w)
  BY DEF CommitSame, At, disk, volume
<1> QED  BY <1>1, NextCommitFacts, RoundKept

LEMMA CommitFoundKept ==
  ASSUME Inv, Inv', Orderly, BlockInv, NEW w \in Workers, CommitFound(w)
  PROVE  BlockInv'
<1>1. th[w].pc = "lookup" /\ UNCHANGED volume /\ Goto(w, "relink")
  BY DEF CommitFound, At, disk, volume
<1>2. /\ OnlyMoves(w) /\ th'[w].pc = "relink" /\ th'[w].req = th[w].req
      /\ th'[w].blocks = th[w].blocks /\ th'[w].i = th[w].i /\ th'[w].bhi = th[w].bhi
      /\ th'[w].hash = th[w].hash
  BY <1>1, GotoFacts
<1>3. content[Current(w)] = th[w].hash
  BY <1>1, Parts DEF HashKnown
<1>4. HashKnown(w)'
  BY <1>1, <1>2, <1>3 DEF HashKnown, Current, volume
<1>5. th'[w].i >= th[w].i
  BY <1>2, Typed DEF Thread
<1> QED  BY <1>1, <1>2, <1>4, <1>5, RoundKept

(* A COMMIT has done with a logical block that it had not done with yet. *)
LEMMA NowSettled ==
  ASSUME Inv, Orderly, BlockInv, NEW w \in Workers, th[w].pc \in LoopPCs, OnlyMoves(w),
         th'[w].req = th[w].req, NEW ft, ft = Ft(w), meta'[ft].state = "COMMITED",
         NEW j \in Int, j < th'[w].i \/ (j = th'[w].i /\ th'[w].pc \in Relinked)
  PROVE  Settled(ft, j)'
<1>1. /\ Works(w) /\ Op(w) = "COMMIT" /\ Dest(w) = Ft(w)
  BY CommitKnown
<1>2. \A u \in Workers : u # w => th'[u] = th[u]
  BY DEF OnlyMoves, Inv, TypeOK
<1>3. ASSUME NEW u \in Workers, u # w, Works(u)', Op(u)' = "COMMIT", Ft(u)' = ft
      PROVE  FALSE
  <2>1. Works(u) /\ Op(u) = "COMMIT" /\ Ft(u) = Ft(w)
    BY <1>2, <1>3 DEF Works, Op, Ft
  <2>2. Dest(u) = Dest(w)
    BY <1>1, <2>1 DEF Dest
  <2> QED  BY <1>1, <1>3, <2>1, <2>2, Distinct
<1>4. Ft(w)' = Ft(w)
  BY DEF Ft
<1> QED  BY <1>3, <1>4 DEF Settled

LEMMA CommitInsertKept ==
  ASSUME Inv, Inv', Orderly, BlockInv, NEW w \in Workers, CommitInsert(w)
  PROVE  BlockInv'
<1>1. PICK i, b, d : i = th[w].i /\ b = Current(w) /\ d = th[w].hash
  OBVIOUS
<1>2. PICK h : h = [th[w].bhi EXCEPT ![d] = b]
  OBVIOUS
<1>3. /\ th[w].pc = "lookup" /\ hashIndex' = h
      /\ th' = [th EXCEPT ![w].bhi = h, ![w].pc = "hash", ![w].i = i + 1, ![w].hash = NoData]
      /\ UNCHANGED <<dirs, meta, links, used, content, config>>
  BY <1>1, <1>2 DEF CommitInsert, At
<1>4. /\ OnlyMoves(w) /\ th'[w].pc = "hash" /\ th'[w].req = th[w].req
      /\ th'[w].blocks = th[w].blocks /\ th'[w].i = i + 1 /\ th'[w].bhi = h
  <2>1. OnlyMoves(w) /\ th'[w] = [th[w] EXCEPT !.bhi = h, !.pc = "hash", !.i = i + 1,
                                               !.hash = NoData]
    BY <1>3 DEF OnlyMoves, Inv, TypeOK
  <2> QED  BY <2>1, Typed DEF Thread
<1>5. /\ th[w].pc \in LoopPCs /\ th'[w].pc \in LoopPCs
      /\ th[w].pc \notin HandPCs \cup Relinked /\ th'[w].pc \notin HandPCs \cup Relinked
  BY <1>3, <1>4, PcSets2 DEF HandPCs
<1>6. /\ Works(w) /\ Op(w) = "COMMIT" /\ Ft(w) \in FT /\ i \in 1 .. MaxLogical /\ d \in Data
      /\ meta[Ft(w)].state = "COMMITED" /\ meta[Ft(w)].blocks = th[w].blocks
      /\ \A j \in 1 .. MaxLogical : links[Ft(w)][j] = Entry(th[w].blocks, j)
  BY <1>1, <1>3, <1>5, CommitKnown, PcSets2
<1>7. /\ h[d] = b /\ \A e \in Data : e # d => h[e] = th[w].bhi[e]
  <2>1. th[w].bhi \in [Data -> Blocks \cup {NoBlock}]
    BY Typed DEF Thread
  <2> QED  BY <1>2, <1>6, <2>1
<1>8. /\ Works(w)' /\ RestEffect(w)
      /\ Asked(w)' /\ MetaKnown(w)' /\ LinksKnown(w)' /\ CopyKnown(w)' /\ RoomKnown(w)'
  <2>1. meta'[Ft(w)].state = "COMMITED" /\ meta'[Ft(w)].blocks = th'[w].blocks
    BY <1>3, <1>4, <1>6
  <2>2. \A j \in 1 .. MaxLogical :
          links'[Ft(w)][j] = IF th'[w].pc \in Relinked /\ j = th'[w].i
                             THEN Existing(w)' ELSE Entry(th'[w].blocks, j)
    BY <1>3, <1>4, <1>5, <1>6
  <2> QED  BY <1>3, <1>4, <1>5, <2>1, <2>2, LoopKnown
<1>9. TagEffect(w) /\ EntryEffect(w)
  BY <1>3, <1>4 DEF TagEffect, SameTag, EntryEffect
<1>10. LinkEffect(w)
  <2>1. CommitGoesOn(w)
    BY <1>1, <1>4, <1>6 DEF CommitGoesOn
  <2>2. links' = links /\ meta' = meta /\ th[w].pc \notin {"link", "redirect"}
    BY <1>3
  <2> QED  BY <1>4, <2>1, <2>2, LinksSame
<1>11. BlockEffect(w)
  BY <1>3 DEF BlockEffect
<1>12. IndexEffect(w)
  <2>1. \A e \in Data : h[e] = th[w].bhi[e] \/ h[e] = Current(w)
    BY <1>1, <1>7
  <2> QED  BY <1>3, <1>4, <1>5, <2>1 DEF IndexEffect
<1>13. HandEffect(w) /\ HandKnown(w)' /\ HashKnown(w)'
  BY <1>4, <1>5, Vacuous DEF HandEffect, HashKnown
<1>14. Sound(d, b)'
  <2>1. b \in used' /\ content'[b] = d
    BY <1>1, <1>3, CurrentAlone, Parts DEF HashKnown
  <2>2. ASSUME b # 0, NEW ft \in FT, NEW j \in 1 .. MaxLogical, links'[ft][j] = b
        PROVE  Settled(ft, j)'
    <3>1. ft = Ft(w) /\ j = i
      BY <1>1, <1>3, <2>2, CurrentAlone
    <3>2. j < th'[w].i /\ j \in Int
      BY <1>4, <1>6, <3>1
    <3>3. meta'[ft].state = "COMMITED"
      BY <1>3, <1>6, <3>1
    <3> QED  BY <1>4, <1>5, <3>1, <3>2, <3>3, NowSettled
  <2> QED  BY <2>1, <2>2 DEF Sound, SettledRefs
<1>15. CopySound(w)'
  <2>1. ASSUME NEW e \in Data, th'[w].bhi[e] # NoBlock
        PROVE  Sound(e, th[w].bhi[e])'
    <3>1. PICK c : c = th'[w].bhi[e]
      OBVIOUS
    <3>2. CASE e = d
      <4>1. c = b
        BY <1>4, <1>7, <3>1, <3>2
      <4>2. Sound(e, c)'
        BY <1>14, <3>2, <4>1
      <4> QED  BY <3>1, <4>2 DEF Sound, SettledRefs
    <3>3. CASE e # d
      <4>1. c = th[w].bhi[e] /\ c # NoBlock
        BY <1>4, <1>7, <2>1, <3>1, <3>3
      <4>2. Sound(e, c)'
        BY <1>5, <1>10, <1>11, <4>1, CopyKept
      <4> QED  BY <3>1, <4>2 DEF Sound, SettledRefs
    <3> QED  BY <3>2, <3>3
  <2> QED  BY <2>1 DEF CopySound
<1>16. HandlerInv(w)'
  BY <1>8, <1>13, <1>15 DEF HandlerInv
<1> QED  BY <1>8, <1>9, <1>10, <1>11, <1>12, <1>13, <1>16, StepKept DEF Effect

LEMMA CommitRelinkKept ==
  ASSUME Inv, Inv', Orderly, BlockInv, NEW w \in Workers, CommitRelink(w)
  PROVE  BlockInv'
<1>1. PICK i, b, x : i = th[w].i /\ b = Current(w) /\ x = Existing(w)
  OBVIOUS
<1>2. /\ th[w].pc = "relink" /\ UNCHANGED <<dirs, meta, used, content, hashIndex, config>>
      /\ links' = WithLink(WithoutLink(links, Ft(w), i), Ft(w), i, x)
      /\ Goto(w, "restat")
  BY <1>1 DEF CommitRelink, At
<1>3. /\ OnlyMoves(w) /\ th'[w].pc = "restat" /\ th'[w].req = th[w].req
      /\ th'[w].blocks = th[w].blocks /\ th'[w].i = i /\ th'[w].bhi = th[w].bhi
      /\ th'[w].hash = th[w].hash
  BY <1>1, <1>2, GotoFacts
<1>4. /\ th[w].pc \in LoopPCs /\ th'[w].pc \in LoopPCs
      /\ th[w].pc \notin HandPCs \cup Relinked /\ th'[w].pc \in Relinked
  BY <1>2, <1>3, PcSets2 DEF HandPCs
<1>5. /\ Works(w) /\ Op(w) = "COMMIT" /\ Dest(w) = Ft(w) /\ Ft(w) \in FT /\ Ft(w) \in dirs
      /\ Ft(w) # Base /\ i \in 1 .. MaxLogical /\ i \in DOMAIN th[w].blocks /\ ~Dooms(w)
      /\ meta[Ft(w)].state = "COMMITED" /\ meta[Ft(w)].blocks = th[w].blocks
      /\ b = th[w].blocks[i] /\ b \in Blocks
      /\ \A j \in 1 .. MaxLogical : links[Ft(w)][j] = Entry(th[w].blocks, j)
  BY <1>1, <1>2, <1>4, CommitKnown, PcSets2 DEF Current
<1>6. x \in Blocks /\ Sound(th[w].hash, x)
  BY <1>1, <1>2, RelinkedTo
<1>7. /\ links'[Ft(w)][i] = x
      /\ \A ft \in FT : \A j \in 1 .. MaxLogical :
           ft # Ft(w) \/ j # i => links'[ft][j] = links[ft][j]
      /\ \A ft \in FT : ft # Ft(w) => links'[ft] = links[ft]
  BY <1>2, <1>5, LinkTable DEF WithLink, WithoutLink
<1>8. \A c : InHand(w, c)' <=> c = b
  BY <1>3, <1>5 DEF InHand
<1>9. x # b \/ b = 0
  BY <1>1, <1>2, <1>5, <1>6, CurrentAlone DEF Sound, SettledRefs
<1>10. /\ Works(w)' /\ RestEffect(w)
       /\ Asked(w)' /\ MetaKnown(w)' /\ LinksKnown(w)' /\ CopyKnown(w)' /\ RoomKnown(w)'
  <2>1. meta'[Ft(w)].state = "COMMITED" /\ meta'[Ft(w)].blocks = th'[w].blocks
    BY <1>2, <1>3, <1>5
  <2>2. Existing(w)' = x
    BY <1>1, <1>3 DEF Existing
  <2>3. \A j \in 1 .. MaxLogical :
          links'[Ft(w)][j] = IF th'[w].pc \in Relinked /\ j = th'[w].i
                             THEN Existing(w)' ELSE Entry(th'[w].blocks, j)
    BY <1>3, <1>4, <1>5, <1>7, <2>2
  <2> QED  BY <1>2, <1>3, <1>4, <1>5, <2>1, <2>3, LoopKnown
<1>11. TagEffect(w) /\ EntryEffect(w)
  BY <1>2, <1>3, <1>5, <1>7 DEF TagEffect, SameTag, EntryEffect
<1>12. LinkEffect(w)
  <2>1. CommitGoesOn(w)
    BY <1>1, <1>3, <1>4, <1>5 DEF CommitGoesOn
  <2>2. meta' = meta /\ OnlyMoves(w) /\ th'[w].req = th[w].req
    BY <1>2, <1>3
  <2>3. \A ft \in FT : \A j \in 1 .. MaxLogical : Settled(ft, j) => Settled(ft, j)'
    BY <2>1, <2>2, SettledStays
  <2>4. ASSUME NEW ft \in FT, ft = Ft(w) PROVE Settled(ft, i)'
    <3>1. meta'[ft].state = "COMMITED" /\ i \in Int
      BY <1>2, <1>5, <2>4
    <3> QED  BY <1>3, <1>4, <2>4, <3>1, NowSettled
  <2>5. \A ft \in FT : \A j \in 1 .. MaxLogical :
          \/ links'[ft][j] = links[ft][j]
          \/ links'[ft][j] = Existing(w) /\ Settled(ft, j)'
    BY <1>1, <1>7, <2>4
  <2>6. \A ft \in FT : \A j \in 1 .. MaxLogical : \A c \in Blocks :
          links[ft][j] = c /\ links'[ft][j] # c => InHand(w, c)'
    BY <1>1, <1>2, <1>7, <1>8, CurrentAlone
  <2> QED  BY <1>2, <2>3, <2>5, <2>6 DEF LinkEffect
<1>13. BlockEffect(w)
  BY <1>2 DEF BlockEffect
<1>14. IndexEffect(w)
  <2>1. \A d \in Data : th'[w].bhi[d] = th[w].bhi[d] /\ hashIndex'[d] = hashIndex[d]
    BY <1>2, <1>3
  <2>2. \A d \in Data : hashIndex'[d] \in {hashIndex[d], NoBlock}
    BY <2>1
  <2> QED  BY <1>2, <1>4, <2>1, <2>2 DEF IndexEffect
<1>15. HandEffect(w)
  <2>1. links[Dest(w)][i] = b
    BY <1>1, <1>2, <1>5, CurrentAlone
  <2> QED  BY <1>4, <1>5, <1>8, <2>1, Vacuous DEF HandEffect
<1>16. HandKnown(w)'
  <2>1. \A v \in Workers : v # w => th'[v] = th[v]
    BY <1>11, OnlyOne
  <2>2. b \in used'
    BY <1>1, <1>2, CurrentAlone
  <2>3. b = 0 \/ Nowhere(b)'
    <3>1. ASSUME b # 0, NEW ft \in FT, NEW j \in 1 .. MaxLogical, links'[ft][j] = b
          PROVE  FALSE
      BY <1>1, <1>2, <1>7, <1>9, <3>1, CurrentAlone
    <3> QED  BY <3>1 DEF Nowhere
  <2>4. ASSUME b # 0, NEW v \in Workers, v # w
        PROVE  ~InHand(v, b)'
    BY <1>1, <1>2, <2>1, <2>4, CurrentAlone DEF InHand
  <2>5. ASSUME b # 0, NEW v \in Workers, th'[v].pc \in LoopPCs, NEW d \in Data
        PROVE  th'[v].bhi[d] # b
    BY <1>1, <1>2, <1>3, <1>4, <2>1, <2>5, CurrentAlone
  <2>6. ASSUME b # 0, NEW d \in Data
        PROVE  hashIndex'[d] # b
    BY <1>1, <1>2, <2>6, CurrentAlone
  <2>7. ASSUME NEW c \in Blocks, InHand(w, c)'
        PROVE  /\ c \in used'
               /\ c = 0 \/ Nowhere(c)'
               /\ c # 0 => \A v \in Workers : v # w => ~InHand(v, c)'
               /\ c # 0 => \A v \in Workers : th'[v].pc \in LoopPCs =>
                             \A d \in Data : th'[v].bhi[d] # c
               /\ c # 0 => \A d \in Data : hashIndex'[d] # c
    <3>1. c = b
      BY <1>8, <2>7
    <3> QED  BY <2>2, <2>3, <2>4, <2>5, <2>6, <3>1
  <2> QED  BY <1>3, <2>7 DEF HandKnown
<1>17. CopySound(w)' /\ HashKnown(w)'
  BY <1>3, <1>4, <1>12, <1>13, CopyStays DEF HashKnown
<1>18. HandlerInv(w)'
  BY <1>10, <1>16, <1>17 DEF HandlerInv
<1> QED  BY <1>10, <1>11, <1>12, <1>13, <1>14, <1>15, <1>18, StepKept DEF Effect

LEMMA CommitStatKept ==
  ASSUME Inv, Inv', Orderly, BlockInv, NEW w \in Workers, CommitStat(w)
  PROVE  BlockInv'
<1>1. PICK b, l : b = Current(w) /\ l = IF Refs(b) = {} THEN "refree" ELSE "save"
  OBVIOUS
<1>2. th[w].pc = "restat" /\ UNCHANGED <<volume, config>> /\ Goto(w, l)
  BY <1>1 DEF CommitStat, At, disk, volume
<1>3. /\ OnlyMoves(w) /\ th'[w].pc = l /\ th'[w].req = th[w].req
      /\ th'[w].blocks = th[w].blocks /\ th'[w].i = th[w].i /\ th'[w].bhi = th[w].bhi
      /\ th'[w].hash = th[w].hash
  BY <1>2, GotoFacts
<1>4. /\ dirs' = dirs /\ meta' = meta /\ links' = links /\ used' = used
      /\ content' = content /\ hashIndex' = hashIndex
  BY <1>2 DEF volume
<1>5. /\ th[w].pc \in LoopPCs /\ th[w].pc \in Relinked
      /\ th'[w].pc \in LoopPCs /\ th'[w].pc \in Relinked
  BY <1>1, <1>2, <1>3, PcSets2
<1>6. /\ Works(w) /\ Op(w) = "COMMIT" /\ ~Dooms(w) /\ b \in Blocks
      /\ meta[Ft(w)].state = "COMMITED" /\ meta[Ft(w)].blocks = th[w].blocks
      /\ th[w].i \in DOMAIN th[w].blocks /\ b = th[w].blocks[th[w].i] /\ th[w].i \in Nat
      /\ \A j \in 1 .. MaxLogical :
           links[Ft(w)][j] = IF j = th[w].i THEN Existing(w) ELSE Entry(th[w].blocks, j)
  BY <1>1, <1>2, <1>5, CommitKnown DEF Current
<1>7. /\ \A c : InHand(w, c) <=> c = b
      /\ \A c : InHand(w, c)' <=> c = b /\ l = "refree"
  BY <1>1, <1>2, <1>3, <1>6 DEF InHand
<1>8. /\ Works(w)' /\ RestEffect(w)
      /\ Asked(w)' /\ MetaKnown(w)' /\ LinksKnown(w)' /\ CopyKnown(w)' /\ RoomKnown(w)'
  <2>1. meta'[Ft(w)].state = "COMMITED" /\ meta'[Ft(w)].blocks = th'[w].blocks
    BY <1>3, <1>4, <1>6
  <2>2. Existing(w)' = Existing(w)
    BY <1>3 DEF Existing
  <2>3. \A j \in 1 .. MaxLogical :
          links'[Ft(w)][j] = IF th'[w].pc \in Relinked /\ j = th'[w].i
                             THEN Existing(w)' ELSE Entry(th'[w].blocks, j)
    BY <1>3, <1>4, <1>5, <1>6, <2>2
  <2> QED  BY <1>3, <1>4, <1>5, <1>6, <2>1, <2>3, LoopKnown
<1>9. Refs(b) # {} => ~Nowhere(b)'
  BY <1>4 DEF Nowhere, Refs
<1>10. Refs(b) = {} => Nowhere(b)'
  <2>1. ASSUME Refs(b) = {}, NEW ft \in FT, NEW j \in 1 .. MaxLogical, links[ft][j] = b
        PROVE  FALSE
    <3>1. <<ft, j>> \in Refs(b)
      BY <2>1 DEF Refs
    <3> QED  BY <2>1, <3>1
  <2> QED  BY <1>4, <2>1 DEF Nowhere
<1>11. HandEffect(w)
  BY <1>1, <1>7, <1>9 DEF HandEffect
<1>12. CommitGoesOn(w)
  BY <1>3, <1>5, <1>6 DEF CommitGoesOn
<1>13. Effect(w) /\ EntryEffect(w)
  BY <1>2, <1>3, <1>5, <1>11, <1>12, Silent
<1>14. HandKnown(w)'
  <2>1. \A v \in Workers : v # w => th'[v] = th[v]
    BY <1>13, OnlyOne DEF Effect
  <2>2. HandKnown(w) /\ InHand(w, b)
    BY <1>7, Parts
  <2>3. b \in used'
    BY <1>4, <1>6, <2>2 DEF HandKnown
  <2>4. ASSUME b # 0, NEW v \in Workers, v # w PROVE ~InHand(v, b)'
    BY <1>6, <2>1, <2>2, <2>4 DEF HandKnown, InHand
  <2>5. ASSUME b # 0, NEW v \in Workers, th'[v].pc \in LoopPCs, NEW d \in Data
        PROVE  th'[v].bhi[d] # b
    BY <1>3, <1>5, <1>6, <2>1, <2>2, <2>5 DEF HandKnown
  <2>6. ASSUME b # 0, NEW d \in Data, hashIndex'[d] = b
        PROVE  Unhashing(b)' \/ Dooms(w)'
    <3>1. Unhashing(b)
      BY <1>4, <1>6, <2>2, <2>6 DEF HandKnown
    <3> QED  BY <1>6, <3>1, UnhashingAlone
  <2>7. ASSUME NEW c \in Blocks, InHand(w, c)'
        PROVE  /\ c \in used' /\ Nowhere(c)'
               /\ c # 0 => \A v \in Workers : v # w => ~InHand(v, c)'
               /\ c # 0 => \A v \in Workers : th'[v].pc \in LoopPCs =>
                             \A d \in Data : th'[v].bhi[d] # c
               /\ c # 0 => \A d \in Data : hashIndex'[d] = c => Unhashing(c)' \/ Dooms(w)'
    <3>1. c = b /\ Refs(b) = {}
      BY <1>1, <1>7, <2>7
    <3> QED  BY <1>10, <2>3, <2>4, <2>5, <2>6, <3>1
  <2>8. th'[w].pc # "link"
    BY <1>5, PcSets2
  <2> QED  BY <2>7, <2>8 DEF HandKnown
<1>15. CopySound(w)' /\ HashKnown(w)'
  BY <1>3, <1>5, <1>13, CopyStays, PcSets2 DEF HashKnown, Effect
<1>16. HandlerInv(w)'
  BY <1>8, <1>14, <1>15 DEF HandlerInv
<1> QED  BY <1>8, <1>13, <1>16, StepKept

LEMMA CommitFreeKept ==
  ASSUME Inv, Inv', Orderly, BlockInv, NEW w \in Workers, CommitFree(w)
  PROVE  BlockInv'
<1>1. PICK b : b = Current(w)
  OBVIOUS
<1>2. /\ th[w].pc = "refree" /\ UNCHANGED <<dirs, meta, links, content, hashIndex, config>>
      /\ used' = used \ {b} /\ Goto(w, "save")
  BY <1>1 DEF CommitFree, At
<1>3. /\ OnlyMoves(w) /\ th'[w].pc = "save" /\ th'[w].req = th[w].req
      /\ th'[w].blocks = th[w].blocks /\ th'[w].i = th[w].i /\ th'[w].bhi = th[w].bhi
      /\ th'[w].hash = th[w].hash
  BY <1>2, GotoFacts
<1>4. /\ th[w].pc \in LoopPCs /\ th[w].pc \in Relinked /\ th'[w].pc \notin HandPCs
      /\ th'[w].pc \in LoopPCs /\ th'[w].pc \in Relinked
  BY <1>2, <1>3, PcSets2 DEF HandPCs
<1>5. /\ Works(w) /\ Op(w) = "COMMIT" /\ ~Dooms(w) /\ b \in Blocks
      /\ meta[Ft(w)].state = "COMMITED" /\ meta[Ft(w)].blocks = th[w].blocks
      /\ th[w].i \in DOMAIN th[w].blocks /\ b = th[w].blocks[th[w].i] /\ th[w].i \in Nat
      /\ \A j \in 1 .. MaxLogical :
           links[Ft(w)][j] = IF j = th[w].i THEN Existing(w) ELSE Entry(th[w].blocks, j)
  BY <1>1, <1>2, <1>4, CommitKnown DEF Current
<1>6. \A c : InHand(w, c) <=> c = b
  BY <1>2, <1>5 DEF InHand
<1>7. /\ Works(w)' /\ RestEffect(w)
      /\ Asked(w)' /\ MetaKnown(w)' /\ LinksKnown(w)' /\ CopyKnown(w)' /\ RoomKnown(w)'
  <2>1. meta'[Ft(w)].state = "COMMITED" /\ meta'[Ft(w)].blocks = th'[w].blocks
    BY <1>2, <1>3, <1>5
  <2>2. Existing(w)' = Existing(w)
    BY <1>3 DEF Existing
  <2>3. \A j \in 1 .. MaxLogical :
          links'[Ft(w)][j] = IF th'[w].pc \in Relinked /\ j = th'[w].i
                             THEN Existing(w)' ELSE Entry(th'[w].blocks, j)
    BY <1>2, <1>3, <1>4, <1>5, <2>2
  <2> QED  BY <1>2, <1>3, <1>4, <1>5, <2>1, <2>3, LoopKnown
<1>8. TagEffect(w) /\ EntryEffect(w)
  BY <1>2, <1>3 DEF TagEffect, EntryEffect, SameTag
<1>9. LinkEffect(w)
  <2>1. CommitGoesOn(w)
    BY <1>3, <1>4, <1>5 DEF CommitGoesOn
  <2> QED  BY <1>2, <1>3, <2>1, LinksSame
<1>10. BlockEffect(w)
  BY <1>2, <1>5, <1>6 DEF BlockEffect
<1>11. IndexEffect(w)
  BY <1>2, <1>3, <1>4 DEF IndexEffect
<1>12. HandEffect(w) /\ HandKnown(w)'
  BY <1>2, <1>4, <1>6, Vacuous DEF HandEffect
<1>13. CopySound(w)' /\ HashKnown(w)'
  BY <1>3, <1>4, <1>9, <1>10, CopyStays DEF HashKnown
<1>14. HandlerInv(w)'
  BY <1>7, <1>12, <1>13 DEF HandlerInv
<1> QED  BY <1>7, <1>8, <1>9, <1>10, <1>11, <1>12, <1>14, StepKept DEF Effect

LEMMA CommitSaveKept ==
  ASSUME Inv, Inv', Orderly, BlockInv, NEW w \in Workers, CommitSave(w)
  PROVE  BlockInv'
<1>1. PICK i, x, s : i = th[w].i /\ x = Existing(w) /\ s = ReplaceAt(th[w].blocks, i, x)
  OBVIOUS
<1>2. th[w].pc = "save"
  BY DEF CommitSave, At
<1>3. /\ th[w].pc \in LoopPCs /\ th[w].pc \in Relinked /\ th[w].pc \notin HandPCs
  BY <1>2, PcSets2 DEF HandPCs
<1>4. /\ Works(w) /\ Op(w) = "COMMIT" /\ Dest(w) = Ft(w) /\ Ft(w) \in FT /\ Ft(w) \in dirs
      /\ Ft(w) # Base /\ i \in DOMAIN th[w].blocks /\ i \in Nat
      /\ \A j \in 1 .. MaxLogical :
           links[Ft(w)][j] = IF j = i THEN x ELSE Entry(th[w].blocks, j)
  BY <1>1, <1>2, <1>3, CommitKnown
<1>5. /\ meta' = [meta EXCEPT ![Ft(w)] = [state |-> "COMMITED", size |-> th[w].size,
                                          blocks |-> s]]
      /\ th' = [th EXCEPT ![w].blocks = s, ![w].pc = "hash", ![w].i = i + 1,
                          ![w].hash = NoData]
      /\ UNCHANGED <<dirs, links, used, content, hashIndex, config>>
  BY <1>1, <1>4 DEF CommitSave, At
<1>6. /\ OnlyMoves(w) /\ th'[w].pc = "hash" /\ th'[w].req = th[w].req
      /\ th'[w].blocks = s /\ th'[w].i = i + 1 /\ th'[w].bhi = th[w].bhi
  <2>1. OnlyMoves(w) /\ th'[w] = [th[w] EXCEPT !.blocks = s, !.pc = "hash", !.i = i + 1,
                                               !.hash = NoData]
    BY <1>5 DEF OnlyMoves, Inv, TypeOK
  <2> QED  BY <2>1, Typed DEF Thread
<1>7. th'[w].pc \in LoopPCs /\ th'[w].pc \notin HandPCs \cup Relinked
  BY <1>6, PcSets2 DEF HandPCs
<1>8. /\ meta'[Ft(w)].state = "COMMITED" /\ meta'[Ft(w)].blocks = s
      /\ \A ft \in FT : ft # Ft(w) => meta'[ft] = meta[ft]
  BY <1>4, <1>5 DEF Inv, TypeOK
<1>9. \A j \in 1 .. MaxLogical : links'[Ft(w)][j] = Entry(s, j)
  <2>1. /\ DOMAIN s = DOMAIN th[w].blocks /\ s[i] = x
        /\ \A j \in DOMAIN th[w].blocks : j # i => s[j] = th[w].blocks[j]
    BY <1>1, <1>4 DEF ReplaceAt
  <2> QED  BY <1>4, <1>5, <2>1 DEF Entry
<1>10. /\ Works(w)' /\ RestEffect(w)
       /\ Asked(w)' /\ MetaKnown(w)' /\ LinksKnown(w)' /\ CopyKnown(w)' /\ RoomKnown(w)'
  <2>1. meta'[Ft(w)].blocks = th'[w].blocks /\ dirs' = dirs
    BY <1>5, <1>6, <1>8
  <2>2. \A j \in 1 .. MaxLogical :
          links'[Ft(w)][j] = IF th'[w].pc \in Relinked /\ j = th'[w].i
                             THEN Existing(w)' ELSE Entry(th'[w].blocks, j)
    BY <1>6, <1>7, <1>9
  <2> QED  BY <1>3, <1>6, <1>7, <1>8, <2>1, <2>2, LoopKnown
<1>11. TagEffect(w)
  <2>1. ASSUME NEW ft \in FT, ft # Ft(w) PROVE SameTag(ft)
    BY <1>5, <1>8, <2>1 DEF SameTag
  <2> QED  BY <1>2, <1>4, <1>6, <2>1 DEF TagEffect
<1>12. EntryEffect(w)
  BY <1>4, <1>5, <1>8 DEF EntryEffect
<1>13. LinkEffect(w)
  <2>1. CommitGoesOn(w)
    BY <1>1, <1>4, <1>6 DEF CommitGoesOn
  <2>2. ASSUME NEW ft \in FT, NEW j \in 1 .. MaxLogical, Settled(ft, j)
        PROVE  Settled(ft, j)'
    <3>1. CASE ft = Ft(w)
      <4>1. j < th[w].i \/ j = th[w].i
        BY <1>4, <2>2, <3>1 DEF Settled
      <4>2. j \in Int /\ j < th'[w].i /\ meta'[ft].state = "COMMITED"
        BY <1>1, <1>4, <1>6, <1>8, <3>1, <4>1
      <4> QED  BY <1>3, <1>6, <3>1, <4>2, NowSettled
    <3>2. CASE ft # Ft(w)
      <4>1. meta'[ft] = meta[ft]
        BY <1>8, <3>2
      <4> QED  BY <1>6, <2>1, <2>2, <4>1, SettledStays
    <3> QED  BY <3>1, <3>2
  <2> QED  BY <1>2, <1>5, <2>2 DEF LinkEffect
<1>14. BlockEffect(w) /\ IndexEffect(w)
  BY <1>2, <1>3, <1>5, <1>6 DEF BlockEffect, IndexEffect
<1>15. HandEffect(w) /\ HandKnown(w)'
  BY <1>3, <1>7, Vacuous DEF HandEffect
<1>16. CopySound(w)' /\ HashKnown(w)'
  BY <1>3, <1>6, <1>13, <1>14, CopyStays DEF HashKnown
<1>17. HandlerInv(w)'
  BY <1>10, <1>15, <1>16 DEF HandlerInv
<1> QED  BY <1>10, <1>11, <1>12, <1>13, <1>14, <1>15, <1>17, StepKept DEF Effect

LEMMA CommitEndKept ==
  ASSUME Inv, Inv', Orderly, BlockInv, NEW w \in Workers, CommitEnd(w)
  PROVE  BlockInv'
<1>1. th[w].pc = "hash" /\ UNCHANGED volume /\ th' = [th EXCEPT ![w] = IdleThread]
  BY DEF CommitEnd, At, Finish, disk, volume
<1>2. /\ Works(w) /\ Op(w) = "COMMIT" /\ Dest(w) = Ft(w)
      /\ meta[Ft(w)].blocks = th[w].blocks
  BY <1>1, CommitKnown, PcSets2
<1>3. \A j \in 1 .. MaxLogical : Place(w, j) = Entry(meta[Dest(w)].blocks, j)
  BY <1>1, <1>2, PcSets2 DEF Place, Entry
<1> QED  BY <1>1, <1>2, <1>3, FinishKept DEF HandPCs

-----------------------------------------------------------------------------
(* All the steps *)

LEMMA BeginsBetween ==
  ASSUME NEW w \in Workers, NEW op, Begins(w, op)
  PROVE  th[w].pc \in Between
  BY PcSets DEF Begins

LEMMA MissingKept ==
  ASSUME Inv, Inv', Orderly, BlockInv, NEW w \in Workers, Missing(w)
  PROVE  BlockInv'
<1>1. PICK op, code : Begins(w, op) /\ Reject(w, code)
  BY DEF Missing
<1> QED  BY <1>1, BeginsBetween, RejectKept

LEMMA CrashOnMetadataKept ==
  ASSUME BlockInv, NEW w \in Workers, CrashOnMetadata(w)
  PROVE  BlockInv'
  BY CrashKept DEF CrashOnMetadata

LEMMA CreateKept ==
  ASSUME Inv, Inv', Orderly, BlockInv, NEW w \in Workers, Create(w)
  PROVE  BlockInv'
<1>1. CASE CreateExists(w)
  BY <1>1, BeginsBetween, RejectKept DEF CreateExists
<1> QED  BY <1>1, CreateStartKept DEF Create

LEMMA TruncateKept ==
  ASSUME Inv, Inv', Orderly, BlockInv, NEW w \in Workers, Truncate(w)
  PROVE  BlockInv'
<1>1. CASE TruncateCommited(w)
  BY <1>1, BeginsBetween, RejectKept DEF TruncateCommited, Loaded
<1>2. CASE TruncateNoSpace(w)
  BY <1>2, BeginsBetween, RejectKept DEF TruncateNoSpace, Loaded
<1> QED  BY <1>1, <1>2, TruncateStartKept, GrowKept DEF Truncate

LEMMA TagKept ==
  ASSUME Inv, Inv', Orderly, BlockInv, NEW w \in Workers, Tag(w)
  PROVE  BlockInv'
<1>1. CASE TagExists(w)
  BY <1>1, BeginsBetween, TagRejectedKept DEF TagExists
<1>2. CASE TagNoSpace(w)
  BY <1>2, BeginsBetween, TagRejectedKept DEF TagNoSpace, Loaded
<1> QED  BY <1>1, <1>2, TagStartKept, TagCloneKept, TagCloneFailsKept, TagLinkKept,
            TagClonedKept DEF Tag

LEMMA CommitKept ==
  ASSUME Inv, Inv', Orderly, BlockInv, NEW w \in Workers, Commit(w)
  PROVE  BlockInv'
<1>1. CASE CommitCommited(w)
  BY <1>1, BeginsBetween, RejectKept DEF CommitCommited, Loaded
<1>2. ~CommitUnlinkFails(w)
  BY DEF CommitUnlinkFails, Orderly
<1> QED  BY <1>1, <1>2, CommitStartKept, LoadIndexKept, HashBlockKept, CommitInsertKept,
            CommitSameKept, CommitFoundKept, CommitRelinkKept, CommitStatKept,
            CommitFreeKept, CommitSaveKept, CommitEndKept DEF Commit

LEMMA WriteLocateKept ==
  ASSUME Inv, Inv', Orderly, BlockInv, NEW w \in Workers, WriteLocate(w)
  PROVE  BlockInv'
<1>1. th[w].pc = "locate" /\ th[w].pc \in Between
  BY PcSets DEF WriteLocate, At
<1>2. CASE Goto(w, "load") /\ UNCHANGED disk
  <2>1. /\ OnlyMoves(w) /\ th'[w].pc = "load" /\ th'[w].req = th[w].req /\ Op(w)' = Op(w)
    BY <1>2, GotoFacts
  <2>2. Op(w) = "WRITE" /\ th[w].req \in Requests[w]
    BY <1>1, Parts DEF Asked
  <2>3. Asked(w)'
    BY <2>1, <2>2, PcSets2 DEF Asked
  <2>4. UNCHANGED volume
    BY <1>2 DEF disk, volume
  <2> QED  BY <1>1, <2>1, <2>3, <2>4, BetweenKept
<1> QED  BY <1>1, <1>2, RejectKept DEF WriteLocate

LEMMA WriteKept ==
  ASSUME Inv, Inv', Orderly, BlockInv, NEW w \in Workers, Write(w)
  PROVE  BlockInv'
<1>1. CASE WriteCrash(w)
  BY <1>1, CrashKept DEF WriteCrash
<1>2. CASE WriteCommited(w) \/ WriteOverflow(w)
  <2>1. th[w].pc = "load" /\ th[w].pc \in Between
    BY <1>2, PcSets DEF WriteCommited, WriteOverflow, At
  <2> QED  BY <1>2, <2>1, RejectKept DEF WriteCommited, WriteOverflow
<1> QED  BY <1>1, <1>2, WriteLocateKept, WriteLoadKept, WriteEnterKept, WriteInPlaceKept,
            WriteCloneKept, WriteCloneFailsKept, WriteRedirectKept DEF Write

LEMMA ReadKept ==
  ASSUME Inv, Inv', Orderly, BlockInv, NEW w \in Workers, Read(w)
  PROVE  BlockInv'
  BY BeginsBetween, RejectKept DEF Read, ReadOverflow, ReadBlock, Loaded

LEMMA BlockStep ==
  ASSUME Inv, Inv', Orderly, BlockInv, [Next]_vars
  PROVE  BlockInv'
<1>1. ASSUME NEW w \in Workers, Handle(w) PROVE BlockInv'
  BY <1>1, MissingKept, CrashOnMetadataKept, CreateKept, TruncateKept, TagKept, CommitKept,
     WriteKept, ReadKept, DeleteStartKept, UnhashKept, RemoveDirectoryKept, UnlinkKept,
     StatKept, FreeKept, MakeDirectoryKept, OpenMetadataKept, SaveMetadataKept
  DEF Handle, Delete, Drop, Metadata
<1>2. ASSUME NEW w \in Workers, Reconnect(w) PROVE BlockInv'
  BY <1>2, VolumeSame DEF Reconnect, disk, volume
<1>3. ~Restart
  BY DEF Restart, Orderly
<1>4. CASE UNCHANGED vars
  BY <1>4, VolumeSame DEF vars, disk, volume
<1> QED  BY <1>1, <1>2, <1>3, <1>4, ReceiveKept DEF Next

LEMMA BlockInit ==
  ASSUME Orderly, Init
  PROVE  BlockInv
<1>1. \A w \in Workers : th[w] = IdleThread /\ th[w].pc = "idle" /\ ~Works(w)
  BY PcSets2 DEF Init, IdleThread, Works
<1>2. ASSUME NEW w \in Workers PROVE HandlerInv(w)
  <2>1. th[w].pc = "idle" /\ ~Works(w) /\ th[w].pc \notin LoopPCs \cup HandPCs
    BY <1>1, PcSets2 DEF HandPCs
  <2>2. Asked(w)
    BY <2>1, PcSets2 DEF Asked
  <2>3. MetaKnown(w) /\ LinksKnown(w) /\ CopyKnown(w) /\ RoomKnown(w)
    BY <2>1 DEF MetaKnown, LinksKnown, CopyKnown, RoomKnown
  <2>4. CopySound(w) /\ HashKnown(w)
    BY <2>1, PcSets2 DEF CopySound, HashKnown
  <2>5. HandKnown(w)
    BY <2>1 DEF HandKnown, InHand, HandPCs
  <2> QED  BY <2>2, <2>3, <2>4, <2>5 DEF HandlerInv
<1>3. /\ dirs = {Base} /\ used = {0} /\ content[0] \in Data /\ 1 \in 1 .. MaxLogical
      /\ Base \in FT /\ meta[Base] = BaseMeta
      /\ \A ft \in FT : ft # Base => meta[ft] = NoMeta
      /\ \A ft \in FT : \A j \in 1 .. MaxLogical :
           links[ft][j] = IF ft = Base /\ j = 1 THEN 0 ELSE NoBlock
      /\ \A d \in Data : hashIndex[d] = NoBlock
  BY VolumeAssumption DEF Init, NoHash, Blocks
<1>4. Catalogue
  BY <1>3 DEF Catalogue, BaseMeta, NoMeta
<1>5. LinksAtRest
  BY <1>3 DEF LinksAtRest, Entry, BaseMeta, NoMeta
<1>6. LinkedBlocksAllocated /\ LinkedWritten /\ SharedIsSettled
  BY <1>3 DEF LinkedBlocksAllocated, LinkedWritten, SharedIsSettled
<1>7. NoBlockLost
  <2>1. <<Base, 1>> \in Refs(0)
    BY <1>3 DEF Refs
  <2> QED  BY <1>3, <2>1 DEF NoBlockLost
<1>8. IndexSound
  BY <1>3 DEF IndexSound
<1> QED  BY <1>2, <1>4, <1>5, <1>6, <1>7, <1>8 DEF BlockInv, VolumeInv

(* In any setting that is Orderly, the links, the bitmap, the index and what  *)
(* each handler remembers of them stay consistent, whatever the interleaving  *)
(* of the handlers: the invariant on which the theorems below rest.           *)
THEOREM BlockInvHolds ==
  ASSUME Orderly
  PROVE  Spec => []BlockInv
<1>1. Init => BlockInv
  BY BlockInit
<1>2. Inv /\ Inv' /\ BlockInv /\ [Next]_vars => BlockInv'
  BY BlockStep
<1> QED  BY <1>1, <1>2, InvHolds, PTL DEF Spec

-----------------------------------------------------------------------------
(* What the Storage promises of its blocks *)

(* Physical block 0 is what a logical block reads that no one has written. *)
ZeroKept == content[0] = Zero

LEMMA ZeroStep ==
  ASSUME Inv, Orderly, BlockInv, ZeroKept, [Next]_vars
  PROVE  ZeroKept'
<1>1. 0 \in Blocks /\ 0 \in used /\ content \in [Blocks -> Data \cup {NoData}]
  BY BaseLinked DEF Inv, TypeOK
<1>2. ASSUME NEW b \in Blocks, NEW src, CloneInto(b, src) PROVE ZeroKept'
  <2>1. b # 0
    BY <1>1, <1>2 DEF CloneInto, IsFirstFree, FreeBlocks
  <2> QED  BY <1>1, <1>2, <2>1 DEF CloneInto, ZeroKept
<1>3. ASSUME NEW w \in Workers, TagClone(w) \/ WriteClone(w) PROVE ZeroKept'
  BY <1>2, <1>3 DEF TagClone, WriteClone
<1>4. ASSUME NEW w \in Workers, WriteInPlace(w) PROVE ZeroKept'
  <2>1. Written(w) # 0
    BY <1>4, InPlaceOwn DEF WriteInPlace, At
  <2> QED  BY <1>1, <1>4, <2>1 DEF WriteInPlace, ZeroKept
<1>5. ASSUME NEW w \in Workers, WriteRedirect(w) PROVE ZeroKept'
  <2>1. th[w].new # 0
    BY <1>5, OwnHand DEF WriteRedirect, At
  <2>2. content' = [content EXCEPT ![th[w].new] = th[w].req.d]
    BY <1>5 DEF WriteRedirect
  <2> QED  BY <1>1, <2>1, <2>2 DEF ZeroKept
<1>6. ASSUME content' = content PROVE ZeroKept'
  BY <1>6 DEF ZeroKept
<1>7. ASSUME NEW w \in Workers, Handle(w) PROVE ZeroKept'
  <2>1. CASE Missing(w) \/ CrashOnMetadata(w) \/ Read(w) \/ Create(w) \/ Truncate(w)
    BY <1>6, <2>1 DEF Missing, CrashOnMetadata, Crash, Read, ReadOverflow, ReadBlock, Reject, disk,
       Create, CreateExists, CreateStart, Truncate, TruncateCommited, TruncateNoSpace,
       TruncateStart, Grow
  <2>2. CASE Tag(w)
    BY <1>3, <1>6, <2>2 DEF Tag, TagExists, TagNoSpace, TagRejected, TagStart, TagCloneFails,
       TagLink, TagCloned, disk
  <2>3. CASE Commit(w)
    BY <1>6, <2>3 DEF Commit, CommitCommited, Reject, CommitStart, LoadIndex, HashBlock,
       CommitInsert, CommitSame, CommitFound, CommitRelink, CommitUnlinkFails, CommitStat,
       CommitFree, CommitSave, CommitEnd, disk
  <2>4. CASE Write(w)
    BY <1>3, <1>4, <1>5, <1>6, <2>4 DEF Write, WriteLocate, WriteCrash, Crash, WriteCommited,
       WriteOverflow, WriteLoad, WriteEnter, WriteCloneFails, Reject, disk
  <2>5. CASE Delete(w) \/ Drop(w) \/ Metadata(w)
    BY <1>6, <2>5 DEF Delete, DeleteStart, Unhash, RemoveDirectory, Drop, Unlink, Stat, Free,
       Metadata, MakeDirectory, OpenMetadata, SaveMetadata, disk
  <2> QED  BY <1>7, <2>1, <2>2, <2>3, <2>4, <2>5 DEF Handle
<1>8. ASSUME NEW w \in Workers, Receive(w) \/ Reconnect(w) PROVE ZeroKept'
  BY <1>6, <1>8 DEF Receive, Reconnect, disk
<1>9. ~Restart
  BY DEF Restart, Orderly
<1>10. UNCHANGED vars => ZeroKept'
  BY <1>6 DEF vars
<1> QED  BY <1>7, <1>8, <1>9, <1>10 DEF Next

(* Everything that the proofs below know of a state. *)
Steady == Inv /\ LockDiscipline /\ BlockInv /\ ZeroKept

LEMMA SteadyHolds ==
  ASSUME Orderly
  PROVE  Spec => []Steady
<1>1. Init => ZeroKept
  BY VolumeAssumption DEF Init, ZeroKept, Blocks
<1>2. Inv /\ BlockInv /\ ZeroKept /\ [Next]_vars => ZeroKept'
  BY ZeroStep
<1>3. Spec => []ZeroKept
  BY <1>1, <1>2, InvHolds, BlockInvHolds, PTL DEF Spec
<1> QED  BY <1>3, InvHolds, LocksAreDisciplined, BlockInvHolds, PTL DEF Steady

(* A physical block to which a logical block is linked is marked occupied, in *)
(* any setting that is Orderly: liberar_bloque frees what nobody links, for   *)
(* any number of Workers and blocks.                                          *)
THEOREM LinkedAreAllocated ==
  ASSUME Orderly
  PROVE  Spec => []LinkedBlocksAllocated
<1>1. BlockInv => LinkedBlocksAllocated
  BY DEF BlockInv, VolumeInv
<1> QED  BY <1>1, BlockInvHolds, PTL

(* No block is lost: one marked occupied is linked, or in the hands of the    *)
(* handler that has just reserved it, or unlinked it and is about to free it. *)
THEOREM NoneIsLost ==
  ASSUME Orderly
  PROVE  Spec => []NoBlockLost
<1>1. BlockInv => NoBlockLost
  BY DEF BlockInv, VolumeInv
<1> QED  BY <1>1, BlockInvHolds, PTL

LEMMA QuietRests ==
  ASSUME Inv, LockDiscipline, NEW ft \in FT, Quiet(ft)
  PROVE  AtRest(ft)
<1> SUFFICES ASSUME NEW w \in Workers, Works(w), Dest(w) = ft PROVE FALSE
  BY DEF AtRest
<1>1. CASE Op(w) = "TAG"
  BY <1>1 DEF Quiet, UnderTag, Works
<1>2. CASE Op(w) # "TAG"
  <2>1. Ft(w) = ft
    BY <1>2 DEF Dest
  <2>2. tagLock[ft] = w
    BY <2>1 DEF LockDiscipline, Works
  <2> QED  BY <2>2, WorkersAssumption DEF Quiet
<1> QED  BY <1>1, <1>2

(* The BLOCKS of a metadata file that no handler is changing are the hard     *)
(* links of its directory, in order, whatever the other handlers do.          *)
THEOREM MetadataIsTrue ==
  ASSUME Orderly
  PROVE  Spec => []MetadataMatchesLinks
<1>1. Steady => MetadataMatchesLinks
  <2> SUFFICES ASSUME Steady, NEW ft \in dirs, Quiet(ft), NEW i \in 1 .. MaxLogical
               PROVE  links[ft][i] = Entry(meta[ft].blocks, i)
    BY DEF MetadataMatchesLinks, Entry
  <2>1. ft \in FT
    BY DEF Steady, Inv, TypeOK
  <2>2. AtRest(ft)
    BY <2>1, QuietRests DEF Steady
  <2> QED  BY <2>1, <2>2 DEF Steady, BlockInv, VolumeInv, LinksAtRest
<1> QED  BY <1>1, SteadyHolds, PTL

(* A hash of the index leads to an occupied block with that content, or to    *)
(* the one that a DELETE has just freed and is about to drop from the index.  *)
THEOREM IndexIsSound ==
  ASSUME Orderly
  PROVE  Spec => []HashIndexSound
<1>1. BlockInv => HashIndexSound
  BY DEF BlockInv, VolumeInv, IndexSound, HashIndexSound, Sound, Unhashing
<1> QED  BY <1>1, BlockInvHolds, PTL

(* A block other than block 0 is shared by committed File:Tags only: a WRITE  *)
(* in place, which trusts st_nlink, changes what nobody else reads.           *)
THEOREM SharedStaysFrozen ==
  ASSUME Orderly
  PROVE  Spec => []SharedIsFrozen
<1>1. BlockInv => SharedIsFrozen
  <2> SUFFICES ASSUME BlockInv, NEW b \in Blocks \ {0}, NEW p \in Refs(b), NEW q \in Refs(b),
                      p # q, NEW r \in Refs(b)
               PROVE  meta[r[1]].state = "COMMITED"
    BY DEF SharedIsFrozen, Shared
  <2>1. PICK s \in Refs(b) : r # s
    OBVIOUS
  <2>2. /\ r = <<r[1], r[2]>> /\ r[1] \in FT /\ r[2] \in 1 .. MaxLogical /\ links[r[1]][r[2]] = b
        /\ s = <<s[1], s[2]>> /\ s[1] \in FT /\ s[2] \in 1 .. MaxLogical /\ links[s[1]][s[2]] = b
    BY DEF Refs
  <2>3. r[1] # s[1] \/ r[2] # s[2]
    BY <2>1, <2>2
  <2>4. b \notin {NoBlock, 0}
    BY DEF Blocks, NoBlock
  <2>5. Settled(r[1], r[2])
    BY <2>2, <2>3, <2>4 DEF BlockInv, VolumeInv, SharedIsSettled
  <2> QED  BY <2>5 DEF Settled
<1> QED  BY <1>1, BlockInvHolds, PTL

LEMMA CopyReads ==
  ASSUME Orderly, Steady, NEW w \in Workers, Op(w) = "TAG", th[w].pc \in {"open", "close"}
  PROVE  Visible(Dest(w)) = Visible(Ft(w))
<1>1. Works(w) /\ CopyKnown(w) /\ LinksKnown(w) /\ Inv /\ BlockInv
  BY Parts, PcSets2 DEF Works, Steady
<1>2. /\ meta[Ft(w)].blocks = th[w].orig /\ Len(th[w].blocks) = Len(th[w].orig)
      /\ \A j \in DOMAIN th[w].blocks : content[th[w].blocks[j]] = content[th[w].orig[j]]
  BY <1>1 DEF CopyKnown
<1>3. /\ Ft(w) \in FT /\ Dest(w) \in FT
      /\ th[w].blocks \in Seq(Blocks) /\ th[w].orig \in Seq(Blocks)
  BY <1>1, Typed DEF Thread
<1>4. AtRest(Ft(w))
  BY <1>1, Distinct DEF AtRest, CopyKnown
<1>5. \A j \in 1 .. MaxLogical : links[Ft(w)][j] = Entry(th[w].orig, j)
  BY <1>1, <1>2, <1>3, <1>4 DEF BlockInv, VolumeInv, LinksAtRest
<1>6. \A j \in 1 .. MaxLogical : links[Dest(w)][j] = Entry(th[w].blocks, j)
  BY <1>1, PcSets2 DEF LinksKnown, Place, Entry
<1>7. DOMAIN th[w].blocks = DOMAIN th[w].orig
  BY <1>2, <1>3
<1>8. ASSUME NEW s \in Seq(Blocks), NEW j \in DOMAIN s
      PROVE  s[j] # NoBlock
  <2>1. s[j] \in Blocks
    BY <1>8
  <2> QED  BY <2>1, VolumeAssumption DEF Blocks, NoBlock
<1>9. ASSUME NEW j \in 1 .. MaxLogical
      PROVE  /\ links[Dest(w)][j] = NoBlock <=> links[Ft(w)][j] = NoBlock
             /\ links[Dest(w)][j] # NoBlock =>
                  content[links[Dest(w)][j]] = content[links[Ft(w)][j]]
  <2>1. CASE j \in DOMAIN th[w].orig
    <3>1. th[w].blocks[j] # NoBlock /\ th[w].orig[j] # NoBlock
      BY <1>3, <1>7, <1>8, <2>1
    <3> QED  BY <1>2, <1>5, <1>6, <1>7, <2>1, <3>1 DEF Entry
  <2> QED  BY <1>5, <1>6, <1>7, <2>1 DEF Entry
<1> QED  BY <1>9 DEF Visible

(* When a TAG is about to write the metadata of its destination, origin and   *)
(* destination read the same, whatever the other Workers have done meanwhile  *)
(* to the blocks that the origin shares.                                      *)
THEOREM TagCopies ==
  ASSUME Orderly
  PROVE  Spec => []TagIsCopy
<1>1. Steady => TagIsCopy
  BY CopyReads DEF TagIsCopy
<1> QED  BY <1>1, SteadyHolds, PTL

=============================================================================
