---------------------------- MODULE StorageProofs ----------------------------
(* What holds of the Storage for any number of Workers, whatever they ask.  *)
EXTENDS Storage, TLAPS, SequenceTheorems

Inv == TypeOK /\ HandlerShape

LEMMA SizesNeed ==
  ASSUME NEW n \in Sizes
  PROVE  n \in Nat /\ BlocksNeeded(n) \in Nat /\ BlocksNeeded(n) <= MaxLogical
  BY RequestsAssumption, VolumeAssumption

LEMMA RequestsTyped ==
  ASSUME NEW w \in Workers, NEW r \in Requests[w]
  PROVE  /\ r \in Request
         /\ r.op = "TRUNCATE" => r.n \in Sizes
  BY RequestsAssumption

(* A step that leaves every thread but w as it was, and of the rest only      *)
(* what is typed again here.                                                  *)
ThreadsKept(w) ==
  /\ th' = [th EXCEPT ![w] = th'[w]]
  /\ th'[w] \in Thread /\ WellShaped(th'[w])

LEMMA OneThread ==
  ASSUME Inv, NEW w \in Workers, ThreadsKept(w)
  PROVE  th' \in [Workers -> Thread] /\ \A v \in Workers : WellShaped(th'[v])
  BY DEF Inv, TypeOK, HandlerShape, ThreadsKept

LEMMA IdleIsWellShaped == IdleThread \in Thread /\ WellShaped(IdleThread)
  BY VolumeAssumption, RequestsAssumption
  DEF IdleThread, Thread, NoRequest, Request, NoHash, WellShaped, Ops, PCs, HashPCs,
      FT, NoBlock, Blocks

LEMMA Typed ==
  ASSUME Inv, NEW w \in Workers
  PROVE  /\ th[w] \in Thread /\ WellShaped(th[w])
         /\ Ft(w) \in FT /\ Dest(w) \in FT
         /\ \A ft \in FT : meta[ft] \in Meta /\ Len(meta[ft].blocks) <= MaxLogical
  BY DEF Inv, TypeOK, HandlerShape, Thread, Request, FT, Ft, Dest, Op, Target

(* Two ways a handler changes its locals. *)
LEMMA UpdateKept ==
  ASSUME Inv, NEW w \in Workers, NEW t \in Thread, WellShaped(t),
         th' = [th EXCEPT ![w] = t]
  PROVE  ThreadsKept(w)
  BY DEF ThreadsKept, Inv, TypeOK

LEMMA GotoKept ==
  ASSUME Inv, NEW w \in Workers, NEW l \in PCs, Goto(w, l),
         WellShaped([th[w] EXCEPT !.pc = l])
  PROVE  ThreadsKept(w)
<1>1. th'[w] = [th[w] EXCEPT !.pc = l] /\ th' = [th EXCEPT ![w] = th'[w]]
  BY DEF Goto, Inv, TypeOK
<1>2. th'[w] \in Thread
  BY <1>1, Typed DEF Thread
<1> QED  BY <1>1, <1>2 DEF ThreadsKept

LEMMA ReceiveSafe ==
  ASSUME Inv, NEW w \in Workers, Receive(w)
  PROVE  Inv'
<1>1. PICK r \in Requests[w], l \in {"locate", "start"} :
        th' = [th EXCEPT ![w] = [th[w] EXCEPT !.pc = l, !.req = r]]
  BY DEF Receive, Inv, TypeOK
<1> DEFINE t == [th[w] EXCEPT !.pc = l, !.req = r]
<1>2. t \in Thread
  <2>1. r \in Request /\ l \in PCs
    BY RequestsTyped DEF PCs
  <2>2. th[w] \in Thread
    BY Typed
  <2> QED  BY <2>1, <2>2 DEF Thread
<1>3. WellShaped(t)
  BY Typed, RequestsTyped DEF Receive, WellShaped, HashPCs, Thread
<1>4. ThreadsKept(w)
  BY <1>1, <1>2, <1>3, UpdateKept
<1> QED  BY <1>4, OneThread DEF Inv, TypeOK, HandlerShape, Receive, disk, Codes

-----------------------------------------------------------------------------
(* Handlers that end *)

LEMMA IdleKept ==
  ASSUME Inv, NEW w \in Workers, th' = [th EXCEPT ![w] = IdleThread]
  PROVE  ThreadsKept(w)
  BY IdleIsWellShaped DEF ThreadsKept, Inv, TypeOK

LEMMA RejectSafe ==
  ASSUME Inv, NEW w \in Workers, NEW code \in Codes \cup {"NONE"}, Reject(w, code)
  PROVE  Inv'
<1>1. ThreadsKept(w)  BY IdleKept DEF Reject
<1> QED  BY <1>1, OneThread DEF Inv, TypeOK, HandlerShape, Reject, disk

LEMMA ReconnectSafe ==
  ASSUME Inv, NEW w \in Workers, Reconnect(w)
  PROVE  Inv'
  BY DEF Inv, TypeOK, HandlerShape, WellShaped, Reconnect, disk, Codes

LEMMA BaseMetaTyped == BaseMeta \in Meta /\ Len(BaseMeta.blocks) <= MaxLogical
<1>1. BaseMeta.blocks \in Seq(Blocks) /\ Len(BaseMeta.blocks) = 1
  BY VolumeAssumption DEF BaseMeta, Blocks
<1> QED  BY <1>1, VolumeAssumption DEF BaseMeta, Meta

LEMMA RestartSafe ==
  ASSUME Inv, Restart
  PROVE  Inv'
<1>1. meta' \in [FT -> Meta] /\ \A ft \in FT : Len(meta'[ft].blocks) <= MaxLogical
  BY BaseMetaTyped DEF Restart, Inv, TypeOK, HandlerShape
<1>2. links' \in [FT -> [1 .. MaxLogical -> Blocks \cup {NoBlock}]]
  BY VolumeAssumption DEF Restart, Inv, TypeOK, Blocks
<1>3. /\ files' \subseteq Files /\ dirs' \subseteq FT /\ used' \subseteq Blocks
  BY VolumeAssumption DEF Restart, Inv, TypeOK, Blocks, FT
<1>4. /\ th' \in [Workers -> Thread] /\ ans' \in [Workers -> Codes \cup {"PENDING", "NONE"}]
      /\ \A w \in Workers : WellShaped(th'[w])
  BY IdleIsWellShaped DEF Restart, Codes
<1>5. /\ tagLock' \in [FT -> Workers \cup {NoWorker}]
      /\ hashLock' \in Workers \cup {NoWorker}
      /\ config' \in FT /\ up' \in BOOLEAN
      /\ UNCHANGED <<content, hashIndex>>
  BY VolumeAssumption DEF Restart
<1> QED  BY <1>1, <1>2, <1>3, <1>4, <1>5 DEF Inv, TypeOK, HandlerShape

LEMMA CrashSafe ==
  ASSUME Inv, Crash
  PROVE  Inv'
  BY DEF Inv, TypeOK, HandlerShape, WellShaped, Crash, disk

LEMMA MissingSafe ==
  ASSUME Inv, NEW w \in Workers, Missing(w)
  PROVE  Inv'
  BY RejectSafe DEF Missing, MissingCode, Codes

LEMMA ReadSafe ==
  ASSUME Inv, NEW w \in Workers, Read(w)
  PROVE  Inv'
  BY RejectSafe DEF Read, ReadOverflow, ReadBlock, Codes

-----------------------------------------------------------------------------
(* CREATE_FILE, and the directory and the metadata that TAG_FILE makes too *)

LEMMA CreateSafe ==
  ASSUME Inv, NEW w \in Workers, Create(w)
  PROVE  Inv'
<1>1. CASE CreateExists(w)
  BY <1>1, RejectSafe DEF CreateExists, Codes
<1>2. CASE CreateStart(w)
  <2> DEFINE t == [th[w] EXCEPT !.pc = "mkdir", !.size = BlockSize]
  <2>1. t \in Thread
    BY Typed, VolumeAssumption DEF Thread, PCs
  <2>2. WellShaped(t)
    BY <1>2, Typed DEF CreateStart, Begins, Op, WellShaped, HashPCs, Thread
  <2>3. th' = [th EXCEPT ![w] = t]
    BY <1>2 DEF CreateStart, Inv, TypeOK
  <2>4. ThreadsKept(w)
    BY <2>1, <2>2, <2>3, UpdateKept
  <2> QED  BY <1>2, <2>4, OneThread, Typed
           DEF Inv, TypeOK, HandlerShape, CreateStart, Take, disk
<1> QED  BY <1>1, <1>2 DEF Create

LEMMA MakeDirectorySafe ==
  ASSUME Inv, NEW w \in Workers, MakeDirectory(w)
  PROVE  Inv'
<1>1. ThreadsKept(w)
  <2>1. PICK l \in {"clone", "open"} : Goto(w, l) /\ (l = "clone" <=> Op(w) = "TAG")
    BY DEF MakeDirectory
  <2>2. WellShaped([th[w] EXCEPT !.pc = l])
    BY <2>1, Typed DEF MakeDirectory, At, Op, WellShaped, HashPCs, Thread
  <2> QED  BY <2>1, <2>2, GotoKept DEF PCs
<1>2. files' \subseteq Files /\ dirs' \subseteq FT
  BY Typed DEF MakeDirectory, FT, Inv, TypeOK
<1> QED  BY <1>1, <1>2, OneThread DEF Inv, TypeOK, HandlerShape, MakeDirectory

LEMMA OpenMetadataSafe ==
  ASSUME Inv, NEW w \in Workers, OpenMetadata(w)
  PROVE  Inv'
<1>1. WellShaped([th[w] EXCEPT !.pc = "close"])
  BY Typed DEF OpenMetadata, At, WellShaped, HashPCs, Thread
<1>2. ThreadsKept(w)
  BY <1>1, GotoKept DEF OpenMetadata, PCs
<1> QED  BY <1>2, OneThread, Typed DEF Inv, TypeOK, HandlerShape, OpenMetadata, disk

LEMMA SaveMetadataSafe ==
  ASSUME Inv, NEW w \in Workers, SaveMetadata(w)
  PROVE  Inv'
<1>1. ThreadsKept(w)
  BY IdleKept DEF SaveMetadata, Finish
<1>2. PICK ft \in FT :
        meta' = IF ft \in dirs
                THEN [meta EXCEPT ![ft] = [state |-> "WORK_IN_PROGRESS",
                                           size |-> th[w].size,
                                           blocks |-> th[w].blocks]]
                ELSE meta
  BY Typed DEF SaveMetadata, Inv, TypeOK
<1>3. meta' \in [FT -> Meta] /\ \A g \in FT : Len(meta'[g].blocks) <= MaxLogical
  BY <1>2, Typed DEF Inv, TypeOK, HandlerShape, Meta, Thread, WellShaped
<1> QED  BY <1>1, <1>3, OneThread, Typed
         DEF Inv, TypeOK, HandlerShape, SaveMetadata, Finish, Codes

-----------------------------------------------------------------------------
(* TRUNCATE_FILE and DELETE_TAG *)

LEMMA LoadedMeta ==
  ASSUME Inv, NEW w \in Workers
  PROVE  /\ meta[Ft(w)].blocks \in Seq(Blocks) /\ meta[Ft(w)].size \in Nat
         /\ Len(meta[Ft(w)].blocks) \in 0 .. MaxLogical
  BY Typed DEF Meta

LEMMA TruncateStartSafe ==
  ASSUME Inv, NEW w \in Workers, TruncateStart(w)
  PROVE  Inv'
<1>1. th[w].req.op = "TRUNCATE" /\ th[w].req.n \in Sizes
  BY Typed DEF TruncateStart, Loaded, Begins, Op, WellShaped
<1>2. PICK n \in Sizes : n = th[w].req.n
  BY <1>1
<1>3. n \in Nat /\ BlocksNeeded(n) \in Nat /\ BlocksNeeded(n) <= MaxLogical
  BY SizesNeed
<1>4. PICK b \in Seq(Blocks) : b = meta[Ft(w)].blocks /\ Len(b) \in 0 .. MaxLogical
  BY LoadedMeta
<1>5. PICK i \in Nat : i = IF BlocksNeeded(n) > Len(b) THEN Len(b) + 1 ELSE Len(b)
  BY <1>3, <1>4
<1>6. PICK l \in {"grow", "unlink", "open"} :
        l = IF BlocksNeeded(n) > Len(b) THEN "grow"
            ELSE IF BlocksNeeded(n) < Len(b) THEN "unlink" ELSE "open"
  OBVIOUS
<1> DEFINE t == [th[w] EXCEPT !.pc = l, !.size = n, !.blocks = b, !.i = i]
<1>7. t \in Thread
  <2>1. l \in PCs
    BY DEF PCs
  <2> QED  BY <1>3, <2>1, Typed DEF Thread
<1>8. WellShaped(t)
  BY <1>1, <1>2, <1>3, <1>4, <1>5, <1>6, Typed DEF WellShaped, HashPCs, Thread
<1>9. th' = [th EXCEPT ![w] = t]
  <2>1. CASE BlocksNeeded(n) > Len(b)
    <3>1. Missed(w) > 0 /\ l = "grow" /\ i = Len(b) + 1
      BY <1>2, <1>3, <1>4, <1>5, <1>6, <2>1 DEF Missed
    <3> QED  BY <3>1, <1>2, <1>4 DEF TruncateStart, Inv, TypeOK
  <2>2. CASE BlocksNeeded(n) < Len(b)
    <3>1. ~(Missed(w) > 0) /\ Missed(w) < 0 /\ l = "unlink" /\ i = Len(b)
      BY <1>2, <1>3, <1>4, <1>5, <1>6, <2>2 DEF Missed
    <3> QED  BY <3>1, <1>2, <1>4 DEF TruncateStart, Inv, TypeOK
  <2>3. CASE BlocksNeeded(n) = Len(b)
    <3>1. ~(Missed(w) > 0) /\ ~(Missed(w) < 0) /\ l = "open" /\ i = Len(b)
      BY <1>2, <1>3, <1>4, <1>5, <1>6, <2>3 DEF Missed
    <3> QED  BY <3>1, <1>2, <1>4 DEF TruncateStart, Inv, TypeOK
  <2> QED  BY <1>3, <1>4, <2>1, <2>2, <2>3
<1>10. ThreadsKept(w)
  BY <1>7, <1>8, <1>9, UpdateKept
<1> QED  BY <1>10, OneThread, Typed DEF Inv, TypeOK, HandlerShape, TruncateStart, Take, disk

LEMMA GrowSafe ==
  ASSUME Inv, NEW w \in Workers, Grow(w)
  PROVE  Inv'
<1>1. /\ th[w].i = Len(th[w].blocks) + 1 /\ th[w].size \in Sizes
      /\ th[w].size = th[w].req.n /\ th[w].i <= BlocksNeeded(th[w].size)
  BY Typed DEF Grow, At, WellShaped
<1>2. BlocksNeeded(th[w].size) \in Nat /\ BlocksNeeded(th[w].size) <= MaxLogical
  BY <1>1, SizesNeed
<1>3. 0 \in Blocks
  BY VolumeAssumption DEF Blocks
<1>4. PICK b \in Seq(Blocks) :
        b = Append(th[w].blocks, 0) /\ Len(b) = Len(th[w].blocks) + 1
  <2>1. th[w].blocks \in Seq(Blocks)
    BY Typed DEF Thread
  <2>2. /\ Append(th[w].blocks, 0) \in Seq(Blocks)
        /\ Len(Append(th[w].blocks, 0)) = Len(th[w].blocks) + 1
    BY <1>3, <2>1
  <2> QED  BY <2>2
<1>5. PICK i \in Nat : i = th[w].i + 1
  BY Typed DEF Thread
<1>6. PICK l \in {"grow", "open"} :
        l = IF th[w].i < BlocksNeeded(th[w].size) THEN "grow" ELSE "open"
  OBVIOUS
<1> DEFINE t == [th[w] EXCEPT !.pc = l, !.blocks = b, !.i = i]
<1>7. t \in Thread
  BY Typed DEF Thread, PCs
<1>8. WellShaped(t)
  <2>1. /\ Len(b) = th[w].i /\ i = Len(b) + 1 /\ Len(b) <= MaxLogical
        /\ l = "grow" => i <= BlocksNeeded(th[w].size)
    BY <1>1, <1>2, <1>4, <1>5, <1>6, VolumeAssumption
  <2>2. /\ Len(th[w].orig) <= MaxLogical
        /\ th[w].req.op = "TRUNCATE" => th[w].req.n \in Sizes
    BY Typed DEF WellShaped, Grow, At
  <2> QED  BY <1>1, <2>1, <2>2, Typed DEF WellShaped, HashPCs, Thread
<1>9. th' = [th EXCEPT ![w] = t]
  BY <1>4, <1>5, <1>6 DEF Grow, Inv, TypeOK
<1>10. ThreadsKept(w)
  BY <1>7, <1>8, <1>9, UpdateKept
<1>11. links' \in [FT -> [1 .. MaxLogical -> Blocks \cup {NoBlock}]]
  BY <1>3, Typed DEF Grow, WithLink, Inv, TypeOK
<1> QED  BY <1>10, <1>11, OneThread DEF Inv, TypeOK, HandlerShape, Grow

LEMMA TruncateSafe ==
  ASSUME Inv, NEW w \in Workers, Truncate(w)
  PROVE  Inv'
  BY RejectSafe, TruncateStartSafe, GrowSafe
  DEF Truncate, TruncateCommited, TruncateNoSpace, Codes

(* The loop that drops logical blocks never leaves the list. *)
LEMMA NextDropKept ==
  ASSUME Inv, NEW w \in Workers, th[w].pc \in {"stat", "free", "unhash"}, NextDrop(w)
  PROVE  ThreadsKept(w)
<1>1. th[w].i \in 1 .. Len(th[w].blocks) /\ Len(th[w].blocks) <= MaxLogical
  BY Typed DEF WellShaped
<1>2. CASE Op(w) = "DELETE"
  <2>1. PICK i \in Nat : i = th[w].i + 1
    BY <1>1
  <2>2. PICK l \in {"unlink", "rmdir"} :
          l = IF th[w].i < Len(th[w].blocks) THEN "unlink" ELSE "rmdir"
    OBVIOUS
  <2> DEFINE t == [th[w] EXCEPT !.pc = l, !.i = i]
  <2>3. t \in Thread
    <3>1. l \in PCs
      BY DEF PCs
    <3> QED  BY <3>1, Typed DEF Thread
  <2>4. WellShaped(t)
    BY <1>1, <1>2, <2>1, <2>2, Typed DEF WellShaped, HashPCs, Thread, Op
  <2>5. th' = [th EXCEPT ![w] = t]
    BY <1>2, <2>1, <2>2 DEF NextDrop, Inv, TypeOK
  <2> QED  BY <2>3, <2>4, <2>5, UpdateKept
<1>3. CASE Op(w) # "DELETE"
  <2>1. th[w].i = Len(th[w].blocks) /\ th[w].size \in Sizes /\ th[w].size = th[w].req.n
    BY <1>3, Typed DEF WellShaped, Op
  <2>2. BlocksNeeded(th[w].size) \in Nat
    BY <2>1, SizesNeed
  <2>3. PICK i \in Nat : i = th[w].i - 1
    BY <1>1
  <2>4. PICK b \in Seq(Blocks) : b = SubSeq(th[w].blocks, 1, i) /\ Len(b) = i
    <3>1. th[w].blocks \in Seq(Blocks)
      BY Typed DEF Thread
    <3>2. /\ SubSeq(th[w].blocks, 1, i) \in Seq(Blocks)
          /\ Len(SubSeq(th[w].blocks, 1, i)) = i
      BY <1>1, <2>3, <3>1
    <3> QED  BY <3>2
  <2>5. PICK l \in {"unlink", "open"} :
          l = IF i > BlocksNeeded(th[w].size) THEN "unlink" ELSE "open"
    OBVIOUS
  <2> DEFINE t == [th[w] EXCEPT !.pc = l, !.i = i, !.blocks = b]
  <2>6. t \in Thread
    BY Typed DEF Thread, PCs
  <2>7. WellShaped(t)
    <3>1. /\ Len(b) = i /\ Len(b) <= MaxLogical
          /\ l = "unlink" => i \in 1 .. Len(b) /\ i > BlocksNeeded(th[w].size)
      BY <1>1, <2>1, <2>2, <2>3, <2>4, <2>5, VolumeAssumption
    <3>2. /\ Len(th[w].orig) <= MaxLogical
          /\ th[w].req.op = "TRUNCATE" => th[w].req.n \in Sizes
      BY Typed DEF WellShaped
    <3> QED  BY <2>1, <3>1, <3>2, Typed DEF WellShaped, HashPCs, Thread
  <2>8. th' = [th EXCEPT ![w] = t]
    BY <1>3, <2>3, <2>4, <2>5 DEF NextDrop, Inv, TypeOK
  <2> QED  BY <2>6, <2>7, <2>8, UpdateKept
<1> QED  BY <1>2, <1>3

(* Whatever becomes of an unlink, the links are those of an array of them. *)
LEMMA UnlinkedTyped ==
  ASSUME Inv, NEW ft \in FT, NEW i, NEW ls \in Unlinked(links, ft, i)
  PROVE  ls \in [FT -> [1 .. MaxLogical -> Blocks \cup {NoBlock}]]
<1>1. links \in [FT -> [1 .. MaxLogical -> Blocks \cup {NoBlock}]]
  BY DEF Inv, TypeOK
<1>2. ls = links \/ ls = [links EXCEPT ![ft] = [links[ft] EXCEPT ![i] = NoBlock]]
  BY DEF Unlinked, WithoutLink
<1>3. [links[ft] EXCEPT ![i] = NoBlock] \in [1 .. MaxLogical -> Blocks \cup {NoBlock}]
  BY <1>1
<1> QED  BY <1>1, <1>2, <1>3

LEMMA DropSafe ==
  ASSUME Inv, NEW w \in Workers, Drop(w)
  PROVE  Inv'
<1>1. CASE Unlink(w)
  <2>1. WellShaped([th[w] EXCEPT !.pc = "stat"])
    BY <1>1, Typed DEF Unlink, At, WellShaped, HashPCs, Thread
  <2>2. ThreadsKept(w)
    BY <1>1, <2>1, GotoKept DEF Unlink, PCs
  <2>3. links' \in [FT -> [1 .. MaxLogical -> Blocks \cup {NoBlock}]]
    BY <1>1, UnlinkedTyped, Typed DEF Unlink
  <2> QED  BY <1>1, <2>2, <2>3, OneThread DEF Inv, TypeOK, HandlerShape, Unlink
<1>2. CASE Stat(w)
  <2>1. WellShaped([th[w] EXCEPT !.pc = "free"])
    BY <1>2, Typed DEF Stat, At, WellShaped, HashPCs, Thread
  <2>2. ThreadsKept(w)
    BY <1>2, <2>1, GotoKept, NextDropKept DEF Stat, At, PCs
  <2> QED  BY <1>2, <2>2, OneThread DEF Inv, TypeOK, HandlerShape, Stat, disk
<1>3. CASE Free(w)
  <2>1. WellShaped([th[w] EXCEPT !.pc = "unhash"])
    BY <1>3, Typed DEF Free, At, WellShaped, HashPCs, Thread
  <2>2. ThreadsKept(w)
    BY <1>3, <2>1, GotoKept, NextDropKept DEF Free, At, PCs
  <2> QED  BY <1>3, <2>2, OneThread DEF Inv, TypeOK, HandlerShape, Free
<1> QED  BY <1>1, <1>2, <1>3 DEF Drop

LEMMA DeleteSafe ==
  ASSUME Inv, NEW w \in Workers, Delete(w)
  PROVE  Inv'
<1>1. CASE DeleteStart(w)
  <2> DEFINE b == meta[Ft(w)].blocks
             Locals(l) == [th[w] EXCEPT !.pc = l, !.blocks = b, !.i = 1]
  <2>1. b \in Seq(Blocks) /\ Len(b) \in 0 .. MaxLogical
    BY LoadedMeta
  <2>2. th[w].req.op = "DELETE"
    BY <1>1 DEF DeleteStart, Loaded, Begins, Op
  <2>3. ASSUME NEW l \in {"rmdir", "unlink"}, l = "unlink" => Len(b) >= 1,
               th' = [th EXCEPT ![w] = Locals(l)]
        PROVE  ThreadsKept(w)
    <3> HIDE DEF b
    <3>1. Locals(l) \in Thread
      BY <2>1, Typed DEF Thread, PCs
    <3>2. WellShaped(Locals(l))
      BY <2>1, <2>2, <2>3, Typed DEF WellShaped, HashPCs, Thread
    <3> QED  BY <2>3, <3>1, <3>2, UpdateKept
  <2>4. ThreadsKept(w)
    <3>1. CASE b = <<>>
      <4>1. th' = [th EXCEPT ![w] = Locals("rmdir")]
        BY <1>1, <3>1 DEF DeleteStart, Inv, TypeOK
      <4> QED  BY <2>3, <4>1
    <3>2. CASE b # <<>>
      <4>1. th' = [th EXCEPT ![w] = Locals("unlink")]
        BY <1>1, <3>2 DEF DeleteStart, Inv, TypeOK
      <4>2. Len(b) >= 1
        BY <2>1, <3>2
      <4> QED  BY <2>3, <4>1, <4>2
    <3> QED  BY <3>1, <3>2
  <2> QED  BY <1>1, <2>4, OneThread, Typed
           DEF Inv, TypeOK, HandlerShape, DeleteStart, Take, disk
<1>2. CASE Unhash(w)
  <2>1. ThreadsKept(w)
    BY <1>2, NextDropKept DEF Unhash, At
  <2>2. hashIndex' \in [Data -> Blocks \cup {NoBlock}]
    BY <1>2 DEF Unhash, Inv, TypeOK
  <2> QED  BY <1>2, <2>1, <2>2, OneThread DEF Inv, TypeOK, HandlerShape, Unhash
<1>3. CASE RemoveDirectory(w)
  <2>1. ThreadsKept(w)
    BY <1>3, IdleKept DEF RemoveDirectory, Finish
  <2>2. NoMeta \in Meta /\ Len(NoMeta.blocks) <= MaxLogical
    BY VolumeAssumption DEF NoMeta, Meta
  <2>3. meta' \in [FT -> Meta] /\ \A ft \in FT : Len(meta'[ft].blocks) <= MaxLogical
    BY <1>3, <2>2, Typed DEF RemoveDirectory, Inv, TypeOK
  <2>4. links' \in [FT -> [1 .. MaxLogical -> Blocks \cup {NoBlock}]]
    BY <1>3, Typed DEF RemoveDirectory, Inv, TypeOK
  <2> QED  BY <1>3, <2>1, <2>3, <2>4, OneThread, Typed
           DEF Inv, TypeOK, HandlerShape, RemoveDirectory, Finish, Codes
<1> QED  BY <1>1, <1>2, <1>3 DEF Delete

-----------------------------------------------------------------------------
(* TAG_FILE *)

LEMMA TagStartSafe ==
  ASSUME Inv, NEW w \in Workers, TagStart(w)
  PROVE  Inv'
<1>1. PICK b \in Seq(Blocks) : b = meta[Ft(w)].blocks /\ Len(b) <= MaxLogical
  BY LoadedMeta
<1>2. PICK n \in Nat : n = meta[Ft(w)].size
  BY LoadedMeta
<1> DEFINE t == [th[w] EXCEPT !.pc = "mkdir", !.size = n, !.orig = b, !.i = 1]
<1>3. t \in Thread
  BY Typed DEF Thread, PCs
<1>4. WellShaped(t)
  BY <1>1, Typed DEF TagStart, Loaded, Begins, Op, WellShaped, HashPCs, Thread
<1>5. th' = [th EXCEPT ![w] = t]
  BY <1>1, <1>2 DEF TagStart, Inv, TypeOK
<1>6. ThreadsKept(w)
  BY <1>3, <1>4, <1>5, UpdateKept
<1>7. files' \subseteq Files
  BY Typed DEF TagStart, WithFileDestino, Inv, TypeOK, Thread, Request, FT
<1> QED  BY <1>6, <1>7, OneThread, Typed DEF Inv, TypeOK, HandlerShape, TagStart, Take

LEMMA TagRejectedSafe ==
  ASSUME Inv, NEW w \in Workers, NEW code \in Codes, TagRejected(w, code)
  PROVE  Inv'
<1>1. ThreadsKept(w)  BY IdleKept DEF TagRejected
<1>2. files' \subseteq Files
  BY Typed DEF TagRejected, WithFileDestino, Inv, TypeOK, Thread, Request, FT
<1> QED  BY <1>1, <1>2, OneThread DEF Inv, TypeOK, HandlerShape, TagRejected

(* A block is reserved and is the copy of another. *)
LEMMA ClonedTyped ==
  ASSUME Inv, NEW b \in Blocks, NEW src, CloneInto(b, src), src \in Blocks
  PROVE  used' \subseteq Blocks /\ content' \in [Blocks -> Data \cup {NoData}]
  BY DEF CloneInto, BufferOf, Inv, TypeOK

LEMMA TagCloneSafe ==
  ASSUME Inv, NEW w \in Workers, TagClone(w)
  PROVE  Inv'
<1>1. th[w].i = Len(th[w].blocks) + 1 /\ th[w].i <= Len(th[w].orig)
  BY Typed DEF TagClone, At, WellShaped
<1>2. PICK b \in Blocks :
        CloneInto(b, th[w].orig[th[w].i]) /\ th' = [th EXCEPT ![w].pc = "link", ![w].new = b]
  BY DEF TagClone
<1>3. th[w].orig[th[w].i] \in Blocks
  <2>1. th[w].orig \in Seq(Blocks) /\ th[w].i \in 1 .. Len(th[w].orig)
    BY <1>1, Typed DEF Thread
  <2> QED  BY <2>1
<1> DEFINE t == [th[w] EXCEPT !.pc = "link", !.new = b]
<1>4. t \in Thread
  BY Typed DEF Thread, PCs
<1>5. WellShaped(t)
  BY <1>1, Typed DEF TagClone, At, WellShaped, HashPCs, Thread
<1>6. th' = [th EXCEPT ![w] = t]
  BY <1>2 DEF Inv, TypeOK
<1>7. ThreadsKept(w)
  BY <1>4, <1>5, <1>6, UpdateKept
<1> QED  BY <1>2, <1>3, <1>7, OneThread, ClonedTyped DEF Inv, TypeOK, HandlerShape, TagClone

LEMMA TagLinkSafe ==
  ASSUME Inv, NEW w \in Workers, TagLink(w)
  PROVE  Inv'
<1>1. th[w].i = Len(th[w].blocks) + 1 /\ th[w].i <= Len(th[w].orig) /\ th[w].new \in Blocks
  BY Typed DEF TagLink, At, WellShaped
<1>2. PICK b \in Seq(Blocks) :
        b = Append(th[w].blocks, th[w].new) /\ Len(b) = Len(th[w].blocks) + 1
  <2>1. th[w].blocks \in Seq(Blocks)
    BY Typed DEF Thread
  <2>2. /\ Append(th[w].blocks, th[w].new) \in Seq(Blocks)
        /\ Len(Append(th[w].blocks, th[w].new)) = Len(th[w].blocks) + 1
    BY <1>1, <2>1
  <2> QED  BY <2>2
<1>3. PICK i \in Nat : i = th[w].i + 1
  BY Typed DEF Thread
<1> DEFINE t == [th[w] EXCEPT !.pc = "clone", !.i = i, !.new = NoBlock, !.blocks = b]
<1>4. t \in Thread
  BY Typed DEF Thread, PCs
<1>5. WellShaped(t)
  <2>1. /\ Len(th[w].orig) <= MaxLogical
        /\ th[w].req.op = "TRUNCATE" => th[w].req.n \in Sizes
    BY Typed DEF WellShaped, TagLink, At
  <2>2. Len(th[w].blocks) \in Nat /\ Len(th[w].orig) \in Nat /\ MaxLogical \in Nat
    BY Typed, VolumeAssumption DEF Thread
  <2>3. Len(b) <= MaxLogical /\ i = Len(b) + 1 /\ i <= Len(th[w].orig) + 1
    BY <1>1, <1>2, <1>3, <2>1, <2>2
  <2> QED  BY <2>1, <2>3, Typed DEF WellShaped, HashPCs, Thread
<1>6. th' = [th EXCEPT ![w] = t]
  BY <1>2, <1>3 DEF TagLink, Inv, TypeOK
<1>7. ThreadsKept(w)
  BY <1>4, <1>5, <1>6, UpdateKept
<1>8. links' \in [FT -> [1 .. MaxLogical -> Blocks \cup {NoBlock}]]
  BY <1>1, Typed DEF TagLink, WithLink, Inv, TypeOK
<1> QED  BY <1>7, <1>8, OneThread DEF Inv, TypeOK, HandlerShape, TagLink

LEMMA TagSafe ==
  ASSUME Inv, NEW w \in Workers, Tag(w)
  PROVE  Inv'
<1>1. CASE TagExists(w)
  BY <1>1, TagRejectedSafe DEF TagExists, Codes
<1>2. CASE TagNoSpace(w)
  BY <1>2, TagRejectedSafe DEF TagNoSpace, Codes
<1>3. CASE TagStart(w)
  BY <1>3, TagStartSafe
<1>4. CASE TagClone(w)
  BY <1>4, TagCloneSafe
<1>5. CASE TagCloneFails(w)
  <2>1. ThreadsKept(w)
    BY <1>5, IdleKept DEF TagCloneFails, Finish
  <2> QED  BY <1>5, <2>1, OneThread, Typed
           DEF Inv, TypeOK, HandlerShape, TagCloneFails, Finish
<1>6. CASE TagLink(w)
  BY <1>6, TagLinkSafe
<1>7. CASE TagCloned(w)
  <2>1. WellShaped([th[w] EXCEPT !.pc = "open"])
    BY <1>7, Typed DEF TagCloned, At, WellShaped, HashPCs, Thread
  <2>2. ThreadsKept(w)
    BY <1>7, <2>1, GotoKept DEF TagCloned, PCs
  <2> QED  BY <1>7, <2>2, OneThread DEF Inv, TypeOK, HandlerShape, TagCloned, disk
<1> QED  BY <1>1, <1>2, <1>3, <1>4, <1>5, <1>6, <1>7 DEF Tag

-----------------------------------------------------------------------------
(* COMMIT_TAG *)

LEMMA CommitStartSafe ==
  ASSUME Inv, NEW w \in Workers, CommitStart(w)
  PROVE  Inv'
<1>1. PICK b \in Seq(Blocks) : b = meta[Ft(w)].blocks /\ Len(b) <= MaxLogical
  BY LoadedMeta
<1>2. PICK n \in Nat : n = meta[Ft(w)].size
  BY LoadedMeta
<1> DEFINE t == [th[w] EXCEPT !.pc = "index", !.blocks = b, !.size = n, !.i = 1]
<1>3. t \in Thread
  BY Typed DEF Thread, PCs
<1>4. WellShaped(t)
  BY <1>1, Typed DEF CommitStart, Loaded, Begins, Op, WellShaped, HashPCs, Thread
<1>5. th' = [th EXCEPT ![w] = t]
  BY <1>1, <1>2 DEF CommitStart, Inv, TypeOK
<1>6. ThreadsKept(w)
  BY <1>3, <1>4, <1>5, UpdateKept
<1>7. meta' \in [FT -> Meta] /\ \A ft \in FT : Len(meta'[ft].blocks) <= MaxLogical
  <2>1. PICK m \in Meta : m = meta[Ft(w)] /\ Len(m.blocks) <= MaxLogical
    BY Typed
  <2>2. [m EXCEPT !.state = "COMMITED"] \in Meta
    BY DEF Meta
  <2>3. meta' = [meta EXCEPT ![Ft(w)] = [m EXCEPT !.state = "COMMITED"]]
    BY <2>1, Typed DEF CommitStart, Inv, TypeOK
  <2>4. [m EXCEPT !.state = "COMMITED"].blocks = m.blocks
    BY DEF Meta
  <2> QED  BY <2>1, <2>2, <2>3, <2>4, Typed DEF Inv, TypeOK
<1> QED  BY <1>6, <1>7, OneThread, Typed DEF Inv, TypeOK, HandlerShape, CommitStart, Take

LEMMA LoadIndexSafe ==
  ASSUME Inv, NEW w \in Workers, LoadIndex(w)
  PROVE  Inv'
<1> DEFINE t == [th[w] EXCEPT !.pc = "hash", !.bhi = hashIndex]
<1>1. t \in Thread
  <2>1. hashIndex \in [Data -> Blocks \cup {NoBlock}]
    BY DEF Inv, TypeOK
  <2> QED  BY <2>1, Typed DEF Thread, PCs
<1>2. WellShaped(t)
  BY Typed DEF LoadIndex, At, WellShaped, HashPCs, Thread
<1>3. th' = [th EXCEPT ![w] = t]
  BY DEF LoadIndex, Inv, TypeOK
<1>4. ThreadsKept(w)
  BY <1>1, <1>2, <1>3, UpdateKept
<1> QED  BY <1>4, OneThread DEF Inv, TypeOK, HandlerShape, LoadIndex, disk

LEMMA NextCommitKept ==
  ASSUME Inv, NEW w \in Workers, th[w].pc \in {"hash", "lookup", "relink"}, NextCommit(w)
  PROVE  ThreadsKept(w)
<1>1. th[w].i >= 1
  BY Typed DEF WellShaped, HashPCs
<1>2. PICK i \in Nat : i = th[w].i + 1
  BY Typed DEF Thread
<1> DEFINE t == [th[w] EXCEPT !.pc = "hash", !.i = i, !.hash = NoData]
<1>3. t \in Thread
  BY Typed DEF Thread, PCs
<1>4. WellShaped(t)
  BY <1>1, <1>2, Typed DEF WellShaped, HashPCs, Thread
<1>5. th' = [th EXCEPT ![w] = t]
  BY <1>2 DEF NextCommit, Inv, TypeOK
<1> QED  BY <1>3, <1>4, <1>5, UpdateKept

LEMMA HashBlockSafe ==
  ASSUME Inv, NEW w \in Workers, HashBlock(w)
  PROVE  Inv'
<1>1. th[w].pc = "hash" /\ th[w].i \in 1 .. Len(th[w].blocks)
  BY Typed DEF HashBlock, At, WellShaped, Thread
<1>2. ThreadsKept(w)
  <2>1. CASE links[Ft(w)][th[w].i] = NoBlock
    BY <1>1, <2>1, NextCommitKept DEF HashBlock
  <2>2. CASE links[Ft(w)][th[w].i] # NoBlock
    <3>1. PICK d \in Data : th' = [th EXCEPT ![w].pc = "lookup", ![w].hash = d]
      BY <2>2, Typed DEF HashBlock, BufferOf
    <3> DEFINE t == [th[w] EXCEPT !.pc = "lookup", !.hash = d]
    <3>2. t \in Thread
      BY Typed DEF Thread, PCs
    <3>3. WellShaped(t)
      BY <1>1, Typed DEF WellShaped, HashPCs, Thread
    <3>4. th' = [th EXCEPT ![w] = t]
      BY <3>1 DEF Inv, TypeOK
    <3> QED  BY <3>2, <3>3, <3>4, UpdateKept
  <2> QED  BY <2>1, <2>2
<1> QED  BY <1>2, OneThread DEF Inv, TypeOK, HandlerShape, HashBlock, disk

(* The block that the metadata names at the loop's position. *)
LEMMA CurrentTyped ==
  ASSUME Inv, NEW w \in Workers, th[w].pc \in {"lookup"} \cup HashPCs
  PROVE  /\ Current(w) \in Blocks /\ Existing(w) \in Blocks \cup {NoBlock}
         /\ th[w].pc \in HashPCs => Existing(w) \in Blocks
         /\ th[w].i \in 1 .. Len(th[w].blocks) /\ th[w].hash \in Data
         /\ Len(th[w].blocks) <= MaxLogical
<1>1. /\ th[w].i \in 1 .. Len(th[w].blocks) /\ th[w].hash \in Data
      /\ th[w].pc \in HashPCs => th[w].bhi[th[w].hash] \in Blocks
      /\ Len(th[w].blocks) <= MaxLogical
  BY Typed DEF WellShaped
<1>2. th[w].blocks \in Seq(Blocks) /\ th[w].bhi \in [Data -> Blocks \cup {NoBlock}]
  BY Typed DEF Thread
<1> QED  BY <1>1, <1>2 DEF Current, Existing

LEMMA CommitInsertSafe ==
  ASSUME Inv, NEW w \in Workers, CommitInsert(w)
  PROVE  Inv'
<1>1. th[w].pc = "lookup"
  BY DEF CommitInsert, At
<1>2. /\ Current(w) \in Blocks /\ th[w].hash \in Data /\ th[w].i >= 1
  BY <1>1, CurrentTyped
<1>3. PICK h \in [Data -> Blocks \cup {NoBlock}] :
        h = [th[w].bhi EXCEPT ![th[w].hash] = Current(w)]
  <2>1. th[w].bhi \in [Data -> Blocks \cup {NoBlock}]
    BY Typed DEF Thread
  <2> QED  BY <1>2, <2>1
<1>4. PICK i \in Nat : i = th[w].i + 1
  BY Typed DEF Thread
<1> DEFINE t == [th[w] EXCEPT !.bhi = h, !.pc = "hash", !.i = i, !.hash = NoData]
<1>5. t \in Thread
  BY Typed DEF Thread, PCs
<1>6. WellShaped(t)
  BY <1>1, <1>2, <1>4, Typed DEF WellShaped, HashPCs, Thread
<1>7. th' = [th EXCEPT ![w] = t]
  BY <1>3, <1>4 DEF CommitInsert, Inv, TypeOK
<1>8. ThreadsKept(w)
  BY <1>5, <1>6, <1>7, UpdateKept
<1> QED  BY <1>3, <1>8, OneThread DEF Inv, TypeOK, HandlerShape, CommitInsert

LEMMA CommitFoundSafe ==
  ASSUME Inv, NEW w \in Workers, CommitFound(w)
  PROVE  Inv'
<1>1. Existing(w) \in Blocks
  BY CurrentTyped DEF CommitFound, At
<1>2. WellShaped([th[w] EXCEPT !.pc = "relink"])
  BY <1>1, Typed DEF CommitFound, At, Existing, WellShaped, HashPCs, Thread
<1>3. ThreadsKept(w)
  BY <1>2, GotoKept DEF CommitFound, PCs
<1> QED  BY <1>3, OneThread DEF Inv, TypeOK, HandlerShape, CommitFound, disk

(* From one part of the section under hash_index_lock to the next. *)
LEMMA HashPcKept ==
  ASSUME Inv, NEW w \in Workers, th[w].pc \in HashPCs, NEW l \in HashPCs, Goto(w, l)
  PROVE  ThreadsKept(w)
<1>1. l \in PCs
  BY DEF HashPCs, PCs
<1>2. WellShaped([th[w] EXCEPT !.pc = l])
  BY Typed DEF WellShaped, HashPCs, Thread
<1> QED  BY <1>1, <1>2, GotoKept

LEMMA CommitRelinkSafe ==
  ASSUME Inv, NEW w \in Workers, CommitRelink(w)
  PROVE  Inv'
<1>1. th[w].pc \in HashPCs
  BY DEF CommitRelink, At, HashPCs
<1>2. ThreadsKept(w)
  BY <1>1, HashPcKept DEF CommitRelink, HashPCs
<1>3. Existing(w) \in Blocks
  BY <1>1, CurrentTyped
<1>4. links' \in [FT -> [1 .. MaxLogical -> Blocks \cup {NoBlock}]]
  BY <1>3, Typed DEF CommitRelink, WithLink, WithoutLink, Inv, TypeOK
<1> QED  BY <1>2, <1>4, OneThread DEF Inv, TypeOK, HandlerShape, CommitRelink

LEMMA CommitSaveSafe ==
  ASSUME Inv, NEW w \in Workers, CommitSave(w)
  PROVE  Inv'
<1>1. th[w].pc = "save" /\ th[w].pc \in HashPCs
  BY DEF CommitSave, At, HashPCs
<1>2. /\ Existing(w) \in Blocks /\ th[w].i \in 1 .. Len(th[w].blocks)
      /\ Len(th[w].blocks) <= MaxLogical
  BY <1>1, CurrentTyped
<1>3. PICK b \in Seq(Blocks) :
        b = ReplaceAt(th[w].blocks, th[w].i, Existing(w)) /\ Len(b) = Len(th[w].blocks)
  <2>1. th[w].blocks \in Seq(Blocks)
    BY Typed DEF Thread
  <2> DEFINE s == th[w].blocks
  <2>2. th[w].i \in DOMAIN s
    BY <1>2, <2>1
  <2>3. /\ [s EXCEPT ![th[w].i] = Existing(w)] \in Seq(Blocks)
        /\ Len([s EXCEPT ![th[w].i] = Existing(w)]) = Len(s)
    BY <1>2, <2>1, ExceptSeq
  <2> QED  BY <2>2, <2>3 DEF ReplaceAt
<1>4. PICK i \in Nat : i = th[w].i + 1
  BY Typed DEF Thread
<1> DEFINE t == [th[w] EXCEPT !.blocks = b, !.pc = "hash", !.i = i, !.hash = NoData]
<1>5. t \in Thread
  BY Typed DEF Thread, PCs
<1>6. WellShaped(t)
  <2>1. Len(b) <= MaxLogical /\ i >= 1
    BY <1>2, <1>3, <1>4
  <2>2. /\ Len(th[w].orig) <= MaxLogical
        /\ th[w].req.op = "TRUNCATE" => th[w].req.n \in Sizes
    BY <1>1, Typed DEF WellShaped
  <2> QED  BY <2>1, <2>2, Typed DEF WellShaped, HashPCs, Thread
<1>7. th' = [th EXCEPT ![w] = t]
  BY <1>3, <1>4 DEF CommitSave, Inv, TypeOK
<1>8. ThreadsKept(w)
  BY <1>5, <1>6, <1>7, UpdateKept
<1>9. meta' \in [FT -> Meta] /\ \A ft \in FT : Len(meta'[ft].blocks) <= MaxLogical
  <2>1. PICK n \in Nat : n = th[w].size
    BY Typed DEF Thread
  <2>2. [state |-> "COMMITED", size |-> n, blocks |-> b] \in Meta
    BY DEF Meta
  <2>3. meta' = IF Ft(w) \in dirs
                THEN [meta EXCEPT ![Ft(w)] = [state |-> "COMMITED", size |-> n, blocks |-> b]]
                ELSE meta
    BY <1>3, <2>1 DEF CommitSave
  <2> QED  BY <1>2, <1>3, <2>2, <2>3, Typed DEF Inv, TypeOK
<1> QED  BY <1>8, <1>9, OneThread DEF Inv, TypeOK, HandlerShape, CommitSave

LEMMA CommitSafe ==
  ASSUME Inv, NEW w \in Workers, Commit(w)
  PROVE  Inv'
<1>1. CASE CommitCommited(w)
  BY <1>1, RejectSafe DEF CommitCommited
<1>2. CASE CommitStart(w)
  BY <1>2, CommitStartSafe
<1>3. CASE LoadIndex(w)
  BY <1>3, LoadIndexSafe
<1>4. CASE HashBlock(w)
  BY <1>4, HashBlockSafe
<1>5. CASE CommitInsert(w)
  BY <1>5, CommitInsertSafe
<1>6. CASE CommitSame(w)
  <2>1. ThreadsKept(w)
    BY <1>6, NextCommitKept DEF CommitSame, At
  <2> QED  BY <1>6, <2>1, OneThread DEF Inv, TypeOK, HandlerShape, CommitSame, disk
<1>7. CASE CommitFound(w)
  BY <1>7, CommitFoundSafe
<1>13. CASE CommitUnlinkFails(w)
  <2>1. ThreadsKept(w)
    BY <1>13, NextCommitKept DEF CommitUnlinkFails, At
  <2> QED  BY <1>13, <2>1, OneThread DEF Inv, TypeOK, HandlerShape, CommitUnlinkFails, disk
<1>8. CASE CommitRelink(w)
  BY <1>8, CommitRelinkSafe
<1>9. CASE CommitStat(w)
  <2>1. ThreadsKept(w)
    BY <1>9, HashPcKept DEF CommitStat, At, HashPCs
  <2> QED  BY <1>9, <2>1, OneThread DEF Inv, TypeOK, HandlerShape, CommitStat, disk
<1>10. CASE CommitFree(w)
  <2>1. ThreadsKept(w)
    BY <1>10, HashPcKept DEF CommitFree, At, HashPCs
  <2> QED  BY <1>10, <2>1, OneThread DEF Inv, TypeOK, HandlerShape, CommitFree
<1>11. CASE CommitSave(w)
  BY <1>11, CommitSaveSafe
<1>12. CASE CommitEnd(w)
  <2>1. ThreadsKept(w)
    BY <1>12, IdleKept DEF CommitEnd, Finish
  <2> QED  BY <1>12, <2>1, OneThread, Typed
           DEF Inv, TypeOK, HandlerShape, CommitEnd, Finish, disk, Codes
<1> QED  BY <1>1, <1>2, <1>3, <1>4, <1>5, <1>6, <1>7, <1>8, <1>9, <1>10, <1>11, <1>12,
            <1>13 DEF Commit

-----------------------------------------------------------------------------
(* WRITE_BLOCK and WRITE_BLOCK_NOT_ERROR *)

LEMMA WriteLocateSafe ==
  ASSUME Inv, NEW w \in Workers, WriteLocate(w)
  PROVE  Inv'
<1>1. CASE Ft(w) \notin dirs
  BY <1>1, RejectSafe DEF WriteLocate, MissingCode, Codes
<1>2. CASE Ft(w) \in dirs
  <2>1. WellShaped([th[w] EXCEPT !.pc = "load"])
    BY Typed DEF WriteLocate, At, WellShaped, HashPCs, Thread
  <2>2. ThreadsKept(w)
    BY <1>2, <2>1, GotoKept DEF WriteLocate, PCs
  <2> QED  BY <1>2, <2>2, OneThread DEF Inv, TypeOK, HandlerShape, WriteLocate, disk
<1> QED  BY <1>1, <1>2

LEMMA WriteLoadSafe ==
  ASSUME Inv, NEW w \in Workers, WriteLoad(w)
  PROVE  Inv'
<1>1. PICK b \in Seq(Blocks) : b = meta[Ft(w)].blocks /\ Len(b) <= MaxLogical
  BY LoadedMeta
<1>2. PICK n \in Nat : n = meta[Ft(w)].size
  BY LoadedMeta
<1> DEFINE t == [th[w] EXCEPT !.pc = "enter", !.blocks = b, !.size = n]
<1>3. t \in Thread
  BY Typed DEF Thread, PCs
<1>4. WellShaped(t)
  BY <1>1, Typed DEF WriteLoad, At, WellShaped, HashPCs, Thread
<1>5. th' = [th EXCEPT ![w] = t]
  BY <1>1, <1>2 DEF WriteLoad, Inv, TypeOK
<1>6. ThreadsKept(w)
  BY <1>3, <1>4, <1>5, UpdateKept
<1> QED  BY <1>6, OneThread DEF Inv, TypeOK, HandlerShape, WriteLoad, disk

LEMMA WriteEnterSafe ==
  ASSUME Inv, NEW w \in Workers, WriteEnter(w)
  PROVE  Inv'
<1>1. CASE Reject(w, "NONE")
  BY <1>1, RejectSafe
<1>2. CASE /\ Take(w) /\ UNCHANGED <<disk, hashLock, config, ans, up>>
           /\ \E l \in {"inplace", "cow"} : Goto(w, l)
  <2>1. PICK l \in {"inplace", "cow"} : Goto(w, l)
    BY <1>2
  <2>2. WellShaped([th[w] EXCEPT !.pc = l])
    BY Typed DEF WriteEnter, At, WellShaped, HashPCs, Thread
  <2>3. ThreadsKept(w)
    BY <2>1, <2>2, GotoKept DEF PCs
  <2> QED  BY <1>2, <2>3, OneThread, Typed DEF Inv, TypeOK, HandlerShape, Take, disk
<1> QED  BY <1>1, <1>2 DEF WriteEnter

(* The block on which a WRITE works. *)
LEMMA WrittenTyped ==
  ASSUME Inv, NEW w \in Workers
  PROVE  Written(w) \in Blocks
<1>1. th[w].blocks \in Seq(Blocks) /\ 0 \in Blocks
  BY Typed, VolumeAssumption DEF Thread, Blocks
<1> QED  BY <1>1 DEF Written, BlockAt

LEMMA WriteInPlaceSafe ==
  ASSUME Inv, NEW w \in Workers, WriteInPlace(w)
  PROVE  Inv'
<1>1. WellShaped([th[w] EXCEPT !.pc = "open"])
  BY Typed DEF WriteInPlace, At, WellShaped, HashPCs, Thread
<1>2. ThreadsKept(w)
  BY <1>1, GotoKept DEF WriteInPlace, PCs
<1>3. content' \in [Blocks -> Data \cup {NoData}]
  BY Typed, WrittenTyped DEF WriteInPlace, Inv, TypeOK, Thread, Request
<1> QED  BY <1>2, <1>3, OneThread DEF Inv, TypeOK, HandlerShape, WriteInPlace

LEMMA WriteCloneSafe ==
  ASSUME Inv, NEW w \in Workers, WriteClone(w)
  PROVE  Inv'
<1>1. PICK b \in Blocks :
        CloneInto(b, Written(w)) /\ th' = [th EXCEPT ![w].pc = "redirect", ![w].new = b]
  BY DEF WriteClone
<1> DEFINE t == [th[w] EXCEPT !.pc = "redirect", !.new = b]
<1>2. t \in Thread
  BY Typed DEF Thread, PCs
<1>3. WellShaped(t)
  BY Typed DEF WriteClone, At, WellShaped, HashPCs, Thread
<1>4. th' = [th EXCEPT ![w] = t]
  BY <1>1 DEF Inv, TypeOK
<1>5. ThreadsKept(w)
  BY <1>2, <1>3, <1>4, UpdateKept
<1> QED  BY <1>1, <1>5, OneThread, ClonedTyped, WrittenTyped
         DEF Inv, TypeOK, HandlerShape, WriteClone

LEMMA WriteRedirectSafe ==
  ASSUME Inv, NEW w \in Workers, WriteRedirect(w)
  PROVE  Inv'
<1>1. th[w].new \in Blocks /\ Len(th[w].blocks) <= MaxLogical /\ th[w].pc = "redirect"
  BY Typed DEF WriteRedirect, At, WellShaped
<1>2. PICK b \in Seq(Blocks) :
        b = ReplaceAt(th[w].blocks, th[w].req.n, th[w].new) /\ Len(b) = Len(th[w].blocks)
  <2> DEFINE s == th[w].blocks
             n == th[w].req.n
  <2>1. s \in Seq(Blocks)
    BY Typed DEF Thread
  <2>2. CASE n \in 1 .. Len(s)
    <3>1. /\ [s EXCEPT ![n] = th[w].new] \in Seq(Blocks)
          /\ Len([s EXCEPT ![n] = th[w].new]) = Len(s)
      BY <1>1, <2>1, <2>2, ExceptSeq
    <3> QED  BY <2>1, <2>2, <3>1 DEF ReplaceAt
  <2>3. CASE n \notin 1 .. Len(s)
    BY <2>1, <2>3 DEF ReplaceAt
  <2> QED  BY <2>2, <2>3
<1> DEFINE t == [th[w] EXCEPT !.pc = "open", !.new = NoBlock, !.blocks = b]
<1>3. t \in Thread
  BY Typed DEF Thread, PCs
<1>4. WellShaped(t)
  BY <1>1, <1>2, Typed DEF WellShaped, HashPCs, Thread
<1>5. th' = [th EXCEPT ![w] = t]
  BY <1>2 DEF WriteRedirect, Inv, TypeOK
<1>6. ThreadsKept(w)
  BY <1>3, <1>4, <1>5, UpdateKept
<1>7. content' \in [Blocks -> Data \cup {NoData}]
  BY <1>1, Typed DEF WriteRedirect, Inv, TypeOK, Thread, Request
<1>8. links' \in [FT -> [1 .. MaxLogical -> Blocks \cup {NoBlock}]]
  <2>1. PICK ls \in Unlinked(links, Ft(w), th[w].req.n) :
          links' = WithLink(ls, Ft(w), th[w].req.n, th[w].new)
    BY DEF WriteRedirect
  <2>2. ls \in [FT -> [1 .. MaxLogical -> Blocks \cup {NoBlock}]]
    BY <2>1, UnlinkedTyped, Typed
  <2> QED  BY <1>1, <2>1, <2>2 DEF WithLink
<1> QED  BY <1>6, <1>7, <1>8, OneThread DEF Inv, TypeOK, HandlerShape, WriteRedirect

LEMMA WriteSafe ==
  ASSUME Inv, NEW w \in Workers, Write(w)
  PROVE  Inv'
<1>1. CASE WriteCrash(w)
  BY <1>1, CrashSafe DEF WriteCrash
<1>2. CASE WriteCommited(w)
  BY <1>2, RejectSafe DEF WriteCommited, Codes
<1>3. CASE WriteOverflow(w)
  BY <1>3, RejectSafe DEF WriteOverflow, Codes
<1>4. CASE WriteCloneFails(w)
  <2>1. ThreadsKept(w)
    BY <1>4, IdleKept DEF WriteCloneFails, Finish
  <2> QED  BY <1>4, <2>1, OneThread, Typed
           DEF Inv, TypeOK, HandlerShape, WriteCloneFails, Finish, disk
<1> QED  BY <1>1, <1>2, <1>3, <1>4, WriteLocateSafe, WriteLoadSafe, WriteEnterSafe,
            WriteInPlaceSafe, WriteCloneSafe, WriteRedirectSafe DEF Write

-----------------------------------------------------------------------------
LEMMA InitSafe == Init => Inv
<1> SUFFICES ASSUME Init PROVE Inv
  OBVIOUS
<1>1. 0 \in Blocks /\ NoHash \in [Data -> Blocks \cup {NoBlock}]
  BY VolumeAssumption DEF Blocks, NoHash
<1>2. /\ NoMeta \in Meta /\ Len(NoMeta.blocks) <= MaxLogical
  BY <1>1, VolumeAssumption DEF NoMeta, Meta
<1>3. meta \in [FT -> Meta] /\ \A ft \in FT : Len(meta[ft].blocks) <= MaxLogical
  BY <1>2, BaseMetaTyped DEF Init
<1>4. Base[1] \in Files
  BY VolumeAssumption DEF FT
<1>5. content \in [Blocks -> Data \cup {NoData}]
  BY VolumeAssumption DEF Init
<1>6. links \in [FT -> [1 .. MaxLogical -> Blocks \cup {NoBlock}]]
  BY <1>1 DEF Init
<1>7. /\ th \in [Workers -> Thread] /\ \A w \in Workers : WellShaped(th[w])
      /\ ans \in [Workers -> Codes \cup {"PENDING", "NONE"}] /\ up \in BOOLEAN
  BY IdleIsWellShaped DEF Init, Codes
<1>8. /\ files \subseteq Files /\ dirs \subseteq FT /\ used \subseteq Blocks
      /\ hashIndex \in [Data -> Blocks \cup {NoBlock}]
      /\ tagLock \in [FT -> Workers \cup {NoWorker}]
      /\ hashLock \in Workers \cup {NoWorker} /\ config \in FT
  BY <1>1, <1>4, VolumeAssumption DEF Init
<1> QED  BY <1>3, <1>5, <1>6, <1>7, <1>8 DEF Inv, TypeOK, HandlerShape

LEMMA HandleSafe ==
  ASSUME Inv, NEW w \in Workers, Handle(w)
  PROVE  Inv'
<1>1. CASE CrashOnMetadata(w)
  BY <1>1, CrashSafe DEF CrashOnMetadata
<1> QED  BY <1>1, MissingSafe, CreateSafe, TruncateSafe, TagSafe, CommitSafe, WriteSafe,
            ReadSafe, DeleteSafe, DropSafe, MakeDirectorySafe, OpenMetadataSafe,
            SaveMetadataSafe DEF Handle, Metadata

LEMMA StepSafe == Inv /\ [Next]_vars => Inv'
<1> SUFFICES ASSUME Inv, [Next]_vars PROVE Inv'
  OBVIOUS
<1>1. CASE Next
  BY <1>1, ReceiveSafe, ReconnectSafe, RestartSafe, HandleSafe DEF Next
<1>2. CASE UNCHANGED vars
  BY <1>2 DEF vars, Inv, TypeOK, HandlerShape, WellShaped
<1> QED  BY <1>1, <1>2

(* The inductive invariant holds in every behaviour: the next two theorems    *)
(* are its parts.                                                             *)
THEOREM InvHolds == Spec => []Inv
  BY InitSafe, StepSafe, PTL DEF Spec

(* Every variable of the Storage has its type, for any number of Workers,     *)
(* blocks and requests: TypeOK, of all the handlers together.                 *)
THEOREM TypeCorrect == Spec => []TypeOK
<1>1. Inv => TypeOK  BY DEF Inv
<1> QED  BY <1>1, InvHolds, PTL

(* The handlers' loops stay inside the lists of blocks that they read from    *)
(* the metadata files, and the files themselves never hold too long a list,   *)
(* whatever the other threads do to them meanwhile.                           *)
THEOREM HandlersInBounds == Spec => []HandlerShape
<1>1. Inv => HandlerShape  BY DEF Inv
<1> QED  BY <1>1, InvHolds, PTL

-----------------------------------------------------------------------------
(* Who holds file_tag_locks and hash_index_lock *)

(* What a step of w does to its own place in its handler. *)
OnlyMoves(w) == th' = [th EXCEPT ![w] = th'[w]]
Moves(w, S) == OnlyMoves(w) /\ th'[w].req = th[w].req /\ th'[w].pc \in S

(* The tag locks, and of hash_index_lock that the section is entered with it; *)
(* that it is also left without it takes unlinks that do not fail.            *)
LockInv == LockDiscipline /\ (UnlinkFails \/ HashLockInSection)

Between == PCs \ LockedPCs
Unhashed == LockedPCs \ HashPCs

LEMMA PcSets ==
  /\ HashPCs \subseteq LockedPCs /\ LockedPCs \subseteq PCs
  /\ Between = {"idle", "start", "locate", "load", "enter"}
  /\ Unhashed = {"mkdir", "grow", "unlink", "stat", "free", "unhash", "rmdir", "clone",
                 "link", "index", "hash", "lookup", "inplace", "cow", "redirect",
                 "open", "close"}
  BY DEF HashPCs, LockedPCs, PCs, Between, Unhashed

(* The handler goes on with the locks it has. *)
LEMMA GoesOn ==
  ASSUME Inv, LockInv, NEW w \in Workers,
         \/ th[w].pc \in Unhashed /\ Moves(w, Unhashed)
         \/ th[w].pc \in HashPCs /\ Moves(w, HashPCs),
         UNCHANGED <<tagLock, hashLock>>
  PROVE  LockInv'
<1>1. th[w].pc \in LockedPCs /\ th'[w].pc \in LockedPCs
  BY PcSets DEF Moves, Unhashed
<1>2. th[w].pc \in HashPCs <=> th'[w].pc \in HashPCs
  BY DEF Moves, Unhashed
<1>3. \A v \in Workers : v # w => th'[v] = th[v]
  BY DEF Moves, OnlyMoves, Inv, TypeOK
<1>4. th'[w].req = th[w].req
  BY DEF Moves
<1> QED  BY <1>1, <1>2, <1>3, <1>4 DEF LockInv, LockDiscipline, HashLockInSection, Ft

(* It holds none, before and after. *)
LEMMA HoldsNothing ==
  ASSUME Inv, LockInv, NEW w \in Workers,
         th[w].pc \in Between, OnlyMoves(w), th'[w].pc \in Between,
         UNCHANGED <<tagLock, hashLock>>
  PROVE  LockInv'
<1>1. \A v \in Workers : v # w => th'[v] = th[v]
  BY DEF OnlyMoves, Inv, TypeOK
<1>2. /\ th[w].pc \notin LockedPCs /\ th'[w].pc \notin LockedPCs
      /\ th[w].pc \notin HashPCs /\ th'[w].pc \notin HashPCs
  BY PcSets DEF Between
<1> QED  BY <1>1, <1>2 DEF LockInv, LockDiscipline, HashLockInSection, Ft

LEMMA TakesLock ==
  ASSUME Inv, LockInv, NEW w \in Workers,
         th[w].pc \in Between, Locks(w), Take(w), Moves(w, Unhashed), hashLock' = hashLock
  PROVE  LockInv'
<1>1. \A v \in Workers : v # w => th'[v] = th[v]
  BY DEF Moves, OnlyMoves, Inv, TypeOK
<1>2. /\ th[w].pc \notin LockedPCs /\ th'[w].pc \in LockedPCs
      /\ th[w].pc \notin HashPCs /\ th'[w].pc \notin HashPCs
      /\ th'[w].req = th[w].req
  BY PcSets DEF Between, Unhashed, Moves
<1>3. Ft(w) \in FT /\ tagLock \in [FT -> Workers \cup {NoWorker}]
  BY Typed DEF Inv, TypeOK
<1>4. tagLock[Ft(w)] = NoWorker /\ tagLock' = [tagLock EXCEPT ![Ft(w)] = w]
  BY DEF Locks, Take
<1>5. ASSUME NEW v \in Workers, NEW ft \in FT
      PROVE  tagLock'[ft] = v <=> th'[v].pc \in LockedPCs /\ th'[v].req.ft = ft
  <2>1. CASE v = w
    BY <1>2, <1>3, <1>4, <2>1 DEF LockInv, LockDiscipline, Ft
  <2>2. CASE v # w
    BY <1>1, <1>3, <1>4, <2>2, WorkersAssumption DEF LockInv, LockDiscipline, Ft
  <2> QED  BY <2>1, <2>2
<1>6. \A v \in Workers :
        /\ th'[v].pc \in HashPCs => hashLock' = v
        /\ UnlinkFails \/ (hashLock' = v => th'[v].pc \in HashPCs)
  BY <1>1, <1>2 DEF LockInv, LockDiscipline, HashLockInSection
<1> QED  BY <1>5, <1>6 DEF LockInv, LockDiscipline, HashLockInSection, Ft

LEMMA GivesLock ==
  ASSUME Inv, LockInv, NEW w \in Workers, NEW code,
         th[w].pc \in Unhashed, Finish(w, code), hashLock' = hashLock
  PROVE  LockInv'
<1>1. th'[w].pc = "idle" /\ \A v \in Workers : v # w => th'[v] = th[v]
  BY DEF Finish, IdleThread, Inv, TypeOK
<1>2. /\ th[w].pc \in LockedPCs /\ th'[w].pc \notin LockedPCs
      /\ th[w].pc \notin HashPCs /\ th'[w].pc \notin HashPCs
  BY <1>1, PcSets DEF Unhashed, Between, LockedPCs
<1>3. Ft(w) \in FT /\ tagLock \in [FT -> Workers \cup {NoWorker}]
  BY Typed DEF Inv, TypeOK
<1>4. tagLock[Ft(w)] = w /\ tagLock' = [tagLock EXCEPT ![Ft(w)] = NoWorker]
  BY <1>2, <1>3 DEF LockInv, LockDiscipline, Finish
<1>5. ASSUME NEW v \in Workers, NEW ft \in FT
      PROVE  tagLock'[ft] = v <=> th'[v].pc \in LockedPCs /\ th'[v].req.ft = ft
  <2>1. CASE v = w
    BY <1>2, <1>3, <1>4, <2>1, WorkersAssumption DEF LockInv, LockDiscipline, Ft
  <2>2. CASE v # w
    BY <1>1, <1>3, <1>4, <2>2, WorkersAssumption DEF LockInv, LockDiscipline, Ft
  <2> QED  BY <2>1, <2>2
<1>6. \A v \in Workers :
        /\ th'[v].pc \in HashPCs => hashLock' = v
        /\ UnlinkFails \/ (hashLock' = v => th'[v].pc \in HashPCs)
  BY <1>1, <1>2 DEF LockInv, LockDiscipline, HashLockInSection
<1> QED  BY <1>5, <1>6 DEF LockInv, LockDiscipline, HashLockInSection, Ft

LEMMA TakesHashLock ==
  ASSUME Inv, LockInv, NEW w \in Workers,
         th[w].pc \in Unhashed, Moves(w, HashPCs),
         hashLock = NoWorker, hashLock' = w, tagLock' = tagLock
  PROVE  LockInv'
<1>1. \A v \in Workers : v # w => th'[v] = th[v]
  BY DEF Moves, OnlyMoves, Inv, TypeOK
<1>2. /\ th[w].pc \in LockedPCs /\ th'[w].pc \in LockedPCs
      /\ th'[w].pc \in HashPCs /\ th'[w].req = th[w].req
  BY PcSets DEF Unhashed, Moves
<1> QED  BY <1>1, <1>2, WorkersAssumption
         DEF LockInv, LockDiscipline, HashLockInSection, Ft

LEMMA GivesHashLock ==
  ASSUME Inv, LockInv, NEW w \in Workers,
         th[w].pc \in HashPCs, Moves(w, Unhashed), hashLock' = NoWorker, tagLock' = tagLock
  PROVE  LockInv'
<1>1. \A v \in Workers : v # w => th'[v] = th[v]
  BY DEF Moves, OnlyMoves, Inv, TypeOK
<1>2. /\ th[w].pc \in LockedPCs /\ th'[w].pc \in LockedPCs
      /\ th'[w].pc \notin HashPCs /\ th'[w].req = th[w].req
  BY PcSets DEF Unhashed, Moves
<1>3. hashLock = w
  BY DEF LockInv, LockDiscipline
<1> QED  BY <1>1, <1>2, <1>3, WorkersAssumption
         DEF LockInv, LockDiscipline, HashLockInSection, Ft

(* The section is left with the lock, as after an unlink that fails. *)
LEMMA KeepsHashLock ==
  ASSUME Inv, LockInv, UnlinkFails, NEW w \in Workers,
         th[w].pc \in HashPCs, Moves(w, Unhashed), UNCHANGED <<tagLock, hashLock>>
  PROVE  LockInv'
<1>1. \A v \in Workers : v # w => th'[v] = th[v]
  BY DEF Moves, OnlyMoves, Inv, TypeOK
<1>2. /\ th[w].pc \in LockedPCs /\ th'[w].pc \in LockedPCs
      /\ th'[w].pc \notin HashPCs /\ th'[w].req = th[w].req
  BY PcSets DEF Unhashed, Moves
<1> QED  BY <1>1, <1>2 DEF LockInv, LockDiscipline, Ft

-----------------------------------------------------------------------------
LEMMA RejectLocks ==
  ASSUME Inv, LockInv, NEW w \in Workers, NEW code,
         th[w].pc \in Between, Reject(w, code)
  PROVE  LockInv'
<1>1. OnlyMoves(w) /\ th'[w].pc = "idle"
  BY DEF Reject, OnlyMoves, IdleThread, Inv, TypeOK
<1> QED  BY <1>1, HoldsNothing, PcSets DEF Reject

LEMMA CrashLocks ==
  ASSUME LockInv, Crash
  PROVE  LockInv'
  BY DEF Crash, LockInv, LockDiscipline, HashLockInSection, Ft

LEMMA GotoMoves ==
  ASSUME Inv, NEW w \in Workers, NEW l, Goto(w, l)
  PROVE  Moves(w, {l})
  BY DEF Goto, Moves, OnlyMoves, Inv, TypeOK, Thread

LEMMA NextDropMoves ==
  ASSUME Inv, NEW w \in Workers, NextDrop(w)
  PROVE  Moves(w, {"unlink", "rmdir", "open"})
<1>1. CASE Op(w) = "DELETE"
  BY <1>1 DEF NextDrop, Moves, OnlyMoves, Inv, TypeOK, Thread
<1>2. CASE Op(w) # "DELETE"
  BY <1>2 DEF NextDrop, Moves, OnlyMoves, Inv, TypeOK, Thread
<1> QED  BY <1>1, <1>2

LEMMA NextCommitMoves ==
  ASSUME Inv, NEW w \in Workers, NextCommit(w)
  PROVE  Moves(w, {"hash"})
  BY DEF NextCommit, Moves, OnlyMoves, Inv, TypeOK, Thread

LEMMA ReceiveLocks ==
  ASSUME Inv, LockInv, NEW w \in Workers, Receive(w)
  PROVE  LockInv'
<1>1. PICK r \in Requests[w], l \in {"locate", "start"} :
        th' = [th EXCEPT ![w] = [th[w] EXCEPT !.pc = l, !.req = r]]
  BY DEF Receive, Inv, TypeOK
<1>2. OnlyMoves(w) /\ th'[w].pc \in {"locate", "start"}
  BY <1>1, Typed DEF OnlyMoves, Inv, TypeOK, Thread
<1> QED  BY <1>2, HoldsNothing, PcSets DEF Receive

LEMMA StartMoves ==
  ASSUME Inv, NEW w \in Workers,
         CreateStart(w) \/ TruncateStart(w) \/ TagStart(w) \/ CommitStart(w)
           \/ DeleteStart(w)
  PROVE  Moves(w, Unhashed)
<1>1. CASE CreateStart(w)
  BY <1>1, PcSets DEF CreateStart, Moves, OnlyMoves, Inv, TypeOK, Thread
<1>2. CASE TruncateStart(w)
  <2>. DEFINE to == IF Missed(w) > 0 THEN "grow"
                    ELSE IF Missed(w) < 0 THEN "unlink" ELSE "open"
              b  == meta[Ft(w)].blocks
              k  == IF Missed(w) > 0 THEN Len(b) + 1 ELSE Len(b)
              r  == [th[w] EXCEPT !.pc = to, !.size = th[w].req.n, !.blocks = b, !.i = k]
  <2>1. th' = [th EXCEPT ![w].pc = to, ![w].size = th[w].req.n, ![w].blocks = b, ![w].i = k]
    BY <1>2 DEF TruncateStart
  <2>2. th[w] \in Thread /\ th \in [Workers -> Thread]
    BY DEF Inv, TypeOK
  <2>3. to \in {"grow", "unlink", "open"}
    OBVIOUS
  <2>. HIDE DEF to, b, k
  <2>4. th'[w] = r
    BY <2>1, <2>2
  <2>5. r.req = th[w].req /\ r.pc = to
    BY <2>2 DEF Thread
  <2>6. OnlyMoves(w)
    BY <2>1, <2>2, <2>4 DEF OnlyMoves
  <2> QED  BY <2>3, <2>4, <2>5, <2>6, PcSets DEF Moves
<1>3. CASE TagStart(w)
  <2>. DEFINE n == meta[Ft(w)].size
              b == meta[Ft(w)].blocks
              r == [th[w] EXCEPT !.pc = "mkdir", !.size = n, !.orig = b, !.i = 1]
  <2>1. th' = [th EXCEPT ![w].pc = "mkdir", ![w].size = n, ![w].orig = b, ![w].i = 1]
    BY <1>3 DEF TagStart
  <2>2. th[w] \in Thread /\ th \in [Workers -> Thread]
    BY DEF Inv, TypeOK
  <2>. HIDE DEF n, b
  <2>3. th'[w] = r
    BY <2>1, <2>2
  <2>4. r.req = th[w].req /\ r.pc = "mkdir"
    BY <2>2 DEF Thread
  <2>5. OnlyMoves(w)
    BY <2>1, <2>2, <2>3 DEF OnlyMoves
  <2> QED  BY <2>3, <2>4, <2>5, PcSets DEF Moves
<1>4. CASE CommitStart(w)
  <2>. DEFINE n == meta[Ft(w)].size
              b == meta[Ft(w)].blocks
              r == [th[w] EXCEPT !.pc = "index", !.blocks = b, !.size = n, !.i = 1]
  <2>1. th' = [th EXCEPT ![w].pc = "index", ![w].blocks = b, ![w].size = n, ![w].i = 1]
    BY <1>4 DEF CommitStart
  <2>2. th[w] \in Thread /\ th \in [Workers -> Thread]
    BY DEF Inv, TypeOK
  <2>. HIDE DEF n, b
  <2>3. th'[w] = r
    BY <2>1, <2>2
  <2>4. r.req = th[w].req /\ r.pc = "index"
    BY <2>2 DEF Thread
  <2>5. OnlyMoves(w)
    BY <2>1, <2>2, <2>3 DEF OnlyMoves
  <2> QED  BY <2>3, <2>4, <2>5, PcSets DEF Moves
<1>5. CASE DeleteStart(w)
  <2>1. PICK l \in {"rmdir", "unlink"} :
          l = IF meta[Ft(w)].blocks = <<>> THEN "rmdir" ELSE "unlink"
    OBVIOUS
  <2>2. th' = [th EXCEPT ![w] = [th[w] EXCEPT !.pc = l,
                                   !.blocks = meta[Ft(w)].blocks, !.i = 1]]
    BY <1>5, <2>1 DEF DeleteStart, Inv, TypeOK
  <2> QED  BY <2>2, PcSets DEF Moves, OnlyMoves, Inv, TypeOK, Thread
<1> QED  BY <1>1, <1>2, <1>3, <1>4, <1>5

LEMMA StartLocks ==
  ASSUME Inv, LockInv, NEW w \in Workers,
         CreateStart(w) \/ TruncateStart(w) \/ TagStart(w) \/ CommitStart(w)
           \/ DeleteStart(w)
  PROVE  LockInv'
<1>1. th[w].pc \in Between /\ Locks(w) /\ Take(w) /\ hashLock' = hashLock
  BY PcSets DEF CreateStart, TruncateStart, TagStart, CommitStart, DeleteStart,
                Loaded, Begins
<1>2. Moves(w, Unhashed)
  BY StartMoves
<1> QED  BY <1>1, <1>2, TakesLock

LEMMA CreateTruncateLocks ==
  ASSUME Inv, LockInv, NEW w \in Workers, Create(w) \/ Truncate(w)
  PROVE  LockInv'
<1>1. CASE Grow(w)
  <2>1. th[w].pc \in Unhashed /\ UNCHANGED <<tagLock, hashLock>>
    BY <1>1, PcSets DEF Grow, At
  <2>2. Moves(w, Unhashed)
    BY <1>1, PcSets DEF Grow, Moves, OnlyMoves, Inv, TypeOK, Thread
  <2> QED  BY <2>1, <2>2, GoesOn
<1>2. CASE CreateExists(w) \/ TruncateCommited(w) \/ TruncateNoSpace(w)
  BY <1>2, RejectLocks, PcSets
  DEF CreateExists, TruncateCommited, TruncateNoSpace, Loaded, Begins
<1> QED  BY <1>1, <1>2, StartLocks DEF Create, Truncate

LEMMA TagLocks ==
  ASSUME Inv, LockInv, NEW w \in Workers, Tag(w)
  PROVE  LockInv'
<1>1. CASE TagExists(w) \/ TagNoSpace(w)
  <2>1. th[w].pc \in Between /\ UNCHANGED <<tagLock, hashLock>>
    BY <1>1, PcSets DEF TagExists, TagNoSpace, TagRejected, Loaded, Begins
  <2>2. OnlyMoves(w) /\ th'[w].pc \in Between
    BY <1>1, PcSets DEF TagExists, TagNoSpace, TagRejected, OnlyMoves, IdleThread, Inv, TypeOK
  <2> QED  BY <2>1, <2>2, HoldsNothing
<1>2. CASE TagClone(w) \/ TagLink(w) \/ TagCloned(w)
  <2>1. th[w].pc \in Unhashed /\ UNCHANGED <<tagLock, hashLock>>
    BY <1>2, PcSets DEF TagClone, TagLink, TagCloned, At
  <2>2. Moves(w, Unhashed)
    <3>1. CASE TagClone(w)
      BY <3>1, PcSets DEF TagClone, Moves, OnlyMoves, Inv, TypeOK, Thread
    <3>2. CASE TagLink(w)
      BY <3>2, PcSets DEF TagLink, Moves, OnlyMoves, Inv, TypeOK, Thread
    <3>3. CASE TagCloned(w)
      BY <3>3, GotoMoves, PcSets DEF TagCloned, Moves
    <3> QED  BY <1>2, <3>1, <3>2, <3>3
  <2> QED  BY <2>1, <2>2, GoesOn
<1>3. CASE TagCloneFails(w)
  BY <1>3, GivesLock, PcSets DEF TagCloneFails, At
<1> QED  BY <1>1, <1>2, <1>3, StartLocks DEF Tag

LEMMA RoundMoves ==
  ASSUME Inv, NEW w \in Workers,
         LoadIndex(w) \/ HashBlock(w) \/ CommitInsert(w) \/ CommitSame(w)
  PROVE  Moves(w, Unhashed)
<1>1. CASE LoadIndex(w)
  BY <1>1, PcSets DEF LoadIndex, Moves, OnlyMoves, Inv, TypeOK, Thread
<1>2. CASE HashBlock(w)
  <2>1. CASE links[Ft(w)][th[w].i] = NoBlock
    BY <1>2, <2>1, NextCommitMoves, PcSets DEF HashBlock, Moves
  <2>2. CASE links[Ft(w)][th[w].i] # NoBlock
    BY <1>2, <2>2, PcSets DEF HashBlock, Moves, OnlyMoves, Inv, TypeOK, Thread
  <2> QED  BY <2>1, <2>2
<1>3. CASE CommitInsert(w)
  <2>1. PICK h : h = [th[w].bhi EXCEPT ![th[w].hash] = Current(w)]
    OBVIOUS
  <2>2. th' = [th EXCEPT ![w] = [th[w] EXCEPT !.bhi = h, !.pc = "hash",
                                   !.i = th[w].i + 1, !.hash = NoData]]
    BY <1>3, <2>1 DEF CommitInsert, Inv, TypeOK
  <2> QED  BY <2>2, PcSets DEF Moves, OnlyMoves, Inv, TypeOK, Thread
<1>4. CASE CommitSame(w)
  BY <1>4, NextCommitMoves, PcSets DEF CommitSame, Moves
<1> QED  BY <1>1, <1>2, <1>3, <1>4

LEMMA CommitLocks ==
  ASSUME Inv, LockInv, NEW w \in Workers, Commit(w)
  PROVE  LockInv'
<1>1. CASE CommitCommited(w)
  BY <1>1, RejectLocks, PcSets DEF CommitCommited, Loaded, Begins
<1>2. CASE LoadIndex(w) \/ HashBlock(w) \/ CommitInsert(w) \/ CommitSame(w)
  <2>1. th[w].pc \in Unhashed /\ UNCHANGED <<tagLock, hashLock>>
    BY <1>2, PcSets DEF LoadIndex, HashBlock, CommitInsert, CommitSame, At
  <2>2. Moves(w, Unhashed)
    BY <1>2, RoundMoves
  <2> QED  BY <2>1, <2>2, GoesOn
<1>3. CASE CommitFound(w)
  <2>1. th[w].pc \in Unhashed /\ hashLock = NoWorker /\ hashLock' = w /\ tagLock' = tagLock
    BY <1>3, PcSets DEF CommitFound, At
  <2>2. Moves(w, HashPCs)
    BY <1>3, GotoMoves DEF CommitFound, Moves, HashPCs
  <2> QED  BY <2>1, <2>2, TakesHashLock
<1>4. CASE CommitRelink(w) \/ CommitStat(w) \/ CommitFree(w)
  <2>1. th[w].pc \in HashPCs /\ UNCHANGED <<tagLock, hashLock>>
    BY <1>4 DEF CommitRelink, CommitStat, CommitFree, At, HashPCs
  <2>2. Moves(w, HashPCs)
    BY <1>4, GotoMoves DEF CommitRelink, CommitStat, CommitFree, Moves, HashPCs
  <2> QED  BY <2>1, <2>2, GoesOn
<1>5. CASE CommitSave(w)
  <2>1. th[w].pc \in HashPCs /\ hashLock' = NoWorker /\ tagLock' = tagLock
    BY <1>5 DEF CommitSave, At, HashPCs
  <2>2. Moves(w, Unhashed)
    BY <1>5, PcSets DEF CommitSave, Moves, OnlyMoves, Inv, TypeOK, Thread
  <2> QED  BY <2>1, <2>2, GivesHashLock
<1>6. CASE CommitUnlinkFails(w)
  <2>1. th[w].pc \in HashPCs /\ UnlinkFails /\ UNCHANGED <<tagLock, hashLock>>
    BY <1>6 DEF CommitUnlinkFails, At, HashPCs
  <2>2. Moves(w, Unhashed)
    BY <1>6, NextCommitMoves, PcSets DEF CommitUnlinkFails, Moves
  <2> QED  BY <2>1, <2>2, KeepsHashLock
<1>7. CASE CommitEnd(w)
  BY <1>7, GivesLock, PcSets DEF CommitEnd, At
<1> QED  BY <1>1, <1>2, <1>3, <1>4, <1>5, <1>6, <1>7, StartLocks DEF Commit

LEMMA WriteLocks ==
  ASSUME Inv, LockInv, NEW w \in Workers, Write(w)
  PROVE  LockInv'
<1>1. CASE WriteLocate(w)
  <2>1. CASE \E code \in Codes : Reject(w, code)
    BY <1>1, <2>1, RejectLocks, PcSets DEF WriteLocate, At
  <2>2. CASE Goto(w, "load") /\ UNCHANGED <<tagLock, hashLock>>
    BY <1>1, <2>2, GotoMoves, HoldsNothing, PcSets DEF WriteLocate, At, Moves
  <2> QED  BY <1>1, <2>1, <2>2 DEF WriteLocate, MissingCode, Codes
<1>2. CASE WriteCommited(w) \/ WriteOverflow(w)
  BY <1>2, RejectLocks, PcSets DEF WriteCommited, WriteOverflow, At
<1>3. CASE WriteLoad(w)
  <2>1. OnlyMoves(w) /\ th'[w].pc = "enter"
    BY <1>3 DEF WriteLoad, OnlyMoves, Inv, TypeOK, Thread
  <2>2. UNCHANGED <<tagLock, hashLock>> /\ th[w].pc = "load"
    BY <1>3 DEF WriteLoad, At
  <2> QED  BY <2>1, <2>2, HoldsNothing, PcSets
<1>4. CASE WriteEnter(w)
  <2>1. th[w].pc \in Between /\ Locks(w)
    BY <1>4, PcSets DEF WriteEnter, At
  <2>2. CASE Reject(w, "NONE")
    BY <2>1, <2>2, RejectLocks
  <2>3. CASE /\ Take(w) /\ hashLock' = hashLock
             /\ \E l \in {"inplace", "cow"} : Goto(w, l)
    <3>1. Moves(w, Unhashed)
      BY <2>3, GotoMoves, PcSets DEF Moves
    <3> QED  BY <2>1, <2>3, <3>1, TakesLock
  <2> QED  BY <1>4, <2>2, <2>3 DEF WriteEnter
<1>5. CASE WriteInPlace(w) \/ WriteClone(w) \/ WriteRedirect(w)
  <2>1. th[w].pc \in Unhashed /\ UNCHANGED <<tagLock, hashLock>>
    BY <1>5, PcSets DEF WriteInPlace, WriteClone, WriteRedirect, At
  <2>2. Moves(w, Unhashed)
    <3>1. CASE WriteInPlace(w)
      BY <3>1, GotoMoves, PcSets DEF WriteInPlace, Moves
    <3>2. CASE WriteClone(w)
      BY <3>2, PcSets DEF WriteClone, Moves, OnlyMoves, Inv, TypeOK, Thread
    <3>3. CASE WriteRedirect(w)
      BY <3>3, PcSets DEF WriteRedirect, Moves, OnlyMoves, Inv, TypeOK, Thread
    <3> QED  BY <1>5, <3>1, <3>2, <3>3
  <2> QED  BY <2>1, <2>2, GoesOn
<1>6. CASE WriteCloneFails(w)
  BY <1>6, GivesLock, PcSets DEF WriteCloneFails, At
<1>7. CASE WriteCrash(w)
  BY <1>7, CrashLocks DEF WriteCrash
<1> QED  BY <1>1, <1>2, <1>3, <1>4, <1>5, <1>6, <1>7 DEF Write

LEMMA DeleteLocks ==
  ASSUME Inv, LockInv, NEW w \in Workers, Delete(w) \/ Drop(w)
  PROVE  LockInv'
<1>1. CASE Unhash(w) \/ Drop(w)
  <2>1. th[w].pc \in Unhashed /\ UNCHANGED <<tagLock, hashLock>>
    BY <1>1, PcSets DEF Unhash, Drop, Unlink, Stat, Free, At
  <2>2. Moves(w, Unhashed)
    <3>1. CASE NextDrop(w)
      BY <3>1, NextDropMoves, PcSets DEF Moves
    <3>2. CASE \E l \in {"stat", "free", "unhash"} : Goto(w, l)
      BY <3>2, GotoMoves, PcSets DEF Moves
    <3> QED  BY <1>1, <3>1, <3>2 DEF Unhash, Drop, Unlink, Stat, Free
  <2> QED  BY <2>1, <2>2, GoesOn
<1>2. CASE RemoveDirectory(w)
  BY <1>2, GivesLock, PcSets DEF RemoveDirectory, At
<1> QED  BY <1>1, <1>2, StartLocks DEF Delete

LEMMA MetadataLocks ==
  ASSUME Inv, LockInv, NEW w \in Workers, Metadata(w)
  PROVE  LockInv'
<1>1. CASE MakeDirectory(w) \/ OpenMetadata(w)
  <2>1. th[w].pc \in Unhashed /\ UNCHANGED <<tagLock, hashLock>>
    BY <1>1, PcSets DEF MakeDirectory, OpenMetadata, At
  <2>2. Moves(w, Unhashed)
    <3>1. \E l \in {"clone", "open", "close"} : Goto(w, l)
      BY <1>1 DEF MakeDirectory, OpenMetadata
    <3> QED  BY <3>1, GotoMoves, PcSets DEF Moves
  <2> QED  BY <2>1, <2>2, GoesOn
<1>2. CASE SaveMetadata(w)
  BY <1>2, GivesLock, PcSets DEF SaveMetadata, At
<1> QED  BY <1>1, <1>2 DEF Metadata

-----------------------------------------------------------------------------
LEMMA StepKeepsLocks == Inv /\ LockInv /\ [Next]_vars => LockInv'
<1> SUFFICES ASSUME Inv, LockInv, [Next]_vars PROVE LockInv'
  OBVIOUS
<1>1. ASSUME NEW w \in Workers, Handle(w) PROVE LockInv'
  <2>1. CASE Missing(w)
    BY <2>1, RejectLocks, PcSets DEF Missing, Begins
  <2>2. CASE CrashOnMetadata(w)
    BY <2>2, CrashLocks DEF CrashOnMetadata
  <2>3. CASE Read(w)
    BY <2>3, RejectLocks, PcSets DEF Read, ReadOverflow, ReadBlock, Loaded, Begins
  <2> QED  BY <1>1, <2>1, <2>2, <2>3, CreateTruncateLocks, TagLocks, CommitLocks,
              WriteLocks, DeleteLocks, MetadataLocks DEF Handle
<1>2. ASSUME NEW w \in Workers, Reconnect(w) PROVE LockInv'
  BY <1>2 DEF Reconnect, LockInv, LockDiscipline, HashLockInSection, Ft
<1>3. CASE Restart
  BY <1>3, WorkersAssumption, PcSets
  DEF Restart, LockInv, LockDiscipline, HashLockInSection, IdleThread, LockedPCs
<1>4. CASE UNCHANGED vars
  BY <1>4 DEF vars, LockInv, LockDiscipline, HashLockInSection, Ft
<1> QED  BY <1>1, <1>2, <1>3, <1>4, ReceiveLocks DEF Next

LEMMA LocksHold == Spec => []LockInv
<1>1. Init => LockInv
  BY WorkersAssumption, PcSets
  DEF Init, LockInv, LockDiscipline, HashLockInSection, IdleThread, LockedPCs
<1> QED  BY <1>1, StepKeepsLocks, InvHolds, PTL DEF Spec

(* No two handlers work on one File:Tag at the same time, and every path of a *)
(* handler gives back the lock of its File:Tag; nor are two inside the        *)
(* section of hash_index_lock.  All of it for any number of Workers and any   *)
(* requests, and whether or not an unlink fails.                              *)
THEOREM LocksAreDisciplined == Spec => []LockDiscipline
<1>1. LockInv => LockDiscipline  BY DEF LockInv
<1> QED  BY <1>1, LocksHold, PTL

(* If no unlink fails, hash_index_lock is given back at the end of the        *)
(* section: only a handler that is inside it holds the lock.  The hypothesis  *)
(* is needed: COMMIT does not give it back after an unlink that fails.        *)
THEOREM HashLockGivenBack ==
  ASSUME ~UnlinkFails
  PROVE  Spec => []HashLockInSection
<1>1. LockInv => HashLockInSection  BY DEF LockInv
<1> QED  BY <1>1, LocksHold, PTL

=============================================================================
