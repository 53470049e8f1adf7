-------------------------- MODULE StorageStoreProofs --------------------------
(* The Storage implements the store of TagStore, keeps what is committed, and *)
(* keeps each content once, in the settings of StorageBlockProofs.            *)
EXTENDS StorageBlockProofs

-----------------------------------------------------------------------------
(* The store that the Workers see *)

Seen(ft, j) == IF links[ft][j] = NoBlock THEN NoData ELSE content[links[ft][j]]
SeenSame(ft, j) == Seen(ft, j)' = Seen(ft, j)
StateSame(ft) == (Deleting(ft)' <=> Deleting(ft)) /\ meta'[ft].state = meta[ft].state

StoreState == [ft \in FT |-> IF Deleting(ft) THEN "DELETING" ELSE meta[ft].state]
StoreData == [ft \in FT |-> [j \in 1 .. MaxLogical |-> Seen(ft, j)]]
StoreAsked == [w \in Workers |-> Pending(w)]
Nothing == [op |-> "NONE"]

LEMMA StoreNow ==
  /\ StoreState = [ft \in FT |-> IF Deleting(ft) THEN "DELETING" ELSE meta[ft].state]
  /\ StoreData = [ft \in FT |-> Visible(ft)]
  /\ StoreAsked = [w \in Workers |-> Pending(w)]
  /\ StoreState' = [ft \in FT |-> IF Deleting(ft)' THEN "DELETING" ELSE meta'[ft].state]
  /\ StoreData' = [ft \in FT |-> Visible(ft)']
  /\ StoreAsked' = [w \in Workers |-> Pending(w)']
  /\ Store!Nothing = Nothing
  BY DEF StoreState, StoreData, StoreAsked, Visible, Seen, Store!Nothing, Nothing

LEMMA StateStays ==
  ASSUME \A ft \in FT : StateSame(ft)
  PROVE  StoreState' = StoreState
  BY DEF StateSame, StoreState

LEMMA DataStays ==
  ASSUME \A ft \in FT : \A j \in 1 .. MaxLogical : SeenSame(ft, j)
  PROVE  StoreData' = StoreData
  BY DEF SeenSame, StoreData

LEMMA StoreStutters ==
  ASSUME StoreState' = StoreState, StoreData' = StoreData, StoreAsked' = StoreAsked
  PROVE  UNCHANGED Store!vars
  BY StoreNow DEF Store!vars

LEMMA StateTurns ==
  ASSUME NEW f \in FT, NEW to, \A ft \in FT : ft # f => StateSame(ft),
         to = IF Deleting(f)' THEN "DELETING" ELSE meta'[f].state
  PROVE  StoreState' = [StoreState EXCEPT ![f] = to]
  BY DEF StateSame, StoreState

LEMMA DataTurns ==
  ASSUME NEW f \in FT, NEW i \in 1 .. MaxLogical, NEW d,
         \A ft \in FT : \A j \in 1 .. MaxLogical : ft # f \/ j # i => SeenSame(ft, j),
         Seen(f, i)' = d
  PROVE  StoreData' = [StoreData EXCEPT ![f][i] = d]
  BY DEF SeenSame, StoreData

(* A request is waited for while its handler runs. *)
LEMMA Waits ==
  ASSUME Inv, NEW w \in Workers, th[w].pc # "idle"
  PROVE  /\ StoreAsked[w] = th[w].req /\ StoreAsked[w] # Nothing
         /\ Store!Subject(w) = Dest(w)
<1>1. th[w].req.op \in Ops /\ StoreAsked[w] = th[w].req
  BY Typed DEF StoreAsked, Pending, Thread, Request
<1>2. th[w].req # Nothing
  BY <1>1 DEF Nothing, Ops
<1>3. Store!Subject(w) = Dest(w)
  BY <1>1, StoreNow DEF Store!Subject, Dest, Target, Op, Ft
<1> QED  BY <1>1, <1>2, <1>3

LEMMA AskedStays ==
  ASSUME Inv, NEW w \in Workers, OnlyMoves(w), th[w].pc # "idle", th'[w].pc # "idle",
         th'[w].req = th[w].req
  PROVE  StoreAsked' = StoreAsked
<1>1. \A v \in Workers : v # w => th'[v] = th[v]
  BY DEF OnlyMoves, Inv, TypeOK
<1> QED  BY <1>1 DEF StoreAsked, Pending

LEMMA AskedEnds ==
  ASSUME Inv, NEW w \in Workers, OnlyMoves(w), th'[w].pc = "idle"
  PROVE  StoreAsked' = [StoreAsked EXCEPT ![w] = Nothing]
<1>1. \A v \in Workers : v # w => th'[v] = th[v]
  BY DEF OnlyMoves, Inv, TypeOK
<1> QED  BY <1>1 DEF StoreAsked, Pending, Nothing

(* The steps of the store, of a Worker whose request is r, about f. *)
LEMMA StoreAnswers ==
  ASSUME NEW w \in Workers, StoreAsked[w] # Nothing,
         StoreAsked' = [StoreAsked EXCEPT ![w] = Nothing],
         StoreState' = StoreState, StoreData' = StoreData
  PROVE  Store!Next
  BY StoreNow DEF Store!Next, Store!Step, Store!Answer, Store!Ends

LEMMA StoreOpens ==
  ASSUME NEW w \in Workers, NEW f, Store!Subject(w) = f,
         \/ StoreAsked[w].op = "CREATE" /\ StoreData[f] = [i \in 1 .. MaxLogical |-> NoData]
         \/ StoreAsked[w].op = "TAG" /\ StoreData[f] = StoreData[StoreAsked[w].ft],
         StoreState[f] = "NONE", StoreState' = [StoreState EXCEPT ![f] = "WORK_IN_PROGRESS"],
         StoreData' = StoreData, StoreAsked' = [StoreAsked EXCEPT ![w] = Nothing]
  PROVE  Store!Next
<1>1. Store!Create(w) \/ Store!Tag(w)
  BY StoreNow DEF Store!Create, Store!Tag, Store!In, Store!Turn, Store!Ends, Store!Empty
<1> QED  BY <1>1 DEF Store!Next, Store!Step

LEMMA StoreTurns ==
  ASSUME NEW w \in Workers, NEW f, Store!Subject(w) = f, NEW to,
         \/ StoreAsked[w].op = "COMMIT" /\ StoreState[f] = "WORK_IN_PROGRESS" /\ to = "COMMITED"
         \/ /\ StoreAsked[w].op = "DELETE" /\ StoreState[f] \in {"WORK_IN_PROGRESS", "COMMITED"}
            /\ to = "DELETING",
         StoreState' = [StoreState EXCEPT ![f] = to],
         StoreData' = StoreData, StoreAsked' = StoreAsked
  PROVE  Store!Next
<1>1. Store!Seal(w) \/ Store!Doom(w)
  BY StoreNow DEF Store!Seal, Store!Doom, Store!In, Store!Turn
<1> QED  BY <1>1 DEF Store!Next, Store!Step

LEMMA StoreForgets ==
  ASSUME NEW w \in Workers, NEW f, Store!Subject(w) = f,
         StoreAsked[w].op = "DELETE", StoreState[f] = "DELETING",
         StoreState' = [StoreState EXCEPT ![f] = "NONE"],
         StoreData' = [StoreData EXCEPT ![f] = [j \in 1 .. MaxLogical |-> NoData]],
         StoreAsked' = [StoreAsked EXCEPT ![w] = Nothing]
  PROVE  Store!Next
<1>1. Store!Forget(w)
  BY StoreNow DEF Store!Forget, Store!In, Store!Turn, Store!Ends, Store!Empty
<1> QED  BY <1>1 DEF Store!Next, Store!Step

LEMMA StoreEdits ==
  ASSUME NEW w \in Workers, NEW f, Store!Subject(w) = f, NEW r, StoreAsked[w] = r,
         NEW i \in 1 .. MaxLogical, NEW d,
         \/ r.op = "TAG" /\ StoreState[f] = "NONE" /\ d = StoreData[r.ft][i]
         \/ /\ r.op = "TRUNCATE" /\ StoreState[f] = "WORK_IN_PROGRESS" /\ r.n \in Sizes
            /\ \/ i <= BlocksNeeded(r.n) /\ StoreData[f][i] = NoData /\ d = Zero
               \/ i > BlocksNeeded(r.n) /\ d = NoData
         \/ r.op = "WRITE" /\ StoreState[f] = "WORK_IN_PROGRESS" /\ i = r.n /\ d = r.d
         \/ r.op = "DELETE" /\ StoreState[f] = "DELETING" /\ d = NoData,
         StoreData' = [StoreData EXCEPT ![f][i] = d],
         StoreState' = StoreState, StoreAsked' = StoreAsked
  PROVE  Store!Next
<1>1. Store!Copy(w, i) \/ Store!Resize(w, i) \/ Store!Write(w) \/ Store!Lose(w, i)
  BY StoreNow DEF Store!Copy, Store!Resize, Store!Write, Store!Lose, Store!In, Store!Put
<1> QED  BY <1>1 DEF Store!Next, Store!Step

(* A File:Tag is being deleted while the handler of a DELETE works on it. *)
LEMMA DeletingBy ==
  ASSUME LockDiscipline, NEW ft \in FT
  PROVE  Deleting(ft) <=> \E v \in Workers : Works(v) /\ Ft(v) = ft /\ Op(v) = "DELETE"
  BY DEF LockDiscipline, Deleting, Works

LEMMA DeletingByNext ==
  ASSUME LockDiscipline', NEW ft \in FT
  PROVE  Deleting(ft)' <=>
           \E v \in Workers : th'[v].pc \in LockedPCs /\ th'[v].req.ft = ft /\ th'[v].req.op = "DELETE"
  BY DEF LockDiscipline, Deleting, Ft, Op

LEMMA OwnDeleting ==
  ASSUME Orderly, Steady, NEW w \in Workers, Works(w)
  PROVE  Deleting(Dest(w)) <=> Op(w) = "DELETE"
<1>1. Inv /\ BlockInv /\ LockDiscipline /\ Dest(w) \in FT
  BY Typed DEF Steady
<1>2. ASSUME NEW v \in Workers, Works(v), Ft(v) = Dest(w), Op(v) = "DELETE"
      PROVE  v = w
  BY <1>1, <1>2, Distinct DEF Dest
<1>3. Op(w) = "DELETE" => Dest(w) = Ft(w)
  BY DEF Dest
<1> QED  BY <1>1, <1>2, <1>3, DeletingBy

LEMMA DeletingSame ==
  ASSUME Steady, Steady', NEW w \in Workers, OnlyMoves(w),
         \/ Op(w) # "DELETE" /\ th'[w].req.op # "DELETE"
         \/ ~Works(w) /\ th'[w].pc \notin LockedPCs
         \/ Works(w) /\ th'[w].pc \in LockedPCs /\ th'[w].req = th[w].req,
         NEW ft \in FT
  PROVE  Deleting(ft)' <=> Deleting(ft)
<1>1. \A v \in Workers : v # w => th'[v] = th[v]
  BY DEF OnlyMoves, Steady, Inv, TypeOK
<1>2. Deleting(ft)' <=>
        \E v \in Workers : th'[v].pc \in LockedPCs /\ th'[v].req.ft = ft /\ th'[v].req.op = "DELETE"
  BY DeletingByNext DEF Steady
<1>3. Deleting(ft) <=>
        \E v \in Workers : th[v].pc \in LockedPCs /\ th[v].req.ft = ft /\ th[v].req.op = "DELETE"
  BY DeletingBy DEF Steady, Works, Ft, Op
<1> QED  BY <1>1, <1>2, <1>3 DEF Works, Op

(* Steps that change neither what is linked nor what is kept in a block. *)
LEMMA SilentSeen ==
  ASSUME UNCHANGED <<meta, links, content>>
  PROVE  /\ \A ft \in FT : meta'[ft].state = meta[ft].state
         /\ \A ft \in FT : \A j \in 1 .. MaxLogical : SeenSame(ft, j)
  BY DEF SeenSame, Seen

LEMMA SilentStep ==
  ASSUME Steady, Steady', NEW w \in Workers, UNCHANGED <<meta, links, content>>, OnlyMoves(w),
         \/ Op(w) # "DELETE" /\ th'[w].req.op # "DELETE"
         \/ ~Works(w) /\ th'[w].pc \notin LockedPCs
         \/ Works(w) /\ th'[w].pc \in LockedPCs /\ th'[w].req = th[w].req
  PROVE  StoreState' = StoreState /\ StoreData' = StoreData
<1>1. \A ft \in FT : StateSame(ft)
  BY DeletingSame, SilentSeen DEF StateSame
<1> QED  BY <1>1, SilentSeen, StateStays, DataStays

(* The handler goes on, and the Worker still waits. *)
LEMMA SilentMove ==
  ASSUME Steady, Steady', NEW w \in Workers, UNCHANGED <<meta, links, content>>,
         th[w].pc # "idle", NEW S, "idle" \notin S, Moves(w, S),
         Op(w) # "DELETE" \/ (Works(w) /\ S \subseteq LockedPCs)
  PROVE  UNCHANGED Store!vars
<1>1. StoreAsked' = StoreAsked
  BY AskedStays DEF Moves, Steady
<1>2. StoreState' = StoreState /\ StoreData' = StoreData
  BY SilentStep DEF Moves, Op
<1> QED  BY <1>1, <1>2, StoreStutters

(* The handler ends. *)
LEMMA AskedDone ==
  ASSUME Steady, NEW w \in Workers, th' = [th EXCEPT ![w] = IdleThread]
  PROVE  /\ OnlyMoves(w) /\ th'[w].pc = "idle" /\ th'[w].req = NoRequest
         /\ StoreAsked' = [StoreAsked EXCEPT ![w] = Nothing]
<1>1. th'[w] = IdleThread /\ OnlyMoves(w)
  BY DEF Steady, Inv, TypeOK, OnlyMoves
<1> QED  BY <1>1, AskedEnds DEF IdleThread, Steady

LEMMA SilentEnd ==
  ASSUME Steady, Steady', NEW w \in Workers, UNCHANGED <<meta, links, content>>,
         th' = [th EXCEPT ![w] = IdleThread], th[w].pc # "idle", ~Works(w) \/ Op(w) # "DELETE"
  PROVE  Store!Next
<1>0. OnlyMoves(w) /\ th'[w].pc = "idle" /\ th'[w].req = NoRequest
  BY DEF IdleThread, OnlyMoves, Steady, Inv, TypeOK
<1>1. th'[w].pc \notin LockedPCs /\ th'[w].req.op # "DELETE" /\ OnlyMoves(w)
  BY <1>0, PcSets2 DEF NoRequest
<1>2. StoreState' = StoreState /\ StoreData' = StoreData
  BY <1>1, SilentStep
<1>3. StoreAsked[w] # Nothing /\ StoreAsked' = [StoreAsked EXCEPT ![w] = Nothing]
  BY Waits, AskedDone DEF Steady
<1> QED  BY <1>2, <1>3, StoreAnswers

LEMMA SilentReject ==
  ASSUME Steady, Steady', NEW w \in Workers, NEW code, th[w].pc \in Between \ {"idle"},
         Reject(w, code)
  PROVE  Store!Next
  BY BetweenQuiet, SilentEnd DEF Reject, disk

LEMMA SilentAll ==
  ASSUME UNCHANGED <<disk, tagLock, th>>
  PROVE  UNCHANGED Store!vars
<1>1. \A ft \in FT : Deleting(ft)' <=> Deleting(ft)
  BY DEF Deleting, Op
<1>2. UNCHANGED <<meta, links, content>>
  BY DEF disk
<1>3. StoreAsked' = StoreAsked
  BY DEF StoreAsked, Pending
<1> QED  BY <1>1, <1>2, <1>3, SilentSeen, StateStays, DataStays, StoreStutters DEF StateSame

-----------------------------------------------------------------------------
(* The steps that change nothing that a Worker reads *)

LEMMA SilentStarts ==
  ASSUME Orderly, Steady, Steady', NEW w \in Workers,
         CreateStart(w) \/ TruncateStart(w) \/ TagStart(w)
  PROVE  UNCHANGED Store!vars
<1>1. UNCHANGED <<meta, links, content>> /\ Op(w) # "DELETE" /\ th[w].pc # "idle"
  BY DEF CreateStart, TruncateStart, TagStart, Loaded, Begins, disk
<1>2. Moves(w, Unhashed)
  BY StartMoves DEF Steady
<1> QED  BY <1>1, <1>2, SilentMove, PcSets

LEMMA SilentTag ==
  ASSUME Orderly, Steady, Steady', NEW w \in Workers,
         TagExists(w) \/ TagNoSpace(w) \/ TagCloned(w) \/ TagCloneFails(w)
  PROVE  [Store!Next]_Store!vars
<1>1. CASE TagExists(w) \/ TagNoSpace(w)
  <2>1. /\ th[w].pc = "start" /\ UNCHANGED <<meta, links, content>>
        /\ th' = [th EXCEPT ![w] = IdleThread]
    BY <1>1 DEF TagExists, TagNoSpace, TagRejected, Loaded, Begins
  <2>2. ~Works(w)
    BY <2>1, PcSets2 DEF Works
  <2> QED  BY <2>1, <2>2, SilentEnd
<1>2. CASE TagCloned(w) \/ TagCloneFails(w)
  <2>1. th[w].pc = "clone" /\ UNCHANGED <<meta, links, content>>
    BY <1>2 DEF TagCloned, TagCloneFails, At, disk
  <2>2. Op(w) # "DELETE"
    BY <2>1, TagKnown DEF Steady
  <2>3. CASE TagCloned(w)
    BY <2>1, <2>2, <2>3, GotoMoves, SilentMove DEF TagCloned, Steady
  <2>4. CASE TagCloneFails(w)
    BY <2>1, <2>2, <2>4, SilentEnd DEF TagCloneFails, Finish
  <2> QED  BY <1>2, <2>3, <2>4
<1> QED  BY <1>1, <1>2

LEMMA SilentCommit ==
  ASSUME Orderly, Steady, Steady', NEW w \in Workers,
         \/ LoadIndex(w) \/ HashBlock(w) \/ CommitInsert(w) \/ CommitSame(w) \/ CommitFound(w)
         \/ CommitStat(w) \/ CommitFree(w) \/ CommitEnd(w)
  PROVE  [Store!Next]_Store!vars
<1>1. /\ UNCHANGED <<meta, links, content>> /\ th[w].pc \in {"index"} \cup LoopPCs /\ th[w].pc # "idle"
  BY PcSets2 DEF LoadIndex, HashBlock, CommitInsert, CommitSame, CommitFound, CommitStat,
                 CommitFree, CommitEnd, At, disk
<1>2. Op(w) # "DELETE"
  BY <1>1, CommitKnown DEF Steady
<1>3. CASE CommitEnd(w)
  BY <1>1, <1>2, <1>3, SilentEnd DEF CommitEnd, Finish
<1>4. CASE LoadIndex(w) \/ HashBlock(w) \/ CommitInsert(w) \/ CommitSame(w)
  <2>1. Moves(w, Unhashed)
    BY <1>4, RoundMoves DEF Steady
  <2> QED  BY <1>1, <1>2, <2>1, SilentMove, PcSets
<1>5. CASE CommitFound(w) \/ CommitStat(w) \/ CommitFree(w)
  <2>1. PICK l \in PCs \ {"idle"} : Goto(w, l)
    BY <1>5 DEF CommitFound, CommitStat, CommitFree, PCs
  <2>2. Moves(w, {l})
    BY <2>1, GotoMoves DEF Steady
  <2> QED  BY <1>1, <1>2, <2>2, SilentMove
<1> QED  BY <1>3, <1>4, <1>5

LEMMA SilentWrite ==
  ASSUME Orderly, Steady, Steady', NEW w \in Workers,
         \/ WriteLocate(w) \/ WriteCommited(w) \/ WriteOverflow(w) \/ WriteLoad(w)
         \/ WriteEnter(w) \/ WriteCloneFails(w)
  PROVE  [Store!Next]_Store!vars
<1>1. th[w].pc \in {"locate", "load", "enter", "cow"}
  BY DEF WriteLocate, WriteCommited, WriteOverflow, WriteLoad, WriteEnter, WriteCloneFails, At
<1>2. Op(w) # "DELETE"
  BY <1>1, Parts DEF Asked, Steady
<1>3. ASSUME NEW code, Reject(w, code)
      PROVE  [Store!Next]_Store!vars
  <2>1. UNCHANGED <<meta, links, content>>
    BY <1>3 DEF Reject, disk
  <2> QED  BY <1>1, <1>2, <1>3, <2>1, SilentEnd DEF Reject
<1>4. ASSUME NEW l, l # "idle", Goto(w, l), UNCHANGED <<meta, links, content>>
      PROVE  [Store!Next]_Store!vars
  BY <1>1, <1>2, <1>4, GotoMoves, SilentMove DEF Steady
<1>5. CASE WriteLoad(w)
  <2>1. UNCHANGED <<meta, links, content>>
    BY <1>5 DEF WriteLoad, disk
  <2>2. Moves(w, {"enter"})
    BY <1>5 DEF WriteLoad, Moves, OnlyMoves, Steady, Inv, TypeOK, Thread
  <2> QED  BY <1>1, <1>2, <2>1, <2>2, SilentMove
<1>6. CASE WriteCloneFails(w)
  <2>1. UNCHANGED <<meta, links, content>> /\ th' = [th EXCEPT ![w] = IdleThread]
    BY <1>6 DEF WriteCloneFails, Finish, disk
  <2> QED  BY <1>1, <1>2, <2>1, SilentEnd
<1>7. CASE WriteLocate(w)
  BY <1>3, <1>4, <1>7 DEF WriteLocate, disk
<1>8. CASE WriteEnter(w)
  BY <1>3, <1>4, <1>8 DEF WriteEnter, disk
<1>9. CASE WriteCommited(w) \/ WriteOverflow(w)
  BY <1>3, <1>9 DEF WriteCommited, WriteOverflow
<1> QED  BY <1>5, <1>6, <1>7, <1>8, <1>9

LEMMA SilentDrop ==
  ASSUME Orderly, Steady, Steady', NEW w \in Workers, Stat(w) \/ Free(w) \/ Unhash(w)
  PROVE  UNCHANGED Store!vars
<1>1. /\ UNCHANGED <<meta, links, content>> /\ Works(w) /\ th[w].pc # "idle"
      /\ (\E l \in {"free", "unhash"} : Goto(w, l)) \/ NextDrop(w)
  BY PcSets2 DEF Stat, Free, Unhash, At, Works, disk
<1>2. {"free", "unhash", "unlink", "rmdir", "open"} \subseteq LockedPCs
  BY PcSets2
<1>3. Moves(w, {"free", "unhash", "unlink", "rmdir", "open"})
  BY <1>1, GotoMoves, NextDropMoves DEF Moves, Steady
<1> QED  BY <1>1, <1>2, <1>3, SilentMove

LEMMA SilentMetadata ==
  ASSUME Orderly, Steady, Steady', NEW w \in Workers, MakeDirectory(w) \/ OpenMetadata(w)
  PROVE  UNCHANGED Store!vars
<1>1. UNCHANGED <<meta, links, content>> /\ Works(w) /\ th[w].pc # "idle"
  BY PcSets2 DEF MakeDirectory, OpenMetadata, At, Works, disk
<1>2. {"clone", "open", "close"} \subseteq LockedPCs
  BY PcSets2
<1>3. Moves(w, {"clone", "open", "close"})
  BY GotoMoves DEF MakeDirectory, OpenMetadata, Moves, Steady
<1> QED  BY <1>1, <1>2, <1>3, SilentMove

LEMMA ReceiveMapped ==
  ASSUME Steady, Steady', NEW w \in Workers, Receive(w)
  PROVE  Store!Next
<1>1. UNCHANGED <<meta, links, content>> /\ ~Works(w) /\ th[w].pc = "idle"
  BY PcSets2 DEF Receive, disk, Works
<1>2. PICK r \in Requests[w], l \in {"locate", "start"} :
        th' = [th EXCEPT ![w] = [th[w] EXCEPT !.pc = l, !.req = r]]
  <2>1. th \in [Workers -> Thread]
    BY DEF Steady, Inv, TypeOK
  <2> QED  BY <2>1 DEF Receive
<1>3. /\ OnlyMoves(w) /\ th'[w].pc \in {"locate", "start"} /\ th'[w].req = r
      /\ \A v \in Workers : v # w => th'[v] = th[v]
  BY <1>2, Typed DEF OnlyMoves, Steady, Inv, TypeOK, Thread
<1>4. StoreState' = StoreState /\ StoreData' = StoreData
  BY <1>1, <1>3, PcSets2, SilentStep
<1>5. StoreAsked[w] = Nothing /\ StoreAsked' = [StoreAsked EXCEPT ![w] = r]
  BY <1>1, <1>3 DEF StoreAsked, Pending, Nothing
<1>6. Store!Ask(w)
  BY <1>4, <1>5, StoreNow DEF Store!Ask
<1> QED  BY <1>6 DEF Store!Next, Store!Step

LEMMA SilentRejects ==
  ASSUME Steady, Steady', NEW w \in Workers,
         \/ Missing(w) \/ CreateExists(w) \/ TruncateCommited(w) \/ TruncateNoSpace(w)
         \/ CommitCommited(w) \/ Read(w)
  PROVE  Store!Next
<1>1. \E code : Reject(w, code)
  BY DEF Missing, CreateExists, TruncateCommited, TruncateNoSpace, CommitCommited, Read,
         ReadOverflow, ReadBlock
<1>2. th[w].pc \in Between \ {"idle"}
  BY PcSets DEF Missing, CreateExists, TruncateCommited, TruncateNoSpace, CommitCommited, Read,
         ReadOverflow, ReadBlock, Loaded, Begins
<1> QED  BY <1>1, <1>2, SilentReject

LEMMA SilentCrash ==
  ASSUME NEW w \in Workers, CrashOnMetadata(w) \/ WriteCrash(w) \/ Reconnect(w)
  PROVE  UNCHANGED Store!vars
<1>1. UNCHANGED <<disk, tagLock, th>>
  BY DEF CrashOnMetadata, WriteCrash, Reconnect, Crash
<1> QED  BY <1>1, SilentAll

-----------------------------------------------------------------------------
(* The steps that a Worker sees *)

(* A handler that has taken its lock changes the state of its File:Tag only. *)
LEMMA OtherStates ==
  ASSUME Orderly, Steady, Steady', NEW w \in Workers, OnlyMoves(w), Works(w), Op(w) # "DELETE",
         th'[w].req \in {th[w].req, NoRequest}
  PROVE  /\ Dest(w) \in FT /\ ~Deleting(Dest(w))
         /\ \A ft \in FT : Deleting(ft)' <=> Deleting(ft)
<1>1. Dest(w) \in FT /\ ~Deleting(Dest(w))
  BY Typed, OwnDeleting DEF Steady
<1>2. th'[w].req.op # "DELETE"
  BY DEF NoRequest, Op
<1> QED  BY <1>1, <1>2, DeletingSame

(* One logical block of the File:Tag is added, written or dropped: the store  *)
(* puts d there, and nothing else happens to it.                              *)
LEMMA PutMapped ==
  ASSUME Orderly, Steady, Steady', NEW w \in Workers, OnlyMoves(w), Works(w), Works(w)',
         Op(w) # "DELETE", th'[w].req = th[w].req, meta' = meta,
         NEW f, f = Dest(w),
         NEW i \in 1 .. MaxLogical, NEW d,
         \A ft \in FT : \A j \in 1 .. MaxLogical : ft # f \/ j # i => SeenSame(ft, j),
         Seen(f, i)' = d
  PROVE  /\ StoreState' = StoreState /\ StoreAsked' = StoreAsked
         /\ StoreData' = [StoreData EXCEPT ![f][i] = d]
         /\ Store!Subject(w) = f /\ StoreAsked[w] = th[w].req
         /\ f \in FT /\ StoreState[f] = meta[f].state
<1>1. f \in FT /\ ~Deleting(f) /\ \A ft \in FT : Deleting(ft)' <=> Deleting(ft)
  BY OtherStates
<1>2. StoreState' = StoreState
  BY <1>1, StateStays DEF StateSame
<1>3. StoreData' = [StoreData EXCEPT ![f][i] = d]
  BY <1>1, DataTurns
<1>4. StoreState[f] = meta[f].state
  BY <1>1 DEF StoreState
<1>5. th[w].pc # "idle" /\ th'[w].pc # "idle"
  BY PcSets2 DEF Works
<1>6. StoreAsked' = StoreAsked
  BY <1>5, AskedStays DEF Steady
<1>7. Store!Subject(w) = f /\ StoreAsked[w] = th[w].req
  BY <1>5, Waits DEF Steady
<1> QED  BY <1>1, <1>2, <1>3, <1>4, <1>6, <1>7

LEMMA LinksTyped ==
  ASSUME Steady, NEW ft \in FT, NEW j \in 1 .. MaxLogical
  PROVE  links[ft][j] \in Blocks \cup {NoBlock}
<1>1. links \in [FT -> [1 .. MaxLogical -> Blocks \cup {NoBlock}]]
  BY DEF Steady, Inv, TypeOK
<1> QED  BY <1>1

LEMMA GrowMapped ==
  ASSUME Orderly, Steady, Steady', NEW w \in Workers, Grow(w)
  PROVE  Store!Next
<1>1. /\ th[w].pc = "grow" /\ UNCHANGED <<meta, content>>
      /\ links' = WithLink(links, Ft(w), th[w].i, 0)
  BY DEF Grow, At
<1>2. /\ Works(w) /\ Dest(w) = Ft(w) /\ Ft(w) \in FT /\ Ft(w) \in dirs
      /\ Op(w) = "TRUNCATE" /\ meta[Ft(w)].state = "WORK_IN_PROGRESS"
      /\ th[w].i \in 1 .. MaxLogical
      /\ th[w].i = Len(th[w].blocks) + 1 /\ th[w].blocks \in Seq(Blocks)
  <2>1. Op(w) = "TRUNCATE"
    BY <1>1, Parts DEF Asked, Steady
  <2> QED  BY <1>1, <2>1, DropKnown DEF Steady
<1>3. Moves(w, {"grow", "open"})
  BY DEF Grow, Moves, OnlyMoves, Steady, Inv, TypeOK, Thread
<1>4. links[Ft(w)][th[w].i] = NoBlock
  BY <1>1, <1>2, Parts, PcSets2 DEF LinksKnown, Place, Steady
<1>5. PICK f, i : f = Ft(w) /\ i = th[w].i
  OBVIOUS
<1>6. links' = [links EXCEPT ![f][i] = 0]
  BY <1>1, <1>2, <1>4, <1>5 DEF WithLink
<1>7. /\ links'[f][i] = 0
      /\ \A ft \in FT : \A j \in 1 .. MaxLogical : ft # f \/ j # i => links'[ft][j] = links[ft][j]
  BY <1>2, <1>5, <1>6 DEF Steady, Inv, TypeOK
<1>8. \A ft \in FT : \A j \in 1 .. MaxLogical : ft # f \/ j # i => SeenSame(ft, j)
  BY <1>1, <1>7 DEF SeenSame, Seen
<1>9. Seen(f, i)' = Zero
  BY <1>1, <1>7 DEF Seen, NoBlock, Steady, ZeroKept
<1>10. /\ StoreState' = StoreState /\ StoreAsked' = StoreAsked
       /\ StoreData' = [StoreData EXCEPT ![f][i] = Zero]
       /\ Store!Subject(w) = f /\ StoreAsked[w] = th[w].req
       /\ StoreState[f] = "WORK_IN_PROGRESS"
  <2>1. Works(w)' /\ OnlyMoves(w) /\ th'[w].req = th[w].req
    BY <1>3, PcSets2 DEF Moves, Works
  <2> QED  BY <1>1, <1>2, <1>5, <1>8, <1>9, <2>1, PutMapped
<1>11. i <= BlocksNeeded(th[w].req.n) /\ th[w].req.n \in Sizes
  BY <1>1, <1>5, Typed DEF WellShaped, Steady
<1>12. StoreData[f][i] = NoData
  BY <1>2, <1>4, <1>5 DEF StoreData, Seen
<1>13. th[w].req.op = "TRUNCATE" /\ i \in 1 .. MaxLogical
  BY <1>2, <1>5 DEF Op
<1> QED  BY <1>10, <1>11, <1>12, <1>13, StoreEdits

LEMMA UnlinkMapped ==
  ASSUME Orderly, Steady, Steady', NEW w \in Workers, Unlink(w)
  PROVE  Store!Next
<1>1. /\ th[w].pc = "unlink" /\ UNCHANGED <<meta, content>>
      /\ links' = WithoutLink(links, Ft(w), th[w].i) /\ Goto(w, "stat")
  BY NoUnlinkFails DEF Unlink, At
<1>2. /\ Works(w) /\ Dest(w) = Ft(w) /\ Ft(w) \in FT /\ Op(w) \in {"TRUNCATE", "DELETE"}
      /\ Op(w) = "TRUNCATE" => meta[Ft(w)].state = "WORK_IN_PROGRESS"
      /\ th[w].i \in 1 .. MaxLogical
  BY <1>1, DropKnown DEF Steady
<1>3. OnlyMoves(w) /\ th'[w].pc = "stat" /\ th'[w].req = th[w].req
  BY <1>1, GotoFacts DEF Steady
<1>4. PICK f, i : f = Ft(w) /\ i = th[w].i
  OBVIOUS
<1>5. /\ links'[f][i] = NoBlock
      /\ \A ft \in FT : \A j \in 1 .. MaxLogical : ft # f \/ j # i => links'[ft][j] = links[ft][j]
  BY <1>1, <1>2, <1>4 DEF WithoutLink, Steady, Inv, TypeOK
<1>6. \A ft \in FT : \A j \in 1 .. MaxLogical : ft # f \/ j # i => SeenSame(ft, j)
  BY <1>1, <1>5 DEF SeenSame, Seen
<1>7. Seen(f, i)' = NoData
  BY <1>5 DEF Seen
<1>8. CASE Op(w) = "TRUNCATE"
  <2>1. Works(w)'
    BY <1>3, PcSets2 DEF Works
  <2>2. /\ StoreState' = StoreState /\ StoreAsked' = StoreAsked
        /\ StoreData' = [StoreData EXCEPT ![f][i] = NoData]
        /\ Store!Subject(w) = f /\ StoreAsked[w] = th[w].req
        /\ StoreState[f] = "WORK_IN_PROGRESS"
    BY <1>1, <1>2, <1>3, <1>4, <1>6, <1>7, <1>8, <2>1, PutMapped
  <2>3. i > BlocksNeeded(th[w].req.n) /\ th[w].req.n \in Sizes
    BY <1>1, <1>4, <1>8, Typed DEF WellShaped, Steady, Op
  <2>4. th[w].req.op = "TRUNCATE" /\ i \in 1 .. MaxLogical
    BY <1>2, <1>4, <1>8 DEF Op
  <2> QED  BY <2>2, <2>3, <2>4, StoreEdits
<1>9. CASE Op(w) = "DELETE"
  <2>1. \A ft \in FT : Deleting(ft)' <=> Deleting(ft)
    BY <1>2, <1>3, DeletingSame, PcSets2
  <2>2. StoreState' = StoreState
    BY <1>1, <2>1, StateStays DEF StateSame
  <2>3. StoreData' = [StoreData EXCEPT ![f][i] = NoData]
    BY <1>2, <1>4, <1>6, <1>7, DataTurns
  <2>4. StoreState[f] = "DELETING"
    BY <1>2, <1>4, <1>9, OwnDeleting DEF StoreState
  <2>5. StoreAsked' = StoreAsked /\ Store!Subject(w) = f /\ StoreAsked[w] = th[w].req
    BY <1>1, <1>2, <1>3, <1>4, AskedStays, Waits DEF Steady
  <2>6. th[w].req.op = "DELETE" /\ i \in 1 .. MaxLogical
    BY <1>2, <1>4, <1>9 DEF Op
  <2> QED  BY <2>2, <2>3, <2>4, <2>5, <2>6, StoreEdits
<1> QED  BY <1>2, <1>8, <1>9

LEMMA TagLinkMapped ==
  ASSUME Orderly, Steady, Steady', NEW w \in Workers, TagLink(w)
  PROVE  Store!Next
<1>1. PICK f, i, b : f = Dest(w) /\ i = th[w].i /\ b = th[w].new
  OBVIOUS
<1>2. /\ th[w].pc = "link" /\ UNCHANGED <<meta, content>>
      /\ links' = WithLink(links, f, i, b)
      /\ th' = [th EXCEPT ![w].pc = "clone", ![w].i = i + 1, ![w].new = NoBlock,
                          ![w].blocks = Append(th[w].blocks, b)]
  BY <1>1 DEF TagLink, At
<1>3. OnlyMoves(w) /\ th'[w].req = th[w].req /\ Works(w)'
  BY <1>2, Typed, PcSets2 DEF OnlyMoves, Works, Steady, Inv, TypeOK, Thread
<1>4. /\ Works(w) /\ Op(w) = "TAG" /\ f \in FT /\ f \in dirs /\ meta[f] = NoMeta
      /\ i \in 1 .. MaxLogical /\ links[f][i] = NoBlock
  <2>1. i = Len(th[w].blocks) + 1 /\ i <= Len(th[w].orig)
    BY <1>1, <1>2, Typed DEF WellShaped, Steady
  <2>2. i \in 1 .. MaxLogical
    BY <1>2, <2>1, TagKnown, VolumeAssumption DEF Steady
  <2>3. i \notin DOMAIN th[w].blocks
    BY <1>2, <2>1, TagKnown DEF Steady
  <2> QED  BY <1>1, <1>2, <2>2, <2>3, TagKnown DEF Entry, Steady
<1>5. b \in Blocks /\ b # NoBlock /\ content[b] \in Data
  <2>1. b \in Blocks /\ b # NoBlock /\ InHand(w, b)
    BY <1>1, <1>2, OwnHand DEF Steady
  <2> QED  BY <1>2, <2>1, Parts DEF HandKnown, Steady
<1>6. links' = [links EXCEPT ![f][i] = b]
  BY <1>2, <1>4 DEF WithLink
<1>7. /\ links'[f][i] = b
      /\ \A ft \in FT : \A j \in 1 .. MaxLogical : ft # f \/ j # i => links'[ft][j] = links[ft][j]
  BY <1>4, <1>6 DEF Steady, Inv, TypeOK
<1>8. \A ft \in FT : \A j \in 1 .. MaxLogical : ft # f \/ j # i => SeenSame(ft, j)
  BY <1>2, <1>7 DEF SeenSame, Seen
<1>9. Seen(f, i)' = content[b]
  BY <1>2, <1>5, <1>7 DEF Seen
<1>10. /\ StoreState' = StoreState /\ StoreAsked' = StoreAsked
       /\ StoreData' = [StoreData EXCEPT ![f][i] = content[b]]
       /\ Store!Subject(w) = f /\ StoreAsked[w] = th[w].req
       /\ StoreState[f] = "NONE"
  <2>1. meta[f].state = "NONE" /\ meta' = meta /\ Op(w) # "DELETE"
    BY <1>2, <1>4 DEF NoMeta
  <2> QED  BY <1>1, <1>3, <1>4, <1>8, <1>9, <2>1, PutMapped
<1>11. content[b] = StoreData[th[w].req.ft][i]
  <2>1. /\ Ft(w) # Dest(w) /\ meta[Ft(w)].blocks = th[w].orig
        /\ content[b] = content[th[w].orig[i]]
    BY <1>1, <1>2, <1>4, Parts DEF CopyKnown, Steady
  <2>2. Ft(w) \in FT /\ i \in DOMAIN th[w].orig /\ th[w].orig[i] \in Blocks
    <3>1. i \in 1 .. Len(th[w].orig) /\ th[w].orig \in Seq(Blocks)
      BY <1>1, <1>2, <1>4, Typed DEF WellShaped, Thread, Steady
    <3> QED  BY <3>1, Typed DEF Steady
  <2>3. AtRest(Ft(w))
    BY <1>4, <2>1, Distinct DEF AtRest, Steady
  <2>4. links[Ft(w)][i] = th[w].orig[i]
    BY <1>4, <2>1, <2>2, <2>3 DEF Steady, BlockInv, VolumeInv, LinksAtRest, Entry
  <2>5. th[w].orig[i] # NoBlock
    BY <2>2 DEF Blocks, NoBlock
  <2> QED  BY <1>4, <2>1, <2>2, <2>4, <2>5 DEF StoreData, Seen, Ft
<1> QED  BY <1>4, <1>10, <1>11, StoreEdits DEF Op

(* A block that was free is written: nobody is linked to it. *)
LEMMA CloneMapped ==
  ASSUME Orderly, Steady, Steady', NEW w \in Workers, TagClone(w) \/ WriteClone(w)
  PROVE  UNCHANGED Store!vars
<1>1. PICK b \in Blocks, l \in {"link", "redirect"} :
        (\E src : CloneInto(b, src)) /\ th' = [th EXCEPT ![w].pc = l, ![w].new = b]
  <2>1. CASE TagClone(w)
    <3>1. PICK b \in Blocks : /\ CloneInto(b, th[w].orig[th[w].i])
                              /\ th' = [th EXCEPT ![w].pc = "link", ![w].new = b]
      BY <2>1 DEF TagClone
    <3> QED  BY <3>1
  <2>2. CASE WriteClone(w)
    <3>1. PICK b \in Blocks : /\ CloneInto(b, Written(w))
                              /\ th' = [th EXCEPT ![w].pc = "redirect", ![w].new = b]
      BY <2>2 DEF WriteClone
    <3> QED  BY <3>1
  <2> QED  BY <2>1, <2>2
<1>2. UNCHANGED <<meta, links>> /\ th[w].pc \in {"clone", "cow"}
  BY DEF TagClone, WriteClone, At
<1>3. b \notin used /\ \A c \in Blocks : c # b => content'[c] = content[c]
  BY <1>1 DEF CloneInto, IsFirstFree, FreeBlocks, Steady, Inv, TypeOK
<1>4. OnlyMoves(w) /\ th'[w].req = th[w].req /\ th'[w].pc # "idle"
  <2>1. th \in [Workers -> Thread]
    BY DEF Steady, Inv, TypeOK
  <2>2. th'[w] = [th[w] EXCEPT !.pc = l, !.new = b] /\ OnlyMoves(w)
    BY <1>1, <2>1 DEF OnlyMoves
  <2> QED  BY <2>1, <2>2 DEF Thread
<1>5. Works(w) /\ Op(w) # "DELETE"
  BY <1>2, Parts, PcSets2 DEF Asked, Works, Steady
<1>6. ASSUME NEW ft \in FT, NEW j \in 1 .. MaxLogical
      PROVE  SeenSame(ft, j)
  <2>1. CASE links[ft][j] = NoBlock
    BY <1>2, <2>1 DEF SeenSame, Seen
  <2>2. CASE links[ft][j] # NoBlock
    <3>1. links[ft][j] \in used /\ links[ft][j] \in Blocks
      BY <2>2 DEF Steady, BlockInv, VolumeInv, LinkedBlocksAllocated, Inv, TypeOK
    <3> QED  BY <1>2, <1>3, <3>1 DEF SeenSame, Seen
  <2> QED  BY <2>1, <2>2
<1>7. \A ft \in FT : StateSame(ft)
  BY <1>2, <1>4, <1>5, OtherStates DEF StateSame
<1>8. StoreAsked' = StoreAsked
  BY <1>2, <1>4, AskedStays DEF Steady
<1> QED  BY <1>6, <1>7, <1>8, StateStays, DataStays, StoreStutters

LEMMA WriteInPlaceMapped ==
  ASSUME Orderly, Steady, Steady', NEW w \in Workers, WriteInPlace(w)
  PROVE  Store!Next
<1>1. PICK f, i, b, d : f = Ft(w) /\ i = th[w].req.n /\ b = Written(w) /\ d = th[w].req.d
  OBVIOUS
<1>2. /\ th[w].pc = "inplace" /\ UNCHANGED <<meta, links>>
      /\ content' = [content EXCEPT ![b] = d] /\ Goto(w, "open")
  BY <1>1 DEF WriteInPlace, At
<1>3. OnlyMoves(w) /\ th'[w].req = th[w].req
  BY <1>2, GotoFacts DEF Steady
<1>4. /\ Works(w) /\ Op(w) = "WRITE" /\ Dest(w) = f /\ f \in FT
      /\ meta[f].state = "WORK_IN_PROGRESS" /\ d \in Data /\ i \in 1 .. MaxLogical
  BY <1>1, <1>2, WriteKnown DEF Steady
<1>5. /\ b \in Blocks /\ links[f][i] = b
      /\ \A ft \in FT : \A j \in 1 .. MaxLogical : links[ft][j] = b => ft = f /\ j = i
  BY <1>1, <1>2, InPlaceOwn DEF Steady
<1>6. content'[b] = d /\ \A c \in Blocks : c # b => content'[c] = content[c]
  BY <1>2, <1>5 DEF Steady, Inv, TypeOK
<1>7. ASSUME NEW ft \in FT, NEW j \in 1 .. MaxLogical, ft # f \/ j # i
      PROVE  SeenSame(ft, j)
  <2>1. links[ft][j] # b /\ links[ft][j] \in Blocks \cup {NoBlock}
    BY <1>5, <1>7, LinksTyped
  <2> QED  BY <1>2, <1>6, <2>1 DEF SeenSame, Seen
<1>8. Seen(f, i)' = d
  <2>1. b # NoBlock
    BY <1>5 DEF Blocks, NoBlock
  <2> QED  BY <1>2, <1>5, <1>6, <2>1 DEF Seen
<1>9. Works(w)'
  BY <1>2, GotoFacts, PcSets2 DEF Works, Steady
<1>10. /\ StoreState' = StoreState /\ StoreAsked' = StoreAsked
       /\ StoreData' = [StoreData EXCEPT ![f][i] = d]
       /\ Store!Subject(w) = f /\ StoreAsked[w] = th[w].req
       /\ StoreState[f] = "WORK_IN_PROGRESS"
  BY <1>2, <1>3, <1>4, <1>7, <1>8, <1>9, PutMapped
<1> QED  BY <1>1, <1>4, <1>10, StoreEdits DEF Op

LEMMA WriteRedirectMapped ==
  ASSUME Orderly, Steady, Steady', NEW w \in Workers, WriteRedirect(w)
  PROVE  Store!Next
<1>1. PICK f, i, b, d : f = Ft(w) /\ i = th[w].req.n /\ b = th[w].new /\ d = th[w].req.d
  OBVIOUS
<1>2. /\ th[w].pc = "redirect" /\ UNCHANGED meta
      /\ content' = [content EXCEPT ![b] = d]
      /\ links' = WithLink(WithoutLink(links, f, i), f, i, b)
      /\ th' = [th EXCEPT ![w].pc = "open", ![w].new = NoBlock,
                          ![w].blocks = ReplaceAt(th[w].blocks, i, b)]
  BY <1>1, NoUnlinkFails DEF WriteRedirect, At
<1>3. OnlyMoves(w) /\ th'[w].req = th[w].req /\ Works(w)'
  BY <1>2, Typed, PcSets2 DEF OnlyMoves, Works, Steady, Inv, TypeOK, Thread
<1>4. /\ Works(w) /\ Op(w) = "WRITE" /\ Dest(w) = f /\ f \in FT /\ f \in dirs
      /\ meta[f].state = "WORK_IN_PROGRESS" /\ d \in Data /\ i \in 1 .. MaxLogical
  BY <1>1, <1>2, WriteKnown DEF Steady
<1>5. b \in Blocks /\ b # NoBlock /\ Nowhere(b)
  BY <1>1, <1>2, OwnHand DEF Steady
<1>6. content'[b] = d /\ \A c \in Blocks : c # b => content'[c] = content[c]
  BY <1>2, <1>5 DEF Steady, Inv, TypeOK
<1>7. /\ links'[f][i] = b
      /\ \A ft \in FT : \A j \in 1 .. MaxLogical : ft # f \/ j # i => links'[ft][j] = links[ft][j]
  BY <1>2, <1>4, LinkTable DEF WithLink, WithoutLink, Steady
<1>8. ASSUME NEW ft \in FT, NEW j \in 1 .. MaxLogical, ft # f \/ j # i
      PROVE  SeenSame(ft, j)
  <2>1. links[ft][j] # b /\ links[ft][j] \in Blocks \cup {NoBlock}
    BY <1>5, LinksTyped DEF Nowhere
  <2> QED  BY <1>6, <1>7, <1>8, <2>1 DEF SeenSame, Seen
<1>9. Seen(f, i)' = d
  BY <1>5, <1>6, <1>7 DEF Seen
<1>10. /\ StoreState' = StoreState /\ StoreAsked' = StoreAsked
       /\ StoreData' = [StoreData EXCEPT ![f][i] = d]
       /\ Store!Subject(w) = f /\ StoreAsked[w] = th[w].req
       /\ StoreState[f] = "WORK_IN_PROGRESS"
  <2>1. /\ meta' = meta /\ Op(w) # "DELETE" /\ f = Dest(w) /\ Works(w)
        /\ i \in 1 .. MaxLogical
    BY <1>2, <1>4
  <2> QED  BY <1>3, <1>4, <1>8, <1>9, <2>1, PutMapped
<1> QED  BY <1>1, <1>4, <1>10, StoreEdits DEF Op

(* The block that replaces another one has the same contents. *)
LEMMA CommitRelinkMapped ==
  ASSUME Orderly, Steady, Steady', NEW w \in Workers, CommitRelink(w)
  PROVE  UNCHANGED Store!vars
<1>1. PICK f, i, b, x : f = Ft(w) /\ i = th[w].i /\ b = Current(w) /\ x = Existing(w)
  OBVIOUS
<1>2. /\ th[w].pc = "relink" /\ UNCHANGED <<meta, content>>
      /\ links' = WithLink(WithoutLink(links, f, i), f, i, x) /\ Goto(w, "restat")
  BY <1>1 DEF CommitRelink, At
<1>3. OnlyMoves(w) /\ th'[w].req = th[w].req /\ th'[w].pc = "restat"
  BY <1>2, GotoFacts DEF Steady
<1>4. /\ Works(w) /\ Op(w) = "COMMIT" /\ f \in FT /\ f \in dirs /\ i \in 1 .. MaxLogical
      /\ links[f][i] = b /\ b \in Blocks
  <2>1. th[w].pc \in LoopPCs \ {"hash"} /\ th[w].pc \notin Relinked
    BY <1>2, PcSets2
  <2> QED  BY <1>1, <1>2, <2>1, CommitKnown, CurrentAlone DEF Steady
<1>5. x \in Blocks /\ content[x] = th[w].hash /\ content[b] = th[w].hash
  <2>1. content[b] = th[w].hash
    BY <1>1, <1>2, Parts DEF HashKnown, Steady
  <2> QED  BY <1>1, <1>2, <2>1, RelinkedTo DEF Sound, Steady
<1>6. /\ links'[f][i] = x
      /\ \A ft \in FT : \A j \in 1 .. MaxLogical : ft # f \/ j # i => links'[ft][j] = links[ft][j]
  BY <1>2, <1>4 DEF WithLink, WithoutLink, Steady, Inv, TypeOK
<1>7. x # NoBlock /\ b # NoBlock
  BY <1>4, <1>5 DEF Blocks, NoBlock
<1>8. \A ft \in FT : \A j \in 1 .. MaxLogical : SeenSame(ft, j)
  BY <1>2, <1>4, <1>5, <1>6, <1>7 DEF SeenSame, Seen
<1>9. \A ft \in FT : StateSame(ft)
  BY <1>2, <1>3, <1>4, OtherStates DEF StateSame
<1>10. StoreAsked' = StoreAsked
  BY <1>2, <1>3, AskedStays DEF Steady
<1> QED  BY <1>8, <1>9, <1>10, StateStays, DataStays, StoreStutters

LEMMA CommitSaveMapped ==
  ASSUME Orderly, Steady, Steady', NEW w \in Workers, CommitSave(w)
  PROVE  UNCHANGED Store!vars
<1>1. th[w].pc = "save" /\ UNCHANGED <<links, content>> /\ th[w].pc \in LoopPCs
  BY PcSets2 DEF CommitSave, At
<1>2. /\ Works(w) /\ Op(w) = "COMMIT" /\ Ft(w) \in FT /\ Ft(w) \in dirs
      /\ meta[Ft(w)].state = "COMMITED"
  BY <1>1, CommitKnown DEF Steady
<1>3. PICK s : s = ReplaceAt(th[w].blocks, th[w].i, Existing(w))
  OBVIOUS
<1>4. /\ meta' = [meta EXCEPT ![Ft(w)] = [state |-> "COMMITED", size |-> th[w].size,
                                          blocks |-> s]]
      /\ th' = [th EXCEPT ![w].blocks = s, ![w].pc = "hash", ![w].i = th[w].i + 1,
                          ![w].hash = NoData]
  BY <1>2, <1>3 DEF CommitSave
<1>5. OnlyMoves(w) /\ th'[w].req = th[w].req /\ th'[w].pc = "hash"
  BY <1>4, Typed DEF OnlyMoves, Steady, Inv, TypeOK, Thread
<1>6. \A ft \in FT : meta'[ft].state = meta[ft].state
  BY <1>2, <1>4 DEF Steady, Inv, TypeOK
<1>7. \A ft \in FT : StateSame(ft)
  BY <1>2, <1>5, <1>6, OtherStates DEF StateSame
<1>8. \A ft \in FT : \A j \in 1 .. MaxLogical : SeenSame(ft, j)
  BY <1>1 DEF SeenSame, Seen
<1>9. StoreAsked' = StoreAsked
  BY <1>1, <1>5, AskedStays DEF Steady
<1> QED  BY <1>7, <1>8, <1>9, StateStays, DataStays, StoreStutters

LEMMA CommitStartMapped ==
  ASSUME Orderly, Steady, Steady', NEW w \in Workers, CommitStart(w)
  PROVE  Store!Next
<1>1. PICK f : f = Ft(w)
  OBVIOUS
<1>2. /\ th[w].pc = "start" /\ Op(w) = "COMMIT" /\ f \in FT
      /\ meta[f] # NoMeta /\ meta[f].state # "COMMITED"
      /\ meta' = [meta EXCEPT ![f].state = "COMMITED"] /\ UNCHANGED <<links, content>>
      /\ tagLock[f] = NoWorker
  BY <1>1, Typed DEF CommitStart, Loaded, Begins, Locks, Steady
<1>3. Moves(w, Unhashed)
  BY StartMoves DEF Steady
<1>4. meta[f].state = "WORK_IN_PROGRESS"
  BY <1>1, <1>2, LoadedState DEF Steady
<1>5. ~Deleting(f)
  BY <1>2, WorkersAssumption DEF Deleting
<1>6. \A ft \in FT : Deleting(ft)' <=> Deleting(ft)
  BY <1>2, <1>3, DeletingSame DEF Moves, Op
<1>7. /\ meta'[f].state = "COMMITED"
      /\ \A ft \in FT : ft # f => meta'[ft] = meta[ft]
  <2>1. meta \in [FT -> Meta] /\ meta[f] \in Meta
    BY <1>2 DEF Steady, Inv, TypeOK
  <2> QED  BY <1>2, <2>1 DEF Meta
<1>8. StoreState' = [StoreState EXCEPT ![f] = "COMMITED"]
  BY <1>2, <1>5, <1>6, <1>7, StateTurns DEF StateSame
<1>9. \A ft \in FT : \A j \in 1 .. MaxLogical : SeenSame(ft, j)
  BY <1>2 DEF SeenSame, Seen
<1>10. StoreState[f] = "WORK_IN_PROGRESS" /\ StoreData' = StoreData
  BY <1>2, <1>4, <1>5, <1>9, DataStays DEF StoreState
<1>11. StoreAsked' = StoreAsked
  BY <1>2, <1>3, AskedStays, PcSets DEF Moves, Steady
<1>12. Store!Subject(w) = f /\ StoreAsked[w].op = "COMMIT"
  BY <1>1, <1>2, Waits DEF Dest, Op, Steady
<1> QED  BY <1>8, <1>10, <1>11, <1>12, StoreTurns

LEMMA DeleteStartMapped ==
  ASSUME Orderly, Steady, Steady', NEW w \in Workers, DeleteStart(w)
  PROVE  Store!Next
<1>1. PICK f : f = Ft(w)
  OBVIOUS
<1>2. /\ th[w].pc = "start" /\ Op(w) = "DELETE" /\ f \in FT
      /\ meta[f] # NoMeta /\ UNCHANGED <<meta, links, content>>
      /\ tagLock[f] = NoWorker /\ tagLock' = [tagLock EXCEPT ![f] = w]
  BY <1>1, Typed DEF DeleteStart, Loaded, Begins, Locks, Take, Steady, disk
<1>3. th'[w].req = th[w].req /\ \A v \in Workers : v # w => th'[v] = th[v]
  BY StartMoves DEF Moves, OnlyMoves, Steady, Inv, TypeOK
<1>4. meta[f].state \in {"WORK_IN_PROGRESS", "COMMITED"}
  BY <1>1, <1>2, LoadedState DEF Steady
<1>5. ~Deleting(f) /\ Deleting(f)'
  <2>1. ~Deleting(f)
    BY <1>2, WorkersAssumption DEF Deleting
  <2>2. tagLock'[f] = w /\ th'[w].req.op = "DELETE"
    BY <1>2, <1>3 DEF Op, Steady, Inv, TypeOK
  <2> QED  BY <2>1, <2>2 DEF Deleting, Op
<1>6. ASSUME NEW ft \in FT, ft # f
      PROVE  Deleting(ft)' <=> Deleting(ft)
  <2>1. tagLock'[ft] = tagLock[ft]
    BY <1>2, <1>6 DEF Steady, Inv, TypeOK
  <2>2. \A v \in Workers : th'[v].req = th[v].req
    BY <1>3
  <2> QED  BY <2>1, <2>2 DEF Deleting, Op
<1>7. StoreState' = [StoreState EXCEPT ![f] = "DELETING"]
  BY <1>2, <1>5, <1>6, StateTurns DEF StateSame
<1>8. StoreData' = StoreData
  BY <1>2, SilentSeen, DataStays
<1>9. StoreState[f] \in {"WORK_IN_PROGRESS", "COMMITED"}
  BY <1>2, <1>4, <1>5 DEF StoreState
<1>10. StoreAsked' = StoreAsked
  <2>1. Moves(w, Unhashed)
    BY StartMoves DEF Steady
  <2> QED  BY <1>2, <2>1, AskedStays, PcSets DEF Moves, Steady
<1>11. Store!Subject(w) = f /\ StoreAsked[w].op = "DELETE"
  BY <1>1, <1>2, Waits DEF Dest, Op, Steady
<1> QED  BY <1>7, <1>8, <1>9, <1>10, <1>11, StoreTurns

LEMMA RemoveDirectoryMapped ==
  ASSUME Orderly, Steady, Steady', NEW w \in Workers, RemoveDirectory(w)
  PROVE  Store!Next
<1>1. PICK f : f = Ft(w)
  OBVIOUS
<1>2. /\ th[w].pc = "rmdir" /\ UNCHANGED content /\ meta' = [meta EXCEPT ![f] = NoMeta]
      /\ links' = [links EXCEPT ![f] = [i \in 1 .. MaxLogical |-> NoBlock]]
      /\ th' = [th EXCEPT ![w] = IdleThread] /\ tagLock' = [tagLock EXCEPT ![f] = NoWorker]
  BY <1>1 DEF RemoveDirectory, At, Finish
<1>3. Works(w) /\ Op(w) = "DELETE" /\ Dest(w) = f /\ f \in FT
  BY <1>1, <1>2, Parts, Typed, PcSets2 DEF Works, Asked, Dest, Steady
<1>4. /\ meta'[f] = NoMeta /\ \A j \in 1 .. MaxLogical : links'[f][j] = NoBlock
      /\ \A ft \in FT : ft # f => meta'[ft] = meta[ft] /\ links'[ft] = links[ft]
  BY <1>2, <1>3 DEF Steady, Inv, TypeOK
<1>5. tagLock'[f] = NoWorker /\ \A ft \in FT : ft # f => tagLock'[ft] = tagLock[ft]
  BY <1>2, <1>3 DEF Steady, Inv, TypeOK
<1>6. Deleting(f) /\ ~Deleting(f)'
  BY <1>3, <1>5, OwnDeleting, WorkersAssumption DEF Deleting
<1>7. ASSUME NEW ft \in FT, ft # f
      PROVE  Deleting(ft)' <=> Deleting(ft)
  <2>1. \A v \in Workers : v # w => th'[v] = th[v]
    BY <1>2 DEF Steady, Inv, TypeOK
  <2>2. tagLock[ft] # w
    BY <1>1, <1>7 DEF Steady, LockDiscipline
  <2> QED  BY <1>5, <1>7, <2>1, <2>2 DEF Deleting, Op
<1>8. StoreState' = [StoreState EXCEPT ![f] = "NONE"]
  BY <1>3, <1>4, <1>6, <1>7, StateTurns DEF StateSame, NoMeta
<1>9. StoreData' = [StoreData EXCEPT ![f] = [j \in 1 .. MaxLogical |-> NoData]]
  <2>1. \A j \in 1 .. MaxLogical : Seen(f, j)' = NoData
    BY <1>4 DEF Seen
  <2>2. \A ft \in FT : ft # f => \A j \in 1 .. MaxLogical : SeenSame(ft, j)
    BY <1>2, <1>4 DEF SeenSame, Seen
  <2> QED  BY <1>3, <2>1, <2>2 DEF StoreData, SeenSame
<1>10. StoreState[f] = "DELETING"
  BY <1>3, <1>6 DEF StoreState
<1>11. /\ StoreAsked' = [StoreAsked EXCEPT ![w] = Nothing]
       /\ Store!Subject(w) = f /\ StoreAsked[w].op = "DELETE"
  BY <1>2, <1>3, AskedDone, Waits DEF Op, Steady
<1> QED  BY <1>8, <1>9, <1>10, <1>11, StoreForgets

(* The metadata is saved: a new File:Tag is open, one that was open stays so. *)
LEMMA SaveMetadataMapped ==
  ASSUME Orderly, Steady, Steady', NEW w \in Workers, SaveMetadata(w)
  PROVE  Store!Next
<1>1. PICK f : f = Dest(w)
  OBVIOUS
<1>2. /\ th[w].pc = "close" /\ UNCHANGED <<links, content>> /\ th' = [th EXCEPT ![w] = IdleThread]
  BY DEF SaveMetadata, At, Finish
<1>3. /\ Works(w) /\ Op(w) \in {"CREATE", "TRUNCATE", "TAG", "WRITE"} /\ f \in FT /\ f \in dirs
      /\ meta[f].state \in {"NONE", "WORK_IN_PROGRESS"} /\ (DebugBuild => config = f)
  <2>1. Works(w) /\ Op(w) \in {"CREATE", "TRUNCATE", "TAG", "WRITE"} /\ f \in FT
    BY <1>1, <1>2, Parts, Typed, PcSets2 DEF Works, Asked, Steady
  <2>2. f \in dirs /\ (DebugBuild => config = f)
    BY <1>1, <1>2, <2>1, Parts DEF MetaKnown, Steady
  <2>3. meta[f].state \in {"NONE", "WORK_IN_PROGRESS"}
    BY <1>1, <2>1, Parts DEF MetaKnown, Dest, NoMeta, Steady
  <2> QED  BY <2>1, <2>2, <2>3
<1>4. meta' = [meta EXCEPT ![f] = [state |-> "WORK_IN_PROGRESS", size |-> th[w].size,
                                   blocks |-> th[w].blocks]]
  BY <1>1, <1>3 DEF SaveMetadata
<1>5. /\ meta'[f].state = "WORK_IN_PROGRESS" /\ \A ft \in FT : ft # f => meta'[ft] = meta[ft]
  BY <1>3, <1>4 DEF Steady, Inv, TypeOK
<1>6. OnlyMoves(w) /\ th'[w].req = NoRequest
  BY <1>2 DEF OnlyMoves, IdleThread, Steady, Inv, TypeOK
<1>7. ~Deleting(f) /\ \A ft \in FT : Deleting(ft)' <=> Deleting(ft)
  BY <1>1, <1>3, <1>6, OtherStates
<1>8. \A ft \in FT : \A j \in 1 .. MaxLogical : SeenSame(ft, j)
  BY <1>2 DEF SeenSame, Seen
<1>9. /\ StoreAsked[w] = th[w].req /\ StoreAsked[w] # Nothing /\ Store!Subject(w) = f
      /\ StoreAsked' = [StoreAsked EXCEPT ![w] = Nothing]
  BY <1>1, <1>2, Waits, AskedDone DEF Steady
<1>10. CASE meta[f].state = "NONE"
  <2>1. StoreState' = [StoreState EXCEPT ![f] = "WORK_IN_PROGRESS"]
    BY <1>3, <1>5, <1>7, StateTurns DEF StateSame
  <2>2. StoreState[f] = "NONE" /\ StoreData' = StoreData
    BY <1>3, <1>7, <1>8, <1>10, DataStays DEF StoreState
  <2>3. Op(w) \in {"CREATE", "TAG"}
    BY <1>1, <1>3, <1>10, Parts DEF MetaKnown, Dest, Steady
  <2>4. CASE Op(w) = "CREATE"
    <3>1. th[w].blocks = <<>>
      BY <1>3, <2>4, Parts DEF MetaKnown, Steady
    <3>2. \A j \in 1 .. MaxLogical : links[f][j] = NoBlock
      BY <1>1, <1>3, <3>1, Parts DEF LinksKnown, Place, Steady
    <3>3. StoreData[f] = [j \in 1 .. MaxLogical |-> NoData]
      BY <1>3, <3>2 DEF StoreData, Seen
    <3>4. StoreAsked[w].op = "CREATE"
      BY <1>9, <2>4 DEF Op
    <3> QED  BY <1>9, <2>1, <2>2, <3>3, <3>4, StoreOpens
  <2>5. CASE Op(w) = "TAG"
    <3>1. Visible(f) = Visible(Ft(w)) /\ Ft(w) \in FT
      BY <1>1, <1>2, <2>5, CopyReads, Typed DEF Steady
    <3>2. StoreData[f] = StoreData[StoreAsked[w].ft]
      BY <1>3, <1>9, <3>1, StoreNow DEF Ft
    <3>3. StoreAsked[w].op = "TAG"
      BY <1>9, <2>5 DEF Op
    <3> QED  BY <1>9, <2>1, <2>2, <3>2, <3>3, StoreOpens
  <2> QED  BY <2>3, <2>4, <2>5
<1>11. CASE meta[f].state = "WORK_IN_PROGRESS"
  <2>1. \A ft \in FT : StateSame(ft)
    BY <1>5, <1>7, <1>11 DEF StateSame
  <2>2. StoreState' = StoreState /\ StoreData' = StoreData
    BY <1>8, <2>1, StateStays, DataStays
  <2> QED  BY <1>9, <2>2, StoreAnswers
<1> QED  BY <1>3, <1>10, <1>11

LEMMA StoreMapped ==
  ASSUME Orderly, Steady, Steady', [Next]_vars
  PROVE  [Store!Next]_Store!vars
<1>1. ASSUME NEW w \in Workers, Handle(w) PROVE [Store!Next]_Store!vars
  <2>1. CASE Create(w) \/ Truncate(w)
    BY <2>1, SilentRejects, SilentStarts, GrowMapped DEF Create, Truncate
  <2>2. CASE Tag(w)
    BY <2>2, SilentTag, SilentStarts, CloneMapped, TagLinkMapped DEF Tag
  <2>3. CASE Commit(w)
    <3>1. ~CommitUnlinkFails(w)
      BY DEF CommitUnlinkFails, Orderly
    <3> QED  BY <2>3, <3>1, SilentRejects, SilentCommit, CommitStartMapped,
                CommitRelinkMapped, CommitSaveMapped DEF Commit
  <2>4. CASE Write(w)
    BY <2>4, SilentCrash, SilentWrite, CloneMapped, WriteInPlaceMapped, WriteRedirectMapped
    DEF Write
  <2>5. CASE Delete(w) \/ Drop(w)
    BY <2>5, SilentDrop, DeleteStartMapped, RemoveDirectoryMapped, UnlinkMapped
    DEF Delete, Drop
  <2>6. CASE Metadata(w)
    BY <2>6, SilentMetadata, SaveMetadataMapped DEF Metadata
  <2>7. CASE Missing(w) \/ CrashOnMetadata(w) \/ Read(w)
    BY <2>7, SilentRejects, SilentCrash
  <2> QED  BY <1>1, <2>1, <2>2, <2>3, <2>4, <2>5, <2>6, <2>7 DEF Handle
<1>2. ASSUME NEW w \in Workers, Receive(w) \/ Reconnect(w) PROVE [Store!Next]_Store!vars
  BY <1>2, ReceiveMapped, SilentCrash
<1>3. ~Restart
  BY DEF Restart, Orderly
<1>4. UNCHANGED vars => UNCHANGED Store!vars
  BY SilentAll DEF vars, disk
<1> QED  BY <1>1, <1>2, <1>3, <1>4 DEF Next

(* The Storage implements the store of separate File:Tags of TagStore, for    *)
(* any number of Workers, File:Tags and blocks, in any setting that is        *)
(* Orderly: links, copies on write and deduplication are not visible.  Each   *)
(* step of a handler changes what is read of the File:Tag of its own request  *)
(* only, and as that request says, until the request is answered; nothing of  *)
(* a committed one changes until it is deleted.                               *)
THEOREM StoreIsImplemented ==
  ASSUME Orderly
  PROVE  Spec => StoreSpec
<1>1. Init => Store!Init
  <2> SUFFICES ASSUME Init PROVE Store!Init
    OBVIOUS
  <2>1. \A ft \in FT : ~Deleting(ft)
    BY WorkersAssumption DEF Init, Deleting
  <2>2. StoreState = [ft \in FT |-> IF ft = Base THEN "COMMITED" ELSE "NONE"]
    BY <2>1 DEF Init, StoreState, BaseMeta, NoMeta
  <2>3. StoreData = [ft \in FT |-> [i \in 1 .. MaxLogical |->
                      IF ft = Base /\ i = 1 THEN Zero ELSE NoData]]
    BY VolumeAssumption DEF Init, StoreData, Seen, NoBlock, Blocks
  <2>4. StoreAsked = [w \in Workers |-> Nothing]
    BY DEF Init, StoreAsked, Pending, Nothing, IdleThread
  <2> QED  BY <2>2, <2>3, <2>4, StoreNow DEF Store!Init
<1>2. Steady /\ Steady' /\ [Next]_vars => [Store!Next]_Store!vars
  BY StoreMapped
<1> QED  BY <1>1, <1>2, SteadyHolds, PTL DEF Spec, StoreSpec, Store!Spec

-----------------------------------------------------------------------------
(* What COMMIT promises *)

LEMMA CommittedStep ==
  ASSUME Orderly, Steady, Steady', [Next]_vars, NEW ft \in FT
  PROVE  /\ meta[ft].state = "COMMITED" /\ ~Deleting(ft) =>
              Deleting(ft)' \/ (meta'[ft].state = "COMMITED" /\ Visible(ft)' = Visible(ft))
         /\ meta'[ft].state = "COMMITED" /\ ~Deleting(ft)' => ~Deleting(ft)
<1>1. [Store!Next]_Store!vars
  BY StoreMapped
<1>2. ASSUME NEW w \in Workers, Store!Step(w), Store!Subject(w) # ft
      PROVE  StoreState'[ft] = StoreState[ft] /\ StoreData'[ft] = StoreData[ft]
  BY <1>2, StoreNow DEF Store!Step, Store!Ask, Store!Answer, Store!Create, Store!Copy,
     Store!Tag, Store!Resize, Store!Write, Store!Seal, Store!Doom, Store!Lose, Store!Forget,
     Store!Put, Store!Turn
<1>3. ASSUME NEW w \in Workers, Store!Step(w), Store!Subject(w) = ft
      PROVE  /\ StoreState[ft] = "COMMITED" =>
                  \/ StoreState'[ft] = "DELETING"
                  \/ StoreState'[ft] = "COMMITED" /\ StoreData'[ft] = StoreData[ft]
             /\ StoreState[ft] = "DELETING" => StoreState'[ft] \in {"NONE", "DELETING"}
  <2>1. CASE Store!Ask(w) \/ Store!Answer(w)
    BY <2>1, StoreNow DEF Store!Ask, Store!Answer
  <2>2. CASE Store!Create(w) \/ Store!Tag(w) \/ Store!Write(w) \/ Store!Seal(w)
    <3>1. StoreState[ft] \in {"NONE", "WORK_IN_PROGRESS"}
      BY <1>3, <2>2, StoreNow DEF Store!Create, Store!Tag, Store!Write, Store!Seal, Store!In
    <3> QED  BY <3>1
  <2>3. CASE Store!Doom(w)
    BY <1>3, <2>3, StoreNow DEF Store!Doom, Store!Turn, Store!In
  <2>4. CASE Store!Forget(w)
    BY <1>3, <2>4, StoreNow DEF Store!Forget, Store!Turn, Store!In
  <2>5. ASSUME NEW i \in 1 .. MaxLogical, Store!Copy(w, i) \/ Store!Resize(w, i)
        PROVE  StoreState[ft] \in {"NONE", "WORK_IN_PROGRESS"}
    BY <1>3, <2>5, StoreNow DEF Store!Copy, Store!Resize, Store!In
  <2>6. ASSUME NEW i \in 1 .. MaxLogical, Store!Lose(w, i)
        PROVE  StoreState[ft] = "DELETING" /\ StoreState'[ft] = "DELETING"
    BY <1>3, <2>6, StoreNow DEF Store!Lose, Store!In
  <2> QED  BY <1>3, <2>1, <2>2, <2>3, <2>4, <2>5, <2>6 DEF Store!Step
<1>4. \/ StoreState' = StoreState /\ StoreData' = StoreData
      \/ \E w \in Workers : Store!Step(w)
  BY <1>1, StoreNow DEF Store!Next, Store!vars
<1>5. /\ StoreState[ft] = "COMMITED" =>
           \/ StoreState'[ft] = "DELETING"
           \/ StoreState'[ft] = "COMMITED" /\ StoreData'[ft] = StoreData[ft]
      /\ StoreState[ft] = "DELETING" => StoreState'[ft] \in {"NONE", "DELETING"}
  BY <1>2, <1>3, <1>4
<1>6. meta'[ft].state \in {"NONE", "WORK_IN_PROGRESS", "COMMITED"}
  BY DEF Steady, Inv, TypeOK, Meta
<1>7. /\ StoreState'[ft] = IF Deleting(ft)' THEN "DELETING" ELSE meta'[ft].state
      /\ StoreState[ft] = IF Deleting(ft) THEN "DELETING" ELSE meta[ft].state
      /\ StoreData'[ft] = Visible(ft)' /\ StoreData[ft] = Visible(ft)
  BY StoreNow
<1> QED  BY <1>5, <1>6, <1>7

(* What COMMIT promises ("no se realizaran mas cambios"), in any setting that *)
(* is Orderly: what is read of a committed File:Tag does not change before a  *)
(* DELETE takes it away, whatever the other handlers share with it.           *)
THEOREM CommittedStays ==
  ASSUME Orderly
  PROVE  Spec => CommittedFrozen
<1> DEFINE Stays(ft) == (meta[ft].state = "COMMITED" /\ ~Deleting(ft)) =>
             (Deleting(ft)' \/ (meta'[ft].state = "COMMITED" /\ Visible(ft)' = Visible(ft)))
<1>1. Steady /\ Steady' /\ [Next]_vars => \A ft \in FT : Stays(ft)
  BY CommittedStep
<1>2. Steady /\ Steady' /\ [Next]_vars => [\A ft \in FT : Stays(ft)]_vars
  BY <1>1
<1> QED  BY <1>2, SteadyHolds, PTL DEF Spec, CommittedFrozen

-----------------------------------------------------------------------------
(* One physical block per content *)

(* A logical block that a COMMIT is done with and no DELETE has doomed. *)
Kept(ft, j) ==
  ft # Base /\ ~Deleting(ft) /\ Settled(ft, j) /\ links[ft][j] # NoBlock

Indexed ==
  /\ \A w \in Workers : th[w].pc \in LoopPCs => th[w].bhi = hashIndex
  /\ \A ft \in FT : \A j \in 1 .. MaxLogical :
       Kept(ft, j) => hashIndex[content[links[ft][j]]] = links[ft][j]
  /\ \A w \in Workers : th[w].pc = "unhash" =>
       \A ft \in FT : \A j \in 1 .. MaxLogical :
         Kept(ft, j) => links[ft][j] # th[w].blocks[th[w].i]

(* Deduplicated, of a state. *)
LEMMA IndexedOnce ==
  ASSUME Steady, Indexed
  PROVE  Deduplicated
<1>1. ASSUME NEW ft \in FT \ {Base}, NEW j \in 1 .. MaxLogical, meta[ft].state = "COMMITED",
             Quiet(ft), links[ft][j] # NoBlock
      PROVE  hashIndex[content[links[ft][j]]] = links[ft][j]
  <2>1. AtRest(ft)
    BY <1>1, QuietRests DEF Steady
  <2>2. Settled(ft, j)
    BY <1>1, <2>1 DEF Settled, AtRest, Dest
  <2>3. ~Deleting(ft)
    BY <1>1, WorkersAssumption DEF Deleting, Quiet
  <2> QED  BY <1>1, <2>2, <2>3 DEF Kept, Indexed
<1> SUFFICES ASSUME NEW p \in (FT \ {Base}) \X (1 .. MaxLogical),
                    NEW q \in (FT \ {Base}) \X (1 .. MaxLogical),
                    {meta[p[1]].state, meta[q[1]].state} = {"COMMITED"},
                    Quiet(p[1]), Quiet(q[1]),
                    links[p[1]][p[2]] # NoBlock, links[q[1]][q[2]] # NoBlock,
                    content[links[p[1]][p[2]]] = content[links[q[1]][q[2]]]
             PROVE  links[p[1]][p[2]] = links[q[1]][q[2]]
  BY DEF Deduplicated
<1>2. /\ p[1] \in FT \ {Base} /\ p[2] \in 1 .. MaxLogical /\ meta[p[1]].state = "COMMITED"
      /\ q[1] \in FT \ {Base} /\ q[2] \in 1 .. MaxLogical /\ meta[q[1]].state = "COMMITED"
  OBVIOUS
<1> QED  BY <1>1, <1>2

LEMMA KeptSeen ==
  ASSUME Orderly, Steady, Steady', [Next]_vars, NEW ft \in FT, NEW j \in 1 .. MaxLogical,
         Kept(ft, j), Kept(ft, j)', links'[ft][j] = links[ft][j]
  PROVE  content'[links'[ft][j]] = content[links[ft][j]]
<1>1. meta[ft].state = "COMMITED" /\ ~Deleting(ft) /\ ~Deleting(ft)'
  BY DEF Kept, Settled
<1>2. Visible(ft)' = Visible(ft)
  BY <1>1, CommittedStep
<1>3. links[ft][j] # NoBlock
  BY DEF Kept
<1>4. Visible(ft)[j] = content[links[ft][j]] /\ Visible(ft)'[j] = content'[links'[ft][j]]
  BY <1>3 DEF Visible
<1> QED  BY <1>2, <1>4

(* What a COMMIT is done with stays so, but for its own step. *)
LEMMA KeptBefore ==
  ASSUME Orderly, Steady, Steady', [Next]_vars, NEW w \in Workers, OnlyMoves(w),
         NEW ft \in FT, Works(w) /\ Op(w) = "COMMIT" => Ft(w) # ft,
         links'[ft] = links[ft], meta'[ft].state = meta[ft].state,
         NEW j \in 1 .. MaxLogical, Kept(ft, j)'
  PROVE  Kept(ft, j)
<1>1. /\ meta'[ft].state = "COMMITED" /\ ~Deleting(ft)' /\ ft # Base
      /\ links'[ft][j] # NoBlock
      /\ \A v \in Workers : th'[v].pc \in LockedPCs /\ th'[v].req.op = "COMMIT" /\ th'[v].req.ft = ft =>
           j < th'[v].i \/ (j = th'[v].i /\ th'[v].pc \in Relinked)
  <2>1. ft # Base /\ ~Deleting(ft)' /\ Settled(ft, j)' /\ links'[ft][j] # NoBlock
    BY DEF Kept
  <2>2. meta'[ft].state = "COMMITED"
    BY <2>1 DEF Settled
  <2>3. ASSUME NEW v \in Workers, th'[v].pc \in LockedPCs, th'[v].req.op = "COMMIT",
               th'[v].req.ft = ft
        PROVE  j < th'[v].i \/ (j = th'[v].i /\ th'[v].pc \in Relinked)
    BY <2>1, <2>3 DEF Settled, Works, Op, Ft
  <2> QED  BY <2>1, <2>2, <2>3
<1>2. ~Deleting(ft)
  BY <1>1, CommittedStep
<1>3. \A v \in Workers : v # w => th'[v] = th[v]
  BY DEF OnlyMoves, Steady, Inv, TypeOK
<1>4. Settled(ft, j)
  BY <1>1, <1>3 DEF Settled, Works, Op, Ft
<1> QED  BY <1>1, <1>2, <1>4 DEF Kept

LEMMA IndexedStays ==
  ASSUME Orderly, Steady, Steady', [Next]_vars, Indexed, NEW w \in Workers, OnlyMoves(w),
         hashIndex' = hashIndex,
         \A ft \in FT : \A j \in 1 .. MaxLogical :
           Kept(ft, j)' => Kept(ft, j) /\ links'[ft][j] = links[ft][j],
         th'[w].pc \notin LoopPCs,
         th'[w].pc = "unhash" => \A ft \in FT : \A j \in 1 .. MaxLogical :
           links[ft][j] # th'[w].blocks[th'[w].i]
  PROVE  Indexed'
<1>1. \A v \in Workers : v # w => th'[v] = th[v]
  BY DEF OnlyMoves, Steady, Inv, TypeOK
<1>2. \A v \in Workers : th'[v].pc \in LoopPCs => th'[v].bhi = hashIndex'
  BY <1>1 DEF Indexed
<1>3. ASSUME NEW ft \in FT, NEW j \in 1 .. MaxLogical, Kept(ft, j)'
      PROVE  hashIndex'[content'[links'[ft][j]]] = links'[ft][j]
  <2>1. Kept(ft, j) /\ links'[ft][j] = links[ft][j]
    BY <1>3
  <2>2. content'[links'[ft][j]] = content[links[ft][j]]
    BY <1>3, <2>1, KeptSeen
  <2> QED  BY <2>1, <2>2 DEF Indexed
<1>4. ASSUME NEW v \in Workers, th'[v].pc = "unhash",
             NEW ft \in FT, NEW j \in 1 .. MaxLogical, Kept(ft, j)'
      PROVE  links'[ft][j] # th'[v].blocks[th'[v].i]
  <2>1. Kept(ft, j) /\ links'[ft][j] = links[ft][j]
    BY <1>4
  <2> QED  BY <1>1, <1>4, <2>1 DEF Indexed
<1> QED  BY <1>2, <1>3, <1>4 DEF Indexed

(* A step that neither commits nor frees, and changes no File:Tag but its own,*)
(* which is not committed, or is being deleted.                               *)
LEMMA IndexedElsewhere ==
  ASSUME Orderly, Steady, Steady', [Next]_vars, Indexed, NEW w \in Workers, OnlyMoves(w),
         hashIndex' = hashIndex, th'[w].pc \notin LoopPCs \cup {"unhash"},
         Works(w) => Op(w) # "COMMIT",
         \A ft \in FT : \/ links'[ft] = links[ft] /\ meta'[ft].state = meta[ft].state
                        \/ meta'[ft].state # "COMMITED"
                        \/ Deleting(ft)
  PROVE  Indexed'
<1>1. ASSUME NEW ft \in FT, NEW j \in 1 .. MaxLogical, Kept(ft, j)'
      PROVE  Kept(ft, j) /\ links'[ft][j] = links[ft][j]
  <2>1. meta'[ft].state = "COMMITED" /\ ~Deleting(ft)'
    BY <1>1 DEF Kept, Settled
  <2>2. ~Deleting(ft)
    BY <2>1, CommittedStep
  <2>3. links'[ft] = links[ft] /\ meta'[ft].state = meta[ft].state
    BY <2>1, <2>2
  <2>4. Kept(ft, j)
    BY <1>1, <2>3, KeptBefore
  <2> QED  BY <2>3, <2>4
<1> QED  BY <1>1, IndexedStays

LEMMA IndexedSame ==
  ASSUME Indexed, UNCHANGED <<disk, tagLock, th>>
  PROVE  Indexed'
<1>1. UNCHANGED <<links, meta, content, hashIndex>>
  BY DEF disk
<1>2. \A ft \in FT : \A j \in 1 .. MaxLogical : Kept(ft, j)' <=> Kept(ft, j)
  BY <1>1 DEF Kept, Settled, Deleting, Works, Op, Ft
<1> QED  BY <1>1, <1>2 DEF Indexed

(* A handler that goes on with a request that neither commits nor deletes. *)
LEMMA PlainPc ==
  ASSUME Steady', NEW w \in Workers, th'[w].req = th[w].req, Op(w) \notin {"COMMIT", "DELETE"}
  PROVE  th'[w].pc \notin LoopPCs \cup {"unhash"}
<1>1. Asked(w)'
  BY DEF Steady, BlockInv, HandlerInv
<1>2. th'[w].req.op = Op(w)
  BY DEF Op
<1> QED  BY <1>1, <1>2, PcSets2 DEF Asked, Op

LEMMA IndexedPlain ==
  ASSUME Orderly, Steady, Steady', [Next]_vars, Indexed, NEW w \in Workers,
         OnlyMoves(w), th'[w].req = th[w].req, Op(w) \notin {"COMMIT", "DELETE"},
         UNCHANGED <<meta, links, hashIndex>>
  PROVE  Indexed'
  BY PlainPc, IndexedElsewhere

LEMMA IndexedMoves ==
  ASSUME Orderly, Steady, Steady', [Next]_vars, Indexed, NEW w \in Workers,
         NEW S, Moves(w, S), Op(w) \notin {"COMMIT", "DELETE"},
         UNCHANGED <<meta, links, hashIndex>>
  PROVE  Indexed'
  BY IndexedPlain DEF Moves

LEMMA IndexedEnds ==
  ASSUME Orderly, Steady, Steady', [Next]_vars, Indexed, NEW w \in Workers,
         th' = [th EXCEPT ![w] = IdleThread], ~Works(w) \/ Op(w) # "COMMIT",
         UNCHANGED <<meta, links, hashIndex>>
  PROVE  Indexed'
<1>1. th'[w] = IdleThread /\ OnlyMoves(w)
  BY DEF Steady, Inv, TypeOK, OnlyMoves
<1>2. th'[w].pc \notin LoopPCs \cup {"unhash"}
  BY <1>1, PcSets2 DEF IdleThread
<1> QED  BY <1>1, <1>2, IndexedElsewhere

LEMMA IndexedReject ==
  ASSUME Orderly, Steady, Steady', [Next]_vars, Indexed, NEW w \in Workers, NEW code,
         th[w].pc \in Between, Reject(w, code)
  PROVE  Indexed'
<1>1. ~Works(w) /\ th' = [th EXCEPT ![w] = IdleThread] /\ UNCHANGED <<meta, links, hashIndex>>
  BY BetweenQuiet DEF Reject, disk
<1> QED  BY <1>1, IndexedEnds

LEMMA RejectsIndexed ==
  ASSUME Orderly, Steady, Steady', [Next]_vars, Indexed, NEW w \in Workers,
         \/ Missing(w) \/ CreateExists(w) \/ TruncateCommited(w) \/ TruncateNoSpace(w)
         \/ CommitCommited(w) \/ Read(w)
  PROVE  Indexed'
<1>1. \E code : Reject(w, code)
  BY DEF Missing, CreateExists, TruncateCommited, TruncateNoSpace, CommitCommited, Read,
         ReadOverflow, ReadBlock
<1>2. th[w].pc \in Between
  BY PcSets DEF Missing, CreateExists, TruncateCommited, TruncateNoSpace, CommitCommited, Read,
         ReadOverflow, ReadBlock, Loaded, Begins
<1> QED  BY <1>1, <1>2, IndexedReject

LEMMA CrashIndexed ==
  ASSUME Indexed, NEW w \in Workers, CrashOnMetadata(w) \/ WriteCrash(w) \/ Reconnect(w)
  PROVE  Indexed'
<1>1. UNCHANGED <<disk, tagLock, th>>
  BY DEF CrashOnMetadata, WriteCrash, Reconnect, Crash
<1> QED  BY <1>1, IndexedSame

LEMMA StartsIndexed ==
  ASSUME Orderly, Steady, Steady', [Next]_vars, Indexed, NEW w \in Workers,
         CreateStart(w) \/ TruncateStart(w) \/ TagStart(w)
  PROVE  Indexed'
<1>1. UNCHANGED <<meta, links, hashIndex>> /\ Op(w) \notin {"COMMIT", "DELETE"}
  BY DEF CreateStart, TruncateStart, TagStart, Loaded, Begins, disk
<1>2. Moves(w, Unhashed)
  BY StartMoves DEF Steady
<1> QED  BY <1>1, <1>2, IndexedMoves

LEMMA ReceiveIndexed ==
  ASSUME Orderly, Steady, Steady', [Next]_vars, Indexed, NEW w \in Workers, Receive(w)
  PROVE  Indexed'
<1>1. UNCHANGED <<meta, links, hashIndex>> /\ ~Works(w)
  BY PcSets2 DEF Receive, disk, Works
<1>2. PICK r \in Requests[w], l \in {"locate", "start"} :
        th' = [th EXCEPT ![w] = [th[w] EXCEPT !.pc = l, !.req = r]]
  <2>1. th \in [Workers -> Thread]
    BY DEF Steady, Inv, TypeOK
  <2> QED  BY <2>1 DEF Receive
<1>3. OnlyMoves(w) /\ th'[w].pc \in {"locate", "start"}
  BY <1>2, Typed DEF OnlyMoves, Steady, Inv, TypeOK, Thread
<1>4. th'[w].pc \notin LoopPCs \cup {"unhash"}
  BY <1>3, PcSets2
<1> QED  BY <1>1, <1>3, <1>4, IndexedElsewhere

(* A handler that links or unlinks in a File:Tag of its own that is not       *)
(* committed, or is being deleted.                                            *)
LEMMA IndexedLinks ==
  ASSUME Orderly, Steady, Steady', [Next]_vars, Indexed, NEW w \in Workers,
         OnlyMoves(w), th'[w].req = th[w].req, Works(w), Op(w) # "COMMIT",
         th'[w].pc \notin LoopPCs \cup {"unhash"},
         NEW f, f = Dest(w), meta[f].state # "COMMITED" \/ Op(w) = "DELETE",
         \A ft \in FT : ft # f => links'[ft] = links[ft],
         meta' = meta, hashIndex' = hashIndex
  PROVE  Indexed'
<1>1. f \in FT /\ (Op(w) = "DELETE" => Deleting(f))
  BY OwnDeleting, Typed DEF Steady
<1>2. \A ft \in FT : \/ links'[ft] = links[ft] /\ meta'[ft].state = meta[ft].state
                     \/ meta'[ft].state # "COMMITED"
                     \/ Deleting(ft)
  BY <1>1
<1> QED  BY <1>2, IndexedElsewhere

LEMMA GrowIndexed ==
  ASSUME Orderly, Steady, Steady', [Next]_vars, Indexed, NEW w \in Workers, Grow(w)
  PROVE  Indexed'
<1>1. /\ th[w].pc = "grow" /\ UNCHANGED <<meta, hashIndex>>
      /\ links' = WithLink(links, Ft(w), th[w].i, 0)
  BY DEF Grow, At
<1>2. /\ Works(w) /\ Dest(w) = Ft(w) /\ Ft(w) \in FT
      /\ Op(w) = "TRUNCATE" /\ meta[Ft(w)].state = "WORK_IN_PROGRESS"
  <2>1. Op(w) = "TRUNCATE"
    BY <1>1, Parts DEF Asked, Steady
  <2> QED  BY <1>1, <2>1, DropKnown DEF Steady
<1>3. Moves(w, {"grow", "open"})
  BY DEF Grow, Moves, OnlyMoves, Steady, Inv, TypeOK, Thread
<1>4. th'[w].pc \notin LoopPCs \cup {"unhash"}
  BY <1>3, PcSets2 DEF Moves
<1>5. \A ft \in FT : ft # Ft(w) => links'[ft] = links[ft]
  BY <1>1, <1>2 DEF WithLink, Steady, Inv, TypeOK
<1> QED  BY <1>1, <1>2, <1>3, <1>4, <1>5, IndexedLinks DEF Moves

LEMMA UnlinkIndexed ==
  ASSUME Orderly, Steady, Steady', [Next]_vars, Indexed, NEW w \in Workers, Unlink(w)
  PROVE  Indexed'
<1>1. /\ th[w].pc = "unlink" /\ UNCHANGED <<meta, hashIndex>>
      /\ links' = WithoutLink(links, Ft(w), th[w].i) /\ Goto(w, "stat")
  BY NoUnlinkFails DEF Unlink, At
<1>2. /\ Works(w) /\ Dest(w) = Ft(w) /\ Ft(w) \in FT /\ Op(w) \in {"TRUNCATE", "DELETE"}
      /\ Op(w) = "TRUNCATE" => meta[Ft(w)].state = "WORK_IN_PROGRESS"
  BY <1>1, DropKnown DEF Steady
<1>3. OnlyMoves(w) /\ th'[w].pc = "stat" /\ th'[w].req = th[w].req
  BY <1>1, GotoFacts DEF Steady
<1>4. th'[w].pc \notin LoopPCs \cup {"unhash"}
  BY <1>3, PcSets2
<1>5. \A ft \in FT : ft # Ft(w) => links'[ft] = links[ft]
  BY <1>1, <1>2 DEF WithoutLink, Steady, Inv, TypeOK
<1> QED  BY <1>1, <1>2, <1>3, <1>4, <1>5, IndexedLinks

LEMMA TagLinkIndexed ==
  ASSUME Orderly, Steady, Steady', [Next]_vars, Indexed, NEW w \in Workers, TagLink(w)
  PROVE  Indexed'
<1>1. PICK f, i, b : f = Dest(w) /\ i = th[w].i /\ b = th[w].new
  OBVIOUS
<1>2. /\ th[w].pc = "link" /\ UNCHANGED <<meta, hashIndex>>
      /\ links' = WithLink(links, f, i, b)
      /\ th' = [th EXCEPT ![w].pc = "clone", ![w].i = i + 1, ![w].new = NoBlock,
                          ![w].blocks = Append(th[w].blocks, b)]
  BY <1>1 DEF TagLink, At
<1>3. OnlyMoves(w) /\ th'[w].req = th[w].req /\ th'[w].pc = "clone"
  BY <1>2, Typed DEF OnlyMoves, Steady, Inv, TypeOK, Thread
<1>4. Works(w) /\ Op(w) = "TAG" /\ f \in FT /\ meta[f] = NoMeta
  BY <1>1, <1>2, TagKnown DEF Steady
<1>5. th'[w].pc \notin LoopPCs \cup {"unhash"} /\ meta[f].state # "COMMITED"
  BY <1>3, <1>4, PcSets2 DEF NoMeta
<1>6. \A ft \in FT : ft # f => links'[ft] = links[ft]
  BY <1>2, <1>4 DEF WithLink, Steady, Inv, TypeOK
<1> QED  BY <1>1, <1>2, <1>3, <1>4, <1>5, <1>6, IndexedLinks

LEMMA WriteRedirectIndexed ==
  ASSUME Orderly, Steady, Steady', [Next]_vars, Indexed, NEW w \in Workers, WriteRedirect(w)
  PROVE  Indexed'
<1>1. PICK f, i, b : f = Ft(w) /\ i = th[w].req.n /\ b = th[w].new
  OBVIOUS
<1>2. /\ th[w].pc = "redirect" /\ UNCHANGED <<meta, hashIndex>>
      /\ links' = WithLink(WithoutLink(links, f, i), f, i, b)
      /\ th' = [th EXCEPT ![w].pc = "open", ![w].new = NoBlock,
                          ![w].blocks = ReplaceAt(th[w].blocks, i, b)]
  BY <1>1, NoUnlinkFails DEF WriteRedirect, At
<1>3. OnlyMoves(w) /\ th'[w].req = th[w].req /\ th'[w].pc = "open"
  BY <1>2, Typed DEF OnlyMoves, Steady, Inv, TypeOK, Thread
<1>4. /\ Works(w) /\ Op(w) = "WRITE" /\ Dest(w) = f /\ f \in FT
      /\ meta[f].state = "WORK_IN_PROGRESS"
  BY <1>1, <1>2, WriteKnown DEF Steady
<1>5. th'[w].pc \notin LoopPCs \cup {"unhash"}
  BY <1>3, PcSets2
<1>6. \A ft \in FT : ft # f => links'[ft] = links[ft]
  BY <1>2, <1>4 DEF WithLink, WithoutLink, Steady, Inv, TypeOK
<1> QED  BY <1>2, <1>3, <1>4, <1>5, <1>6, IndexedLinks

LEMMA TagIndexed ==
  ASSUME Orderly, Steady, Steady', [Next]_vars, Indexed, NEW w \in Workers,
         TagExists(w) \/ TagNoSpace(w) \/ TagCloned(w) \/ TagCloneFails(w)
  PROVE  Indexed'
<1>1. CASE TagExists(w) \/ TagNoSpace(w)
  <2>1. /\ th[w].pc \in Between /\ UNCHANGED <<meta, links, hashIndex>>
        /\ th' = [th EXCEPT ![w] = IdleThread]
    BY <1>1, PcSets DEF TagExists, TagNoSpace, TagRejected, Loaded, Begins
  <2> QED  BY <2>1, BetweenQuiet, IndexedEnds
<1>2. CASE TagCloned(w) \/ TagCloneFails(w)
  <2>1. th[w].pc = "clone" /\ UNCHANGED <<meta, links, hashIndex>>
    BY <1>2 DEF TagCloned, TagCloneFails, At, disk
  <2>2. Op(w) \notin {"COMMIT", "DELETE"}
    BY <2>1, TagKnown DEF Steady
  <2>3. CASE TagCloned(w)
    <3>1. Moves(w, {"open"})
      BY <2>3, GotoMoves DEF TagCloned, Steady
    <3> QED  BY <2>1, <2>2, <3>1, IndexedMoves
  <2>4. CASE TagCloneFails(w)
    BY <2>1, <2>2, <2>4, IndexedEnds DEF TagCloneFails, Finish
  <2> QED  BY <1>2, <2>3, <2>4
<1> QED  BY <1>1, <1>2

LEMMA CloneIndexed ==
  ASSUME Orderly, Steady, Steady', [Next]_vars, Indexed, NEW w \in Workers,
         TagClone(w) \/ WriteClone(w)
  PROVE  Indexed'
<1>1. PICK b \in Blocks, l \in {"link", "redirect"} :
        th' = [th EXCEPT ![w].pc = l, ![w].new = b]
  BY DEF TagClone, WriteClone
<1>2. UNCHANGED <<meta, links, hashIndex>> /\ th[w].pc \in {"clone", "cow"}
  BY DEF TagClone, WriteClone, At
<1>3. OnlyMoves(w) /\ th'[w].req = th[w].req
  <2>1. th \in [Workers -> Thread]
    BY DEF Steady, Inv, TypeOK
  <2>2. th'[w] = [th[w] EXCEPT !.pc = l, !.new = b] /\ OnlyMoves(w)
    BY <1>1, <2>1 DEF OnlyMoves
  <2> QED  BY <2>1, <2>2 DEF Thread
<1>4. Op(w) \notin {"COMMIT", "DELETE"}
  BY <1>2, Parts DEF Asked, Steady
<1> QED  BY <1>2, <1>3, <1>4, IndexedPlain

LEMMA WriteIndexed ==
  ASSUME Orderly, Steady, Steady', [Next]_vars, Indexed, NEW w \in Workers,
         \/ WriteLocate(w) \/ WriteCommited(w) \/ WriteOverflow(w) \/ WriteLoad(w)
         \/ WriteEnter(w) \/ WriteInPlace(w) \/ WriteCloneFails(w)
  PROVE  Indexed'
<1>1. th[w].pc \in {"locate", "load", "enter", "inplace", "cow"}
  BY DEF WriteLocate, WriteCommited, WriteOverflow, WriteLoad, WriteEnter, WriteInPlace,
         WriteCloneFails, At
<1>2. Op(w) = "WRITE"
  BY <1>1, Parts DEF Asked, Steady
<1>3. ASSUME NEW code, Reject(w, code)
      PROVE  Indexed'
  <2>1. UNCHANGED <<meta, links, hashIndex>> /\ th' = [th EXCEPT ![w] = IdleThread]
    BY <1>3 DEF Reject, disk
  <2> QED  BY <1>2, <2>1, IndexedEnds
<1>4. ASSUME NEW l, Goto(w, l), UNCHANGED <<meta, links, hashIndex>>
      PROVE  Indexed'
  <2>1. Moves(w, {l})
    BY <1>4, GotoMoves DEF Steady
  <2> QED  BY <1>2, <1>4, <2>1, IndexedMoves
<1>5. CASE WriteLoad(w)
  <2>1. UNCHANGED <<meta, links, hashIndex>>
    BY <1>5 DEF WriteLoad, disk
  <2>2. Moves(w, {"enter"})
    BY <1>5 DEF WriteLoad, Moves, OnlyMoves, Steady, Inv, TypeOK, Thread
  <2> QED  BY <1>2, <2>1, <2>2, IndexedMoves
<1>6. CASE WriteCloneFails(w)
  <2>1. UNCHANGED <<meta, links, hashIndex>> /\ th' = [th EXCEPT ![w] = IdleThread]
    BY <1>6 DEF WriteCloneFails, Finish, disk
  <2> QED  BY <1>2, <2>1, IndexedEnds
<1>7. CASE WriteLocate(w)
  BY <1>3, <1>4, <1>7 DEF WriteLocate, disk
<1>8. CASE WriteEnter(w)
  BY <1>3, <1>4, <1>8 DEF WriteEnter, disk
<1>9. CASE WriteCommited(w) \/ WriteOverflow(w)
  BY <1>3, <1>9 DEF WriteCommited, WriteOverflow
<1>10. CASE WriteInPlace(w)
  BY <1>4, <1>10 DEF WriteInPlace
<1> QED  BY <1>5, <1>6, <1>7, <1>8, <1>9, <1>10

LEMMA MetadataIndexed ==
  ASSUME Orderly, Steady, Steady', [Next]_vars, Indexed, NEW w \in Workers,
         MakeDirectory(w) \/ OpenMetadata(w) \/ SaveMetadata(w)
  PROVE  Indexed'
<1>1. /\ th[w].pc \in {"mkdir", "open", "close"} /\ UNCHANGED <<links, hashIndex>>
  BY DEF MakeDirectory, OpenMetadata, SaveMetadata, At, disk
<1>2. Op(w) \in {"CREATE", "TRUNCATE", "TAG", "WRITE"}
  BY <1>1, Parts DEF Asked, Steady
<1>3. CASE MakeDirectory(w) \/ OpenMetadata(w)
  <2>1. UNCHANGED meta
    BY <1>3 DEF MakeDirectory, OpenMetadata, disk
  <2>2. Moves(w, {"clone", "open", "close"})
    BY <1>3, GotoMoves DEF MakeDirectory, OpenMetadata, Moves, Steady
  <2> QED  BY <1>1, <1>2, <2>1, <2>2, IndexedMoves
<1>4. CASE SaveMetadata(w)
  <2>1. th' = [th EXCEPT ![w] = IdleThread]
    BY <1>4 DEF SaveMetadata, Finish
  <2>2. th'[w] = IdleThread /\ OnlyMoves(w)
    BY <2>1 DEF Steady, Inv, TypeOK, OnlyMoves
  <2>3. th'[w].pc \notin LoopPCs \cup {"unhash"}
    BY <2>2, PcSets2 DEF IdleThread
  <2>4. \A ft \in FT : meta'[ft].state = meta[ft].state \/ meta'[ft].state # "COMMITED"
    BY <1>4 DEF SaveMetadata, Steady, Inv, TypeOK
  <2> QED  BY <1>1, <1>2, <2>2, <2>3, <2>4, IndexedElsewhere
<1> QED  BY <1>3, <1>4

LEMMA RemoveDirectoryIndexed ==
  ASSUME Orderly, Steady, Steady', [Next]_vars, Indexed, NEW w \in Workers,
         RemoveDirectory(w)
  PROVE  Indexed'
<1>1. PICK f : f = Ft(w)
  OBVIOUS
<1>2. /\ th[w].pc = "rmdir" /\ UNCHANGED hashIndex /\ meta' = [meta EXCEPT ![f] = NoMeta]
      /\ links' = [links EXCEPT ![f] = [i \in 1 .. MaxLogical |-> NoBlock]]
      /\ th' = [th EXCEPT ![w] = IdleThread]
  BY <1>1 DEF RemoveDirectory, At, Finish
<1>3. Works(w) /\ Op(w) = "DELETE" /\ f \in FT
  BY <1>1, <1>2, Parts, Typed, PcSets2 DEF Works, Asked, Steady
<1>4. /\ meta'[f] = NoMeta
      /\ \A ft \in FT : ft # f => meta'[ft] = meta[ft] /\ links'[ft] = links[ft]
  BY <1>2, <1>3 DEF Steady, Inv, TypeOK
<1>5. th'[w] = IdleThread /\ OnlyMoves(w)
  BY <1>2 DEF Steady, Inv, TypeOK, OnlyMoves
<1>6. th'[w].pc \notin LoopPCs \cup {"unhash"}
  BY <1>5, PcSets2 DEF IdleThread
<1>7. meta'[f].state # "COMMITED"
  BY <1>4 DEF NoMeta
<1> QED  BY <1>2, <1>3, <1>4, <1>5, <1>6, <1>7, IndexedElsewhere

LEMMA DeleteStartIndexed ==
  ASSUME Orderly, Steady, Steady', [Next]_vars, Indexed, NEW w \in Workers, DeleteStart(w)
  PROVE  Indexed'
<1>1. PICK l \in {"rmdir", "unlink"} :
        th' = [th EXCEPT ![w].pc = l, ![w].blocks = meta[Ft(w)].blocks, ![w].i = 1]
  BY DEF DeleteStart
<1>2. UNCHANGED <<meta, links, hashIndex>> /\ Op(w) = "DELETE"
  BY DEF DeleteStart, Loaded, Begins, disk
<1>3. OnlyMoves(w) /\ th'[w].pc = l
  BY <1>1, Typed DEF OnlyMoves, Steady, Inv, TypeOK, Thread
<1>4. th'[w].pc \notin LoopPCs \cup {"unhash"}
  BY <1>3, PcSets2
<1> QED  BY <1>2, <1>3, <1>4, IndexedElsewhere

LEMMA StatIndexed ==
  ASSUME Orderly, Steady, Steady', [Next]_vars, Indexed, NEW w \in Workers,
         Stat(w) \/ (Free(w) /\ Op(w) # "DELETE")
  PROVE  Indexed'
<1>1. /\ UNCHANGED <<meta, links, hashIndex>> /\ th[w].pc \in {"stat", "free"}
      /\ Goto(w, "free") \/ NextDrop(w)
  BY DEF Stat, Free, At, disk
<1>2. Moves(w, {"free", "unlink", "rmdir", "open"})
  BY <1>1, GotoMoves, NextDropMoves DEF Moves, Steady
<1>3. Op(w) # "COMMIT"
  BY <1>1, Parts DEF Asked, Steady
<1>4. OnlyMoves(w) /\ th'[w].pc \notin LoopPCs \cup {"unhash"}
  BY <1>2, PcSets2 DEF Moves
<1> QED  BY <1>1, <1>3, <1>4, IndexedElsewhere

(* The block has just been freed: nothing is linked to it. *)
LEMMA FreeIndexed ==
  ASSUME Orderly, Steady, Steady', [Next]_vars, Indexed, NEW w \in Workers,
         Free(w), Op(w) = "DELETE"
  PROVE  Indexed'
<1>1. /\ th[w].pc = "free" /\ UNCHANGED <<meta, links, hashIndex>> /\ Goto(w, "unhash")
  BY DEF Free, At
<1>2. OnlyMoves(w) /\ th'[w] = [th[w] EXCEPT !.pc = "unhash"] /\ th'[w].pc = "unhash"
      /\ th'[w].blocks = th[w].blocks /\ th'[w].i = th[w].i
  BY <1>1, GotoFacts DEF Steady
<1>3. PICK b : b = th[w].blocks[th[w].i]
  OBVIOUS
<1>4. InHand(w, b)
  BY <1>1, <1>3 DEF InHand
<1>5. Nowhere(b)
  <2>1. b \in Blocks
    BY <1>4, HandsTyped DEF Steady
  <2> QED  BY <1>1, <1>4, <2>1, FreedNotZero DEF Steady
<1>6. \A ft \in FT : \A j \in 1 .. MaxLogical : links[ft][j] # th'[w].blocks[th'[w].i]
  BY <1>2, <1>3, <1>5 DEF Nowhere
<1>7. ASSUME NEW ft \in FT, NEW j \in 1 .. MaxLogical, Kept(ft, j)'
      PROVE  Kept(ft, j) /\ links'[ft][j] = links[ft][j]
  BY <1>1, <1>2, <1>7, KeptBefore
<1>8. th'[w].pc \notin LoopPCs
  BY <1>2, PcSets2
<1> QED  BY <1>1, <1>2, <1>6, <1>7, <1>8, IndexedStays

(* The one who commits is the only one to commit, delete and free hashes. *)
LEMMA CommitsAlone ==
  ASSUME OneIndexer, Steady, NEW w \in Workers, Works(w), Op(w) = "COMMIT",
         NEW v \in Workers, v # w
  PROVE  /\ th[v].pc \notin LoopPCs \cup {"unhash"}
         /\ ~(Works(v) /\ Op(v) = "COMMIT")
<1>1. Asked(w) /\ Asked(v)
  BY Parts DEF Steady
<1>2. th[w].pc # "idle" /\ th[w].req \in Requests[w] /\ th[w].req.op = "COMMIT"
  BY <1>1, PcSets2 DEF Asked, Works, Op
<1>3. th[v].pc # "idle" => th[v].req.op \notin {"COMMIT", "DELETE"}
  BY <1>1, <1>2 DEF Asked, OneIndexer
<1> QED  BY <1>1, <1>3, PcSets2 DEF Asked, Works, Op

LEMMA UnhashIndexed ==
  ASSUME Orderly, OneIndexer, Steady, Steady', [Next]_vars, Indexed, NEW w \in Workers,
         Unhash(w)
  PROVE  Indexed'
<1>1. PICK b : b = th[w].blocks[th[w].i]
  OBVIOUS
<1>2. /\ th[w].pc = "unhash" /\ UNCHANGED <<meta, links, content>> /\ NextDrop(w)
      /\ \A d \in Data : hashIndex'[d] = hashIndex[d] \/ hashIndex[d] = b
  BY <1>1 DEF Unhash, HashesOf, At, Steady, Inv, TypeOK
<1>3. OnlyMoves(w) /\ th'[w].pc \notin LoopPCs \cup {"unhash"}
  BY <1>2, NextDropMoves, PcSets2 DEF Moves, Steady
<1>4. Works(w) /\ Op(w) = "DELETE"
  BY <1>2, Parts, PcSets2 DEF Asked, Works, Steady
<1>5. ASSUME NEW v \in Workers, th[v].pc \in LoopPCs
      PROVE  FALSE
  <2>1. Works(v) /\ Op(v) = "COMMIT"
    BY <1>5, Parts, PcSets2 DEF Asked, Works, Steady
  <2>2. v # w
    BY <1>4, <2>1
  <2> QED  BY <1>2, <2>1, <2>2, CommitsAlone
<1>6. \A v \in Workers : v # w => th'[v] = th[v]
  BY <1>3 DEF OnlyMoves, Steady, Inv, TypeOK
<1>7. ASSUME NEW ft \in FT, NEW j \in 1 .. MaxLogical, Kept(ft, j)'
      PROVE  /\ Kept(ft, j) /\ links'[ft][j] = links[ft][j]
             /\ content'[links'[ft][j]] = content[links[ft][j]]
  <2>1. Kept(ft, j)
    BY <1>2, <1>3, <1>4, <1>7, KeptBefore
  <2> QED  BY <1>2, <2>1
<1>8. ASSUME NEW ft \in FT, NEW j \in 1 .. MaxLogical, Kept(ft, j)'
      PROVE  hashIndex'[content'[links'[ft][j]]] = links'[ft][j]
  <2>1. PICK c, d : c = links[ft][j] /\ d = content[c]
    OBVIOUS
  <2>2. Kept(ft, j) /\ links'[ft][j] = c /\ content'[links'[ft][j]] = d
    BY <1>7, <1>8, <2>1
  <2>3. hashIndex[d] = c /\ c # b
    BY <1>1, <1>2, <2>1, <2>2 DEF Indexed
  <2>4. d \in Data
    BY <2>1, <2>2 DEF Kept, Steady, BlockInv, VolumeInv, LinkedWritten
  <2> QED  BY <1>2, <2>2, <2>3, <2>4
<1>9. ASSUME NEW v \in Workers, th'[v].pc = "unhash",
             NEW ft \in FT, NEW j \in 1 .. MaxLogical, Kept(ft, j)'
      PROVE  links'[ft][j] # th'[v].blocks[th'[v].i]
  <2>1. Kept(ft, j) /\ links'[ft][j] = links[ft][j]
    BY <1>7, <1>9
  <2> QED  BY <1>3, <1>6, <1>9, <2>1 DEF Indexed
<1>10. \A v \in Workers : th'[v].pc \notin LoopPCs
  BY <1>3, <1>5, <1>6
<1> QED  BY <1>8, <1>9, <1>10 DEF Indexed

LEMMA CommitStartIndexed ==
  ASSUME Orderly, OneIndexer, Steady, Steady', [Next]_vars, Indexed, NEW w \in Workers,
         CommitStart(w)
  PROVE  Indexed'
<1>1. PICK f, s, n : f = Ft(w) /\ s = meta[f].blocks /\ n = meta[f].size
  OBVIOUS
<1>2. /\ th[w].pc = "start" /\ Op(w) = "COMMIT" /\ f \in FT
      /\ meta' = [meta EXCEPT ![f].state = "COMMITED"] /\ UNCHANGED <<links, hashIndex>>
      /\ th' = [th EXCEPT ![w].pc = "index", ![w].blocks = s, ![w].size = n, ![w].i = 1]
  BY <1>1, Typed DEF CommitStart, Loaded, Begins, Steady
<1>3. OnlyMoves(w) /\ th'[w].req = th[w].req /\ th'[w].pc = "index" /\ th'[w].i = 1
  BY <1>2, Typed DEF OnlyMoves, Steady, Inv, TypeOK, Thread
<1>4. th'[w].pc \notin LoopPCs \cup {"unhash"} \cup Relinked /\ th'[w].pc \in LockedPCs /\ ~Works(w)
  BY <1>2, <1>3, PcSets2 DEF Works
<1>5. \A ft \in FT : ft # f => meta'[ft] = meta[ft]
  BY <1>2 DEF Steady, Inv, TypeOK
<1>6. ASSUME NEW ft \in FT, NEW j \in 1 .. MaxLogical, Kept(ft, j)'
      PROVE  Kept(ft, j) /\ links'[ft][j] = links[ft][j]
  <2>1. CASE ft = f
    <3>1. th'[w].req.op = "COMMIT" /\ th'[w].req.ft = f
      BY <1>1, <1>2, <1>3 DEF Op, Ft
    <3>2. j < th'[w].i \/ (j = th'[w].i /\ th'[w].pc \in Relinked)
      BY <1>4, <1>6, <2>1, <3>1 DEF Kept, Settled, Works, Op, Ft
    <3> QED  BY <1>3, <1>4, <3>2
  <2>2. CASE ft # f
    BY <1>2, <1>3, <1>4, <1>5, <1>6, <2>2, KeptBefore
  <2> QED  BY <2>1, <2>2
<1> QED  BY <1>2, <1>3, <1>4, <1>6, IndexedStays

(* A step of the loop of a COMMIT: only the logical block with which it is    *)
(* done now is new to what it keeps.                                          *)
Done(w, j) == j < th[w].i \/ (j = th[w].i /\ th[w].pc \in Relinked)

LEMMA CommitIndexed ==
  ASSUME Orderly, OneIndexer, Steady, Steady', [Next]_vars, Indexed, NEW w \in Workers,
         th[w].pc \in {"index"} \cup LoopPCs, OnlyMoves(w),
         th'[w].pc \in LoopPCs \cup {"idle"},
         th'[w].pc \in LoopPCs => th'[w].bhi = hashIndex',
         \A ft \in FT : ft # Ft(w) => links'[ft] = links[ft],
         \A ft \in FT : meta'[ft].state = meta[ft].state,
         \A j \in 1 .. MaxLogical : Done(w, j) => links'[Ft(w)][j] = links[Ft(w)][j],
         \A ft \in FT : \A j \in 1 .. MaxLogical :
           Kept(ft, j)' /\ ft = Ft(w) /\ ~Done(w, j) =>
             hashIndex'[content'[links'[ft][j]]] = links'[ft][j],
         \A d \in Data : hashIndex[d] # NoBlock => hashIndex'[d] = hashIndex[d]
  PROVE  Indexed'
<1>1. Works(w) /\ Op(w) = "COMMIT" /\ Ft(w) \in FT /\ Ft(w) # Base
  BY CommitKnown DEF Steady
<1>2. \A v \in Workers : v # w => th'[v] = th[v]
  BY DEF OnlyMoves, Steady, Inv, TypeOK
<1>3. \A v \in Workers : v # w => th[v].pc \notin LoopPCs \cup {"unhash"}
                                  /\ ~(Works(v) /\ Op(v) = "COMMIT")
  BY <1>1, CommitsAlone
<1>4. \A v \in Workers : th'[v].pc \in LoopPCs => th'[v].bhi = hashIndex'
  BY <1>2, <1>3
<1>5. \A v \in Workers : th'[v].pc # "unhash"
  BY <1>2, <1>3, PcSets2
<1>6. ASSUME NEW ft \in FT, NEW j \in 1 .. MaxLogical, Kept(ft, j)', ft # Ft(w) \/ Done(w, j)
      PROVE  hashIndex'[content'[links'[ft][j]]] = links'[ft][j]
  <2>1. links'[ft][j] = links[ft][j]
    BY <1>6
  <2>2. Kept(ft, j)
    <3>1. CASE ft # Ft(w)
      BY <1>6, <3>1, KeptBefore
    <3>2. CASE ft = Ft(w)
      <4>1. /\ meta'[ft].state = "COMMITED" /\ ~Deleting(ft)' /\ links'[ft][j] # NoBlock
            /\ ft # Base
        BY <1>6 DEF Kept, Settled
      <4>2. ~Deleting(ft)
        BY <4>1, CommittedStep
      <4>3. Settled(ft, j)
        BY <1>3, <1>6, <3>2, <4>1 DEF Settled, Done
      <4> QED  BY <2>1, <4>1, <4>2, <4>3 DEF Kept
    <3> QED  BY <3>1, <3>2
  <2>3. PICK c, d : c = links[ft][j] /\ d = content[c]
    OBVIOUS
  <2>4. content'[links'[ft][j]] = d
    BY <1>6, <2>1, <2>2, <2>3, KeptSeen
  <2>5. hashIndex[d] = c /\ c # NoBlock
    BY <2>2, <2>3 DEF Indexed, Kept
  <2>6. d \in Data
    BY <2>3, <2>5 DEF Steady, BlockInv, VolumeInv, LinkedWritten
  <2> QED  BY <2>1, <2>3, <2>4, <2>5, <2>6
<1>7. \A ft \in FT : \A j \in 1 .. MaxLogical :
        Kept(ft, j)' => hashIndex'[content'[links'[ft][j]]] = links'[ft][j]
  <2> SUFFICES ASSUME NEW ft \in FT, NEW j \in 1 .. MaxLogical, Kept(ft, j)'
               PROVE  hashIndex'[content'[links'[ft][j]]] = links'[ft][j]
    OBVIOUS
  <2>1. CASE ft # Ft(w) \/ Done(w, j)
    BY <1>6, <2>1
  <2>2. ASSUME ft = Ft(w), ~Done(w, j)
        PROVE  hashIndex'[content'[links'[ft][j]]] = links'[ft][j]
    BY <2>2
  <2> QED  BY <2>1, <2>2
<1> QED  BY <1>4, <1>5, <1>7 DEF Indexed

(* The rounds that change neither the index, nor what is linked. *)
LEMMA RoundIndexed ==
  ASSUME Orderly, OneIndexer, Steady, Steady', [Next]_vars, Indexed, NEW w \in Workers,
         th[w].pc \in {"index"} \cup LoopPCs, OnlyMoves(w),
         th'[w].pc \in LoopPCs \cup {"idle"},
         th'[w].pc \in LoopPCs => th'[w].bhi = hashIndex,
         UNCHANGED <<links, hashIndex>>,
         \A ft \in FT : meta'[ft].state = meta[ft].state,
         \A ft \in FT : \A j \in 1 .. MaxLogical :
           Kept(ft, j)' /\ ft = Ft(w) => Done(w, j)
  PROVE  Indexed'
  BY CommitIndexed

(* With what the handler of w is done after its step. *)
LEMMA DoneNext ==
  ASSUME NEW w \in Workers, Works(w)', th'[w].req = th[w].req, Op(w) = "COMMIT",
         NEW ft, ft = Ft(w), NEW j, Kept(ft, j)'
  PROVE  j < th'[w].i \/ (j = th'[w].i /\ th'[w].pc \in Relinked)
<1>1. Op(w)' = "COMMIT" /\ Ft(w)' = ft
  BY DEF Op, Ft
<1> QED  BY <1>1 DEF Kept, Settled

LEMMA CopyIsIndex ==
  ASSUME Indexed, NEW w \in Workers, th[w].pc \in LoopPCs
  PROVE  th[w].bhi = hashIndex
  BY DEF Indexed

LEMMA LoadIndexIndexed ==
  ASSUME Orderly, OneIndexer, Steady, Steady', [Next]_vars, Indexed, NEW w \in Workers,
         LoadIndex(w)
  PROVE  Indexed'
<1>1. /\ th[w].pc = "index" /\ UNCHANGED <<meta, links, hashIndex>>
      /\ th' = [th EXCEPT ![w].pc = "hash", ![w].bhi = hashIndex]
  BY DEF LoadIndex, At, disk
<1>2. /\ OnlyMoves(w) /\ th'[w].pc = "hash" /\ th'[w].req = th[w].req
      /\ th'[w].i = th[w].i /\ th'[w].bhi = hashIndex
  <2>1. OnlyMoves(w) /\ th'[w] = [th[w] EXCEPT !.pc = "hash", !.bhi = hashIndex]
    BY <1>1 DEF OnlyMoves, Steady, Inv, TypeOK
  <2> QED  BY <2>1, Typed DEF Thread, Steady
<1>3. /\ Op(w) = "COMMIT" /\ th'[w].pc \in LoopPCs /\ th'[w].pc \notin Relinked /\ Works(w)'
  BY <1>1, <1>2, CommitKnown, PcSets2 DEF Works, Steady
<1>4. \A ft \in FT : \A j \in 1 .. MaxLogical : Kept(ft, j)' /\ ft = Ft(w) => Done(w, j)
  BY <1>2, <1>3, DoneNext DEF Done
<1> QED  BY <1>1, <1>2, <1>3, <1>4, RoundIndexed

(* Goes on with the same logical block, or with the next after one that is    *)
(* settled already or that is not linked.                                     *)
LEMMA OnwardIndexed ==
  ASSUME Orderly, OneIndexer, Steady, Steady', [Next]_vars, Indexed, NEW w \in Workers,
         th[w].pc \in LoopPCs, OnlyMoves(w), th'[w].req = th[w].req, th'[w].bhi = th[w].bhi,
         th'[w].pc \in LoopPCs, UNCHANGED <<links, hashIndex>>,
         \A ft \in FT : meta'[ft].state = meta[ft].state,
         \/ th'[w].i = th[w].i /\ (th'[w].pc \in Relinked => th[w].pc \in Relinked)
         \/ /\ th'[w].i = th[w].i + 1 /\ th'[w].pc \notin Relinked
            /\ th[w].pc \in Relinked \/ links[Ft(w)][th[w].i] = NoBlock
  PROVE  Indexed'
<1>1. Op(w) = "COMMIT" /\ Works(w)' /\ th[w].i \in Nat
  BY CommitKnown, PcSets2 DEF Works, Steady
<1>2. th[w].bhi = hashIndex
  BY CopyIsIndex
<1>3. ASSUME NEW ft \in FT, NEW j \in 1 .. MaxLogical, Kept(ft, j)', ft = Ft(w)
      PROVE  Done(w, j)
  <2>1. j < th'[w].i \/ (j = th'[w].i /\ th'[w].pc \in Relinked)
    BY <1>1, <1>3, DoneNext
  <2>2. links[Ft(w)][j] # NoBlock
    BY <1>3 DEF Kept
  <2>3. j \in Int
    OBVIOUS
  <2> QED  BY <1>1, <2>1, <2>2, <2>3 DEF Done
<1> QED  BY <1>2, <1>3, RoundIndexed

LEMMA HashBlockIndexed ==
  ASSUME Orderly, OneIndexer, Steady, Steady', [Next]_vars, Indexed, NEW w \in Workers,
         HashBlock(w)
  PROVE  Indexed'
<1>1. PICK i, b : i = th[w].i /\ b = links[Ft(w)][i]
  OBVIOUS
<1>2. /\ th[w].pc = "hash" /\ UNCHANGED <<meta, links, hashIndex>>
      /\ IF b = NoBlock THEN NextCommit(w)
         ELSE \E d \in BufferOf(b) : th' = [th EXCEPT ![w].pc = "lookup", ![w].hash = d]
  BY <1>1 DEF HashBlock, At, disk
<1>3. CASE b = NoBlock
  <2>1. NextCommit(w)
    BY <1>2, <1>3
  <2>2. /\ OnlyMoves(w) /\ th'[w].pc = "hash" /\ th'[w].req = th[w].req
        /\ th'[w].i = th[w].i + 1 /\ th'[w].bhi = th[w].bhi
    BY <2>1, NextCommitFacts DEF Steady
  <2> QED  BY <1>1, <1>2, <1>3, <2>2, PcSets2, OnwardIndexed
<1>4. CASE b # NoBlock
  <2>1. PICK d \in BufferOf(b) : th' = [th EXCEPT ![w].pc = "lookup", ![w].hash = d]
    BY <1>2, <1>4
  <2>2. /\ OnlyMoves(w) /\ th'[w].pc = "lookup" /\ th'[w].req = th[w].req
        /\ th'[w].i = i /\ th'[w].bhi = th[w].bhi
    <3>1. OnlyMoves(w) /\ th'[w] = [th[w] EXCEPT !.pc = "lookup", !.hash = d]
      BY <2>1 DEF OnlyMoves, Steady, Inv, TypeOK
    <3> QED  BY <1>1, <3>1, Typed DEF Thread, Steady
  <2> QED  BY <1>1, <1>2, <2>2, PcSets2, OnwardIndexed
<1> QED  BY <1>3, <1>4

LEMMA RelinkedIndexed ==
  ASSUME Orderly, OneIndexer, Steady, Steady', [Next]_vars, Indexed, NEW w \in Workers,
         CommitFound(w) \/ CommitStat(w) \/ CommitFree(w)
  PROVE  Indexed'
<1>1. PICK l \in {"relink", "refree", "save"} :
        Goto(w, l) /\ (l # "relink" => th[w].pc \in {"restat", "refree"})
  BY DEF CommitFound, CommitStat, CommitFree, At
<1>2. UNCHANGED <<meta, links, hashIndex>> /\ th[w].pc \in {"lookup", "restat", "refree"}
  BY DEF CommitFound, CommitStat, CommitFree, At, disk
<1>3. /\ OnlyMoves(w) /\ th'[w].pc = l /\ th'[w].req = th[w].req
      /\ th'[w].i = th[w].i /\ th'[w].bhi = th[w].bhi
  BY <1>1, GotoFacts DEF Steady
<1>4. /\ th[w].pc \in LoopPCs /\ th'[w].pc \in LoopPCs
      /\ th'[w].pc \in Relinked => th[w].pc \in Relinked
  BY <1>1, <1>2, <1>3, PcSets2
<1> QED  BY <1>2, <1>3, <1>4, OnwardIndexed

LEMMA CommitSaveIndexed ==
  ASSUME Orderly, OneIndexer, Steady, Steady', [Next]_vars, Indexed, NEW w \in Workers,
         CommitSave(w)
  PROVE  Indexed'
<1>1. th[w].pc = "save" /\ UNCHANGED <<links, hashIndex>> /\ th[w].pc \in LoopPCs
  BY PcSets2 DEF CommitSave, At
<1>2. Ft(w) \in FT /\ Ft(w) \in dirs /\ meta[Ft(w)].state = "COMMITED"
  BY <1>1, CommitKnown DEF Steady
<1>3. PICK s : s = ReplaceAt(th[w].blocks, th[w].i, Existing(w))
  OBVIOUS
<1>4. /\ meta' = [meta EXCEPT ![Ft(w)] = [state |-> "COMMITED", size |-> th[w].size,
                                          blocks |-> s]]
      /\ th' = [th EXCEPT ![w].blocks = s, ![w].pc = "hash", ![w].i = th[w].i + 1,
                          ![w].hash = NoData]
  BY <1>2, <1>3 DEF CommitSave
<1>5. /\ OnlyMoves(w) /\ th'[w].req = th[w].req /\ th'[w].pc = "hash"
      /\ th'[w].i = th[w].i + 1 /\ th'[w].bhi = th[w].bhi
  <2>1. PICK k : k = th[w].i + 1
    OBVIOUS
  <2>2. OnlyMoves(w) /\ th'[w] = [th[w] EXCEPT !.blocks = s, !.pc = "hash", !.i = k,
                                               !.hash = NoData]
    BY <1>4, <2>1 DEF OnlyMoves, Steady, Inv, TypeOK
  <2> QED  BY <2>1, <2>2, Typed DEF Thread, Steady
<1>6. \A ft \in FT : meta'[ft].state = meta[ft].state
  BY <1>2, <1>4 DEF Steady, Inv, TypeOK
<1>7. th'[w].pc \in LoopPCs /\ th'[w].pc \notin Relinked /\ th[w].pc \in Relinked
  BY <1>1, <1>5, PcSets2
<1> QED  BY <1>1, <1>5, <1>6, <1>7, OnwardIndexed

LEMMA CommitEndIndexed ==
  ASSUME Orderly, OneIndexer, Steady, Steady', [Next]_vars, Indexed, NEW w \in Workers,
         CommitEnd(w)
  PROVE  Indexed'
<1>1. /\ th[w].pc = "hash" /\ th[w].i > Len(th[w].blocks)
      /\ UNCHANGED <<meta, links, hashIndex>> /\ th' = [th EXCEPT ![w] = IdleThread]
  BY DEF CommitEnd, At, Finish, disk
<1>2. th'[w].pc = "idle" /\ OnlyMoves(w)
  BY <1>1 DEF IdleThread, OnlyMoves, Steady, Inv, TypeOK
<1>3. /\ th[w].pc \in LoopPCs /\ th'[w].pc \notin LoopPCs /\ Len(th[w].blocks) \in Nat
      /\ th[w].i \in Nat /\ th[w].blocks \in Seq(Blocks)
      /\ \A j \in 1 .. MaxLogical : links[Ft(w)][j] = Entry(th[w].blocks, j)
  BY <1>1, <1>2, CommitKnown, PcSets2 DEF Steady
<1>4. ASSUME NEW ft \in FT, NEW j \in 1 .. MaxLogical, Kept(ft, j)', ft = Ft(w)
      PROVE  Done(w, j)
  <2>1. links[ft][j] # NoBlock
    BY <1>1, <1>4 DEF Kept
  <2>2. j \in DOMAIN th[w].blocks
    BY <1>3, <1>4, <2>1 DEF Entry
  <2>3. j <= Len(th[w].blocks) /\ j \in Int
    BY <1>3, <2>2
  <2> QED  BY <1>1, <1>3, <2>3 DEF Done
<1> QED  BY <1>1, <1>2, <1>3, <1>4, RoundIndexed

LEMMA CommitSameIndexed ==
  ASSUME Orderly, OneIndexer, Steady, Steady', [Next]_vars, Indexed, NEW w \in Workers,
         CommitSame(w)
  PROVE  Indexed'
<1>1. PICK i, b, d : i = th[w].i /\ b = Current(w) /\ d = th[w].hash
  OBVIOUS
<1>2. /\ th[w].pc = "lookup" /\ UNCHANGED <<meta, links, hashIndex, content>>
      /\ Existing(w) = b /\ NextCommit(w)
  BY <1>1 DEF CommitSame, At, disk
<1>3. /\ OnlyMoves(w) /\ th'[w].pc = "hash" /\ th'[w].req = th[w].req
      /\ th'[w].i = i + 1 /\ th'[w].bhi = th[w].bhi
  BY <1>1, <1>2, NextCommitFacts DEF Steady
<1>4. /\ th[w].pc \in LoopPCs /\ th'[w].pc \in LoopPCs /\ th'[w].pc \notin Relinked
      /\ Op(w) = "COMMIT" /\ Works(w)' /\ i \in 1 .. MaxLogical
  BY <1>1, <1>2, <1>3, CommitKnown, PcSets2 DEF Works, Steady
<1>5. links[Ft(w)][i] = b /\ content[b] = d /\ th[w].bhi[d] = b /\ th[w].bhi = hashIndex
  BY <1>1, <1>2, <1>4, CurrentAlone, Parts, CopyIsIndex DEF HashKnown, Existing, Steady
<1>6. ASSUME NEW ft \in FT, NEW j \in 1 .. MaxLogical, Kept(ft, j)', ft = Ft(w), ~Done(w, j)
      PROVE  hashIndex'[content'[links'[ft][j]]] = links'[ft][j]
  <2>1. j < i + 1 /\ j \in Int
    BY <1>3, <1>4, <1>6, DoneNext
  <2>2. j = i
    BY <1>1, <1>4, <1>6, <2>1 DEF Done
  <2> QED  BY <1>2, <1>5, <1>6, <2>2
<1>7. \A ft \in FT : \A j \in 1 .. MaxLogical :
        Kept(ft, j)' /\ ft = Ft(w) /\ ~Done(w, j) =>
          hashIndex'[content'[links'[ft][j]]] = links'[ft][j]
  BY <1>6
<1>8. th'[w].bhi = hashIndex'
  BY <1>2, <1>3, <1>5
<1> QED  BY <1>2, <1>3, <1>4, <1>7, <1>8, CommitIndexed

LEMMA CommitInsertIndexed ==
  ASSUME Orderly, OneIndexer, Steady, Steady', [Next]_vars, Indexed, NEW w \in Workers,
         CommitInsert(w)
  PROVE  Indexed'
<1>1. PICK i, b, d : i = th[w].i /\ b = Current(w) /\ d = th[w].hash
  OBVIOUS
<1>2. PICK h : h = [th[w].bhi EXCEPT ![d] = b]
  OBVIOUS
<1>3. /\ th[w].pc = "lookup" /\ hashIndex' = h /\ th[w].bhi[d] = NoBlock
      /\ th' = [th EXCEPT ![w].bhi = h, ![w].pc = "hash", ![w].i = i + 1, ![w].hash = NoData]
      /\ UNCHANGED <<meta, links, content>>
  BY <1>1, <1>2 DEF CommitInsert, Existing, At
<1>4. /\ OnlyMoves(w) /\ th'[w].pc = "hash" /\ th'[w].req = th[w].req
      /\ th'[w].i = i + 1 /\ th'[w].bhi = h
  <2>1. OnlyMoves(w) /\ th'[w] = [th[w] EXCEPT !.bhi = h, !.pc = "hash", !.i = i + 1,
                                               !.hash = NoData]
    BY <1>3 DEF OnlyMoves, Steady, Inv, TypeOK
  <2> QED  BY <2>1, Typed DEF Thread, Steady
<1>5. /\ th[w].pc \in LoopPCs /\ th'[w].pc \in LoopPCs /\ th'[w].pc \notin Relinked
      /\ Op(w) = "COMMIT" /\ Works(w)' /\ i \in 1 .. MaxLogical /\ d \in Data
  BY <1>1, <1>3, <1>4, CommitKnown, PcSets2 DEF Works, Steady
<1>6. links[Ft(w)][i] = b /\ content[b] = d /\ th[w].bhi = hashIndex
  BY <1>1, <1>3, <1>5, CurrentAlone, Parts, CopyIsIndex DEF HashKnown, Steady
<1>7. h[d] = b /\ \A e \in Data : e # d => h[e] = hashIndex[e]
  <2>1. th[w].bhi \in [Data -> Blocks \cup {NoBlock}]
    BY Typed DEF Thread, Steady
  <2> QED  BY <1>2, <1>5, <1>6, <2>1
<1>8. ASSUME NEW ft \in FT, NEW j \in 1 .. MaxLogical, Kept(ft, j)', ft = Ft(w), ~Done(w, j)
      PROVE  hashIndex'[content'[links'[ft][j]]] = links'[ft][j]
  <2>1. j < i + 1 /\ j \in Int
    BY <1>4, <1>5, <1>8, DoneNext
  <2>2. j = i
    BY <1>1, <1>5, <1>8, <2>1 DEF Done
  <2> QED  BY <1>3, <1>6, <1>7, <1>8, <2>2
<1>9. \A ft \in FT : \A j \in 1 .. MaxLogical :
        Kept(ft, j)' /\ ft = Ft(w) /\ ~Done(w, j) =>
          hashIndex'[content'[links'[ft][j]]] = links'[ft][j]
  BY <1>8
<1>10. \A e \in Data : hashIndex[e] # NoBlock => hashIndex'[e] = hashIndex[e]
  BY <1>3, <1>6, <1>7
<1>11. th'[w].bhi = hashIndex'
  BY <1>3, <1>4
<1> QED  BY <1>3, <1>4, <1>5, <1>9, <1>10, <1>11, CommitIndexed

LEMMA CommitRelinkIndexed ==
  ASSUME Orderly, OneIndexer, Steady, Steady', [Next]_vars, Indexed, NEW w \in Workers,
         CommitRelink(w)
  PROVE  Indexed'
<1>1. PICK i, f, x : i = th[w].i /\ f = Ft(w) /\ x = Existing(w)
  OBVIOUS
<1>2. /\ th[w].pc = "relink" /\ UNCHANGED <<meta, content, hashIndex>>
      /\ links' = WithLink(WithoutLink(links, f, i), f, i, x)
      /\ Goto(w, "restat")
  BY <1>1 DEF CommitRelink, At
<1>3. /\ OnlyMoves(w) /\ th'[w].pc = "restat" /\ th'[w].req = th[w].req
      /\ th'[w].i = i /\ th'[w].bhi = th[w].bhi
  BY <1>1, <1>2, GotoFacts DEF Steady
<1>4. /\ th[w].pc \in LoopPCs /\ th'[w].pc \in LoopPCs /\ th[w].pc \notin Relinked
      /\ Op(w) = "COMMIT" /\ Works(w)' /\ i \in 1 .. MaxLogical /\ f \in FT /\ f \in dirs
  BY <1>1, <1>2, <1>3, CommitKnown, PcSets2 DEF Works, Steady
<1>5. /\ links'[f][i] = x
      /\ \A j \in 1 .. MaxLogical : j # i => links'[f][j] = links[f][j]
      /\ \A ft \in FT : ft # f => links'[ft] = links[ft]
  BY <1>2, <1>4, LinkTable DEF WithLink, WithoutLink, Steady
<1>6. content[x] = th[w].hash /\ hashIndex[th[w].hash] = x /\ th[w].bhi = hashIndex
  BY <1>1, <1>2, <1>4, RelinkedTo, CopyIsIndex DEF Sound, Existing, Steady
<1>7. ASSUME NEW ft \in FT, NEW j \in 1 .. MaxLogical, Kept(ft, j)', ft = Ft(w), ~Done(w, j)
      PROVE  hashIndex'[content'[links'[ft][j]]] = links'[ft][j]
  <2>1. (j < i \/ j = i) /\ j \in Int
    BY <1>3, <1>4, <1>7, DoneNext
  <2>2. j = i
    BY <1>1, <1>7, <2>1 DEF Done
  <2>3. links'[ft][j] = x
    BY <1>1, <1>5, <1>7, <2>2
  <2> QED  BY <1>2, <1>6, <2>3
<1>8. \A ft \in FT : \A j \in 1 .. MaxLogical :
        Kept(ft, j)' /\ ft = Ft(w) /\ ~Done(w, j) =>
          hashIndex'[content'[links'[ft][j]]] = links'[ft][j]
  BY <1>7
<1>9. \A j \in 1 .. MaxLogical : Done(w, j) => links'[Ft(w)][j] = links[Ft(w)][j]
  <2>1. ~Done(w, i)
    BY <1>1, <1>4 DEF Done
  <2> QED  BY <1>1, <1>5, <2>1
<1>10. th'[w].bhi = hashIndex'
  BY <1>2, <1>3, <1>6
<1> QED  BY <1>1, <1>2, <1>3, <1>4, <1>5, <1>8, <1>9, <1>10, CommitIndexed

LEMMA IndexedStep ==
  ASSUME Orderly, OneIndexer, Steady, Steady', Indexed, [Next]_vars
  PROVE  Indexed'
<1>1. ASSUME NEW w \in Workers, Handle(w) PROVE Indexed'
  <2>1. CASE Create(w) \/ Truncate(w)
    BY <2>1, RejectsIndexed, StartsIndexed, GrowIndexed DEF Create, Truncate
  <2>2. CASE Tag(w)
    BY <2>2, TagIndexed, StartsIndexed, CloneIndexed, TagLinkIndexed DEF Tag
  <2>3. CASE Commit(w)
    <3>1. ~CommitUnlinkFails(w)
      BY DEF CommitUnlinkFails, Orderly
    <3> QED  BY <2>3, <3>1, RejectsIndexed, CommitStartIndexed, LoadIndexIndexed,
                HashBlockIndexed, CommitInsertIndexed, CommitSameIndexed,
                CommitRelinkIndexed, RelinkedIndexed, CommitSaveIndexed, CommitEndIndexed
             DEF Commit
  <2>4. CASE Write(w)
    BY <2>4, CrashIndexed, WriteIndexed, CloneIndexed, WriteRedirectIndexed DEF Write
  <2>5. CASE Delete(w) \/ Drop(w)
    BY <2>5, DeleteStartIndexed, UnhashIndexed, RemoveDirectoryIndexed, UnlinkIndexed,
       StatIndexed, FreeIndexed DEF Delete, Drop
  <2>6. CASE Metadata(w)
    BY <2>6, MetadataIndexed DEF Metadata
  <2>7. CASE Missing(w) \/ CrashOnMetadata(w) \/ Read(w)
    BY <2>7, RejectsIndexed, CrashIndexed
  <2> QED  BY <1>1, <2>1, <2>2, <2>3, <2>4, <2>5, <2>6, <2>7 DEF Handle
<1>2. ASSUME NEW w \in Workers, Receive(w) \/ Reconnect(w) PROVE Indexed'
  BY <1>2, ReceiveIndexed, CrashIndexed
<1>3. ~Restart
  BY DEF Restart, Orderly
<1>4. UNCHANGED vars => Indexed'
  BY IndexedSame DEF vars, disk
<1> QED  BY <1>1, <1>2, <1>3, <1>4 DEF Next

LEMMA IndexedInit ==
  ASSUME Init
  PROVE  Indexed
<1>1. \A w \in Workers : th[w].pc \notin LoopPCs \cup {"unhash"}
  BY PcSets2 DEF Init, IdleThread
<1>2. ASSUME NEW ft \in FT, NEW j, Kept(ft, j)
      PROVE  FALSE
  <2>1. ft # Base /\ meta[ft].state = "COMMITED"
    BY <1>2 DEF Kept, Settled
  <2> QED  BY <2>1 DEF Init, NoMeta
<1> QED  BY <1>1, <1>2 DEF Indexed

(* COMMIT leaves one physical block per content, in a setting where nobody    *)
(* else commits or deletes meanwhile: the copy of the index that it works     *)
(* with is the index, and the hash of a block that is still linked is kept.   *)
THEOREM OneBlockPerContent ==
  ASSUME Orderly, OneIndexer
  PROVE  Spec => []Deduplicated
<1>1. Init => Indexed
  BY IndexedInit
<1>2. Steady /\ Steady' /\ Indexed /\ [Next]_vars => Indexed'
  BY IndexedStep
<1>3. Steady /\ Indexed => Deduplicated
  BY IndexedOnce
<1> QED  BY <1>1, <1>2, <1>3, SteadyHolds, PTL DEF Spec

=============================================================================
