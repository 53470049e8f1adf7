------------------------------ MODULE MCStorage ------------------------------
(* Small volumes for TLC: what the Workers ask for in each run. *)
EXTENDS Storage, TLC
CONSTANTS w1, w2, ini, f, base, t

MCBase == <<ini, base>>
A == <<f, base>>
B == <<f, t>>
C == <<ini, t>>

Req(op, ft, dst, n, d) == [op |-> op, ft |-> ft, dst |-> dst, n |-> n, d |-> d]
Plain(Os, S) == {Req(op, ft, Base, 1, Zero) : op \in Os, ft \in S}
Truncates(S, N) == {Req("TRUNCATE", ft, Base, n, Zero) : ft \in S, n \in N}
Writes(op, S, N, D) == {Req(op, ft, Base, n, d) : ft \in S, n \in N, d \in D}
Reads(S, N) == {Req("READ", ft, Base, n, Zero) : ft \in S, n \in N}
TagsOf(S, T) == {Req("TAG", s, e, 1, Zero) : s \in S, e \in T}

(* One Worker: every operation but the DELETE of initial_file:BASE. *)
SoloRequests == [w \in Workers |->
  Plain({"CREATE"}, {A}) \cup Plain({"COMMIT"}, {A, B, Base})
  \cup Plain({"DELETE"}, {A, B})
  \cup Truncates({A}, Sizes) \cup Writes("WRITE", {A}, {1, 2}, Data)
  \cup Writes("WRITE", {B}, {1}, Data \ {Zero})
  \cup Reads({A}, {1, 2}) \cup TagsOf({A}, {B})]

(* Two Workers on separate File:Tags, of which only one is committed. *)
PairRequests ==
  (w1 :> (Plain({"CREATE", "COMMIT"}, {A}) \cup Truncates({A}, Sizes \ {0})
          \cup Writes("WRITE", {A}, {1, 2}, Data \ {Zero})))
  @@ (w2 :> (Plain({"CREATE", "DELETE"}, {B}) \cup Truncates({B}, Sizes)
             \cup Writes("WRITE", {B}, {1}, {Zero}) \cup TagsOf({Base}, {C})))

(* Two Workers on one File:Tag. *)
AnyRequests ==
  (w1 :> (Plain({"CREATE", "DELETE"}, {C}) \cup Truncates({C}, Sizes)
          \cup Writes("WRITE", {C}, {1}, {Zero}) \cup TagsOf({Base}, {C})))
  @@ (w2 :> (Plain({"COMMIT"}, {C})
             \cup Writes("WRITE_NOT_ERROR", {C}, {1}, Data \ {Zero})
             \cup TagsOf({C}, {Base})))

(* A WRITE and a COMMIT of one File:Tag. *)
WriteCommitRequests ==
  (w1 :> (Plain({"CREATE", "COMMIT"}, {A}) \cup Truncates({A}, Sizes)))
  @@ (w2 :> Writes("WRITE", {A}, {1}, Data \ {Zero}))

(* One Worker that makes, resizes and writes a File:Tag. *)
RestartRequests == [w \in Workers |->
  Plain({"CREATE"}, {A}) \cup Truncates({A}, Sizes) \cup Writes("WRITE", {A}, {1}, Data)]

(* A DELETE and a COMMIT of two File:Tags with the same contents. *)
DeleteCommitRequests == [w \in Workers |->
  LET S == IF w = w1 THEN {A} ELSE {B} IN
  Plain({"CREATE", "COMMIT"}, S) \cup Truncates(S, Sizes)
  \cup Writes("WRITE", S, {1}, Data \ {Zero})
  \cup IF w = w1 THEN Plain({"DELETE"}, S) ELSE {}]

(* One Worker that commits the contents of block 0 twice. *)
CommitUnlinkRequests == [w \in Workers |->
  Plain({"CREATE"}, {A}) \cup Truncates({A}, Sizes) \cup TagsOf({Base}, {C})
  \cup Plain({"COMMIT"}, {A, C})]

(* A TAG of two blocks, while another Worker takes one of those it counted.   *)
TagCloneRequests ==
  (w1 :> (Plain({"CREATE"}, {A}) \cup Truncates({A}, Sizes) \cup TagsOf({A}, {B})))
  @@ (w2 :> (Plain({"CREATE"}, {C}) \cup Truncates({C}, Sizes)
             \cup Writes("WRITE", {C}, {1}, Data \ {Zero})))

(* The setting of the proofs is that of the runs storage_solo and             *)
(* storage_pair; the runs write_commit and delete_commit, and the             *)
(* configuration TagClone.cfg, each lack a part of it.                        *)
ASSUME SettingsAssumption ==
  /\ Requests = SoloRequests => Orderly /\ OneIndexer
  /\ Requests = PairRequests => Orderly
  /\ Requests = WriteCommitRequests => ~Apart
  /\ Requests = DeleteCommitRequests => ~DeletesAlone
  /\ Requests = TagCloneRequests => Apart /\ DeletesAlone /\ ~RoomForTags

=============================================================================
