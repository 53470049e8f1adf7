---------------------------- MODULE MasterProofs ----------------------------
(* What holds of the Master's scheduler for any number of Queries, Workers   *)
(* and evictions at once, under every algorithm, whoever disconnects.        *)
EXTENDS Master, SequenceFacts, FunctionTheorems

(* What a thread holds while it is at a place. *)
SchedulerHolds ==
  /\ sched.pc \in {"pop", "again", "assign", "send", "exec", "busy"} => sched.w \in Workers
  /\ sched.pc \in {"assign", "send", "exec"} => sched.q \in Queries
CallsHold ==
  \A c \in Callers :
    /\ evict[c].pc # "idle" => evict[c].w \in Workers
    /\ evict[c].pc = "move" => evict[c].q \in Queries
ConnectionsHold ==
  \A w \in Workers :
    /\ conn[w].pc = "exit" => conn[w].q \in told
    /\ conn[w].pc \in {"lost", "remove"} => conn[w].i # 0
Handles == SchedulerHolds /\ CallsHold /\ ConnectionsHold

(* _desalojo_abstract is called from these places only. *)
CallsOfThreads ==
  /\ evict[Scheduler].pc # "idle" => sched.pc \in {"again", "send"}
  /\ \A q \in Queries : evict[Hangup(q)].pc # "idle" => hangup[q] = "gone"

(* A Query is in READY once, and after it has connected. *)
NoDups(s) == \A i, j \in DOMAIN s : s[i] = s[j] => i = j
QueuedOnce ==
  /\ NoDups(ready)
  /\ \A q \in Queries : In(q, ready) => query[q].sp # "NONE"

InHand(q) == \E c \in Callers : evict[c].pc = "move" /\ evict[c].q = q
ReadyHeld == \A q \in Queries : query[q].sp = "READY" => In(q, ready) \/ Held(q) \/ InHand(q)

Inv == TypeOK /\ Handles /\ CallsOfThreads /\ QueuedOnce /\ ReadyHeld /\ ExitIsTold

-----------------------------------------------------------------------------
(* The queue *)

(* get_worker_by_qid and its like find a Worker of the list. *)
LEMMA FirstIsOne ==
  ASSUME workers \in Seq(Workers), NEW S \in SUBSET Listed, S # {}
  PROVE  First(S) \in S /\ First(S) \in Workers
<1> DEFINE At == {i \in DOMAIN workers : workers[i] \in S}
<1>1. At \in SUBSET Nat /\ At # {} /\ Listed \subseteq Workers
  BY DEF Listed
<1>2. PICK i \in At : \A j \in At : i <= j
  BY <1>1, LeastNatural
<1>3. /\ workers[i] \in S
      /\ \E k \in DOMAIN workers :
           workers[k] = workers[i] /\ \A j \in DOMAIN workers : workers[j] \in S => k <= j
  BY <1>2
<1>4. \E w \in S : \E k \in DOMAIN workers :
        workers[k] = w /\ \A j \in DOMAIN workers : workers[j] \in S => k <= j
  BY <1>3
<1>5. First(S) \in S
  BY <1>4 DEF First
<1> QED  BY <1>1, <1>5

(* list_add *)
LEMMA AppendKeeps ==
  ASSUME NEW s \in Seq(Queries), NoDups(s), NEW q \in Queries, ~In(q, s)
  PROVE  /\ Append(s, q) \in Seq(Queries) /\ NoDups(Append(s, q))
         /\ \A p : In(p, Append(s, q)) <=> In(p, s) \/ p = q
<1>1. /\ Append(s, q) \in Seq(Queries)
      /\ DOMAIN Append(s, q) = 1 .. Len(s) + 1 /\ DOMAIN s = 1 .. Len(s)
      /\ Len(s) \in Nat
      /\ \A i \in 1 .. Len(s) : Append(s, q)[i] = s[i]
      /\ Append(s, q)[Len(s) + 1] = q
  OBVIOUS
<1>2. \A i \in 1 .. Len(s) + 1 : i \in 1 .. Len(s) \/ i = Len(s) + 1
  BY <1>1
<1>3. Len(s) + 1 \in 1 .. Len(s) + 1 /\ 1 .. Len(s) \subseteq 1 .. Len(s) + 1
  BY <1>1
<1> DEFINE t == Append(s, q)
           n == Len(s) + 1
<1> HIDE DEF t, n
<1>4. /\ DOMAIN t = 1 .. n /\ t[n] = q /\ n \in 1 .. n
      /\ \A i \in DOMAIN s : i \in 1 .. n /\ t[i] = s[i]
      /\ \A i \in 1 .. n : i \in DOMAIN s \/ i = n
  BY <1>1, <1>2, <1>3 DEF t, n
<1>5. NoDups(t)
  BY <1>4, Zenon DEF NoDups, In
<1>6. \A p : In(p, t) <=> In(p, s) \/ p = q
  BY <1>4, Zenon DEF In
<1> QED  BY <1>1, <1>5, <1>6 DEF t

(* queue_pop *)
LEMMA TailKeeps ==
  ASSUME NEW s \in Seq(Queries), NoDups(s), s # <<>>
  PROVE  /\ Tail(s) \in Seq(Queries) /\ NoDups(Tail(s))
         /\ Head(s) \in Queries /\ In(Head(s), s)
         /\ \A p : In(p, Tail(s)) <=> In(p, s) /\ p # Head(s)
<1>1. /\ Tail(s) \in Seq(Queries) /\ Head(s) \in Queries
      /\ Len(s) \in Nat \ {0} /\ DOMAIN s = 1 .. Len(s)
      /\ DOMAIN Tail(s) = 1 .. Len(s) - 1
      /\ \A i \in 1 .. Len(s) - 1 : Tail(s)[i] = s[i + 1]
      /\ Head(s) = s[1]
  OBVIOUS
<1>2. NoDups(Tail(s))
  BY <1>1 DEF NoDups
<1>3. ASSUME NEW p PROVE In(p, Tail(s)) <=> In(p, s) /\ p # Head(s)
  <2>1. In(p, Tail(s)) => In(p, s) /\ p # Head(s)
    BY <1>1 DEF In, NoDups
  <2>2. ASSUME In(p, s), p # Head(s) PROVE In(p, Tail(s))
    <3>1. PICK i \in 1 .. Len(s) : s[i] = p
      BY <2>2, <1>1 DEF In
    <3>2. i - 1 \in 1 .. Len(s) - 1 /\ (i - 1) + 1 = i
      BY <3>1, <2>2, <1>1
    <3>3. Tail(s)[i - 1] = p
      BY <3>1, <3>2, <1>1
    <3> QED  BY <3>2, <3>3, <1>1 DEF In
  <2> QED  BY <2>1, <2>2
<1>4. In(Head(s), s)
  BY <1>1 DEF In
<1> QED  BY <1>1, <1>2, <1>3, <1>4

(* list_remove_by_condition_by *)
LEMMA FirstOfIs ==
  ASSUME NEW T, NEW s \in Seq(T), NEW q, In(q, s)
  PROVE  FirstOf(s, q) \in 1 .. Len(s) /\ s[FirstOf(s, q)] = q
<1> DEFINE At == {i \in DOMAIN s : s[i] = q}
<1>1. At \in SUBSET Nat /\ At # {} /\ DOMAIN s = 1 .. Len(s)
  BY DEF In
<1>2. PICK i \in At : \A j \in At : i <= j
  BY <1>1, LeastNatural
<1>3. \E k \in DOMAIN s : s[k] = q /\ \A j \in DOMAIN s : s[j] = q => k <= j
  BY <1>2
<1>4. FirstOf(s, q) \in DOMAIN s /\ s[FirstOf(s, q)] = q
  BY <1>3 DEF FirstOf
<1> QED  BY <1>1, <1>4

LEMMA WithoutKeeps ==
  ASSUME NEW s \in Seq(Queries), NoDups(s), NEW q
  PROVE  /\ Without(s, q) \in Seq(Queries) /\ NoDups(Without(s, q))
         /\ \A p : In(p, Without(s, q)) <=> In(p, s) /\ p # q
<1>1. CASE ~In(q, s)
  BY <1>1, Zenon DEF Without
<1>2. CASE In(q, s)
  <2> DEFINE i == FirstOf(s, q)
             t == Removed(s, i)
  <2>1. i \in 1 .. Len(s) /\ s[i] = q
    BY <1>2, FirstOfIs
  <2> HIDE DEF i
  <2>2. /\ t \in Seq(Queries)
        /\ Len(t) = Len(s) - 1
        /\ DOMAIN t = 1 .. Len(s) - 1
        /\ \A j \in 1 .. i - 1 : t[j] = s[j]
        /\ \A j \in i .. Len(s) - 1 : t[j] = s[j + 1]
    BY <2>1, WithoutOne DEF Removed
  <2> HIDE DEF t
  <2>3. Len(s) \in Nat /\ DOMAIN s = 1 .. Len(s)
    OBVIOUS
  <2>4. \A j \in 1 .. Len(s) - 1 : \E k \in 1 .. Len(s) :
          t[j] = s[k] /\ k # i /\ (j < i => k = j) /\ (j >= i => k = j + 1)
    <3>1. SUFFICES ASSUME NEW j \in 1 .. Len(s) - 1
                   PROVE  \E k \in 1 .. Len(s) :
                            t[j] = s[k] /\ k # i /\ (j < i => k = j) /\ (j >= i => k = j + 1)
      OBVIOUS
    <3>2. CASE j < i
      <4>1. j \in 1 .. i - 1 /\ j \in 1 .. Len(s)
        BY <2>1, <2>3, <3>2
      <4>2. t[j] = s[j] /\ j # i /\ ~ (j >= i)
        BY <2>1, <2>2, <2>3, <3>2, <4>1
      <4> QED  BY <4>1, <4>2
    <3>3. CASE j >= i
      <4>1. j \in i .. Len(s) - 1 /\ j + 1 \in 1 .. Len(s) /\ j + 1 # i
        BY <2>1, <2>3, <3>3
      <4>2. t[j] = s[j + 1] /\ ~ (j < i)
        BY <2>1, <2>2, <2>3, <3>3, <4>1
      <4> QED  BY <4>1, <4>2
    <3>4. j < i \/ j >= i
      BY <2>1, <2>3
    <3> QED  BY <3>2, <3>3, <3>4
  <2>5. NoDups(t)
    <3>1. SUFFICES ASSUME NEW j \in 1 .. Len(s) - 1, NEW k \in 1 .. Len(s) - 1, t[j] = t[k]
                   PROVE  j = k
      BY <2>2, Zenon DEF NoDups
    <3>2. PICK a \in 1 .. Len(s) : t[j] = s[a] /\ (j < i => a = j) /\ (j >= i => a = j + 1)
      BY <2>4
    <3>3. PICK b \in 1 .. Len(s) : t[k] = s[b] /\ (k < i => b = k) /\ (k >= i => b = k + 1)
      BY <2>4
    <3>4. a = b
      BY <3>1, <3>2, <3>3, <2>3, Zenon DEF NoDups
    <3> QED  BY <2>1, <3>2, <3>3, <3>4
  <2>6. ASSUME NEW p PROVE In(p, t) <=> In(p, s) /\ p # q
    <3>1. In(p, t) => In(p, s) /\ p # q
      <4>1. SUFFICES ASSUME NEW j \in 1 .. Len(s) - 1, t[j] = p PROVE In(p, s) /\ p # q
        BY <2>2, Zenon DEF In
      <4>2. PICK a \in 1 .. Len(s) : t[j] = s[a] /\ a # i
        BY <2>4
      <4>3. s[a] # s[i]
        BY <4>2, <2>1, <2>3, Zenon DEF NoDups
      <4> QED  BY <4>1, <4>2, <4>3, <2>1, <2>3 DEF In
    <3>2. ASSUME In(p, s), p # q PROVE In(p, t)
      <4>1. PICK a \in 1 .. Len(s) : s[a] = p
        BY <3>2, <2>3, Zenon DEF In
      <4>2. CASE a < i
        <5>1. a \in 1 .. i - 1 /\ a \in 1 .. Len(s) - 1
          BY <2>1, <2>3, <4>2
        <5> QED  BY <5>1, <4>1, <2>2 DEF In
      <4>3. CASE a > i
        <5>1. a - 1 \in i .. Len(s) - 1 /\ a - 1 \in 1 .. Len(s) - 1 /\ (a - 1) + 1 = a
          BY <2>1, <2>3, <4>3
        <5>2. t[a - 1] = p
          BY <5>1, <4>1, <2>2
        <5> QED  BY <5>1, <5>2, <2>2 DEF In
      <4> QED  BY <4>1, <4>2, <4>3, <2>1, <3>2
    <3> QED  BY <3>1, <3>2
  <2>7. Without(s, q) = t
    BY <1>2, Zenon DEF Without, t, i
  <2> QED  BY <2>2, <2>5, <2>6, <2>7
<1> QED  BY <1>1, <1>2

(* list_sort on the priorities *)
LEMMA SortKeeps ==
  ASSUME NEW s \in Seq(Queries), NoDups(s), NEW t, ByPriority(s, t)
  PROVE  /\ t \in Seq(Queries) /\ NoDups(t) /\ DOMAIN t = DOMAIN s /\ Len(t) = Len(s)
         /\ \A p : In(p, t) <=> In(p, s)
<1> DEFINE Of == {s[i] : i \in DOMAIN s}
<1>1. /\ t \in [DOMAIN s -> Of]
      /\ \A i \in DOMAIN s : \E j \in DOMAIN s : t[j] = s[i]
  BY DEF ByPriority
<1>2. DOMAIN s = 1 .. Len(s) /\ Len(s) \in Nat /\ Of \subseteq Queries
  OBVIOUS
<1>3. t \in [1 .. Len(s) -> Queries]
  BY <1>1, <1>2
<1>4. t \in Seq(Queries) /\ Len(t) = Len(s) /\ DOMAIN t = DOMAIN s
  BY <1>2, <1>3
<1>5. \A p : In(p, t) <=> In(p, s)
  BY <1>1, <1>4 DEF In
<1>6. s \in [DOMAIN s -> Of] /\ s \in Bijection(DOMAIN s, Of)
  <2>1. s \in [DOMAIN s -> Of]
    BY <1>2
  <2>2. \A a, b \in DOMAIN s : s[a] = s[b] => a = b
    BY DEF NoDups
  <2>3. \A v \in Of : \E a \in DOMAIN s : s[a] = v
    OBVIOUS
  <2> HIDE DEF Of
  <2> QED  BY <2>1, <2>2, <2>3, Fun_IsBij
<1>7. IsFiniteSet(DOMAIN s)
  BY <1>2, FS_Interval
<1>8. IsFiniteSet(Of) /\ Cardinality(DOMAIN s) = Cardinality(Of)
  <2>1. ExistsBijection(DOMAIN s, Of)
    BY <1>6 DEF ExistsBijection
  <2> HIDE DEF Of
  <2> QED  BY <1>7, <2>1, FS_Bijection
<1>9. t \in Surjection(DOMAIN s, Of)
  <2>1. \A v \in Of : \E j \in DOMAIN s : t[j] = v
    BY <1>1
  <2> DEFINE D == DOMAIN s
  <2>2. t \in [D -> Of] /\ \A v \in Of : \E j \in D : t[j] = v
    BY <1>1, <2>1
  <2> HIDE DEF Of, D
  <2>3. t \in Surjection(D, Of)
    BY <2>2, Fun_IsSurj
  <2> QED  BY <2>3 DEF D
<1>10. t \in Injection(DOMAIN s, Of)
  <2> HIDE DEF Of
  <2> QED  BY <1>7, <1>8, <1>9, FS_SurjSameCardinalityImpliesInj
<1>11. NoDups(t)
  BY <1>4, <1>10 DEF NoDups, Injection, IsInjective
<1> QED  BY <1>4, <1>5, <1>11

(* PRIORITIES: one of the Workers is found, whose Query has the lowest. *)
LEMMA LowestIsOne ==
  ASSUME workers \in Seq(Workers), query \in [Queries -> QueryStructs],
         queries \subseteq Queries, ~NoLowest
  PROVE  Lowest \in Workers
<1> DEFINE P(w) == query[worker[w].id_query].priority
           f == [i \in DOMAIN workers |-> P(workers[i])]
           S == {w \in Listed : Len(workers) = 1 \/ \A x \in Listed : P(w) >= P(x)}
<1>1. /\ Len(workers) \in Nat \ {0} /\ DOMAIN workers = 1 .. Len(workers)
      /\ Listed \subseteq Workers /\ workers[1] \in Listed
  BY DEF NoLowest, Listed
<1>2. ASSUME Len(workers) = 1 PROVE S # {}
  BY <1>1, <1>2
<1>3. ASSUME Len(workers) # 1 PROVE S # {}
  <2>1. \A w \in Listed : worker[w].id_query \in Queries
    BY <1>1, <1>3 DEF NoLowest, Known
  <2>2. \A w \in Listed : P(w) \in Nat
    BY <2>1 DEF QueryStructs
  <2>3. \A i \in 1 .. Len(workers) : workers[i] \in Listed
    BY <1>1 DEF Listed
  <2> HIDE DEF P, S
  <2>4. \A i \in 1 .. Len(workers) : f[i] = P(workers[i]) /\ f[i] \in Nat
    BY <1>1, <2>2, <2>3
  <2> HIDE DEF f
  <2>5. PICK i \in 1 .. Len(workers) : \A j \in 1 .. Len(workers) : f[j] <= f[i]
    BY <1>1, <2>4, GreatestOfMany
  <2>6. \A x \in Listed : P(workers[i]) >= P(x)
    <3>1. SUFFICES ASSUME NEW j \in 1 .. Len(workers) PROVE P(workers[i]) >= P(workers[j])
      BY <1>1 DEF Listed
    <3> QED  BY <2>4, <2>5
  <2> QED  BY <2>3, <2>6 DEF P, S
<1>4. S # {} /\ S \in SUBSET Listed
  <2>1. S \in SUBSET Listed
    OBVIOUS
  <2> QED  BY <2>1, <1>2, <1>3
<1>5. Lowest = First(S)
  BY DEF Lowest
<1> HIDE DEF S
<1> QED  BY <1>4, <1>5, FirstIsOne

(* _query_to, from whatever list the Query is in. *)
LEMMA MovedKeeps ==
  ASSUME query \in [Queries -> QueryStructs], ready \in Seq(Queries), NoDups(ready),
         lists \in [{"EXEC", "EXIT"} -> SUBSET Queries],
         NEW q \in Queries, NEW to \in States \cup {"NONE"}, Moved(q, to)
  PROVE  /\ query' \in [Queries -> QueryStructs]
         /\ query'[q].sp = to
         /\ \A p \in Queries : query'[p].pc = query[p].pc
         /\ \A p \in Queries : p # q => query'[p] = query[p]
         /\ lists' \in [{"EXEC", "EXIT"} -> SUBSET Queries]
         /\ ready' \in Seq(Queries) /\ NoDups(ready')
         /\ \A p : p # q => (In(p, ready') <=> In(p, ready))
         /\ to = "READY" => In(q, ready')
         /\ to # "READY" => (In(q, ready') <=> In(q, ready) /\ query[q].sp # "READY")
<1>1. /\ query' \in [Queries -> QueryStructs]
      /\ query'[q].sp = to
      /\ \A p \in Queries : query'[p].pc = query[p].pc
      /\ \A p \in Queries : p # q => query'[p] = query[p]
  <2>1. query' = [query EXCEPT ![q].sp = to]
    BY DEF Moved
  <2> QED  BY <2>1 DEF QueryStructs, States
<1>2. lists' \in [{"EXEC", "EXIT"} -> SUBSET Queries]
  <2> DEFINE from == query[q].sp
             exec == IF from = "EXEC" THEN lists["EXEC"] \ {q} ELSE lists["EXEC"]
             exit == IF from = "EXIT" THEN lists["EXIT"] \ {q} ELSE lists["EXIT"]
             left == [lists EXCEPT !["EXEC"] = exec, !["EXIT"] = exit]
  <2>1. exec \in SUBSET Queries /\ exit \in SUBSET Queries
    OBVIOUS
  <2>2. left = [lists EXCEPT !["EXEC"] = IF from = "EXEC" THEN @ \ {q} ELSE @,
                             !["EXIT"] = IF from = "EXIT" THEN @ \ {q} ELSE @]
    OBVIOUS
  <2> HIDE DEF exec, exit
  <2>3. left \in [{"EXEC", "EXIT"} -> SUBSET Queries]
    BY <2>1
  <2> HIDE DEF left, from
  <2>4. lists' = [left EXCEPT !["EXEC"] = IF to = "EXEC" THEN @ \cup {q} ELSE @,
                              !["EXIT"] = IF to = "EXIT" THEN @ \cup {q} ELSE @]
    BY <2>2 DEF Moved, from
  <2>5. lists' = [left EXCEPT
          !["EXEC"] = IF to = "EXEC" THEN left["EXEC"] \cup {q} ELSE left["EXEC"],
          !["EXIT"] = IF to = "EXIT" THEN left["EXIT"] \cup {q} ELSE left["EXIT"]]
    BY <2>3, <2>4
  <2> QED  BY <2>3, <2>5
<1>3. /\ ready' \in Seq(Queries) /\ NoDups(ready')
      /\ \A p : p # q => (In(p, ready') <=> In(p, ready))
      /\ to = "READY" => In(q, ready')
      /\ to # "READY" => (In(q, ready') <=> In(q, ready) /\ query[q].sp # "READY")
  <2> DEFINE rest == IF query[q].sp = "READY" THEN Without(ready, q) ELSE ready
  <2>1. /\ rest \in Seq(Queries) /\ NoDups(rest)
        /\ \A p : p # q => (In(p, rest) <=> In(p, ready))
        /\ In(q, rest) <=> In(q, ready) /\ query[q].sp # "READY"
    <3>1. CASE query[q].sp = "READY"
      BY <3>1, WithoutKeeps
    <3>2. CASE query[q].sp # "READY"
      BY <3>2, Zenon
    <3> QED  BY <3>1, <3>2
  <2>2. ready' = IF to = "READY" /\ ~In(q, rest) THEN Append(rest, q) ELSE rest
    BY Zenon DEF Moved
  <2> HIDE DEF rest
  <2>3. CASE to = "READY" /\ ~In(q, rest)
    <3>1. /\ Append(rest, q) \in Seq(Queries) /\ NoDups(Append(rest, q))
          /\ \A p : In(p, Append(rest, q)) <=> In(p, rest) \/ p = q
      BY <2>1, <2>3, AppendKeeps
    <3>2. ready' = Append(rest, q)
      BY <2>2, <2>3, Zenon
    <3> QED  BY <2>1, <2>3, <3>1, <3>2
  <2>4. CASE ~ (to = "READY" /\ ~In(q, rest))
    <3>1. ready' = rest
      BY <2>2, <2>4, Zenon
    <3> QED  BY <2>1, <2>4, <3>1
  <2> QED  BY <2>3, <2>4
<1> QED  BY <1>1, <1>2, <1>3

(* query_to: what it keeps, and that it tells of what is now in EXIT. *)
LEMMA QueryToKeeps ==
  ASSUME query \in [Queries -> QueryStructs], ready \in Seq(Queries), NoDups(ready),
         lists \in [{"EXEC", "EXIT"} -> SUBSET Queries], told \subseteq Queries,
         NEW q \in Queries, NEW to \in States \cup {"NONE"}, QueryTo(q, to)
  PROVE  /\ query' \in [Queries -> QueryStructs]
         /\ query'[q].sp = to \/ (query'[q].sp = "EXIT" /\ query'[q] = query[q])
         /\ \A p \in Queries : query'[p].pc = query[p].pc
         /\ \A p \in Queries : p # q => query'[p] = query[p]
         /\ lists' \in [{"EXEC", "EXIT"} -> SUBSET Queries]
         /\ ready' \in Seq(Queries) /\ NoDups(ready')
         /\ \A p : p # q => (In(p, ready') <=> In(p, ready))
         /\ query'[q].sp = "READY" => In(q, ready')
         /\ query'[q].sp # "READY" => (In(q, ready') => In(q, ready) /\ query[q].sp # "READY")
         /\ told' \subseteq Queries /\ told \subseteq told'
         /\ query'[q].sp = "EXIT" => q \in told'
<1>1. told' = IF query'[q].sp = "EXIT" THEN told \cup {q} ELSE told
  BY Zenon DEF QueryTo
<1>2. /\ told' \subseteq Queries /\ told \subseteq told'
      /\ query'[q].sp = "EXIT" => q \in told'
  BY <1>1
<1>3. CASE Refused(q, to)
  <2>1. query' = query /\ ready' = ready /\ lists' = lists
    BY <1>3, Zenon DEF QueryTo
  <2> QED  BY <1>2, <1>3, <2>1 DEF Refused
<1>4. CASE ~Refused(q, to)
  <2>1. Moved(q, to)
    BY <1>4, Zenon DEF QueryTo
  <2>2. /\ query' \in [Queries -> QueryStructs]
        /\ query'[q].sp = to
        /\ \A p \in Queries : query'[p].pc = query[p].pc
        /\ \A p \in Queries : p # q => query'[p] = query[p]
        /\ lists' \in [{"EXEC", "EXIT"} -> SUBSET Queries]
        /\ ready' \in Seq(Queries) /\ NoDups(ready')
        /\ \A p : p # q => (In(p, ready') <=> In(p, ready))
        /\ to = "READY" => In(q, ready')
        /\ to # "READY" => (In(q, ready') <=> In(q, ready) /\ query[q].sp # "READY")
    BY <2>1, MovedKeeps
  <2> QED  BY <1>2, <2>2
<1> QED  BY <1>3, <1>4

-----------------------------------------------------------------------------
LEMMA InitSafe == Init => Inv
<1> SUFFICES ASSUME Init PROVE Inv
  OBVIOUS
<1>1. \A q \in Queries : [sp |-> "NONE", pc |-> 0, priority |-> Priority[q]] \in QueryStructs
  BY QueriesAssumption DEF QueryStructs
<1>2. query \in [Queries -> QueryStructs] /\ \A q \in Queries : query[q].sp = "NONE"
  BY <1>1 DEF Init
<1>3. FreshWorker \in WorkerStructs /\ FreshPeer \in Peers /\ NoCall \in Calls
  BY DEF FreshWorker, WorkerStructs, FreshPeer, Peers, NoCall, Calls
<1>4. worker \in [Workers -> WorkerStructs] /\ peer \in [Workers -> Peers]
      /\ evict \in [Callers -> Calls]
  BY <1>3 DEF Init
<1>5. sched \in SchedulerAt
  BY DEF Init, SchedulerAt
<1>6. conn \in [Workers -> ConnectionAt] /\ \A w \in Workers : conn[w].pc = "none"
  BY DEF Init, ConnectionAt
<1>7. toWorker \in [Workers -> Seq(Messages)] /\ toMaster \in [Workers -> Seq(Messages)]
      /\ ready \in Seq(Queries) /\ workers \in Seq(Workers)
      /\ hangup \in [Queries -> {"none", "exit", "exec", "gone"}]
      /\ lists \in [{"EXEC", "EXIT"} -> SUBSET Queries]
  BY DEF Init
<1>8. TypeOK
  BY <1>2, <1>4, <1>5, <1>6, <1>7 DEF Init, TypeOK
<1>9. \A c \in Callers : evict[c].pc = "idle"
  BY DEF Init, NoCall
<1>10. Scheduler \in Callers /\ \A q \in Queries : Hangup(q) \in Callers
  BY DEF Callers
<1>11. Handles /\ CallsOfThreads
  BY <1>6, <1>9, <1>10 DEF Init, Handles, SchedulerHolds, CallsHold, ConnectionsHold, CallsOfThreads
<1>12. QueuedOnce
  BY DEF Init, QueuedOnce, NoDups, In
<1>13. ReadyHeld /\ ExitIsTold
  BY <1>2 DEF ReadyHeld, ExitIsTold
<1> QED  BY <1>8, <1>11, <1>12, <1>13 DEF Inv


-----------------------------------------------------------------------------
(* Types *)

(* Assignments to members of the structs. *)
LEMMA WorkerSet ==
  ASSUME NEW f \in [Workers -> WorkerStructs], NEW w \in Workers
  PROVE  /\ [f EXCEPT ![w].estoy_desalojando = TRUE] \in [Workers -> WorkerStructs]
         /\ [f EXCEPT ![w].is_free = FALSE] \in [Workers -> WorkerStructs]
         /\ \A q \in Queries : [f EXCEPT ![w].id_query = q] \in [Workers -> WorkerStructs]
  BY DEF WorkerStructs

LEMMA WorkerCounts ==
  ASSUME NEW f \in [Workers -> WorkerStructs], NEW w \in Workers, f[w].sem > 0
  PROVE  [f EXCEPT ![w].sem = @ - 1] \in [Workers -> WorkerStructs]
<1>1. f[w].sem - 1 \in Nat
  BY DEF WorkerStructs
<1> QED  BY <1>1 DEF WorkerStructs

LEMMA WorkerFreed ==
  ASSUME NEW f \in [Workers -> WorkerStructs], NEW w \in Workers
  PROVE  /\ [f EXCEPT ![w].is_free = TRUE, ![w].id_query = NoQuery] \in [Workers -> WorkerStructs]
         /\ [f EXCEPT ![w].id_query = NoQuery, ![w].is_free = TRUE] \in [Workers -> WorkerStructs]
<1>1. [f[w] EXCEPT !.is_free = TRUE, !.id_query = NoQuery] \in WorkerStructs
  BY DEF WorkerStructs
<1>2. [f EXCEPT ![w].is_free = TRUE, ![w].id_query = NoQuery]
        = [f EXCEPT ![w] = [f[w] EXCEPT !.is_free = TRUE, !.id_query = NoQuery]]
  OBVIOUS
<1>3. [f EXCEPT ![w].id_query = NoQuery, ![w].is_free = TRUE]
        = [f EXCEPT ![w] = [f[w] EXCEPT !.is_free = TRUE, !.id_query = NoQuery]]
  BY DEF WorkerStructs
<1> QED  BY <1>1, <1>2, <1>3

LEMMA WorkerAnswered ==
  ASSUME NEW f \in [Workers -> WorkerStructs], NEW w \in Workers,
         NEW q \in Queries \cup {NoQuery}, NEW pc \in Nat
  PROVE  [f EXCEPT ![w].q = q, ![w].pc = pc, ![w].estoy_desalojando = FALSE, ![w].sem = @ + 1]
           \in [Workers -> WorkerStructs]
<1>1. f[w].sem + 1 \in Nat
  BY DEF WorkerStructs
<1>2. [f[w] EXCEPT !.q = q, !.pc = pc, !.estoy_desalojando = FALSE, !.sem = f[w].sem + 1]
        \in WorkerStructs
  BY <1>1 DEF WorkerStructs
<1>3. [f EXCEPT ![w].q = q, ![w].pc = pc, ![w].estoy_desalojando = FALSE, ![w].sem = @ + 1]
        = [f EXCEPT ![w] = [f[w] EXCEPT !.q = q, !.pc = pc, !.estoy_desalojando = FALSE,
                                        !.sem = f[w].sem + 1]]
  OBVIOUS
<1> QED  BY <1>2, <1>3

LEMMA CallSet ==
  ASSUME NEW f \in [Callers -> Calls], NEW c \in Callers
  PROVE  /\ [f EXCEPT ![c].pc = "send"] \in [Callers -> Calls]
         /\ [f EXCEPT ![c].pc = "release"] \in [Callers -> Calls]
  BY DEF Calls

LEMMA CallWaits ==
  ASSUME NEW f \in [Callers -> Calls], NEW c \in Callers, NEW g, NEW b,
         g = [f EXCEPT ![c].pc = "wait", ![c].blind = b], b \in BOOLEAN
  PROVE  g \in [Callers -> Calls]
<1>1. [f[c] EXCEPT !.pc = "wait", !.blind = b] \in Calls
  BY DEF Calls
<1>2. g = [f EXCEPT ![c] = [f[c] EXCEPT !.pc = "wait", !.blind = b]]
  OBVIOUS
<1> QED  BY <1>1, <1>2

LEMMA CallReads ==
  ASSUME NEW f \in [Callers -> Calls], NEW c \in Callers, NEW s \in States \cup {"NONE"}
  PROVE  LET g == [f EXCEPT ![c].arg = s] IN
         /\ g \in [Callers -> Calls]
         /\ \A d \in Callers : /\ g[d].pc = f[d].pc /\ g[d].w = f[d].w
                              /\ g[d].to = f[d].to /\ g[d].q = f[d].q
                              /\ d # c => g[d] = f[d]
  BY DEF Calls

LEMMA CallMoves ==
  ASSUME NEW f \in [Callers -> Calls], NEW c \in Callers, NEW q \in Queries
  PROVE  [f EXCEPT ![c].pc = "move", ![c].q = q] \in [Callers -> Calls]
<1>1. [f[c] EXCEPT !.pc = "move", !.q = q] \in Calls
  BY DEF Calls
<1>2. [f EXCEPT ![c].pc = "move", ![c].q = q]
        = [f EXCEPT ![c] = [f[c] EXCEPT !.pc = "move", !.q = q]]
  OBVIOUS
<1> QED  BY <1>1, <1>2

LEMMA ConnectionSet ==
  ASSUME NEW f \in [Workers -> ConnectionAt], NEW w \in Workers
  PROVE  /\ [f EXCEPT ![w].pc = "idle"] \in [Workers -> ConnectionAt]
         /\ [f EXCEPT ![w].pc = "free"] \in [Workers -> ConnectionAt]
         /\ [f EXCEPT ![w].pc = "remove"] \in [Workers -> ConnectionAt]
         /\ [f EXCEPT ![w].pc = "gone"] \in [Workers -> ConnectionAt]
  BY DEF ConnectionAt

LEMMA ConnectionEnds ==
  ASSUME NEW f \in [Workers -> ConnectionAt], NEW w \in Workers
  PROVE  /\ \A q \in Queries, i \in Nat :
              [f EXCEPT ![w].pc = "exit", ![w].q = q, ![w].i = i] \in [Workers -> ConnectionAt]
         /\ [f EXCEPT ![w].pc = "idle", ![w].q = NoQuery, ![w].i = 0]
              \in [Workers -> ConnectionAt]
<1>1. ASSUME NEW q \in Queries, NEW i \in Nat
      PROVE  [f EXCEPT ![w].pc = "exit", ![w].q = q, ![w].i = i] \in [Workers -> ConnectionAt]
  <2>1. [f[w] EXCEPT !.pc = "exit", !.q = q, !.i = i] \in ConnectionAt
    BY DEF ConnectionAt
  <2>2. [f EXCEPT ![w].pc = "exit", ![w].q = q, ![w].i = i]
          = [f EXCEPT ![w] = [f[w] EXCEPT !.pc = "exit", !.q = q, !.i = i]]
    OBVIOUS
  <2> QED  BY <2>1, <2>2
<1>2. [f EXCEPT ![w].pc = "idle", ![w].q = NoQuery, ![w].i = 0] \in [Workers -> ConnectionAt]
  <2>1. [f[w] EXCEPT !.pc = "idle", !.q = NoQuery, !.i = 0] \in ConnectionAt
    BY DEF ConnectionAt
  <2>2. [f EXCEPT ![w].pc = "idle", ![w].q = NoQuery, ![w].i = 0]
          = [f EXCEPT ![w] = [f[w] EXCEPT !.pc = "idle", !.q = NoQuery, !.i = 0]]
    OBVIOUS
  <2> QED  BY <2>1, <2>2
<1> QED  BY <1>1, <1>2

LEMMA QueryAnswered ==
  ASSUME NEW f \in [Queries -> QueryStructs], NEW q \in Queries, NEW pc \in Nat,
         NEW sp \in {"READY", "EXIT"}
  PROVE  /\ [f EXCEPT ![q].pc = pc, ![q].sp = sp] \in [Queries -> QueryStructs]
         /\ [f EXCEPT ![q].pc = pc, ![q].sp = sp][q].sp = sp
         /\ \A p \in Queries : p # q => [f EXCEPT ![q].pc = pc, ![q].sp = sp][p] = f[p]
<1>1. [f[q] EXCEPT !.pc = pc, !.sp = sp] \in QueryStructs /\ f[q] \in QueryStructs
  BY DEF QueryStructs, States
<1>2. [f EXCEPT ![q].pc = pc, ![q].sp = sp]
        = [f EXCEPT ![q] = [f[q] EXCEPT !.pc = pc, !.sp = sp]]
  OBVIOUS
<1>3. [f[q] EXCEPT !.pc = pc, !.sp = sp].sp = sp
  BY <1>1 DEF QueryStructs
<1> QED  BY <1>1, <1>2, <1>3

LEMMA Typed ==
  ASSUME Inv
  PROVE  /\ query \in [Queries -> QueryStructs] /\ queries \subseteq Queries
         /\ ready \in Seq(Queries) /\ NoDups(ready) /\ told \subseteq Queries
         /\ lists \in [{"EXEC", "EXIT"} -> SUBSET Queries]
         /\ worker \in [Workers -> WorkerStructs] /\ workers \in Seq(Workers)
         /\ sched \in SchedulerAt /\ conn \in [Workers -> ConnectionAt]
         /\ hangup \in [Queries -> {"none", "exit", "exec", "gone"}]
         /\ evict \in [Callers -> Calls] /\ peer \in [Workers -> Peers]
         /\ toWorker \in [Workers -> Seq(Messages)]
         /\ toMaster \in [Workers -> Seq(Messages)]
         /\ SchedulerHolds /\ CallsHold /\ ConnectionsHold
         /\ TypeOK /\ Listed \subseteq Workers
<1>1. TypeOK /\ SchedulerHolds /\ CallsHold /\ ConnectionsHold /\ NoDups(ready)
  BY DEF Inv, QueuedOnce, Handles
<1>2. workers \in Seq(Workers)
  BY <1>1 DEF TypeOK
<1>3. Listed \subseteq Workers
  BY <1>2 DEF Listed
<1> QED  BY <1>1, <1>3 DEF TypeOK

LEMMA MessageTyped ==
  ASSUME NEW op \in {"EXECUTE", "EVICT", "EVICTED", "END"},
         NEW q \in Queries \cup {NoQuery}, NEW pc \in Nat
  PROVE  Message(op, q, pc) \in Messages
  BY DEF Message, Messages

LEMMA SendTyped ==
  ASSUME toWorker \in [Workers -> Seq(Messages)], NEW w \in Workers, NEW m \in Messages,
         Send(w, m)
  PROVE  toWorker' \in [Workers -> Seq(Messages)]
<1>1. toWorker' = toWorker \/ toWorker' = [toWorker EXCEPT ![w] = Append(toWorker[w], m)]
  BY DEF Send
<1>2. Append(toWorker[w], m) \in Seq(Messages)
  OBVIOUS
<1> QED  BY <1>1, <1>2

LEMMA AcceptTyped == Inv /\ Accept => TypeOK'
<1> SUFFICES ASSUME Inv PROVE Accept => TypeOK'
  OBVIOUS
<1>1. CASE ListQuery
  BY <1>1, Typed DEF ListQuery, TypeOK, states, net
<1>2. ASSUME NEW q \in Queries, ConnectQuery(q) PROVE TypeOK'
  <2>1. PICK s \in FreshStates :
          LET to == IF s = "EXIT" THEN "EXIT" ELSE "READY" IN
          /\ query' = [query EXCEPT ![q].sp = to]
          /\ ready' = IF to = "READY" THEN Append(ready, q) ELSE ready
          /\ told' = IF to = "EXIT" THEN told \cup {q} ELSE told
    BY <1>2, Zenon DEF ConnectQuery
  <2>2. query' \in [Queries -> QueryStructs]
    BY <2>1, Typed DEF QueryStructs, States
  <2>3. ready' \in Seq(Queries) /\ told' \subseteq Queries
    BY <2>1, Typed
  <2> QED  BY <1>2, <2>2, <2>3, Typed DEF ConnectQuery, TypeOK, states, net
<1>3. ASSUME NEW w \in Workers, ConnectWorker(w) PROVE TypeOK'
  <2>1. workers' \in Seq(Workers)
    BY <1>3, Typed DEF ConnectWorker
  <2>2. conn' \in [Workers -> ConnectionAt]
    BY <1>3, Typed, ConnectionSet DEF ConnectWorker
  <2> QED  BY <1>3, <2>1, <2>2, Typed DEF ConnectWorker, TypeOK, states, net
<1> QED  BY <1>1, <1>2, <1>3 DEF Accept

(* Calls of _desalojo_abstract *)
LEMMA CallTyped ==
  ASSUME evict \in [Callers -> Calls], NEW c \in Callers, NEW w \in Workers,
         NEW to \in {"READY", "EXIT"}
  PROVE  /\ Call(c, w, to) \in [Callers -> Calls]
         /\ Call(c, w, to)[c].pc = "check" /\ Call(c, w, to)[c].w = w
         /\ Call(c, w, to)[c].to = to /\ Call(c, w, to)[c].arg = "NONE"
         /\ \A d \in Callers : d # c => Call(c, w, to)[d] = evict[d]
<1>1. [NoCall EXCEPT !.pc = "check", !.w = w, !.to = to] \in Calls
  BY DEF NoCall, Calls
<1> QED  BY <1>1 DEF Call, NoCall

LEMMA ReturnTyped ==
  ASSUME evict \in [Callers -> Calls], NEW c \in Callers
  PROVE  /\ Return(c) \in [Callers -> Calls]
         /\ Return(c)[c].pc = "idle"
         /\ \A d \in Callers : d # c => Return(c)[d] = evict[d]
<1>1. NoCall \in Calls /\ NoCall.pc = "idle"
  BY DEF NoCall, Calls
<1> QED  BY <1>1 DEF Return

LEMMA CrashTyped == Inv /\ Crash => TypeOK'
  BY Typed DEF Crash, TypeOK, states, net

LEMMA EvictionTyped ==
  ASSUME Inv, NEW c \in Callers
  PROVE  Eviction(c) => TypeOK'
<1> DEFINE e == evict[c]
<1>1. e \in Calls /\ (e.pc # "idle" => e.w \in Workers) /\ (e.pc = "move" => e.q \in Queries)
  BY Typed DEF CallsHold
<1>2. CASE EvictCheck(c)
  <2>1. evict' = Return(c) \/ evict' = [evict EXCEPT ![c].pc = "send"]
    BY <1>2, Zenon DEF EvictCheck
  <2>2. [evict EXCEPT ![c].pc = "send"] \in [Callers -> Calls]
    BY Typed, CallSet
  <2>3. evict' \in [Callers -> Calls]
    BY <2>1, <2>2, Typed, ReturnTyped
  <2> QED  BY <1>2, <2>3, Typed DEF EvictCheck, TypeOK, states, net
<1>3. CASE EvictSend(c)
  <2>1. e.w \in Workers
    BY <1>1, <1>3 DEF EvictSend
  <2>2. worker' \in [Workers -> WorkerStructs]
    BY <1>3, <2>1, Typed, WorkerSet DEF EvictSend
  <2>3. Evict \in Messages
    BY DEF Evict, Message, Messages
  <2>4. toWorker' \in [Workers -> Seq(Messages)]
    BY <1>3, <2>1, <2>3, Typed, SendTyped DEF EvictSend
  <2>5. evict' \in [Callers -> Calls]
    <3>1. evict' = [evict EXCEPT ![c].pc = "wait", ![c].blind = ~Known(worker[e.w].id_query)]
      BY <1>3, Zenon DEF EvictSend
    <3>2. (~Known(worker[e.w].id_query)) \in BOOLEAN
      OBVIOUS
    <3> QED  BY <3>1, <3>2, Typed, CallWaits
  <2> QED  BY <1>3, <2>2, <2>4, <2>5, Typed DEF EvictSend, TypeOK, states
<1>4. CASE EvictAnswered(c)
  <2> DEFINE q == worker[e.w].q
  <2>1. e.w \in Workers
    BY <1>1, <1>4 DEF EvictAnswered
  <2>2. worker[e.w] \in WorkerStructs /\ q \in Queries \cup {NoQuery}
        /\ worker[e.w].pc \in Nat /\ worker[e.w].sem \in Nat
    BY <2>1, Typed DEF WorkerStructs
  <2>3. CASE Crash
    BY <2>3, CrashTyped
  <2>4. CASE ~Crash
    <3>1. /\ worker[e.w].sem > 0
          /\ worker' = [worker EXCEPT ![e.w].sem = @ - 1]
          /\ IF Known(q)
             THEN /\ query' = [query EXCEPT ![q].pc = worker[e.w].pc, ![q].sp = e.to]
                  /\ evict' = [evict EXCEPT ![c].pc = "move", ![c].q = q]
             ELSE evict' = Return(c) /\ UNCHANGED query
          /\ UNCHANGED <<setup, queries, ready, lists, told, workers, acceptor, sched, conn,
                         hangup, net, up>>
      BY <1>4, <2>4, Zenon DEF EvictAnswered
    <3>2. worker' \in [Workers -> WorkerStructs]
      BY <2>1, <3>1, Typed, WorkerCounts
    <3>3. CASE Known(q)
      <4>1. q \in Queries
        BY <3>3, Typed DEF Known
      <4>2. e.to \in {"READY", "EXIT"}
        BY <1>1 DEF Calls
      <4>3. query' \in [Queries -> QueryStructs]
        <5>1. query' = [query EXCEPT ![q].pc = worker[e.w].pc, ![q].sp = e.to]
          BY <3>1, <3>3, Zenon
        <5> DEFINE n == worker[e.w].pc
                   sp == e.to
        <5>2. /\ query \in [Queries -> QueryStructs] /\ q \in Queries /\ n \in Nat
              /\ sp \in {"READY", "EXIT"} /\ query' = [query EXCEPT ![q].pc = n, ![q].sp = sp]
          BY <2>2, <4>1, <4>2, <5>1, Typed
        <5> HIDE DEF q, n, sp
        <5> QED  BY <5>2, QueryAnswered
      <4>4. evict' \in [Callers -> Calls]
        <5>1. evict' = [evict EXCEPT ![c].pc = "move", ![c].q = q]
          BY <3>1, <3>3, Zenon
        <5> HIDE DEF q
        <5> QED  BY <4>1, <5>1, Typed, CallMoves
      <4> QED  BY <3>1, <3>2, <4>3, <4>4, Typed DEF TypeOK, net
    <3>4. CASE ~Known(q)
      <4>1. evict' = Return(c) /\ query' = query
        BY <3>1, <3>4, Zenon
      <4>2. evict' \in [Callers -> Calls]
        BY <4>1, Typed, ReturnTyped
      <4> QED  BY <3>1, <3>2, <4>1, <4>2, Typed DEF TypeOK, net
    <3> QED  BY <3>3, <3>4
  <2> QED  BY <2>3, <2>4
<1>7. CASE EvictReads(c)
  <2> DEFINE s == query[e.q].sp
  <2>1. /\ s \in States \cup {"NONE"} /\ evict \in [Callers -> Calls]
        /\ evict' = [evict EXCEPT ![c].arg = s]
    BY <1>1, <1>7, Typed DEF EvictReads, QueryStructs
  <2> HIDE DEF s
  <2>2. evict' \in [Callers -> Calls]
    BY <2>1, CallReads
  <2> QED  BY <1>7, <2>2, Typed DEF EvictReads, TypeOK, states, net
<1>5. CASE EvictMove(c)
  <2> DEFINE to == e.arg
  <2>1. e.q \in Queries /\ to \in States \cup {"NONE"} /\ QueryTo(e.q, to)
    BY <1>1, <1>5, Typed DEF EvictMove, Calls
  <2> HIDE DEF to
  <2>2. /\ query' \in [Queries -> QueryStructs] /\ ready' \in Seq(Queries)
        /\ lists' \in [{"EXEC", "EXIT"} -> SUBSET Queries] /\ told' \subseteq Queries
    BY <2>1, Typed, QueryToKeeps
  <2>3. evict' \in [Callers -> Calls]
    BY <1>5, Typed, CallSet DEF EvictMove
  <2> QED  BY <1>5, <2>2, <2>3, Typed DEF EvictMove, TypeOK, net
<1>6. CASE EvictRelease(c)
  <2>1. e.w \in Workers
    BY <1>1, <1>6 DEF EvictRelease
  <2>4. worker' \in [Workers -> WorkerStructs]
    BY <1>6, <2>1, Typed, WorkerFreed DEF EvictRelease
  <2>5. evict' \in [Callers -> Calls]
    BY <1>6, Typed, ReturnTyped DEF EvictRelease
  <2> QED  BY <1>6, <2>4, <2>5, Typed DEF EvictRelease, TypeOK, states, net
<1> QED  BY <1>2, <1>3, <1>4, <1>5, <1>6, <1>7 DEF Eviction


(* Aging: the priority, and the calls of the threads that it starts. *)
LEMMA QueryAged ==
  ASSUME NEW f \in [Queries -> QueryStructs], NEW q \in Queries, NEW p \in Nat
  PROVE  /\ [f EXCEPT ![q].priority = p] \in [Queries -> QueryStructs]
         /\ \A r \in Queries : [f EXCEPT ![q].priority = p][r].sp = f[r].sp
  BY DEF QueryStructs

LEMMA AgedTyped ==
  ASSUME Inv, AgeQuery
  PROVE  /\ evict' \in [Callers -> Calls] /\ up' \in BOOLEAN
         /\ \A c \in Callers : \/ evict'[c] = evict[c]
                               \/ /\ c # Scheduler /\ \A q \in Queries : c # Hangup(q)
                                  /\ evict[c].pc = "idle" /\ evict'[c].pc = "check"
                                  /\ evict'[c].w \in Workers /\ evict'[c].to = "READY"
<1>1. ASSUME evict' = evict PROVE evict' \in [Callers -> Calls]
  BY <1>1, Typed
<1>2. up \in BOOLEAN
  BY Typed DEF TypeOK
<1>3. CASE evict' = evict
  <2>1. up' \in BOOLEAN
    BY <1>2, Zenon DEF AgeQuery
  <2> QED  BY <1>1, <1>3, <2>1
<1>4. CASE evict' # evict
  <2> DEFINE v == worker[FirstHit(sched.i, query[sched.i].priority - 1)].id_query
             Starts(c, w) == c = Evictor(w, CHOOSE n \in Slot(w) : TRUE)
  <2>1. /\ \A w \in ToEvict(v) : Slot(w) # {}
        /\ evict' = [c \in Callers |->
             IF \E w \in ToEvict(v) : Starts(c, w)
             THEN [NoCall EXCEPT !.pc = "check", !.w = c[2]] ELSE evict[c]]
        /\ up' = up
    BY <1>4, Zenon DEF AgeQuery
  <2> HIDE DEF v
  <2>2. ToEvict(v) \subseteq Workers
    BY Typed DEF ToEvict, WorkersOf
  <2>3. ASSUME NEW c \in Callers, NEW w \in ToEvict(v), Starts(c, w)
        PROVE  /\ c[2] = w /\ evict[c].pc = "idle"
               /\ c # Scheduler /\ \A q \in Queries : c # Hangup(q)
    <3>1. PICK n \in Slot(w) : c = Evictor(w, n)
      BY <2>1, <2>3
    <3> QED  BY <3>1 DEF Slot, Evictor, Scheduler, Hangup
  <2> HIDE DEF Starts
  <2>4. ASSUME NEW w \in Workers
        PROVE  /\ [NoCall EXCEPT !.pc = "check", !.w = w] \in Calls
               /\ [NoCall EXCEPT !.pc = "check", !.w = w].pc = "check"
               /\ [NoCall EXCEPT !.pc = "check", !.w = w].w = w
               /\ [NoCall EXCEPT !.pc = "check", !.w = w].to = "READY"
    BY DEF NoCall, Calls
  <2>5. ASSUME NEW c \in Callers
        PROVE  \/ evict'[c] = evict[c]
               \/ \E w \in ToEvict(v) :
                    Starts(c, w) /\ evict'[c] = [NoCall EXCEPT !.pc = "check", !.w = w]
    <3>1. CASE \E w \in ToEvict(v) : Starts(c, w)
      <4>1. PICK w \in ToEvict(v) : Starts(c, w)
        BY <3>1
      <4>2. c[2] = w
        BY <2>3, <4>1
      <4>3. evict'[c] = [NoCall EXCEPT !.pc = "check", !.w = c[2]]
        BY <2>1, <3>1, Zenon
      <4> QED  BY <4>1, <4>2, <4>3
    <3>2. CASE ~ \E w \in ToEvict(v) : Starts(c, w)
      BY <2>1, <3>2, Zenon
    <3> QED  BY <3>1, <3>2
  <2>6. ASSUME NEW c \in Callers
        PROVE  /\ evict'[c] \in Calls
               /\ \/ evict'[c] = evict[c]
                  \/ /\ c # Scheduler /\ \A q \in Queries : c # Hangup(q)
                     /\ evict[c].pc = "idle" /\ evict'[c].pc = "check"
                     /\ evict'[c].w \in Workers /\ evict'[c].to = "READY"
    <3>1. CASE evict'[c] = evict[c]
      BY <3>1, Typed
    <3>2. CASE \E w \in ToEvict(v) :
                 Starts(c, w) /\ evict'[c] = [NoCall EXCEPT !.pc = "check", !.w = w]
      <4>1. PICK w \in ToEvict(v) :
              Starts(c, w) /\ evict'[c] = [NoCall EXCEPT !.pc = "check", !.w = w]
        BY <3>2
      <4>2. w \in Workers
        BY <2>2
      <4>3. evict'[c] \in Calls /\ evict'[c].pc = "check" /\ evict'[c].w = w
            /\ evict'[c].to = "READY"
        BY <4>1, <4>2, <2>4
      <4> QED  BY <4>1, <4>2, <4>3, <2>3
    <3> QED  BY <2>5, <3>1, <3>2
  <2>7. DOMAIN evict' = Callers /\ evict' = [c \in Callers |-> evict'[c]]
    BY <2>1
  <2>8. evict' \in [Callers -> Calls]
    BY <2>6, <2>7
  <2> QED  BY <1>2, <2>1, <2>6, <2>8
<1> QED  BY <1>3, <1>4


(* The scheduler's places. *)
LEMMA SchedulerSet ==
  ASSUME NEW s \in SchedulerAt
  PROVE  /\ \A w \in Workers : [s EXCEPT !.pc = "pop", !.w = w] \in SchedulerAt
         /\ \A w \in Workers : [s EXCEPT !.pc = "again", !.w = w] \in SchedulerAt
         /\ \A q \in Queries : [s EXCEPT !.pc = "assign", !.q = q] \in SchedulerAt
         /\ \A w \in Workers, q \in Queries :
              [s EXCEPT !.pc = "assign", !.w = w, !.q = q] \in SchedulerAt
         /\ [s EXCEPT !.pc = "send"] \in SchedulerAt
         /\ [s EXCEPT !.pc = "exec"] \in SchedulerAt
         /\ [s EXCEPT !.pc = "busy"] \in SchedulerAt
         /\ [s EXCEPT !.pc = "execute", !.i = 0] \in SchedulerAt
         /\ [s EXCEPT !.i = @ + 1] \in SchedulerAt
<1>1. s.i \in Nat /\ s.i + 1 \in Nat
  BY DEF SchedulerAt
<1>2. [s EXCEPT !.i = @ + 1] = [s EXCEPT !.i = s.i + 1]
  OBVIOUS
<1>3. [s EXCEPT !.i = @ + 1] \in SchedulerAt
  BY <1>1, <1>2 DEF SchedulerAt
<1>4. /\ \A w \in Workers : [s EXCEPT !.pc = "pop", !.w = w] \in SchedulerAt
      /\ \A w \in Workers : [s EXCEPT !.pc = "again", !.w = w] \in SchedulerAt
      /\ \A q \in Queries : [s EXCEPT !.pc = "assign", !.q = q] \in SchedulerAt
  BY DEF SchedulerAt
<1>5. \A w \in Workers, q \in Queries :
        [s EXCEPT !.pc = "assign", !.w = w, !.q = q] \in SchedulerAt
  BY DEF SchedulerAt
<1>6. /\ [s EXCEPT !.pc = "send"] \in SchedulerAt
      /\ [s EXCEPT !.pc = "exec"] \in SchedulerAt
      /\ [s EXCEPT !.pc = "busy"] \in SchedulerAt
      /\ [s EXCEPT !.pc = "execute", !.i = 0] \in SchedulerAt
  BY DEF SchedulerAt
<1> QED  BY <1>1, <1>3, <1>4, <1>5, <1>6

LEMMA RestedTyped == Rested \in SchedulerAt /\ Rested.pc \in {"age", "execute"}
  BY DEF Rested, SchedulerAt

LEMMA FreeIsListed == Free \in SUBSET Listed
  BY DEF Free

(* The Queries of READY in another order. *)
LEMMA Reordered ==
  ASSUME ready \in Seq(Queries), ready # <<>>, NEW t \in [DOMAIN ready -> Queries]
  PROVE  t \in Seq(Queries) /\ t # <<>> /\ Tail(t) \in Seq(Queries) /\ Head(t) \in Queries
<1>1. DOMAIN ready = 1 .. Len(ready) /\ Len(ready) \in Nat \ {0}
  OBVIOUS
<1>2. t \in [1 .. Len(ready) -> Queries]
  BY <1>1
<1>3. t \in Seq(Queries) /\ Len(t) = Len(ready)
  BY <1>1, <1>2
<1> QED  BY <1>1, <1>3

LEMMA ScheduleTyped == Inv /\ Schedule => TypeOK'
<1> SUFFICES ASSUME Inv PROVE Schedule => TypeOK'
  OBVIOUS
<1>1. sched \in SchedulerAt
  BY Typed
<1>2. CASE NothingToDo
  <2>1. sched' \in SchedulerAt
    BY <1>2, RestedTyped DEF NothingToDo
  <2> QED  BY <1>2, <2>1, Typed DEF NothingToDo, TypeOK, states, net
<1>3. CASE ChooseWorker
  <2>1. First(Free) \in Workers
    BY <1>3, Typed, FreeIsListed, FirstIsOne DEF ChooseWorker
  <2>2. sched' \in SchedulerAt
    BY <1>1, <1>3, <2>1, SchedulerSet DEF ChooseWorker
  <2> QED  BY <1>3, <2>2, Typed DEF ChooseWorker, TypeOK, states, net
<1>4. CASE PopQuery
  <2>1. CASE ready = <<>>
    <3>1. sched' \in SchedulerAt /\ ready' = ready
      BY <1>4, <2>1, RestedTyped DEF PopQuery
    <3> QED  BY <1>4, <3>1, Typed DEF PopQuery, TypeOK, net
  <2>2. CASE ready # <<>>
    <3>1. PICK t \in [DOMAIN ready -> Queries] :
            /\ ready' = Tail(t)
            /\ sched' = [sched EXCEPT !.pc = "assign", !.q = Head(t)]
      BY <1>4, <2>2, Zenon DEF PopQuery
    <3>2. ready' \in Seq(Queries) /\ Head(t) \in Queries
      BY <2>2, <3>1, Typed, Reordered
    <3>3. sched' \in SchedulerAt
      BY <1>1, <3>1, <3>2, SchedulerSet
    <3> QED  BY <1>4, <3>2, <3>3, Typed DEF PopQuery, TypeOK, net
  <2> QED  BY <2>1, <2>2
<1>5. CASE ChooseByPriority
  <2>1. CASE Crash
    BY <2>1, CrashTyped
  <2>2. CASE ~Crash
    <3>1. ready # <<>> /\ ~NoLowest
      BY <1>5, <2>2, Zenon DEF ChooseByPriority, Execute
    <3>2. Lowest \in Workers
      BY <3>1, Typed, LowestIsOne
    <3>3. PICK t \in [DOMAIN ready -> Queries] :
            \/ /\ ready' = Tail(t)
               /\ sched' = [sched EXCEPT !.pc = "assign", !.w = Lowest, !.q = Head(t)]
               /\ UNCHANGED evict
            \/ /\ ready' = t
               /\ \/ /\ evict' = Call(Scheduler, Lowest, "READY")
                     /\ sched' = [sched EXCEPT !.pc = "again", !.w = Lowest]
                  \/ UNCHANGED <<sched, evict>>
      BY <1>5, <2>2, Zenon DEF ChooseByPriority
    <3>4. t \in Seq(Queries) /\ Tail(t) \in Seq(Queries) /\ Head(t) \in Queries
      BY <3>1, Typed, Reordered
    <3>5. Scheduler \in Callers
      BY DEF Callers
    <3>6. Call(Scheduler, Lowest, "READY") \in [Callers -> Calls]
      BY <3>2, <3>5, Typed, CallTyped
    <3>7. /\ [sched EXCEPT !.pc = "assign", !.w = Lowest, !.q = Head(t)] \in SchedulerAt
          /\ [sched EXCEPT !.pc = "again", !.w = Lowest] \in SchedulerAt
      BY <1>1, <3>2, <3>4, SchedulerSet
    <3>8. /\ ready' \in Seq(Queries) /\ sched' \in SchedulerAt
          /\ evict' \in [Callers -> Calls]
      BY <1>1, <3>3, <3>4, <3>6, <3>7, Typed
    <3>9. UNCHANGED <<setup, query, queries, lists, told, worker, workers, acceptor, conn,
                      hangup, net, up>>
      BY <1>5, <2>2, Zenon DEF ChooseByPriority
    <3> QED  BY <3>8, <3>9, Typed DEF TypeOK, net
  <2> QED  BY <2>1, <2>2
<1>6. CASE PopAgain
  <2>1. CASE ready = <<>>
    BY <1>6, <2>1, CrashTyped DEF PopAgain
  <2>2. CASE ready # <<>>
    <3>1. /\ ready' = Tail(ready)
          /\ sched' = [sched EXCEPT !.pc = "assign", !.q = Head(ready)]
          /\ UNCHANGED <<setup, query, queries, lists, told, worker, workers, acceptor, conn,
                         hangup, evict, net, up>>
      BY <1>6, <2>2, Zenon DEF PopAgain
    <3>2. Tail(ready) \in Seq(Queries) /\ Head(ready) \in Queries
      BY <2>2, Typed, TailKeeps
    <3>3. sched' \in SchedulerAt
      BY <1>1, <3>1, <3>2, SchedulerSet
    <3> QED  BY <3>1, <3>2, <3>3, Typed DEF TypeOK, net
  <2> QED  BY <2>1, <2>2
<1>7. CASE EvictFirst
  <2>1. sched.w \in Workers /\ Scheduler \in Callers
    BY <1>7, Typed DEF EvictFirst, SchedulerHolds, Callers
  <2>2. evict' \in [Callers -> Calls]
    BY <1>7, <2>1, Typed, CallTyped DEF EvictFirst
  <2>3. sched' \in SchedulerAt
    BY <1>1, <1>7, SchedulerSet DEF EvictFirst
  <2> QED  BY <1>7, <2>2, <2>3, Typed DEF EvictFirst, TypeOK, states, net
<1>8. CASE SendQuery
  <2>1. sched.w \in Workers /\ sched.q \in Queries
    BY <1>8, Typed DEF SendQuery, SchedulerHolds
  <2>2. query[sched.q].pc \in Nat
    BY <2>1, Typed DEF QueryStructs
  <2>3. Message("EXECUTE", sched.q, query[sched.q].pc) \in Messages
    BY <2>1, <2>2, MessageTyped
  <2>4. toWorker' \in [Workers -> Seq(Messages)]
    BY <1>8, <2>1, <2>3, Typed, SendTyped DEF SendQuery
  <2>5. worker' \in [Workers -> WorkerStructs]
    BY <1>8, <2>1, Typed, WorkerSet DEF SendQuery
  <2>6. sched' \in SchedulerAt
    BY <1>1, <1>8, SchedulerSet DEF SendQuery
  <2> QED  BY <1>8, <2>4, <2>5, <2>6, Typed DEF SendQuery, TypeOK, states
<1>9. CASE ToExec
  <2>1. sched.q \in Queries /\ QueryTo(sched.q, "EXEC") /\ "EXEC" \in States \cup {"NONE"}
    BY <1>9, Typed DEF ToExec, SchedulerHolds, States
  <2>2. /\ query' \in [Queries -> QueryStructs] /\ ready' \in Seq(Queries)
        /\ lists' \in [{"EXEC", "EXIT"} -> SUBSET Queries] /\ told' \subseteq Queries
    BY <2>1, Typed, QueryToKeeps
  <2>3. sched' \in SchedulerAt
    BY <1>1, <1>9, SchedulerSet DEF ToExec
  <2> QED  BY <1>9, <2>2, <2>3, Typed DEF ToExec, TypeOK, net
<1>10. CASE ToBusy
  <2>1. sched.w \in Workers
    BY <1>10, Typed DEF ToBusy, SchedulerHolds
  <2>2. worker' \in [Workers -> WorkerStructs]
    BY <1>10, <2>1, Typed, WorkerSet DEF ToBusy
  <2>3. sched' \in SchedulerAt
    BY <1>10, RestedTyped DEF ToBusy
  <2> QED  BY <1>10, <2>2, <2>3, Typed DEF ToBusy, TypeOK, states, net
<1>11. CASE AgeQuery
  <2> DEFINE q == sched.i
             p == query[q].priority - 1
  <2>1. /\ q \in queries /\ p >= 0
        /\ query' = [query EXCEPT ![q].priority = p]
        /\ sched' = [sched EXCEPT !.i = @ + 1]
        /\ UNCHANGED <<setup, queries, ready, lists, told, worker, workers, acceptor, conn,
                       hangup, net>>
    BY <1>11, Zenon DEF AgeQuery
  <2>2. q \in Queries /\ query[q].priority \in Nat
    BY <2>1, Typed DEF QueryStructs
  <2>3. query' \in [Queries -> QueryStructs]
    <3>1. p \in Nat
      BY <2>1, <2>2
    <3> HIDE DEF p, q
    <3> QED  BY <2>1, <2>2, <3>1, Typed, QueryAged
  <2>4. sched' \in SchedulerAt
    BY <1>1, <2>1, SchedulerSet
  <2>5. evict' \in [Callers -> Calls] /\ up' \in BOOLEAN
    BY <1>11, Typed, AgedTyped
  <2> QED  BY <2>1, <2>3, <2>4, <2>5, Typed DEF TypeOK, net
<1>12. CASE SkipQuery
  <2>1. sched' \in SchedulerAt
    BY <1>1, <1>12, SchedulerSet DEF SkipQuery
  <2> QED  BY <1>12, <2>1, Typed DEF SkipQuery, TypeOK, states, net
<1>13. CASE AgeEnd
  <2>1. sched' \in SchedulerAt
    BY <1>1, <1>13, SchedulerSet DEF AgeEnd
  <2> QED  BY <1>13, <2>1, Typed DEF AgeEnd, TypeOK, states, net
<1> QED  BY <1>2, <1>3, <1>4, <1>5, <1>6, <1>7, <1>8, <1>9, <1>10, <1>11, <1>12, <1>13
         DEF Schedule


(* Where a struct is in the list. *)
LEMMA IndexIsPlace ==
  ASSUME Inv, NEW w \in Workers
  PROVE  Index(w) \in Nat /\ (w \in Listed => Index(w) # 0)
<1>1. CASE w \in Listed
  <2>1. (\E i \in DOMAIN workers : workers[i] = w) /\ DOMAIN workers \subseteq Nat \ {0}
    BY <1>1, Typed DEF Listed
  <2>2. (CHOOSE i \in DOMAIN workers : workers[i] = w) \in Nat \ {0}
    BY <2>1
  <2> QED  BY <1>1, <2>2 DEF Index
<1>2. CASE w \notin Listed
  BY <1>2 DEF Index
<1> QED  BY <1>1, <1>2

(* disconnect_callback of a Worker: where it is in the list. *)
LEMMA ConnectionLost ==
  ASSUME Inv, NEW w \in Workers, LoseWorker(w)
  PROVE  /\ conn' \in [Workers -> ConnectionAt]
         /\ conn'[w].pc \in {"lost", "gone"} /\ (conn'[w].pc = "lost" => conn'[w].i # 0)
         /\ \A x \in Workers : x # w => conn'[x] = conn[x]
<1> DEFINE at == IF w \in Listed THEN "lost" ELSE "gone"
           i == Index(w)
<1>1. conn \in [Workers -> ConnectionAt] /\ conn[w] \in ConnectionAt
  BY Typed
<1>2. conn' = [conn EXCEPT ![w].pc = at, ![w].i = i]
  BY DEF LoseWorker
<1>3. i \in Nat /\ at \in {"lost", "gone"} /\ (at = "lost" => i # 0)
  BY IndexIsPlace
<1> HIDE DEF at, i
<1>4. [conn[w] EXCEPT !.pc = at, !.i = i] \in ConnectionAt
  BY <1>1, <1>3 DEF ConnectionAt
<1>5. conn' = [conn EXCEPT ![w] = [conn[w] EXCEPT !.pc = at, !.i = i]]
  BY <1>2
<1>6. conn'[w].pc = at /\ conn'[w].i = i
  BY <1>1, <1>5 DEF ConnectionAt
<1> QED  BY <1>1, <1>3, <1>4, <1>5, <1>6

(* disconnect_callback of a Query Control: what it asks of whom. *)
LEMMA HangupCalls ==
  ASSUME Inv, NEW q \in Queries, HangupExec(q)
  PROVE  /\ evict' \in [Callers -> Calls]
         /\ \/ evict' = evict
            \/ /\ evict'[Hangup(q)].pc = "check" /\ evict'[Hangup(q)].w \in Workers
               /\ evict'[Hangup(q)].to = "EXIT" /\ evict'[Hangup(q)].arg = "NONE"
               /\ \A d \in Callers : d # Hangup(q) => evict'[d] = evict[d]
<1>1. evict \in [Callers -> Calls] /\ Hangup(q) \in Callers
  BY Typed DEF Callers
<1>2. CASE query[q].sp = "EXEC" /\ WorkersOf(q) # {}
  <2>1. WorkersOf(q) \in SUBSET Listed
    BY DEF WorkersOf
  <2>2. First(WorkersOf(q)) \in Workers
    BY <1>2, <2>1, Typed, FirstIsOne
  <2>3. evict' = Call(Hangup(q), First(WorkersOf(q)), "EXIT")
    BY <1>2, Zenon DEF HangupExec
  <2> QED  BY <1>1, <2>2, <2>3, CallTyped
<1>3. CASE ~ (query[q].sp = "EXEC" /\ WorkersOf(q) # {})
  BY <1>1, <1>3 DEF HangupExec
<1> QED  BY <1>2, <1>3


LEMMA ServeTyped ==
  ASSUME Inv, NEW w \in Workers
  PROVE  Serve(w) => TypeOK'
<1>1. conn \in [Workers -> ConnectionAt] /\ worker \in [Workers -> WorkerStructs]
      /\ conn[w] \in ConnectionAt
  BY Typed
<1>2. ASSUME toMaster[w] # <<>>
      PROVE  /\ Head(toMaster[w]) \in Messages
             /\ Head(toMaster[w]).q \in Queries \cup {NoQuery} /\ Head(toMaster[w]).pc \in Nat
             /\ Taken(w) => toMaster' \in [Workers -> Seq(Messages)]
  <2>1. toMaster \in [Workers -> Seq(Messages)]
    BY Typed
  <2>2. Head(toMaster[w]) \in Messages /\ Tail(toMaster[w]) \in Seq(Messages)
    BY <1>2, <2>1
  <2>3. Taken(w) => toMaster' \in [Workers -> Seq(Messages)]
    BY <2>1, <2>2 DEF Taken
  <2> QED  BY <2>2, <2>3 DEF Messages
<1>3. CASE TakeEvicted(w)
  <2> DEFINE m == Head(toMaster[w])
  <2>1. CASE Crash
    BY <2>1, CrashTyped
  <2>2. CASE ~Crash
    <3>1. toMaster[w] # <<>>
      BY <1>3 DEF TakeEvicted, Arrives
    <3>2. /\ Taken(w)
          /\ worker' = [worker EXCEPT ![w].q = m.q, ![w].pc = m.pc,
                                      ![w].estoy_desalojando = FALSE, ![w].sem = @ + 1]
          /\ UNCHANGED <<setup, states, queries, workers, acceptor, sched, conn, hangup,
                         evict, toWorker, peer, up>>
      BY <1>3, <2>2, Zenon DEF TakeEvicted
    <3>3. toMaster' \in [Workers -> Seq(Messages)]
          /\ m.q \in Queries \cup {NoQuery} /\ m.pc \in Nat
      BY <1>2, <3>1, <3>2
    <3>4. worker' \in [Workers -> WorkerStructs]
      <4> DEFINE q == m.q
                 n == m.pc
      <4>1. /\ q \in Queries \cup {NoQuery} /\ n \in Nat
            /\ worker' = [worker EXCEPT ![w].q = q, ![w].pc = n,
                                        ![w].estoy_desalojando = FALSE, ![w].sem = @ + 1]
        BY <3>2, <3>3
      <4> HIDE DEF q, n
      <4> QED  BY <1>1, <4>1, WorkerAnswered
    <3> QED  BY <3>2, <3>3, <3>4, Typed DEF TypeOK, states
  <2> QED  BY <2>1, <2>2
<1>4. CASE TakeEnd(w)
  <2> DEFINE q == Head(toMaster[w]).q
  <2>1. CASE Crash
    BY <2>1, CrashTyped
  <2>2. CASE ~Crash
    <3>1. toMaster[w] # <<>>
      BY <1>4 DEF TakeEnd, Arrives
    <3>2. /\ Taken(w)
          /\ IF Known(q)
             THEN /\ told' = told \cup {q}
                  /\ conn' = [conn EXCEPT ![w].pc = "exit", ![w].q = q, ![w].i = Index(w)]
                  /\ UNCHANGED worker
             ELSE Freed(w) /\ UNCHANGED <<told, conn>>
          /\ UNCHANGED <<setup, query, queries, ready, lists, workers, acceptor, sched,
                         hangup, evict, toWorker, peer, up>>
      BY <1>4, <2>2, Zenon DEF TakeEnd
    <3>3. toMaster' \in [Workers -> Seq(Messages)]
      BY <1>2, <3>1, <3>2
    <3> HIDE DEF q
    <3>4. CASE Known(q)
      <4>1. q \in Queries
        BY <3>4, Typed DEF Known
      <4>2. told' \subseteq Queries /\ conn' \in [Workers -> ConnectionAt] /\ worker' = worker
        <5>1. /\ told' = told \cup {q}
              /\ conn' = [conn EXCEPT ![w].pc = "exit", ![w].q = q, ![w].i = Index(w)]
              /\ worker' = worker
          BY <3>2, <3>4, Zenon
        <5>3. Index(w) \in Nat
          BY IndexIsPlace
        <5>2. told' \subseteq Queries
          BY <4>1, <5>1, Typed
        <5> QED  BY <1>1, <4>1, <5>1, <5>2, <5>3, ConnectionEnds
      <4> QED  BY <3>2, <3>3, <4>2, Typed DEF TypeOK
    <3>5. CASE ~Known(q)
      <4>1. worker' \in [Workers -> WorkerStructs] /\ told' = told /\ conn' = conn
        <5>1. Freed(w) /\ told' = told /\ conn' = conn
          BY <3>2, <3>5, Zenon
        <5> QED  BY <1>1, <5>1, WorkerFreed DEF Freed
      <4> QED  BY <3>2, <3>3, <4>1, Typed DEF TypeOK
    <3> QED  BY <3>4, <3>5
  <2> QED  BY <2>1, <2>2
<1>5. CASE EndExit(w)
  <2>1. /\ conn[w].q \in Queries /\ Moved(conn[w].q, "EXIT") /\ "EXIT" \in States \cup {"NONE"}
    BY <1>5, Typed DEF EndExit, ConnectionsHold, States
  <2>2. /\ query' \in [Queries -> QueryStructs] /\ ready' \in Seq(Queries)
        /\ lists' \in [{"EXEC", "EXIT"} -> SUBSET Queries]
    BY <2>1, Typed, MovedKeeps
  <2>3. conn' \in [Workers -> ConnectionAt]
    BY <1>1, <1>5, ConnectionSet DEF EndExit
  <2> QED  BY <1>5, <2>2, <2>3, Typed DEF EndExit, TypeOK, net
<1>6. CASE EndFree(w)
  <2>1. CASE Crash
    BY <2>1, CrashTyped
  <2>2. CASE ~Crash
    <3>1. /\ Freed(w) /\ conn' = [conn EXCEPT ![w].pc = "idle", ![w].q = NoQuery, ![w].i = 0]
          /\ UNCHANGED <<setup, states, queries, workers, acceptor, sched, hangup, evict, net,
                         up>>
      BY <1>6, <2>2, Zenon DEF EndFree
    <3>2. worker' \in [Workers -> WorkerStructs]
      BY <1>1, <3>1, WorkerFreed DEF Freed
    <3>3. conn' \in [Workers -> ConnectionAt]
      BY <1>1, <3>1, ConnectionEnds
    <3> QED  BY <3>1, <3>2, <3>3, Typed DEF TypeOK, states, net
  <2> QED  BY <2>1, <2>2
<1>7. CASE LoseWorker(w)
  <2>1. conn' \in [Workers -> ConnectionAt]
    BY <1>7, Typed, ConnectionLost
  <2> QED  BY <1>7, <2>1, Typed DEF LoseWorker, TypeOK, states, net
<1>8. CASE LoseQuery(w)
  <2> DEFINE q == worker[w].id_query
  <2>1. conn' \in [Workers -> ConnectionAt]
    BY <1>1, <1>8, ConnectionSet DEF LoseQuery
  <2>2. /\ query' \in [Queries -> QueryStructs] /\ ready' \in Seq(Queries)
        /\ lists' \in [{"EXEC", "EXIT"} -> SUBSET Queries] /\ told' \subseteq Queries
    <3>1. CASE Known(q)
      <4>1. q \in Queries /\ QueryTo(q, "EXIT") /\ "EXIT" \in States \cup {"NONE"}
        BY <1>8, <3>1, Typed DEF Known, LoseQuery, States
      <4> HIDE DEF q
      <4> QED  BY <4>1, Typed, QueryToKeeps
    <3>2. CASE ~Known(q)
      BY <1>8, <3>2, Typed DEF LoseQuery, states
    <3> QED  BY <3>1, <3>2
  <2> QED  BY <1>8, <2>1, <2>2, Typed DEF LoseQuery, TypeOK, net
<1>9. CASE RemoveWorker(w)
  <2>1. conn' \in [Workers -> ConnectionAt]
    BY <1>1, <1>9, ConnectionSet DEF RemoveWorker
  <2>2. workers' \in Seq(Workers)
    <3> DEFINE k == conn[w].i
    <3>1. k \in Nat \ {0}
      BY <1>1, <1>9, Typed DEF RemoveWorker, ConnectionsHold, ConnectionAt
    <3>2. workers' = IF k <= Len(workers) THEN Removed(workers, k) ELSE workers
      BY <1>9, Zenon DEF RemoveWorker
    <3>3. workers \in Seq(Workers)
      BY Typed
    <3> HIDE DEF k
    <3>4. CASE k <= Len(workers)
      <4>1. k \in 1 .. Len(workers)
        BY <3>1, <3>3, <3>4
      <4>2. Removed(workers, k) \in Seq(Workers)
        BY <3>3, <4>1, WithoutOne DEF Removed
      <4> QED  BY <3>2, <3>4, <4>2, Zenon
    <3>5. CASE ~ (k <= Len(workers))
      BY <3>2, <3>3, <3>5, Zenon
    <3> QED  BY <3>4, <3>5
  <2> QED  BY <1>9, <2>1, <2>2, Typed DEF RemoveWorker, TypeOK, states, net
<1> QED  BY <1>3, <1>4, <1>5, <1>6, <1>7, <1>8, <1>9 DEF Serve

LEMMA HangupSet ==
  ASSUME NEW f \in [Queries -> {"none", "exit", "exec", "gone"}], NEW q \in Queries,
         NEW l \in {"none", "exit", "exec", "gone"}
  PROVE  [f EXCEPT ![q] = l] \in [Queries -> {"none", "exit", "exec", "gone"}]
  OBVIOUS

LEMMA HangupTyped ==
  ASSUME Inv, NEW q \in Queries
  PROVE  HangUp(q) \/ Closed(q) => TypeOK'
<1>1. hangup \in [Queries -> {"none", "exit", "exec", "gone"}]
  BY Typed
<1>2. CASE HangUp(q)
  <2> DEFINE l == CASE query[q].sp = "READY" -> "exit"
                    [] query[q].sp = "EXEC" -> "exec"
                    [] OTHER -> "gone"
  <2>1. hangup' = [hangup EXCEPT ![q] = l]
    BY <1>2, Zenon DEF HangUp
  <2>2. l \in {"none", "exit", "exec", "gone"}
    OBVIOUS
  <2> HIDE DEF l
  <2>3. hangup' \in [Queries -> {"none", "exit", "exec", "gone"}]
    BY <1>1, <2>1, <2>2
  <2> QED  BY <1>2, <2>3, Typed DEF HangUp, TypeOK, states, net
<1>3. CASE HangupExit(q)
  <2>1. QueryTo(q, "EXIT") /\ "EXIT" \in States \cup {"NONE"}
    BY <1>3 DEF HangupExit, States
  <2>2. /\ query' \in [Queries -> QueryStructs] /\ ready' \in Seq(Queries)
        /\ lists' \in [{"EXEC", "EXIT"} -> SUBSET Queries] /\ told' \subseteq Queries
    BY <2>1, Typed, QueryToKeeps
  <2>3. hangup' \in [Queries -> {"none", "exit", "exec", "gone"}]
    BY <1>1, <1>3 DEF HangupExit
  <2> QED  BY <1>3, <2>2, <2>3, Typed DEF HangupExit, TypeOK, net
<1>4. CASE HangupExec(q)
  <2>1. hangup' \in [Queries -> {"none", "exit", "exec", "gone"}]
    BY <1>1, <1>4 DEF HangupExec
  <2>2. evict' \in [Callers -> Calls]
    BY <1>4, Typed, HangupCalls
  <2> QED  BY <1>4, <2>1, <2>2, Typed DEF HangupExec, TypeOK, states, net
<1> QED  BY <1>2, <1>3, <1>4 DEF Closed


(* The Workers, as far as the Master can tell. *)
LEMMA PeerSet ==
  ASSUME NEW p \in Peers
  PROVE  /\ [p EXCEPT !.desalojado = TRUE] \in Peers
         /\ [p EXCEPT !.at = "ended"] \in Peers
         /\ \A q \in Queries \cup {NoQuery}, pc \in Nat :
              /\ [p EXCEPT !.q = q, !.pc = pc, !.at = "run"] \in Peers
              /\ [p EXCEPT !.q = q, !.pc = pc, !.given = TRUE] \in Peers
  BY DEF Peers

LEMMA PeerInterrupted ==
  ASSUME NEW p \in Peers, NEW pc \in Nat, NEW at \in {"idle", "run", "ended", "out"},
         NEW given \in BOOLEAN
  PROVE  [p EXCEPT !.pc = pc, !.at = at, !.given = given, !.desalojado = FALSE] \in Peers
  BY DEF Peers

LEMMA BecomesTyped ==
  ASSUME peer \in [Workers -> Peers], NEW w \in Workers, NEW p \in Peers, Becomes(w, p)
  PROVE  peer' \in [Workers -> Peers] /\ peer'[w] = p
         /\ \A x \in Workers : x # w => peer'[x] = peer[x]
  BY DEF Becomes

LEMMA AnswerTyped ==
  ASSUME toMaster \in [Workers -> Seq(Messages)], NEW w \in Workers, NEW m \in Messages,
         Answer(w, m)
  PROVE  toMaster' \in [Workers -> Seq(Messages)]
<1>1. Append(toMaster[w], m) \in Seq(Messages)
  OBVIOUS
<1> QED  BY <1>1 DEF Answer

LEMMA InterruptedTyped ==
  ASSUME Inv, NEW w \in Workers, NEW pc \in Nat, NEW at \in {"idle", "run", "ended", "out"},
         NEW given \in BOOLEAN
  PROVE  Interrupted(w, pc, at, given) => TypeOK'
<1> SUFFICES ASSUME Interrupted(w, pc, at, given) PROVE TypeOK'
  OBVIOUS
<1>1. peer[w] \in Peers /\ peer \in [Workers -> Peers]
  BY Typed
<1>2. peer' \in [Workers -> Peers]
  <2> DEFINE p == [peer[w] EXCEPT !.pc = pc, !.at = at, !.given = given, !.desalojado = FALSE]
  <2>1. p \in Peers
    BY <1>1, PeerInterrupted
  <2>2. Becomes(w, p)
    BY Zenon DEF Interrupted
  <2> HIDE DEF p
  <2> QED  BY <1>1, <2>1, <2>2, BecomesTyped
<1>3. toMaster' \in [Workers -> Seq(Messages)]
  <2>1. peer[w].q \in Queries \cup {NoQuery}
    BY <1>1 DEF Peers
  <2>2. Message("EVICTED", peer[w].q, pc) \in Messages
    BY <2>1, MessageTyped
  <2>3. Answer(w, Message("EVICTED", peer[w].q, pc)) \/ toMaster' = toMaster
    BY Zenon DEF Interrupted
  <2> QED  BY <2>2, <2>3, Typed, AnswerTyped
<1>4. UNCHANGED <<Master, toWorker>>
  BY Zenon DEF Interrupted
<1> QED  BY <1>2, <1>3, <1>4, Typed DEF Master, states, TypeOK

LEMMA PeerTyped ==
  ASSUME Inv, NEW w \in Workers
  PROVE  Peer(w) \/ PeerDies(w) => TypeOK'
<1>1. /\ peer \in [Workers -> Peers] /\ peer[w] \in Peers
      /\ peer[w].pc \in Nat /\ peer[w].pc + 1 \in Nat /\ peer[w].pc + 0 \in Nat
      /\ peer[w].q \in Queries \cup {NoQuery} /\ peer[w].given \in BOOLEAN
  BY Typed DEF Peers
<1>2. CASE PeerTakes(w)
  <2> DEFINE m == Head(toWorker[w])
             p == CASE m.op = "EVICT" -> [peer[w] EXCEPT !.desalojado = TRUE]
                    [] peer[w].at = "idle" ->
                         [peer[w] EXCEPT !.q = m.q, !.pc = m.pc, !.at = "run"]
                    [] OTHER -> [peer[w] EXCEPT !.q = m.q, !.pc = m.pc, !.given = TRUE]
  <2>1. toWorker[w] # <<>> /\ toWorker' = [toWorker EXCEPT ![w] = Tail(toWorker[w])]
    BY <1>2, Typed DEF PeerTakes
  <2>2. m \in Messages /\ toWorker' \in [Workers -> Seq(Messages)]
    <3>1. toWorker \in [Workers -> Seq(Messages)]
      BY Typed
    <3>2. m \in Messages /\ Tail(toWorker[w]) \in Seq(Messages)
      BY <2>1, <3>1
    <3> QED  BY <2>1, <3>1, <3>2
  <2>3. m.q \in Queries \cup {NoQuery} /\ m.pc \in Nat
    BY <2>2 DEF Messages
  <2>4. Becomes(w, p)
    BY <1>2, Zenon DEF PeerTakes
  <2>5. p \in Peers
    <3> HIDE DEF m
    <3>1. /\ [peer[w] EXCEPT !.desalojado = TRUE] \in Peers
          /\ [peer[w] EXCEPT !.q = m.q, !.pc = m.pc, !.at = "run"] \in Peers
          /\ [peer[w] EXCEPT !.q = m.q, !.pc = m.pc, !.given = TRUE] \in Peers
      BY <1>1, <2>3, PeerSet
    <3> QED  BY <3>1, Zenon
  <2> HIDE DEF p
  <2>6. peer' \in [Workers -> Peers]
    BY <1>1, <2>4, <2>5, BecomesTyped
  <2> QED  BY <1>2, <2>2, <2>6, Typed DEF PeerTakes, Master, states, TypeOK
<1>3. CASE PeerSteps(w)
  <2>1. PICK at \in {"out", "run"} : Interrupted(w, peer[w].pc + 1, at, FALSE)
    BY <1>3, Zenon DEF PeerSteps
  <2> QED  BY <1>1, <2>1, InterruptedTyped
<1>4. CASE PeerEnds(w)
  <2>1. [peer[w] EXCEPT !.at = "ended"] \in Peers /\ Message("END", peer[w].q, 0) \in Messages
    <3>1. 0 \in Nat
      OBVIOUS
    <3> QED  BY <1>1, <3>1, PeerSet, MessageTyped
  <2>2. toMaster' \in [Workers -> Seq(Messages)] /\ peer' \in [Workers -> Peers]
    BY <1>1, <1>4, <2>1, Typed, AnswerTyped, BecomesTyped DEF PeerEnds
  <2> QED  BY <1>4, <2>2, Typed DEF PeerEnds, Master, states, TypeOK
<1>5. CASE PeerErrs(w)
  <2>1. Message("END", peer[w].q, 0) \in Messages
    <3>1. 0 \in Nat
      OBVIOUS
    <3> QED  BY <1>1, <3>1, MessageTyped
  <2>2. toMaster' \in [Workers -> Seq(Messages)]
    BY <1>5, <2>1, Typed, AnswerTyped DEF PeerErrs
  <2> QED  BY <1>5, <2>2, Typed DEF PeerErrs, Master, states, TypeOK
<1>6. CASE PeerEnded(w)
  BY <1>1, <1>6, InterruptedTyped DEF PeerEnded
<1>7. CASE PeerLeaves(w)
  <2>1. PICK done \in {0, 1} : Interrupted(w, peer[w].pc + done, "out", TRUE)
    BY <1>7, Zenon DEF PeerLeaves
  <2>2. peer[w].pc + done \in Nat
    BY <1>1, <2>1
  <2> QED  BY <2>1, <2>2, InterruptedTyped
<1>8. CASE PeerStops(w)
  <2>1. PICK at \in {"idle", "run"} : Interrupted(w, peer[w].pc, at, FALSE)
    BY <1>8, Zenon DEF PeerStops
  <2> QED  BY <1>1, <2>1, InterruptedTyped
<1>9. CASE PeerDies(w)
  <2>1. [FreshPeer EXCEPT !.up = FALSE] \in Peers
    BY DEF FreshPeer, Peers
  <2>2. peer' \in [Workers -> Peers]
    BY <1>1, <1>9, <2>1, BecomesTyped DEF PeerDies
  <2>3. toWorker' \in [Workers -> Seq(Messages)]
    BY <1>9, Typed DEF PeerDies
  <2> QED  BY <1>9, <2>2, <2>3, Typed DEF PeerDies, Master, states, TypeOK
<1> QED  BY <1>2, <1>3, <1>4, <1>5, <1>6, <1>7, <1>8, <1>9 DEF Peer, PeerGoes

(* Every step. *)
LEMMA NextTyped == Inv /\ Next => TypeOK'
<1> SUFFICES ASSUME Inv PROVE Next => TypeOK'
  OBVIOUS
<1> QED  BY AcceptTyped, ScheduleTyped, EvictionTyped, ServeTyped, HangupTyped, PeerTyped DEF Next


-----------------------------------------------------------------------------
(* What the steps of each thread leave alone *)

LEMMA AcceptFrame == Accept => UNCHANGED <<setup, worker, sched, hangup, evict, net>>
  BY Zenon DEF Accept, ListQuery, ConnectQuery, ConnectWorker, states, net

LEMMA ScheduleFrame == Schedule => UNCHANGED <<setup, conn, hangup, toMaster, peer>>
  BY Zenon DEF Schedule, NothingToDo, ChooseWorker, PopQuery, ChooseByPriority, PopAgain,
     EvictFirst, SendQuery, ToExec, ToBusy, AgeQuery, SkipQuery, AgeEnd, Crash, states, net

LEMMA EvictionFrame ==
  ASSUME NEW c \in Callers
  PROVE  Eviction(c) => UNCHANGED <<setup, sched, conn, hangup, toMaster, peer>>
  BY Zenon DEF Eviction, EvictCheck, EvictSend, EvictAnswered, EvictReads, EvictMove, EvictRelease,
     Crash, states, net

LEMMA ServeFrame ==
  ASSUME NEW w \in Workers
  PROVE  Serve(w) => UNCHANGED <<setup, sched, hangup, evict, toWorker, peer>>
  BY Zenon DEF Serve, TakeEvicted, TakeEnd, EndExit, EndFree, LoseWorker, LoseQuery,
     RemoveWorker, Crash, states, net

LEMMA HangupFrame ==
  ASSUME NEW q \in Queries
  PROVE  HangUp(q) \/ Closed(q) => UNCHANGED <<setup, sched, conn, worker, net>>
  BY Zenon DEF Closed, HangUp, HangupExit, HangupExec, states, net

LEMMA PeerFrame ==
  ASSUME NEW w \in Workers
  PROVE  Peer(w) \/ PeerDies(w) => UNCHANGED Master
  BY Zenon DEF Peer, PeerTakes, PeerSteps, PeerErrs, PeerGoes, PeerEnds, PeerEnded, PeerLeaves,
     PeerStops, PeerDies, Interrupted

-----------------------------------------------------------------------------
(* What the threads hold *)

(* One step of a call of _desalojo_abstract. *)
LEMMA CallGoes ==
  ASSUME Inv, NEW c \in Callers, Eviction(c)
  PROVE  /\ evict[c].pc # "idle"
         /\ \A d \in Callers : d # c => evict'[d] = evict[d]
         /\ \/ evict'[c].pc = "idle"
            \/ evict'[c].w = evict[c].w /\ evict'[c].to = evict[c].to
         /\ evict'[c].pc = "move" =>
              /\ evict'[c].q \in Queries
              /\ \/ evict[c].pc = "wait" /\ query'[evict'[c].q].sp = evict[c].to
                 \/ evict[c].pc = "move" /\ evict'[c].q = evict[c].q /\ query' = query
<1>1. evict \in [Callers -> Calls] /\ evict[c] \in Calls
  BY Typed
<1>2. CASE Crash /\ evict[c].pc = "wait"
  <2>1. evict' = evict
    BY <1>2 DEF Crash
  <2> QED  BY <1>2, <2>1
<1>3. CASE EvictCheck(c)
  <2>1. evict' = Return(c) \/ evict' = [evict EXCEPT ![c].pc = "send"]
    BY <1>3, Zenon DEF EvictCheck
  <2>2. evict[c].pc = "check"
    BY <1>3 DEF EvictCheck
  <2>3. CASE evict' = Return(c)
    BY <1>1, <2>2, <2>3, ReturnTyped
  <2>4. CASE evict' = [evict EXCEPT ![c].pc = "send"]
    BY <1>1, <2>2, <2>4 DEF Calls
  <2> QED  BY <2>1, <2>3, <2>4
<1>4. CASE EvictSend(c)
  <2>1. /\ evict[c].pc = "send"
        /\ evict' = [evict EXCEPT ![c].pc = "wait",
                                  ![c].blind = ~Known(worker[evict[c].w].id_query)]
    BY <1>4, Zenon DEF EvictSend
  <2>2. PICK b : evict' = [evict EXCEPT ![c].pc = "wait", ![c].blind = b]
    BY <2>1
  <2> QED  BY <1>1, <2>1, <2>2 DEF Calls
<1>5. CASE EvictAnswered(c) /\ ~Crash
  <2> DEFINE q == worker[evict[c].w].q
  <2>1. /\ evict[c].pc = "wait"
        /\ IF Known(q)
           THEN /\ query' = [query EXCEPT ![q].pc = worker[evict[c].w].pc, ![q].sp = evict[c].to]
                /\ evict' = [evict EXCEPT ![c].pc = "move", ![c].q = q]
           ELSE evict' = Return(c) /\ UNCHANGED query
    BY <1>5, Zenon DEF EvictAnswered
  <2>2. CASE Known(q)
    <3>1. q \in Queries
      BY <2>2, Typed DEF Known
    <3>2. worker[evict[c].w].pc \in Nat /\ evict[c].to \in {"READY", "EXIT"}
      <4>1. evict[c].w \in Workers
        BY <2>1, Typed DEF CallsHold
      <4> QED  BY <1>1, <4>1, Typed DEF WorkerStructs, Calls
    <3> DEFINE n == worker[evict[c].w].pc
               to == evict[c].to
    <3>3. /\ query' = [query EXCEPT ![q].pc = n, ![q].sp = to]
          /\ evict' = [evict EXCEPT ![c].pc = "move", ![c].q = q]
          /\ n \in Nat /\ to \in {"READY", "EXIT"} /\ query \in [Queries -> QueryStructs]
      BY <2>1, <2>2, <3>2, Typed
    <3>4. to = evict[c].to
      OBVIOUS
    <3> HIDE DEF q, n, to
    <3>5. query'[q].sp = to
      BY <3>1, <3>3, QueryAnswered
    <3>6. /\ evict'[c].pc = "move" /\ evict'[c].q = q /\ evict'[c].w = evict[c].w
          /\ evict'[c].to = evict[c].to
          /\ \A d \in Callers : d # c => evict'[d] = evict[d]
      BY <1>1, <3>3 DEF Calls
    <3> QED  BY <2>1, <3>1, <3>4, <3>5, <3>6
  <2>3. CASE ~Known(q)
    <3>1. evict' = Return(c)
      BY <2>1, <2>3, Zenon
    <3> QED  BY <1>1, <2>1, <3>1, ReturnTyped
  <2> QED  BY <2>2, <2>3
<1>9. CASE EvictReads(c)
  <2> DEFINE s == query[evict[c].q].sp
  <2>1. /\ evict[c].pc = "move" /\ evict' = [evict EXCEPT ![c].arg = s] /\ query' = query
    BY <1>9 DEF EvictReads, states
  <2>2. evict[c].q \in Queries /\ s \in States \cup {"NONE"}
    BY <2>1, Typed DEF CallsHold, QueryStructs
  <2> HIDE DEF s
  <2>3. /\ evict'[c].pc = "move" /\ evict'[c].w = evict[c].w /\ evict'[c].to = evict[c].to
        /\ evict'[c].q = evict[c].q /\ \A d \in Callers : d # c => evict'[d] = evict[d]
    BY <1>1, <2>1, <2>2, CallReads
  <2> QED  BY <2>1, <2>2, <2>3
<1>6. CASE EvictMove(c)
  <2>1. evict[c].pc = "move" /\ evict' = [evict EXCEPT ![c].pc = "release"]
    BY <1>6 DEF EvictMove
  <2> QED  BY <1>1, <2>1 DEF Calls
<1>7. CASE EvictRelease(c)
  <2>1. evict[c].pc = "release" /\ evict' = Return(c)
    BY <1>7 DEF EvictRelease
  <2> QED  BY <1>1, <2>1, ReturnTyped
<1>8. EvictAnswered(c) => evict[c].pc = "wait"
  BY Zenon DEF EvictAnswered
<1> QED  BY <1>2, <1>3, <1>4, <1>5, <1>6, <1>7, <1>8, <1>9 DEF Eviction

(* Where the scheduler calls it from. *)
LEMMA ScheduleCalls ==
  ASSUME Inv, Schedule
  PROVE  /\ \A c \in Callers :
              \/ evict'[c] = evict[c]
              \/ /\ evict[c].pc = "idle" /\ evict'[c].pc = "check"
                 /\ evict'[c].w \in Workers /\ evict'[c].to = "READY"
                 /\ \A q \in Queries : c # Hangup(q)
                 /\ c = Scheduler => sched'.pc \in {"again", "send"}
         /\ evict'[Scheduler].pc # "idle" => sched'.pc \in {"again", "send"}
<1>1. /\ evict \in [Callers -> Calls] /\ Scheduler \in Callers /\ sched \in SchedulerAt
      /\ \A q \in Queries : Scheduler # Hangup(q)
  BY Typed DEF Callers, Scheduler, Hangup
<1>2. evict[Scheduler].pc # "idle" => sched.pc \in {"again", "send"}
  BY DEF Inv, CallsOfThreads
<1>3. ASSUME evict' = Call(Scheduler, sched'.w, "READY"), sched'.w \in Workers,
             sched.pc \notin {"again", "send"}, sched'.pc \in {"again", "send"}
      PROVE  /\ \A c \in Callers :
                  \/ evict'[c] = evict[c]
                  \/ /\ evict[c].pc = "idle" /\ evict'[c].pc = "check"
                     /\ evict'[c].w \in Workers /\ evict'[c].to = "READY"
                     /\ \A q \in Queries : c # Hangup(q)
                     /\ c = Scheduler => sched'.pc \in {"again", "send"}
             /\ evict'[Scheduler].pc # "idle" => sched'.pc \in {"again", "send"}
  BY <1>1, <1>2, <1>3, CallTyped
<1>4. CASE ChooseByPriority
  <2>1. CASE evict' = evict
    <3>1. sched.pc = "execute"
      BY <1>4 DEF ChooseByPriority, Execute
    <3> QED  BY <1>2, <2>1, <3>1
  <2>2. CASE evict' # evict
    <3>1. /\ evict' = Call(Scheduler, Lowest, "READY")
          /\ sched' = [sched EXCEPT !.pc = "again", !.w = Lowest]
          /\ ~NoLowest /\ sched.pc = "execute"
      BY <1>4, <2>2, Zenon DEF ChooseByPriority, Crash, Execute
    <3>2. Lowest \in Workers
      BY <3>1, Typed, LowestIsOne
    <3>3. sched'.pc = "again" /\ sched'.w = Lowest
      BY <1>1, <3>1 DEF SchedulerAt
    <3> QED  BY <1>3, <3>1, <3>2, <3>3
  <2> QED  BY <2>1, <2>2
<1>5. CASE EvictFirst
  <2>1. sched'.pc = "send" /\ sched'.w = sched.w /\ sched.w \in Workers
        /\ evict' = Call(Scheduler, sched.w, "READY") /\ sched.pc = "assign"
    BY <1>1, <1>5, Typed DEF EvictFirst, SchedulerAt, SchedulerHolds
  <2> QED  BY <1>3, <2>1
<1>6. CASE AgeQuery
  <2>1. sched.pc = "age"
    BY <1>6 DEF AgeQuery
  <2> QED  BY <1>1, <1>2, <1>6, <2>1, AgedTyped
<1>7. ASSUME evict' = evict, evict[Scheduler].pc = "idle"
      PROVE  /\ \A c \in Callers : evict'[c] = evict[c]
             /\ evict'[Scheduler].pc = "idle"
  BY <1>7
<1>8. CASE NothingToDo \/ ChooseWorker \/ PopQuery \/ ToExec \/ ToBusy \/ SkipQuery \/ AgeEnd
  <2>1. sched.pc \notin {"again", "send"} /\ evict' = evict
    BY <1>8 DEF NothingToDo, ChooseWorker, PopQuery, ToExec, ToBusy, SkipQuery, AgeEnd, Execute
  <2> QED  BY <1>2, <1>7, <2>1
<1>9. CASE PopAgain
  <2>1. evict[Scheduler].pc = "idle" /\ evict' = evict
    BY <1>9 DEF PopAgain, Crash
  <2> QED  BY <1>7, <2>1
<1>10. CASE SendQuery
  <2>1. evict[Scheduler].pc = "idle" /\ evict' = evict
    BY <1>2, <1>10 DEF SendQuery
  <2> QED  BY <1>7, <2>1
<1> QED  BY <1>4, <1>5, <1>6, <1>8, <1>9, <1>10 DEF Schedule


LEMMA SchedulerHoldsKept == Inv /\ Next => SchedulerHolds'
<1> SUFFICES ASSUME Inv PROVE Next => SchedulerHolds'
  OBVIOUS
<1>1. sched \in SchedulerAt /\ SchedulerHolds
  BY Typed
<1>2. CASE sched' = sched
  BY <1>1, <1>2 DEF SchedulerHolds
<1>3. CASE NothingToDo \/ ToBusy \/ AgeEnd \/ SkipQuery \/ AgeQuery
  <2>1. sched'.pc \in {"age", "execute"}
    <3>1. CASE NothingToDo \/ ToBusy
      BY <3>1, RestedTyped DEF NothingToDo, ToBusy
    <3>2. CASE AgeEnd \/ SkipQuery \/ AgeQuery
      BY <1>1, <3>2 DEF AgeEnd, SkipQuery, AgeQuery, SchedulerAt
    <3> QED  BY <1>3, <3>1, <3>2
  <2> QED  BY <2>1 DEF SchedulerHolds
<1>4. CASE ChooseWorker
  <2>1. First(Free) \in Workers
    BY <1>4, Typed, FreeIsListed, FirstIsOne DEF ChooseWorker
  <2>2. sched'.pc = "pop" /\ sched'.w = First(Free)
    BY <1>1, <1>4 DEF ChooseWorker, SchedulerAt
  <2> QED  BY <2>1, <2>2 DEF SchedulerHolds
<1>5. CASE PopQuery
  <2>1. CASE ready = <<>>
    <3>1. sched'.pc \in {"age", "execute"}
      BY <1>5, <2>1, RestedTyped DEF PopQuery
    <3> QED  BY <3>1 DEF SchedulerHolds
  <2>2. CASE ready # <<>>
    <3>1. PICK t \in [DOMAIN ready -> Queries] :
            sched' = [sched EXCEPT !.pc = "assign", !.q = Head(t)]
      BY <1>5, <2>2, Zenon DEF PopQuery
    <3>2. Head(t) \in Queries
      BY <2>2, Typed, Reordered
    <3>3. sched'.pc = "assign" /\ sched'.q = Head(t) /\ sched'.w = sched.w /\ sched.pc = "pop"
      BY <1>1, <1>5, <3>1 DEF SchedulerAt, PopQuery
    <3> QED  BY <1>1, <3>2, <3>3 DEF SchedulerHolds
  <2> QED  BY <2>1, <2>2
<1>6. CASE ChooseByPriority
  <2>1. CASE sched' # sched
    <3>1. ready # <<>> /\ ~NoLowest
      BY <1>6, <2>1, Zenon DEF ChooseByPriority, Execute, Crash
    <3>2. PICK t \in [DOMAIN ready -> Queries] :
            \/ sched' = [sched EXCEPT !.pc = "assign", !.w = Lowest, !.q = Head(t)]
            \/ sched' = [sched EXCEPT !.pc = "again", !.w = Lowest]
      BY <1>6, <2>1, Zenon DEF ChooseByPriority, Crash
    <3>3. Lowest \in Workers /\ Head(t) \in Queries
      BY <3>1, Typed, LowestIsOne, Reordered
    <3> DEFINE l == Lowest
               h == Head(t)
    <3>4. \/ sched' = [sched EXCEPT !.pc = "assign", !.w = l, !.q = h]
          \/ sched' = [sched EXCEPT !.pc = "again", !.w = l]
      BY <3>2
    <3>5. l \in Workers /\ h \in Queries
      BY <3>3
    <3> HIDE DEF l, h
    <3>6. sched'.w = l /\ (sched'.pc = "again" \/ (sched'.pc = "assign" /\ sched'.q = h))
      BY <1>1, <3>4 DEF SchedulerAt
    <3> QED  BY <3>5, <3>6 DEF SchedulerHolds
  <2> QED  BY <1>2, <2>1
<1>7. CASE PopAgain
  <2>1. CASE ready = <<>>
    BY <1>2, <1>7, <2>1 DEF PopAgain, Crash
  <2>2. CASE ready # <<>>
    <3>1. sched' = [sched EXCEPT !.pc = "assign", !.q = Head(ready)] /\ sched.pc = "again"
      BY <1>7, <2>2, Zenon DEF PopAgain
    <3>2. Head(ready) \in Queries
      BY <2>2, Typed, TailKeeps
    <3>3. sched'.pc = "assign" /\ sched'.q = Head(ready) /\ sched'.w = sched.w
      BY <1>1, <3>1 DEF SchedulerAt
    <3> QED  BY <1>1, <3>1, <3>2, <3>3 DEF SchedulerHolds
  <2> QED  BY <2>1, <2>2
<1>8. CASE EvictFirst \/ SendQuery \/ ToExec
  <2>1. /\ sched'.w = sched.w /\ sched'.q = sched.q
        /\ sched.pc \in {"assign", "send", "exec"}
    BY <1>1, <1>8 DEF EvictFirst, SendQuery, ToExec, SchedulerAt
  <2> QED  BY <1>1, <2>1 DEF SchedulerHolds
<1>9. ASSUME Next PROVE Schedule \/ sched' = sched
  BY <1>9, AcceptFrame, EvictionFrame, ServeFrame, HangupFrame, PeerFrame, Zenon DEF Next, Master
<1> QED  BY <1>2, <1>3, <1>4, <1>5, <1>6, <1>7, <1>8, <1>9 DEF Schedule

LEMMA CallsHoldKept == Inv /\ Next => CallsHold' /\ CallsOfThreads'
<1> SUFFICES ASSUME Inv PROVE Next => CallsHold' /\ CallsOfThreads'
  OBVIOUS
<1>1. CallsHold /\ CallsOfThreads /\ evict \in [Callers -> Calls]
      /\ Scheduler \in Callers /\ \A q \in Queries : Hangup(q) \in Callers
  BY Typed DEF Inv, Callers
<1>2. CASE Schedule
  <2>1. hangup' = hangup
    BY <1>2, ScheduleFrame
  <2>2. CallsHold'
    BY <1>1, <1>2, ScheduleCalls DEF CallsHold
  <2>3. \A q \in Queries : evict'[Hangup(q)] = evict[Hangup(q)]
    BY <1>1, <1>2, ScheduleCalls
  <2>4. evict'[Scheduler].pc # "idle" => sched'.pc \in {"again", "send"}
    BY <1>2, ScheduleCalls
  <2> QED  BY <1>1, <2>1, <2>2, <2>3, <2>4 DEF CallsOfThreads
<1>3. ASSUME NEW c \in Callers, Eviction(c) PROVE CallsHold' /\ CallsOfThreads'
  <2>1. sched' = sched /\ hangup' = hangup
    BY <1>3, EvictionFrame
  <2>2. CallsHold'
    BY <1>1, <1>3, CallGoes DEF CallsHold
  <2>3. \A d \in Callers : evict'[d].pc # "idle" => evict[d].pc # "idle"
    BY <1>1, <1>3, CallGoes
  <2> QED  BY <1>1, <2>1, <2>2, <2>3 DEF CallsOfThreads
<1>4. CASE sched' = sched /\ hangup' = hangup /\ evict' = evict
  BY <1>1, <1>4 DEF CallsHold, CallsOfThreads
<1>5. ASSUME NEW q \in Queries, HangUp(q) PROVE CallsHold' /\ CallsOfThreads'
  <2>1. sched' = sched /\ evict' = evict
    BY <1>5, HangupFrame DEF HangUp
  <2>2. hangup[q] = "none" /\ \A r \in Queries : r # q => hangup'[r] = hangup[r]
    BY <1>5, Typed DEF HangUp
  <2>3. CallsHold'
    BY <1>1, <2>1 DEF CallsHold
  <2>4. \A r \in Queries : hangup[r] = "gone" => hangup'[r] = "gone"
    BY <2>2
  <2> QED  BY <1>1, <2>1, <2>3, <2>4 DEF CallsOfThreads
<1>6. ASSUME NEW q \in Queries, HangupExit(q) PROVE CallsHold' /\ CallsOfThreads'
  <2>1. sched' = sched /\ evict' = evict
    BY <1>6 DEF HangupExit
  <2>2. hangup[q] = "exit" /\ \A r \in Queries : r # q => hangup'[r] = hangup[r]
    BY <1>6, Typed DEF HangupExit
  <2>3. CallsHold'
    BY <1>1, <2>1 DEF CallsHold
  <2>4. \A r \in Queries : hangup[r] = "gone" => hangup'[r] = "gone"
    BY <2>2
  <2> QED  BY <1>1, <2>1, <2>3, <2>4 DEF CallsOfThreads
<1>7. ASSUME NEW q \in Queries, HangupExec(q) PROVE CallsHold' /\ CallsOfThreads'
  <2>1. sched' = sched /\ Hangup(q) # Scheduler
        /\ \A r \in Queries : r # q => Hangup(r) # Hangup(q)
    BY <1>7 DEF HangupExec, Hangup, Scheduler
  <2>2. hangup'[q] = "gone" /\ \A r \in Queries : r # q => hangup'[r] = hangup[r]
    BY <1>7, Typed DEF HangupExec
  <2>3. \A d \in Callers : d # Hangup(q) => evict'[d] = evict[d]
    BY <1>7, HangupCalls
  <2>4. evict'[Hangup(q)] = evict[Hangup(q)] \/
          (evict'[Hangup(q)].pc = "check" /\ evict'[Hangup(q)].w \in Workers)
    BY <1>7, HangupCalls
  <2>5. CallsHold'
    BY <1>1, <2>3, <2>4 DEF CallsHold
  <2> QED  BY <1>1, <2>1, <2>2, <2>3, <2>5 DEF CallsOfThreads
<1>8. ASSUME Next
      PROVE  \/ Schedule \/ \E c \in Callers : Eviction(c)
             \/ sched' = sched /\ hangup' = hangup /\ evict' = evict
             \/ \E q \in Queries : HangUp(q) \/ HangupExit(q) \/ HangupExec(q)
  BY <1>8, AcceptFrame, ServeFrame, PeerFrame, Zenon DEF Next, Master, Closed
<1> QED  BY <1>2, <1>3, <1>4, <1>5, <1>6, <1>7, <1>8

(* Nobody is told twice: told only grows. *)
LEMMA ToldGrows == Inv /\ Next => told \subseteq told'
<1> SUFFICES ASSUME Inv PROVE Next => told \subseteq told'
  OBVIOUS
<1>1. ASSUME NEW q, NEW to, QueryTo(q, to) PROVE told \subseteq told'
  BY <1>1 DEF QueryTo
<1>2. Accept => told \subseteq told'
  BY DEF Accept, ListQuery, ConnectQuery, ConnectWorker, states
<1>3. Schedule => told \subseteq told'
  <2>1. CASE ToExec
    BY <1>1, <2>1 DEF ToExec
  <2>2. Schedule /\ ~ToExec => told' = told
    BY Zenon DEF Schedule, NothingToDo, ChooseWorker, PopQuery, ChooseByPriority, PopAgain,
       EvictFirst, SendQuery, ToBusy, AgeQuery, SkipQuery, AgeEnd, Crash, states
  <2> QED  BY <2>1, <2>2
<1>4. \A c \in Callers : Eviction(c) => told \subseteq told'
  <2>1. ASSUME NEW c \in Callers, EvictMove(c) PROVE told \subseteq told'
    BY <1>1, <2>1 DEF EvictMove
  <2>2. ASSUME NEW c \in Callers PROVE Eviction(c) /\ ~EvictMove(c) => told' = told
    BY Zenon DEF Eviction, EvictCheck, EvictSend, EvictAnswered, EvictReads, EvictRelease,
       Crash, states
  <2> QED  BY <2>1, <2>2
<1>5. \A w \in Workers : Serve(w) => told \subseteq told'
  <2>1. ASSUME NEW w \in Workers, LoseQuery(w) PROVE told \subseteq told'
    BY <1>1, <2>1 DEF LoseQuery, states
  <2>2. ASSUME NEW w \in Workers, TakeEnd(w) PROVE told \subseteq told'
    BY <2>2 DEF TakeEnd, Crash, states
  <2>3. ASSUME NEW w \in Workers PROVE Serve(w) => LoseQuery(w) \/ TakeEnd(w) \/ told' = told
    BY Zenon DEF Serve, TakeEvicted, EndExit, EndFree, LoseWorker, RemoveWorker, Crash, states
  <2> QED  BY <2>1, <2>2, <2>3
<1>6. \A q \in Queries : HangUp(q) \/ Closed(q) => told \subseteq told'
  BY <1>1 DEF Closed, HangUp, HangupExit, HangupExec, states
<1>7. \A w \in Workers : Peer(w) \/ PeerDies(w) => told' = told
  BY PeerFrame DEF Master, states
<1> QED  BY <1>2, <1>3, <1>4, <1>5, <1>6, <1>7 DEF Next

LEMMA ConnectionsHoldKept == Inv /\ Next => ConnectionsHold'
<1> SUFFICES ASSUME Inv PROVE Next => ConnectionsHold'
  OBVIOUS
<1>1. conn \in [Workers -> ConnectionAt] /\ ConnectionsHold
  BY Typed
<1>2. ASSUME told \subseteq told', NEW w \in Workers,
             \A x \in Workers : x # w => conn'[x] = conn[x],
             conn'[w].pc = "exit" => conn'[w].q \in told',
             conn'[w].pc \in {"lost", "remove"} => conn'[w].i # 0
      PROVE  ConnectionsHold'
  BY <1>1, <1>2 DEF ConnectionsHold
<1>3. ASSUME Next, conn' = conn PROVE ConnectionsHold'
  BY <1>1, <1>3, ToldGrows DEF ConnectionsHold
<1>4. ASSUME NEW w \in Workers, ConnectWorker(w) PROVE ConnectionsHold'
  <2>1. told \subseteq told' /\ conn' = [conn EXCEPT ![w].pc = "idle"]
    BY <1>4 DEF ConnectWorker, states
  <2>2. conn'[w].pc = "idle" /\ \A x \in Workers : x # w => conn'[x] = conn[x]
    BY <1>1, <2>1 DEF ConnectionAt
  <2> QED  BY <1>2, <2>1, <2>2
<1>5. ASSUME NEW w \in Workers, Next, Serve(w) PROVE ConnectionsHold'
  <2>1. told \subseteq told'
    BY <1>5, ToldGrows
  <2>2. CASE TakeEnd(w) /\ conn' # conn
    <3> DEFINE q == Head(toMaster[w]).q
    <3>1. /\ told' = told \cup {q}
          /\ conn' = [conn EXCEPT ![w].pc = "exit", ![w].q = q, ![w].i = Index(w)]
      BY <2>2, Zenon DEF TakeEnd, Crash
    <3> HIDE DEF q
    <3>2. conn'[w].pc = "exit" /\ conn'[w].q = q /\ \A x \in Workers : x # w => conn'[x] = conn[x]
      BY <1>1, <3>1 DEF ConnectionAt
    <3>3. conn'[w].q \in told'
      BY <3>1, <3>2
    <3>4. conn'[w].pc \notin {"lost", "remove"}
      BY <3>2
    <3> QED  BY <1>2, <2>1, <3>2, <3>3, <3>4
  <2>3. CASE (EndExit(w) \/ EndFree(w) \/ RemoveWorker(w)) /\ conn' # conn
    <3>1. /\ conn'[w].pc \in {"free", "idle", "gone"}
          /\ \A x \in Workers : x # w => conn'[x] = conn[x]
      BY <1>1, <2>3 DEF EndExit, EndFree, RemoveWorker, Crash, ConnectionAt
    <3> QED  BY <1>2, <2>1, <3>1
  <2>4. CASE LoseWorker(w)
    BY <1>2, <2>1, <2>4, ConnectionLost
  <2>5. CASE LoseQuery(w)
    <3>1. /\ conn'[w].pc = "remove" /\ conn'[w].i = conn[w].i /\ conn[w].pc = "lost"
          /\ \A x \in Workers : x # w => conn'[x] = conn[x]
      BY <1>1, <2>5 DEF LoseQuery, ConnectionAt
    <3> QED  BY <1>1, <1>2, <2>1, <3>1 DEF ConnectionsHold
  <2>6. Serve(w) => \/ TakeEnd(w) \/ EndExit(w) \/ EndFree(w) \/ RemoveWorker(w)
                    \/ LoseWorker(w) \/ LoseQuery(w) \/ conn' = conn
    BY Zenon DEF Serve, TakeEvicted, Crash
  <2> QED  BY <1>3, <1>5, <2>2, <2>3, <2>4, <2>5, <2>6
<1>6. ASSUME Next
      PROVE  \/ conn' = conn
             \/ \E w \in Workers : ConnectWorker(w) \/ Serve(w)
  <2>1. Accept => conn' = conn \/ \E w \in Workers : ConnectWorker(w)
    BY Zenon DEF Accept, ListQuery, ConnectQuery
  <2> QED  BY <1>6, <2>1, ScheduleFrame, EvictionFrame, HangupFrame, PeerFrame, Zenon
           DEF Next, Master
<1> QED  BY <1>3, <1>4, <1>5, <1>6


-----------------------------------------------------------------------------
(* Where the Queries are *)

Placed == QueuedOnce /\ ReadyHeld /\ ExitIsTold

LEMMA PlacedNow ==
  ASSUME Inv
  PROVE  /\ NoDups(ready) /\ \A q \in Queries : In(q, ready) => query[q].sp # "NONE"
         /\ \A q \in Queries :
              query[q].sp = "READY" => In(q, ready) \/ Held(q) \/ InHand(q)
         /\ \A q \in Queries : query[q].sp = "EXIT" => q \in told \/ InHand(q)
  BY DEF Inv, QueuedOnce, ReadyHeld, ExitIsTold, InHand

LEMMA PlacedNext ==
  ASSUME NoDups(ready'), \A q \in Queries : In(q, ready') => query'[q].sp # "NONE",
         \A q \in Queries :
           query'[q].sp = "READY" => In(q, ready') \/ Held(q)' \/ InHand(q)',
         \A q \in Queries : query'[q].sp = "EXIT" => q \in told' \/ InHand(q)'
  PROVE  Placed'
  BY DEF Placed, QueuedOnce, ReadyHeld, ExitIsTold, InHand

LEMMA HandsKept ==
  ASSUME Inv,
         \A c \in Callers : evict[c].pc = "move" => evict'[c] = evict[c]
  PROVE  \A q : InHand(q) => InHand(q)'
  BY DEF InHand

(* No Query changes its place. *)
LEMMA PlacesKept ==
  ASSUME Inv, Next, \A q \in Queries : query'[q].sp = query[q].sp,
         NoDups(ready'), \A q \in Queries : In(q, ready') <=> In(q, ready),
         \A q \in Queries : Held(q) => Held(q)',
         \A c \in Callers : evict[c].pc = "move" => evict'[c] = evict[c]
  PROVE  Placed'
<1>1. told \subseteq told'
  BY ToldGrows
<1>2. \A q : InHand(q) => InHand(q)'
  BY HandsKept
<1> QED  BY <1>1, <1>2, PlacedNow, PlacedNext

(* The scheduler takes the first of READY. *)
LEMMA PlacesPopped ==
  ASSUME Inv, NEW t \in Seq(Queries), t # <<>>, NoDups(t),
         \A q \in Queries : In(q, t) <=> In(q, ready),
         ready' = Tail(t), sched'.pc = "assign", sched'.q = Head(t),
         sched.pc \notin {"assign", "send", "exec"},
         query' = query, told' = told, evict' = evict
  PROVE  Placed'
<1>1. \A q : InHand(q) => InHand(q)'
  BY HandsKept
<1>2. /\ NoDups(ready')
      /\ \A q : In(q, ready') <=> In(q, t) /\ q # Head(t)
  BY TailKeeps
<1>3. \A q : ~Held(q)
  BY DEF Held
<1>4. Held(Head(t))'
  BY DEF Held
<1>5. \A q \in Queries : In(q, ready) => In(q, ready') \/ Held(q)'
  BY <1>2, <1>4
<1> QED  BY <1>1, <1>2, <1>3, <1>5, PlacedNow, PlacedNext

(* One Query changes its place. *)
LEMMA PlaceChanged ==
  ASSUME Inv, NEW q \in Queries,
         \A p \in Queries : p # q => query'[p] = query[p],
         query[q].sp # "NONE" => query'[q].sp # "NONE",
         NoDups(ready'),
         \A p : p # q => (In(p, ready') <=> In(p, ready)),
         query'[q].sp = "READY" => In(q, ready') \/ InHand(q)',
         query'[q].sp # "READY" => (In(q, ready') => In(q, ready)),
         told \subseteq told',
         query'[q].sp = "EXIT" => q \in told' \/ InHand(q)',
         \A p \in Queries : p # q /\ Held(p) => Held(p)',
         \A p \in Queries : p # q /\ InHand(p) => InHand(p)'
  PROVE  Placed'
<1>1. ASSUME NEW p \in Queries, In(p, ready') PROVE query'[p].sp # "NONE"
  BY <1>1, PlacedNow
<1>2. ASSUME NEW p \in Queries, query'[p].sp = "READY"
      PROVE  In(p, ready') \/ Held(p)' \/ InHand(p)'
  BY <1>2, PlacedNow
<1>3. ASSUME NEW p \in Queries, query'[p].sp = "EXIT"
      PROVE  p \in told' \/ InHand(p)'
  BY <1>3, PlacedNow
<1> QED  BY <1>1, <1>2, <1>3, PlacedNext

LEMMA PlacedByQueryTo ==
  ASSUME Inv, NEW q \in Queries, NEW to \in States \cup {"NONE"}, QueryTo(q, to),
         to # "NONE",
         \A p \in Queries : p # q /\ Held(p) => Held(p)',
         \A p \in Queries : p # q /\ InHand(p) => InHand(p)'
  PROVE  Placed'
<1>1. /\ query'[q].sp = to \/ (query'[q].sp = "EXIT" /\ query'[q] = query[q])
      /\ \A p \in Queries : p # q => query'[p] = query[p]
      /\ NoDups(ready')
      /\ \A p : p # q => (In(p, ready') <=> In(p, ready))
      /\ query'[q].sp = "READY" => In(q, ready')
      /\ query'[q].sp # "READY" => (In(q, ready') => In(q, ready) /\ query[q].sp # "READY")
      /\ told \subseteq told'
      /\ query'[q].sp = "EXIT" => q \in told'
  BY Typed, QueryToKeeps
<1>2. query[q].sp # "NONE" => query'[q].sp # "NONE"
  BY <1>1
<1> QED  BY <1>1, <1>2, PlaceChanged

-----------------------------------------------------------------------------
LEMMA AcceptPlaces == Inv /\ Next /\ Accept => Placed'
<1> SUFFICES ASSUME Inv, Next PROVE Accept => Placed'
  OBVIOUS
<1>1. CASE ListQuery \/ \E w \in Workers : ConnectWorker(w)
  <2>1. query' = query /\ ready' = ready /\ sched' = sched /\ evict' = evict
    BY <1>1 DEF ListQuery, ConnectWorker, states
  <2>2. NoDups(ready)
    BY PlacedNow
  <2> QED  BY <2>1, <2>2, PlacesKept DEF Held
<1>2. ASSUME NEW q \in Queries, ConnectQuery(q) PROVE Placed'
  <2>1. PICK s \in FreshStates :
          LET to == IF s = "EXIT" THEN "EXIT" ELSE "READY" IN
          /\ query' = [query EXCEPT ![q].sp = to]
          /\ ready' = IF to = "READY" THEN Append(ready, q) ELSE ready
          /\ told' = IF to = "EXIT" THEN told \cup {q} ELSE told
    BY <1>2, Zenon DEF ConnectQuery
  <2> DEFINE to == IF s = "EXIT" THEN "EXIT" ELSE "READY"
  <2>2. /\ query[q].sp = "NONE" /\ sched' = sched /\ evict' = evict
        /\ query' = [query EXCEPT ![q].sp = to]
        /\ ready' = IF to = "READY" THEN Append(ready, q) ELSE ready
        /\ told' = IF to = "EXIT" THEN told \cup {q} ELSE told
        /\ to \in {"READY", "EXIT"}
    BY <1>2, <2>1, Zenon DEF ConnectQuery
  <2> HIDE DEF to
  <2>3. query'[q].sp = to /\ \A p \in Queries : p # q => query'[p] = query[p]
    BY <2>2, Typed DEF QueryStructs
  <2>4. ~In(q, ready) /\ NoDups(ready)
    BY <2>2, PlacedNow
  <2>5. /\ NoDups(Append(ready, q))
        /\ \A p : In(p, Append(ready, q)) <=> In(p, ready) \/ p = q
    BY <2>4, Typed, AppendKeeps
  <2>6. CASE to = "READY"
    <3>1. ready' = Append(ready, q) /\ told' = told
      BY <2>2, <2>6
    <3> QED  BY <2>2, <2>3, <2>5, <2>6, <3>1, PlaceChanged DEF Held, InHand
  <2>7. CASE to = "EXIT"
    <3>1. ready' = ready /\ told' = told \cup {q}
      BY <2>2, <2>7
    <3> QED  BY <2>2, <2>3, <2>4, <2>7, <3>1, PlaceChanged DEF Held, InHand
  <2> QED  BY <2>2, <2>6, <2>7
<1> QED  BY <1>1, <1>2 DEF Accept

LEMMA SchedulePlaces == Inv /\ Next /\ Schedule => Placed'
<1> SUFFICES ASSUME Inv, Next PROVE Schedule => Placed'
  OBVIOUS
<1>1. sched \in SchedulerAt /\ NoDups(ready) /\ ready \in Seq(Queries)
  BY Typed
<1>2. ASSUME Schedule PROVE \A c \in Callers : evict[c].pc = "move" => evict'[c] = evict[c]
  BY <1>2, ScheduleCalls
<1>3. CASE NothingToDo \/ ChooseWorker \/ SkipQuery \/ AgeEnd \/ ToBusy
  <2>1. /\ query' = query /\ ready' = ready
        /\ sched.pc \notin {"assign", "send", "exec"}
    BY <1>3 DEF NothingToDo, ChooseWorker, SkipQuery, AgeEnd, ToBusy, Execute, states
  <2>2. \A q \in Queries : ~Held(q)
    BY <2>1 DEF Held
  <2>3. Schedule
    BY <1>3 DEF Schedule
  <2> QED  BY <1>1, <1>2, <2>1, <2>2, <2>3, PlacesKept
<1>4. CASE AgeQuery
  <2>1. /\ sched.pc = "age" /\ ready' = ready /\ sched.i \in queries
        /\ query' = [query EXCEPT ![sched.i].priority = query[sched.i].priority - 1]
    BY <1>4, Zenon DEF AgeQuery
  <2>2. \A q \in Queries : ~Held(q)
    BY <2>1 DEF Held
  <2>3. \A q \in Queries : query'[q].sp = query[q].sp
    BY <2>1, Typed DEF QueryStructs
  <2>4. Schedule
    BY <1>4 DEF Schedule
  <2> QED  BY <1>1, <1>2, <2>1, <2>2, <2>3, <2>4, PlacesKept
<1>5. CASE EvictFirst \/ SendQuery
  <2>1. /\ query' = query /\ ready' = ready /\ sched'.q = sched.q
        /\ sched'.pc \in {"send", "exec"}
    BY <1>1, <1>5 DEF EvictFirst, SendQuery, states, SchedulerAt
  <2>2. \A q \in Queries : Held(q) => Held(q)'
    BY <2>1 DEF Held
  <2>3. Schedule
    BY <1>5 DEF Schedule
  <2> QED  BY <1>1, <1>2, <2>1, <2>2, <2>3, PlacesKept
<1>6. CASE ToExec
  <2>1. sched.q \in Queries /\ QueryTo(sched.q, "EXEC") /\ evict' = evict
        /\ "EXEC" \in States \cup {"NONE"}
    BY <1>6, Typed DEF ToExec, SchedulerHolds, States
  <2>2. \A p \in Queries : p # sched.q => ~Held(p)
    BY DEF Held
  <2>3. \A p \in Queries : InHand(p) => InHand(p)'
    BY <2>1 DEF InHand
  <2> QED  BY <2>1, <2>2, <2>3, PlacedByQueryTo
<1>7. CASE PopQuery
  <2>1. sched.pc = "pop" /\ query' = query /\ told' = told /\ evict' = evict
    BY <1>7 DEF PopQuery
  <2>2. CASE ready = <<>>
    <3>1. ready' = ready /\ \A q \in Queries : ~Held(q)
      BY <1>7, <2>1, <2>2 DEF PopQuery, Held
    <3> QED  BY <1>1, <2>1, <3>1, PlacesKept
  <2>3. CASE ready # <<>>
    <3>1. PICK t \in [DOMAIN ready -> Queries] :
            /\ t = ready \/ ByPriority(ready, t)
            /\ ready' = Tail(t)
            /\ sched' = [sched EXCEPT !.pc = "assign", !.q = Head(t)]
      BY <1>7, <2>3, Zenon DEF PopQuery
    <3>2. t \in Seq(Queries) /\ t # <<>>
      BY <1>1, <2>3, Reordered
    <3>3. NoDups(t) /\ \A q : In(q, t) <=> In(q, ready)
      BY <1>1, <3>1, SortKeeps
    <3>4. sched'.pc = "assign" /\ sched'.q = Head(t)
      BY <1>1, <3>1 DEF SchedulerAt
    <3> QED  BY <2>1, <3>1, <3>2, <3>3, <3>4, PlacesPopped
  <2> QED  BY <2>2, <2>3
<1>8. CASE ChooseByPriority
  <2>1. sched.pc = "execute" /\ ready # <<>>
    BY <1>8 DEF ChooseByPriority, Execute
  <2>2. \A q \in Queries : ~Held(q)
    BY <2>1 DEF Held
  <2>3. Schedule
    BY <1>8 DEF Schedule
  <2>4. CASE Crash
    <3>1. query' = query /\ ready' = ready
      BY <2>4 DEF Crash, states
    <3> QED  BY <1>1, <1>2, <2>2, <2>3, <3>1, PlacesKept
  <2>5. CASE ~Crash
    <3>1. query' = query /\ told' = told
      BY <1>8, <2>5, Zenon DEF ChooseByPriority
    <3>2. PICK t \in [DOMAIN ready -> Queries] :
            /\ ByPriority(ready, t)
            /\ \/ /\ ready' = Tail(t)
                  /\ sched' = [sched EXCEPT !.pc = "assign", !.w = Lowest, !.q = Head(t)]
                  /\ UNCHANGED evict
               \/ ready' = t
      BY <1>8, <2>5, Zenon DEF ChooseByPriority
    <3>3. /\ t \in Seq(Queries) /\ t # <<>> /\ NoDups(t)
          /\ \A q : In(q, t) <=> In(q, ready)
      BY <1>1, <2>1, <3>2, SortKeeps, Reordered
    <3>4. CASE ready' = t
      BY <1>2, <2>2, <2>3, <3>1, <3>3, <3>4, PlacesKept
    <3>5. CASE ready' # t
      <4> DEFINE l == Lowest
      <4>1. /\ ready' = Tail(t) /\ evict' = evict
            /\ sched' = [sched EXCEPT !.pc = "assign", !.w = l, !.q = Head(t)]
        BY <3>2, <3>5
      <4> HIDE DEF l
      <4>2. sched'.pc = "assign" /\ sched'.q = Head(t)
        BY <1>1, <4>1 DEF SchedulerAt
      <4> QED  BY <2>1, <3>1, <3>3, <4>1, <4>2, PlacesPopped
    <3> QED  BY <3>4, <3>5
  <2> QED  BY <2>4, <2>5
<1>9. CASE PopAgain
  <2>1. CASE ready = <<>>
    <3>1. query' = query /\ ready' = ready /\ sched' = sched /\ evict' = evict
      BY <1>9, <2>1 DEF PopAgain, Crash, states
    <3> QED  BY <1>1, <3>1, PlacesKept DEF Held
  <2>2. CASE ready # <<>>
    <3>1. /\ ready' = Tail(ready) /\ query' = query /\ told' = told /\ evict' = evict
          /\ sched' = [sched EXCEPT !.pc = "assign", !.q = Head(ready)] /\ sched.pc = "again"
      BY <1>9, <2>2, Zenon DEF PopAgain
    <3>2. sched'.pc = "assign" /\ sched'.q = Head(ready)
      BY <1>1, <3>1 DEF SchedulerAt
    <3> QED  BY <1>1, <2>2, <3>1, <3>2, PlacesPopped
  <2> QED  BY <2>1, <2>2
<1> QED  BY <1>3, <1>4, <1>5, <1>6, <1>7, <1>8, <1>9 DEF Schedule

LEMMA EvictionPlaces ==
  ASSUME Inv, Next, NEW c \in Callers, Eviction(c)
  PROVE  Placed'
<1>1. /\ NoDups(ready) /\ sched' = sched /\ evict \in [Callers -> Calls]
      /\ \A q \in Queries : Held(q) => Held(q)'
  <2>1. sched' = sched
    BY EvictionFrame
  <2> QED  BY <2>1, Typed DEF Held
<1>2. \A d \in Callers : d # c => evict'[d] = evict[d]
  BY CallGoes
<1>3. CASE query' = query /\ ready' = ready /\ evict[c].pc # "move"
  BY <1>1, <1>2, <1>3, PlacesKept
<1>4. CASE EvictAnswered(c) /\ ~Crash
  <2> DEFINE q == worker[evict[c].w].q
             n == worker[evict[c].w].pc
             to == evict[c].to
  <2>1. /\ evict[c].pc = "wait" /\ ready' = ready /\ told' = told
        /\ \/ UNCHANGED query
           \/ /\ Known(q)
              /\ query' = [query EXCEPT ![q].pc = n, ![q].sp = to]
              /\ evict' = [evict EXCEPT ![c].pc = "move", ![c].q = q]
    BY <1>4, Zenon DEF EvictAnswered
  <2>2. CASE UNCHANGED query
    BY <1>3, <2>1, <2>2
  <2>3. CASE ~UNCHANGED query
    <3>1. q \in Queries /\ n \in Nat /\ to \in {"READY", "EXIT"}
      <4>1. evict[c].w \in Workers
        BY <2>1, Typed DEF CallsHold
      <4> QED  BY <1>1, <2>1, <2>3, <4>1, Typed DEF WorkerStructs, Calls, Known
    <3>2. /\ query' = [query EXCEPT ![q].pc = n, ![q].sp = to]
          /\ evict' = [evict EXCEPT ![c].pc = "move", ![c].q = q]
      BY <2>1, <2>3
    <3> HIDE DEF q, n, to
    <3>3. PICK r \in Queries : r = q
      BY <3>1
    <3>4. query'[r].sp = to /\ \A p \in Queries : p # r => query'[p] = query[p]
      BY <3>1, <3>2, <3>3, Typed, QueryAnswered
    <3>5. evict'[c].pc = "move" /\ evict'[c].q = r
      BY <1>1, <3>2, <3>3 DEF Calls
    <3>6. InHand(r)'
      BY <3>5 DEF InHand
    <3>7. \A p \in Queries : InHand(p) => InHand(p)'
      BY <1>2, <2>1 DEF InHand
    <3> QED  BY <1>1, <2>1, <3>1, <3>4, <3>6, <3>7, PlaceChanged
  <2> QED  BY <2>2, <2>3
<1>7. CASE EvictReads(c)
  <2> DEFINE s == query[evict[c].q].sp
  <2>1. /\ query' = query /\ ready' = ready
        /\ evict[c].pc = "move" /\ evict' = [evict EXCEPT ![c].arg = s]
    BY <1>7 DEF EvictReads, states
  <2>2. s \in States \cup {"NONE"}
    BY <2>1, Typed DEF CallsHold, QueryStructs
  <2> HIDE DEF s
  <2>3. \A d \in Callers : evict'[d].pc = evict[d].pc /\ evict'[d].q = evict[d].q
    BY <1>1, <2>1, <2>2, CallReads
  <2>4. (\A p \in Queries : InHand(p) => InHand(p)') /\ told \subseteq told'
    BY <2>3, ToldGrows DEF InHand
  <2> QED  BY <1>1, <2>1, <2>4, PlacedNow, PlacedNext
<1>5. CASE EvictMove(c)
  <2> DEFINE q == evict[c].q
             s == evict[c].arg
  <2>1. /\ q \in Queries /\ evict[c].pc = "move" /\ QueryTo(q, s)
        /\ s \in States \cup {"NONE"} /\ s # "NONE"
    BY <1>1, <1>5, Typed DEF EvictMove, CallsHold, Calls
  <2>2. \A p \in Queries : p # q /\ InHand(p) => InHand(p)'
    BY <1>2 DEF InHand
  <2> HIDE DEF q, s
  <2> QED  BY <1>1, <2>1, <2>2, PlacedByQueryTo
<1>6. Eviction(c) => \/ EvictAnswered(c) /\ ~Crash
                     \/ EvictMove(c) \/ EvictReads(c)
                     \/ query' = query /\ ready' = ready /\ evict[c].pc # "move"
  <2>1. EvictCheck(c) \/ EvictSend(c) \/ EvictRelease(c)
          => query' = query /\ ready' = ready /\ evict[c].pc # "move"
    BY DEF EvictCheck, EvictSend, EvictRelease, states
  <2>2. EvictAnswered(c) /\ Crash => query' = query /\ ready' = ready /\ evict[c].pc # "move"
    <3>1. EvictAnswered(c) => evict[c].pc = "wait"
      BY Zenon DEF EvictAnswered
    <3> QED  BY <3>1 DEF Crash, states
  <2> QED  BY <2>1, <2>2 DEF Eviction
<1> QED  BY <1>3, <1>4, <1>5, <1>6, <1>7

LEMMA ServePlaces ==
  ASSUME Inv, Next, NEW w \in Workers, Serve(w)
  PROVE  Placed'
<1>1. /\ NoDups(ready) /\ sched' = sched /\ evict' = evict
      /\ \A q \in Queries : Held(q) => Held(q)'
      /\ \A q \in Queries : InHand(q) => InHand(q)'
  <2>1. sched' = sched /\ evict' = evict
    BY ServeFrame
  <2> QED  BY <2>1, Typed DEF Held, InHand
<1>2. CASE query' = query /\ ready' = ready
  BY <1>1, <1>2, PlacesKept
<1>3. CASE EndExit(w)
  <2> DEFINE q == conn[w].q
  <2>1. q \in told /\ Moved(q, "EXIT") /\ told' = told /\ "EXIT" \in States \cup {"NONE"}
    BY <1>3, Typed DEF EndExit, ConnectionsHold, States
  <2>2. q \in Queries
    BY <2>1, Typed
  <2> HIDE DEF q
  <2>3. /\ query'[q].sp = "EXIT"
        /\ \A p \in Queries : p # q => query'[p] = query[p]
        /\ NoDups(ready')
        /\ \A p : p # q => (In(p, ready') <=> In(p, ready))
        /\ In(q, ready') => In(q, ready)
    BY <2>1, <2>2, Typed, MovedKeeps
  <2> QED  BY <1>1, <2>1, <2>2, <2>3, PlaceChanged
<1>4. CASE LoseQuery(w) /\ Known(worker[w].id_query)
  <2> DEFINE q == worker[w].id_query
  <2>1. q \in Queries /\ QueryTo(q, "EXIT") /\ "EXIT" \in States \cup {"NONE"}
    BY <1>4, Typed, Zenon DEF LoseQuery, Known, States
  <2> HIDE DEF q
  <2> QED  BY <1>1, <2>1, PlacedByQueryTo
<1>5. Serve(w) => \/ EndExit(w)
                  \/ LoseQuery(w) /\ Known(worker[w].id_query)
                  \/ query' = query /\ ready' = ready
  <2>1. TakeEvicted(w) \/ TakeEnd(w) \/ Crash => query' = query /\ ready' = ready
    BY Zenon DEF TakeEvicted, TakeEnd, Crash, states
  <2>2. EndFree(w) \/ LoseWorker(w) \/ RemoveWorker(w) => query' = query /\ ready' = ready
    BY Zenon DEF EndFree, LoseWorker, RemoveWorker, Crash, states
  <2>3. LoseQuery(w) /\ ~Known(worker[w].id_query) => query' = query /\ ready' = ready
    BY DEF LoseQuery, states
  <2> QED  BY <2>1, <2>2, <2>3 DEF Serve
<1> QED  BY <1>2, <1>3, <1>4, <1>5

LEMMA HangupPlaces ==
  ASSUME Inv, Next, NEW q \in Queries, HangUp(q) \/ Closed(q)
  PROVE  Placed'
<1>1. /\ NoDups(ready) /\ sched' = sched
      /\ \A p \in Queries : Held(p) => Held(p)'
  <2>1. sched' = sched
    BY HangupFrame
  <2> QED  BY <2>1, Typed DEF Held
<1>2. CASE HangUp(q)
  <2>1. query' = query /\ ready' = ready /\ evict' = evict
    BY <1>2 DEF HangUp, states
  <2> QED  BY <1>1, <2>1, PlacesKept
<1>3. CASE HangupExit(q)
  <2>1. QueryTo(q, "EXIT") /\ evict' = evict /\ "EXIT" \in States \cup {"NONE"}
    BY <1>3 DEF HangupExit, States
  <2> QED  BY <1>1, <2>1, PlacedByQueryTo DEF InHand
<1>4. CASE HangupExec(q)
  <2>1. query' = query /\ ready' = ready /\ hangup[q] = "exec"
    BY <1>4 DEF HangupExec, states
  <2>2. evict[Hangup(q)].pc = "idle"
    BY <2>1 DEF Inv, CallsOfThreads
  <2>3. \A c \in Callers : evict[c].pc = "move" => evict'[c] = evict[c]
    BY <1>4, <2>2, HangupCalls
  <2> QED  BY <1>1, <2>1, <2>3, PlacesKept
<1> QED  BY <1>2, <1>3, <1>4 DEF Closed

LEMMA PeerPlaces ==
  ASSUME Inv, Next, NEW w \in Workers, Peer(w) \/ PeerDies(w)
  PROVE  Placed'
<1>1. query' = query /\ ready' = ready /\ sched' = sched /\ evict' = evict
  BY PeerFrame DEF Master, states
<1>2. NoDups(ready)
  BY Typed
<1> QED  BY <1>1, <1>2, PlacesKept DEF Held

-----------------------------------------------------------------------------
(* The theorems *)

LEMMA StepSafe == Inv /\ [Next]_vars => Inv'
<1>1. Inv /\ Next => TypeOK'
  BY NextTyped
<1>2. Inv /\ Next => Handles' /\ CallsOfThreads'
  BY SchedulerHoldsKept, CallsHoldKept, ConnectionsHoldKept DEF Handles
<1>3. Inv /\ Next => Placed'
  BY AcceptPlaces, SchedulePlaces, EvictionPlaces, ServePlaces, HangupPlaces, PeerPlaces
     DEF Next
<1>4. Inv /\ UNCHANGED vars => Inv'
  BY DEF Inv, TypeOK, Handles, SchedulerHolds, CallsHold, ConnectionsHold, CallsOfThreads,
     QueuedOnce, NoDups, In, ReadyHeld, InHand, Held, ExitIsTold, vars, states, net
<1> QED  BY <1>1, <1>2, <1>3, <1>4 DEF Inv, Placed

LEMMA InvHolds == Spec => []Inv
<1> QED  BY InitSafe, StepSafe, PTL DEF Spec

(* The structures that the Master's threads share hold what their types say,  *)
(* whatever the threads, the Workers and the Query Controls do, and however   *)
(* many they are: no handle that is null is followed but where Crash says.    *)
THEOREM TypeCorrect == Spec => []TypeOK
<1>1. Inv => TypeOK
  BY DEF Inv
<1> QED  BY <1>1, InvHolds, PTL

(* Every Query Control whose Query is in EXIT was told so, or is about to be  *)
(* by the eviction that put it there: query_to, query_to_no_notify, a Worker  *)
(* that is lost and a Query Control that hangs up, in any order of theirs.    *)
THEOREM EveryoneIsTold == Spec => []ExitIsTold
<1>1. Inv => ExitIsTold
  BY DEF Inv
<1> QED  BY <1>1, InvHolds, PTL

(* What is in READY is there once. *)
LEMMA OnceIsOne ==
  ASSUME NEW s \in Seq(Queries), NoDups(s), NEW q, In(q, s)
  PROVE  Cardinality({i \in DOMAIN s : s[i] = q}) = 1
<1>1. PICK i \in DOMAIN s : s[i] = q
  BY DEF In
<1>2. {j \in DOMAIN s : s[j] = q} = {i}
  BY <1>1 DEF NoDups
<1>3. Cardinality({i}) = 1
  BY FS_Singleton
<1> QED  BY <1>2, <1>3

(* No Query that is READY is forgotten, nor queued twice, under FIFO,         *)
(* PRIORITIES and aging, for any number of Queries and of threads that evict: *)
(* it is in READY once, or a thread holds it that is about to move it.        *)
THEOREM NoneForgotten == Spec => []ReadyIsQueued
<1>1. Inv => ReadyIsQueued
  <2> SUFFICES ASSUME Inv, NEW q \in Queries, query[q].sp = "READY"
               PROVE  \/ Cardinality({i \in DOMAIN ready : ready[i] = q}) = 1
                      \/ Held(q) \/ InHand(q)
    BY DEF ReadyIsQueued, InHand
  <2>1. In(q, ready) \/ Held(q) \/ InHand(q)
    BY PlacedNow
  <2> QED  BY <2>1, Typed, OnceIsOne
<1> QED  BY <1>1, InvHolds, PTL

=============================================================================
