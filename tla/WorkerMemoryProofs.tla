------------------------- MODULE WorkerMemoryProofs -------------------------
(* What holds of the memory of a Worker, for frames, pages and instructions  *)
(* of any number and size, and whatever the other Workers do.                 *)
EXTENDS WorkerMemory, SequenceFacts

-----------------------------------------------------------------------------
(* The inductive invariant *)

(* What the type invariant leaves out: there is a size and a store of every   *)
(* File:Tag and of no other.                                                  *)
StorageKnown ==
  /\ size \in [FileTags -> Nat]
  /\ store = [ft \in FileTags |-> store[ft]]

(* What the interpreter has at each place.                                    *)
InHand ==
  /\ pc \in {"piece", "writeback", "fault"} =>
       instr \in Instructions /\ instr.op \in {"WRITE", "READ"} /\ done < instr.tam
  /\ pc = "remote" => instr \in Instructions
  /\ pc = "flush" => rest # <<>>
  /\ pc \in {"writeback", "fault"} => ~Cached(instr.ft, Page)
  /\ pc = "writeback" => outgoing # <<>>
  /\ pc \notin {"writeback", "stuck"} => outgoing = <<>>
  /\ pc = "fault" => libre # {}

(* Two entries are of different pages and have different frames.              *)
Apart(e, d) == e.marco # d.marco /\ <<e.ft, e.pag>> # <<d.ft, d.pag>>
Distinct(s) == \A i, j \in DOMAIN s : i # j => Apart(s[i], s[j])
MarcosOf(s) == {s[i].marco : i \in DOMAIN s}
TableApart ==
  /\ Distinct(table)
  /\ \A i \in DOMAIN table : \A j \in DOMAIN outgoing : Apart(table[i], outgoing[j])
  /\ libre = Frames \ (MarcosOf(table) \cup MarcosOf(outgoing))

(* A page that is not stale has a block, and one that is not modified either   *)
(* has what is in it; the victim too.                                         *)
InStore(e) ==
  ~e.stale =>
    /\ e.pag < size[e.ft]
    /\ ~e.modificada => Contents(e.marco) = store[e.ft][e.pag]
PagesInStore ==
  /\ \A i \in DOMAIN table : InStore(table[i])
  /\ \A i \in DOMAIN outgoing : InStore(outgoing[i])

Inv == TypeOK /\ StorageKnown /\ InHand /\ TableApart /\ PagesInStore


-----------------------------------------------------------------------------
(* The numbers *)

LEMMA LeastIs ==
  ASSUME NEW S \in SUBSET Nat, S # {}
  PROVE  Min(S) \in S /\ \A n \in S : Min(S) <= n
  BY LeastNatural DEF Min

LEMMA Divided ==
  ASSUME NEW n \in Nat, NEW b \in Nat \ {0}
  PROVE  n \div b \in Nat /\ n % b \in 0 .. b - 1 /\ n = (n \div b) * b + (n % b)
  OBVIOUS

LEMMA BlocksFit ==
  ASSUME NEW n \in Nat, NEW k \in Nat, NEW b \in Nat \ {0}, n <= k * b
  PROVE  (n + b - 1) \div b \in 0 .. k
  OBVIOUS

LEMMA FramesApart ==
  ASSUME NEW m \in Nat, NEW k \in Nat, NEW b \in Nat \ {0}, m # k,
         NEW o \in 0 .. b - 1, NEW p \in 0 .. b - 1
  PROVE  m * b + o # k * b + p
<1>1. CASE m < k
  BY <1>1
<1>2. CASE k < m
  BY <1>2
<1> QED  BY <1>1, <1>2

-----------------------------------------------------------------------------
(* The replacement algorithms *)

(* What an algorithm may change of an entry. *)
Kin(e, d) ==
  e.ft = d.ft /\ e.pag = d.pag /\ e.marco = d.marco /\ e.modificada = d.modificada
  /\ e.stale = d.stale

(* The queue holds all but the victim, each once. *)
Leaves(s, r, k, f) ==
  /\ r.victim \in Seq(Entry) /\ Len(r.victim) = 1 /\ Kin(r.victim[1], s[k])
  /\ r.queue \in Seq(Entry) /\ f \in [DOMAIN r.queue -> DOMAIN s]
  /\ \A i \in DOMAIN r.queue : f[i] # k /\ Kin(r.queue[i], s[f[i]])
  /\ \A i, j \in DOMAIN r.queue : i # j => f[i] # f[j]
  /\ \A j \in DOMAIN s : j # k => \E i \in DOMAIN r.queue : f[i] = j
TakesOne(s, r) == \E k \in DOMAIN s : \E f : Leaves(s, r, k, f)

LEMMA PassedBy ==
  ASSUME NEW s \in Seq(Entry)
  PROVE  /\ Passed(s) \in Seq(Entry) /\ Len(Passed(s)) = Len(s) /\ DOMAIN Passed(s) = DOMAIN s
         /\ \A i \in DOMAIN s : Kin(Passed(s)[i], s[i]) /\ ~Passed(s)[i].uso
<1>1. \A i \in DOMAIN s : s[i] \in Entry
  OBVIOUS
<1>2. \A e \in Entry : /\ [e EXCEPT !.uso = FALSE] \in Entry
                       /\ Kin([e EXCEPT !.uso = FALSE], e) /\ [e EXCEPT !.uso = FALSE].uso = FALSE
  BY DEF Entry, Kin
<1>3. \A i \in DOMAIN s : Passed(s)[i] \in Entry /\ Kin(Passed(s)[i], s[i]) /\ ~Passed(s)[i].uso
  BY <1>1, <1>2 DEF Passed
<1>4. DOMAIN s = 1 .. Len(s) /\ Len(s) \in Nat
  OBVIOUS
<1>5. Passed(s) \in [1 .. Len(s) -> Entry]
  BY <1>3, <1>4 DEF Passed
<1> QED  BY <1>3, <1>4, <1>5

LEMMA Rotated ==
  ASSUME NEW s \in Seq(Entry), NEW k \in 1 .. Len(s), NEW l \in Seq(Entry), Len(l) = k - 1,
         \A i \in 1 .. k - 1 : Kin(l[i], s[i])
  PROVE  TakesOne(s, [victim |-> <<s[k]>>, queue |-> SubSeq(s, k + 1, Len(s)) \o l])
<1> DEFINE n == Len(s)
           h == SubSeq(s, k + 1, n)
           q == h \o l
           r == [victim |-> <<s[k]>>, queue |-> q]
           f == [i \in 1 .. n - 1 |-> IF i <= n - k THEN k + i ELSE i - (n - k)]
<1>1. n \in Nat /\ k \in Nat /\ k >= 1 /\ k <= n /\ DOMAIN s = 1 .. n
  OBVIOUS
<1>2. h \in Seq(Entry) /\ Len(h) = n - k /\ \A i \in 1 .. n - k : h[i] = s[k + i]
  <2>1. \A i \in k + 1 .. n : i \in DOMAIN s
    BY <1>1
  <2>2. /\ h \in Seq(Entry) /\ Len(h) = IF k + 1 <= n THEN n - (k + 1) + 1 ELSE 0
        /\ \A i \in 1 .. n - (k + 1) + 1 : h[i] = s[k + 1 + i - 1]
    BY <1>1, <2>1, PartOf
  <2> HIDE DEF n, h
  <2>3. \A i \in 1 .. n - k : i \in 1 .. n - (k + 1) + 1 /\ k + 1 + i - 1 = k + i
    BY <1>1
  <2>4. Len(h) = n - k
    BY <1>1, <2>2
  <2> QED  BY <2>2, <2>3, <2>4
<1> HIDE DEF h
<1>3. /\ q \in Seq(Entry) /\ Len(q) = n - 1
      /\ \A i \in 1 .. n - 1 : q[i] = IF i <= n - k THEN h[i] ELSE l[i - (n - k)]
  <2>1. /\ q \in Seq(Entry) /\ Len(q) = Len(h) + Len(l)
        /\ \A i \in 1 .. Len(h) + Len(l) : q[i] = IF i <= Len(h) THEN h[i] ELSE l[i - Len(h)]
    BY <1>2, ConcatProperties
  <2>2. Len(h) = n - k /\ Len(h) + Len(l) = n - 1
    BY <1>1, <1>2
  <2> HIDE DEF q
  <2> QED  BY <2>1, <2>2
<1> HIDE DEF q, n
<1>4. DOMAIN q = 1 .. n - 1
  BY <1>3
<1>5. \A e : Kin(e, e)
  BY DEF Kin
<1>6. r.queue = q /\ r.victim = <<s[k]>> /\ s[k] \in Entry
  BY DEF n
<1> HIDE DEF r
<1>7. r.victim \in Seq(Entry) /\ Len(r.victim) = 1 /\ Kin(r.victim[1], s[k])
  BY <1>5, <1>6
<1>8. f \in [1 .. n - 1 -> 1 .. n]
  BY <1>1
<1>9. ASSUME NEW i \in 1 .. n - 1 PROVE f[i] # k /\ Kin(q[i], s[f[i]])
  <2>1. CASE i <= n - k
    <3>1. f[i] = k + i /\ q[i] = s[k + i]
      BY <1>1, <1>2, <1>3, <2>1
    <3> QED  BY <1>1, <1>5, <3>1
  <2>2. CASE ~ (i <= n - k)
    <3>1. f[i] = i - (n - k) /\ q[i] = l[i - (n - k)] /\ i - (n - k) \in 1 .. k - 1
      BY <1>1, <1>3, <2>2
    <3> QED  BY <1>1, <3>1
  <2> QED  BY <2>1, <2>2
<1>10. \A i, j \in 1 .. n - 1 : i # j => f[i] # f[j]
  BY <1>1
<1>11. ASSUME NEW j \in 1 .. n, j # k PROVE \E i \in 1 .. n - 1 : f[i] = j
  <2>1. CASE j > k
    <3>1. j - k \in 1 .. n - 1 /\ f[j - k] = j
      BY <1>1, <2>1
    <3> QED  BY <3>1
  <2>2. CASE j < k
    <3>1. j + (n - k) \in 1 .. n - 1 /\ f[j + (n - k)] = j
      BY <1>1, <2>2
    <3> QED  BY <3>1
  <2> QED  BY <1>1, <1>11, <2>1, <2>2
<1> HIDE DEF f
<1>12. Leaves(s, r, k, f)
  BY <1>1, <1>3, <1>4, <1>6, <1>7, <1>8, <1>9, <1>10, <1>11 DEF Leaves
<1> QED  BY <1>1, <1>12, Zenon DEF TakesOne, r, q, h, n


LEMMA UnusedAre ==
  ASSUME NEW s \in Seq(Entry), NEW m \in BOOLEAN
  PROVE  /\ Unused(s, m) \in SUBSET Nat /\ Unused(s, m) \subseteq 1 .. Len(s)
         /\ Unused(s, m) # {} => Min(Unused(s, m)) \in Unused(s, m)
<1>1. Unused(s, m) \in SUBSET Nat /\ Unused(s, m) \subseteq 1 .. Len(s)
  BY DEF Unused
<1> QED  BY <1>1, LeastIs

(* One round takes the first of those that it looks for. *)
LEMMA RoundTakes ==
  ASSUME NEW s \in Seq(Entry), NEW m \in BOOLEAN, Unused(s, m) # {},
         m => Unused(s, FALSE) = {}
  PROVE  /\ TakesOne(s, ClockRound(s))
         /\ ClockRound(s).victim = <<s[Min(Unused(s, m))]>>
<1> DEFINE k == Min(Unused(s, m))
<1>1. k \in Unused(s, m) /\ k \in 1 .. Len(s)
  BY UnusedAre
<1>2. CASE m = FALSE
  <2> DEFINE l == SubSeq(s, 1, k - 1)
  <2>1. ClockRound(s) = [victim |-> <<s[k]>>, queue |-> SubSeq(s, k + 1, Len(s)) \o l]
    BY <1>2, Zenon DEF ClockRound, Choice
  <2>2. /\ l \in Seq(Entry) /\ Len(l) = k - 1
        /\ \A i \in 1 .. k - 1 : l[i] = s[i]
    <3> HIDE DEF k
    <3>1. 1 \in Nat \ {0} /\ k - 1 \in 0 .. Len(s) /\ Len(s) \in Nat
      BY <1>1
    <3>2. /\ l \in Seq(Entry) /\ Len(l) = IF 1 <= k - 1 THEN k - 1 - 1 + 1 ELSE 0
          /\ \A i \in 1 .. k - 1 - 1 + 1 : l[i] = s[1 + i - 1]
      BY <3>1, PartOf
    <3> HIDE DEF l
    <3> QED  BY <1>1, <3>2
  <2>3. \A i \in 1 .. k - 1 : Kin(l[i], s[i])
    BY <2>2 DEF Kin
  <2> HIDE DEF l, k
  <2>4. TakesOne(s, ClockRound(s))
    BY <1>1, <2>1, <2>2, <2>3, Rotated
  <2> QED  BY <2>1, <2>4 DEF k
<1>3. CASE m = TRUE
  <2> DEFINE l == Passed(SubSeq(s, 1, k - 1))
  <2>1. ClockRound(s) = [victim |-> <<s[k]>>, queue |-> SubSeq(s, k + 1, Len(s)) \o l]
    <3>1. Unused(s, FALSE) = {} /\ Unused(s, TRUE) # {}
      BY <1>3
    <3>2. k = Min(Unused(s, TRUE))
      BY <1>3
    <3> HIDE DEF k
    <3> QED  BY <3>1, <3>2 DEF ClockRound
  <2>2. /\ l \in Seq(Entry) /\ Len(l) = k - 1
        /\ \A i \in 1 .. k - 1 : Kin(l[i], s[i])
    <3> DEFINE h == SubSeq(s, 1, k - 1)
    <3> HIDE DEF k
    <3>1. 1 \in Nat \ {0} /\ k - 1 \in 0 .. Len(s) /\ Len(s) \in Nat
      BY <1>1
    <3>2. /\ h \in Seq(Entry) /\ Len(h) = IF 1 <= k - 1 THEN k - 1 - 1 + 1 ELSE 0
          /\ \A i \in 1 .. k - 1 - 1 + 1 : h[i] = s[1 + i - 1]
      BY <3>1, PartOf
    <3>3. l = Passed(h)
      OBVIOUS
    <3> HIDE DEF h, l
    <3>4. Len(h) = k - 1 /\ DOMAIN h = 1 .. k - 1 /\ \A i \in 1 .. k - 1 : h[i] = s[i]
      BY <1>1, <3>2
    <3> QED  BY <3>2, <3>3, <3>4, PassedBy
  <2> HIDE DEF l, k
  <2>4. TakesOne(s, ClockRound(s))
    BY <1>1, <2>1, <2>2, Rotated
  <2> QED  BY <2>1, <2>4 DEF k
<1> QED  BY <1>2, <1>3

(* A round that finds none only forgets their use, and the next finds one. *)
LEMMA RoundPasses ==
  ASSUME NEW s \in Seq(Entry), Unused(s, FALSE) = {}, Unused(s, TRUE) = {}
  PROVE  /\ ClockRound(s).victim = <<>> /\ ClockRound(s).queue = Passed(s)
         /\ \A m \in BOOLEAN :
              Unused(Passed(s), m) = {i \in DOMAIN s : s[i].modificada = m}
<1>1. ClockRound(s).victim = <<>> /\ ClockRound(s).queue = Passed(s)
  BY DEF ClockRound
<1>2. ASSUME NEW m \in BOOLEAN
      PROVE  Unused(Passed(s), m) = {i \in DOMAIN s : s[i].modificada = m}
  BY PassedBy DEF Unused, Kin
<1> QED  BY <1>1, <1>2

LEMMA TakesSame ==
  ASSUME NEW s \in Seq(Entry), NEW r, TakesOne(Passed(s), r)
  PROVE  TakesOne(s, r)
<1>1. PICK k \in DOMAIN Passed(s) : \E f : Leaves(Passed(s), r, k, f)
  BY Zenon DEF TakesOne
<1> PICK f : Leaves(Passed(s), r, k, f)
  BY <1>1, Zenon
<1>2. DOMAIN Passed(s) = DOMAIN s /\ \A i \in DOMAIN s : Kin(Passed(s)[i], s[i])
  BY PassedBy
<1>3. Leaves(s, r, k, f)
  BY <1>2 DEF Leaves, Kin
<1> QED  BY <1>2, <1>3 DEF TakesOne

LEMMA SomeModified ==
  ASSUME NEW s \in Seq(Entry), s # <<>>
  PROVE  \E m \in BOOLEAN : \E i \in DOMAIN s : s[i].modificada = m
<1>1. 1 \in DOMAIN s /\ s[1] \in Entry
  BY EmptySeq
<1>2. s[1].modificada \in BOOLEAN
  BY <1>1 DEF Entry
<1> QED  BY <1>1, <1>2

LEMMA Selects ==
  ASSUME table \in Seq(Entry), table # <<>>
  PROVE  TakesOne(table, SeleccionarVictima(table))
<1>1. CASE algorithm = "LRU"
  <2>1. 1 \in 1 .. Len(table)
    BY EmptySeq
  <2> DEFINE l == SubSeq(table, 1, 1 - 1)
  <2>2. l \in Seq(Entry) /\ Len(l) = 1 - 1
    <3>1. 1 \in Nat \ {0} /\ 1 - 1 \in 0 .. Len(table)
      BY <2>1
    <3>2. l \in Seq(Entry) /\ Len(l) = IF 1 <= 1 - 1 THEN 1 - 1 - 1 + 1 ELSE 0
      BY <3>1, PartOf
    <3> HIDE DEF l
    <3> QED  BY <3>2
  <2>3. SeleccionarVictima(table) =
          [victim |-> <<table[1]>>, queue |-> SubSeq(table, 1 + 1, Len(table)) \o l]
    BY <1>1, Zenon DEF SeleccionarVictima, Choice
  <2> HIDE DEF l
  <2>4. \A i \in 1 .. 1 - 1 : Kin(l[i], table[i])
    OBVIOUS
  <2> QED  BY <2>1, <2>2, <2>3, <2>4, Rotated
<1>2. CASE algorithm # "LRU"
  <2>1. ASSUME NEW m \in BOOLEAN, Unused(table, m) # {}, m => Unused(table, FALSE) = {}
        PROVE  TakesOne(table, SeleccionarVictima(table))
    <3>1. TakesOne(table, ClockRound(table))
          /\ ClockRound(table).victim = <<table[Min(Unused(table, m))]>>
      BY <2>1, RoundTakes
    <3> QED  BY <1>2, <3>1 DEF SeleccionarVictima
  <2>2. CASE Unused(table, FALSE) = {} /\ Unused(table, TRUE) = {}
    <3> DEFINE p == Passed(table)
    <3>1. SeleccionarVictima(table) = ClockRound(p) /\ p \in Seq(Entry)
      BY <1>2, <2>2, RoundPasses, PassedBy DEF SeleccionarVictima
    <3>2. \E m \in BOOLEAN : Unused(p, m) # {}
      <4>1. PICK m \in BOOLEAN, i \in DOMAIN table : table[i].modificada = m
        BY SomeModified
      <4>2. Unused(p, m) = {j \in DOMAIN table : table[j].modificada = m}
        BY <2>2, RoundPasses
      <4> QED  BY <4>1, <4>2
    <3> HIDE DEF p
    <3>3. \E m \in BOOLEAN : Unused(p, m) # {} /\ (m => Unused(p, FALSE) = {})
      BY <3>2
    <3>4. TakesOne(p, ClockRound(p))
      BY <3>1, <3>3, RoundTakes
    <3> QED  BY <3>1, <3>4, TakesSame DEF p
  <2>3. CASE Unused(table, FALSE) # {}
    BY <2>1, <2>3
  <2>4. CASE Unused(table, FALSE) = {} /\ Unused(table, TRUE) # {}
    BY <2>1, <2>4
  <2> QED  BY <2>2, <2>3, <2>4
<1> QED  BY <1>1, <1>2


Best == {i \in DOMAIN table : \A j \in DOMAIN table : Class(table[i]) <= Class(table[j])}

LEMMA BestIs ==
  ASSUME table \in Seq(Entry), NEW S \in SUBSET DOMAIN table, S # {}, NEW c \in Nat,
         \A i \in S : Class(table[i]) = c, \A i \in DOMAIN table \ S : Class(table[i]) > c
  PROVE  Best = S
<1>1. \A i \in DOMAIN table : Class(table[i]) \in Nat
  BY DEF Class
<1> QED  BY <1>1 DEF Best

LEMMA Classes ==
  ASSUME NEW e \in Entry
  PROVE  /\ ~e.uso /\ ~e.modificada => Class(e) = 0
         /\ ~e.uso /\ e.modificada => Class(e) = 1
         /\ e.uso /\ ~e.modificada => Class(e) = 2
         /\ e.uso /\ e.modificada => Class(e) = 3
  BY DEF Class

(* Whichever is taken, it is the first of the lowest class. *)
LEMMA LowestTaken ==
  ASSUME table \in Seq(Entry), table # <<>>, algorithm = "CLOCK-M"
  PROVE  Kin(SeleccionarVictima(table).victim[1], table[Min(Best)])
<1>1. \A i \in DOMAIN table : table[i] \in Entry /\ table[i].modificada \in BOOLEAN
                              /\ table[i].uso \in BOOLEAN
  <2>1. \A i \in DOMAIN table : table[i] \in Entry
    OBVIOUS
  <2>2. \A e \in Entry : e.modificada \in BOOLEAN /\ e.uso \in BOOLEAN
    BY DEF Entry
  <2> QED  BY <2>1, <2>2
<1>2. ASSUME NEW m \in BOOLEAN, Unused(table, m) # {}, m => Unused(table, FALSE) = {}
      PROVE  Kin(SeleccionarVictima(table).victim[1], table[Min(Best)])
  <2> DEFINE i == Min(Unused(table, m))
  <2>1. ClockRound(table).victim = <<table[i]>>
    BY <1>2, RoundTakes
  <2>2. SeleccionarVictima(table).victim = <<table[i]>>
    BY <2>1 DEF SeleccionarVictima
  <2>3. Best = Unused(table, m)
    <3> DEFINE c == IF m THEN 1 ELSE 0
    <3>1. \A j \in Unused(table, m) : Class(table[j]) = c
      BY <1>1, Classes DEF Unused
    <3>2. \A j \in DOMAIN table \ Unused(table, m) : Class(table[j]) > c
      BY <1>1, <1>2, Classes DEF Unused
    <3>3. c \in Nat /\ Unused(table, m) \in SUBSET DOMAIN table
      BY DEF Unused
    <3> HIDE DEF c
    <3> QED  BY <1>2, <3>1, <3>2, <3>3, BestIs
  <2> QED  BY <2>2, <2>3 DEF Kin
<1>3. CASE Unused(table, FALSE) = {} /\ Unused(table, TRUE) = {}
  <2> DEFINE p == Passed(table)
  <2>1. /\ SeleccionarVictima(table) = ClockRound(p) /\ p \in Seq(Entry)
        /\ DOMAIN p = DOMAIN table /\ \A i \in DOMAIN table : Kin(p[i], table[i])
        /\ \A m \in BOOLEAN : Unused(p, m) = {i \in DOMAIN table : table[i].modificada = m}
    BY <1>3, RoundPasses, PassedBy DEF SeleccionarVictima
  <2> HIDE DEF p
  <2>2. \A i \in DOMAIN table : table[i].uso
    BY <1>1, <1>3 DEF Unused
  <2>3. ASSUME NEW m \in BOOLEAN, Unused(p, m) # {}, m => Unused(p, FALSE) = {}
        PROVE  Kin(SeleccionarVictima(table).victim[1], table[Min(Best)])
    <3> DEFINE i == Min(Unused(p, m))
               c == IF m THEN 3 ELSE 2
    <3>1. ClockRound(p).victim = <<p[i]>> /\ i \in DOMAIN table
      BY <2>1, <2>3, RoundTakes, UnusedAre
    <3>2. \A j \in Unused(p, m) : Class(table[j]) = c
      BY <1>1, <2>1, <2>2, Classes
    <3>3. \A j \in DOMAIN table \ Unused(p, m) : Class(table[j]) > c
      <4>1. CASE m = TRUE
        <5>1. Unused(p, FALSE) = {j \in DOMAIN table : table[j].modificada = FALSE}
              /\ Unused(p, TRUE) = {j \in DOMAIN table : table[j].modificada = TRUE}
          BY <2>1
        <5>2. DOMAIN table \ Unused(p, m) = {}
          BY <1>1, <2>3, <4>1, <5>1
        <5> QED  BY <5>2
      <4>2. CASE m = FALSE
        <5>1. \A j \in DOMAIN table \ Unused(p, m) : table[j].modificada
          BY <1>1, <2>1, <4>2
        <5>2. \A j \in DOMAIN table \ Unused(p, m) : Class(table[j]) = 3
          BY <1>1, <2>2, <5>1, Classes
        <5> QED  BY <4>2, <5>2
      <4> QED  BY <4>1, <4>2
    <3>4. c \in Nat /\ Unused(p, m) \in SUBSET DOMAIN table
      BY <2>1
    <3>5. Best = Unused(p, m)
      <4> HIDE DEF c
      <4> QED  BY <2>3, <3>2, <3>3, <3>4, BestIs
    <3>6. Kin(p[i], table[i])
      BY <2>1, <3>1
    <3> QED  BY <2>1, <3>1, <3>5, <3>6
  <2>4. \E m \in BOOLEAN : Unused(p, m) # {} /\ (m => Unused(p, FALSE) = {})
    <3>1. PICK m \in BOOLEAN, i \in DOMAIN table : table[i].modificada = m
      BY SomeModified
    <3>2. Unused(p, m) # {}
      BY <2>1, <3>1
    <3> QED  BY <3>2
  <2> QED  BY <2>3, <2>4
<1>4. CASE Unused(table, FALSE) # {}
  BY <1>2, <1>4
<1>5. CASE Unused(table, FALSE) = {} /\ Unused(table, TRUE) # {}
  BY <1>2, <1>5
<1> QED  BY <1>3, <1>4, <1>5

LEMMA LowestOfAll == TypeOK => VictimIsLowest
<1>1. TypeOK /\ algorithm = "CLOCK-M" /\ table # <<>>
        => Kin(SeleccionarVictima(table).victim[1], table[Min(Best)])
  BY LowestTaken DEF TypeOK
<1> QED  BY <1>1, Zenon DEF VictimIsLowest, Kin, Best


-----------------------------------------------------------------------------
(* The queue of entries, changed *)

SameSlot(e, d) == e.ft = d.ft /\ e.pag = d.pag /\ e.marco = d.marco

(* The same pages in the same frames, in another order. *)
Rearranged(s, t, f) ==
  /\ f \in [DOMAIN t -> DOMAIN s]
  /\ \A i, j \in DOMAIN t : i # j => f[i] # f[j]
  /\ \A k \in DOMAIN s : \E j \in DOMAIN t : f[j] = k
  /\ \A j \in DOMAIN t : SameSlot(t[j], s[f[j]])

LEMMA SlotsKept ==
  ASSUME NEW s, NEW t, NEW f, Rearranged(s, t, f)
  PROVE  /\ Distinct(s) => Distinct(t)
         /\ MarcosOf(t) = MarcosOf(s)
         /\ \A e : (\A i \in DOMAIN s : Apart(s[i], e)) => \A j \in DOMAIN t : Apart(t[j], e)
<1>1. ASSUME Distinct(s) PROVE Distinct(t)
  <2>1. ASSUME NEW i \in DOMAIN t, NEW j \in DOMAIN t, i # j PROVE Apart(t[i], t[j])
    <3>1. f[i] \in DOMAIN s /\ f[j] \in DOMAIN s /\ f[i] # f[j]
      BY <2>1 DEF Rearranged
    <3>2. Apart(s[f[i]], s[f[j]])
      BY <1>1, <3>1 DEF Distinct
    <3> QED  BY <2>1, <3>2 DEF Rearranged, SameSlot, Apart
  <2> QED  BY <2>1 DEF Distinct
<1>2. MarcosOf(t) = MarcosOf(s)
  <2>1. \A j \in DOMAIN t : f[j] \in DOMAIN s /\ t[j].marco = s[f[j]].marco
    BY DEF Rearranged, SameSlot
  <2>2. \A k \in DOMAIN s : \E j \in DOMAIN t : t[j].marco = s[k].marco
    BY <2>1 DEF Rearranged
  <2> QED  BY <2>1, <2>2 DEF MarcosOf
<1>3. ASSUME NEW e, \A i \in DOMAIN s : Apart(s[i], e), NEW j \in DOMAIN t PROVE Apart(t[j], e)
  <2>1. f[j] \in DOMAIN s /\ SameSlot(t[j], s[f[j]])
    BY <1>3 DEF Rearranged
  <2> QED  BY <1>3, <2>1 DEF Apart, SameSlot
<1> QED  BY <1>1, <1>2, <1>3

(* Each where it was. *)
LEMMA SlotsSame ==
  ASSUME NEW s, NEW t, DOMAIN t = DOMAIN s, \A i \in DOMAIN s : SameSlot(t[i], s[i])
  PROVE  Rearranged(s, t, [i \in DOMAIN t |-> i])
  BY DEF Rearranged

(* actualizarPrioridadLRU *)
LEMMA ToTheEnd ==
  ASSUME NEW s \in Seq(Entry), NEW i \in DOMAIN s, NEW e \in Entry, SameSlot(e, s[i])
  PROVE  LET t == Append(RemoveAt(s, i), e) IN
         /\ t \in Seq(Entry)
         /\ \A j \in DOMAIN t : t[j] = e \/ \E k \in DOMAIN s : k # i /\ t[j] = s[k]
         /\ \E f : Rearranged(s, t, f) /\ \A j \in DOMAIN t : f[j] = i => t[j] = e
<1> DEFINE n == Len(s)
           h == RemoveAt(s, i)
           t == Append(h, e)
           f == [j \in 1 .. n |-> CASE j < i -> j [] i <= j /\ j < n -> j + 1 [] OTHER -> i]
<1>1. n \in Nat /\ i \in 1 .. n /\ DOMAIN s = 1 .. n
  OBVIOUS
<1>2. /\ h \in Seq(Entry) /\ Len(h) = n - 1
      /\ \A j \in 1 .. i - 1 : h[j] = s[j]
      /\ \A j \in i .. n - 1 : h[j] = s[j + 1]
  BY <1>1, WithoutOne DEF RemoveAt
<1> HIDE DEF h
<1>3. /\ t \in Seq(Entry) /\ Len(t) = n - 1 + 1
      /\ \A j \in 1 .. n - 1 : t[j] = h[j]
      /\ t[n - 1 + 1] = e
  <2>1. /\ t \in Seq(Entry) /\ Len(t) = Len(h) + 1
        /\ \A j \in 1 .. Len(h) : t[j] = h[j]
        /\ t[Len(h) + 1] = e
    BY <1>2, AppendProperties
  <2> QED  BY <1>2, <2>1
<1> HIDE DEF t, n
<1>4. DOMAIN t = 1 .. n /\ t[n] = e
  BY <1>1, <1>3
<1>5. \A j \in 1 .. n :
        /\ f[j] \in 1 .. n
        /\ IF f[j] = i THEN j = n /\ t[j] = e ELSE t[j] = s[f[j]]
  <2> SUFFICES ASSUME NEW j \in 1 .. n
               PROVE  /\ f[j] \in 1 .. n
                      /\ IF f[j] = i THEN j = n /\ t[j] = e ELSE t[j] = s[f[j]]
    OBVIOUS
  <2>1. CASE j < i
    <3>1. f[j] = j /\ j \in 1 .. n - 1 /\ j \in 1 .. i - 1 /\ j # i
      BY <1>1, <2>1
    <3> QED  BY <1>2, <1>3, <3>1
  <2>2. CASE i <= j /\ j < n
    <3>1. f[j] = j + 1 /\ j \in 1 .. n - 1 /\ j \in i .. n - 1 /\ j + 1 # i /\ j + 1 \in 1 .. n
      BY <1>1, <2>2
    <3> QED  BY <1>2, <1>3, <3>1
  <2>3. CASE j = n
    <3>1. f[j] = i
      BY <1>1, <2>3
    <3> QED  BY <1>1, <1>4, <2>3, <3>1
  <2> QED  BY <1>1, <2>1, <2>2, <2>3
<1>6. \A j, k \in 1 .. n : j # k => f[j] # f[k]
  BY <1>1
<1>7. ASSUME NEW k \in 1 .. n PROVE \E j \in 1 .. n : f[j] = k
  <2>1. CASE k < i
    BY <1>1, <2>1
  <2>2. CASE k = i
    BY <1>1, <2>2
  <2>3. CASE k > i
    <3>1. k - 1 \in 1 .. n /\ f[k - 1] = k
      BY <1>1, <2>3
    <3> QED  BY <3>1
  <2> QED  BY <1>1, <2>1, <2>2, <2>3
<1>8. f \in [1 .. n -> 1 .. n]
  BY <1>5
<1> HIDE DEF f
<1>9. \A j \in 1 .. n : SameSlot(t[j], s[f[j]])
  BY <1>5 DEF SameSlot
<1>10. Rearranged(s, t, f)
  BY <1>1, <1>4, <1>6, <1>7, <1>8, <1>9 DEF Rearranged
<1>11. \A j \in DOMAIN t : t[j] = e \/ \E k \in DOMAIN s : k # i /\ t[j] = s[k]
  BY <1>1, <1>4, <1>5
<1>12. \A j \in DOMAIN t : f[j] = i => t[j] = e
  BY <1>4, <1>5
<1> QED  BY <1>3, <1>10, <1>11, <1>12 DEF t, h

LEMMA OvertakenKeeps ==
  ASSUME NEW s \in Seq(Entry), NEW ft, NEW n \in Nat
  PROVE  LET t == Overtaken(s, ft, n) IN
         /\ t \in Seq(Entry) /\ Len(t) = Len(s) /\ DOMAIN t = DOMAIN s
         /\ \A i \in DOMAIN s :
              /\ SameSlot(t[i], s[i]) /\ t[i].modificada = s[i].modificada
              /\ t[i].stale <=> s[i].stale \/ (s[i].ft = ft /\ s[i].pag >= n)
<1> DEFINE t == Overtaken(s, ft, n)
<1>1. \A i \in DOMAIN s : s[i] \in Entry
  OBVIOUS
<1>2. \A e \in Entry : /\ [e EXCEPT !.stale = TRUE] \in Entry
                       /\ SameSlot([e EXCEPT !.stale = TRUE], e)
                       /\ [e EXCEPT !.stale = TRUE].modificada = e.modificada
                       /\ [e EXCEPT !.stale = TRUE].stale = TRUE
                       /\ SameSlot(e, e) /\ e.stale \in BOOLEAN
  BY DEF Entry, SameSlot
<1>3. DOMAIN s = 1 .. Len(s) /\ Len(s) \in Nat
  OBVIOUS
<1>4. DOMAIN t = DOMAIN s /\ \A i \in DOMAIN s :
        t[i] = IF s[i].ft = ft /\ s[i].pag >= n THEN [s[i] EXCEPT !.stale = TRUE] ELSE s[i]
  BY DEF Overtaken
<1>5. t = [i \in 1 .. Len(s) |-> t[i]]
  BY <1>3 DEF Overtaken
<1> HIDE DEF t
<1>6. \A i \in DOMAIN s :
        /\ t[i] \in Entry /\ SameSlot(t[i], s[i]) /\ t[i].modificada = s[i].modificada
        /\ t[i].stale <=> s[i].stale \/ (s[i].ft = ft /\ s[i].pag >= n)
  <2> SUFFICES ASSUME NEW i \in DOMAIN s
               PROVE  /\ t[i] \in Entry /\ SameSlot(t[i], s[i]) /\ t[i].modificada = s[i].modificada
                      /\ t[i].stale <=> s[i].stale \/ (s[i].ft = ft /\ s[i].pag >= n)
    OBVIOUS
  <2>1. PICK e \in Entry : e = s[i]
    BY <1>1
  <2>2. CASE e.ft = ft /\ e.pag >= n
    <3>1. t[i] = [e EXCEPT !.stale = TRUE]
      BY <1>4, <2>1, <2>2, Zenon
    <3> QED  BY <1>2, <2>1, <2>2, <3>1
  <2>3. CASE ~ (e.ft = ft /\ e.pag >= n)
    <3>1. t[i] = e
      BY <1>4, <2>1, <2>3, Zenon
    <3> QED  BY <1>2, <2>1, <2>3, <3>1
  <2> QED  BY <2>2, <2>3
<1>7. t \in [1 .. Len(s) -> Entry]
  BY <1>3, <1>5, <1>6
<1>8. t \in Seq(Entry) /\ Len(t) = Len(s)
  BY <1>3, <1>7
<1> QED  BY <1>4, <1>6, <1>8 DEF t


-----------------------------------------------------------------------------
(* Types *)

LEMMA EntryFields ==
  ASSUME NEW e \in Entry
  PROVE  /\ e.ft \in FileTags /\ e.pag \in Nat /\ e.marco \in Frames
         /\ e.uso \in BOOLEAN /\ e.modificada \in BOOLEAN /\ e.stale \in BOOLEAN
  BY DEF Entry

LEMMA InstructionFields ==
  ASSUME NEW r \in Instruction
  PROVE  /\ r.ft \in FileTags /\ r.base \in Nat /\ r.tam \in Nat /\ r.text \in Seq(Bytes)
         /\ r.op \in {"WRITE", "READ", "FLUSH", "COMMIT", "EVICT", "CREATE", "TRUNCATE", "DELETE"}
         /\ [r EXCEPT !.op = "EVICT"] \in Instruction
  BY DEF Instruction, Remote

LEMMA IdleIs == Idle \in Instruction /\ Idle.op = "FLUSH"
<1> DEFINE ft == CHOOSE ft \in FileTags : TRUE
<1>1. ft \in FileTags
  BY SizesAssumption
<1>2. Idle = [op |-> "FLUSH", ft |-> ft, base |-> 0, tam |-> 1, text |-> <<>>]
  BY DEF Idle
<1> HIDE DEF ft
<1>3. <<>> \in Seq(Bytes)
  OBVIOUS
<1> QED  BY <1>1, <1>2, <1>3 DEF Instruction

LEMMA Typed ==
  ASSUME Inv
  PROVE  /\ memory \in [Addresses -> Bytes] /\ libre \subseteq Frames
         /\ table \in Seq(Entry) /\ outgoing \in Seq(Entry) /\ Len(outgoing) <= 1
         /\ \A i \in DOMAIN table : table[i] \in Entry
         /\ \A i \in DOMAIN outgoing : outgoing[i] \in Entry /\ i = 1
         /\ outgoing # <<>> => 1 \in DOMAIN outgoing
         /\ instr \in Instruction /\ done \in Nat /\ rest \in Seq(FileTags) /\ leido \in Seq(Read)
         /\ state \in [FileTags -> States] /\ hubo_error \in BOOLEAN
         /\ size \in [FileTags -> Nat] /\ store = [ft \in FileTags |-> store[ft]]
         /\ \A ft \in FileTags : size[ft] \in 0 .. PagesOf[ft]
         /\ \A ft \in FileTags : store[ft] \in [Pages(ft) -> [Offsets -> Bytes]]
         /\ StorageKnown /\ InHand /\ TableApart /\ PagesInStore /\ TypeOK
<1>1. TypeOK /\ StorageKnown /\ InHand /\ TableApart /\ PagesInStore
  BY DEF Inv
<1>2. /\ table \in Seq(Entry) /\ outgoing \in Seq(Entry) /\ Len(outgoing) <= 1
  BY <1>1 DEF TypeOK
<1>3. \A i \in DOMAIN table : table[i] \in Entry
  BY <1>2
<1>4. \A i \in DOMAIN outgoing : outgoing[i] \in Entry /\ i = 1
  BY <1>2
<1>5. outgoing # <<>> => 1 \in DOMAIN outgoing
  BY <1>2, EmptySeq
<1> QED  BY <1>1, <1>2, <1>3, <1>4, <1>5 DEF TypeOK, StorageKnown

Places == {"idle", "piece", "writeback", "fault", "send", "flush", "commit", "remote", "stuck"}

LEMMA TypeFrom ==
  ASSUME TypeOK, algorithm' = algorithm, memory' \in [Addresses -> Bytes],
         libre' \subseteq Frames, table' \in Seq(Entry),
         outgoing' \in Seq(Entry), Len(outgoing') <= 1, hubo_error' \in BOOLEAN,
         pc' \in Places, instr' \in Instruction, done' \in Nat, rest' \in Seq(FileTags),
         leido' \in Seq(Read), state' \in [FileTags -> States],
         \A ft \in FileTags : size'[ft] \in 0 .. PagesOf[ft],
         \A ft \in FileTags : store'[ft] \in [Pages(ft) -> [Offsets -> Bytes]]
  PROVE  TypeOK'
  BY Zenon DEF TypeOK, Places

(* The piece at hand. *)
LEMMA PieceNow ==
  ASSUME Inv, pc \in {"piece", "writeback", "fault"}
  PROVE  /\ instr \in Instructions /\ instr.op \in {"WRITE", "READ"} /\ instr.ft \in FileTags
         /\ instr.op = "WRITE" => Len(instr.text) = instr.tam
         /\ instr.base \in Nat /\ instr.tam \in Nat /\ done < instr.tam
         /\ Address \in Nat /\ Page \in Nat /\ Offset \in Offsets
         /\ Address = Page * BlockSize + Offset
         /\ Piece \in 1 .. BlockSize /\ done + Piece <= instr.tam
         /\ Piece < BlockSize => done + Piece = instr.tam
<1>1. /\ instr \in Instructions /\ instr.op \in {"WRITE", "READ"} /\ done < instr.tam
      /\ instr \in Instruction /\ done \in Nat /\ BlockSize \in Nat \ {0}
  BY Typed, SizesAssumption DEF InHand
<1>2. instr.ft \in FileTags /\ instr.base \in Nat /\ instr.tam \in Nat
  BY <1>1, InstructionFields
<1>3. instr.op = "WRITE" => Len(instr.text) = instr.tam
  BY <1>1, InstructionsAssumption
<1>4. Address \in Nat
  BY <1>1, <1>2 DEF Address
<1>5. Page \in Nat /\ Offset \in Offsets /\ Address = Page * BlockSize + Offset
  BY <1>1, <1>4, Divided DEF Page, Offset, Offsets
<1>6. /\ Piece \in 1 .. BlockSize /\ done + Piece <= instr.tam
      /\ Piece < BlockSize => done + Piece = instr.tam
  BY <1>1, <1>2 DEF Piece
<1> QED  BY <1>1, <1>2, <1>3, <1>4, <1>5, <1>6

(* The entry of a page. *)
LEMMA EntryOfPage ==
  ASSUME Inv, NEW ft, NEW p, Cached(ft, p)
  PROVE  /\ IndexOf(ft, p) \in DOMAIN table
         /\ table[IndexOf(ft, p)].ft = ft /\ table[IndexOf(ft, p)].pag = p
         /\ table[IndexOf(ft, p)] \in Entry
<1>1. EntriesOf(ft, p) \in SUBSET Nat /\ EntriesOf(ft, p) # {}
  BY Typed DEF EntriesOf, Cached
<1>2. IndexOf(ft, p) \in EntriesOf(ft, p)
  BY <1>1, LeastIs DEF IndexOf
<1> QED  BY <1>2, Typed DEF EntriesOf

LEMMA InFrame ==
  ASSUME NEW m \in Frames, NEW o \in Offsets
  PROVE  /\ m \in Nat /\ m * BlockSize \in Nat /\ m * BlockSize + o \in Addresses
<1>1. m \in Nat /\ o \in Nat /\ m < NFrames /\ o < BlockSize /\ NFrames \in Nat /\ BlockSize \in Nat
  BY SizesAssumption DEF Frames, Offsets
<1>2. (m + 1) * BlockSize <= NFrames * BlockSize
  BY <1>1
<1> QED  BY <1>1, <1>2 DEF Addresses

(* The last piece, and what comes after it. *)
LEMMA PieceThen ==
  ASSUME Inv, pc \in {"piece", "writeback", "fault"}, NextPiece
  PROVE  \/ /\ pc' = "piece" /\ done' = done + BlockSize /\ done' < instr.tam
            /\ Piece = BlockSize
         \/ pc' = Finished /\ done' = 0 /\ done + Piece = instr.tam
<1>1. done \in Nat /\ BlockSize \in Nat \ {0} /\ instr.tam \in Nat /\ done < instr.tam
  BY PieceNow, Typed, SizesAssumption
<1> QED  BY <1>1 DEF NextPiece, Piece


-----------------------------------------------------------------------------
(* The steps that leave the entries and what they hold as they are *)

LEMMA HandsFree ==
  ASSUME outgoing' = <<>>, pc' \in {"idle", "send", "commit"}
  PROVE  InHand'
  BY DEF InHand

LEMMA HandsOnPiece ==
  ASSUME outgoing' = <<>>, pc' = "piece", instr' \in Instructions,
         instr'.op \in {"WRITE", "READ"}, done' < instr'.tam
  PROVE  InHand'
  BY DEF InHand

LEMMA SlotsRest ==
  ASSUME TableApart, UNCHANGED <<libre, table, outgoing>>
  PROVE  TableApart'
  BY DEF TableApart, Distinct, MarcosOf, Apart

LEMMA PagesRest ==
  ASSUME PagesInStore, StorageKnown, UNCHANGED <<memory, table, outgoing, size, store>>
  PROVE  PagesInStore' /\ StorageKnown'
  BY DEF PagesInStore, InStore, Contents, StorageKnown

(* What the interpreter does between its requests. *)
Calm == Fetch \/ NewQuery \/ Evict \/ SendRead \/ FaultRefused \/ FlushedAll
Calmer == WriteBackUnheard \/ FlushUnheard \/ Commit \/ Create \/ Refused

LEMMA TypesRest ==
  ASSUME Inv, UNCHANGED <<algorithm, mem, size, store>>,
         hubo_error' \in BOOLEAN, pc' \in Places, instr' \in Instruction, done' \in Nat,
         rest' \in Seq(FileTags), leido' \in Seq(Read), state' \in [FileTags -> States],
         InHand'
  PROVE  Inv'
<1>1. TypeOK'
  BY Typed, TypeFrom DEF mem
<1>2. TableApart' /\ PagesInStore' /\ StorageKnown'
  BY Typed, SlotsRest, PagesRest DEF mem
<1> QED  BY <1>1, <1>2 DEF Inv

LEMMA RestNext ==
  ASSUME Inv, FlushNext, pc = "flush", outgoing' = <<>>
  PROVE  pc' \in Places /\ rest' \in Seq(FileTags) /\ InHand'
<1>1. rest \in Seq(FileTags) /\ rest # <<>>
  BY Typed DEF InHand
<1>2. Tail(rest) \in Seq(FileTags) /\ Len(Tail(rest)) = Len(rest) - 1
  BY <1>1, HeadTailProperties
<1>3. rest' = Tail(rest) /\ pc' \in {"flush", "commit", "idle"} /\ (pc' = "flush" => Len(rest) > 1)
  BY DEF FlushNext
<1>4. pc' = "flush" => rest' # <<>>
  <2>1. Len(rest) > 1 => Tail(rest) # <<>>
    <3> DEFINE t == Tail(rest)
    <3>1. Len(t) = Len(rest) - 1 /\ Len(rest) \in Nat
      BY <1>1, <1>2
    <3> HIDE DEF t
    <3>2. t = <<>> => Len(t) = 0
      BY EmptySeq
    <3>3. Len(rest) > 1 => t # <<>>
      BY <3>1, <3>2
    <3> QED  BY <3>3 DEF t
  <2> QED  BY <1>3, <2>1
<1>5. InHand'
  BY <1>3, <1>4 DEF InHand
<1> QED  BY <1>2, <1>3, <1>5 DEF Places

LEMMA Forgotten == Inv /\ Forgets => instr' \in Instruction
  BY IdleIs, Typed DEF Forgets

LEMMA CalmKeeps == Inv /\ Calm => Inv'
<1> SUFFICES ASSUME Inv, Calm PROVE Inv'
  OBVIOUS
<1>1. CASE Fetch
  <2>1. pc = "idle" /\ UNCHANGED <<algorithm, mem, hubo_error, storage>> /\ done' = 0 /\ leido' = <<>>
    BY <1>1 DEF Fetch
  <2>2. PICK r \in Instructions :
          /\ instr' = r
          /\ pc' = CASE r.op \in {"WRITE", "READ"} -> "piece"
                     [] r.op \in Remote -> "remote"
                     [] OTHER -> "flush"
          /\ rest' = IF r.op \in {"FLUSH", "COMMIT"} THEN <<r.ft>> ELSE <<>>
    BY <1>1, Zenon DEF Fetch
  <2>3. r \in Instruction /\ r.op # "EVICT" /\ (r.op \in {"WRITE", "READ"} => r.tam > 0)
    BY InstructionsAssumption
  <2>4. outgoing' = <<>>
    BY <2>1, Typed DEF InHand, mem
  <2>5. r.op \in {"WRITE", "READ"} \/ r.op \in Remote \/ r.op \in {"FLUSH", "COMMIT"}
    BY <2>3, InstructionFields DEF Remote
  <2>6. CASE r.op \in {"WRITE", "READ"}
    <3>1. pc' = "piece"
      BY <2>2, <2>6 DEF Remote
    <3> QED  BY <2>1, <2>2, <2>3, <2>4, <2>6, <3>1, HandsOnPiece, TypesRest, Typed DEF Places, storage
  <2>7. CASE r.op \in Remote
    <3>1. pc' = "remote"
      BY <2>2, <2>7 DEF Remote
    <3>2. InHand'
      BY <2>2, <2>4, <3>1 DEF InHand
    <3> QED  BY <2>1, <2>2, <2>3, <2>7, <3>1, <3>2, TypesRest, Typed DEF Places, storage, Remote
  <2>8. CASE r.op \in {"FLUSH", "COMMIT"}
    <3>1. pc' = "flush" /\ rest' = <<r.ft>>
      BY <2>2, <2>8 DEF Remote
    <3>2. r.ft \in FileTags
      BY <2>3, InstructionFields
    <3>3. InHand'
      BY <2>4, <3>1 DEF InHand
    <3> QED  BY <2>1, <2>2, <2>3, <3>1, <3>2, <3>3, TypesRest, Typed DEF Places, storage
  <2> QED  BY <2>5, <2>6, <2>7, <2>8
<1>2. CASE NewQuery
  <2>1. pc' = "idle" /\ hubo_error' = FALSE
        /\ UNCHANGED <<algorithm, mem, instr, done, rest, leido, storage>>
    BY <1>2 DEF NewQuery
  <2>2. InHand'
    BY <1>2, <2>1, Typed, HandsFree DEF NewQuery, InHand, mem
  <2> QED  BY <2>1, <2>2, TypesRest, Typed DEF Places, storage
<1>3. CASE Evict
  <2> DEFINE met == {i \in DOMAIN table : \A j \in 1 .. i - 1 : table[j].ft # table[i].ft}
             n == Cardinality(met)
  <2>1. /\ pc = "idle" /\ table # <<>> /\ instr' = [Idle EXCEPT !.op = "EVICT"] /\ pc' = "flush"
        /\ UNCHANGED <<algorithm, mem, hubo_error, done, leido, storage>>
    BY <1>3 DEF Evict
  <2>2. PICK seen \in [1 .. n -> met] : rest' = [k \in DOMAIN seen |-> table[seen[k]].ft]
    BY <1>3, Zenon DEF Evict
  <2>3. met \subseteq DOMAIN table /\ DOMAIN table = 1 .. Len(table) /\ Len(table) \in Nat
        /\ 1 \in met
    <3>1. table \in Seq(Entry) /\ table # <<>>
      BY <2>1, Typed
    <3>2. 1 \in DOMAIN table
      BY <3>1, EmptySeq
    <3> QED  BY <3>1, <3>2
  <2>4. n \in Nat /\ n # 0
    <3>1. IsFiniteSet(DOMAIN table)
      BY <2>3, FS_Interval
    <3>2. IsFiniteSet(met)
      BY <2>3, <3>1, FS_Subset
    <3> HIDE DEF met
    <3> QED  BY <2>3, <3>2, FS_EmptySet, FS_CardinalityType
  <2> HIDE DEF n, met
  <2>5. rest' \in [1 .. n -> FileTags]
    <3>1. \A k \in 1 .. n : seen[k] \in DOMAIN table
      BY <2>2, <2>3
    <3>2. \A k \in 1 .. n : table[seen[k]].ft \in FileTags
      BY <3>1, Typed, EntryFields
    <3>3. DOMAIN seen = 1 .. n
      BY <2>2
    <3> QED  BY <2>2, <3>2, <3>3
  <2>6. rest' \in Seq(FileTags) /\ rest' # <<>>
    <3>1. rest' \in Seq(FileTags) /\ Len(rest') = n
      BY <2>4, <2>5
    <3> QED  BY <2>4, <3>1
  <2>7. instr' \in Instruction
    BY <2>1, IdleIs, InstructionFields
  <2>8. outgoing' = <<>>
    BY <2>1, Typed DEF InHand, mem
  <2>9. InHand'
    BY <2>1, <2>6, <2>8 DEF InHand
  <2> QED  BY <2>1, <2>6, <2>7, <2>9, TypesRest, Typed DEF Places, storage
<1>4. CASE SendRead
  <2>1. /\ pc = "send" /\ pc' = "idle" /\ leido' = <<>> /\ Forgets
        /\ UNCHANGED <<algorithm, mem, hubo_error, done, rest, storage>>
    BY <1>4 DEF SendRead
  <2>2. InHand'
    BY <2>1, Typed, HandsFree DEF InHand, mem
  <2> QED  BY <2>1, <2>2, TypesRest, Typed, Forgotten DEF Places, storage
<1>5. CASE FaultRefused
  <2>1. /\ pc = "fault" /\ hubo_error' = TRUE /\ leido' = <<>> /\ Forgets
        /\ IF instr.op = "WRITE" THEN NextPiece ELSE pc' = "idle" /\ done' = 0
        /\ UNCHANGED <<algorithm, mem, rest, storage>>
    BY <1>5 DEF FaultRefused
  <2>2. outgoing' = <<>>
    BY <2>1, Typed DEF InHand, mem
  <2>3. \/ pc' = "piece" /\ done' = done + BlockSize /\ done' < instr.tam
        \/ pc' \in {"idle", "send"} /\ done' = 0
    BY <2>1, PieceThen DEF Finished
  <2>4. CASE pc' = "piece" /\ done' = done + BlockSize /\ done' < instr.tam
    <3>1. instr' = instr
      BY <2>1, <2>4 DEF Forgets
    <3>2. InHand'
      BY <2>1, <2>2, <2>4, <3>1, PieceNow, HandsOnPiece
    <3>3. done' \in Nat
      BY <2>4, Typed, SizesAssumption
    <3> QED  BY <2>1, <2>4, <3>1, <3>2, <3>3, TypesRest, Typed DEF Places, storage
  <2>5. CASE pc' \in {"idle", "send"} /\ done' = 0
    <3>1. InHand'
      BY <2>2, <2>5, HandsFree
    <3> QED  BY <2>1, <2>5, <3>1, TypesRest, Typed, Forgotten DEF Places, storage
  <2> QED  BY <2>3, <2>4, <2>5
<1>6. CASE FlushedAll
  <2>1. pc = "flush" /\ FlushNext /\ Forgets /\ UNCHANGED <<algorithm, mem, hubo_error, done, leido, storage>>
    BY <1>6 DEF FlushedAll
  <2>2. outgoing' = <<>>
    BY <2>1, Typed DEF InHand, mem
  <2>3. pc' \in Places /\ rest' \in Seq(FileTags) /\ InHand'
    BY <2>1, <2>2, RestNext
  <2> QED  BY <2>1, <2>3, TypesRest, Typed, Forgotten DEF storage
<1> QED  BY <1>1, <1>2, <1>3, <1>4, <1>5, <1>6 DEF Calm

LEMMA CalmerKeeps == Inv /\ Calmer => Inv'
<1> SUFFICES ASSUME Inv, Calmer PROVE Inv'
  OBVIOUS
<1>1. CASE WriteBackUnheard \/ FlushUnheard
  <2>1. /\ pc' = "stuck" /\ hubo_error' \in BOOLEAN
        /\ UNCHANGED <<algorithm, instr, mem, done, rest, leido, storage>>
    BY <1>1, Typed DEF WriteBackUnheard, FlushUnheard
  <2>2. InHand'
    BY <2>1 DEF InHand
  <2> QED  BY <2>1, <2>2, TypesRest, Typed DEF Places, storage
<1>2. CASE Commit
  <2>1. /\ pc = "commit" /\ pc' \in {"stuck", "idle"} /\ Forgets /\ hubo_error' \in BOOLEAN
        /\ state' = [state EXCEPT ![instr.ft] = IF @ = "WORK_IN_PROGRESS" THEN "COMMITED" ELSE @]
        /\ UNCHANGED <<algorithm, mem, done, rest, leido, size, store>>
    BY <1>2, Typed DEF Commit
  <2>2. state' \in [FileTags -> States]
    BY <2>1, Typed DEF States
  <2>3. InHand'
    BY <2>1, Typed DEF InHand, mem
  <2> QED  BY <2>1, <2>2, <2>3, TypesRest, Typed, Forgotten DEF Places
<1>3. CASE Create
  <2>1. /\ pc = "remote" /\ pc' = "idle" /\ Forgets
        /\ state' = [state EXCEPT ![instr.ft] = "WORK_IN_PROGRESS"]
        /\ UNCHANGED <<algorithm, mem, hubo_error, done, rest, leido, size, store>>
    BY <1>3 DEF Create
  <2>2. state' \in [FileTags -> States]
    BY <2>1, Typed DEF States
  <2>3. InHand'
    BY <2>1, Typed, HandsFree DEF InHand, mem
  <2> QED  BY <2>1, <2>2, <2>3, TypesRest, Typed, Forgotten DEF Places
<1>4. CASE Refused
  <2>1. /\ pc = "remote" /\ pc' = "idle" /\ Forgets /\ hubo_error' = TRUE
        /\ UNCHANGED <<algorithm, mem, done, rest, leido, storage>>
    BY <1>4 DEF Refused
  <2>2. InHand'
    BY <2>1, Typed, HandsFree DEF InHand, mem
  <2> QED  BY <2>1, <2>2, TypesRest, Typed, Forgotten DEF Places, storage
<1> QED  BY <1>1, <1>2, <1>3, <1>4 DEF Calmer


-----------------------------------------------------------------------------
(* WRITE and READ of a piece *)

(* What is in a frame, byte by byte. *)
LEMMA SameContents ==
  ASSUME NEW m, \A o \in Offsets : memory'[m * BlockSize + o] = memory[m * BlockSize + o]
  PROVE  Contents(m)' = Contents(m)
  BY DEF Contents

Writes(m) ==
  memory' = [a \in Addresses |->
    LET k == a - m * BlockSize - Offset IN
    IF k \in 0 .. Piece - 1 /\ Offset + k < BlockSize THEN instr.text[done + k + 1]
    ELSE memory[a]]

LEMMA Written ==
  ASSUME Inv, pc = "piece", instr.op = "WRITE", NEW m \in Frames, Writes(m)
  PROVE  /\ memory' \in [Addresses -> Bytes]
         /\ \A x \in Frames : x # m => Contents(x)' = Contents(x)
         /\ \A o \in Offsets :
              memory'[m * BlockSize + o] =
                IF o \in Offset .. Offset + Piece - 1 THEN instr.text[done + (o - Offset) + 1]
                ELSE memory[m * BlockSize + o]
<1>1. /\ Offset \in Offsets /\ Piece \in 1 .. BlockSize /\ done + Piece <= instr.tam
      /\ Len(instr.text) = instr.tam /\ instr.text \in Seq(Bytes) /\ done \in Nat
      /\ instr.tam \in Nat /\ BlockSize \in Nat \ {0}
      /\ m * BlockSize \in Nat /\ m \in Nat
  BY PieceNow, Typed, InstructionFields, InFrame, SizesAssumption DEF Offsets
<1>2. \A a \in Addresses : a \in Nat
  BY DEF Addresses
<1>3. memory \in [Addresses -> Bytes]
  BY Typed
<1> DEFINE base == m * BlockSize
           text(k) == instr.text[done + k + 1]
<1>4. \A k \in 0 .. Piece - 1 : text(k) \in Bytes
  <2>1. \A k \in 0 .. Piece - 1 : done + k + 1 \in 1 .. Len(instr.text)
    BY <1>1
  <2> QED  BY <1>1, <2>1
<1>5. memory' = [a \in Addresses |->
        IF a - base - Offset \in 0 .. Piece - 1 /\ Offset + (a - base - Offset) < BlockSize
        THEN text(a - base - Offset) ELSE memory[a]]
  BY Zenon DEF Writes
<1> HIDE DEF text, base
<1>6. memory' \in [Addresses -> Bytes]
  BY <1>3, <1>4, <1>5
<1>7. ASSUME NEW x \in Frames, x # m PROVE Contents(x)' = Contents(x)
  <2>1. ASSUME NEW o \in Offsets PROVE memory'[x * BlockSize + o] = memory[x * BlockSize + o]
    <3> DEFINE a == x * BlockSize + o
    <3>1. a \in Addresses /\ a \in Nat /\ x \in Nat
      BY <1>2, InFrame
    <3>2. \A p \in Offsets : a # base + p
      BY <1>1, <1>7, <3>1, FramesApart DEF base, Offsets
    <3> HIDE DEF a
    <3>3. base \in Nat /\ Offset \in Nat
      BY <1>1 DEF base, Offsets
    <3>4. ~ (a - base - Offset \in 0 .. Piece - 1 /\ Offset + (a - base - Offset) < BlockSize)
      <4> SUFFICES ASSUME a - base - Offset \in 0 .. Piece - 1,
                          Offset + (a - base - Offset) < BlockSize PROVE FALSE
        OBVIOUS
      <4>1. a - base \in Offsets /\ a = base + (a - base)
        BY <1>1, <3>1, <3>3 DEF Offsets
      <4> QED  BY <3>2, <4>1
    <3> QED  BY <1>5, <3>1, <3>4 DEF a
  <2> QED  BY <2>1, SameContents
<1>8. ASSUME NEW o \in Offsets
      PROVE  memory'[m * BlockSize + o] =
               IF o \in Offset .. Offset + Piece - 1 THEN instr.text[done + (o - Offset) + 1]
               ELSE memory[m * BlockSize + o]
  <2>1. base + o \in Addresses /\ base \in Nat /\ o \in Nat /\ o < BlockSize /\ Offset \in Nat
    <3>1. base + o \in Addresses
      BY InFrame DEF base
    <3>2. base \in Nat
      BY <1>1 DEF base
    <3>3. o \in Nat /\ o < BlockSize /\ Offset \in Nat
      BY <1>1 DEF Offsets
    <3> QED  BY <3>1, <3>2, <3>3
  <2>2. (base + o) - base - Offset = o - Offset /\ Offset + (o - Offset) < BlockSize
    BY <1>1, <2>1
  <2>3. memory'[base + o] = IF o - Offset \in 0 .. Piece - 1 THEN text(o - Offset) ELSE memory[base + o]
    BY <1>5, <2>1, <2>2
  <2>4. o - Offset \in 0 .. Piece - 1 <=> o \in Offset .. Offset + Piece - 1
    BY <1>1, <2>1
  <2> QED  BY <2>3, <2>4 DEF text, base
<1> QED  BY <1>6, <1>7, <1>8

(* The entry of the piece goes to the end of the queue. *)
LEMMA TouchedKeeps ==
  ASSUME Inv, outgoing = <<>>, UNCHANGED <<libre, outgoing>>, NEW i \in DOMAIN table,
         NEW e \in Entry, SameSlot(e, table[i]), Touched(i, e)
  PROVE  /\ table' \in Seq(Entry) /\ TableApart'
         /\ \A j \in DOMAIN table' :
              table'[j] = e \/ \E k \in DOMAIN table : k # i /\ table'[j] = table[k]
         /\ \E f : Rearranged(table, table', f)
<1>1. TableApart /\ table \in Seq(Entry)
  BY Typed
<1> DEFINE t == Append(RemoveAt(table, i), e)
<1>2. /\ t \in Seq(Entry) /\ \E f : Rearranged(table, t, f)
      /\ \A j \in DOMAIN t : t[j] = e \/ \E k \in DOMAIN table : k # i /\ t[j] = table[k]
  <2>1. LET u == t IN
        /\ u \in Seq(Entry)
        /\ \A j \in DOMAIN u : u[j] = e \/ \E k \in DOMAIN table : k # i /\ u[j] = table[k]
        /\ \E f : Rearranged(table, u, f) /\ \A j \in DOMAIN u : f[j] = i => u[j] = e
    BY <1>1, ToTheEnd
  <2> HIDE DEF t
  <2> QED  BY <2>1
<1>7. table' = t
  BY DEF Touched
<1> HIDE DEF t
<1>8. /\ table' \in Seq(Entry) /\ \E f : Rearranged(table, table', f)
      /\ \A j \in DOMAIN table' :
           table'[j] = e \/ \E k \in DOMAIN table : k # i /\ table'[j] = table[k]
  BY <1>2, <1>7
<1>3. /\ Distinct(table) => Distinct(table')
      /\ MarcosOf(table') = MarcosOf(table)
  BY <1>8, SlotsKept
<1>4. Distinct(table') /\ outgoing' = <<>> /\ libre' = Frames \ (MarcosOf(table') \cup MarcosOf(<<>>))
  BY <1>1, <1>3 DEF TableApart
<1>5. \A j \in DOMAIN outgoing' : FALSE
  BY <1>4
<1>6. TableApart'
  BY <1>4, <1>5, Zenon DEF TableApart, Distinct, MarcosOf, Apart
<1> QED  BY <1>6, <1>8

(* What the invariant asks of the pages afterwards. *)
Stored(e) ==
  ~e.stale => e.pag < size'[e.ft] /\ (~e.modificada => Contents(e.marco)' = store'[e.ft][e.pag])

LEMMA StoredAll ==
  ASSUME \A e : (\E i \in DOMAIN table' : e = table'[i]) => Stored(e),
         \A e : (\E i \in DOMAIN outgoing' : e = outgoing'[i]) => Stored(e)
  PROVE  PagesInStore'
<1>1. \A e : Stored(e) => InStore(e)'
  BY DEF Stored, InStore
<1> QED  BY <1>1 DEF PagesInStore


LEMMA UsedEntry ==
  ASSUME NEW e \in Entry
  PROVE  /\ LET d == [e EXCEPT !.uso = TRUE] IN d \in Entry /\ Kin(d, e)
         /\ LET d == [e EXCEPT !.uso = TRUE, !.modificada = TRUE] IN
              d \in Entry /\ SameSlot(d, e) /\ d.modificada /\ d.stale = e.stale
  BY DEF Entry, Kin, SameSlot

LEMMA PieceFollowed ==
  ASSUME Inv, pc = "piece", NextPiece, Forgets, outgoing' = <<>>
  PROVE  pc' \in Places /\ instr' \in Instruction /\ done' \in Nat /\ InHand'
<1>1. \/ pc' = "piece" /\ done' = done + BlockSize /\ done' < instr.tam
      \/ pc' \in {"idle", "send"} /\ done' = 0
  BY PieceThen DEF Finished
<1>2. CASE pc' = "piece" /\ done' = done + BlockSize /\ done' < instr.tam
  <2>1. instr' = instr
    BY <1>2 DEF Forgets
  <2>2. InHand'
    BY <1>2, <2>1, PieceNow, HandsOnPiece
  <2>3. done' \in Nat
    BY <1>2, Typed, SizesAssumption
  <2> QED  BY <1>2, <2>1, <2>2, <2>3, Typed DEF Places
<1>3. CASE pc' \in {"idle", "send"} /\ done' = 0
  BY <1>3, HandsFree, Forgotten DEF Places
<1> QED  BY <1>1, <1>2, <1>3

(* The entry that a piece is in. *)
LEMMA PieceEntry ==
  ASSUME Inv, Cached(instr.ft, Page)
  PROVE  LET i == IndexOf(instr.ft, Page) IN
         /\ i \in DOMAIN table /\ table[i] \in Entry /\ table[i].marco \in Frames
         /\ table[i].ft = instr.ft /\ table[i].pag = Page
         /\ InStore(table[i])
         /\ \A k \in DOMAIN table : k # i => table[k].marco # table[i].marco
<1> DEFINE i == IndexOf(instr.ft, Page)
<1>1. i \in DOMAIN table /\ table[i] \in Entry /\ table[i].ft = instr.ft /\ table[i].pag = Page
  BY EntryOfPage
<1> HIDE DEF i
<1>2. table[i].marco \in Frames
  BY <1>1, EntryFields
<1>3. InStore(table[i]) /\ \A k \in DOMAIN table : k # i => table[k].marco # table[i].marco
  BY <1>1, Typed DEF PagesInStore, TableApart, Distinct, Apart
<1> QED  BY <1>1, <1>2, <1>3 DEF i

LEMMA WriteKeeps == Inv /\ WritePiece => Inv'
<1> SUFFICES ASSUME Inv, WritePiece PROVE Inv'
  OBVIOUS
<1> DEFINE i == IndexOf(instr.ft, Page)
           m == table[i].marco
           e == [table[i] EXCEPT !.uso = TRUE, !.modificada = TRUE]
<1>1. /\ pc = "piece" /\ instr.op = "WRITE" /\ Cached(instr.ft, Page)
      /\ Writes(m) /\ Touched(i, e) /\ NextPiece /\ Forgets
      /\ UNCHANGED <<algorithm, libre, outgoing, hubo_error, rest, leido, storage>>
  BY Zenon DEF WritePiece, Working, Writes
<1>2. /\ i \in DOMAIN table /\ table[i] \in Entry /\ m \in Frames /\ InStore(table[i])
      /\ \A k \in DOMAIN table : k # i => table[k].marco # m
  BY <1>1, PieceEntry
<1>3. outgoing = <<>> /\ outgoing' = <<>>
  BY <1>1, Typed DEF InHand
<1>4. e \in Entry /\ SameSlot(e, table[i]) /\ e.modificada /\ e.stale = table[i].stale
  BY <1>2, UsedEntry
<1>5. /\ memory' \in [Addresses -> Bytes]
      /\ \A x \in Frames : x # m => Contents(x)' = Contents(x)
  BY <1>1, <1>2, Written
<1> HIDE DEF e, i, m
<1>6. /\ table' \in Seq(Entry) /\ TableApart'
      /\ \A j \in DOMAIN table' : table'[j] = e \/ \E k \in DOMAIN table : k # i /\ table'[j] = table[k]
  BY <1>1, <1>2, <1>3, <1>4, TouchedKeeps
<1>7. pc' \in Places /\ instr' \in Instruction /\ done' \in Nat /\ InHand'
  BY <1>1, <1>3, PieceFollowed
<1>8. TypeOK'
  <2>1. /\ \A ft \in FileTags : size'[ft] \in 0 .. PagesOf[ft]
        /\ \A ft \in FileTags : store'[ft] \in [Pages(ft) -> [Offsets -> Bytes]]
        /\ state' \in [FileTags -> States]
    BY <1>1, Typed DEF storage
  <2>2. libre' \subseteq Frames /\ outgoing' \in Seq(Entry) /\ Len(outgoing') <= 1
        /\ hubo_error' \in BOOLEAN /\ rest' \in Seq(FileTags) /\ leido' \in Seq(Read)
        /\ algorithm' = algorithm
    BY <1>1, Typed
  <2> QED  BY <1>5, <1>6, <1>7, <2>1, <2>2, Typed, TypeFrom
<1>9. StorageKnown'
  BY <1>1, Typed DEF StorageKnown, storage
<1>10. PagesInStore'
  <2>1. size' = size /\ store' = store
    BY <1>1 DEF storage
  <2>3. ASSUME NEW k \in DOMAIN table, k # i, NEW d, d = table[k] PROVE Stored(d)
    <3>1. d.marco \in Frames /\ d.marco # m /\ InStore(d)
      BY <1>2, <2>3, Typed, EntryFields DEF PagesInStore
    <3>2. Contents(d.marco)' = Contents(d.marco)
      BY <1>5, <3>1
    <3> QED  BY <2>1, <3>1, <3>2 DEF Stored, InStore
  <2>4. PICK c \in Entry : c = e
    BY <1>4
  <2>5. Stored(c)
    BY <1>2, <1>4, <2>1, <2>4 DEF Stored, InStore, SameSlot
  <2>6. \A d : (\E j \in DOMAIN table' : d = table'[j]) => Stored(d)
    BY <1>6, <2>3, <2>4, <2>5
  <2>7. \A d : ~ \E j \in DOMAIN outgoing' : d = outgoing'[j]
    BY <1>3
  <2> QED  BY <2>6, <2>7, StoredAll
<1> QED  BY <1>6, <1>7, <1>8, <1>9, <1>10 DEF Inv


(* Entries that are of the same pages, in memory and store that are the same. *)
LEMMA KinStored ==
  ASSUME NEW e, NEW d, Kin(e, d), InStore(d), UNCHANGED <<memory, size, store>>
  PROVE  Stored(e)
  BY DEF Stored, InStore, Kin, Contents

LEMMA Joined ==
  ASSUME NEW S, NEW s \in Seq(S), NEW t \in Seq(S)
  PROVE  /\ s \o t \in Seq(S) /\ Len(s \o t) = Len(s) + Len(t)
         /\ \A k \in 1 .. Len(s) : (s \o t)[k] = s[k]
         /\ \A k \in 1 .. Len(t) : (s \o t)[Len(s) + k] = t[k]
<1>1. Len(s) \in Nat /\ Len(t) \in Nat
  OBVIOUS
<1>2. \A k \in 1 .. Len(s) + Len(t) : (s \o t)[k] = IF k <= Len(s) THEN s[k] ELSE t[k - Len(s)]
  BY ConcatProperties
<1>3. \A k \in 1 .. Len(t) : Len(s) + k \in 1 .. Len(s) + Len(t) /\ ~(Len(s) + k <= Len(s))
                            /\ (Len(s) + k) - Len(s) = k
  BY <1>1
<1>4. \A k \in 1 .. Len(s) : k \in 1 .. Len(s) + Len(t) /\ k <= Len(s)
  BY <1>1
<1> QED  BY <1>2, <1>3, <1>4, ConcatProperties

(* The bytes that a piece of a READ reads, with where they come from. *)
ReadBytes(bytes, i) == [k \in 1 .. Piece |-> [byte |-> bytes[k], stale |-> table[i].stale]]

LEMMA ReadBytesAre ==
  ASSUME Inv, pc = "piece", NEW bytes \in [1 .. Piece -> Bytes],
         NEW i \in DOMAIN table, leido' = leido \o ReadBytes(bytes, i)
  PROVE  /\ leido' \in Seq(Read) /\ Len(leido') = Len(leido) + Piece
         /\ \A k \in 1 .. Len(leido) : leido'[k] = leido[k]
         /\ \A k \in 1 .. Piece : leido'[Len(leido) + k].byte = bytes[k]
                                  /\ leido'[Len(leido) + k].stale = table[i].stale
<1>1. Piece \in Nat /\ leido \in Seq(Read)
  BY PieceNow, Typed, SizesAssumption
<1>2. PICK stale \in BOOLEAN : stale = table[i].stale
  BY Typed, EntryFields
<1>3. PICK s : s = ReadBytes(bytes, i)
  OBVIOUS
<1>4. s = [k \in 1 .. Piece |-> [byte |-> bytes[k], stale |-> stale]]
  BY <1>2, <1>3 DEF ReadBytes
<1>5. s \in Seq(Read) /\ Len(s) = Piece /\ \A k \in 1 .. Piece : s[k].byte = bytes[k] /\ s[k].stale = stale
  BY <1>1, <1>4 DEF Read
<1>6. leido' = leido \o s
  BY <1>3
<1>7. /\ leido' \in Seq(Read) /\ Len(leido') = Len(leido) + Len(s)
      /\ \A k \in 1 .. Len(leido) : leido'[k] = leido[k]
      /\ \A k \in 1 .. Len(s) : leido'[Len(leido) + k] = s[k]
  BY <1>1, <1>5, <1>6, Joined
<1> QED  BY <1>2, <1>5, <1>7

LEMMA ReadKeeps == Inv /\ ReadPiece => Inv'
<1> SUFFICES ASSUME Inv, ReadPiece PROVE Inv'
  OBVIOUS
<1> DEFINE i == IndexOf(instr.ft, Page)
           e == [table[i] EXCEPT !.uso = TRUE]
<1>1. /\ pc = "piece" /\ Cached(instr.ft, Page)
      /\ Touched(i, e) /\ NextPiece /\ Forgets
      /\ UNCHANGED <<algorithm, memory, libre, outgoing, hubo_error, rest, storage>>
      /\ \E bytes \in [1 .. Piece -> Bytes] : leido' = leido \o ReadBytes(bytes, i)
  BY Zenon DEF ReadPiece, Working, ReadBytes
<1>2. /\ i \in DOMAIN table /\ table[i] \in Entry /\ InStore(table[i])
  BY <1>1, PieceEntry
<1>3. outgoing = <<>> /\ outgoing' = <<>>
  BY <1>1, Typed DEF InHand
<1>4. e \in Entry /\ Kin(e, table[i]) /\ SameSlot(e, table[i])
  BY <1>2, UsedEntry DEF Kin, SameSlot
<1> HIDE DEF e, i
<1>5. /\ table' \in Seq(Entry) /\ TableApart'
      /\ \A j \in DOMAIN table' : table'[j] = e \/ \E k \in DOMAIN table : k # i /\ table'[j] = table[k]
  BY <1>1, <1>2, <1>3, <1>4, TouchedKeeps
<1>6. pc' \in Places /\ instr' \in Instruction /\ done' \in Nat /\ InHand'
  BY <1>1, <1>3, PieceFollowed
<1>7. leido' \in Seq(Read)
  <2>1. PICK bytes \in [1 .. Piece -> Bytes] : leido' = leido \o ReadBytes(bytes, i)
    BY <1>1
  <2> QED  BY <1>1, <1>2, <2>1, ReadBytesAre
<1>8. TypeOK'
  <2>1. /\ \A ft \in FileTags : size'[ft] \in 0 .. PagesOf[ft]
        /\ \A ft \in FileTags : store'[ft] \in [Pages(ft) -> [Offsets -> Bytes]]
        /\ state' \in [FileTags -> States]
    BY <1>1, Typed DEF storage
  <2>2. libre' \subseteq Frames /\ outgoing' \in Seq(Entry) /\ Len(outgoing') <= 1
        /\ hubo_error' \in BOOLEAN /\ rest' \in Seq(FileTags) /\ memory' \in [Addresses -> Bytes]
        /\ algorithm' = algorithm
    BY <1>1, Typed
  <2> QED  BY <1>5, <1>6, <1>7, <2>1, <2>2, Typed, TypeFrom
<1>9. StorageKnown'
  BY <1>1, Typed DEF StorageKnown, storage
<1>10. PagesInStore'
  <2>1. UNCHANGED <<memory, size, store>>
    BY <1>1 DEF storage
  <2>2. ASSUME NEW j \in DOMAIN table', NEW d, d = table'[j] PROVE Stored(d)
    <3>1. CASE d = e
      <4>1. PICK c : c = table[i]
        OBVIOUS
      <4> QED  BY <1>2, <1>4, <2>1, <3>1, <4>1, KinStored
    <3>2. ASSUME NEW k \in DOMAIN table, d = table[k] PROVE Stored(d)
      BY <2>1, <3>2, Typed, KinStored DEF PagesInStore, Kin
    <3> QED  BY <1>5, <2>2, <3>1, <3>2
  <2>3. \A d : ~ \E j \in DOMAIN outgoing' : d = outgoing'[j]
    BY <1>3
  <2> QED  BY <2>2, <2>3, StoredAll
<1> QED  BY <1>5, <1>6, <1>8, <1>9, <1>10 DEF Inv

-----------------------------------------------------------------------------
(* A miss: the victim, its write back, the fault *)

LEMMA NotCachedIs ==
  ASSUME NEW ft, NEW p
  PROVE  ~Cached(ft, p) <=> \A i \in DOMAIN table : ~ (table[i].ft = ft /\ table[i].pag = p)
  BY DEF Cached, EntriesOf

(* The queue without the victim. *)
LEMMA LeavesApart ==
  ASSUME NEW s \in Seq(Entry), NEW r, TakesOne(s, r), Distinct(s)
  PROVE  /\ r.queue \in Seq(Entry) /\ r.victim \in Seq(Entry) /\ Len(r.victim) = 1
         /\ Distinct(r.queue)
         /\ \A i \in DOMAIN r.queue : Apart(r.queue[i], r.victim[1])
         /\ MarcosOf(s) = MarcosOf(r.queue) \cup {r.victim[1].marco}
         /\ \A i \in DOMAIN r.queue : \E j \in DOMAIN s : Kin(r.queue[i], s[j])
         /\ \E j \in DOMAIN s : Kin(r.victim[1], s[j])
         /\ \A j \in DOMAIN s : Kin(r.victim[1], s[j])
                                \/ \E i \in DOMAIN r.queue : Kin(r.queue[i], s[j])
<1>1. PICK k \in DOMAIN s : \E f : Leaves(s, r, k, f)
  BY Zenon DEF TakesOne
<1>2. PICK f : Leaves(s, r, k, f)
  BY <1>1, Zenon
<1> DEFINE q == r.queue
           v == r.victim[1]
<1>3. /\ r.queue \in Seq(Entry) /\ r.victim \in Seq(Entry) /\ Len(r.victim) = 1
      /\ Kin(v, s[k])
      /\ \A i \in DOMAIN q : f[i] \in DOMAIN s /\ f[i] # k /\ Kin(q[i], s[f[i]])
      /\ \A i, j \in DOMAIN q : i # j => f[i] # f[j]
      /\ \A j \in DOMAIN s : j # k => \E i \in DOMAIN q : f[i] = j
  BY <1>2 DEF Leaves
<1> HIDE DEF q, v
<1>4. \A i, j \in DOMAIN s : i # j => Apart(s[i], s[j])
  BY Zenon DEF Distinct
<1>5. ASSUME NEW i \in DOMAIN q, NEW j \in DOMAIN q, i # j PROVE Apart(q[i], q[j])
  <2>1. Apart(s[f[i]], s[f[j]]) /\ Kin(q[i], s[f[i]]) /\ Kin(q[j], s[f[j]])
    BY <1>3, <1>4, <1>5
  <2> QED  BY <2>1 DEF Apart, Kin
<1>6. ASSUME NEW i \in DOMAIN q PROVE Apart(q[i], v)
  <2>1. Apart(s[f[i]], s[k]) /\ Kin(q[i], s[f[i]]) /\ Kin(v, s[k])
    BY <1>3, <1>4, <1>6
  <2> QED  BY <2>1 DEF Apart, Kin
<1>7. \A j \in DOMAIN s : Kin(v, s[j]) \/ \E i \in DOMAIN q : Kin(q[i], s[j])
  BY <1>3
<1>8. \A i \in DOMAIN q : \E j \in DOMAIN s : Kin(q[i], s[j])
  BY <1>3
<1>9. \E j \in DOMAIN s : Kin(v, s[j])
  BY <1>3
<1>10. MarcosOf(s) = MarcosOf(q) \cup {v.marco}
  BY <1>7, <1>8, <1>9 DEF MarcosOf, Kin
<1>11. Distinct(q)
  BY <1>5 DEF Distinct
<1> QED  BY <1>3, <1>6, <1>7, <1>8, <1>9, <1>10, <1>11 DEF q, v

(* Where no frame is free, there is an entry to take. *)
LEMMA NoneFree ==
  ASSUME Inv, libre = {}, outgoing = <<>>
  PROVE  table # <<>>
<1>1. Frames # {}
  <2>1. 0 \in Frames
    BY SizesAssumption DEF Frames
  <2> QED  BY <2>1
<1>2. libre = Frames \ (MarcosOf(table) \cup MarcosOf(outgoing))
  BY Typed DEF TableApart
<1>3. MarcosOf(outgoing) = {}
  BY DEF MarcosOf
<1>4. MarcosOf(table) # {}
  BY <1>1, <1>2, <1>3
<1> QED  BY <1>4 DEF MarcosOf

LEMMA MissLeaves ==
  ASSUME Inv, Miss, libre = {}
  PROVE  /\ table' \in Seq(Entry) /\ outgoing' \in Seq(Entry) /\ Len(outgoing') = 1
         /\ TableApart' /\ PagesInStore'
         /\ \A i \in DOMAIN table' : \E j \in DOMAIN table : Kin(table'[i], table[j])
         /\ \E j \in DOMAIN table : Kin(outgoing'[1], table[j])
         /\ \A j \in DOMAIN table : Kin(outgoing'[1], table[j])
                                    \/ \E i \in DOMAIN table' : Kin(table'[i], table[j])
         /\ outgoing = <<>> /\ pc' = "writeback"
<1> DEFINE r == SeleccionarVictima(table)
<1>1. /\ pc = "piece" /\ pc' = "writeback" /\ table' = r.queue /\ outgoing' = r.victim
      /\ UNCHANGED <<memory, libre, storage>>
  BY DEF Miss
<1>2. outgoing = <<>> /\ Distinct(table) /\ table \in Seq(Entry)
      /\ libre = Frames \ (MarcosOf(table) \cup MarcosOf(outgoing))
  BY <1>1, Typed DEF InHand, TableApart
<1>3. TakesOne(table, r)
  BY <1>2, NoneFree, Selects
<1> HIDE DEF r
<1>4. /\ table' \in Seq(Entry) /\ outgoing' \in Seq(Entry) /\ Len(outgoing') = 1
      /\ Distinct(table')
      /\ \A i \in DOMAIN table' : Apart(table'[i], outgoing'[1])
      /\ MarcosOf(table) = MarcosOf(table') \cup {outgoing'[1].marco}
      /\ \A i \in DOMAIN table' : \E j \in DOMAIN table : Kin(table'[i], table[j])
      /\ \E j \in DOMAIN table : Kin(outgoing'[1], table[j])
      /\ \A j \in DOMAIN table : Kin(outgoing'[1], table[j])
                                 \/ \E i \in DOMAIN table' : Kin(table'[i], table[j])
  BY <1>1, <1>2, <1>3, LeavesApart
<1>5. DOMAIN outgoing' = {1}
  BY <1>4
<1>6. TableApart'
  <2>1. MarcosOf(outgoing') = {outgoing'[1].marco} /\ MarcosOf(outgoing) = {}
    BY <1>2, <1>5 DEF MarcosOf
  <2>2. libre' = Frames \ (MarcosOf(table') \cup MarcosOf(outgoing'))
    BY <1>1, <1>2, <1>4, <2>1
  <2>3. \A i \in DOMAIN table' : \A j \in DOMAIN outgoing' : Apart(table'[i], outgoing'[j])
    BY <1>4, <1>5
  <2> QED  BY <1>4, <2>2, <2>3, Zenon DEF TableApart, Distinct, MarcosOf, Apart
<1>7. PagesInStore'
  <2>1. UNCHANGED <<memory, size, store>>
    BY <1>1 DEF storage
  <2>2. ASSUME NEW d, NEW j \in DOMAIN table, Kin(d, table[j]) PROVE Stored(d)
    <3>1. PICK c : c = table[j]
      OBVIOUS
    <3>2. InStore(c)
      BY <3>1, Typed DEF PagesInStore
    <3> QED  BY <2>1, <2>2, <3>1, <3>2, KinStored
  <2>3. \A d : (\E i \in DOMAIN table' : d = table'[i]) => Stored(d)
    BY <1>4, <2>2, Zenon
  <2>4. \A d : (\E i \in DOMAIN outgoing' : d = outgoing'[i]) => Stored(d)
    BY <1>4, <1>5, <2>2
  <2> QED  BY <2>3, <2>4, StoredAll
<1> QED  BY <1>1, <1>2, <1>4, <1>6, <1>7

LEMMA MissKeeps == Inv /\ Miss => Inv'
<1> SUFFICES ASSUME Inv, Miss PROVE Inv'
  OBVIOUS
<1>1. /\ pc = "piece" /\ ~Cached(instr.ft, Page)
      /\ UNCHANGED <<algorithm, instr, memory, libre, hubo_error, done, rest, leido, storage>>
  BY DEF Miss
<1>2. outgoing = <<>> /\ StorageKnown'
  BY <1>1, Typed DEF InHand, StorageKnown, storage
<1>3. instr \in Instructions /\ instr.op \in {"WRITE", "READ"} /\ done < instr.tam
  BY <1>1, PieceNow
<1>4. /\ \A ft \in FileTags : size'[ft] \in 0 .. PagesOf[ft]
      /\ \A ft \in FileTags : store'[ft] \in [Pages(ft) -> [Offsets -> Bytes]]
      /\ state' \in [FileTags -> States] /\ memory' \in [Addresses -> Bytes]
      /\ libre' \subseteq Frames /\ hubo_error' \in BOOLEAN /\ rest' \in Seq(FileTags)
      /\ algorithm' = algorithm /\ instr' \in Instruction /\ done' \in Nat
      /\ leido' \in Seq(Read)
  BY <1>1, Typed DEF storage
<1>5. CASE libre # {}
  <2>1. pc' = "fault" /\ UNCHANGED <<table, outgoing>>
    BY <1>5 DEF Miss
  <2>2. TypeOK'
    BY <1>4, <2>1, Typed, TypeFrom DEF Places
  <2>3. TableApart' /\ PagesInStore'
    BY <1>1, <2>1, Typed, SlotsRest, PagesRest DEF storage
  <2>4. ~Cached(instr.ft, Page)'
    BY <1>1, <2>1 DEF Cached, EntriesOf, Page, Address
  <2>5. InHand'
    BY <1>1, <1>2, <1>3, <1>5, <2>1, <2>4 DEF InHand
  <2> QED  BY <1>2, <2>2, <2>3, <2>5 DEF Inv
<1>6. CASE libre = {}
  <2>1. /\ table' \in Seq(Entry) /\ outgoing' \in Seq(Entry) /\ Len(outgoing') = 1
        /\ TableApart' /\ PagesInStore' /\ pc' = "writeback"
        /\ \A i \in DOMAIN table' : \E j \in DOMAIN table : Kin(table'[i], table[j])
    BY <1>6, MissLeaves
  <2>2. TypeOK'
    BY <1>4, <2>1, Typed, TypeFrom DEF Places
  <2>3. ~Cached(instr.ft, Page)'
    <3>1. \A i \in DOMAIN table' : ~ (table'[i].ft = instr.ft /\ table'[i].pag = Page)
      BY <1>1, <2>1, NotCachedIs DEF Kin
    <3>2. instr' = instr /\ Page' = Page
      BY <1>1 DEF Page, Address
    <3> QED  BY <3>1, <3>2 DEF Cached, EntriesOf
  <2>4. outgoing' # <<>>
    <3>1. \A s : s = <<>> => Len(s) # 1
      BY EmptySeq
    <3> QED  BY <2>1, <3>1, Zenon
  <2>5. InHand'
    BY <1>1, <1>3, <2>1, <2>3, <2>4 DEF InHand
  <2> QED  BY <1>2, <2>1, <2>2, <2>5 DEF Inv
<1> QED  BY <1>5, <1>6


(* A page is written to its block, and no other block is. *)
LEMMA PersistedIs ==
  ASSUME Inv, NEW e \in Entry, Persisted(e)
  PROVE  /\ store' = [ft \in FileTags |-> store'[ft]]
         /\ \A ft \in FileTags : store'[ft] \in [Pages(ft) -> [Offsets -> Bytes]]
         /\ \A ft \in FileTags : \A p : <<ft, p>> # <<e.ft, e.pag>> => store'[ft][p] = store[ft][p]
         /\ Accepted(e.ft) /\ e.pag < size[e.ft] => store'[e.ft][e.pag] = Contents(e.marco)
         /\ store'[e.ft][e.pag] \in {store[e.ft][e.pag], Contents(e.marco)}
         /\ ~ (Accepted(e.ft) /\ e.pag < size[e.ft]) => store' = store
<1>1. /\ e.ft \in FileTags /\ e.pag \in Nat /\ e.marco \in Frames
      /\ size[e.ft] \in 0 .. PagesOf[e.ft] /\ PagesOf[e.ft] \in Nat
      /\ store = [ft \in FileTags |-> store[ft]]
      /\ \A ft \in FileTags : store[ft] \in [Pages(ft) -> [Offsets -> Bytes]]
  BY EntryFields, Typed, SizesAssumption
<1>2. Contents(e.marco) \in [Offsets -> Bytes]
  BY <1>1, InFrame, Typed DEF Contents
<1>3. CASE ~ (Accepted(e.ft) /\ e.pag < size[e.ft])
  <2>1. store' = store
    BY <1>3, Zenon DEF Persisted
  <2> QED  BY <1>1, <1>3, <2>1
<1>4. CASE Accepted(e.ft) /\ e.pag < size[e.ft]
  <2> DEFINE c == Contents(e.marco)
             row == [store[e.ft] EXCEPT ![e.pag] = c]
  <2>1. store' = [store EXCEPT ![e.ft][e.pag] = c]
    BY <1>4, Zenon DEF Persisted
  <2>2. e.pag \in Pages(e.ft)
    BY <1>1, <1>4 DEF Pages
  <2>3. c \in [Offsets -> Bytes]
    BY <1>2
  <2> HIDE DEF c
  <2>4. row \in [Pages(e.ft) -> [Offsets -> Bytes]] /\ row[e.pag] = c
        /\ \A p : p # e.pag => row[p] = store[e.ft][p]
    BY <1>1, <2>2, <2>3
  <2>5. store' = [store EXCEPT ![e.ft] = row]
    BY <2>1
  <2> HIDE DEF row
  <2>6. store'[e.ft] = row /\ \A ft \in FileTags : ft # e.ft => store'[ft] = store[ft]
    BY <1>1, <2>5
  <2>7. store' = [ft \in FileTags |-> store'[ft]]
    BY <1>1, <2>5
  <2> QED  BY <1>1, <1>4, <2>4, <2>6, <2>7 DEF c
<1> QED  BY <1>3, <1>4

LEMMA WriteBackKeeps == Inv /\ WriteBack => Inv'
<1> SUFFICES ASSUME Inv, WriteBack PROVE Inv'
  OBVIOUS
<1>1. PICK e : e = outgoing[1]
  OBVIOUS
<1>2. /\ pc = "writeback" /\ pc' = "fault" /\ outgoing' = <<>> /\ libre' = libre \cup {e.marco}
      /\ UNCHANGED <<algorithm, instr, memory, table, done, rest, leido, state, size>>
      /\ IF e.modificada
         THEN Persisted(e) /\ hubo_error' = (hubo_error \/ ~Accepted(e.ft))
         ELSE UNCHANGED <<store, hubo_error>>
      /\ e.modificada => Heard(e)
  BY <1>1 DEF WriteBack
<1>3. /\ e \in Entry /\ e.marco \in Frames /\ DOMAIN outgoing = {1}
  BY <1>1, <1>2, Typed, EntryFields DEF InHand
<1>4. /\ \A i \in DOMAIN table : Apart(table[i], e)
      /\ libre = Frames \ (MarcosOf(table) \cup {e.marco}) /\ Distinct(table)
  <2>1. MarcosOf(outgoing) = {e.marco}
    BY <1>1, <1>3 DEF MarcosOf
  <2> QED  BY <1>1, <1>3, <2>1, Typed DEF TableApart
<1>5. /\ store' = [ft \in FileTags |-> store'[ft]]
      /\ \A ft \in FileTags : store'[ft] \in [Pages(ft) -> [Offsets -> Bytes]]
      /\ \A ft \in FileTags : \A p : <<ft, p>> # <<e.ft, e.pag>> => store'[ft][p] = store[ft][p]
  <2>1. CASE e.modificada
    BY <1>2, <1>3, <2>1, PersistedIs
  <2>2. CASE ~e.modificada
    BY <1>2, <2>2, Typed
  <2> QED  BY <2>1, <2>2
<1>6. TypeOK'
  <2>1. /\ \A ft \in FileTags : size'[ft] \in 0 .. PagesOf[ft]
        /\ state' \in [FileTags -> States] /\ memory' \in [Addresses -> Bytes]
        /\ rest' \in Seq(FileTags) /\ table' \in Seq(Entry)
        /\ algorithm' = algorithm /\ instr' \in Instruction /\ done' \in Nat
        /\ leido' \in Seq(Read)
    BY <1>2, Typed
  <2>2. hubo_error' \in BOOLEAN
    BY <1>2, Typed
  <2>3. libre' \subseteq Frames /\ outgoing' \in Seq(Entry) /\ Len(outgoing') <= 1
    BY <1>2, <1>3, Typed
  <2> QED  BY <1>2, <1>5, <2>1, <2>2, <2>3, Typed, TypeFrom DEF Places
<1>7. StorageKnown'
  BY <1>2, <1>5, Typed DEF StorageKnown
<1>8. TableApart'
  <2>1. \A j \in DOMAIN outgoing' : FALSE
    BY <1>2
  <2>2. MarcosOf(outgoing') = {}
    BY <2>1 DEF MarcosOf
  <2>3. Distinct(table') /\ MarcosOf(table') = MarcosOf(table)
    BY <1>2, <1>4
  <2>4. libre' = Frames \ (MarcosOf(table') \cup MarcosOf(outgoing'))
    <3>1. e.marco \notin MarcosOf(table)
      BY <1>4 DEF MarcosOf, Apart
    <3> QED  BY <1>2, <1>3, <1>4, <2>2, <2>3, <3>1
  <2> QED  BY <2>1, <2>3, <2>4, Zenon DEF TableApart, Distinct, MarcosOf, Apart
<1>9. InHand'
  <2>1. ~Cached(instr.ft, Page)'
    BY <1>2, Typed DEF InHand, Cached, EntriesOf, Page, Address
  <2>2. libre' # {} /\ outgoing' = <<>>
    BY <1>2
  <2> QED  BY <1>2, <2>1, <2>2, PieceNow DEF InHand
<1>10. PagesInStore'
  <2>1. ASSUME NEW i \in DOMAIN table, NEW d, d = table[i] PROVE Stored(d)
    <3>1. d \in Entry /\ d.ft \in FileTags /\ Apart(d, e) /\ InStore(d)
      BY <1>4, <2>1, Typed, EntryFields DEF PagesInStore
    <3>2. store'[d.ft][d.pag] = store[d.ft][d.pag]
      BY <1>5, <3>1 DEF Apart
    <3>3. Contents(d.marco)' = Contents(d.marco) /\ size' = size
      BY <1>2 DEF Contents
    <3> QED  BY <3>1, <3>2, <3>3 DEF InStore, Stored
  <2>2. \A d : (\E i \in DOMAIN table' : d = table'[i]) => Stored(d)
    BY <1>2, <2>1
  <2>3. \A d : ~ \E j \in DOMAIN outgoing' : d = outgoing'[j]
    BY <1>2
  <2> QED  BY <2>2, <2>3, StoredAll
<1> QED  BY <1>6, <1>7, <1>8, <1>9, <1>10 DEF Inv

(* reservar_frame: a frame of its own for a page that has none. *)
NewEntry == [ft |-> instr.ft, pag |-> Page, marco |-> Reserved, uso |-> TRUE,
             modificada |-> FALSE, stale |-> ~Found]

LEMMA ReserveKeeps ==
  ASSUME Inv, pc = "fault", Reserve, outgoing' = outgoing
  PROVE  /\ Reserved \in libre /\ Reserved \in Frames /\ NewEntry \in Entry
         /\ table' \in Seq(Entry) /\ libre' \subseteq Frames /\ TableApart' /\ outgoing = <<>>
         /\ \A i \in DOMAIN table : table[i].marco # Reserved
         /\ \A i \in DOMAIN table' : table'[i] = NewEntry \/ \E k \in DOMAIN table : table'[i] = table[k]
         /\ DOMAIN table \subseteq DOMAIN table' /\ \A i \in DOMAIN table : table'[i] = table[i]
         /\ \E i \in DOMAIN table' : table'[i] = NewEntry
<1>1. /\ outgoing = <<>> /\ libre # {} /\ libre \subseteq Frames /\ table \in Seq(Entry)
      /\ ~Cached(instr.ft, Page) /\ TableApart /\ instr.ft \in FileTags /\ Page \in Nat
  BY Typed, PieceNow DEF InHand
<1>2. Reserved \in libre /\ Reserved \in Frames
  <2>1. libre \in SUBSET Nat
    BY <1>1 DEF Frames
  <2> QED  BY <1>1, <2>1, LeastIs DEF Reserved
<1>3. NewEntry \in Entry
  <2>1. (~Found) \in BOOLEAN
    BY DEF Found
  <2> QED  BY <1>1, <1>2, <2>1 DEF NewEntry, Entry
<1>4. libre' = libre \ {Reserved} /\ table' = Append(table, NewEntry)
  BY DEF Reserve, NewEntry
<1>5. libre = Frames \ MarcosOf(table)
  BY <1>1 DEF TableApart, MarcosOf
<1>6. \A i \in DOMAIN table : table[i].marco # Reserved
  BY <1>2, <1>5 DEF MarcosOf
<1>7. NewEntry.marco = Reserved /\ NewEntry.ft = instr.ft /\ NewEntry.pag = Page
  BY DEF NewEntry
<1> DEFINE n == Len(table)
           e == NewEntry
<1>8. /\ table' \in Seq(Entry) /\ n \in Nat /\ DOMAIN table = 1 .. n /\ DOMAIN table' = 1 .. n + 1
      /\ \A i \in 1 .. n : table'[i] = table[i]
      /\ table'[n + 1] = e
  <2>1. /\ Append(table, NewEntry) \in Seq(Entry) /\ Len(Append(table, NewEntry)) = Len(table) + 1
        /\ \A i \in 1 .. Len(table) : Append(table, NewEntry)[i] = table[i]
        /\ Append(table, NewEntry)[Len(table) + 1] = NewEntry
    BY <1>1, <1>3, AppendProperties
  <2> HIDE DEF e
  <2> QED  BY <1>1, <1>4, <2>1 DEF e
<1> HIDE DEF n, e
<1>9. \A i \in 1 .. n + 1 : i \in 1 .. n \/ i = n + 1
  BY <1>8
<1>10. \A i \in 1 .. n : Apart(table[i], e) /\ Apart(e, table[i])
  BY <1>1, <1>6, <1>7, <1>8, NotCachedIs DEF Apart, e
<1>11. Distinct(table')
  <2>1. \A i, j \in 1 .. n : i # j => Apart(table[i], table[j])
    BY <1>1, <1>8 DEF TableApart, Distinct
  <2>2. \A i, j \in 1 .. n + 1 : i # j => Apart(table'[i], table'[j])
    BY <1>8, <1>9, <1>10, <2>1
  <2> QED  BY <1>8, <2>2 DEF Distinct
<1>12. MarcosOf(table') = MarcosOf(table) \cup {Reserved}
  <2>1. n + 1 \in 1 .. n + 1 /\ 1 .. n \subseteq 1 .. n + 1
    BY <1>8
  <2>2. \A i \in 1 .. n + 1 : table'[i].marco = Reserved \/ \E k \in 1 .. n : table'[i].marco = table[k].marco
    BY <1>7, <1>8, <1>9 DEF e
  <2> QED  BY <1>7, <1>8, <2>1, <2>2 DEF MarcosOf, e
<1>13. TableApart'
  <2>1. MarcosOf(outgoing') = {} /\ \A j \in DOMAIN outgoing' : FALSE
    BY <1>1 DEF MarcosOf
  <2>2. libre' = Frames \ (MarcosOf(table') \cup MarcosOf(outgoing'))
    BY <1>4, <1>5, <1>12, <2>1
  <2> QED  BY <1>11, <2>1, <2>2, Zenon DEF TableApart, Distinct, MarcosOf, Apart
<1>14. libre' \subseteq Frames
  BY <1>1, <1>4
<1>15. n + 1 \in DOMAIN table' /\ DOMAIN table \subseteq DOMAIN table'
  BY <1>8
<1> QED  BY <1>1, <1>2, <1>3, <1>6, <1>8, <1>9, <1>13, <1>14, <1>15 DEF e

(* The block that comes from the Storage fills the frame. *)
Loads(m, c) ==
  memory' = [a \in Addresses |->
    IF a - m * BlockSize \in Offsets THEN c[a - m * BlockSize] ELSE memory[a]]

LEMMA Loaded ==
  ASSUME Inv, NEW m \in Frames, NEW c \in [Offsets -> Bytes], Loads(m, c)
  PROVE  /\ memory' \in [Addresses -> Bytes]
         /\ \A x \in Frames : x # m => Contents(x)' = Contents(x)
         /\ Contents(m)' = c
<1> DEFINE base == m * BlockSize
<1>1. /\ memory \in [Addresses -> Bytes] /\ base \in Nat /\ m \in Nat
      /\ BlockSize \in Nat \ {0} /\ \A a \in Addresses : a \in Nat
  <2>1. 0 \in Offsets
    BY SizesAssumption DEF Offsets
  <2>2. m \in Nat /\ m * BlockSize \in Nat
    BY <2>1, InFrame
  <2> QED  BY <2>2, Typed, SizesAssumption DEF Addresses
<1>2. memory' = [a \in Addresses |-> IF a - base \in Offsets THEN c[a - base] ELSE memory[a]]
  BY Zenon DEF Loads
<1> HIDE DEF base
<1>3. memory' \in [Addresses -> Bytes]
  BY <1>1, <1>2
<1>4. ASSUME NEW x \in Frames, x # m PROVE Contents(x)' = Contents(x)
  <2>1. ASSUME NEW o \in Offsets PROVE memory'[x * BlockSize + o] = memory[x * BlockSize + o]
    <3> DEFINE a == x * BlockSize + o
    <3>1. a \in Addresses /\ a \in Nat /\ x \in Nat
      BY <1>1, InFrame
    <3>2. \A p \in Offsets : a # base + p
      BY <1>1, <1>4, <3>1, FramesApart DEF base, Offsets
    <3> HIDE DEF a
    <3>3. a - base \notin Offsets
      <4>1. a = base + (a - base)
        BY <1>1, <3>1
      <4> QED  BY <3>2, <4>1
    <3> QED  BY <1>2, <3>1, <3>3 DEF a
  <2> QED  BY <2>1, SameContents
<1>5. \A o \in Offsets : memory'[base + o] = c[o]
  <2> TAKE o \in Offsets
  <2>1. base + o \in Addresses
    BY InFrame DEF base
  <2>2. (base + o) - base = o
    BY <1>1 DEF Offsets
  <2> QED  BY <1>2, <2>1, <2>2
<1>6. Contents(m)' = c
  <2>1. Contents(m)' = [o \in Offsets |-> memory'[base + o]]
    BY DEF Contents, base
  <2> QED  BY <1>5, <2>1
<1> QED  BY <1>3, <1>4, <1>6

LEMMA FaultKeeps == Inv /\ Fault => Inv'
<1> SUFFICES ASSUME Inv, Fault PROVE Inv'
  OBVIOUS
<1>1. /\ pc = "fault" /\ pc' = "piece" /\ Found /\ Reserve
      /\ Loads(Reserved, store[instr.ft][Page])
      /\ UNCHANGED <<algorithm, instr, outgoing, hubo_error, done, rest, leido, storage>>
  BY Zenon DEF Fault, Loads
<1>2. PICK e : e = NewEntry
  OBVIOUS
<1>3. PICK m : m = Reserved
  OBVIOUS
<1>4. /\ m \in Frames /\ e \in Entry /\ outgoing = <<>>
      /\ table' \in Seq(Entry) /\ libre' \subseteq Frames /\ TableApart'
      /\ \A i \in DOMAIN table : table[i].marco # m
      /\ \A i \in DOMAIN table' : table'[i] = e \/ \E k \in DOMAIN table : table'[i] = table[k]
  BY <1>1, <1>2, <1>3, ReserveKeeps
<1>5. e.ft = instr.ft /\ e.pag = Page /\ e.marco = m /\ e.stale = FALSE
  BY <1>1, <1>2, <1>3 DEF NewEntry
<1>6. /\ instr \in Instructions /\ instr.op \in {"WRITE", "READ"} /\ done < instr.tam
      /\ instr.ft \in FileTags /\ Page \in Nat
  BY <1>1, PieceNow
<1>7. Page < size[instr.ft] /\ Page \in Pages(instr.ft)
  <2>1. size[instr.ft] \in 0 .. PagesOf[instr.ft] /\ Page < size[instr.ft] /\ PagesOf[instr.ft] \in Nat
    BY <1>1, <1>6, Typed, SizesAssumption DEF Found
  <2> QED  BY <1>6, <2>1 DEF Pages
<1> DEFINE c == store[instr.ft][Page]
<1>8. c \in [Offsets -> Bytes] /\ Loads(m, c)
  BY <1>1, <1>3, <1>6, <1>7, Typed
<1> HIDE DEF c
<1>9. /\ memory' \in [Addresses -> Bytes]
      /\ \A x \in Frames : x # m => Contents(x)' = Contents(x)
      /\ Contents(m)' = c
  BY <1>4, <1>8, Loaded
<1>10. TypeOK'
  <2>1. /\ \A ft \in FileTags : size'[ft] \in 0 .. PagesOf[ft]
        /\ \A ft \in FileTags : store'[ft] \in [Pages(ft) -> [Offsets -> Bytes]]
        /\ state' \in [FileTags -> States]
    BY <1>1, Typed DEF storage
  <2>2. /\ outgoing' \in Seq(Entry) /\ Len(outgoing') <= 1 /\ hubo_error' \in BOOLEAN
        /\ rest' \in Seq(FileTags) /\ leido' \in Seq(Read) /\ algorithm' = algorithm
        /\ pc' \in Places /\ instr' \in Instruction /\ done' \in Nat
    BY <1>1, Typed DEF Places
  <2> QED  BY <1>4, <1>9, <2>1, <2>2, Typed, TypeFrom
<1>11. StorageKnown'
  BY <1>1, Typed DEF StorageKnown, storage
<1>12. InHand'
  BY <1>1, <1>4, <1>6, HandsOnPiece
<1>13. PagesInStore'
  <2>1. size' = size /\ store' = store
    BY <1>1 DEF storage
  <2>2. ASSUME NEW k \in DOMAIN table, NEW d, d = table[k] PROVE Stored(d)
    <3>1. d.marco \in Frames /\ d.marco # m /\ InStore(d)
      BY <1>4, <2>2, Typed, EntryFields DEF PagesInStore
    <3>2. Contents(d.marco)' = Contents(d.marco)
      BY <1>9, <3>1
    <3> QED  BY <2>1, <3>1, <3>2 DEF Stored, InStore
  <2>3. Stored(e)
    <3>1. Contents(e.marco)' = c /\ store'[e.ft][e.pag] = c /\ e.pag < size'[e.ft]
      BY <1>5, <1>7, <1>9, <2>1 DEF c
    <3> QED  BY <3>1 DEF Stored
  <2>4. \A d : (\E j \in DOMAIN table' : d = table'[j]) => Stored(d)
    BY <1>4, <2>2, <2>3
  <2>5. \A d : ~ \E j \in DOMAIN outgoing' : d = outgoing'[j]
    BY <1>1, <1>4
  <2> QED  BY <2>4, <2>5, StoredAll
<1> QED  BY <1>10, <1>11, <1>4, <1>12, <1>13 DEF Inv

LEMMA FaultUnheardKeeps == Inv /\ FaultUnheard => Inv'
<1> SUFFICES ASSUME Inv, FaultUnheard PROVE Inv'
  OBVIOUS
<1>1. /\ pc = "fault" /\ pc' = "stuck" /\ ~Found /\ Reserve /\ hubo_error' = TRUE
      /\ UNCHANGED <<algorithm, instr, memory, outgoing, done, rest, leido, storage>>
  BY DEF FaultUnheard, Found
<1>2. PICK e : e = NewEntry
  OBVIOUS
<1>3. /\ outgoing = <<>> /\ table' \in Seq(Entry) /\ libre' \subseteq Frames /\ TableApart'
      /\ \A i \in DOMAIN table' : table'[i] = e \/ \E k \in DOMAIN table : table'[i] = table[k]
  BY <1>1, <1>2, ReserveKeeps
<1>4. e.stale = TRUE
  BY <1>1, <1>2 DEF NewEntry
<1>5. TypeOK'
  <2>1. /\ \A ft \in FileTags : size'[ft] \in 0 .. PagesOf[ft]
        /\ \A ft \in FileTags : store'[ft] \in [Pages(ft) -> [Offsets -> Bytes]]
        /\ state' \in [FileTags -> States]
    BY <1>1, Typed DEF storage
  <2>2. /\ outgoing' \in Seq(Entry) /\ Len(outgoing') <= 1 /\ hubo_error' \in BOOLEAN
        /\ rest' \in Seq(FileTags) /\ leido' \in Seq(Read) /\ algorithm' = algorithm
        /\ pc' \in Places /\ instr' \in Instruction /\ done' \in Nat
        /\ memory' \in [Addresses -> Bytes]
    BY <1>1, Typed DEF Places
  <2> QED  BY <1>3, <2>1, <2>2, Typed, TypeFrom
<1>6. StorageKnown'
  BY <1>1, Typed DEF StorageKnown, storage
<1>7. InHand'
  BY <1>1 DEF InHand
<1>8. PagesInStore'
  <2>1. UNCHANGED <<memory, size, store>>
    BY <1>1 DEF storage
  <2>2. ASSUME NEW k \in DOMAIN table, NEW d, d = table[k] PROVE Stored(d)
    BY <2>1, <2>2, Typed, KinStored DEF PagesInStore, Kin
  <2>3. Stored(e)
    BY <1>4 DEF Stored
  <2>4. \A d : (\E j \in DOMAIN table' : d = table'[j]) => Stored(d)
    BY <1>3, <2>2, <2>3
  <2>5. \A d : ~ \E j \in DOMAIN outgoing' : d = outgoing'[j]
    BY <1>1, <1>3
  <2> QED  BY <2>4, <2>5, StoredAll
<1> QED  BY <1>3, <1>5, <1>6, <1>7, <1>8 DEF Inv

-----------------------------------------------------------------------------
(* FLUSH of a page *)

LEMMA SavedIs ==
  ASSUME Inv, NEW e \in Entry
  PROVE  LET d == Saved(e) IN
         /\ d \in Entry /\ SameSlot(d, e) /\ d.modificada = FALSE
         /\ d.stale <=> e.stale /\ e.pag >= size[e.ft]
<1>1. (e.stale /\ e.pag >= size[e.ft]) \in BOOLEAN
  OBVIOUS
<1>2. Saved(e) = [e EXCEPT !.modificada = FALSE, !.stale = (e.stale /\ e.pag >= size[e.ft])]
  BY DEF Saved, Entry
<1> DEFINE s == e.stale /\ e.pag >= size[e.ft]
<1> HIDE DEF s
<1>3. /\ [e EXCEPT !.modificada = FALSE, !.stale = s].modificada = FALSE
      /\ [e EXCEPT !.modificada = FALSE, !.stale = s].stale = s
      /\ SameSlot([e EXCEPT !.modificada = FALSE, !.stale = s], e)
      /\ s \in BOOLEAN => [e EXCEPT !.modificada = FALSE, !.stale = s] \in Entry
  BY DEF Entry, SameSlot
<1> QED  BY <1>1, <1>2, <1>3 DEF s

LEMMA FlushKeeps == Inv /\ FlushPage => Inv'
<1> SUFFICES ASSUME Inv, FlushPage PROVE Inv'
  OBVIOUS
<1>1. PICK i : i = Min(Modified(Head(rest)))
  OBVIOUS
<1>2. PICK e : e = table[i]
  OBVIOUS
<1>3. /\ pc = "flush" /\ Modified(Head(rest)) # {} /\ Persisted(e)
      /\ hubo_error' = (hubo_error \/ ~Accepted(Head(rest)))
      /\ IF hubo_error' THEN FlushNext /\ UNCHANGED table
         ELSE table' = [table EXCEPT ![i] = Saved(@)] /\ UNCHANGED <<rest, pc>>
      /\ Forgets
      /\ UNCHANGED <<algorithm, memory, libre, outgoing, done, leido, state, size>>
  BY <1>1, <1>2, Zenon DEF FlushPage
<1>4. /\ i \in DOMAIN table /\ e \in Entry /\ e.modificada /\ e.ft = Head(rest)
  <2>1. Modified(Head(rest)) \in SUBSET Nat
    BY Typed DEF Modified
  <2>2. i \in Modified(Head(rest))
    BY <1>1, <1>3, <2>1, LeastIs
  <2> QED  BY <1>2, <2>2, Typed DEF Modified
<1>5. outgoing = <<>> /\ outgoing' = <<>>
  BY <1>3, Typed DEF InHand
<1>6. /\ store' = [ft \in FileTags |-> store'[ft]]
      /\ \A ft \in FileTags : store'[ft] \in [Pages(ft) -> [Offsets -> Bytes]]
      /\ \A ft \in FileTags : \A p : <<ft, p>> # <<e.ft, e.pag>> => store'[ft][p] = store[ft][p]
      /\ Accepted(e.ft) /\ e.pag < size[e.ft] => store'[e.ft][e.pag] = Contents(e.marco)
  BY <1>3, <1>4, PersistedIs
<1>7. PICK d : d = Saved(e)
  OBVIOUS
<1>8. /\ d \in Entry /\ SameSlot(d, e) /\ d.modificada = FALSE
      /\ d.stale <=> e.stale /\ e.pag >= size[e.ft]
  BY <1>4, <1>7, SavedIs
<1>9. \/ hubo_error' /\ FlushNext /\ table' = table
      \/ ~hubo_error' /\ Accepted(e.ft) /\ table' = [table EXCEPT ![i] = d] /\ UNCHANGED <<rest, pc>>
  BY <1>2, <1>3, <1>4, <1>7
<1>10. /\ table' \in Seq(Entry) /\ DOMAIN table' = DOMAIN table
       /\ \A k \in DOMAIN table : k # i => table'[k] = table[k]
       /\ \/ table'[i] = e
          \/ table'[i] = d /\ Accepted(e.ft)
  <2>1. table \in Seq(Entry)
    BY Typed
  <2>2. CASE table' = table
    BY <1>2, <2>1, <2>2
  <2>3. CASE Accepted(e.ft) /\ table' = [table EXCEPT ![i] = d]
    <3>1. [table EXCEPT ![i] = d] \in Seq(Entry)
      BY <1>4, <1>8, <2>1
    <3> QED  BY <1>4, <2>1, <2>3, <3>1
  <2> QED  BY <1>9, <2>2, <2>3
<1>11. \A k \in DOMAIN table : SameSlot(table'[k], table[k])
  BY <1>2, <1>8, <1>10 DEF SameSlot
<1>12. TableApart'
  <2>1. \E f : Rearranged(table, table', f)
    BY <1>10, <1>11, SlotsSame
  <2>2. Distinct(table') /\ MarcosOf(table') = MarcosOf(table)
    BY <1>10, <2>1, Typed, SlotsKept DEF TableApart
  <2>3. \A j \in DOMAIN outgoing' : FALSE
    BY <1>5
  <2>4. libre' = Frames \ (MarcosOf(table') \cup MarcosOf(outgoing'))
    BY <1>3, <2>2, Typed DEF TableApart
  <2> QED  BY <2>2, <2>3, <2>4, Zenon DEF TableApart, Distinct, MarcosOf, Apart
<1>13. pc' \in Places /\ rest' \in Seq(FileTags) /\ InHand'
  <2>1. CASE FlushNext
    BY <1>3, <1>5, <2>1, RestNext
  <2>2. CASE UNCHANGED <<rest, pc>>
    <3>1. rest # <<>>
      BY <1>3, Typed DEF InHand
    <3>2. InHand'
      BY <1>3, <1>5, <2>2, <3>1 DEF InHand
    <3> QED  BY <1>3, <2>2, <3>2, Typed DEF Places
  <2> QED  BY <1>9, <2>1, <2>2
<1>14. TypeOK'
  <2>1. /\ \A ft \in FileTags : size'[ft] \in 0 .. PagesOf[ft]
        /\ state' \in [FileTags -> States] /\ memory' \in [Addresses -> Bytes]
        /\ algorithm' = algorithm /\ instr' \in Instruction /\ done' \in Nat
        /\ leido' \in Seq(Read) /\ hubo_error' \in BOOLEAN
        /\ libre' \subseteq Frames /\ outgoing' \in Seq(Entry) /\ Len(outgoing') <= 1
    <3>1. instr' \in Instruction
      BY <1>3, Forgotten
    <3>2. hubo_error' \in BOOLEAN
      BY <1>3, Typed
    <3> QED  BY <1>3, <3>1, <3>2, Typed
  <2> QED  BY <1>6, <1>10, <1>13, <2>1, Typed, TypeFrom
<1>15. StorageKnown'
  BY <1>3, <1>6, Typed DEF StorageKnown
<1>16. PagesInStore'
  <2>1. size' = size /\ \A m : Contents(m)' = Contents(m)
    BY <1>3 DEF Contents
  <2>2. ASSUME NEW k \in DOMAIN table, k # i, NEW c, c = table[k] PROVE Stored(c)
    <3>1. c \in Entry /\ c.ft \in FileTags /\ InStore(c) /\ Apart(c, e)
      BY <1>2, <1>4, <2>2, Typed, EntryFields DEF PagesInStore, TableApart, Distinct
    <3>2. store'[c.ft][c.pag] = store[c.ft][c.pag]
      BY <1>6, <3>1 DEF Apart
    <3> QED  BY <2>1, <3>1, <3>2 DEF InStore, Stored
  <2>3. InStore(e)
    BY <1>2, <1>4, Typed DEF PagesInStore
  <2>4. Stored(e)
    BY <1>4, <2>1, <2>3 DEF InStore, Stored
  <2>5. Accepted(e.ft) => Stored(d)
    <3>1. e.pag \in Nat /\ e.ft \in FileTags /\ size[e.ft] \in Nat
      BY <1>4, EntryFields, Typed
    <3>2. ~d.stale => e.pag < size[e.ft]
      BY <1>8, <2>3, <3>1 DEF InStore
    <3> QED  BY <1>6, <1>8, <2>1, <3>2 DEF Stored, SameSlot
  <2>6. \A c : (\E j \in DOMAIN table' : c = table'[j]) => Stored(c)
    BY <1>10, <2>2, <2>4, <2>5
  <2>7. \A c : ~ \E j \in DOMAIN outgoing' : c = outgoing'[j]
    BY <1>5
  <2> QED  BY <2>6, <2>7, StoredAll
<1> QED  BY <1>12, <1>13, <1>14, <1>15, <1>16 DEF Inv

-----------------------------------------------------------------------------
(* The blocks of a File:Tag are added and dropped *)

LEMMA ResizeKeeps ==
  ASSUME Inv, NEW ft \in FileTags, NEW n \in 0 .. PagesOf[ft], Resize(ft, n),
         UNCHANGED <<memory, libre>>
  PROVE  /\ table' \in Seq(Entry) /\ outgoing' \in Seq(Entry) /\ Len(outgoing') <= 1
         /\ outgoing' = <<>> <=> outgoing = <<>>
         /\ Cached(instr.ft, Page) <=> \E i \in DOMAIN table' :
              table'[i].ft = instr.ft /\ table'[i].pag = Page
         /\ TableApart' /\ PagesInStore' /\ StorageKnown'
         /\ \A g \in FileTags : size'[g] \in 0 .. PagesOf[g]
         /\ \A g \in FileTags : store'[g] \in [Pages(g) -> [Offsets -> Bytes]]
<1>1. n \in Nat /\ PagesOf[ft] \in Nat /\ n <= PagesOf[ft]
  BY SizesAssumption
<1>2. /\ size' = [size EXCEPT ![ft] = n]
      /\ store' = [store EXCEPT ![ft] =
           [p \in Pages(ft) |-> IF p < n THEN @[p] ELSE [o \in Offsets |-> Blank]]]
      /\ table' = Overtaken(table, ft, n) /\ outgoing' = Overtaken(outgoing, ft, n)
  BY Zenon DEF Resize
<1>3. /\ table \in Seq(Entry) /\ outgoing \in Seq(Entry) /\ Len(outgoing) <= 1
      /\ size \in [FileTags -> Nat] /\ store = [g \in FileTags |-> store[g]]
      /\ \A g \in FileTags : size[g] \in 0 .. PagesOf[g]
      /\ \A g \in FileTags : store[g] \in [Pages(g) -> [Offsets -> Bytes]]
      /\ TableApart /\ PagesInStore
  BY Typed
<1>4. /\ table' \in Seq(Entry) /\ DOMAIN table' = DOMAIN table
      /\ \A i \in DOMAIN table :
           /\ SameSlot(table'[i], table[i]) /\ table'[i].modificada = table[i].modificada
           /\ table'[i].stale <=> table[i].stale \/ (table[i].ft = ft /\ table[i].pag >= n)
  BY <1>1, <1>2, <1>3, OvertakenKeeps
<1>5. /\ outgoing' \in Seq(Entry) /\ DOMAIN outgoing' = DOMAIN outgoing /\ Len(outgoing') = Len(outgoing)
      /\ \A i \in DOMAIN outgoing :
           /\ SameSlot(outgoing'[i], outgoing[i]) /\ outgoing'[i].modificada = outgoing[i].modificada
           /\ outgoing'[i].stale <=> outgoing[i].stale \/ (outgoing[i].ft = ft /\ outgoing[i].pag >= n)
  BY <1>1, <1>2, <1>3, OvertakenKeeps
<1>6. outgoing' = <<>> <=> outgoing = <<>>
  <2>1. \A s \in Seq(Entry) : s = <<>> <=> Len(s) = 0
    BY EmptySeq
  <2> QED  BY <1>3, <1>5, <2>1
<1>7. /\ \A g \in FileTags : size'[g] = IF g = ft THEN n ELSE size[g]
      /\ size' \in [FileTags -> Nat]
  BY <1>1, <1>2, <1>3
<1> DEFINE blank == [o \in Offsets |-> Blank]
           row == [p \in Pages(ft) |-> IF p < n THEN store[ft][p] ELSE blank]
<1>8. row \in [Pages(ft) -> [Offsets -> Bytes]] /\ \A p \in Pages(ft) : p < n => row[p] = store[ft][p]
  <2>1. blank \in [Offsets -> Bytes]
    BY SizesAssumption
  <2> HIDE DEF blank
  <2> QED  BY <1>3, <2>1
<1>9. store' = [store EXCEPT ![ft] = row]
  BY <1>2
<1> HIDE DEF blank, row
<1>10. /\ store' = [g \in FileTags |-> store'[g]]
       /\ store'[ft] = row /\ \A g \in FileTags : g # ft => store'[g] = store[g]
  BY <1>3, <1>9
<1>11. TableApart'
  <2>1. \E f : Rearranged(table, table', f)
    BY <1>4, SlotsSame
  <2>2. Distinct(table') /\ MarcosOf(table') = MarcosOf(table)
    BY <1>3, <1>4, <2>1, SlotsKept DEF TableApart
  <2>3. MarcosOf(outgoing') = MarcosOf(outgoing)
    BY <1>5 DEF MarcosOf, SameSlot
  <2>4. \A i \in DOMAIN table' : \A j \in DOMAIN outgoing' : Apart(table'[i], outgoing'[j])
    BY <1>3, <1>4, <1>5 DEF TableApart, Apart, SameSlot
  <2>5. libre' = Frames \ (MarcosOf(table') \cup MarcosOf(outgoing'))
    BY <1>3, <2>2, <2>3 DEF TableApart
  <2> QED  BY <2>2, <2>4, <2>5, Zenon DEF TableApart, Distinct, MarcosOf, Apart
<1>12. ASSUME NEW e \in Entry, NEW d \in Entry, InStore(e), SameSlot(d, e), d.modificada = e.modificada,
              d.stale <=> e.stale \/ (e.ft = ft /\ e.pag >= n)
       PROVE  Stored(d)
  <2>1. e.pag \in Nat /\ e.ft \in FileTags /\ d.ft = e.ft /\ d.pag = e.pag /\ d.marco = e.marco
    BY <1>12, EntryFields DEF SameSlot
  <2>2. Contents(d.marco)' = Contents(d.marco)
    BY DEF Contents
  <2>3. CASE e.ft = ft
    <3>1. ~d.stale => e.pag \in Pages(ft) /\ e.pag < n /\ ~e.stale
      BY <1>1, <1>12, <2>1, <2>3 DEF Pages
    <3>2. ~d.stale => store'[ft][e.pag] = store[ft][e.pag]
      BY <1>8, <1>10, <3>1
    <3> QED  BY <1>7, <1>12, <2>1, <2>2, <2>3, <3>1, <3>2 DEF Stored, InStore
  <2>4. CASE e.ft # ft
    BY <1>7, <1>10, <1>12, <2>1, <2>2, <2>4 DEF Stored, InStore
  <2> QED  BY <2>3, <2>4
<1>13. PagesInStore'
  <2>1. \A i \in DOMAIN table' : table'[i] \in Entry
    BY <1>4
  <2>2. \A i \in DOMAIN outgoing' : outgoing'[i] \in Entry
    BY <1>5
  <2>3. \A d : (\E i \in DOMAIN table' : d = table'[i]) => Stored(d)
    BY <1>3, <1>4, <1>12, <2>1, Typed DEF PagesInStore
  <2>4. \A d : (\E i \in DOMAIN outgoing' : d = outgoing'[i]) => Stored(d)
    BY <1>3, <1>5, <1>12, <2>2, Typed DEF PagesInStore
  <2> QED  BY <2>3, <2>4, StoredAll
<1>14. StorageKnown'
  BY <1>7, <1>10 DEF StorageKnown
<1>15. \A g \in FileTags : size'[g] \in 0 .. PagesOf[g]
  BY <1>3, <1>7
<1>16. \A g \in FileTags : store'[g] \in [Pages(g) -> [Offsets -> Bytes]]
  BY <1>3, <1>8, <1>10
<1>17. Cached(instr.ft, Page) <=> \E i \in DOMAIN table' :
         table'[i].ft = instr.ft /\ table'[i].pag = Page
  BY <1>4, NotCachedIs DEF SameSlot
<1> QED  BY <1>3, <1>4, <1>5, <1>6, <1>11, <1>13, <1>14, <1>15, <1>16, <1>17


(* TRUNCATE, DELETE, and what another Worker does. *)
Resizing ==
  \E ft \in FileTags : \E n \in 0 .. PagesOf[ft] :
    Resize(ft, n) /\ UNCHANGED <<algorithm, memory, libre, done, rest, leido>>

LEMMA ResizingKeeps ==
  ASSUME Inv, Resizing, hubo_error' \in BOOLEAN, state' \in [FileTags -> States],
         \/ UNCHANGED <<pc, instr>>
         \/ pc = "remote" /\ pc' = "idle" /\ Forgets
  PROVE  Inv'
<1>0. PICK ft \in FileTags : \E n \in 0 .. PagesOf[ft] :
        Resize(ft, n) /\ UNCHANGED <<algorithm, memory, libre, done, rest, leido>>
  BY Zenon DEF Resizing
<1>1. PICK n \in 0 .. PagesOf[ft] :
        Resize(ft, n) /\ UNCHANGED <<algorithm, memory, libre, done, rest, leido>>
  BY <1>0, Zenon
<1>2. /\ table' \in Seq(Entry) /\ outgoing' \in Seq(Entry) /\ Len(outgoing') <= 1
      /\ outgoing' = <<>> <=> outgoing = <<>>
      /\ Cached(instr.ft, Page) <=> \E i \in DOMAIN table' :
           table'[i].ft = instr.ft /\ table'[i].pag = Page
      /\ TableApart' /\ PagesInStore' /\ StorageKnown'
      /\ \A g \in FileTags : size'[g] \in 0 .. PagesOf[g]
      /\ \A g \in FileTags : store'[g] \in [Pages(g) -> [Offsets -> Bytes]]
  BY <1>1, ResizeKeeps
<1>3. InHand'
  <2>1. CASE UNCHANGED <<pc, instr>>
    <3>1. Page' = Page
      BY <1>1, <2>1 DEF Page, Address
    <3>2. Cached(instr.ft, Page)' <=> \E i \in DOMAIN table' :
            table'[i].ft = instr.ft /\ table'[i].pag = Page
      BY <2>1, <3>1 DEF Cached, EntriesOf
    <3> QED  BY <1>1, <1>2, <2>1, <3>2, Typed DEF InHand
  <2>2. CASE pc = "remote" /\ pc' = "idle"
    BY <1>2, <2>2, HandsFree, Typed DEF InHand
  <2> QED  BY <2>1, <2>2
<1>4. TypeOK'
  <2>1. pc' \in Places /\ instr' \in Instruction
    BY Typed, Forgotten DEF Places, TypeOK
  <2> QED  BY <1>1, <1>2, <2>1, Typed, TypeFrom
<1> QED  BY <1>2, <1>3, <1>4 DEF Inv

LEMMA TruncatesFit ==
  ASSUME Inv, pc = "remote", instr.op = "TRUNCATE"
  PROVE  instr.ft \in FileTags /\ Blocks(instr.tam) \in 0 .. PagesOf[instr.ft]
<1>1. instr \in Instructions /\ instr \in Instruction
  BY Typed DEF InHand
<1>2. /\ instr.tam <= PagesOf[instr.ft] * BlockSize
      /\ instr.ft \in FileTags /\ instr.tam \in Nat
  BY <1>1, InstructionsAssumption, InstructionFields
<1>3. PagesOf[instr.ft] \in Nat /\ BlockSize \in Nat \ {0}
  BY <1>2, SizesAssumption
<1> QED  BY <1>2, <1>3, BlocksFit DEF Blocks

LEMMA ResizesKeep == Inv /\ (Truncate \/ Delete \/ \E ft \in FileTags : Rival(ft)) => Inv'
<1> SUFFICES ASSUME Inv, Truncate \/ Delete \/ \E ft \in FileTags : Rival(ft) PROVE Inv'
  OBVIOUS
<1>1. CASE Truncate
  <2>1. /\ pc = "remote" /\ pc' = "idle" /\ Forgets /\ instr.op = "TRUNCATE"
        /\ Resize(instr.ft, Blocks(instr.tam))
        /\ UNCHANGED <<algorithm, memory, libre, hubo_error, done, rest, leido, state>>
    BY <1>1, Zenon DEF Truncate
  <2>2. instr.ft \in FileTags /\ Blocks(instr.tam) \in 0 .. PagesOf[instr.ft]
    BY <2>1, TruncatesFit
  <2>3. Resizing
    BY <2>1, <2>2 DEF Resizing
  <2> QED  BY <2>1, <2>3, Typed, ResizingKeeps
<1>2. CASE Delete
  <2>1. /\ pc = "remote" /\ pc' = "idle" /\ Forgets /\ Resize(instr.ft, 0)
        /\ state' = [state EXCEPT ![instr.ft] = "NONE"]
        /\ UNCHANGED <<algorithm, memory, libre, hubo_error, done, rest, leido>>
    BY <1>2, Zenon DEF Delete
  <2>2. instr.ft \in FileTags /\ 0 \in 0 .. PagesOf[instr.ft]
    <3>1. instr.ft \in FileTags
      BY Typed, InstructionFields
    <3> QED  BY <3>1, SizesAssumption
  <2>3. state' \in [FileTags -> States]
    BY <2>1, Typed DEF States
  <2>4. Resizing
    BY <2>1, <2>2 DEF Resizing
  <2> QED  BY <2>1, <2>3, <2>4, Typed, ResizingKeeps
<1>3. ASSUME NEW ft \in FileTags, Rival(ft) PROVE Inv'
  <2>1. PICK s \in Rivals[ft] :
          /\ state' = [state EXCEPT ![ft] = s]
          /\ IF s = "NONE" THEN Resize(ft, 0) ELSE UNCHANGED <<size, store, table, outgoing>>
    BY <1>3 DEF Rival
  <2>2. UNCHANGED <<algorithm, memory, libre, hubo_error, pc, instr, done, rest, leido>>
    BY <1>3 DEF Rival
  <2>3. state' \in [FileTags -> States] /\ s \in {"NONE", "COMMITED"}
    BY <2>1, RivalsAssumption, Typed DEF States
  <2>4. CASE s = "NONE"
    <3>1. 0 \in 0 .. PagesOf[ft]
      BY SizesAssumption
    <3>2. Resizing
      BY <2>1, <2>2, <2>4, <3>1 DEF Resizing
    <3> QED  BY <2>2, <2>3, <3>2, Typed, ResizingKeeps
  <2>5. CASE s # "NONE"
    <3>1. UNCHANGED <<size, store, table, outgoing>>
      BY <2>1, <2>5
    <3>2. InHand'
      BY <2>2, <3>1, Typed DEF InHand, Cached, EntriesOf, Page, Address
    <3>3. pc' \in Places
      BY <2>2, Typed DEF TypeOK, Places
    <3> QED  BY <2>2, <2>3, <3>1, <3>2, <3>3, Typed, TypesRest DEF mem
  <2> QED  BY <2>4, <2>5
<1> QED  BY <1>1, <1>2, <1>3

-----------------------------------------------------------------------------
(* The theorems *)

LEMMA InitHolds == Init => Inv
<1> SUFFICES ASSUME Init PROVE Inv
  OBVIOUS
<1>1. /\ memory = [a \in Addresses |-> Blank] /\ libre = Frames
      /\ table = <<>> /\ outgoing = <<>> /\ hubo_error = FALSE
      /\ pc = "idle" /\ instr = Idle /\ done = 0 /\ rest = <<>> /\ leido = <<>>
      /\ state = [ft \in FileTags |-> "WORK_IN_PROGRESS"] /\ size = PagesOf
      /\ store = [ft \in FileTags |-> [p \in Pages(ft) |-> [o \in Offsets |-> Blank]]]
      /\ algorithm \in Algorithms
  BY DEF Init
<1>2. Len(<<>>) = 0 /\ \A i \in DOMAIN (<<>>) : FALSE
  OBVIOUS
<1>3. StorageKnown
  BY <1>1, SizesAssumption DEF StorageKnown
<1>4. TypeOK
  <2>1. memory \in [Addresses -> Bytes] /\ state \in [FileTags -> States]
    BY <1>1, SizesAssumption DEF States
  <2>2. \A ft \in FileTags : size[ft] \in 0 .. PagesOf[ft]
    BY <1>1, SizesAssumption
  <2>3. \A ft \in FileTags : store[ft] \in [Pages(ft) -> [Offsets -> Bytes]]
    BY <1>1, SizesAssumption
  <2>4. table \in Seq(Entry) /\ outgoing \in Seq(Entry) /\ Len(outgoing) <= 1
        /\ rest \in Seq(FileTags) /\ leido \in Seq(Read)
    BY <1>1, <1>2
  <2> QED  BY <1>1, <2>1, <2>2, <2>3, <2>4, IdleIs DEF TypeOK
<1>5. InHand
  BY <1>1 DEF InHand
<1>6. TableApart
  BY <1>1, <1>2 DEF TableApart, Distinct, MarcosOf
<1>7. PagesInStore
  BY <1>1, <1>2 DEF PagesInStore
<1> QED  BY <1>3, <1>4, <1>5, <1>6, <1>7 DEF Inv

LEMMA StepKeeps == Inv /\ [Next]_vars => Inv'
<1> SUFFICES ASSUME Inv, [Next]_vars PROVE Inv'
  OBVIOUS
<1>1. CASE Calm
  BY <1>1, CalmKeeps
<1>2. CASE Calmer
  BY <1>2, CalmerKeeps
<1>3. CASE WritePiece \/ ReadPiece
  BY <1>3, WriteKeeps, ReadKeeps
<1>4. CASE Miss \/ WriteBack
  BY <1>4, MissKeeps, WriteBackKeeps
<1>5. CASE Fault \/ FaultUnheard
  BY <1>5, FaultKeeps, FaultUnheardKeeps
<1>6. CASE FlushPage
  BY <1>6, FlushKeeps
<1>7. CASE Truncate \/ Delete \/ \E ft \in FileTags : Rival(ft)
  BY <1>7, ResizesKeep
<1>8. CASE UNCHANGED vars
  <2>1. InHand'
    BY <1>8, Typed DEF vars, InHand, Cached, EntriesOf, Page, Address
  <2>2. pc' \in Places
    BY <1>8, Typed DEF vars, TypeOK, Places
  <2>3. /\ UNCHANGED <<algorithm, mem, size, store>>
        /\ hubo_error' \in BOOLEAN /\ instr' \in Instruction /\ done' \in Nat
        /\ rest' \in Seq(FileTags) /\ leido' \in Seq(Read) /\ state' \in [FileTags -> States]
    BY <1>8, Typed DEF vars, mem
  <2> QED  BY <2>1, <2>2, <2>3, TypesRest
<1> QED
  BY <1>1, <1>2, <1>3, <1>4, <1>5, <1>6, <1>7, <1>8, Zenon DEF Next, Interpret, Calm, Calmer

LEMMA AlwaysInv == Spec => []Inv
  BY InitHolds, StepKeeps, PTL DEF Spec

(* Every variable has its type, whatever the sizes, the instructions and the   *)
(* other Workers: no frame outside the memory, no page past the end of a      *)
(* File:Tag in the Storage, no victim but the one (memoria.h, main.c).        *)
THEOREM TypeCorrect == Spec => []TypeOK
<1>1. Inv => TypeOK
  BY DEF Inv
<1> QED  BY <1>1, AlwaysInv, PTL

(* The page table and the list of frames agree after every miss, eviction,     *)
(* refusal and lost answer: no frame with two pages, no page with two frames,  *)
(* and no frame leaked (reservar_frame, liberar_entrada_TPG, memoria.h).       *)
THEOREM FramesAgree == Spec => []FramesAccounted
<1>1. Inv => FramesAccounted
  <2> SUFFICES ASSUME Inv PROVE FramesAccounted
    OBVIOUS
  <2> DEFINE s == table \o outgoing
             n == Len(table)
             m == Len(outgoing)
  <2>1. /\ n \in Nat /\ m \in Nat /\ DOMAIN table = 1 .. n /\ DOMAIN outgoing = 1 .. m
        /\ TableApart
    BY Typed
  <2>2. /\ DOMAIN s = 1 .. n + m
        /\ \A i \in 1 .. n : s[i] = table[i]
        /\ \A i \in n + 1 .. n + m : s[i] = outgoing[i - n]
    <3>1. /\ s \in Seq(Entry) /\ Len(s) = n + m
          /\ \A i \in 1 .. n + m : s[i] = IF i <= n THEN table[i] ELSE outgoing[i - n]
      BY Typed, ConcatProperties
    <3> HIDE DEF s
    <3>2. n = Len(table) /\ m = Len(outgoing)
      OBVIOUS
    <3> HIDE DEF n, m
    <3> QED  BY <2>1, <3>1, <3>2
  <2>3. m \in {0, 1}
    BY <2>1, Typed
  <2> HIDE DEF s, n, m
  <2>4. \A i \in DOMAIN s : i \in 1 .. n \/ (i = n + 1 /\ m = 1)
    BY <2>1, <2>2, <2>3
  <2>5. m = 1 => s[n + 1] = outgoing[1] /\ 1 \in DOMAIN outgoing
    BY <2>1, <2>2
  <2>6. \A i, j \in DOMAIN s : i # j => Apart(s[i], s[j])
    <3> TAKE i, j \in DOMAIN s
    <3>1. CASE i \in 1 .. n /\ j \in 1 .. n
      BY <2>1, <2>2, <3>1 DEF TableApart, Distinct
    <3>2. CASE i \in 1 .. n /\ j = n + 1 /\ m = 1
      BY <2>1, <2>2, <2>5, <3>2 DEF TableApart
    <3>3. CASE j \in 1 .. n /\ i = n + 1 /\ m = 1
      <4>1. Apart(table[j], outgoing[1]) /\ s[j] = table[j] /\ s[i] = outgoing[1]
        BY <2>1, <2>2, <2>5, <3>3 DEF TableApart
      <4> QED  BY <4>1 DEF Apart
    <3> QED  BY <2>4, <3>1, <3>2, <3>3
  <2>7. {s[i].marco : i \in DOMAIN s} = MarcosOf(table) \cup MarcosOf(outgoing)
    <3>1. \A i \in DOMAIN s : \/ i \in DOMAIN table /\ s[i] = table[i]
                              \/ 1 \in DOMAIN outgoing /\ s[i] = outgoing[1]
      BY <2>1, <2>2, <2>4, <2>5
    <3>2. \A i \in DOMAIN table : i \in DOMAIN s /\ s[i] = table[i]
      BY <2>1, <2>2
    <3>3. \A i \in DOMAIN outgoing : i = 1 /\ n + 1 \in DOMAIN s /\ s[n + 1] = outgoing[1]
      BY <2>1, <2>2, <2>3, <2>5
    <3> QED  BY <3>1, <3>2, <3>3 DEF MarcosOf
  <2> QED  BY <2>1, <2>6, <2>7 DEF FramesAccounted, TableApart, Apart, s
<1> QED  BY <1>1, AlwaysInv, PTL

(* A page that is not marked modified can be dropped: the Storage has it, for  *)
(* as long as its block is there (manejar_miss_memoria, ejecutar_flush).       *)
THEOREM CleanPages == Spec => []CleanIsStored
<1>1. Inv => CleanIsStored
  BY DEF Inv, PagesInStore, InStore, CleanIsStored
<1> QED  BY <1>1, AlwaysInv, PTL

(* The victim of Clock-M is the first of the lowest class, over tables of any  *)
(* length (seleccionar_victima, memoria.h).                                    *)
THEOREM LowestVictim == Spec => []VictimIsLowest
<1>1. Inv => VictimIsLowest
  BY LowestOfAll DEF Inv
<1> QED  BY <1>1, AlwaysInv, PTL

-----------------------------------------------------------------------------
(* What is seen of a File:Tag *)

Entries == {table[i] : i \in DOMAIN table} \cup {outgoing[i] : i \in DOMAIN outgoing}

(* The byte is x: in the frame of its page, or in the Storage if it has none.  *)
Of(e, ft, p) == e.ft = ft /\ e.pag = p
Byte(ft, p, o, x) ==
  \/ \E e \in Entries : Of(e, ft, p) /\ x = Contents(e.marco)[o]
  \/ (\A e \in Entries : ~Of(e, ft, p)) /\ x = store[ft][p][o]

LEMMA EntriesAre ==
  ASSUME Inv
  PROVE  /\ \A e \in Entries : e \in Entry /\ InStore(e) /\ e.marco \in Frames /\ e.pag \in Nat
                               /\ e.ft \in FileTags
         /\ \A e, d \in Entries : \A ft, p : Of(e, ft, p) /\ Of(d, ft, p) => e.marco = d.marco
         /\ \A i \in DOMAIN table : table[i] \in Entries
         /\ outgoing = <<>> => Entries = {table[i] : i \in DOMAIN table}
         /\ outgoing # <<>> => Entries = {table[i] : i \in DOMAIN table} \cup {outgoing[1]}
<1>1. \A e \in Entries : (\E i \in DOMAIN table : e = table[i]) \/ (\E i \in DOMAIN outgoing : e = outgoing[i])
  BY DEF Entries
<1>2. \A e \in Entries : e \in Entry /\ InStore(e)
  BY <1>1, Typed DEF PagesInStore
<1>3. \A e \in Entries : e.marco \in Frames /\ e.pag \in Nat /\ e.ft \in FileTags
  BY <1>2, EntryFields
<1>4. ASSUME NEW e \in Entries, NEW d \in Entries, NEW ft, NEW p, Of(e, ft, p), Of(d, ft, p)
      PROVE  e.marco = d.marco
  <2>1. ~Apart(e, d) /\ ~Apart(d, e)
    BY <1>4 DEF Of, Apart
  <2>2. \A i, j \in DOMAIN outgoing : i = j
    BY Typed
  <2>3. TableApart
    BY Typed
  <2> QED  BY <1>1, <2>1, <2>2, <2>3 DEF TableApart, Distinct
<1>5. outgoing = <<>> => DOMAIN outgoing = {}
  OBVIOUS
<1>6. outgoing # <<>> => DOMAIN outgoing = {1}
  BY Typed
<1> QED  BY <1>2, <1>3, <1>4, <1>5, <1>6 DEF Entries

LEMMA PageOf ==
  ASSUME NEW k \in Nat, NEW b \in Nat \ {0}, NEW a \in 0 .. k * b - 1
  PROVE  /\ a \div b \in 0 .. k - 1 /\ a % b \in 0 .. b - 1 /\ a = (a \div b) * b + (a % b)
<1>1. a \in Nat /\ a < k * b
  OBVIOUS
<1>2. a \div b \in Nat /\ a % b \in 0 .. b - 1 /\ a = (a \div b) * b + (a % b)
  BY <1>1, Divided
<1> DEFINE q == a \div b
           r == a % b
<1>3. q \in Nat /\ r \in Nat /\ q * b + r < k * b
  BY <1>1, <1>2
<1> HIDE DEF q, r
<1>4. q < k
  <2> SUFFICES ASSUME q >= k PROVE FALSE
    BY <1>3
  <2>1. q * b >= k * b
    BY <1>3
  <2>2. q * b \in Nat /\ k * b \in Nat
    BY <1>3
  <2> QED  BY <1>3, <2>1, <2>2
<1> QED  BY <1>2, <1>3, <1>4 DEF q

Shows ==
  \A ft \in FileTags : \A a \in DOMAIN View(ft) : \A x :
    Byte(ft, a \div BlockSize, a % BlockSize, x) <=> x = View(ft)[a]

LEMMA ViewShows == Inv => Shows
<1> SUFFICES ASSUME Inv, NEW ft \in FileTags, NEW a \in DOMAIN View(ft), NEW x
             PROVE  Byte(ft, a \div BlockSize, a % BlockSize, x) <=> x = View(ft)[a]
  BY DEF Shows
<1> DEFINE p == a \div BlockSize
           o == a % BlockSize
           e == EntryAt(ft, p)
<1>1. View(ft)[a] = IF e # <<>> THEN memory[(e[1].marco * BlockSize) + o] ELSE store[ft][p][o]
  BY DEF View
<1>2. o \in Offsets
  <2>1. DOMAIN View(ft) = 0 .. PagesOf[ft] * BlockSize - 1
    BY DEF View
  <2> QED  BY <2>1, PageOf, SizesAssumption DEF Offsets
<1>3. ASSUME Cached(ft, p)
      PROVE  \E i \in DOMAIN table : Of(table[i], ft, p) /\ e # <<>> /\ e[1] = table[i]
  <2> DEFINE d == table[IndexOf(ft, p)]
  <2>1. IndexOf(ft, p) \in DOMAIN table /\ Of(d, ft, p)
    BY <1>3, EntryOfPage DEF Of
  <2>2. e = <<d>>
    BY <1>3 DEF EntryAt
  <2> HIDE DEF d, e
  <2>3. e # <<>> /\ e[1] = d
    BY <2>2
  <2> QED  BY <2>1, <2>3 DEF d
<1>4. ASSUME ~Cached(ft, p), outgoing # <<>>, Of(outgoing[1], ft, p)
      PROVE  e # <<>> /\ e[1] = outgoing[1]
  BY <1>4 DEF EntryAt, Of
<1>5. ASSUME ~Cached(ft, p), outgoing # <<>> => ~Of(outgoing[1], ft, p)
      PROVE  e = <<>> /\ \A d \in Entries : ~Of(d, ft, p)
  <2>1. e = <<>>
    BY <1>5 DEF EntryAt, Of
  <2>2. \A i \in DOMAIN table : ~Of(table[i], ft, p)
    BY <1>5, NotCachedIs DEF Of
  <2>3. \A i \in DOMAIN outgoing : ~Of(outgoing[i], ft, p)
    BY <1>5, Typed
  <2> QED  BY <2>1, <2>2, <2>3 DEF Entries
<1> HIDE DEF e, p, o
<1>6. ASSUME NEW d \in Entries, Of(d, ft, p), e # <<>>, e[1] = d
      PROVE  Byte(ft, p, o, x) <=> x = View(ft)[a]
  <2>1. View(ft)[a] = Contents(d.marco)[o]
    BY <1>1, <1>2, <1>6 DEF Contents
  <2>2. \A c \in Entries : Of(c, ft, p) => c.marco = d.marco
    BY <1>6, EntriesAre
  <2> QED  BY <1>6, <2>1, <2>2 DEF Byte
<1>7. ASSUME Cached(ft, p)
      PROVE  Byte(ft, p, o, x) <=> x = View(ft)[a]
  <2>1. PICK i \in DOMAIN table : Of(table[i], ft, p) /\ e # <<>> /\ e[1] = table[i]
    BY <1>3, <1>7
  <2>2. PICK d : d = table[i]
    OBVIOUS
  <2>3. d \in Entries
    BY <2>2 DEF Entries
  <2> QED  BY <1>6, <2>1, <2>2, <2>3
<1>8. ASSUME ~Cached(ft, p) /\ outgoing # <<>> /\ Of(outgoing[1], ft, p)
      PROVE  Byte(ft, p, o, x) <=> x = View(ft)[a]
  <2>1. PICK d : d = outgoing[1]
    OBVIOUS
  <2>2. d \in Entries
    BY <1>8, <2>1, Typed DEF Entries
  <2>3. e # <<>> /\ e[1] = d /\ Of(d, ft, p)
    BY <1>4, <1>8, <2>1
  <2> QED  BY <1>6, <2>2, <2>3
<1>9. ASSUME ~Cached(ft, p) /\ (outgoing # <<>> => ~Of(outgoing[1], ft, p))
      PROVE  Byte(ft, p, o, x) <=> x = View(ft)[a]
  <2>1. e = <<>> /\ \A d \in Entries : ~Of(d, ft, p)
    BY <1>5, <1>9, Zenon
  <2>2. View(ft)[a] = store[ft][p][o]
    BY <1>1, <2>1
  <2> QED  BY <2>1, <2>2 DEF Byte
<1>10. Byte(ft, p, o, x) <=> x = View(ft)[a]
  BY <1>7, <1>8, <1>9, Zenon
<1> QED  BY <1>10 DEF p, o

LEMMA ViewShowsNext == Inv' => Shows'
  BY ViewShows, PTL

(* A page that is open to writes and has its block, before and after. *)
Clear(ft, p) ==
  /\ Open(ft) /\ Open(ft)' /\ p \in Nat /\ p < size[ft] /\ p < size'[ft]
  /\ \A e \in Entries : Of(e, ft, p) => ~e.stale

LEMMA SlotsShow ==
  ASSUME NEW ft, NEW p, NEW o, NEW x, Byte(ft, p, o, x),
         \A e \in Entries : Of(e, ft, p) =>
           \E d \in Entries' : SameSlot(d, e) /\ Contents(d.marco)'[o] = Contents(e.marco)[o],
         \A d \in Entries' : Of(d, ft, p) => \E e \in Entries : SameSlot(d, e),
         (\A e \in Entries : ~Of(e, ft, p)) => store'[ft][p][o] = store[ft][p][o]
  PROVE  Byte(ft, p, o, x)'
<1>1. CASE \E e \in Entries : Of(e, ft, p) /\ x = Contents(e.marco)[o]
  <2>1. PICK e \in Entries : Of(e, ft, p) /\ x = Contents(e.marco)[o]
    BY <1>1
  <2>2. PICK d \in Entries' : SameSlot(d, e) /\ Contents(d.marco)'[o] = Contents(e.marco)[o]
    BY <2>1
  <2>3. Of(d, ft, p) /\ x = Contents(d.marco)'[o]
    BY <2>1, <2>2 DEF Of, SameSlot
  <2> QED  BY <2>3 DEF Byte, Of
<1>2. CASE (\A e \in Entries : ~Of(e, ft, p)) /\ x = store[ft][p][o]
  <2>1. \A d \in Entries' : ~Of(d, ft, p)
    BY <1>2 DEF Of, SameSlot
  <2> QED  BY <1>2, <2>1 DEF Byte, Of
<1> QED  BY <1>1, <1>2 DEF Byte

-----------------------------------------------------------------------------
(* What the steps do to what is seen *)

LEMMA RestShows ==
  ASSUME UNCHANGED <<memory, table, outgoing, store>>, NEW ft, NEW p, NEW o, NEW x,
         Byte(ft, p, o, x)
  PROVE  Byte(ft, p, o, x)'
  BY DEF Byte, Entries, Contents, Of

LEMMA MovedEntries ==
  ASSUME outgoing = <<>>, outgoing' = <<>>, NEW f, Rearranged(table, table', f)
  PROVE  /\ \A e \in Entries : \E d \in Entries' : SameSlot(d, e)
         /\ \A d \in Entries' : \E e \in Entries : SameSlot(d, e)
<1>1. Entries = {table[i] : i \in DOMAIN table} /\ Entries' = {table'[i] : i \in DOMAIN table'}
  BY DEF Entries
<1> QED  BY <1>1 DEF Rearranged, SameSlot

LEMMA WriteShows ==
  ASSUME Inv, WritePiece, NEW ft, NEW p, NEW o \in Offsets, NEW x, Byte(ft, p, o, x),
         ~ (ft = instr.ft /\ p = Page /\ o \in Offset .. Offset + Piece - 1)
  PROVE  Byte(ft, p, o, x)'
<1> DEFINE i == IndexOf(instr.ft, Page)
           e == [table[i] EXCEPT !.uso = TRUE, !.modificada = TRUE]
<1>1. PICK m : m = table[i].marco
  OBVIOUS
<1>2. /\ pc = "piece" /\ instr.op = "WRITE" /\ Cached(instr.ft, Page)
      /\ Writes(m) /\ Touched(i, e) /\ UNCHANGED <<libre, outgoing>> /\ store' = store
  BY <1>1, Zenon DEF WritePiece, Working, Writes, storage
<1>3. /\ i \in DOMAIN table /\ table[i] \in Entry /\ m \in Frames
      /\ table[i].ft = instr.ft /\ table[i].pag = Page
  BY <1>1, <1>2, PieceEntry
<1>4. outgoing = <<>> /\ outgoing' = <<>>
  BY <1>2, Typed DEF InHand
<1>5. e \in Entry /\ SameSlot(e, table[i])
  BY <1>3, UsedEntry
<1>6. PICK c : c = table[i]
  OBVIOUS
<1>7. c \in Entries /\ Of(c, instr.ft, Page) /\ c.marco = m
  BY <1>1, <1>3, <1>6 DEF Entries, Of
<1> HIDE DEF e, i
<1>8. \E f : Rearranged(table, table', f)
  BY <1>2, <1>3, <1>4, <1>5, TouchedKeeps
<1>9. /\ \A d \in Entries : \E b \in Entries' : SameSlot(b, d)
      /\ \A b \in Entries' : \E d \in Entries : SameSlot(b, d)
  BY <1>4, <1>8, MovedEntries
<1>10. ASSUME NEW d \in Entries, Of(d, ft, p) PROVE Contents(d.marco)'[o] = Contents(d.marco)[o]
  <2>1. d.marco \in Frames
    BY EntriesAre
  <2>2. CASE d.marco # m
    BY <1>2, <1>3, <2>1, <2>2, Written
  <2>3. CASE d.marco = m
    <3>1. Of(d, instr.ft, Page)
      <4>1. \E k \in DOMAIN table : d = table[k]
        BY <1>4 DEF Entries
      <4>2. \A k \in DOMAIN table : table[k].marco = m => k = i
        BY <1>1, <1>2, PieceEntry DEF i
      <4> QED  BY <1>6, <1>7, <2>3, <4>1, <4>2
    <3>2. ft = instr.ft /\ p = Page
      BY <1>10, <3>1 DEF Of
    <3>3. memory'[m * BlockSize + o] = memory[m * BlockSize + o]
      BY <1>2, <1>3, <3>2, Written
    <3> QED  BY <2>3, <3>3 DEF Contents
  <2> QED  BY <2>2, <2>3
<1>11. ASSUME NEW d \in Entries, Of(d, ft, p)
       PROVE  \E b \in Entries' : SameSlot(b, d) /\ Contents(b.marco)'[o] = Contents(d.marco)[o]
  <2>1. PICK b \in Entries' : SameSlot(b, d)
    BY <1>9
  <2> QED  BY <1>10, <1>11, <2>1 DEF SameSlot
<1> QED  BY <1>2, <1>9, <1>11, SlotsShow

LEMMA ReadShows ==
  ASSUME Inv, ReadPiece, NEW ft, NEW p, NEW o, NEW x, Byte(ft, p, o, x)
  PROVE  Byte(ft, p, o, x)'
<1> DEFINE i == IndexOf(instr.ft, Page)
           e == [table[i] EXCEPT !.uso = TRUE]
<1>1. /\ pc = "piece" /\ Cached(instr.ft, Page) /\ Touched(i, e)
      /\ UNCHANGED <<memory, libre, outgoing>> /\ store' = store
  BY Zenon DEF ReadPiece, Working, storage
<1>2. i \in DOMAIN table /\ table[i] \in Entry
  BY <1>1, PieceEntry
<1>3. outgoing = <<>> /\ outgoing' = <<>>
  BY <1>1, Typed DEF InHand
<1>4. e \in Entry /\ SameSlot(e, table[i])
  BY <1>2, UsedEntry DEF Kin, SameSlot
<1> HIDE DEF e, i
<1>5. \E f : Rearranged(table, table', f)
  BY <1>1, <1>2, <1>3, <1>4, TouchedKeeps
<1>6. /\ \A d \in Entries : \E b \in Entries' : SameSlot(b, d)
      /\ \A b \in Entries' : \E d \in Entries : SameSlot(b, d)
  BY <1>3, <1>5, MovedEntries
<1>7. ASSUME NEW d \in Entries
      PROVE  \E b \in Entries' : SameSlot(b, d) /\ Contents(b.marco)'[o] = Contents(d.marco)[o]
  <2>1. PICK b \in Entries' : SameSlot(b, d)
    BY <1>6
  <2> QED  BY <1>1, <2>1 DEF SameSlot, Contents
<1> QED  BY <1>1, <1>6, <1>7, SlotsShow

LEMMA MissShows ==
  ASSUME Inv, Miss, NEW ft, NEW p, NEW o, NEW x, Byte(ft, p, o, x)
  PROVE  Byte(ft, p, o, x)'
<1>1. UNCHANGED <<memory, store>>
  BY DEF Miss, storage
<1>2. CASE libre # {}
  <2>1. UNCHANGED <<table, outgoing>>
    BY <1>2 DEF Miss
  <2> QED  BY <1>1, <2>1, RestShows
<1>3. CASE libre = {}
  <2>1. /\ Len(outgoing') = 1 /\ outgoing' \in Seq(Entry) /\ outgoing = <<>>
        /\ \A i \in DOMAIN table' : \E j \in DOMAIN table : Kin(table'[i], table[j])
        /\ \E j \in DOMAIN table : Kin(outgoing'[1], table[j])
        /\ \A j \in DOMAIN table : Kin(outgoing'[1], table[j])
                                   \/ \E i \in DOMAIN table' : Kin(table'[i], table[j])
    BY <1>3, MissLeaves
  <2>2. DOMAIN outgoing' = {1}
    BY <2>1
  <2>3. Entries = {table[i] : i \in DOMAIN table}
        /\ Entries' = {table'[i] : i \in DOMAIN table'} \cup {outgoing'[1]}
    BY <2>1, <2>2 DEF Entries
  <2>4. /\ \A e \in Entries : \E d \in Entries' : SameSlot(d, e)
        /\ \A d \in Entries' : \E e \in Entries : SameSlot(d, e)
    BY <2>1, <2>3 DEF Kin, SameSlot
  <2>5. ASSUME NEW d \in Entries
        PROVE  \E b \in Entries' : SameSlot(b, d) /\ Contents(b.marco)'[o] = Contents(d.marco)[o]
    <3>1. PICK b \in Entries' : SameSlot(b, d)
      BY <2>4
    <3> QED  BY <1>1, <3>1 DEF SameSlot, Contents
  <2> QED  BY <1>1, <2>4, <2>5, SlotsShow
<1> QED  BY <1>2, <1>3

(* The Storage has the victim, or takes it. *)
Given(ft, p) ==
  LET e == outgoing[1] IN
  Of(e, ft, p) => IF e.modificada THEN Accepted(ft) /\ p < size[ft] ELSE ~e.stale

LEMMA WriteBackShows ==
  ASSUME Inv, WriteBack, NEW ft \in FileTags, NEW p, NEW o, NEW x, Byte(ft, p, o, x), Given(ft, p)
  PROVE  Byte(ft, p, o, x)'
<1>1. PICK e : e = outgoing[1]
  OBVIOUS
<1>2. /\ pc = "writeback" /\ outgoing' = <<>> /\ UNCHANGED <<memory, table, size>>
      /\ e.modificada => Persisted(e)
      /\ ~e.modificada => store' = store
  BY <1>1 DEF WriteBack
<1>3. outgoing # <<>>
  BY <1>2, Typed DEF InHand
<1>4. /\ e \in Entries /\ e \in Entry /\ InStore(e)
      /\ Entries = {table[i] : i \in DOMAIN table} \cup {e}
      /\ Entries' = {table[i] : i \in DOMAIN table}
  <2>1. Entries' = {table'[i] : i \in DOMAIN table'}
    BY <1>2 DEF Entries
  <2>2. Entries = {table[i] : i \in DOMAIN table} \cup {e}
    BY <1>1, <1>3, EntriesAre
  <2> QED  BY <1>2, <2>1, <2>2, EntriesAre
<1>5. \A d \in Entries' : Apart(d, e)
  <2>1. 1 \in DOMAIN outgoing
    BY <1>3, Typed
  <2> QED  BY <1>1, <1>4, <2>1, Typed DEF TableApart
<1>6. CASE Of(e, ft, p)
  <2>1. /\ e.ft = ft /\ e.pag = p
        /\ IF e.modificada THEN Accepted(e.ft) /\ e.pag < size[e.ft] ELSE ~e.stale
    BY <1>1, <1>6 DEF Given, Of
  <2>2. store'[ft][p] = Contents(e.marco)
    <3>1. CASE e.modificada
      BY <1>2, <1>4, <2>1, <3>1, PersistedIs
    <3>2. CASE ~e.modificada
      BY <1>2, <1>4, <2>1, <3>2 DEF InStore
    <3> QED  BY <3>1, <3>2
  <2>3. x = Contents(e.marco)[o]
    BY <1>4, <1>6, EntriesAre DEF Byte
  <2>4. \A d \in Entries' : ~Of(d, ft, p)
    BY <1>5, <1>6 DEF Apart, Of
  <2> QED  BY <2>2, <2>3, <2>4 DEF Byte, Of
<1>7. CASE ~Of(e, ft, p)
  <2>1. store'[ft][p] = store[ft][p]
    <3>1. CASE e.modificada
      BY <1>2, <1>4, <1>7, <3>1, PersistedIs DEF Of
    <3>2. CASE ~e.modificada
      BY <1>2, <3>2
    <3> QED  BY <3>1, <3>2
  <2>2. \A m : Contents(m)' = Contents(m)
    BY <1>2 DEF Contents
  <2>3. \A d \in Entries : Of(d, ft, p) => d \in Entries'
    BY <1>4, <1>7
  <2>4. ASSUME NEW d \in Entries, Of(d, ft, p)
        PROVE  \E b \in Entries' : SameSlot(b, d) /\ Contents(b.marco)'[o] = Contents(d.marco)[o]
    BY <2>2, <2>3, <2>4 DEF SameSlot
  <2>5. \A d \in Entries' : \E b \in Entries : SameSlot(d, b)
    BY <1>4 DEF SameSlot
  <2> QED  BY <2>1, <2>4, <2>5, SlotsShow
<1> QED  BY <1>6, <1>7


LEMMA FoundBlock ==
  ASSUME Inv, pc = "fault", Found
  PROVE  store[instr.ft][Page] \in [Offsets -> Bytes]
<1>1. instr.ft \in FileTags /\ Page \in Nat /\ Page < size[instr.ft]
  BY PieceNow DEF Found
<1>2. size[instr.ft] \in 0 .. PagesOf[instr.ft] /\ PagesOf[instr.ft] \in Nat
  BY <1>1, Typed, SizesAssumption
<1>3. Page \in Pages(instr.ft)
  BY <1>1, <1>2 DEF Pages
<1> QED  BY <1>1, <1>3, Typed

(* The page comes in as the Storage has it. *)
LEMMA FaultShows ==
  ASSUME Inv, Fault \/ FaultUnheard, NEW ft \in FileTags, NEW p, NEW o, NEW x, Byte(ft, p, o, x),
         Open(ft)
  PROVE  Byte(ft, p, o, x)'
<1>1. /\ pc = "fault" /\ Reserve /\ outgoing' = outgoing /\ store' = store
      /\ \/ Found /\ Loads(Reserved, store[instr.ft][Page])
         \/ state[instr.ft] = "NONE" /\ memory' = memory
  BY Zenon DEF Fault, FaultUnheard, Loads, storage
<1>2. PICK e : e = NewEntry
  OBVIOUS
<1>3. PICK m : m = Reserved
  OBVIOUS
<1>4. /\ m \in Frames /\ outgoing = <<>> /\ outgoing' = <<>>
      /\ \A i \in DOMAIN table : table[i].marco # m
      /\ \A i \in DOMAIN table' : table'[i] = e \/ \E k \in DOMAIN table : table'[i] = table[k]
      /\ DOMAIN table \subseteq DOMAIN table' /\ \A i \in DOMAIN table : table'[i] = table[i]
      /\ \E i \in DOMAIN table' : table'[i] = e
  BY <1>1, <1>2, <1>3, ReserveKeeps
<1>5. e.ft = instr.ft /\ e.pag = Page /\ e.marco = m
  BY <1>2, <1>3 DEF NewEntry
<1>6. Entries = {table[i] : i \in DOMAIN table} /\ Entries' = Entries \cup {e}
  <2>1. Entries = {table[i] : i \in DOMAIN table} /\ Entries' = {table'[i] : i \in DOMAIN table'}
    BY <1>4 DEF Entries
  <2> QED  BY <1>4, <2>1
<1>7. ASSUME NEW d \in Entries PROVE Contents(d.marco)' = Contents(d.marco)
  <2>1. d.marco \in Frames /\ d.marco # m
    BY <1>4, <1>6, EntriesAre
  <2>2. CASE memory' = memory
    BY <2>2 DEF Contents
  <2>3. CASE Found /\ Loads(m, store[instr.ft][Page])
    <3>1. store[instr.ft][Page] \in [Offsets -> Bytes]
      BY <1>1, <2>3, FoundBlock
    <3> DEFINE c == store[instr.ft][Page]
    <3>2. c \in [Offsets -> Bytes] /\ Loads(m, c)
      BY <2>3, <3>1
    <3> HIDE DEF c
    <3> QED  BY <1>4, <2>1, <3>2, Loaded
  <2> QED  BY <1>1, <1>3, <2>2, <2>3
<1>8. CASE Of(e, ft, p)
  <2>1. /\ ft = instr.ft /\ p = Page /\ Found /\ Loads(m, store[instr.ft][Page])
    BY <1>1, <1>3, <1>5, <1>8 DEF Open, Of
  <2>2. \A d \in Entries : ~Of(d, ft, p)
    <3>1. ~Cached(instr.ft, Page)
      BY <1>1, PieceNow, Typed DEF InHand
    <3> QED  BY <1>6, <2>1, <3>1, NotCachedIs DEF Of
  <2>3. x = store[ft][p][o]
    BY <2>2 DEF Byte
  <2>4. Contents(m)' = store[ft][p]
    <3> DEFINE c == store[ft][p]
    <3>1. c \in [Offsets -> Bytes] /\ Loads(m, c)
      BY <1>1, <2>1, FoundBlock
    <3> HIDE DEF c
    <3>2. Contents(m)' = c
      BY <1>4, <3>1, Loaded
    <3> QED  BY <3>2 DEF c
  <2>5. e \in Entries' /\ x = Contents(e.marco)'[o]
    BY <1>5, <1>6, <2>3, <2>4
  <2> QED  BY <1>8, <2>5 DEF Byte, Of
<1>9. CASE ~Of(e, ft, p)
  <2>1. CASE \E d \in Entries : Of(d, ft, p) /\ x = Contents(d.marco)[o]
    <3>1. PICK d \in Entries : Of(d, ft, p) /\ x = Contents(d.marco)[o]
      BY <2>1
    <3>2. d \in Entries' /\ x = Contents(d.marco)'[o]
      BY <1>6, <1>7, <3>1
    <3> QED  BY <3>1, <3>2 DEF Byte, Of
  <2>2. CASE (\A d \in Entries : ~Of(d, ft, p)) /\ x = store[ft][p][o]
    <3>1. \A d \in Entries' : ~Of(d, ft, p)
      BY <1>6, <1>9, <2>2
    <3> QED  BY <1>1, <2>2, <3>1 DEF Byte, Of
  <2> QED  BY <2>1, <2>2 DEF Byte
<1> QED  BY <1>8, <1>9

(* A page is written and stays. *)
LEMMA FlushShows ==
  ASSUME Inv, FlushPage, NEW ft \in FileTags, NEW p, NEW o, NEW x, Byte(ft, p, o, x)
  PROVE  Byte(ft, p, o, x)'
<1>1. PICK i : i = Min(Modified(Head(rest)))
  OBVIOUS
<1>2. PICK e : e = table[i]
  OBVIOUS
<1>3. /\ pc = "flush" /\ Modified(Head(rest)) # {} /\ Persisted(e)
      /\ \/ table' = table
         \/ table' = [table EXCEPT ![i] = Saved(@)]
      /\ UNCHANGED <<memory, outgoing>>
  BY <1>1, <1>2, Zenon DEF FlushPage
<1>4. i \in DOMAIN table /\ e \in Entry /\ e \in Entries
  <2>1. Modified(Head(rest)) \in SUBSET Nat
    BY Typed DEF Modified
  <2>2. i \in Modified(Head(rest))
    BY <1>1, <1>3, <2>1, LeastIs
  <2> QED  BY <1>2, <2>2, Typed DEF Modified, Entries
<1>5. outgoing = <<>> /\ outgoing' = <<>>
  BY <1>3, Typed DEF InHand
<1>6. PICK d : d = Saved(e)
  OBVIOUS
<1>7. SameSlot(d, e)
  BY <1>4, <1>6, SavedIs
<1>8. DOMAIN table' = DOMAIN table /\ \A k \in DOMAIN table : SameSlot(table'[k], table[k])
  <2>1. table \in Seq(Entry)
    BY Typed
  <2>2. CASE table' = table
    BY <2>2 DEF SameSlot
  <2>3. CASE table' = [table EXCEPT ![i] = d]
    BY <1>2, <1>4, <1>7, <2>1, <2>3 DEF SameSlot
  <2>4. table' = table \/ table' = [table EXCEPT ![i] = d]
    BY <1>2, <1>3, <1>4, <1>6, <2>1
  <2> QED  BY <2>2, <2>3, <2>4
<1>9. \E f : Rearranged(table, table', f)
  BY <1>8, SlotsSame
<1>10. /\ \A b \in Entries : \E c \in Entries' : SameSlot(c, b)
       /\ \A c \in Entries' : \E b \in Entries : SameSlot(c, b)
  BY <1>5, <1>9, MovedEntries
<1>11. ASSUME NEW b \in Entries
       PROVE  \E c \in Entries' : SameSlot(c, b) /\ Contents(c.marco)'[o] = Contents(b.marco)[o]
  <2>1. PICK c \in Entries' : SameSlot(c, b)
    BY <1>10
  <2> QED  BY <1>3, <2>1 DEF SameSlot, Contents
<1>12. (\A b \in Entries : ~Of(b, ft, p)) => store'[ft][p][o] = store[ft][p][o]
  <2> SUFFICES ASSUME ~Of(e, ft, p) PROVE store'[ft][p] = store[ft][p]
    BY <1>4
  <2> QED  BY <1>3, <1>4, PersistedIs DEF Of
<1> QED  BY <1>10, <1>11, <1>12, SlotsShow

(* The blocks that stay keep what is in them. *)
LEMMA ResizeShows ==
  ASSUME Inv, NEW g \in FileTags, NEW n \in 0 .. PagesOf[g], Resize(g, n), memory' = memory,
         NEW ft \in FileTags, NEW p, NEW o, NEW x, Byte(ft, p, o, x),
         ft = g => p \in Nat /\ p < n
  PROVE  Byte(ft, p, o, x)'
<1>1. n \in Nat /\ n <= PagesOf[g] /\ PagesOf[g] \in Nat
  BY SizesAssumption
<1>2. /\ size' = [size EXCEPT ![g] = n]
      /\ store' = [store EXCEPT ![g] =
           [q \in Pages(g) |-> IF q < n THEN @[q] ELSE [k \in Offsets |-> Blank]]]
      /\ table' = Overtaken(table, g, n) /\ outgoing' = Overtaken(outgoing, g, n)
  BY Zenon DEF Resize
<1>3. /\ table \in Seq(Entry) /\ outgoing \in Seq(Entry)
      /\ size \in [FileTags -> Nat] /\ store = [h \in FileTags |-> store[h]]
  BY Typed
<1>4. DOMAIN table' = DOMAIN table /\ \A i \in DOMAIN table : SameSlot(table'[i], table[i])
  BY <1>1, <1>2, <1>3, OvertakenKeeps
<1>5. DOMAIN outgoing' = DOMAIN outgoing /\ \A i \in DOMAIN outgoing : SameSlot(outgoing'[i], outgoing[i])
  BY <1>1, <1>2, <1>3, OvertakenKeeps
<1>6. /\ \A e \in Entries : \E d \in Entries' : SameSlot(d, e)
      /\ \A d \in Entries' : \E e \in Entries : SameSlot(d, e)
  <2>1. Entries' = {table'[i] : i \in DOMAIN table'} \cup {outgoing'[i] : i \in DOMAIN outgoing'}
    BY DEF Entries
  <2> QED  BY <1>4, <1>5, <2>1 DEF Entries
<1>7. ASSUME NEW e \in Entries
      PROVE  \E d \in Entries' : SameSlot(d, e) /\ Contents(d.marco)'[o] = Contents(e.marco)[o]
  <2>1. PICK d \in Entries' : SameSlot(d, e)
    BY <1>6
  <2> QED  BY <2>1 DEF SameSlot, Contents
<1>8. store'[ft][p] = store[ft][p]
  <2>1. CASE ft # g
    BY <1>2, <1>3, <2>1
  <2>2. CASE ft = g
    <3>1. p \in Nat /\ p < n /\ p \in Pages(g)
      BY <1>1, <2>2 DEF Pages
    <3> DEFINE blank == [k \in Offsets |-> Blank]
    <3>2. store'[g] = [q \in Pages(g) |-> IF q < n THEN store[g][q] ELSE blank]
      BY <1>2, <1>3
    <3> HIDE DEF blank
    <3> QED  BY <2>2, <3>1, <3>2
  <2> QED  BY <2>1, <2>2
<1> QED  BY <1>6, <1>7, <1>8, SlotsShow


LEMMA ClearResized ==
  ASSUME Inv, NEW g \in FileTags, NEW n, Resize(g, n), NEW p, Clear(g, p)
  PROVE  p \in Nat /\ p < n
<1>1. size' = [size EXCEPT ![g] = n] /\ size \in [FileTags -> Nat]
  BY Typed, Zenon DEF Resize
<1> QED  BY <1>1 DEF Clear

LEMMA CalmShow ==
  ASSUME Calm \/ Calmer, NEW ft, NEW p, NEW o, NEW x, Byte(ft, p, o, x)
  PROVE  Byte(ft, p, o, x)'
<1>1. UNCHANGED <<memory, table, outgoing, store>>
  <2>1. CASE Calm
    BY <2>1, Zenon DEF Calm, Fetch, NewQuery, Evict, SendRead, FaultRefused, FlushedAll, mem, storage
  <2>2. CASE Calmer
    BY <2>2, Zenon DEF Calmer, WriteBackUnheard, FlushUnheard, Commit, Create, Refused, mem, storage
  <2> QED  BY <2>1, <2>2
<1> QED  BY <1>1, RestShows

LEMMA ResizesShow ==
  ASSUME Inv, Truncate \/ Delete \/ \E g \in FileTags : Rival(g),
         NEW ft \in FileTags, NEW p, NEW o, NEW x, Byte(ft, p, o, x), Clear(ft, p)
  PROVE  Byte(ft, p, o, x)'
<1>1. CASE Truncate
  <2>1. /\ pc = "remote" /\ instr.op = "TRUNCATE" /\ memory' = memory
        /\ Resize(instr.ft, Blocks(instr.tam))
    BY <1>1, Zenon DEF Truncate
  <2>2. instr.ft \in FileTags /\ Blocks(instr.tam) \in 0 .. PagesOf[instr.ft]
    BY <2>1, TruncatesFit
  <2> QED  BY <2>1, <2>2, ResizeShows, ClearResized
<1>2. CASE Delete
  <2>1. memory' = memory /\ Resize(instr.ft, 0)
    BY <1>2, Zenon DEF Delete
  <2>2. instr.ft \in FileTags
    BY Typed, InstructionFields
  <2>3. 0 \in 0 .. PagesOf[instr.ft]
    BY <2>2, SizesAssumption
  <2> QED  BY <2>1, <2>2, <2>3, ResizeShows, ClearResized
<1>3. ASSUME NEW g \in FileTags, Rival(g) PROVE Byte(ft, p, o, x)'
  <2>1. memory' = memory /\ (Resize(g, 0) \/ UNCHANGED <<size, store, table, outgoing>>)
    BY <1>3 DEF Rival
  <2>2. CASE Resize(g, 0)
    <3>1. 0 \in 0 .. PagesOf[g]
      BY SizesAssumption
    <3> QED  BY <2>1, <2>2, <3>1, ResizeShows, ClearResized
  <2>3. CASE UNCHANGED <<size, store, table, outgoing>>
    BY <2>1, <2>3, RestShows
  <2> QED  BY <2>1, <2>2, <2>3
<1> QED  BY <1>1, <1>2, <1>3

(* Where the WRITE at hand is writing. *)
Writing(ft, a) ==
  pc = "piece" /\ instr.op = "WRITE" /\ instr.ft = ft
  /\ a \in instr.base .. instr.base + instr.tam - 1

LEMMA StepShows ==
  ASSUME Inv, [Next]_vars, NEW ft \in FileTags, NEW a \in Nat, NEW p \in Nat, NEW o \in Offsets,
         a = p * BlockSize + o, NEW x, Byte(ft, p, o, x), Clear(ft, p), ~Writing(ft, a)
  PROVE  Byte(ft, p, o, x)'
<1>1. CASE WritePiece
  <2>1. pc = "piece" /\ instr.op = "WRITE"
    BY <1>1 DEF WritePiece, Working
  <2>2. /\ instr.base \in Nat /\ instr.tam \in Nat /\ done \in Nat /\ Offset \in Nat /\ o \in Nat
        /\ Address = Page * BlockSize + Offset /\ Piece \in Nat /\ done + Piece <= instr.tam
        /\ Address = instr.base + done
    <3>1. Offset \in Nat /\ o \in Nat /\ Piece \in Nat
      BY <2>1, PieceNow, SizesAssumption DEF Offsets
    <3> QED  BY <2>1, <3>1, PieceNow, Typed DEF Address
  <2>3. ~ (ft = instr.ft /\ p = Page /\ o \in Offset .. Offset + Piece - 1)
    <3> SUFFICES ASSUME ft = instr.ft, p = Page, o \in Offset .. Offset + Piece - 1 PROVE FALSE
      OBVIOUS
    <3> DEFINE b == Page * BlockSize
    <3>1. b \in Nat
      BY <2>1, PieceNow, SizesAssumption
    <3>2. a = b + o /\ instr.base + done = b + Offset
      BY <2>2
    <3> HIDE DEF b
    <3>3. a \in instr.base .. instr.base + instr.tam - 1
      BY <2>2, <3>1, <3>2
    <3> QED  BY <2>1, <3>3 DEF Writing
  <2> QED  BY <1>1, <2>3, WriteShows
<1>2. CASE ReadPiece \/ Miss
  BY <1>2, ReadShows, MissShows
<1>7. CASE WriteBack
  <2>1. pc = "writeback"
    BY <1>7 DEF WriteBack
  <2>2. outgoing # <<>> /\ 1 \in DOMAIN outgoing
    BY <2>1, Typed DEF InHand
  <2>3. outgoing[1] \in Entries
    BY <2>2 DEF Entries
  <2>4. Given(ft, p)
    BY <2>3 DEF Given, Clear, Open, Accepted
  <2> QED  BY <1>7, <2>4, WriteBackShows
<1>3. CASE Fault \/ FaultUnheard \/ FlushPage
  BY <1>3, FaultShows, FlushShows DEF Clear
<1>4. CASE Truncate \/ Delete \/ \E g \in FileTags : Rival(g)
  BY <1>4, ResizesShow
<1>5. CASE Calm \/ Calmer
  BY <1>5, CalmShow
<1>6. CASE UNCHANGED vars
  BY <1>6, RestShows DEF vars
<1> QED
  BY <1>1, <1>2, <1>3, <1>4, <1>5, <1>6, <1>7, Zenon DEF Next, Interpret, Calm, Calmer

LEMMA SoundIs ==
  ASSUME Inv, NEW ft \in FileTags, NEW a, Sound(ft, a)
  PROVE  LET p == a \div BlockSize IN p < size[ft] /\ \A e \in Entries : Of(e, ft, p) => ~e.stale
<1> DEFINE p == a \div BlockSize
<1>1. p < size[ft] /\ (EntryAt(ft, p) # <<>> => ~EntryAt(ft, p)[1].stale)
  BY DEF Sound
<1> HIDE DEF p
<1>2. ASSUME NEW i \in DOMAIN table, Of(table[i], ft, p) PROVE ~table[i].stale
  <2>1. Cached(ft, p)
    BY <1>2, NotCachedIs DEF Of
  <2> DEFINE d == table[IndexOf(ft, p)]
  <2>2. IndexOf(ft, p) \in DOMAIN table /\ Of(d, ft, p)
    BY <2>1, EntryOfPage DEF Of
  <2>3. EntryAt(ft, p) = <<d>>
    BY <2>1 DEF EntryAt
  <2>4. IndexOf(ft, p) = i
    BY <1>2, <2>2, Typed DEF TableApart, Distinct, Apart, Of
  <2> HIDE DEF d
  <2>5. EntryAt(ft, p) # <<>> /\ EntryAt(ft, p)[1] = d
    BY <2>3
  <2> QED  BY <1>1, <2>4, <2>5 DEF d
<1>3. ASSUME NEW i \in DOMAIN outgoing, Of(outgoing[i], ft, p) PROVE ~outgoing[i].stale
  <2>1. i = 1 /\ outgoing # <<>>
    BY Typed
  <2>2. ~Cached(ft, p)
    <3>1. \A j \in DOMAIN table : Apart(table[j], outgoing[i])
      BY Typed DEF TableApart
    <3> QED  BY <1>3, <3>1, NotCachedIs DEF Apart, Of
  <2>3. EntryAt(ft, p) = outgoing
    BY <1>3, <2>1, <2>2 DEF EntryAt, Of
  <2> QED  BY <1>1, <2>1, <2>3
<1>4. \A e \in Entries : Of(e, ft, p) => ~e.stale
  BY <1>2, <1>3 DEF Entries
<1> QED  BY <1>1, <1>4 DEF p

(* Memory does not show: whatever faults, is replaced, written back, flushed   *)
(* or cut elsewhere, a byte of a File:Tag that is open to writes is seen to    *)
(* change by a WRITE of it only, with any number of frames and of Workers      *)
(* (manejar_miss_memoria, liberar_entrada_TPG, ejecutar_flush).                *)
THEOREM Transparent == Spec => MemoryIsTransparent
<1>1. ASSUME Inv, Inv', [Next]_vars
      PROVE  [\A ft \in FileTags : Open(ft) /\ Open(ft)' =>
                \A a \in DOMAIN View(ft) :
                  View(ft)'[a] # View(ft)[a] /\ Stays(ft, a) =>
                    pc = "piece" /\ instr.op = "WRITE" /\ instr.ft = ft
                    /\ a \in instr.base .. instr.base + instr.tam - 1]_vars
  <2> SUFFICES ASSUME NEW ft \in FileTags, Open(ft), Open(ft)', NEW a \in DOMAIN View(ft),
                      Stays(ft, a), ~Writing(ft, a)
               PROVE  View(ft)'[a] = View(ft)[a]
    BY DEF Writing
  <2> DEFINE p == a \div BlockSize
             o == a % BlockSize
  <2>0. PICK x : x = View(ft)[a]
    OBVIOUS
  <2>1. a \in 0 .. PagesOf[ft] * BlockSize - 1
    BY DEF View
  <2>2. p \in Nat /\ o \in Offsets /\ a = p * BlockSize + o /\ a \in Nat
    <3>1. a \div BlockSize \in 0 .. PagesOf[ft] - 1 /\ a % BlockSize \in 0 .. BlockSize - 1
          /\ a = (a \div BlockSize) * BlockSize + (a % BlockSize)
      BY <2>1, PageOf, SizesAssumption
    <3> QED  BY <2>1, <3>1 DEF Offsets
  <2>3. /\ p < size[ft] /\ p < size'[ft]
        /\ \A e \in Entries : Of(e, ft, p) => ~e.stale
    BY <1>1, SoundIs DEF Stays
  <2>4. Byte(ft, p, o, x)
    BY <1>1, <2>0, ViewShows DEF Shows
  <2>5. a \in DOMAIN View(ft)'
    BY <2>1 DEF View
  <2>6. \A y : Byte(ft, p, o, y)' <=> y = View(ft)'[a]
    BY <1>1, <2>5, ViewShowsNext DEF Shows
  <2> HIDE DEF p, o
  <2>7. Clear(ft, p)
    BY <2>2, <2>3 DEF Clear
  <2>8. Byte(ft, p, o, x)'
    BY <1>1, <2>2, <2>4, <2>7, StepShows
  <2> QED  BY <2>0, <2>6, <2>8
<1> QED  BY <1>1, AlwaysInv, PTL DEF Spec, MemoryIsTransparent


-----------------------------------------------------------------------------
(* What a FLUSH and a COMMIT have done *)

(* A FLUSH or a COMMIT is of one File:Tag, and by the time that the COMMIT is   *)
(* sent nothing of it is left modified, unless there was an error.             *)
FlushAtHand ==
  /\ pc = "flush" => instr.op \in {"FLUSH", "COMMIT", "EVICT"}
                     /\ (instr.op # "EVICT" => rest = <<instr.ft>>)
  /\ pc = "commit" => instr.op = "COMMIT" /\ (hubo_error \/ Modified(instr.ft) = {})
  /\ pc = "remote" => instr.op \in Remote
  /\ pc = "send" => instr.op = "READ"

LEMMA NotAtHand ==
  ASSUME pc' \in {"idle", "piece", "writeback", "fault", "stuck"} PROVE FlushAtHand'
  BY DEF FlushAtHand

LEMMA FinishedAtHand ==
  ASSUME NextPiece, Forgets PROVE FlushAtHand'
<1>1. CASE pc' \in {"idle", "piece"}
  BY <1>1, NotAtHand
<1>2. CASE pc' = "send" /\ instr.op = "READ"
  <2>1. instr' = instr
    BY <1>2 DEF Forgets
  <2> QED  BY <1>2, <2>1 DEF FlushAtHand
<1> QED  BY <1>1, <1>2 DEF NextPiece, Finished

LEMMA FetchAtHand == Inv /\ Fetch => FlushAtHand'
<1> SUFFICES ASSUME Inv, Fetch PROVE FlushAtHand'
  OBVIOUS
<1>1. PICK r \in Instructions :
        /\ instr' = r
        /\ pc' = CASE r.op \in {"WRITE", "READ"} -> "piece"
                   [] r.op \in Remote -> "remote"
                   [] OTHER -> "flush"
        /\ rest' = IF r.op \in {"FLUSH", "COMMIT"} THEN <<r.ft>> ELSE <<>>
  BY DEF Fetch
<1>2. r.op \in {"WRITE", "READ", "FLUSH", "COMMIT"} \cup Remote
  <2>1. r \in Instruction /\ r.op # "EVICT"
    BY InstructionsAssumption
  <2> QED  BY <2>1, InstructionFields DEF Remote
<1>3. CASE r.op \in {"WRITE", "READ"}
  <2>1. pc' = "piece"
    BY <1>1, <1>3 DEF Remote
  <2> QED  BY <2>1, NotAtHand
<1>4. CASE r.op \in Remote
  <2>1. pc' = "remote"
    BY <1>1, <1>4 DEF Remote
  <2> QED  BY <1>1, <1>4, <2>1 DEF FlushAtHand
<1>5. CASE r.op \in {"FLUSH", "COMMIT"}
  <2>1. pc' = "flush" /\ rest' = <<r.ft>>
    BY <1>1, <1>5 DEF Remote
  <2> QED  BY <1>1, <1>5, <2>1 DEF FlushAtHand
<1> QED  BY <1>2, <1>3, <1>4, <1>5

LEMMA FlushedAtHand == Inv /\ FlushAtHand /\ (FlushedAll \/ FlushPage) => FlushAtHand'
<1> SUFFICES ASSUME Inv, FlushAtHand, FlushedAll \/ FlushPage PROVE FlushAtHand'
  OBVIOUS
<1>1. pc = "flush" /\ Forgets
  BY DEF FlushedAll, FlushPage
<1>2. instr.op \in {"FLUSH", "COMMIT", "EVICT"} /\ (instr.op # "EVICT" => rest = <<instr.ft>>)
  BY <1>1 DEF FlushAtHand
<1>3. CASE FlushNext /\ (hubo_error' \/ (table' = table /\ Modified(Head(rest)) = {}))
  <2>1. pc' = IF Len(rest) > 1 THEN "flush" ELSE IF instr.op = "COMMIT" THEN "commit" ELSE "idle"
    BY <1>3 DEF FlushNext
  <2>2. CASE pc' = "idle"
    BY <2>2, NotAtHand
  <2>3. CASE Len(rest) > 1
    <3>1. instr.op = "EVICT"
      <4>1. Len(<<instr.ft>>) = 1
        OBVIOUS
      <4> QED  BY <1>2, <2>3, <4>1
    <3>2. pc' = "flush" /\ instr' = instr
      BY <1>1, <2>1, <2>3 DEF Forgets
    <3> QED  BY <3>1, <3>2 DEF FlushAtHand
  <2>4. CASE instr.op = "COMMIT" /\ pc' = "commit"
    <3>1. rest = <<instr.ft>> /\ Head(<<instr.ft>>) = instr.ft
      BY <1>2, <2>4
    <3>2. instr' = instr
      BY <1>1, <2>4 DEF Forgets
    <3>3. hubo_error' \/ Modified(instr.ft)' = {}
      <4> SUFFICES ASSUME table' = table, Modified(Head(rest)) = {} PROVE Modified(instr.ft)' = {}
        BY <1>3
      <4>1. Modified(instr.ft)' = Modified(instr.ft)
        BY <3>2 DEF Modified
      <4> QED  BY <3>1, <4>1
    <3> QED  BY <2>4, <3>2, <3>3 DEF FlushAtHand
  <2> QED  BY <2>1, <2>2, <2>3, <2>4
<1>4. CASE UNCHANGED <<rest, pc>>
  <2>1. instr' = instr
    BY <1>1, <1>4 DEF Forgets
  <2> QED  BY <1>1, <1>2, <1>4, <2>1 DEF FlushAtHand
<1>5. FlushedAll => FlushNext /\ table' = table /\ Modified(Head(rest)) = {}
  BY Zenon DEF FlushedAll, mem
<1>6. FlushPage => (FlushNext /\ hubo_error') \/ UNCHANGED <<rest, pc>>
  BY Zenon DEF FlushPage
<1> QED  BY <1>3, <1>4, <1>5, <1>6

LEMMA ModifiedStays ==
  ASSUME Inv, NEW g \in FileTags, Rival(g), NEW ft PROVE Modified(ft)' = Modified(ft)
<1>1. CASE table' = table
  BY <1>1 DEF Modified
<1>2. CASE Resize(g, 0)
  <2>1. table' = Overtaken(table, g, 0) /\ table \in Seq(Entry)
    BY <1>2, Typed, Zenon DEF Resize
  <2>2. DOMAIN table' = DOMAIN table
    BY <2>1 DEF Overtaken
  <2>3. \A i \in DOMAIN table : table'[i].ft = table[i].ft /\ table'[i].modificada = table[i].modificada
    <3> SUFFICES ASSUME NEW i \in DOMAIN table
                 PROVE  table'[i].ft = table[i].ft /\ table'[i].modificada = table[i].modificada
      OBVIOUS
    <3>1. table[i] \in Entry
      BY <2>1
    <3>2. \A e \in Entry : [e EXCEPT !.stale = TRUE].ft = e.ft
                           /\ [e EXCEPT !.stale = TRUE].modificada = e.modificada
      BY DEF Entry
    <3>3. table'[i] = table[i] \/ table'[i] = [table[i] EXCEPT !.stale = TRUE]
      BY <2>1 DEF Overtaken
    <3> QED  BY <3>1, <3>2, <3>3
  <2> QED  BY <2>2, <2>3 DEF Modified
<1> QED  BY <1>1, <1>2, Zenon DEF Rival

LEMMA StepAtHand == Inv /\ FlushAtHand /\ [Next]_vars => FlushAtHand'
<1> SUFFICES ASSUME Inv, FlushAtHand, [Next]_vars PROVE FlushAtHand'
  OBVIOUS
<1>1. CASE WritePiece \/ ReadPiece
  <2>1. NextPiece /\ Forgets
    BY <1>1 DEF WritePiece, ReadPiece
  <2> QED  BY <2>1, FinishedAtHand
<1>2. CASE FaultRefused
  <2>1. CASE NextPiece /\ Forgets
    BY <2>1, FinishedAtHand
  <2>2. CASE pc' = "idle"
    BY <2>2, NotAtHand
  <2> QED  BY <1>2, <2>1, <2>2, Zenon DEF FaultRefused
<1>3. CASE Fetch
  BY <1>3, FetchAtHand
<1>4. CASE FlushedAll \/ FlushPage
  BY <1>4, FlushedAtHand
<1>5. CASE Evict
  <2>1. pc' = "flush" /\ instr' = [Idle EXCEPT !.op = "EVICT"]
    BY <1>5 DEF Evict
  <2>2. instr'.op = "EVICT"
    BY <2>1 DEF Idle
  <2> QED  BY <2>1, <2>2 DEF FlushAtHand
<1>6. CASE NewQuery \/ SendRead \/ Miss \/ WriteBack \/ WriteBackUnheard \/ Fault \/ FaultUnheard
           \/ FlushUnheard \/ Commit \/ Create \/ Truncate \/ Delete \/ Refused
  <2>1. pc' \in {"idle", "piece", "writeback", "fault", "stuck"}
    BY <1>6 DEF NewQuery, SendRead, Miss, WriteBack, WriteBackUnheard, Fault, FaultUnheard,
                FlushUnheard, Commit, Create, Truncate, Delete, Refused
  <2> QED  BY <2>1, NotAtHand
<1>7. ASSUME NEW g \in FileTags, Rival(g) PROVE FlushAtHand'
  <2>1. UNCHANGED <<hubo_error, pc, instr, rest>>
    BY <1>7 DEF Rival
  <2>2. Modified(instr.ft)' = Modified(instr.ft)
    <3>1. PICK ft : ft = instr.ft
      OBVIOUS
    <3>2. ft = instr'.ft
      BY <2>1, <3>1
    <3>3. Modified(ft)' = Modified(ft)
      BY <1>7, ModifiedStays
    <3> QED  BY <3>1, <3>2, <3>3 DEF Modified
  <2> QED  BY <2>1, <2>2 DEF FlushAtHand
<1>8. CASE UNCHANGED vars
  BY <1>8 DEF vars, FlushAtHand, Modified
<1> QED
  BY <1>1, <1>2, <1>3, <1>4, <1>5, <1>6, <1>7, <1>8, Zenon DEF Next, Interpret

LEMMA AlwaysAtHand == Spec => []FlushAtHand
<1>1. Init => FlushAtHand
  BY DEF Init, FlushAtHand
<1> QED  BY <1>1, StepAtHand, AlwaysInv, PTL DEF Spec

(* Nothing of it modified, the Storage has what is seen of it. *)
CleanView ==
  pc = "idle" => \A ft \in FileTags : Modified(ft) = {} =>
    \A a \in DOMAIN View(ft) : Sound(ft, a) =>
      View(ft)[a] = store[ft][a \div BlockSize][a % BlockSize]

LEMMA CleanIsSeen == Inv => CleanView
<1> SUFFICES ASSUME Inv, pc = "idle", NEW ft \in FileTags, Modified(ft) = {},
                    NEW a \in DOMAIN View(ft), Sound(ft, a)
             PROVE  View(ft)[a] = store[ft][a \div BlockSize][a % BlockSize]
  BY DEF CleanView
<1> DEFINE p == a \div BlockSize
           o == a % BlockSize
<1>1. PICK x : x = View(ft)[a]
  OBVIOUS
<1>2. Byte(ft, p, o, x)
  BY <1>1, ViewShows DEF Shows
<1>3. \A e \in Entries : Of(e, ft, p) => ~e.stale
  BY SoundIs
<1> HIDE DEF p, o
<1>4. \A e \in Entries : Of(e, ft, p) => ~e.modificada
  <2>1. outgoing = <<>>
    BY Typed DEF InHand
  <2>2. \A e \in Entries : \E i \in DOMAIN table : e = table[i]
    BY <2>1, EntriesAre
  <2> QED  BY <2>2 DEF Modified, Of
<1>5. ASSUME NEW e \in Entries, Of(e, ft, p), x = Contents(e.marco)[o]
      PROVE  x = store[ft][p][o]
  <2>1. InStore(e) /\ ~e.stale /\ ~e.modificada
    BY <1>3, <1>4, <1>5, EntriesAre
  <2> QED  BY <1>5, <2>1 DEF InStore, Of
<1>6. x = store[ft][p][o]
  BY <1>2, <1>5 DEF Byte
<1> QED  BY <1>1, <1>6 DEF p, o

LEMMA CleanIsSeenNext == Inv' => CleanView'
  BY CleanIsSeen, PTL

(* Only the end of the flush, and the answer to the COMMIT, end them well.    *)
LEMMA FlushEnds ==
  ASSUME Inv, FlushAtHand, [Next]_vars, NEW ft, Ends("FLUSH", ft) \/ Ends("COMMIT", ft)
  PROVE  Modified(ft)' = {}
<1>1. /\ instr.op \in {"FLUSH", "COMMIT"} /\ instr.ft = ft /\ pc # "idle" /\ pc' = "idle"
      /\ ~hubo_error'
  BY DEF Ends
<1>2. pc \in {"flush", "commit"} \cup {"piece", "writeback", "fault", "stuck"}
  BY <1>1, Typed DEF FlushAtHand, TypeOK, Remote
<1>3. pc \notin {"piece", "writeback", "fault"}
  BY <1>1, Typed DEF InHand
<1>4. CASE pc = "flush"
  <2>1. FlushedAll
    <3>1. FlushedAll \/ FlushPage \/ FlushUnheard \/ (\E g \in FileTags : Rival(g)) \/ UNCHANGED vars
      BY <1>4, Zenon DEF Next, Interpret, Fetch, NewQuery, Evict, WritePiece, ReadPiece, Working,
         SendRead, Miss, WriteBack, WriteBackUnheard, Fault, FaultRefused, FaultUnheard, Commit,
         Create, Truncate, Delete, Refused
    <3>2. ~FlushUnheard /\ ~(\E g \in FileTags : Rival(g)) /\ pc' # pc
      BY <1>1, <1>4 DEF FlushUnheard, Rival
    <3>3. ~FlushPage
      <4> SUFFICES ASSUME FlushPage PROVE FALSE
        OBVIOUS
      <4>1. pc' = pc
        BY <1>1, Zenon DEF FlushPage
      <4> QED  BY <1>1, <4>1
    <3> QED  BY <3>1, <3>2, <3>3 DEF vars
  <2>2. table' = table /\ Modified(Head(rest)) = {}
    BY <2>1, Zenon DEF FlushedAll, mem
  <2>3. rest = <<instr.ft>> /\ Head(<<instr.ft>>) = instr.ft
    BY <1>1, <1>4 DEF FlushAtHand
  <2>4. Modified(ft) = {}
    BY <1>1, <2>2, <2>3
  <2> QED  BY <2>2, <2>4 DEF Modified
<1>5. CASE pc = "commit"
  <2>1. Commit
    <3>1. Commit \/ (\E g \in FileTags : Rival(g)) \/ UNCHANGED vars
      BY <1>5, Zenon DEF Next, Interpret, Fetch, NewQuery, Evict, WritePiece, ReadPiece, Working,
         SendRead, Miss, WriteBack, WriteBackUnheard, Fault, FaultRefused, FaultUnheard,
         FlushedAll, FlushPage, FlushUnheard, Create, Truncate, Delete, Refused
    <3> QED  BY <1>1, <3>1 DEF Rival, vars
  <2>2. table' = table /\ hubo_error' = (hubo_error \/ state[instr.ft] = "NONE")
    BY <2>1, Zenon DEF Commit, mem
  <2>3. Modified(ft) = {}
    BY <1>1, <1>5, <2>2 DEF FlushAtHand
  <2> QED  BY <2>2, <2>3 DEF Modified
<1>6. CASE pc = "stuck"
  BY <1>1, <1>6 DEF Next, Interpret, Fetch, NewQuery, Evict, WritePiece, ReadPiece, Working,
     SendRead, Miss, WriteBack, WriteBackUnheard, Fault, FaultRefused, FaultUnheard,
     FlushedAll, FlushPage, FlushUnheard, Commit, Create, Truncate, Delete, Refused, Rival, vars
<1> QED  BY <1>2, <1>3, <1>4, <1>5, <1>6

(* After a FLUSH or a COMMIT without error the Storage has what the Worker      *)
(* sees, whatever was replaced, truncated or deleted while it ran               *)
(* (ejecutar_instruccion's FLUSH and COMMIT, ejecutar_flush).                  *)
THEOREM FlushStores == Spec => FlushPersists
<1>1. ASSUME Inv, Inv', FlushAtHand, [Next]_vars
      PROVE  [\A ft \in FileTags : Ends("FLUSH", ft) \/ Ends("COMMIT", ft) =>
                \A a \in DOMAIN View(ft) : Sound(ft, a)' =>
                  View(ft)'[a] = store'[ft][a \div BlockSize][a % BlockSize]]_vars
  <2> SUFFICES ASSUME NEW ft \in FileTags, Ends("FLUSH", ft) \/ Ends("COMMIT", ft),
                      NEW a \in DOMAIN View(ft), Sound(ft, a)'
               PROVE  View(ft)'[a] = store'[ft][a \div BlockSize][a % BlockSize]
    OBVIOUS
  <2>1. Modified(ft)' = {} /\ pc' = "idle"
    BY <1>1, FlushEnds DEF Ends
  <2>2. a \in DOMAIN View(ft)'
    BY DEF View
  <2>3. CleanView'
    BY <1>1, CleanIsSeenNext
  <2> QED  BY <2>1, <2>2, <2>3 DEF CleanView
<1> QED  BY <1>1, AlwaysInv, AlwaysAtHand, PTL DEF Spec, FlushPersists


-----------------------------------------------------------------------------
(* The pages in memory after a step *)

(* What is in the page is in the Storage, or will be. *)
Safe(e) == e.modificada \/ ~e.stale
Heir(b, d) == SameSlot(b, d) /\ (Safe(d) => Safe(b))
Inherits == \A b \in Entries' : \E d \in Entries : Heir(b, d)

(* The pages in memory are pages that their File:Tag may have.                 *)
PagesKnown == pc # "stuck" => \A e \in Entries : e.pag \in Pages(e.ft)

LEMMA RestInherits ==
  ASSUME UNCHANGED <<table, outgoing>> PROVE Inherits
  BY DEF Inherits, Entries, Heir, SameSlot

LEMMA TouchedInherits ==
  ASSUME Inv, outgoing = <<>>, UNCHANGED <<libre, outgoing>>, NEW i \in DOMAIN table,
         NEW e \in Entry, Heir(e, table[i]), Touched(i, e)
  PROVE  Inherits /\ \A b \in Entries' : b = e \/ \E k \in DOMAIN table : k # i /\ b = table[k]
<1>1. \A j \in DOMAIN table' : table'[j] = e \/ \E k \in DOMAIN table : k # i /\ table'[j] = table[k]
  BY TouchedKeeps DEF Heir
<1>2. Entries = {table[j] : j \in DOMAIN table} /\ Entries' = {table'[j] : j \in DOMAIN table'}
  BY DEF Entries
<1>3. \A d : Heir(d, d)
  BY DEF Heir, SameSlot
<1>4. \A b \in Entries' : b = e \/ \E k \in DOMAIN table : k # i /\ b = table[k]
  BY <1>1, <1>2
<1>5. \A b \in Entries' : \E d \in Entries : Heir(b, d)
  BY <1>2, <1>3, <1>4
<1> QED  BY <1>4, <1>5 DEF Inherits

(* The page of the piece that is written is marked. *)
LEMMA WriteInherits ==
  ASSUME Inv, WritePiece
  PROVE  Inherits /\ \A b \in Entries' : Of(b, instr.ft, Page) => b.modificada
<1> DEFINE i == IndexOf(instr.ft, Page)
           e == [table[i] EXCEPT !.uso = TRUE, !.modificada = TRUE]
<1>1. /\ pc = "piece" /\ Cached(instr.ft, Page) /\ Touched(i, e) /\ UNCHANGED <<libre, outgoing>>
  BY Zenon DEF WritePiece, Working
<1>2. /\ i \in DOMAIN table /\ table[i] \in Entry /\ table[i].ft = instr.ft /\ table[i].pag = Page
  BY <1>1, PieceEntry
<1>3. outgoing = <<>>
  BY <1>1, Typed DEF InHand
<1>4. e \in Entry /\ SameSlot(e, table[i]) /\ e.modificada
  BY <1>2, UsedEntry
<1> HIDE DEF e, i
<1>5. Heir(e, table[i])
  BY <1>4 DEF Heir, Safe
<1>6. Inherits /\ \A b \in Entries' : b = e \/ \E k \in DOMAIN table : k # i /\ b = table[k]
  BY <1>1, <1>2, <1>3, <1>4, <1>5, TouchedInherits
<1>7. \A k \in DOMAIN table : k # i => ~Of(table[k], instr.ft, Page)
  BY <1>2, Typed DEF TableApart, Distinct, Apart, Of
<1> QED  BY <1>4, <1>6, <1>7

LEMMA ReadInherits == ASSUME Inv, ReadPiece PROVE Inherits
<1> DEFINE i == IndexOf(instr.ft, Page)
           e == [table[i] EXCEPT !.uso = TRUE]
<1>1. /\ pc = "piece" /\ Cached(instr.ft, Page) /\ Touched(i, e) /\ UNCHANGED <<libre, outgoing>>
  BY Zenon DEF ReadPiece, Working
<1>2. i \in DOMAIN table /\ table[i] \in Entry
  BY <1>1, PieceEntry
<1>3. outgoing = <<>>
  BY <1>1, Typed DEF InHand
<1>4. e \in Entry /\ Kin(e, table[i])
  BY <1>2, UsedEntry
<1> HIDE DEF e, i
<1>5. Heir(e, table[i])
  BY <1>4 DEF Heir, Safe, Kin, SameSlot
<1> QED  BY <1>1, <1>2, <1>3, <1>4, <1>5, TouchedInherits

LEMMA MissInherits == ASSUME Inv, Miss PROVE Inherits
<1>1. CASE libre # {}
  <2>1. UNCHANGED <<table, outgoing>>
    BY <1>1 DEF Miss
  <2> QED  BY <2>1, RestInherits
<1>2. CASE libre = {}
  <2>1. /\ Len(outgoing') = 1 /\ outgoing' \in Seq(Entry) /\ outgoing = <<>>
        /\ \A i \in DOMAIN table' : \E j \in DOMAIN table : Kin(table'[i], table[j])
        /\ \E j \in DOMAIN table : Kin(outgoing'[1], table[j])
    BY <1>2, MissLeaves
  <2>2. DOMAIN outgoing' = {1}
    BY <2>1
  <2>3. Entries = {table[i] : i \in DOMAIN table}
        /\ Entries' = {table'[i] : i \in DOMAIN table'} \cup {outgoing'[1]}
    BY <2>1, <2>2 DEF Entries
  <2>4. \A b, d : Kin(b, d) => Heir(b, d)
    BY DEF Kin, Heir, SameSlot, Safe
  <2>5. \A b \in Entries' : \E d \in Entries : Kin(b, d)
    BY <2>1, <2>3
  <2> QED  BY <2>4, <2>5 DEF Inherits
<1> QED  BY <1>1, <1>2

LEMMA WriteBackInherits == ASSUME Inv, WriteBack PROVE Inherits
<1>1. outgoing' = <<>> /\ table' = table
  BY DEF WriteBack
<1>2. Entries' \subseteq Entries
  BY <1>1 DEF Entries
<1> QED  BY <1>2 DEF Inherits, Heir, SameSlot

(* A page that was found comes in as it is in the Storage. *)
LEMMA FaultInherits ==
  ASSUME Inv, Fault
  PROVE  \A b \in Entries' : b \in Entries \/ (Of(b, instr.ft, Page) /\ Safe(b))
<1>1. pc = "fault" /\ Reserve /\ outgoing' = outgoing /\ Found
  BY DEF Fault
<1>2. PICK e : e = NewEntry
  OBVIOUS
<1>3. /\ outgoing = <<>>
      /\ \A i \in DOMAIN table' : table'[i] = e \/ \E k \in DOMAIN table : table'[i] = table[k]
  BY <1>1, <1>2, ReserveKeeps
<1>4. Entries = {table[i] : i \in DOMAIN table} /\ Entries' = {table'[i] : i \in DOMAIN table'}
  BY <1>1, <1>3 DEF Entries
<1>5. Of(e, instr.ft, Page) /\ Safe(e)
  BY <1>1, <1>2 DEF NewEntry, Of, Safe
<1> QED  BY <1>3, <1>4, <1>5

LEMMA FlushSlots ==
  ASSUME Inv, FlushPage PROVE \A b \in Entries' : \E d \in Entries : SameSlot(b, d)
<1>1. PICK i : i = Min(Modified(Head(rest)))
  OBVIOUS
<1>2. PICK e : e = table[i]
  OBVIOUS
<1>3. /\ pc = "flush" /\ Modified(Head(rest)) # {} /\ outgoing' = outgoing
      /\ \/ table' = table
         \/ table' = [table EXCEPT ![i] = Saved(@)]
  BY <1>1, Zenon DEF FlushPage
<1>4. i \in DOMAIN table /\ e \in Entry
  <2>1. Modified(Head(rest)) \in SUBSET Nat
    BY Typed DEF Modified
  <2>2. i \in Modified(Head(rest))
    BY <1>1, <1>3, <2>1, LeastIs
  <2> QED  BY <1>2, <2>2, Typed DEF Modified
<1>5. outgoing = <<>> /\ outgoing' = <<>>
  BY <1>3, Typed DEF InHand
<1>6. PICK d : d = Saved(e)
  OBVIOUS
<1>7. SameSlot(d, e) /\ table \in Seq(Entry)
  BY <1>4, <1>6, SavedIs, Typed
<1>8. DOMAIN table' = DOMAIN table /\ \A k \in DOMAIN table : SameSlot(table'[k], table[k])
  <2>1. CASE table' = table
    BY <2>1 DEF SameSlot
  <2>2. CASE table' = [table EXCEPT ![i] = d]
    BY <1>2, <1>4, <1>7, <2>2 DEF SameSlot
  <2>3. table' = table \/ table' = [table EXCEPT ![i] = d]
    BY <1>2, <1>3, <1>4, <1>6, <1>7
  <2> QED  BY <2>1, <2>2, <2>3
<1>9. \E f : Rearranged(table, table', f)
  BY <1>8, SlotsSame
<1> QED  BY <1>5, <1>9, MovedEntries

LEMMA ResizeSlots ==
  ASSUME Inv, NEW g \in FileTags, NEW n \in 0 .. PagesOf[g], Resize(g, n)
  PROVE  \A b \in Entries' : \E d \in Entries : SameSlot(b, d) /\ (d.ft # g => Heir(b, d))
<1>1. n \in Nat
  BY SizesAssumption
<1>2. /\ table' = Overtaken(table, g, n) /\ outgoing' = Overtaken(outgoing, g, n)
      /\ table \in Seq(Entry) /\ outgoing \in Seq(Entry)
  BY Typed, Zenon DEF Resize
<1>3. /\ DOMAIN table' = DOMAIN table
      /\ \A i \in DOMAIN table :
           SameSlot(table'[i], table[i]) /\ (table[i].ft # g => Heir(table'[i], table[i]))
  BY <1>1, <1>2, OvertakenKeeps DEF Heir, Safe
<1>4. /\ DOMAIN outgoing' = DOMAIN outgoing
      /\ \A i \in DOMAIN outgoing :
           SameSlot(outgoing'[i], outgoing[i]) /\ (outgoing[i].ft # g => Heir(outgoing'[i], outgoing[i]))
  BY <1>1, <1>2, OvertakenKeeps DEF Heir, Safe
<1>5. Entries' = {table'[i] : i \in DOMAIN table'} \cup {outgoing'[i] : i \in DOMAIN outgoing'}
  BY DEF Entries
<1> QED  BY <1>3, <1>4, <1>5 DEF Entries

LEMMA CalmInherits == ASSUME Calm \/ Calmer PROVE Inherits
<1>1. UNCHANGED <<table, outgoing>>
  <2>1. CASE Calm
    BY <2>1, Zenon DEF Calm, Fetch, NewQuery, Evict, SendRead, FaultRefused, FlushedAll, mem
  <2>2. CASE Calmer
    BY <2>2, Zenon DEF Calmer, WriteBackUnheard, FlushUnheard, Commit, Create, Refused, mem
  <2> QED  BY <2>1, <2>2
<1> QED  BY <1>1, RestInherits

LEMMA RivalSlots ==
  ASSUME Inv, NEW g \in FileTags, Rival(g)
  PROVE  \A b \in Entries' : \E d \in Entries : SameSlot(b, d) /\ (d.ft # g => Heir(b, d))
<1>1. CASE Resize(g, 0)
  <2>1. 0 \in 0 .. PagesOf[g]
    BY SizesAssumption
  <2> QED  BY <1>1, <2>1, ResizeSlots
<1>2. CASE UNCHANGED <<table, outgoing>>
  BY <1>2, RestInherits DEF Inherits, Heir
<1> QED  BY <1>1, <1>2, Zenon DEF Rival

LEMMA OwnResizeSlots ==
  ASSUME Inv, Truncate \/ Delete PROVE \A b \in Entries' : \E d \in Entries : SameSlot(b, d)
<1>1. CASE Truncate
  <2>1. pc = "remote" /\ instr.op = "TRUNCATE" /\ Resize(instr.ft, Blocks(instr.tam))
    BY <1>1, Zenon DEF Truncate
  <2>2. instr.ft \in FileTags /\ Blocks(instr.tam) \in 0 .. PagesOf[instr.ft]
    BY <2>1, TruncatesFit
  <2> QED  BY <2>1, <2>2, ResizeSlots
<1>2. CASE Delete
  <2>1. Resize(instr.ft, 0) /\ instr.ft \in FileTags
    BY <1>2, Typed, InstructionFields, Zenon DEF Delete
  <2>2. 0 \in 0 .. PagesOf[instr.ft]
    BY <2>1, SizesAssumption
  <2> QED  BY <2>1, <2>2, ResizeSlots
<1> QED  BY <1>1, <1>2

LEMMA PagesStay ==
  ASSUME PagesKnown, pc # "stuck", \A b \in Entries' : \E d \in Entries : SameSlot(b, d)
  PROVE  PagesKnown'
<1>1. \A b \in Entries' : b.pag \in Pages(b.ft)
  BY DEF PagesKnown, SameSlot
<1> QED  BY <1>1 DEF PagesKnown, Pages

LEMMA StepPagesKnown == Inv /\ PagesKnown /\ [Next]_vars => PagesKnown'
<1> SUFFICES ASSUME Inv, PagesKnown, [Next]_vars, pc' # "stuck" PROVE PagesKnown'
  BY DEF PagesKnown
<1>0. UNCHANGED vars \/ pc # "stuck"
  BY Zenon DEF Next, Interpret, Fetch, NewQuery, Evict, WritePiece, ReadPiece, Working,
     SendRead, Miss, WriteBack, WriteBackUnheard, Fault, FaultRefused, FaultUnheard,
     FlushedAll, FlushPage, FlushUnheard, Commit, Create, Truncate, Delete, Refused, Rival
<1>1. CASE WritePiece \/ ReadPiece \/ Miss \/ WriteBack \/ Calm \/ Calmer
  <2>1. Inherits
    BY <1>1, WriteInherits, ReadInherits, MissInherits, WriteBackInherits, CalmInherits
  <2>2. pc # "stuck"
    BY <1>0, <1>1, Zenon DEF vars
  <2> QED  BY <2>1, <2>2, PagesStay DEF Inherits, Heir
<1>2. CASE FlushPage \/ Truncate \/ Delete
  <2>1. pc # "stuck"
    BY <1>2, Zenon DEF FlushPage, Truncate, Delete
  <2> QED  BY <1>2, <2>1, FlushSlots, OwnResizeSlots, PagesStay
<1>3. ASSUME NEW g \in FileTags, Rival(g) PROVE PagesKnown'
  <2>1. pc # "stuck"
    BY <1>3, Zenon DEF Rival
  <2>2. \A b \in Entries' : \E d \in Entries : SameSlot(b, d)
    BY <1>3, RivalSlots
  <2> QED  BY <2>1, <2>2, PagesStay
<1>4. CASE Fault
  <2>1. pc = "fault" /\ Found
    BY <1>4, Zenon DEF Fault
  <2>2. Page \in Pages(instr.ft)
    <3>1. instr.ft \in FileTags /\ Page \in Nat /\ Page < size[instr.ft]
      BY <2>1, PieceNow DEF Found
    <3>2. size[instr.ft] \in 0 .. PagesOf[instr.ft] /\ PagesOf[instr.ft] \in Nat
      BY <3>1, Typed, SizesAssumption
    <3> QED  BY <3>1, <3>2 DEF Pages
  <2>3. \A b \in Entries' : b.pag \in Pages(b.ft)
    BY <1>4, <2>1, <2>2, FaultInherits DEF PagesKnown, Of
  <2> QED  BY <2>3 DEF PagesKnown, Pages
<1>5. CASE FaultUnheard
  BY <1>5, Zenon DEF FaultUnheard
<1>6. CASE UNCHANGED vars
  BY <1>6 DEF vars, PagesKnown, Entries, Pages
<1> QED  BY <1>1, <1>2, <1>3, <1>4, <1>5, <1>6, Zenon DEF Next, Interpret, Calm, Calmer

LEMMA AlwaysPagesKnown == Spec => []PagesKnown
<1>1. Init => PagesKnown
  BY DEF Init, PagesKnown, Entries
<1> QED  BY <1>1, StepPagesKnown, AlwaysInv, PTL DEF Spec


-----------------------------------------------------------------------------
(* What a WRITE has done *)

(* No WRITE (or READ) goes on past the end of a page in the middle of a piece: *)
(* it begins where a page does, or it ends in the page where it begins.        *)
WithinPages(op) ==
  \A r \in Instructions : r.op = op =>
    r.base % BlockSize = 0 \/ (r.base % BlockSize) + r.tam <= BlockSize

LEMMA DividedOnce ==
  ASSUME NEW b \in Nat \ {0}, NEW p \in Nat, NEW q \in Nat, NEW o \in 0 .. b - 1,
         NEW r \in 0 .. b - 1, p * b + o = q * b + r
  PROVE  p = q /\ o = r
<1>1. p = q
  BY FramesApart
<1>2. p * b \in Nat
  OBVIOUS
<1> QED  BY <1>1, <1>2

LEMMA SomePages ==
  ASSUME NEW b \in Nat \ {0}, NEW n \in Nat, NEW j \in Nat, n % b = 0
  PROVE  (n + j * b) % b = 0
<1>1. n \div b \in Nat /\ n = (n \div b) * b + 0
  BY Divided
<1>2. PICK q \in Nat : n = q * b
  BY <1>1
<1>3. n + j * b = (q + j) * b + 0 /\ q + j \in Nat /\ n + j * b \in Nat
  BY <1>2
<1> DEFINE m == n + j * b
<1>4. m \in Nat
  BY <1>3
<1> HIDE DEF m
<1>5. m \div b \in Nat /\ m % b \in 0 .. b - 1 /\ m = (m \div b) * b + (m % b)
  BY <1>4, Divided
<1>6. m = (q + j) * b + 0 /\ 0 \in 0 .. b - 1
  BY <1>3 DEF m
<1>7. m % b = 0
  BY <1>3, <1>5, <1>6, DividedOnce
<1> QED  BY <1>7 DEF m

LEMMA FewerPieces ==
  ASSUME NEW b \in Nat \ {0}, NEW j \in Nat, j * b < b PROVE j = 0
<1> SUFFICES ASSUME j >= 1 PROVE FALSE
  OBVIOUS
<1>1. j * b >= b
  OBVIOUS
<1> QED  BY <1>1

LEMMA PieceFits ==
  ASSUME NEW op, WithinPages(op), Inv, pc \in {"piece", "writeback", "fault"}, instr.op = op,
         NEW j \in Nat, done = j * BlockSize
  PROVE  Offset + Piece <= BlockSize
<1>1. /\ instr \in Instructions /\ instr.base \in Nat /\ instr.tam \in Nat /\ done < instr.tam
      /\ Piece \in 1 .. BlockSize /\ done + Piece <= instr.tam
      /\ BlockSize \in Nat \ {0} /\ done \in Nat
  BY PieceNow, Typed, SizesAssumption
<1>2. Offset = (instr.base + done) % BlockSize
  BY DEF Offset, Address
<1>3. CASE instr.base % BlockSize = 0
  <2>1. Offset = 0
    BY <1>1, <1>2, <1>3, SomePages
  <2> QED  BY <1>1, <2>1
<1>4. CASE (instr.base % BlockSize) + instr.tam <= BlockSize
  <2>1. instr.base % BlockSize \in Nat
    BY <1>1
  <2>2. done < BlockSize
    BY <1>1, <1>4, <2>1
  <2>3. j = 0
    BY <1>1, <2>2, FewerPieces
  <2>4. done = 0
    BY <1>1, <2>3
  <2>5. Offset = instr.base % BlockSize
    BY <1>1, <1>2, <2>4
  <2> QED  BY <1>1, <1>4, <2>1, <2>4, <2>5
<1> QED  BY <1>1, <1>3, <1>4 DEF WithinPages

(* The first n bytes of a text are seen where they were to be written, and     *)
(* their pages can be given back.                                              *)
Shown(ft, base, text, n) ==
  \A k \in 0 .. n - 1 : \A p \in Nat : \A o \in Offsets : base + k = p * BlockSize + o =>
    /\ p \in Pages(ft)
    /\ Byte(ft, p, o, text[k + 1])
    /\ \A e \in Entries : Of(e, ft, p) => Safe(e)

(* The pieces before the one at hand are written, and stay so.                 *)
Placed(w, n) ==
  /\ \E j \in Nat : n = j * BlockSize
  /\ w.op = "WRITE" /\ Open(w.ft) /\ ~hubo_error => Shown(w.ft, w.base, w.text, n)
WriteAtHand == pc \in {"piece", "writeback", "fault"} => Placed(instr, done)

LEMMA ShownStays ==
  ASSUME NEW ft, NEW base, NEW text, NEW n, Shown(ft, base, text, n),
         \A p \in Nat : \A o \in Offsets : \A x :
           Byte(ft, p, o, x) /\ (\A e \in Entries : Of(e, ft, p) => Safe(e)) => Byte(ft, p, o, x)',
         \A b \in Entries' : b.ft = ft => Safe(b) \/ \E d \in Entries : Heir(b, d)
  PROVE  Shown(ft, base, text, n)'
<1>1. ASSUME NEW k \in 0 .. n - 1, NEW p \in Nat, NEW o \in Offsets, base + k = p * BlockSize + o
      PROVE  /\ p \in Pages(ft)
             /\ Byte(ft, p, o, text[k + 1])'
             /\ \A b \in Entries' : Of(b, ft, p) => Safe(b)
  <2>1. /\ p \in Pages(ft)
        /\ Byte(ft, p, o, text[k + 1])
        /\ \A e \in Entries : Of(e, ft, p) => Safe(e)
    BY <1>1 DEF Shown
  <2>2. Byte(ft, p, o, text[k + 1])'
    BY <2>1
  <2>3. \A b \in Entries' : Of(b, ft, p) => Safe(b)
    BY <2>1 DEF Of, Heir, SameSlot
  <2> QED  BY <2>1, <2>2, <2>3
<1>2. \A b, p : /\ (Of(b, ft, p))' <=> Of(b, ft, p)
                /\ Safe(b)' <=> Safe(b)
                /\ (p \in Pages(ft))' <=> p \in Pages(ft)
  BY DEF Of, Safe, Pages
<1> QED  BY <1>1, <1>2 DEF Shown, Of, Safe, Pages, Offsets

(* The bytes of the piece are in their page. *)
LEMMA PieceShows ==
  ASSUME Inv, WritePiece, NEW ft, ft = instr.ft, NEW p, p = Page,
         NEW o \in Offset .. Offset + Piece - 1, o \in Offsets,
         NEW x, x = instr.text[done + (o - Offset) + 1]
  PROVE  Byte(ft, p, o, x)'
<1> DEFINE i == IndexOf(instr.ft, Page)
           e == [table[i] EXCEPT !.uso = TRUE, !.modificada = TRUE]
<1>1. PICK m : m = table[i].marco
  OBVIOUS
<1>2. /\ pc = "piece" /\ instr.op = "WRITE" /\ Cached(instr.ft, Page)
      /\ Writes(m) /\ Touched(i, e) /\ UNCHANGED <<libre, outgoing>>
  BY <1>1, Zenon DEF WritePiece, Working, Writes
<1>3. /\ i \in DOMAIN table /\ table[i] \in Entry /\ m \in Frames
      /\ table[i].ft = instr.ft /\ table[i].pag = Page
  BY <1>1, <1>2, PieceEntry
<1>4. outgoing = <<>> /\ outgoing' = <<>>
  BY <1>2, Typed DEF InHand
<1>5. e \in Entry /\ SameSlot(e, table[i])
  BY <1>3, UsedEntry
<1>6. PICK c : c = table[i]
  OBVIOUS
<1>7. c \in Entries /\ Of(c, instr.ft, Page) /\ c.marco = m
  BY <1>1, <1>3, <1>6 DEF Entries, Of
<1> HIDE DEF e, i
<1>8. \E f : Rearranged(table, table', f)
  BY <1>2, <1>3, <1>4, <1>5, TouchedKeeps
<1>9. PICK b \in Entries' : SameSlot(b, c)
  BY <1>4, <1>7, <1>8, MovedEntries
<1>10. memory'[m * BlockSize + o] = instr.text[done + (o - Offset) + 1]
  BY <1>2, <1>3, Written
<1>11. Contents(m)'[o] = instr.text[done + (o - Offset) + 1]
  BY <1>10 DEF Contents
<1>12. Of(b, ft, p) /\ x = Contents(b.marco)'[o]
  BY <1>7, <1>9, <1>11 DEF Of, SameSlot
<1> QED  BY <1>12 DEF Byte, Of

(* Which bytes of the page are of the piece. *)
LEMMA OfThePiece ==
  ASSUME NEW b \in Nat \ {0}, NEW base \in Nat, NEW n \in Nat, NEW k \in Nat, NEW q \in Nat,
         NEW p \in Nat, NEW off \in 0 .. b - 1, NEW o \in 0 .. b - 1, NEW z \in 1 .. b,
         off + z <= b, k < n + z, base + n = q * b + off, base + k = p * b + o
  PROVE  /\ n <= k => p = q /\ o \in off .. off + z - 1 /\ k + 1 = n + (o - off) + 1
         /\ k < n => ~ (p = q /\ o \in off .. off + z - 1)
<1> DEFINE c == q * b
           d == p * b
<1>1. c \in Nat /\ d \in Nat /\ base + n = c + off /\ base + k = d + o /\ (p = q => c = d)
  OBVIOUS
<1>2. ASSUME n <= k PROVE p = q /\ o = off + (k - n)
  <2>1. off + (k - n) \in 0 .. b - 1 /\ d + o = c + (off + (k - n))
    <3> HIDE DEF c, d
    <3> QED  BY <1>1, <1>2
  <2> QED  BY <2>1, DividedOnce
<1> HIDE DEF c, d
<1> QED  BY <1>1, <1>2

(* The piece is added to what was written before it. *)
LEMMA PieceShown ==
  ASSUME WithinPages("WRITE"), Inv, PagesKnown, WritePiece, NEW w, w = instr, NEW n \in Nat, n = done,
         NEW j \in Nat, n = j * BlockSize, NEW l \in Nat, l = n + Piece,
         Shown(w.ft, w.base, w.text, n)
  PROVE  Shown(w.ft, w.base, w.text, l)'
<1>1. /\ pc = "piece" /\ instr.op = "WRITE" /\ Cached(instr.ft, Page)
  BY Zenon DEF WritePiece, Working
<1>2. /\ w.ft \in FileTags /\ w.base \in Nat /\ n \in Nat /\ Page \in Nat
      /\ Offset \in 0 .. BlockSize - 1 /\ Piece \in 1 .. BlockSize /\ BlockSize \in Nat \ {0}
      /\ w.base + n = Page * BlockSize + Offset /\ Offset + Piece <= BlockSize
  <2>1. instr.ft \in FileTags /\ instr.base \in Nat /\ Address = Page * BlockSize + Offset
        /\ Page \in Nat /\ Offset \in Offsets /\ Piece \in 1 .. BlockSize
    BY <1>1, PieceNow
  <2>2. Offset + Piece <= BlockSize
    BY <1>1, PieceFits
  <2>3. w.base + n = Page * BlockSize + Offset
    BY <2>1 DEF Address
  <2> QED  BY <2>1, <2>2, <2>3, Typed, SizesAssumption DEF Offsets
<1>3. Inherits /\ \A b \in Entries' : Of(b, instr.ft, Page) => b.modificada
  BY WriteInherits
<1>4. Page \in Pages(w.ft)
  <2>1. PICK i \in DOMAIN table : table[i].ft = instr.ft /\ table[i].pag = Page
    BY <1>1, EntryOfPage
  <2> QED  BY <1>1, <2>1, EntriesAre DEF PagesKnown
<1>5. ASSUME NEW k \in 0 .. l - 1, NEW p \in Nat, NEW o \in Offsets, w.base + k = p * BlockSize + o
      PROVE  /\ p \in Pages(w.ft)
             /\ Byte(w.ft, p, o, w.text[k + 1])'
             /\ \A b \in Entries' : Of(b, w.ft, p) => Safe(b)
  <2>0. o \in 0 .. BlockSize - 1 /\ k \in Nat /\ k < n + Piece
    <3>1. k \in Nat /\ k < l
      OBVIOUS
    <3> QED  BY <3>1 DEF Offsets
  <2>1. /\ n <= k => p = Page /\ o \in Offset .. Offset + Piece - 1 /\ k + 1 = n + (o - Offset) + 1
        /\ k < n => ~ (p = Page /\ o \in Offset .. Offset + Piece - 1)
    BY <1>2, <1>5, <2>0, OfThePiece
  <2>5. CASE n <= k
    <3>1. p = Page /\ o \in Offset .. Offset + Piece - 1 /\ k + 1 = n + (o - Offset) + 1
      BY <2>1, <2>5
    <3>4. Byte(w.ft, p, o, w.text[k + 1])'
      BY <1>5, <3>1, PieceShows
    <3> QED  BY <1>3, <1>4, <3>1, <3>4 DEF Safe
  <2>6. CASE k < n
    <3>1. k \in 0 .. n - 1
      BY <1>2, <2>0, <2>6
    <3>2. /\ p \in Pages(w.ft)
          /\ Byte(w.ft, p, o, w.text[k + 1])
          /\ \A e \in Entries : Of(e, w.ft, p) => Safe(e)
      BY <1>5, <3>1 DEF Shown
    <3>3. Byte(w.ft, p, o, w.text[k + 1])'
      BY <1>2, <1>5, <2>1, <2>6, <3>2, WriteShows
    <3>4. \A b \in Entries' : Of(b, w.ft, p) => Safe(b)
      BY <1>3, <3>2 DEF Inherits, Of, Heir, SameSlot
    <3> QED  BY <3>2, <3>3, <3>4
  <2> QED  BY <1>2, <2>0, <2>5, <2>6
<1> QED  BY <1>5 DEF Shown, Of, Safe, Pages, Offsets


PlacedIs == \A w, n : w = instr /\ n = done /\ Placed(w, n) => WriteAtHand

LEMMA PlacedThen == PlacedIs'
<1>1. PlacedIs
  BY DEF PlacedIs, WriteAtHand
<1> QED  BY <1>1, PTL

LEMMA NoneShown == ASSUME NEW w PROVE Placed(w, 0)'
<1>1. 0 = 0 * BlockSize /\ 0 \in Nat
  BY SizesAssumption
<1>2. 0 .. 0 - 1 = {}
  OBVIOUS
<1> QED  BY <1>1, <1>2 DEF Placed, Shown

(* The next piece begins a block further on. *)
LEMMA NextPlace ==
  ASSUME NEW b \in Nat \ {0}, NEW n, \E j \in Nat : n = j * b
  PROVE  n \in Nat /\ \E j \in Nat : n + b = j * b
<1>1. PICK j \in Nat : n = j * b
  OBVIOUS
<1>2. n \in Nat /\ n + b = (j + 1) * b /\ j + 1 \in Nat
  BY <1>1
<1> QED  BY <1>2

(* Nobody else writes a File:Tag that stays open to writes, nor cuts it.       *)
LEMMA RivalShown ==
  ASSUME Inv, NEW g \in FileTags, Rival(g), NEW ft \in FileTags, Open(ft)',
         NEW base, NEW text, NEW n, Open(ft) => Shown(ft, base, text, n)
  PROVE  Shown(ft, base, text, n)'
<1>1. memory' = memory
  BY DEF Rival
<1>2. PICK s \in Rivals[g] :
        /\ state' = [state EXCEPT ![g] = s]
        /\ IF s = "NONE" THEN Resize(g, 0) ELSE UNCHANGED <<size, store, table, outgoing>>
  BY DEF Rival
<1>3. s \in {"NONE", "COMMITED"}
  BY RivalsAssumption
<1>4. state \in [FileTags -> States]
  BY Typed
<1>5. g # ft /\ state'[ft] = state[ft]
  BY <1>2, <1>3, <1>4 DEF Open
<1>6. Shown(ft, base, text, n)
  BY <1>5 DEF Open
<1>7. ASSUME NEW p \in Nat, NEW o \in Offsets, NEW x, Byte(ft, p, o, x) PROVE Byte(ft, p, o, x)'
  <2>1. CASE Resize(g, 0)
    <3>1. 0 \in 0 .. PagesOf[g]
      BY SizesAssumption
    <3> QED  BY <1>1, <1>4, <1>5, <1>7, <2>1, <3>1, ResizeShows
  <2>2. CASE UNCHANGED <<size, store, table, outgoing>>
    BY <1>1, <1>7, <2>2, RestShows
  <2> QED  BY <1>2, <2>1, <2>2
<1>8. \A b \in Entries' : b.ft = ft => Safe(b) \/ \E d \in Entries : Heir(b, d)
  BY <1>5, RivalSlots DEF SameSlot
<1> QED  BY <1>6, <1>7, <1>8, ShownStays

LEMMA RivalPlaced ==
  ASSUME Inv, NEW g \in FileTags, Rival(g), NEW w \in Instruction, NEW n, Placed(w, n)
  PROVE  Placed(w, n)'
<1>1. hubo_error' = hubo_error
  BY DEF Rival
<1>2. w.ft \in FileTags
  BY InstructionFields
<1> QED  BY <1>1, <1>2, RivalShown DEF Placed

(* What is seen stays in memory, or gets to the Storage, and is fetched from   *)
(* there.                                                                      *)
LEMMA PagesShown ==
  ASSUME Inv, Miss \/ WriteBack \/ Fault, NEW w, w = instr, Open(w.ft)',
         NEW base, NEW text, NEW n, Open(w.ft) => Shown(w.ft, base, text, n)
  PROVE  Shown(w.ft, base, text, n)'
<1>1. state' = state
  BY Zenon DEF Miss, WriteBack, Fault, storage
<1>2. Open(w.ft) /\ w.ft \in FileTags
  BY <1>1, Typed, InstructionFields DEF Open
<1>3. Shown(w.ft, base, text, n)
  BY <1>2
<1>4. CASE Miss
  <2>1. Inherits
    BY <1>4, MissInherits
  <2> QED  BY <1>3, <1>4, <2>1, MissShows, ShownStays DEF Inherits
<1>5. CASE WriteBack
  <2>1. Inherits
    BY <1>5, WriteBackInherits
  <2>2. ASSUME NEW p \in Nat, NEW o \in Offsets, NEW x, Byte(w.ft, p, o, x),
               \A e \in Entries : Of(e, w.ft, p) => Safe(e)
        PROVE  Byte(w.ft, p, o, x)'
    <3>1. pc = "writeback" /\ (outgoing[1].modificada => Heard(outgoing[1]))
      BY <1>5, Zenon DEF WriteBack
    <3>2. outgoing[1] \in Entries
      <4>1. outgoing # <<>> /\ 1 \in DOMAIN outgoing
        BY <3>1, Typed DEF InHand
      <4> QED  BY <4>1 DEF Entries
    <3>3. ASSUME Of(outgoing[1], w.ft, p), outgoing[1].modificada PROVE Accepted(w.ft) /\ p < size[w.ft]
      <4>1. state[w.ft] = "WORK_IN_PROGRESS" /\ instr.op # "EVICT"
        BY <1>2, <3>1, Typed DEF Open, InHand
      <4>2. Accepted(outgoing[1].ft)
        BY <3>3, <4>1 DEF Of, Accepted
      <4>3. state[outgoing[1].ft] # "COMMITED"
        BY <3>3, <4>1 DEF Of
      <4>4. outgoing[1].pag < size[outgoing[1].ft]
        BY <3>1, <3>3, <4>1, <4>2, <4>3 DEF Heard
      <4> QED  BY <3>3, <4>2, <4>4 DEF Of
    <3>4. Given(w.ft, p)
      BY <2>2, <3>2, <3>3 DEF Given, Safe
    <3> QED  BY <1>2, <1>5, <2>2, <3>4, WriteBackShows
  <2> QED  BY <1>3, <2>1, <2>2, ShownStays DEF Inherits
<1>6. CASE Fault
  <2>1. \A b \in Entries' : b \in Entries \/ Safe(b)
    BY <1>6, FaultInherits
  <2>2. \A b : Heir(b, b)
    BY DEF Heir, SameSlot
  <2>3. \A p \in Nat : \A o \in Offsets : \A x : Byte(w.ft, p, o, x) => Byte(w.ft, p, o, x)'
    BY <1>2, <1>6, FaultShows
  <2> QED  BY <1>3, <2>1, <2>2, <2>3, ShownStays
<1> QED  BY <1>4, <1>5, <1>6

LEMMA PagesPlaced ==
  ASSUME Inv, Miss \/ WriteBack \/ Fault, NEW w, w = instr, NEW n, Placed(w, n)
  PROVE  Placed(w, n)'
<1>1. ~hubo_error' => ~hubo_error
  BY Zenon DEF Miss, WriteBack, Fault
<1> QED  BY <1>1, PagesShown DEF Placed

LEMMA StepPlaced ==
  ASSUME WithinPages("WRITE"), Inv, PagesKnown, WriteAtHand, [Next]_vars
  PROVE  WriteAtHand'
<1> SUFFICES ASSUME pc' \in {"piece", "writeback", "fault"} PROVE WriteAtHand'
  BY DEF WriteAtHand
<1>1. PICK w : w = instr
  OBVIOUS
<1>2. PICK n : n = done
  OBVIOUS
<1>3. pc \in {"piece", "writeback", "fault"} => Placed(w, n)
  BY <1>1, <1>2 DEF WriteAtHand
<1>4. ASSUME instr' = instr, done' = done, Placed(w, n)' PROVE WriteAtHand'
  BY <1>1, <1>2, <1>4, PlacedThen DEF PlacedIs
<1>5. w \in Instruction /\ BlockSize \in Nat \ {0} /\ n \in Nat
  BY <1>1, <1>2, Typed, SizesAssumption
<1>6. CASE Fetch
  <2>1. PICK v : v = instr'
    OBVIOUS
  <2>2. done' = 0 /\ Placed(v, 0)'
    BY <1>6, NoneShown DEF Fetch
  <2> QED  BY <2>1, <2>2, PlacedThen DEF PlacedIs
<1>7. CASE Miss \/ WriteBack \/ Fault
  <2>1. instr' = instr /\ done' = done /\ pc \in {"piece", "writeback", "fault"}
    BY <1>7, Zenon DEF Miss, WriteBack, Fault
  <2>2. Placed(w, n)'
    BY <1>1, <1>3, <1>7, <2>1, PagesPlaced
  <2> QED  BY <1>4, <2>1, <2>2
<1>8. ASSUME NEW g \in FileTags, Rival(g) PROVE WriteAtHand'
  <2>1. instr' = instr /\ done' = done /\ pc' = pc
    BY <1>8, Zenon DEF Rival
  <2>2. Placed(w, n)'
    BY <1>3, <1>5, <1>8, <2>1, RivalPlaced
  <2> QED  BY <1>4, <2>1, <2>2
<1>9. CASE WritePiece \/ ReadPiece \/ FaultRefused
  <2>1. NextPiece /\ Forgets /\ pc \in {"piece", "fault"}
    BY <1>9, Zenon DEF WritePiece, ReadPiece, Working, FaultRefused
  <2>2. pc' = "piece" /\ done' = done + BlockSize /\ Piece = BlockSize
    BY <2>1, PieceThen DEF Finished
  <2>3. instr' = instr
    BY <2>1, <2>2 DEF Forgets
  <2>4. PICK l : l = n + BlockSize
    OBVIOUS
  <2>5. l \in Nat /\ done' = l /\ l = n + Piece
    BY <1>2, <1>5, <2>2, <2>4
  <2>6. Placed(w, n)
    BY <1>3, <2>1
  <2>7. \E j \in Nat : l = j * BlockSize
    BY <1>5, <2>4, <2>6, NextPlace DEF Placed
  <2>8. ASSUME WritePiece, w.op = "WRITE", Open(w.ft)', ~hubo_error' PROVE Shown(w.ft, w.base, w.text, l)'
    <3>1. state' = state /\ hubo_error' = hubo_error
      BY <2>8, Zenon DEF WritePiece, storage
    <3>2. Shown(w.ft, w.base, w.text, n)
      BY <2>6, <2>8, <3>1 DEF Placed, Open
    <3>3. PICK j \in Nat : n = j * BlockSize
      BY <2>6 DEF Placed
    <3> QED  BY <1>1, <1>2, <1>5, <2>5, <2>8, <3>2, <3>3, PieceShown
  <2>9. WritePiece \/ w.op # "WRITE" \/ hubo_error'
    BY <1>1, <1>9 DEF ReadPiece, Working, FaultRefused
  <2>10. Placed(w, l)'
    BY <2>7, <2>8, <2>9 DEF Placed
  <2> QED  BY <1>1, <2>3, <2>5, <2>10, PlacedThen DEF PlacedIs
<1>10. CASE UNCHANGED vars
  <2>1. /\ instr' = instr /\ done' = done /\ pc' = pc /\ state' = state /\ hubo_error' = hubo_error
        /\ UNCHANGED <<memory, table, outgoing, store>>
    BY <1>10 DEF vars
  <2>2. Placed(w, n)
    BY <1>3, <2>1
  <2>3. Inherits
    BY <2>1, RestInherits
  <2>4. \A p, o, x : Byte(w.ft, p, o, x) => Byte(w.ft, p, o, x)'
    BY <2>1, RestShows
  <2>5. Shown(w.ft, w.base, w.text, n) => Shown(w.ft, w.base, w.text, n)'
    BY <2>3, <2>4, ShownStays DEF Inherits
  <2>6. Placed(w, n)'
    BY <2>1, <2>2, <2>5 DEF Placed, Open
  <2> QED  BY <1>4, <2>1, <2>6
<1>11. CASE NewQuery \/ Evict \/ SendRead \/ WriteBackUnheard \/ FaultUnheard \/ FlushedAll
            \/ FlushUnheard \/ Commit \/ Create \/ Truncate \/ Delete \/ Refused
  BY <1>11 DEF NewQuery, Evict, SendRead, WriteBackUnheard, FaultUnheard, FlushedAll, FlushNext,
     FlushUnheard, Commit, Create, Truncate, Delete, Refused
<1>12. CASE FlushPage
  <2>1. FlushNext \/ pc' = pc
    BY <1>12, Zenon DEF FlushPage
  <2>2. pc = "flush"
    BY <1>12, Zenon DEF FlushPage
  <2> QED  BY <2>1, <2>2 DEF FlushNext
<1> QED
  BY <1>6, <1>7, <1>8, <1>9, <1>10, <1>11, <1>12, Zenon DEF Next, Interpret

LEMMA AlwaysPlaced == ASSUME WithinPages("WRITE") PROVE Spec => []WriteAtHand
<1>1. Init => WriteAtHand
  BY DEF Init, WriteAtHand
<1>2. Inv /\ PagesKnown /\ WriteAtHand /\ [Next]_vars => WriteAtHand'
  BY StepPlaced
<1> QED  BY <1>1, <1>2, AlwaysInv, AlwaysPagesKnown, PTL DEF Spec

(* Only the last piece, with its page in memory, ends a WRITE well. *)
LEMMA WriteEnds ==
  ASSUME WithinPages("WRITE"), Inv, PagesKnown, FlushAtHand, WriteAtHand, [Next]_vars,
         NEW w, w = instr, Ends("WRITE", w.ft), Open(w.ft)
  PROVE  Shown(w.ft, w.base, w.text, w.tam)'
<1>1. /\ instr.op = "WRITE" /\ pc # "idle" /\ pc' = "idle" /\ ~hubo_error'
  BY DEF Ends
<1>2. pc \in {"piece", "writeback", "fault", "stuck"}
  BY <1>1, Typed DEF FlushAtHand, TypeOK, Remote
<1>3. WritePiece
  <2>1. \/ WritePiece \/ ReadPiece \/ Miss \/ WriteBack \/ WriteBackUnheard \/ Fault
        \/ FaultRefused \/ FaultUnheard \/ (\E g \in FileTags : Rival(g)) \/ UNCHANGED vars
    BY <1>1, <1>2, Zenon DEF Next, Interpret, Fetch, NewQuery, Evict, SendRead, FlushedAll,
       FlushPage, FlushUnheard, Commit, Create, Truncate, Delete, Refused
  <2>2. ~ReadPiece /\ ~Miss /\ ~WriteBack /\ ~WriteBackUnheard /\ ~Fault /\ ~FaultUnheard
    BY <1>1 DEF ReadPiece, Working, Miss, WriteBack, WriteBackUnheard, Fault, FaultUnheard
  <2>3. ~FaultRefused /\ ~(\E g \in FileTags : Rival(g)) /\ ~UNCHANGED vars
    BY <1>1 DEF FaultRefused, Rival, vars
  <2> QED  BY <2>1, <2>2, <2>3
<1>4. /\ pc = "piece" /\ NextPiece /\ state' = state /\ hubo_error' = hubo_error
  BY <1>3, Zenon DEF WritePiece, Working, storage
<1>5. done + Piece = instr.tam
  BY <1>1, <1>4, PieceThen
<1>6. PICK n : n = done
  OBVIOUS
<1>7. Shown(w.ft, w.base, w.text, n) /\ \E j \in Nat : n = j * BlockSize
  BY <1>1, <1>4, <1>6 DEF WriteAtHand, Placed
<1>8. n \in Nat /\ w.tam \in Nat /\ w.tam = n + Piece
  BY <1>4, <1>5, <1>6, PieceNow, Typed
<1> QED  BY <1>3, <1>6, <1>7, <1>8, PieceShown

LEMMA WithinView ==
  ASSUME NEW k \in Nat, NEW b \in Nat \ {0}, NEW p \in 0 .. k - 1, NEW o \in 0 .. b - 1
  PROVE  p * b + o \in 0 .. k * b - 1
<1>1. (p + 1) * b <= k * b
  OBVIOUS
<1>2. (p + 1) * b = p * b + b /\ p * b \in Nat /\ k * b \in Nat
  OBVIOUS
<1> QED  BY <1>1, <1>2

(* A WRITE that ends without error has written all of its text, whatever was   *)
(* replaced to make room for its pages and whatever the other Workers did,     *)
(* if it does not go on past the end of a page in the middle of a piece        *)
(* (ejecutar_instruccion's loop over the pieces, realizar_escritura).          *)
THEOREM WholeWrites == ASSUME WithinPages("WRITE") PROVE Spec => WriteStoresAll
<1>1. ASSUME Inv, Inv', PagesKnown, FlushAtHand, WriteAtHand, [Next]_vars
      PROVE  [\A ft \in FileTags : Ends("WRITE", ft) /\ Open(ft) =>
                \A k \in 1 .. instr.tam : View(ft)'[instr.base + k - 1] = instr.text[k]]_vars
  <2> SUFFICES ASSUME NEW ft \in FileTags, Ends("WRITE", ft), Open(ft), NEW k \in 1 .. instr.tam
               PROVE  View(ft)'[instr.base + k - 1] = instr.text[k]
    OBVIOUS
  <2>1. PICK w : w = instr
    OBVIOUS
  <2>2. w.ft = ft /\ w.base \in Nat /\ w.tam \in Nat
    BY <1>1, <2>1, Typed, InstructionFields DEF Ends
  <2>3. Shown(w.ft, w.base, w.text, w.tam)'
    BY <1>1, <2>1, <2>2, WriteEnds
  <2> DEFINE a == w.base + (k - 1)
             p == a \div BlockSize
             o == a % BlockSize
  <2>4. a \in Nat /\ k - 1 \in 0 .. w.tam - 1 /\ (k - 1) + 1 = k
    BY <2>1, <2>2
  <2> HIDE DEF a
  <2>5. p \in Nat /\ o \in 0 .. BlockSize - 1 /\ a = p * BlockSize + o
    BY <2>4, Divided, SizesAssumption
  <2> HIDE DEF p, o
  <2>6. p \in Pages(ft) /\ Byte(ft, p, o, w.text[k])'
    <3>1. w.base + (k - 1) = p * BlockSize + o /\ o \in Offsets
      BY <2>5 DEF a, Offsets
    <3> QED  BY <2>2, <2>3, <2>4, <2>5, <3>1 DEF Shown, Pages, Offsets
  <2>7. a \in DOMAIN View(ft)'
    <3>1. PagesOf[ft] \in Nat /\ BlockSize \in Nat \ {0} /\ p \in 0 .. PagesOf[ft] - 1
      BY <2>6, SizesAssumption DEF Pages
    <3>2. a \in 0 .. PagesOf[ft] * BlockSize - 1
      BY <2>5, <3>1, WithinView
    <3> QED  BY <3>2 DEF View
  <2>8. \A x : Byte(ft, a \div BlockSize, a % BlockSize, x)' <=> x = View(ft)'[a]
    BY <1>1, <2>7, ViewShowsNext DEF Shows
  <2>9. w.text[k] = View(ft)'[a]
    BY <2>6, <2>8 DEF p, o
  <2>10. instr.base + k - 1 = a
    BY <2>1, <2>2 DEF a
  <2> QED  BY <2>1, <2>9, <2>10
<1> QED
  BY <1>1, AlwaysInv, AlwaysPagesKnown, AlwaysAtHand, AlwaysPlaced, PTL DEF Spec, WriteStoresAll

-----------------------------------------------------------------------------
(* What a READ has read *)

(* The bytes that were read, but for those of stale pages, are still what is   *)
(* seen where they were read.                                                 *)
Got(ft, base, l, n) ==
  /\ Len(l) = n
  /\ \A k \in 1 .. n : ~l[k].stale => Shown(ft, base + k - 1, <<l[k].byte>>, 1)
Readings(w, l, n) == w.op = "READ" /\ Open(w.ft) => Got(w.ft, w.base, l, n)

(* The pieces before the one at hand are read, or all of them are.             *)
ReadAtHand ==
  /\ pc \in {"piece", "writeback", "fault"} =>
       (\E j \in Nat : done = j * BlockSize) /\ Readings(instr, leido, done)
  /\ pc = "send" => instr.op = "READ" /\ Readings(instr, leido, instr.tam)

ReadIs ==
  \A w, l, n : w = instr /\ l = leido /\ Readings(w, l, n) =>
    /\ pc \in {"piece", "writeback", "fault"} /\ n = done /\ (\E j \in Nat : n = j * BlockSize) =>
         ReadAtHand
    /\ pc = "send" /\ n = w.tam /\ w.op = "READ" => ReadAtHand

LEMMA ReadThen == ReadIs'
<1>1. ReadIs
  BY DEF ReadIs, ReadAtHand
<1> QED  BY <1>1, PTL

(* What was read stays so when what is seen does. *)
LEMMA GotStays ==
  ASSUME NEW ft, NEW base, NEW l, NEW n, Got(ft, base, l, n),
         \A b, text : Shown(ft, b, text, 1) => Shown(ft, b, text, 1)'
  PROVE  Got(ft, base, l, n)'
  BY DEF Got

(* The bytes of a piece are those of its page, as it is seen. *)
LEMMA PieceRead ==
  ASSUME WithinPages("READ"), Inv, PagesKnown, ReadPiece, NEW w, w = instr,
         NEW n \in Nat, n = done, NEW j \in Nat, n = j * BlockSize,
         NEW l, l = leido', NEW m \in Nat, m = n + Piece, Got(w.ft, w.base, leido, n)
  PROVE  Got(w.ft, w.base, l, m)'
<1> DEFINE i == IndexOf(instr.ft, Page)
<1>1. /\ pc = "piece" /\ instr.op = "READ" /\ Cached(instr.ft, Page)
      /\ \E bytes \in [1 .. Piece -> Bytes] :
           /\ \A k \in 1 .. Piece : table[i].marco * BlockSize + Offset + k - 1 \in Addresses =>
                bytes[k] = memory[table[i].marco * BlockSize + Offset + k - 1]
           /\ leido' = leido \o ReadBytes(bytes, i)
  BY Zenon DEF ReadPiece, Working, ReadBytes
<1>2. PICK bytes \in [1 .. Piece -> Bytes] :
        /\ \A k \in 1 .. Piece : table[i].marco * BlockSize + Offset + k - 1 \in Addresses =>
             bytes[k] = memory[table[i].marco * BlockSize + Offset + k - 1]
        /\ leido' = leido \o ReadBytes(bytes, i)
  BY <1>1
<1>3. /\ i \in DOMAIN table /\ table[i] \in Entry /\ table[i].marco \in Frames
      /\ table[i].ft = instr.ft /\ table[i].pag = Page
  BY <1>1, PieceEntry
<1> HIDE DEF i
<1>4. PICK d : d = table[i]
  OBVIOUS
<1>5. /\ w.base \in Nat /\ Page \in Nat /\ Offset \in Offsets /\ Piece \in 1 .. BlockSize
      /\ w.base + n = Page * BlockSize + Offset /\ Offset + Piece <= BlockSize
      /\ BlockSize \in Nat \ {0}
  <2>1. instr.base \in Nat /\ Address = Page * BlockSize + Offset
        /\ Page \in Nat /\ Offset \in Offsets /\ Piece \in 1 .. BlockSize
    BY <1>1, PieceNow
  <2>2. Offset + Piece <= BlockSize
    BY <1>1, PieceFits
  <2>3. w.base + n = Page * BlockSize + Offset
    BY <2>1 DEF Address
  <2> QED  BY <2>1, <2>2, <2>3, SizesAssumption
<1>6. /\ Len(l) = m
      /\ \A k \in 1 .. n : l[k] = leido[k]
      /\ \A k \in 1 .. Piece : l[n + k].byte = bytes[k] /\ l[n + k].stale = d.stale
  <2>1. Len(leido) = n
    BY DEF Got
  <2>2. /\ Len(leido') = Len(leido) + Piece
        /\ \A k \in 1 .. Len(leido) : leido'[k] = leido[k]
        /\ \A k \in 1 .. Piece : leido'[Len(leido) + k].byte = bytes[k]
                                 /\ leido'[Len(leido) + k].stale = table[i].stale
    BY <1>1, <1>2, <1>3, ReadBytesAre
  <2>3. l = leido'
    OBVIOUS
  <2> QED  BY <1>4, <2>1, <2>2, <2>3
<1>7. d \in Entries /\ Of(d, w.ft, Page) /\ Page \in Pages(w.ft)
      /\ \A e \in Entries : Of(e, w.ft, Page) => e = d
  <2>1. d \in Entries /\ Of(d, w.ft, Page)
    BY <1>3, <1>4 DEF Entries, Of
  <2>2. outgoing = <<>>
    BY <1>1, Typed DEF InHand
  <2>3. \A e \in Entries : \E k \in DOMAIN table : e = table[k]
    BY <2>2 DEF Entries
  <2>4. \A k \in DOMAIN table : k # i => ~Of(table[k], w.ft, Page)
    BY <1>3, Typed DEF TableApart, Distinct, Apart, Of
  <2>5. Page \in Pages(w.ft)
    BY <1>1, <2>1 DEF PagesKnown, Of
  <2> QED  BY <1>4, <2>1, <2>3, <2>4, <2>5
<1>8. ASSUME NEW k \in 1 .. Piece, ~d.stale
      PROVE  Shown(w.ft, w.base + (n + k) - 1, <<bytes[k]>>, 1)
  <2>1. PICK c : c = d.marco * BlockSize
    OBVIOUS
  <2>2. Offset + (k - 1) \in Offsets /\ w.base + (n + k) - 1 = Page * BlockSize + (Offset + (k - 1))
    BY <1>5 DEF Offsets
  <2>3. d.marco * BlockSize + (Offset + (k - 1)) \in Addresses
        /\ d.marco * BlockSize + Offset + k - 1 = d.marco * BlockSize + (Offset + (k - 1))
    <3>1. d.marco \in 0 .. NFrames - 1 /\ NFrames \in Nat /\ d.marco * BlockSize \in Nat
      BY <1>3, <1>4, <1>5, SizesAssumption DEF Frames
    <3>2. d.marco * BlockSize + (Offset + (k - 1)) \in 0 .. NFrames * BlockSize - 1
      BY <1>5, <2>2, <3>1, WithinView DEF Offsets
    <3> QED  BY <1>5, <3>1, <3>2 DEF Addresses, Offsets
  <2>4. bytes[k] = Contents(d.marco)[Offset + (k - 1)]
    BY <1>2, <1>4, <2>2, <2>3 DEF Contents
  <2>5. Byte(w.ft, Page, Offset + (k - 1), bytes[k])
    BY <1>7, <2>4 DEF Byte
  <2>6. ASSUME NEW p \in Nat, NEW o \in Offsets, w.base + (n + k) - 1 + 0 = p * BlockSize + o
        PROVE  p = Page /\ o = Offset + (k - 1)
    <3>0. w.base + (n + k) - 1 \in Nat
      BY <1>5
    <3>1. Page * BlockSize + (Offset + (k - 1)) = p * BlockSize + o
      BY <2>2, <2>6, <3>0
    <3>2. Offset + (k - 1) \in 0 .. BlockSize - 1 /\ o \in 0 .. BlockSize - 1
      BY <2>2 DEF Offsets
    <3> QED  BY <1>5, <3>1, <3>2, DividedOnce
  <2>7. \A e \in Entries : Of(e, w.ft, Page) => Safe(e)
    BY <1>7, <1>8 DEF Safe
  <2>8. 0 .. 1 - 1 = {0} /\ <<bytes[k]>>[0 + 1] = bytes[k]
    OBVIOUS
  <2> QED  BY <1>7, <2>5, <2>6, <2>7, <2>8 DEF Shown
<1>9. ASSUME NEW k \in 1 .. m, ~l[k].stale
      PROVE  Shown(w.ft, w.base + k - 1, <<l[k].byte>>, 1)
  <2>1. CASE k <= n
    <3>1. k \in 1 .. n /\ l[k] = leido[k]
      BY <1>6, <2>1
    <3> QED  BY <1>9, <3>1 DEF Got
  <2>2. CASE k > n
    <3>1. PICK z \in 1 .. Piece : k = n + z
      BY <1>5, <2>2
    <3> QED  BY <1>6, <1>8, <1>9, <3>1
  <2> QED  BY <2>1, <2>2
<1>10. ASSUME NEW b, NEW text, Shown(w.ft, b, text, 1) PROVE Shown(w.ft, b, text, 1)'
  <2>1. \A p \in Nat : \A o \in Offsets : \A x : Byte(w.ft, p, o, x) => Byte(w.ft, p, o, x)'
    BY ReadShows
  <2>2. Inherits
    BY ReadInherits
  <2> QED  BY <1>10, <2>1, <2>2, ShownStays DEF Inherits
<1>11. Got(w.ft, w.base, l, m)
  BY <1>6, <1>9 DEF Got
<1> QED  BY <1>10, <1>11, GotStays

(* The steps of a READ between its pieces. *)
LEMMA ReadWaits ==
  ASSUME Inv, (Miss \/ WriteBack \/ Fault) \/ (\E g \in FileTags : Rival(g)) \/ UNCHANGED vars,
         NEW w, w = instr, NEW l, NEW n, Readings(w, l, n)
  PROVE  Readings(w, l, n)'
<1> SUFFICES ASSUME w.op = "READ", Open(w.ft)' PROVE Got(w.ft, w.base, l, n)'
  BY DEF Readings
<1>1. w.ft \in FileTags
  BY Typed, InstructionFields
<1>2. Open(w.ft)
  <2>1. CASE Miss \/ WriteBack \/ Fault
    BY <2>1, Zenon DEF Miss, WriteBack, Fault, storage, Open
  <2>2. ASSUME NEW g \in FileTags, Rival(g) PROVE Open(w.ft)
    <3>1. PICK s \in Rivals[g] : state' = [state EXCEPT ![g] = s]
      BY <2>2, Zenon DEF Rival
    <3>2. s # "WORK_IN_PROGRESS"
      BY RivalsAssumption
    <3> QED  BY <1>1, <3>1, <3>2, Typed DEF Open
  <2>3. CASE UNCHANGED vars
    BY <2>3 DEF vars, Open
  <2> QED  BY <2>1, <2>2, <2>3
<1>3. Got(w.ft, w.base, l, n)
  BY <1>2 DEF Readings
<1>4. ASSUME NEW b, NEW text, Shown(w.ft, b, text, 1) PROVE Shown(w.ft, b, text, 1)'
  <2>1. CASE Miss \/ WriteBack \/ Fault
    BY <1>4, <2>1, PagesShown
  <2>2. ASSUME NEW g \in FileTags, Rival(g) PROVE Shown(w.ft, b, text, 1)'
    BY <1>1, <1>4, <2>2, RivalShown
  <2>3. CASE UNCHANGED vars
    <3>1. UNCHANGED <<memory, table, outgoing, store>>
      BY <2>3 DEF vars
    <3>2. Inherits
      BY <3>1, RestInherits
    <3>3. \A p, o, x : Byte(w.ft, p, o, x) => Byte(w.ft, p, o, x)'
      BY <3>1, RestShows
    <3> QED  BY <1>4, <3>2, <3>3, ShownStays DEF Inherits
  <2> QED  BY <2>1, <2>2, <2>3
<1> QED  BY <1>3, <1>4, GotStays

LEMMA PieceAtHand ==
  ASSUME WithinPages("READ"), Inv, PagesKnown, ReadAtHand, ReadPiece
  PROVE  ReadAtHand'
<1>1. PICK w : w = instr
  OBVIOUS
<1>2. PICK n : n = done
  OBVIOUS
<1>3. PICK l : l = leido'
  OBVIOUS
<1>4. pc = "piece" /\ instr.op = "READ" /\ NextPiece /\ Forgets /\ state' = state
  BY Zenon DEF ReadPiece, Working, storage
<1>5. /\ n \in Nat /\ Piece \in Nat /\ BlockSize \in Nat \ {0} /\ (\E j \in Nat : n = j * BlockSize)
      /\ Readings(w, leido, n)
  BY <1>1, <1>2, <1>4, PieceNow, Typed, SizesAssumption DEF ReadAtHand
<1>6. PICK m \in Nat : m = n + Piece
  BY <1>5
<1>7. Readings(w, l, m)'
  <2> SUFFICES ASSUME Open(w.ft)' PROVE Got(w.ft, w.base, l, m)'
    BY DEF Readings
  <2>1. Got(w.ft, w.base, leido, n)
    BY <1>1, <1>4, <1>5 DEF Readings, Open
  <2> QED  BY <1>1, <1>2, <1>3, <1>5, <1>6, <2>1, PieceRead
<1>8. CASE pc' = "piece" /\ done' = done + BlockSize /\ Piece = BlockSize
  <2>1. instr' = w /\ done' = m
    BY <1>1, <1>2, <1>4, <1>6, <1>8 DEF Forgets
  <2>2. \E j \in Nat : m = j * BlockSize
    BY <1>5, <1>6, <1>8, NextPlace
  <2> QED  BY <1>3, <1>7, <1>8, <2>1, <2>2, ReadThen DEF ReadIs
<1>9. CASE pc' = "send" /\ done + Piece = instr.tam
  <2>1. instr' = w /\ w.tam = m
    BY <1>1, <1>2, <1>4, <1>6, <1>9 DEF Forgets
  <2> QED  BY <1>1, <1>3, <1>4, <1>7, <1>9, <2>1, ReadThen DEF ReadIs
<1> QED  BY <1>4, <1>8, <1>9, PieceThen DEF Finished

LEMMA StepRead ==
  ASSUME WithinPages("READ"), Inv, PagesKnown, ReadAtHand, [Next]_vars
  PROVE  ReadAtHand'
<1>1. CASE ReadPiece
  BY <1>1, PieceAtHand
<1>2. CASE (Miss \/ WriteBack \/ Fault) \/ (\E g \in FileTags : Rival(g)) \/ UNCHANGED vars
  <2>1. PICK w : w = instr
    OBVIOUS
  <2>2. PICK n : n = done
    OBVIOUS
  <2>3. PICK l : l = leido
    OBVIOUS
  <2>4. instr' = w /\ done' = n /\ leido' = l
    <3>1. CASE Miss \/ WriteBack \/ Fault
      BY <2>1, <2>2, <2>3, <3>1, Zenon DEF Miss, WriteBack, Fault
    <3>2. CASE \E g \in FileTags : Rival(g)
      BY <2>1, <2>2, <2>3, <3>2, Zenon DEF Rival
    <3>3. CASE UNCHANGED vars
      BY <2>1, <2>2, <2>3, <3>3 DEF vars
    <3> QED  BY <1>2, <3>1, <3>2, <3>3
  <2>5. \/ pc' = pc
        \/ pc \in {"piece", "writeback", "fault"} /\ pc' \in {"piece", "writeback", "fault"}
    <3>1. CASE Miss \/ WriteBack \/ Fault
      BY <3>1, Zenon DEF Miss, WriteBack, Fault
    <3>2. CASE \E g \in FileTags : Rival(g)
      BY <3>2, Zenon DEF Rival
    <3>3. CASE UNCHANGED vars
      BY <3>3 DEF vars
    <3> QED  BY <1>2, <3>1, <3>2, <3>3
  <2>6. CASE pc \in {"piece", "writeback", "fault"}
    <3>1. Readings(w, l, n) /\ \E j \in Nat : n = j * BlockSize
      BY <2>1, <2>2, <2>3, <2>6 DEF ReadAtHand
    <3>2. Readings(w, l, n)'
      BY <1>2, <2>1, <3>1, ReadWaits
    <3> QED  BY <2>4, <2>5, <2>6, <3>1, <3>2, ReadThen DEF ReadIs
  <2>7. CASE pc = "send"
    <3>1. PICK m : m = w.tam
      OBVIOUS
    <3>2. Readings(w, l, m) /\ w.op = "READ"
      BY <2>1, <2>3, <2>7, <3>1 DEF ReadAtHand
    <3>3. Readings(w, l, m)'
      BY <1>2, <2>1, <3>2, ReadWaits
    <3> QED  BY <2>4, <2>5, <2>7, <3>1, <3>2, <3>3, ReadThen DEF ReadIs
  <2>8. CASE pc \notin {"piece", "writeback", "fault", "send"}
    BY <2>5, <2>8 DEF ReadAtHand
  <2> QED  BY <2>6, <2>7, <2>8
<1>3. CASE Fetch
  <2>1. PICK w : w = instr'
    OBVIOUS
  <2>2. done' = 0 /\ leido' = <<>> /\ pc' # "send"
    BY <1>3, Typed DEF Fetch
  <2>3. Readings(w, <<>>, 0)' /\ 0 = 0 * BlockSize
    <3>1. 1 .. 0 = {} /\ Len(<<>>) = 0 /\ 0 = 0 * BlockSize
      BY SizesAssumption
    <3> QED  BY <3>1 DEF Readings, Got
  <2>4. pc' \notin {"piece", "writeback", "fault"} => ReadAtHand'
    BY <2>2 DEF ReadAtHand
  <2> QED  BY <2>1, <2>2, <2>3, <2>4, ReadThen DEF ReadIs
<1>4. CASE WritePiece \/ FaultRefused
  <2>1. PICK w : w = instr
    OBVIOUS
  <2>2. pc = "piece" \/ pc = "fault"
    BY <1>4, Zenon DEF WritePiece, Working, FaultRefused
  <2>3. Forgets
    BY <1>4, Zenon DEF WritePiece, FaultRefused
  <2>4. instr.op = "WRITE" => NextPiece
    BY <1>4, Zenon DEF WritePiece, FaultRefused
  <2>5. instr.op # "WRITE" => pc' = "idle"
    BY <1>4, Zenon DEF WritePiece, Working, FaultRefused
  <2>6. instr.op = "WRITE" => \/ pc' = "piece" /\ done' = done + BlockSize
                              \/ pc' = "idle"
    BY <2>2, <2>4, PieceThen DEF Finished
  <2>7. CASE pc' = "idle"
    BY <2>7 DEF ReadAtHand
  <2>8. CASE instr.op = "WRITE" /\ pc' = "piece" /\ done' = done + BlockSize
    <3>1. instr' = w /\ w.op = "WRITE"
      BY <2>1, <2>3, <2>8 DEF Forgets
    <3>2. \E j \in Nat : done' = j * BlockSize
      <4>1. \E j \in Nat : done = j * BlockSize
        BY <2>2 DEF ReadAtHand
      <4> QED  BY <2>8, <4>1, NextPlace, SizesAssumption
    <3>3. PICK l : l = leido'
      OBVIOUS
    <3>4. PICK n : n = done'
      OBVIOUS
    <3>5. Readings(w, l, n)'
      BY <3>1 DEF Readings
    <3> QED  BY <2>8, <3>1, <3>2, <3>3, <3>4, <3>5, ReadThen DEF ReadIs
  <2> QED  BY <2>5, <2>6, <2>7, <2>8
<1>5. CASE NewQuery \/ Evict \/ SendRead \/ WriteBackUnheard \/ FaultUnheard \/ FlushedAll
           \/ FlushUnheard \/ Commit \/ Create \/ Truncate \/ Delete \/ Refused
  <2>1. pc' \notin {"piece", "writeback", "fault", "send"}
    BY <1>5 DEF NewQuery, Evict, SendRead, WriteBackUnheard, FaultUnheard, FlushedAll, FlushNext,
       FlushUnheard, Commit, Create, Truncate, Delete, Refused
  <2> QED  BY <2>1 DEF ReadAtHand
<1>6. CASE FlushPage
  <2>1. FlushNext \/ pc' = pc
    BY <1>6, Zenon DEF FlushPage
  <2>2. pc = "flush"
    BY <1>6, Zenon DEF FlushPage
  <2>3. pc' \notin {"piece", "writeback", "fault", "send"}
    BY <2>1, <2>2 DEF FlushNext
  <2> QED  BY <2>3 DEF ReadAtHand
<1> QED
  BY <1>1, <1>2, <1>3, <1>4, <1>5, <1>6, Zenon DEF Next, Interpret

LEMMA AlwaysRead == ASSUME WithinPages("READ") PROVE Spec => []ReadAtHand
<1>1. Init => ReadAtHand
  BY DEF Init, ReadAtHand
<1>2. Inv /\ PagesKnown /\ ReadAtHand /\ [Next]_vars => ReadAtHand'
  BY StepRead
<1> QED  BY <1>1, <1>2, AlwaysInv, AlwaysPagesKnown, PTL DEF Spec

(* The byte that is seen where one was read. *)
LEMMA SeenByte ==
  ASSUME Inv, NEW ft \in FileTags, NEW a \in Nat, NEW x, Shown(ft, a, <<x>>, 1)
  PROVE  x = View(ft)[a]
<1> DEFINE p == a \div BlockSize
           o == a % BlockSize
<1>1. p \in Nat /\ o \in 0 .. BlockSize - 1 /\ a = p * BlockSize + o /\ BlockSize \in Nat \ {0}
  BY Divided, SizesAssumption
<1> HIDE DEF p, o
<1>2. p \in Pages(ft) /\ Byte(ft, p, o, x)
  <2>1. 0 \in 0 .. 1 - 1 /\ a + 0 = p * BlockSize + o /\ o \in Offsets /\ <<x>>[0 + 1] = x
    BY <1>1 DEF Offsets
  <2> QED  BY <1>1, <2>1 DEF Shown
<1>3. a \in DOMAIN View(ft)
  <2>1. PagesOf[ft] \in Nat /\ p \in 0 .. PagesOf[ft] - 1
    BY <1>2, SizesAssumption DEF Pages
  <2>2. a \in 0 .. PagesOf[ft] * BlockSize - 1
    BY <1>1, <2>1, WithinView
  <2> QED  BY <2>2 DEF View
<1> QED  BY <1>2, <1>3, ViewShows DEF Shows, p, o

(* What a READ sends to the Master is as long as it was asked for, and what    *)
(* the File:Tag has, whatever was replaced to make room for its pages and      *)
(* whatever the other Workers did, but for the bytes it read in stale pages,   *)
(* if it does not go on past the end of a page in the middle of a piece        *)
(* (ejecutar_instruccion's loop over the pieces, realizar_lectura).            *)
THEOREM WholeReads == ASSUME WithinPages("READ") PROVE Spec => []ReadReturnsView
<1>1. ASSUME Inv, ReadAtHand PROVE ReadReturnsView
  <2> SUFFICES ASSUME pc = "send", Open(instr.ft)
               PROVE  /\ Len(leido) = instr.tam
                      /\ \A k \in 1 .. instr.tam :
                           ~leido[k].stale => leido[k].byte = View(instr.ft)[instr.base + k - 1]
    BY DEF ReadReturnsView
  <2>1. Got(instr.ft, instr.base, leido, instr.tam)
    BY <1>1 DEF ReadAtHand, Readings
  <2>2. instr.ft \in FileTags /\ instr.base \in Nat /\ instr.tam \in Nat
    BY <1>1, Typed, InstructionFields
  <2>3. ASSUME NEW k \in 1 .. instr.tam, ~leido[k].stale
        PROVE  leido[k].byte = View(instr.ft)[instr.base + k - 1]
    <3>1. Shown(instr.ft, instr.base + k - 1, <<leido[k].byte>>, 1)
      BY <2>1, <2>3 DEF Got
    <3>2. instr.base + k - 1 \in Nat
      BY <2>2
    <3> QED  BY <1>1, <2>2, <3>1, <3>2, SeenByte
  <2> QED  BY <2>1, <2>3 DEF Got
<1> QED  BY <1>1, AlwaysInv, AlwaysRead, PTL

=============================================================================
