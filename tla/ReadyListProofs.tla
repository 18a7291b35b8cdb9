--------------------------- MODULE ReadyListProofs ---------------------------
(***************************************************************************)
(* Proofs about ReadyList, for any number of PCBs: the links from          *)
(* ready_head never form a loop, and the list they form is a queue.        *)
(***************************************************************************)
EXTENDS ReadyList, FiniteSetTheorems, LeastNumbers, TLAPS

-----------------------------------------------------------------------------
(* Chains of links.                                                        *)

(* Represents, for a head h and links nx; and who is in a list. *)
Links(s, nx) == \A i \in 1 .. Len(s) : nx[s[i]] = IF i = Len(s) THEN Null ELSE s[i + 1]
Chain(s, h, nx) ==
  /\ s \in Seq(Procs) /\ nx \in [Procs -> Procs \cup {Null}]
  /\ h = IF Len(s) = 0 THEN Null ELSE s[1]
  /\ Links(s, nx)
On(s, x) == \E i \in 1 .. Len(s) : s[i] = x

(* Nobody is in a chain twice: the links behind the second place would have to end
   where those behind the first go on. *)
LEMMA ChainIsDistinct ==
  ASSUME NEW s, NEW h, NEW nx, Chain(s, h, nx), NEW i \in 1 .. Len(s), NEW j \in 1 .. Len(s), s[i] = s[j]
  PROVE  i = j
<1> DEFINE Twice(a, b) == a \in 1 .. Len(s) /\ b \in 1 .. Len(s) /\ a < b /\ s[a] = s[b]
           S == {k \in Nat : \E a, b \in 1 .. Len(s) : Twice(a, b) /\ k = Len(s) - b}
<1>1. s \in Seq(Procs) /\ Len(s) \in Nat
  BY DEF Chain
<1>2. ASSUME NEW a \in 1 .. Len(s), NEW b \in 1 .. Len(s), Twice(a, b)
      PROVE  b < Len(s) /\ Twice(a + 1, b + 1)
  <2>1. nx[s[a]] = s[a + 1] /\ nx[s[b]] = IF b = Len(s) THEN Null ELSE s[b + 1]
    BY <1>1, <1>2 DEF Chain, Links
  <2>2. s[a + 1] \in Procs
    BY <1>1, <1>2
  <2>3. b # Len(s)
    BY <1>2, <2>1, <2>2, ListAssumption
  <2> QED
    BY <1>1, <1>2, <2>1, <2>3
<1>3. S = {}
  <2> SUFFICES ASSUME S # {}
               PROVE  FALSE
    OBVIOUS
  <2>1. PICK k \in S : \A m \in S : k <= m
    BY LeastNatural, Zenon
  <2>2. PICK a \in 1 .. Len(s), b \in 1 .. Len(s) : Twice(a, b) /\ k = Len(s) - b
    BY <2>1
  <2>3. b < Len(s) /\ Twice(a + 1, b + 1)
    BY SMTT(30), <1>2, <2>2
  <2>4. PICK a1, b1, k1 : a1 = a + 1 /\ b1 = b + 1 /\ k1 = Len(s) - b1
    OBVIOUS
  <2>5. Twice(a1, b1) /\ k1 \in Nat /\ k1 < k
    BY <1>1, <2>2, <2>3, <2>4
  <2>6. k1 \in S
    BY <2>4, <2>5, Zenon
  <2> HIDE DEF S
  <2>7. k \in Nat /\ k <= k1
    BY <2>1, <2>6, Zenon DEF S
  <2> QED
    BY <2>5, <2>7
<1>4. ASSUME NEW a \in 1 .. Len(s), NEW b \in 1 .. Len(s), s[a] = s[b]
      PROVE  ~(a < b)
  <2> SUFFICES ASSUME a < b
               PROVE  FALSE
    OBVIOUS
  <2>1. Twice(a, b) /\ Len(s) - b \in Nat
    BY <1>1, <1>4
  <2>2. Len(s) - b \in S
    BY <1>4, <2>1
  <2> QED
    BY <1>3, <2>2, Zenon
<1>5. ~(i < j) /\ ~(j < i)
  BY <1>4
<1> QED
  BY <1>1, <1>5

(* A head and links have one chain. *)
LEMMA ChainAgrees ==
  ASSUME NEW s, NEW t, NEW h, NEW nx, Chain(s, h, nx), Chain(t, h, nx)
  PROVE  Len(s) <= Len(t) /\ \A i \in 1 .. Len(s) : s[i] = t[i]
<1> DEFINE S == {k \in Nat : k \in 1 .. Len(s) /\ (k \in 1 .. Len(t) => s[k] # t[k])}
<1>1. s \in Seq(Procs) /\ Len(s) \in Nat /\ t \in Seq(Procs) /\ Len(t) \in Nat
  BY DEF Chain
<1>2. S = {}
  <2> SUFFICES ASSUME S # {}
               PROVE  FALSE
    OBVIOUS
  <2>1. PICK k \in S : \A m \in S : k <= m
    BY LeastNatural, Zenon
  <2>2. k \in 1 .. Len(s) /\ s[k] \in Procs /\ (k \in 1 .. Len(t) => s[k] # t[k])
    BY <1>1, <2>1
  <2>3. CASE k = 1
    <3>1. s[1] = h /\ Len(t) # 0
      BY <1>1, <2>2, <2>3, ListAssumption DEF Chain
    <3>2. t[1] = h
      BY <3>1 DEF Chain
    <3> QED
      BY <1>1, <2>2, <2>3, <3>1, <3>2
  <2>4. CASE k # 1
    <3>1. k - 1 \in Nat /\ k - 1 \in 1 .. Len(s) /\ k - 1 # Len(s) /\ (k - 1) + 1 = k
      BY <1>1, <2>2, <2>4
    <3>2. k - 1 \in 1 .. Len(t) /\ s[k - 1] = t[k - 1]
      <4>1. k - 1 \notin S
        BY <1>1, <2>1, <2>2, <3>1
      <4> QED
        BY <3>1, <4>1
    <3>3. nx[s[k - 1]] = s[k]
      BY <3>1, Zenon DEF Chain, Links
    <3>4. nx[t[k - 1]] = IF k - 1 = Len(t) THEN Null ELSE t[k]
      BY <3>1, <3>2 DEF Chain, Links
    <3>5. k - 1 # Len(t) /\ s[k] = t[k]
      BY <2>2, <3>2, <3>3, <3>4, ListAssumption
    <3> QED
      BY <1>1, <2>2, <3>1, <3>2, <3>5
  <2> QED
    BY <2>3, <2>4
<1>3. ASSUME NEW k \in 1 .. Len(s)
      PROVE  k \in 1 .. Len(t) /\ s[k] = t[k]
  BY <1>1, <1>2, <1>3
<1>4. Len(s) <= Len(t)
  <2>1. CASE Len(s) = 0
    BY <1>1, <2>1
  <2>2. CASE Len(s) # 0
    <3>1. Len(s) \in 1 .. Len(s)
      BY <1>1, <2>2
    <3> QED
      BY <1>1, <1>3, <3>1
  <2> QED
    BY <2>1, <2>2
<1> QED
  BY <1>3, <1>4

(* From a head, the links lead through one sequence only. *)
LEMMA ChainIsUnique ==
  ASSUME NEW s, NEW t, NEW h, NEW nx, Chain(s, h, nx), Chain(t, h, nx)
  PROVE  s = t
<1>1. /\ Len(s) <= Len(t) /\ \A i \in 1 .. Len(s) : s[i] = t[i]
      /\ Len(t) <= Len(s)
  BY ChainAgrees
<1>2. s \in Seq(Procs) /\ t \in Seq(Procs) /\ Len(s) \in Nat /\ Len(t) \in Nat
  BY DEF Chain
<1>3. Len(s) = Len(t)
  BY <1>1, <1>2
<1> QED
  BY <1>1, <1>2, <1>3

(* A chain is no longer than there are PCBs. *)
LEMMA ChainIsShort ==
  ASSUME NEW s, NEW h, NEW nx, Chain(s, h, nx)
  PROVE  s \in Lists
<1>1. s \in Seq(Procs) /\ Len(s) \in Nat
  BY DEF Chain
<1>2. s \in [1 .. Len(s) -> Procs]
  BY <1>1
<1>3. \A i, j \in 1 .. Len(s) : s[i] = s[j] => i = j
  BY ChainIsDistinct
<1>4. s \in Injection(1 .. Len(s), Procs)
  BY <1>2, <1>3 DEF Injection, IsInjective
<1>5. IsFiniteSet(1 .. Len(s)) /\ Cardinality(1 .. Len(s)) = Len(s)
  BY SMTT(30), <1>1, FS_Interval
<1>6. Cardinality(1 .. Len(s)) <= Cardinality(Procs)
  BY <1>4, ListAssumption, FS_Injection
<1>7. Cardinality(Procs) \in Nat
  BY ListAssumption, FS_CardinalityType
<1>8. Len(s) \in 0 .. Cardinality(Procs)
  BY <1>1, <1>5, <1>6, <1>7
<1> QED
  BY <1>2, <1>8 DEF Lists

(* Represents, and the one list that it chooses, for a head h and links nx. *)
Shown(s, h, nx) ==
  /\ h = IF s = <<>> THEN Null ELSE s[1]
  /\ \A i \in DOMAIN s : nx[s[i]] = IF i = Len(s) THEN Null ELSE s[i + 1]
Chosen(h, nx) == CHOOSE s \in Lists : Shown(s, h, nx)

(* The list that the model reads off the links is that sequence. *)
LEMMA ChosenIs ==
  ASSUME NEW s, NEW h, NEW nx, Chain(s, h, nx)
  PROVE  Chosen(h, nx) = s /\ s \in Lists /\ Shown(s, h, nx)
<1>1. s \in Seq(Procs) /\ nx \in [Procs -> Procs \cup {Null}]
  BY DEF Chain
<1>2. ASSUME NEW t \in Seq(Procs)
      PROVE  Shown(t, h, nx) <=> Chain(t, h, nx)
  <2>1. DOMAIN t = 1 .. Len(t) /\ (t = <<>> <=> Len(t) = 0)
    BY <1>2
  <2> QED
    BY <1>1, <2>1, Zenon DEF Shown, Chain, Links
<1>3. \A t \in Lists : t \in Seq(Procs)
  BY DEF Lists
<1>4. s \in Lists /\ Shown(s, h, nx)
  BY <1>1, <1>2, ChainIsShort
<1>5. Chosen(h, nx) \in Lists /\ Shown(Chosen(h, nx), h, nx)
  BY <1>4 DEF Chosen
<1>6. Chain(Chosen(h, nx), h, nx)
  BY <1>2, <1>3, <1>5
<1> QED
  BY <1>4, <1>6, ChainIsUnique

(* List is that chain, before and after a step. *)
LEMMA ListIs ==
  ASSUME NEW s
  PROVE  /\ Chain(s, ready_head, next) => List = s /\ s \in Lists /\ Represents(s)
         /\ Chain(s, ready_head', next') => List' = s
<1>1. List = Chosen(ready_head, next) /\ List' = Chosen(ready_head', next')
  BY DEF List, Represents, Chosen, Shown
<1>2. Represents(s) <=> Shown(s, ready_head, next)
  BY DEF Represents, Shown
<1> QED
  BY <1>1, <1>2, ChosenIs

-----------------------------------------------------------------------------
(* What the writes of enqueue, next_ready and process.c do to a chain.     *)

(* The head is null if and only if the list is empty; otherwise it is its first
   process. *)
LEMMA EmptyChain ==
  ASSUME NEW s, NEW h, NEW nx, Chain(s, h, nx)
  PROVE  /\ h = Null <=> Len(s) = 0
         /\ h # Null => h = s[1] /\ h \in Procs
<1>1. s \in Seq(Procs) /\ h = IF Len(s) = 0 THEN Null ELSE s[1]
  BY DEF Chain
<1>2. Len(s) # 0 => s[1] \in Procs
  BY <1>1
<1> QED
  BY <1>1, <1>2, ListAssumption

(* A process without a successor is a list of one. *)
LEMMA FirstChain ==
  ASSUME NEW x \in Procs, NEW nx \in [Procs -> Procs \cup {Null}], nx[x] = Null
  PROVE  Chain(<<x>>, x, nx)
<1>1. <<x>> \in Seq(Procs) /\ Len(<<x>>) = 1 /\ <<x>>[1] = x
  OBVIOUS
<1>2. Links(<<x>>, nx)
  BY <1>1 DEF Links
<1> QED
  BY <1>1, <1>2 DEF Chain

(* A write of next = 0 to a PCB that is not in the list. *)
LEMMA ClearOutside ==
  ASSUME NEW s, NEW h, NEW nx, Chain(s, h, nx), NEW x \in Procs, ~On(s, x)
  PROVE  Chain(s, h, [nx EXCEPT ![x] = Null])
<1>1. PICK ny : ny = [nx EXCEPT ![x] = Null]
  BY Zenon
<1>2. s \in Seq(Procs) /\ nx \in [Procs -> Procs \cup {Null}] /\ Links(s, nx)
  BY DEF Chain
<1>3. ny \in [Procs -> Procs \cup {Null}] /\ \A y \in Procs \ {x} : ny[y] = nx[y]
  BY <1>1, <1>2
<1>4. \A i \in 1 .. Len(s) : s[i] \in Procs \ {x}
  BY <1>2 DEF On
<1>5. Links(s, ny)
  BY <1>2, <1>3, <1>4 DEF Links
<1> QED
  BY <1>1, <1>2, <1>3, <1>5 DEF Chain

(* The link that enqueue writes behind the last PCB. *)
LEMMA LinkBehind ==
  ASSUME NEW s, NEW h, NEW nx, Chain(s, h, nx), NEW x \in Procs, ~On(s, x), nx[x] = Null,
         NEW y, On(s, y), nx[y] = Null
  PROVE  Chain(Append(s, x), h, [nx EXCEPT ![y] = x])
<1>1. PICK ny, t : ny = [nx EXCEPT ![y] = x] /\ t = Append(s, x)
  BY Zenon
<1>2. s \in Seq(Procs) /\ Len(s) \in Nat /\ nx \in [Procs -> Procs \cup {Null}] /\ Links(s, nx)
  BY DEF Chain
<1>3. PICK j \in 1 .. Len(s) : s[j] = y
  BY DEF On
<1>4. j = Len(s)
  <2>1. nx[y] = IF j = Len(s) THEN Null ELSE s[j + 1]
    BY <1>2, <1>3 DEF Links
  <2>2. j # Len(s) => s[j + 1] \in Procs
    BY <1>2
  <2> QED
    BY <2>1, <2>2, ListAssumption
<1>5. y \in Procs /\ x # y
  BY <1>2, <1>3 DEF On
<1>6. ny \in [Procs -> Procs \cup {Null}] /\ ny[y] = x /\ \A z \in Procs \ {y} : ny[z] = nx[z]
  BY <1>1, <1>2, <1>5
<1>7. /\ t \in Seq(Procs) /\ Len(t) = Len(s) + 1 /\ t[Len(s) + 1] = x
      /\ \A i \in 1 .. Len(s) : t[i] = s[i]
  BY <1>1, <1>2
<1>8. ASSUME NEW i \in 1 .. Len(t)
      PROVE  ny[t[i]] = IF i = Len(t) THEN Null ELSE t[i + 1]
  <2>1. CASE i = Len(t)
    BY <1>5, <1>6, <1>7, <2>1
  <2>2. CASE i = Len(s)
    <3>1. i # Len(t) /\ t[i] = y /\ t[i + 1] = x
      BY <1>2, <1>3, <1>4, <1>7, <2>2
    <3> QED
      BY <1>6, <3>1
  <2>3. CASE i # Len(t) /\ i # Len(s)
    <3>1. i \in 1 .. Len(s) /\ i + 1 \in 1 .. Len(s)
      BY <1>2, <1>7, <2>3
    <3>2. t[i] = s[i] /\ t[i + 1] = s[i + 1] /\ s[i] \in Procs
      BY <1>2, <1>7, <3>1
    <3>3. s[i] # y
      BY <1>3, <1>4, <2>3, <3>1, ChainIsDistinct
    <3>4. nx[s[i]] = s[i + 1]
      BY <1>2, <2>3, <3>1 DEF Links
    <3> QED
      BY <1>6, <2>3, <3>2, <3>3, <3>4
  <2> QED
    BY <2>1, <2>2, <2>3
<1>9. h = t[1] /\ Len(t) # 0
  BY <1>2, <1>3, <1>7 DEF Chain
<1>10. Links(t, ny)
  BY <1>8 DEF Links
<1> QED
  BY <1>1, <1>6, <1>7, <1>9, <1>10 DEF Chain

(* next_ready takes the first PCB out. *)
LEMMA PopFirst ==
  ASSUME NEW s, NEW h, NEW nx, Chain(s, h, nx), h # Null
  PROVE  Chain(Tail(s), nx[h], [nx EXCEPT ![h] = Null])
<1>1. PICK ny, t : ny = [nx EXCEPT ![h] = Null] /\ t = Tail(s)
  BY Zenon
<1>2. /\ s \in Seq(Procs) /\ Len(s) \in Nat /\ Len(s) # 0 /\ h = s[1] /\ h \in Procs
      /\ nx \in [Procs -> Procs \cup {Null}] /\ Links(s, nx)
  BY EmptyChain DEF Chain
<1>3. ny \in [Procs -> Procs \cup {Null}] /\ \A z \in Procs \ {h} : ny[z] = nx[z]
  BY <1>1, <1>2
<1>4. /\ t \in Seq(Procs) /\ Len(t) = Len(s) - 1
      /\ \A i \in 1 .. Len(t) : t[i] = s[i + 1] /\ i + 1 \in 1 .. Len(s)
  BY <1>1, <1>2
<1>5. ASSUME NEW i \in 1 .. Len(t)
      PROVE  ny[t[i]] = IF i = Len(t) THEN Null ELSE t[i + 1]
  <2>1. i + 1 \in 1 .. Len(s) /\ t[i] = s[i + 1] /\ s[i + 1] \in Procs
    BY <1>2, <1>4
  <2>2. s[i + 1] # h
    BY <1>2, <2>1, ChainIsDistinct
  <2>3. nx[s[i + 1]] = IF i + 1 = Len(s) THEN Null ELSE s[(i + 1) + 1]
    BY <1>2, <2>1 DEF Links
  <2>4. i + 1 = Len(s) <=> i = Len(t)
    BY <1>2, <1>4
  <2>5. i # Len(t) => t[i + 1] = s[(i + 1) + 1]
    BY <1>2, <1>4
  <2> QED
    BY <1>3, <2>1, <2>2, <2>3, <2>4, <2>5
<1>6. nx[h] = IF Len(t) = 0 THEN Null ELSE t[1]
  <2>1. PICK i : i = 1
    OBVIOUS
  <2>2. i \in 1 .. Len(s)
    BY <1>2, <2>1
  <2>3. nx[s[i]] = IF i = Len(s) THEN Null ELSE s[i + 1]
    BY <1>2, <2>2 DEF Links
  <2> QED
    BY <1>2, <1>4, <2>1, <2>3
<1>7. Links(t, ny)
  BY <1>5 DEF Links
<1> QED
  BY <1>1, <1>3, <1>4, <1>6, <1>7 DEF Chain

(* A write of next = 0 to a PCB in the list cuts off what is behind it. *)
LEMMA CutBehind ==
  ASSUME NEW s, NEW h, NEW nx, Chain(s, h, nx), NEW k \in 1 .. Len(s)
  PROVE  Chain(SubSeq(s, 1, k), h, [nx EXCEPT ![s[k]] = Null])
<1>1. PICK x, ny, t : x = s[k] /\ ny = [nx EXCEPT ![x] = Null] /\ t = SubSeq(s, 1, k)
  BY Zenon
<1>2. /\ s \in Seq(Procs) /\ Len(s) \in Nat /\ x \in Procs
      /\ nx \in [Procs -> Procs \cup {Null}] /\ Links(s, nx)
  BY <1>1 DEF Chain
<1>3. ny \in [Procs -> Procs \cup {Null}] /\ ny[x] = Null /\ \A z \in Procs \ {x} : ny[z] = nx[z]
  BY <1>1, <1>2
<1>4. /\ t \in Seq(Procs) /\ Len(t) = k
      /\ \A i \in 1 .. k : t[i] = s[i] /\ i \in 1 .. Len(s)
  BY <1>1, <1>2
<1>5. ASSUME NEW i \in 1 .. Len(t)
      PROVE  ny[t[i]] = IF i = Len(t) THEN Null ELSE t[i + 1]
  <2>1. CASE i = k
    BY <1>1, <1>3, <1>4, <2>1
  <2>2. CASE i # k
    <3>1. i \in 1 .. Len(s) /\ i # Len(s) /\ t[i] = s[i] /\ t[i + 1] = s[i + 1] /\ s[i] \in Procs
      BY <1>2, <1>4, <2>2
    <3>2. s[i] # x
      BY <1>1, <2>2, <3>1, ChainIsDistinct
    <3>3. nx[s[i]] = s[i + 1]
      BY <1>2, <3>1 DEF Links
    <3> QED
      BY <1>3, <1>4, <2>2, <3>1, <3>2, <3>3, SMTT(30)
  <2> QED
    BY <2>1, <2>2
<1>6. h = t[1] /\ Len(t) # 0
  BY <1>2, <1>4 DEF Chain
<1>7. Links(t, ny)
  BY <1>5 DEF Links
<1> QED
  BY <1>1, <1>3, <1>4, <1>6, <1>7 DEF Chain

-----------------------------------------------------------------------------
(* The invariant.                                                          *)

(* While enqueue walks, its process is outside the list and its cursor inside. *)
Walks(s) == pc = "enqueue" => ~On(s, p) /\ next[p] = Null /\ On(s, q)
ListInv == TypeOK /\ \E s : Chain(s, ready_head, next) /\ Walks(s)

(* What a step turns list s into, as far as ListInv and the queue see it. *)
Becomes(t) == TypeOK' /\ Chain(t, ready_head', next') /\ Walks(t)'

(* To be in the list is to be met from the head on. *)
LEMMA InListIs ==
  ASSUME NEW s, Chain(s, ready_head, next), NEW x
  PROVE  InList(x) <=> On(s, x)
<1>1. List = s /\ s \in Seq(Procs)
  BY ListIs DEF Chain
<1>2. DOMAIN s = 1 .. Len(s)
  BY <1>1
<1> QED
  BY <1>1, <1>2 DEF InList, On

(* The first turn of enqueue leaves the list or appends to an empty one. *)
LEMMA StartKeeps ==
  ASSUME TypeOK, NEW s, Chain(s, ready_head, next), NEW x \in Procs, EnqueueStart(x)
  PROVE  Becomes(s) \/ (~On(s, x) /\ Becomes(Append(s, x)))
<1>1. next \in [Procs -> Procs \cup {Null}] /\ s \in Seq(Procs)
  BY DEF TypeOK, Chain
<1>2. ~On(s, x) /\ next' = [next EXCEPT ![x] = Null]
  BY InListIs DEF EnqueueStart
<1>3. Chain(s, ready_head, next') /\ next'[x] = Null /\ next' \in [Procs -> Procs \cup {Null}]
  BY <1>1, <1>2, ClearOutside, Zenon
<1>4. CASE ready_head = Null
  <2>1. ready_head' = x /\ UNCHANGED <<runnable, pc, p, q>> /\ pc = "idle"
    BY <1>4 DEF EnqueueStart
  <2>2. Append(s, x) = <<x>>
    <3>1. Len(s) = 0
      BY <1>4, EmptyChain
    <3>2. s = << >>
      BY <1>1, <3>1
    <3> QED
      BY <3>2
  <2>3. Chain(Append(s, x), ready_head', next')
    BY <1>3, <2>1, <2>2, FirstChain
  <2>4. TypeOK'
    BY <1>3, <2>1 DEF TypeOK
  <2> QED
    BY <1>2, <2>1, <2>3, <2>4 DEF Becomes, Walks
<1>5. CASE ready_head # Null
  <2>1. pc' = "enqueue" /\ p' = x /\ q' = ready_head /\ UNCHANGED <<ready_head, runnable>>
    BY <1>5 DEF EnqueueStart
  <2>2. ready_head \in Procs /\ ready_head = s[1] /\ Len(s) # 0
    BY <1>5, EmptyChain
  <2>3. On(s, ready_head)
    BY <1>1, <2>2 DEF On
  <2>4. TypeOK'
    BY <1>3, <2>1, <2>2 DEF TypeOK
  <2> QED
    BY <1>2, <1>3, <2>1, <2>3, <2>4 DEF Becomes, Walks
<1> QED
  BY <1>4, <1>5

(* A turn of enqueue's loop leaves the list or appends the process. *)
LEMMA WalkKeeps ==
  ASSUME TypeOK, NEW s, Chain(s, ready_head, next), Walks(s), EnqueueWalk
  PROVE  Becomes(s) \/ (~On(s, p) /\ p \in Procs /\ Becomes(Append(s, p)))
<1>1. /\ next \in [Procs -> Procs \cup {Null}] /\ s \in Seq(Procs) /\ Len(s) \in Nat
      /\ p \in Procs /\ q \in Procs /\ Links(s, next)
  BY DEF TypeOK, Chain, EnqueueWalk
<1>2. ~On(s, p) /\ next[p] = Null /\ On(s, q) /\ UNCHANGED <<ready_head, runnable>>
  BY DEF Walks, EnqueueWalk
<1>3. CASE next[q] # Null
  <2>1. q' = next[q] /\ UNCHANGED <<next, pc, p>> /\ pc = "enqueue"
    BY <1>3 DEF EnqueueWalk
  <2>2. PICK i \in 1 .. Len(s) : s[i] = q
    BY <1>2 DEF On
  <2>3. next[q] = IF i = Len(s) THEN Null ELSE s[i + 1]
    BY <1>1, <2>2 DEF Links
  <2>4. i + 1 \in 1 .. Len(s) /\ s[i + 1] = q' /\ q' \in Procs
    BY <1>1, <1>3, <2>1, <2>2, <2>3
  <2>5. On(s, q')
    BY <2>4 DEF On
  <2>6. TypeOK'
    BY <1>2, <2>1, <2>4 DEF TypeOK
  <2> QED
    BY <1>2, <2>1, <2>5, <2>6 DEF Becomes, Walks
<1>4. CASE next[q] = Null
  <2>1. next' = [next EXCEPT ![q] = p] /\ pc' = "idle" /\ p' = Null /\ q' = Null
    BY <1>4 DEF EnqueueWalk
  <2>2. Chain(Append(s, p), ready_head', next')
    BY <1>1, <1>2, <1>4, <2>1, LinkBehind, Zenon
  <2>3. TypeOK'
    BY <1>1, <1>2, <2>1 DEF TypeOK
  <2> QED
    BY <1>1, <1>2, <2>1, <2>2, <2>3 DEF Becomes, Walks
<1> QED
  BY <1>3, <1>4

(* A turn of next_ready leaves the list or takes the first process. *)
LEMMA PopKeeps ==
  ASSUME TypeOK, NEW s, Chain(s, ready_head, next), NextReadyPop
  PROVE  Becomes(s) \/ (Len(s) # 0 /\ Becomes(Tail(s)))
<1>1. next \in [Procs -> Procs \cup {Null}]
  BY DEF TypeOK
<1>2. CASE ready_head = Null
  <2>1. pc' = "idle" /\ UNCHANGED <<ready_head, next, runnable, p, q>> /\ pc = "next_ready"
    BY <1>2 DEF NextReadyPop
  <2> QED
    BY <2>1 DEF Becomes, TypeOK, Walks
<1>3. CASE ready_head # Null
  <2>1. /\ ready_head' = next[ready_head] /\ next' = [next EXCEPT ![ready_head] = Null]
        /\ pc' \in {"idle", "next_ready"} /\ pc = "next_ready" /\ UNCHANGED <<runnable, p, q>>
    BY <1>3 DEF NextReadyPop
  <2>2. Chain(Tail(s), ready_head', next') /\ Len(s) # 0 /\ ready_head \in Procs
    BY <1>3, <2>1, PopFirst, EmptyChain, Zenon
  <2>3. TypeOK'
    BY <1>1, <2>1, <2>2 DEF TypeOK
  <2> QED
    BY <2>1, <2>2, <2>3 DEF Becomes, Walks
<1> QED
  BY <1>2, <1>3

(* A write of next = 0 leaves the list or cuts it behind the process. *)
LEMMA ClearKeeps ==
  ASSUME TypeOK, NEW s, Chain(s, ready_head, next), NEW x \in Procs, ClearNext(x)
  PROVE  Becomes(s) \/ \E k \in 1 .. Len(s) : Becomes(SubSeq(s, 1, k))
<1>1. /\ next' = [next EXCEPT ![x] = Null] /\ pc = "idle" /\ UNCHANGED <<ready_head, runnable, pc, p, q>>
      /\ next \in [Procs -> Procs \cup {Null}]
  BY DEF ClearNext, TypeOK
<1>2. TypeOK'
  BY <1>1 DEF TypeOK
<1>3. CASE ~On(s, x)
  BY <1>1, <1>2, <1>3, ClearOutside, Zenon DEF Becomes, Walks
<1>4. CASE On(s, x)
  <2>1. PICK k \in 1 .. Len(s) : s[k] = x
    BY <1>4 DEF On
  <2>2. Chain(SubSeq(s, 1, k), ready_head', next')
    BY <1>1, <2>1, CutBehind, Zenon
  <2>3. Becomes(SubSeq(s, 1, k))
    BY <1>1, <1>2, <2>2 DEF Becomes, Walks
  <2> QED
    BY <2>3
<1> QED
  BY <1>3, <1>4

(* The other steps leave the list. *)
LEMMA OthersKeep ==
  ASSUME TypeOK, NEW s, Chain(s, ready_head, next), Walks(s),
         NextReadyStart \/ (\E x \in Procs : ChangeState(x)) \/ UNCHANGED vars
  PROVE  Becomes(s)
<1>1. CASE NextReadyStart
  BY <1>1 DEF NextReadyStart, TypeOK, Becomes, Walks
<1>2. ASSUME NEW x \in Procs, ChangeState(x)
      PROVE  Becomes(s)
  <2>1. runnable' \in [Procs -> BOOLEAN]
    BY <1>2 DEF ChangeState, TypeOK
  <2> QED
    BY <1>2, <2>1 DEF ChangeState, TypeOK, Becomes, Walks
<1>3. CASE UNCHANGED vars
  BY <1>3 DEF vars, TypeOK, Becomes, Walks
<1> QED
  BY <1>1, <1>2, <1>3

(* A step of the kernel is a step of the queue. *)
QueueStep(s, t) ==
  \/ t = s
  \/ \E x \in Procs : ~On(s, x) /\ t = Append(s, x)
  \/ Len(s) # 0 /\ t = Tail(s)
  \/ \E k \in 1 .. Len(s) : t = SubSeq(s, 1, k)

(* Every step takes the list to one that the queue may go to. *)
LEMMA StepKeeps ==
  ASSUME TypeOK, NEW s, Chain(s, ready_head, next), Walks(s), [Next]_vars
  PROVE  \E t : Becomes(t) /\ QueueStep(s, t)
<1>1. ASSUME NEW x \in Procs, EnqueueStart(x)
      PROVE  \E t : Becomes(t) /\ QueueStep(s, t)
  BY <1>1, StartKeeps, Zenon DEF QueueStep
<1>2. ASSUME NEW x \in Procs, ClearNext(x)
      PROVE  \E t : Becomes(t) /\ QueueStep(s, t)
  BY <1>2, ClearKeeps, Zenon DEF QueueStep
<1>3. CASE EnqueueWalk
  BY <1>3, WalkKeeps, Zenon DEF QueueStep
<1>4. CASE NextReadyPop
  BY <1>4, PopKeeps, Zenon DEF QueueStep
<1>5. CASE NextReadyStart \/ (\E x \in Procs : ChangeState(x)) \/ UNCHANGED vars
  BY <1>5, OthersKeep DEF QueueStep
<1> QED
  BY <1>1, <1>2, <1>3, <1>4, <1>5 DEF Next

(* The list is empty at first. *)
LEMMA ListInvInit == Init => ListInv
<1> SUFFICES ASSUME Init
             PROVE  ListInv
  OBVIOUS
<1>1. TypeOK
  BY DEF Init, TypeOK
<1>2. << >> \in Seq(Procs) /\ Len(<< >>) = 0
  OBVIOUS
<1>3. Links(<< >>, next)
  BY <1>2 DEF Links
<1>4. Chain(<< >>, ready_head, next)
  BY <1>1, <1>2, <1>3 DEF Chain, Init, TypeOK
<1> QED
  BY <1>1, <1>4 DEF ListInv, Walks, Init

(* Every step leaves a list. *)
LEMMA ListInvNext == ListInv /\ [Next]_vars => ListInv'
<1> SUFFICES ASSUME ListInv, [Next]_vars
             PROVE  ListInv'
  OBVIOUS
<1>1. PICK s : Chain(s, ready_head, next) /\ Walks(s)
  BY DEF ListInv
<1>2. PICK t : Becomes(t)
  BY <1>1, StepKeeps DEF ListInv
<1> QED
  BY <1>2 DEF ListInv, Becomes

(* There is a list in every state. *)
LEMMA AlwaysList == Spec => []ListInv
BY ListInvInit, ListInvNext, PTL DEF Spec

(* ready_head and the next pointers form a list that ends, for any number of PCBs:
   enqueue, next_ready and the writes of next in process.c never tie it into a loop. *)
THEOREM ListSound == Spec => []IsList
<1>1. ListInv => IsList
  BY ListIs DEF ListInv, IsList
<1> QED
  BY <1>1, AlwaysList, PTL

(* The list of round_robin.c is a queue in which nobody stands twice: every turn of
   enqueue and next_ready, and every write of next, appends a process, takes the first
   one, cuts the tail off or leaves the queue as it was. *)
THEOREM QueueSound == Spec => ListIsQueue
<1>1. Init => Queue!Init
  <2> SUFFICES ASSUME Init
               PROVE  Queue!Init
    OBVIOUS
  <2>1. PICK s : Chain(s, ready_head, next)
    BY ListInvInit DEF ListInv
  <2>2. Len(s) = 0 /\ s \in Seq(Procs)
    BY <2>1, EmptyChain DEF Init, Chain
  <2>3. List = << >>
    BY <2>1, <2>2, ListIs
  <2> QED
    BY <2>3 DEF Queue!Init
<1>2. ListInv /\ [Next]_vars => [Queue!Next]_List
  <2> SUFFICES ASSUME ListInv, [Next]_vars
               PROVE  [Queue!Next]_List
    OBVIOUS
  <2>1. PICK s : Chain(s, ready_head, next) /\ Walks(s)
    BY DEF ListInv
  <2>2. PICK t : Becomes(t) /\ QueueStep(s, t)
    BY <2>1, StepKeeps DEF ListInv
  <2>3. s \in Seq(Procs) /\ DOMAIN s = 1 .. Len(s)
    BY <2>1 DEF Chain
  <2>4. List = s
    BY <2>1, ListIs
  <2>5. List' = t
    BY <2>2, ListIs DEF Becomes
  <2>6. CASE t = s
    BY SMTT(30), <2>4, <2>5, <2>6
  <2>7. CASE \E x \in Procs : ~On(s, x) /\ t = Append(s, x)
    BY <2>3, <2>4, <2>5, <2>7, Zenon DEF On, Queue!Next, Queue!Join, Queue!Queued
  <2>8. CASE Len(s) # 0 /\ t = Tail(s)
    <3>1. s # << >>
      BY SMTT(30), <2>8
    <3> QED
      BY <2>4, <2>5, <2>8, <3>1 DEF Queue!Next, Queue!Leave
  <2>9. CASE \E k \in 1 .. Len(s) : t = SubSeq(s, 1, k)
    BY <2>3, <2>4, <2>5, <2>9, Zenon DEF Queue!Next, Queue!Cut
  <2> QED
    BY <2>2, <2>6, <2>7, <2>8, <2>9 DEF QueueStep
<1> QED
  BY <1>1, <1>2, AlwaysList, PTL DEF Spec, ListIsQueue, Queue!Spec
=============================================================================
