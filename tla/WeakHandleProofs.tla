-------------------------- MODULE WeakHandleProofs --------------------------
(***************************************************************************)
(* Proofs about weak persistent handles, for any number of objects and of  *)
(* cells: the callback lists, the two counters and the cells agree at      *)
(* every step of a collection and of the callbacks it makes.               *)
(***************************************************************************)
EXTENDS WeakHandles, FiniteSetTheorems, FunctionTheorems,
        SequenceTheorems, TLAPS

(* A callback list has one entry for a cell at most.                       *)
Distinct(list) == \A k, m \in DOMAIN list : list[k].cell = list[m].cell => k = m

ListedIn(list) == {list[k].cell : k \in DOMAIN list}
-----------------------------------------------------------------------------
(* Callback lists.                                                         *)

LEMMA ListBasics ==
  ASSUME NEW list \in Seq(Entry)
  PROVE  /\ Len(list) \in Nat /\ DOMAIN list = 1 .. Len(list)
         /\ \A k \in 1 .. Len(list) : list[k] \in Entry /\ list[k].cell \in Cells
         /\ ListedIn(list) \subseteq Cells
<1>1. /\ Len(list) \in Nat /\ DOMAIN list = 1 .. Len(list)
      /\ \A k \in 1 .. Len(list) : list[k] \in Entry
  OBVIOUS
<1>2. QED BY <1>1 DEF Entry, ListedIn

(* FindForSlot finds the entry of a cell, and nothing if there is none.    *)
LEMMA PositionFinds ==
  ASSUME NEW list \in Seq(Entry), Distinct(list), NEW c
  PROVE  /\ c \in ListedIn(list) => /\ Position(list, c) \in 1 .. Len(list)
                                    /\ list[Position(list, c)].cell = c
         /\ c \notin ListedIn(list) => Position(list, c) = 0
<1> DEFINE I == {k \in 1 .. Len(list) : list[k].cell = c}
<1>1. Position(list, c) = IF I # {} THEN Min(I) ELSE 0
  BY DEF Position, SelectInSeq
<1>2. DOMAIN list = 1 .. Len(list) /\ Len(list) \in Nat
  BY ListBasics
<1>3. ASSUME c \in ListedIn(list)
      PROVE  Position(list, c) \in 1 .. Len(list) /\ list[Position(list, c)].cell = c
  <2>1. PICK k \in 1 .. Len(list) : list[k].cell = c
    BY <1>2, <1>3 DEF ListedIn
  <2>2. I = {k}
    BY <1>2, <2>1 DEF Distinct
  <2>3. Min({k}) = k
    BY <1>2, <2>1 DEF Min
  <2>4. QED BY <1>1, <2>1, <2>2, <2>3
<1>4. ASSUME c \notin ListedIn(list) PROVE Position(list, c) = 0
  <2>1. I = {}
    BY <1>2, <1>4 DEF ListedIn
  <2>2. QED BY <1>1, <2>1
<1>5. QED BY <1>3, <1>4

(* One entry is taken out, of the cell asked for, or none.                 *)
LEMMA Unlisted ==
  ASSUME NEW list \in Seq(Entry), Distinct(list), NEW c
  PROVE  /\ Unlist(c, list) \in Seq(Entry)
         /\ Distinct(Unlist(c, list))
         /\ ListedIn(Unlist(c, list)) = ListedIn(list) \ {c}
         /\ Len(Unlist(c, list)) = IF c \in ListedIn(list) THEN Len(list) - 1 ELSE Len(list)
<1> DEFINE k == Position(list, c)
           n == Len(list)
           rest == Unlist(c, list)
<1>1. n \in Nat /\ DOMAIN list = 1 .. n /\ \A m \in 1 .. n : list[m] \in Entry
  BY ListBasics
<1>2. rest = SubSeq(list, 1, k - 1) \o SubSeq(list, k + 1, n)
  BY DEF Unlist, RemoveAt
<1>3. CASE c \in ListedIn(list)
  <2>1. k \in 1 .. n /\ list[k].cell = c
    BY <1>3, PositionFinds
  <2> HIDE DEF k
  <2>2. /\ rest \in Seq(Entry) /\ Len(rest) = n - 1
        /\ \A m \in 1 .. n - 1 : rest[m] = IF m < k THEN list[m] ELSE list[m + 1]
    <3> DEFINE a == SubSeq(list, 1, k - 1)
               b == SubSeq(list, k + 1, n)
    <3>1. /\ a \in Seq(Entry) /\ Len(a) = k - 1
          /\ \A m \in 1 .. k - 1 : a[m] = list[m]
      BY <1>1, <2>1
    <3>2. /\ b \in Seq(Entry) /\ Len(b) = n - k
          /\ \A m \in 1 .. n - k : b[m] = list[k + m]
      <4> HIDE DEF n
      <4>1. k + 1 \in Int /\ n \in Int /\ \A i \in k + 1 .. n : list[i] \in Entry
        BY <1>1, <2>1
      <4>2. /\ b \in Seq(Entry)
            /\ Len(b) = IF k + 1 <= n THEN n - (k + 1) + 1 ELSE 0
            /\ \A m \in 1 .. n - (k + 1) + 1 : b[m] = list[k + 1 + m - 1]
        BY <4>1, SubSeqProperties
      <4> HIDE DEF b
      <4>3. Len(b) = n - k /\ n - (k + 1) + 1 = n - k
        BY <1>1, <2>1, <4>2
      <4>4. \A m \in 1 .. n - k : k + 1 + m - 1 = k + m
        BY <1>1, <2>1
      <4>5. QED BY <4>2, <4>3, <4>4
    <3>3. rest = a \o b
      BY <1>2
    <3> HIDE DEF a, b, rest, n
    <3>4. /\ rest \in Seq(Entry) /\ Len(rest) = (k - 1) + (n - k)
          /\ \A m \in 1 .. (k - 1) + (n - k) :
               rest[m] = IF m <= k - 1 THEN a[m] ELSE b[m - (k - 1)]
      BY <3>1, <3>2, <3>3, ConcatProperties
    <3>5. (k - 1) + (n - k) = n - 1
      BY <1>1, <2>1
    <3>6. ASSUME NEW m \in 1 .. n - 1
          PROVE  rest[m] = IF m < k THEN list[m] ELSE list[m + 1]
      <4>1. CASE m < k
        BY <1>1, <2>1, <3>1, <3>4, <3>5, <3>6, <4>1
      <4>2. CASE ~(m < k)
        <5>1. m - (k - 1) \in 1 .. n - k /\ k + (m - (k - 1)) = m + 1 /\ ~(m <= k - 1)
          BY <1>1, <2>1, <3>6, <4>2
        <5>2. QED BY <3>2, <3>4, <3>5, <3>6, <4>2, <5>1
      <4>3. QED BY <4>1, <4>2
    <3>7. QED BY <3>4, <3>5, <3>6
  <2>3. DOMAIN rest = 1 .. n - 1
    BY <2>2
  <2> HIDE DEF rest, n
  <2>4. Distinct(rest)
    <3>1. SUFFICES ASSUME NEW a \in 1 .. n - 1, NEW b \in 1 .. n - 1, rest[a].cell = rest[b].cell
                   PROVE  a = b
      BY <2>3 DEF Distinct
    <3>2. /\ a \in 1 .. n /\ a + 1 \in 1 .. n /\ b \in 1 .. n /\ b + 1 \in 1 .. n
      BY <1>1
    <3>3. PICK x \in 1 .. n : rest[a] = list[x] /\ x = IF a < k THEN a ELSE a + 1
      BY <2>2, <3>2
    <3>4. PICK y \in 1 .. n : rest[b] = list[y] /\ y = IF b < k THEN b ELSE b + 1
      BY <2>2, <3>2
    <3>5. x = y
      BY <1>1, <3>1, <3>3, <3>4 DEF Distinct
    <3>6. QED BY <1>1, <2>1, <3>3, <3>4, <3>5
  <2>5. ListedIn(rest) \subseteq ListedIn(list) \ {c}
    <3>1. SUFFICES ASSUME NEW a \in 1 .. n - 1
                   PROVE  rest[a].cell \in ListedIn(list) /\ rest[a].cell # c
      BY <2>3 DEF ListedIn
    <3>2. a \in 1 .. n /\ a + 1 \in 1 .. n
      BY <1>1
    <3>3. PICK x \in 1 .. n : rest[a] = list[x] /\ x = IF a < k THEN a ELSE a + 1
      BY <2>2, <3>2
    <3>4. x # k
      BY <1>1, <2>1, <3>3
    <3>5. QED BY <1>1, <2>1, <3>3, <3>4 DEF ListedIn, Distinct
  <2>6. ListedIn(list) \ {c} \subseteq ListedIn(rest)
    <3>1. SUFFICES ASSUME NEW x \in 1 .. n, list[x].cell # c
                   PROVE  \E a \in 1 .. n - 1 : rest[a].cell = list[x].cell
      BY <1>1, <2>3 DEF ListedIn
    <3>2. CASE x < k
      <4>1. x \in 1 .. n - 1 /\ rest[x] = list[x]
        BY <1>1, <2>1, <2>2, <3>2
      <4>2. QED BY <4>1
    <3>3. CASE x > k
      <4>1. x - 1 \in 1 .. n - 1 /\ ~(x - 1 < k) /\ (x - 1) + 1 = x
        BY <1>1, <2>1, <3>3
      <4>2. rest[x - 1] = list[x]
        BY <2>2, <4>1
      <4>3. QED BY <4>1, <4>2
    <3>4. x # k
      BY <2>1, <3>1
    <3>5. QED BY <1>1, <2>1, <3>2, <3>3, <3>4
  <2>7. QED BY <1>3, <2>2, <2>4, <2>5, <2>6 DEF rest, n
<1>4. CASE c \notin ListedIn(list)
  <2>1. k = 0
    BY <1>4, PositionFinds
  <2>2. SubSeq(list, 1, k - 1) = <<>> /\ SubSeq(list, k + 1, n) = list
    BY <1>1, <2>1, SubSeqEmpty, SubSeqFull
  <2>a. rest = list
    BY <1>2, <2>2, ConcatEmptySeq
  <2>3. QED BY <1>4, <2>a
<1>5. QED BY <1>3, <1>4

(* A new entry comes first.                                                *)
LEMMA Prepended ==
  ASSUME NEW list \in Seq(Entry), Distinct(list), NEW e \in Entry, e.cell \notin ListedIn(list)
  PROVE  LET new == <<e>> \o list
         IN  /\ new \in Seq(Entry) /\ Distinct(new)
             /\ ListedIn(new) = ListedIn(list) \cup {e.cell}
             /\ Len(new) = Len(list) + 1
<1> DEFINE new == <<e>> \o list
           n == Len(list)
<1>1. n \in Nat /\ DOMAIN list = 1 .. n
  BY ListBasics
<1>2. /\ new \in Seq(Entry) /\ Len(new) = n + 1 /\ DOMAIN new = 1 .. n + 1
      /\ new[1] = e
  BY <1>1
<1>3. \A m \in 1 .. n : new[m + 1] = list[m]
  BY <1>1
<1> HIDE DEF new, n
<1>4. \A m \in 1 .. n + 1 : m = 1 \/ (m - 1 \in 1 .. n /\ new[m] = list[m - 1])
  <2>1. SUFFICES ASSUME NEW m \in 1 .. n + 1, m # 1
                 PROVE  m - 1 \in 1 .. n /\ new[m] = list[m - 1]
    OBVIOUS
  <2>2. m - 1 \in 1 .. n /\ (m - 1) + 1 = m
    BY <1>1, <2>1
  <2>3. QED BY <1>3, <2>2
<1>5. Distinct(new)
  <2>1. SUFFICES ASSUME NEW a \in 1 .. n + 1, NEW b \in 1 .. n + 1, new[a].cell = new[b].cell
                 PROVE  a = b
    BY <1>2 DEF Distinct
  <2>2. CASE a # 1 /\ b # 1
    <3>1. a - 1 \in 1 .. n /\ b - 1 \in 1 .. n /\ list[a - 1].cell = list[b - 1].cell
      BY <1>4, <2>1, <2>2
    <3>2. a - 1 = b - 1
      BY <1>1, <3>1 DEF Distinct
    <3>3. QED BY <1>1, <3>2
  <2>3. CASE a = 1 /\ b # 1
    BY <1>1, <1>2, <1>4, <2>1, <2>3 DEF ListedIn
  <2>4. CASE a # 1 /\ b = 1
    BY <1>1, <1>2, <1>4, <2>1, <2>4 DEF ListedIn
  <2>5. QED BY <2>2, <2>3, <2>4
<1>6. ListedIn(new) = ListedIn(list) \cup {e.cell}
  <2>1. ListedIn(new) \subseteq ListedIn(list) \cup {e.cell}
    BY <1>1, <1>2, <1>4 DEF ListedIn
  <2>2. \A m \in 1 .. n : m + 1 \in 1 .. n + 1
    BY <1>1
  <2>3. 1 \in 1 .. n + 1
    BY <1>1
  <2>4. e.cell \in ListedIn(new)
    BY <1>2, <2>3 DEF ListedIn
  <2>5. ASSUME NEW m \in 1 .. n PROVE list[m].cell \in ListedIn(new)
    <3>1. m + 1 \in DOMAIN new /\ new[m + 1] = list[m]
      BY <1>2, <1>3, <2>2
    <3>2. QED BY <3>1 DEF ListedIn
  <2>6. \A m \in DOMAIN list : list[m].cell \in ListedIn(new)
    BY <1>1, <2>5
  <2>7. ListedIn(list) \subseteq ListedIn(new)
    BY <2>6 DEF ListedIn
  <2>8. QED BY <2>1, <2>4, <2>7
<1>7. QED BY <1>2, <1>5, <1>6 DEF new, n

(* The callback of a cell's entry is replaced.                             *)
LEMMA Replaced ==
  ASSUME NEW list \in Seq(Entry), Distinct(list), NEW e \in Entry
  PROVE  LET new == [k \in DOMAIN list |-> IF list[k].cell = e.cell THEN e ELSE list[k]]
         IN  /\ new \in Seq(Entry) /\ Distinct(new)
             /\ ListedIn(new) = ListedIn(list)
             /\ Len(new) = Len(list)
<1> DEFINE new == [k \in DOMAIN list |-> IF list[k].cell = e.cell THEN e ELSE list[k]]
           n == Len(list)
<1>1. n \in Nat /\ DOMAIN list = 1 .. n /\ \A k \in 1 .. n : list[k] \in Entry
  BY ListBasics
<1>2. new \in [1 .. n -> Entry]
  BY <1>1
<1>3. \A k \in 1 .. n : new[k].cell = list[k].cell
  BY <1>1
<1> HIDE DEF new, n
<1>4. new \in Seq(Entry) /\ Len(new) = n /\ DOMAIN new = 1 .. n
  BY <1>1, <1>2
<1>5. Distinct(new)
  BY <1>1, <1>3, <1>4 DEF Distinct
<1>6. ListedIn(new) = ListedIn(list)
  BY <1>1, <1>3, <1>4 DEF ListedIn
<1>7. QED BY <1>4, <1>5, <1>6 DEF new, n

(* The entry after that of a cell is another's.                            *)
LEMMA NextListed ==
  ASSUME NEW list \in Seq(Entry), Distinct(list), NEW c,
         c = NoCell \/ c \in ListedIn(list)
  PROVE  LET next == NextInList(list, c)
         IN  next = NoCell \/ (next \in ListedIn(list) /\ next # c)
<1> DEFINE n == Len(list)
<1>1. n \in Nat /\ DOMAIN list = 1 .. n /\ ListedIn(list) \subseteq Cells
  BY ListBasics
<1>2. NoCell \notin ListedIn(list)
  BY <1>1, WeakAssumption
<1>3. CASE c = NoCell
  <2>1. NextInList(list, c) = IF 1 > n THEN NoCell ELSE list[1].cell
    BY <1>3 DEF NextInList
  <2>2. ~(1 > n) => 1 \in 1 .. n
    BY <1>1
  <2>3. QED BY <1>1, <1>2, <1>3, <2>1, <2>2 DEF ListedIn
<1>4. CASE c \in ListedIn(list)
  <2> DEFINE k == Position(list, c)
  <2>1. k \in 1 .. n /\ list[k].cell = c
    BY <1>4, PositionFinds
  <2>2. NextInList(list, c) = IF 1 + k > n THEN NoCell ELSE list[1 + k].cell
    BY <1>2, <1>4 DEF NextInList
  <2> HIDE DEF k
  <2>3. ~(1 + k > n) => 1 + k \in 1 .. n /\ 1 + k # k
    BY <1>1, <2>1
  <2>4. CASE 1 + k > n
    BY <2>2, <2>4
  <2>5. CASE ~(1 + k > n)
    <3>1. list[1 + k].cell # c
      BY <1>1, <2>1, <2>3, <2>5 DEF Distinct
    <3>2. list[1 + k].cell \in ListedIn(list)
      BY <1>1, <2>3, <2>5 DEF ListedIn
    <3>3. QED BY <2>2, <2>5, <3>1, <3>2
  <2>6. QED BY <2>4, <2>5
<1>5. QED BY <1>3, <1>4

(* There are as many entries as listed cells.                              *)
LEMMA LengthCounts ==
  ASSUME NEW list \in Seq(Entry), Distinct(list)
  PROVE  IsFiniteSet(ListedIn(list)) /\ Cardinality(ListedIn(list)) = Len(list)
<1> DEFINE n == Len(list)
           f == [k \in 1 .. n |-> list[k].cell]
<1>1. n \in Nat /\ DOMAIN list = 1 .. n
  BY ListBasics
<1>2. f \in [1 .. n -> ListedIn(list)]
  BY <1>1 DEF ListedIn
<1>3. \A k, m \in 1 .. n : f[k] = f[m] => k = m
  BY <1>1 DEF Distinct
<1>4. \A c \in ListedIn(list) : \E k \in 1 .. n : f[k] = c
  BY <1>1 DEF ListedIn
<1>5. f \in Bijection(1 .. n, ListedIn(list))
  <2> HIDE DEF f, n
  <2>1. QED BY <1>2, <1>3, <1>4, Fun_IsBij
<1>6. ExistsBijection(1 .. n, ListedIn(list))
  BY <1>5 DEF ExistsBijection
<1>7. IsFiniteSet(1 .. n) /\ Cardinality(1 .. n) = n
  <2> HIDE DEF n
  <2>1. IsFiniteSet(1 .. n) /\ Cardinality(1 .. n) = IF 1 > n THEN 0 ELSE n - 1 + 1
    BY <1>1, FS_Interval
  <2>2. QED BY <1>1, <2>1
<1>8. QED BY <1>6, <1>7, FS_Bijection
-----------------------------------------------------------------------------
(* The inductive invariant.                                                *)

StrongCells(o) == CellsOf(o) \ Listed(o)
Held(o) == Cardinality(StrongCells(o))
Traced(o) == IF trace.object = o THEN 1 ELSE 0

(* The weak counter counts the entries of the list and the strong one all  *)
(* other references, and the object exists while one of them is not zero.  *)
BookOf(o) ==
  /\ Distinct(weakList[o])
  /\ Listed(o) \subseteq CellsOf(o)
  /\ weakCount[o] = Len(weakList[o])
  /\ strongCount[o] = localCount[o] + Held(o) + Traced(o)
  /\ o \in present <=> strongCount[o] # 0 \/ weakCount[o] # 0

(* Only finitely many cells were handed out, and they hold all targets.    *)
GivenInv == IsFiniteSet(given) /\ \A c \in Cells : cell[c] # NoTarget => c \in given

(* What ShouldTrace will visit next is listed, and not what it visits now. *)
TraceInv ==
  /\ trace.at = "idle" => trace = NoTrace
  /\ trace.at # "idle" => trace.object \in WeakObjects
  /\ disposed => trace.at = "idle"
  /\ trace.next # NoCell => trace.next \in Listed(trace.object)
  /\ trace.at = "callback" => trace.next # trace.current \/ trace.next = NoCell

WeakInv ==
  /\ WeakTypeOK
  /\ GivenInv
  /\ TraceInv
  /\ ~disposed => \A o \in WeakObjects : BookOf(o)
  /\ disposed => present = {}

LEMMA ListedAre ==
  ASSUME WeakTypeOK, NEW o \in WeakObjects
  PROVE  /\ weakList[o] \in Seq(Entry)
         /\ Listed(o) = ListedIn(weakList[o])
         /\ \A c : IsWeak(o, c) <=> c \in ListedIn(weakList[o])
<1>1. weakList[o] \in Seq(Entry)
  BY DEF WeakTypeOK
<1>2. \A c : IsWeak(o, c) <=> c \in ListedIn(weakList[o])
  BY DEF IsWeak, ListedIn
<1>3. ListedIn(weakList[o]) \subseteq Cells
  BY <1>1, ListBasics
<1>4. QED BY <1>1, <1>2, <1>3 DEF Listed

LEMMA StrongFinite ==
  ASSUME WeakTypeOK, GivenInv, NEW o \in WeakObjects
  PROVE  /\ CellsOf(o) \subseteq given /\ IsFiniteSet(CellsOf(o))
         /\ IsFiniteSet(StrongCells(o))
         /\ Cardinality(StrongCells(o)) \in Nat
         /\ StrongCells(o) = {} <=> Cardinality(StrongCells(o)) = 0
<1>1. CellsOf(o) \in SUBSET given
  BY WeakAssumption DEF CellsOf, GivenInv
<1>2. IsFiniteSet(CellsOf(o))
  BY <1>1, FS_Subset DEF GivenInv
<1>3. StrongCells(o) \in SUBSET CellsOf(o)
  BY DEF StrongCells
<1>4. IsFiniteSet(StrongCells(o))
  BY <1>2, <1>3, FS_Subset
<1>5. QED BY <1>1, <1>2, <1>4, FS_CardinalityType, FS_EmptySet

(* Counting.                                                               *)
LEMMA PlusOne ==
  ASSUME NEW f \in [WeakObjects -> Nat], NEW o \in WeakObjects
  PROVE  /\ Plus(f, o, 1) \in [WeakObjects -> Nat]
         /\ Plus(f, o, 1)[o] = f[o] + 1
         /\ \A u \in WeakObjects : u # o => Plus(f, o, 1)[u] = f[u]
BY DEF Plus

LEMMA MinusOne ==
  ASSUME NEW f \in [WeakObjects -> Nat], NEW o \in WeakObjects, f[o] > 0
  PROVE  /\ Plus(f, o, -1) \in [WeakObjects -> Nat]
         /\ Plus(f, o, -1)[o] = f[o] - 1
         /\ \A u \in WeakObjects : u # o => Plus(f, o, -1)[u] = f[u]
<1>1. Plus(f, o, -1) = [f EXCEPT ![o] = @ - 1]
  BY DEF Plus
<1>2. f[o] - 1 \in Nat
  OBVIOUS
<1>3. QED BY <1>1, <1>2

(* The counters of an object, as numbers.                                  *)
LEMMA BookNumbers ==
  ASSUME WeakTypeOK, GivenInv, NEW o \in WeakObjects, BookOf(o)
  PROVE  /\ strongCount[o] \in Nat /\ weakCount[o] \in Nat /\ localCount[o] \in Nat
         /\ Held(o) \in Nat /\ Traced(o) \in Nat
         /\ strongCount[o] = localCount[o] + Held(o) + Traced(o)
         /\ Held(o) = 0 <=> StrongCells(o) = {}
         /\ \A c \in Listed(o) : weakCount[o] > 0
<1>1. /\ strongCount[o] \in Nat /\ weakCount[o] \in Nat /\ localCount[o] \in Nat
      /\ Held(o) \in Nat /\ (Held(o) = 0 <=> StrongCells(o) = {})
  BY StrongFinite DEF WeakTypeOK, Held
<1>2. Traced(o) \in Nat
  BY DEF Traced
<1>3. ASSUME NEW c \in Listed(o) PROVE weakCount[o] > 0
  <2>1. /\ weakList[o] \in Seq(Entry) /\ Distinct(weakList[o]) /\ c \in ListedIn(weakList[o])
        /\ weakCount[o] = Len(weakList[o])
    BY <1>3, ListedAre DEF BookOf
  <2>2. QED BY <2>1, PositionFinds
<1>4. QED BY <1>1, <1>2, <1>3 DEF BookOf

(* One strong cell more, or one less.                                      *)
LEMMA HeldGains ==
  ASSUME WeakTypeOK, GivenInv, NEW o \in WeakObjects, NEW c,
         c \notin StrongCells(o), StrongCells(o)' = StrongCells(o) \cup {c}
  PROVE  Held(o)' = Held(o) + 1
<1>1. IsFiniteSet(StrongCells(o))
  BY StrongFinite
<1>2. Cardinality(StrongCells(o) \cup {c}) = Cardinality(StrongCells(o)) + 1
  BY <1>1, FS_AddElement
<1>3. QED BY <1>2 DEF Held

LEMMA HeldLoses ==
  ASSUME WeakTypeOK, GivenInv, NEW o \in WeakObjects, NEW c,
         c \in StrongCells(o), StrongCells(o)' = StrongCells(o) \ {c}
  PROVE  Held(o) > 0 /\ Held(o)' = Held(o) - 1
<1>1. /\ IsFiniteSet(StrongCells(o)) /\ Held(o) \in Nat
      /\ (StrongCells(o) = {} <=> Held(o) = 0)
  BY StrongFinite DEF Held
<1>2. Cardinality(StrongCells(o) \ {c}) = Cardinality(StrongCells(o)) - 1
  BY <1>1, FS_RemoveElement
<1>3. Held(o)' = Held(o) - 1
  BY <1>2 DEF Held
<1>4. QED BY <1>1, <1>3

LEMMA HeldKept ==
  ASSUME NEW o, StrongCells(o)' = StrongCells(o)
  PROVE  Held(o)' = Held(o)
BY DEF Held

LEMMA TracedKept ==
  ASSUME NEW o, UNCHANGED trace
  PROVE  Traced(o)' = Traced(o)
BY DEF Traced

(* An object that a step does not concern keeps its book.                  *)
LEMMA OtherBook ==
  ASSUME NEW o \in WeakObjects, BookOf(o),
         weakList'[o] = weakList[o], weakCount'[o] = weakCount[o],
         strongCount'[o] = strongCount[o], localCount'[o] = localCount[o],
         CellsOf(o)' = CellsOf(o), (trace.object = o)' <=> trace.object = o,
         (o \in present)' <=> o \in present
  PROVE  BookOf(o)'
<1>1. Listed(o)' = Listed(o)
  BY DEF Listed, IsWeak
<1>2. StrongCells(o)' = StrongCells(o)
  BY <1>1 DEF StrongCells
<1>3. Held(o)' = Held(o) /\ Traced(o)' = Traced(o)
  BY <1>2 DEF Held, Traced
<1>4. QED BY <1>1, <1>3 DEF BookOf

(* The list of one object is replaced by another.                          *)
LEMMA ListChanged ==
  ASSUME WeakTypeOK, NEW o \in WeakObjects, NEW new \in Seq(Entry),
         weakList' = [weakList EXCEPT ![o] = new]
  PROVE  /\ weakList' \in [WeakObjects -> Seq(Entry)] /\ weakList'[o] = new
         /\ Listed(o)' = ListedIn(new)
         /\ \A u \in WeakObjects : u # o => weakList'[u] = weakList[u] /\ Listed(u)' = Listed(u)
<1>1. /\ weakList' \in [WeakObjects -> Seq(Entry)] /\ weakList'[o] = new
      /\ \A u \in WeakObjects : u # o => weakList'[u] = weakList[u]
  BY DEF WeakTypeOK
<1>2. ASSUME NEW u \in WeakObjects, u # o PROVE Listed(u)' = Listed(u)
  <2>1. weakList'[u] = weakList[u]
    BY <1>1, <1>2
  <2>2. QED BY <2>1 DEF Listed, IsWeak
<1>3. Listed(o)' = {x \in Cells : \E k \in DOMAIN new : new[k].cell = x}
  BY <1>1 DEF Listed, IsWeak
<1>4. ListedIn(new) \subseteq Cells
  BY ListBasics
<1>5. QED BY <1>1, <1>2, <1>3, <1>4 DEF ListedIn

(* A step that leaves the trace alone, and in the list of its object what  *)
(* is to be visited next.                                                  *)
LEMMA TraceKept ==
  ASSUME TraceInv, UNCHANGED <<trace, disposed>>,
         trace.next # NoCell => trace.next \in Listed(trace.object)'
  PROVE  TraceInv'
BY DEF TraceInv

LEMMA SameLists ==
  ASSUME UNCHANGED weakList
  PROVE  \A o : Listed(o)' = Listed(o)
BY DEF Listed, IsWeak

(* What the client may do, it may do while the isolate is there.           *)
LEMMA ClientFacts ==
  ASSUME WeakInv, ClientRuns
  PROVE  /\ WeakTypeOK /\ GivenInv /\ TraceInv /\ ~disposed
         /\ \A o \in WeakObjects : BookOf(o)
BY DEF WeakInv, ClientRuns

LEMMA TouchFacts ==
  ASSUME WeakInv, NEW c \in Cells, MayTouch(c)
  PROVE  /\ ClientRuns
         /\ cell[c] \in WeakObjects /\ c \in given /\ c \in CellsOf(cell[c])
         /\ trace.next # NoCell /\ trace.object = cell[c] => trace.next # c \/ ~IsWeak(cell[c], c)
<1>1. WeakTypeOK /\ TraceInv /\ \A o \in WeakObjects : BookOf(o)
  BY ClientFacts DEF MayTouch
<1>2. ClientRuns /\ cell[c] \in WeakObjects /\ c \in given /\ c \in CellsOf(cell[c])
  BY <1>1 DEF MayTouch, WeakTypeOK, CellsOf
<1>4. ASSUME trace.next # NoCell, trace.object = cell[c], trace.next = c PROVE ~IsWeak(cell[c], c)
  <2>1. trace.at = "callback"
    BY <1>1, <1>4, <1>2 DEF TraceInv, ClientRuns, NoTrace, WeakTypeOK, Trace
  <2>2. QED BY <1>1, <1>4, <2>1 DEF MayTouch, TraceInv
<1>5. QED BY <1>2, <1>4
-----------------------------------------------------------------------------
(* Each step keeps the invariant.                                          *)

LEMMA WeakInvInit == WeakInit => WeakInv
<1> SUFFICES ASSUME WeakInit PROVE WeakInv
  OBVIOUS
<1>1. WeakTypeOK
  <2>1. NoTrace \in Trace
    BY DEF NoTrace, Trace
  <2>2. <<>> \in Seq(Entry)
    OBVIOUS
  <2>3. QED BY <2>1, <2>2, WeakAssumption DEF WeakInit, WeakTypeOK
<1>2. GivenInv
  BY FS_EmptySet DEF WeakInit, GivenInv
<1>3. TraceInv
  BY DEF WeakInit, TraceInv, NoTrace
<1>4. ASSUME NEW o \in WeakObjects PROVE BookOf(o)
  <2>1. Len(weakList[o]) = 0 /\ DOMAIN weakList[o] = {}
    BY DEF WeakInit
  <2>2. Listed(o) = {} /\ Distinct(weakList[o])
    BY <2>1 DEF Listed, IsWeak, Distinct
  <2>3. CellsOf(o) = {}
    BY WeakAssumption DEF WeakInit, CellsOf
  <2>4. Held(o) = 0
    BY <2>2, <2>3, FS_EmptySet DEF StrongCells, Held
  <2>5. Traced(o) = 0
    BY WeakAssumption DEF WeakInit, NoTrace, Traced
  <2>6. QED BY <2>1, <2>2, <2>3, <2>4, <2>5 DEF BookOf, WeakInit
<1>5. QED BY <1>1, <1>2, <1>3, <1>4 DEF WeakInv, WeakInit

LEMMA AddLocalKeeps ==
  ASSUME WeakInv, NEW o \in WeakObjects, AddLocal(o)
  PROVE  WeakInv'
<1>1. WeakTypeOK /\ GivenInv /\ TraceInv /\ ~disposed /\ \A u \in WeakObjects : BookOf(u)
  BY ClientFacts DEF AddLocal
<1>2. /\ strongCount' \in [WeakObjects -> Nat] /\ strongCount'[o] = strongCount[o] + 1
      /\ localCount' \in [WeakObjects -> Nat] /\ localCount'[o] = localCount[o] + 1
      /\ \A u \in WeakObjects : u # o => /\ strongCount'[u] = strongCount[u]
                                         /\ localCount'[u] = localCount[u]
  BY <1>1, PlusOne DEF AddLocal, WeakTypeOK
<1>3. /\ present' = present \cup {o}
      /\ UNCHANGED <<cell, given, weakCount, weakList, nearDeath, trace, disposed>>
  BY DEF AddLocal
<1>4. WeakTypeOK'
  BY <1>1, <1>2, <1>3 DEF WeakTypeOK
<1>5. GivenInv'
  BY <1>1, <1>3 DEF GivenInv
<1>6. TraceInv'
  BY <1>1, <1>3, TraceKept, SameLists DEF TraceInv
<1>7. \A u : CellsOf(u)' = CellsOf(u) /\ StrongCells(u)' = StrongCells(u) /\ Listed(u)' = Listed(u)
  BY <1>3, SameLists DEF CellsOf, StrongCells
<1>8. BookOf(o)'
  <2>1. Held(o)' = Held(o) /\ Traced(o)' = Traced(o)
    BY <1>3, <1>7, HeldKept, TracedKept
  <2>2. strongCount'[o] = localCount'[o] + Held(o)' + Traced(o)' /\ strongCount'[o] # 0
    <3>1. /\ strongCount[o] \in Nat /\ localCount[o] \in Nat
          /\ Held(o) \in Nat /\ Traced(o) \in Nat
          /\ strongCount[o] = localCount[o] + Held(o) + Traced(o)
      BY <1>1, BookNumbers
    <3>2. QED BY <1>2, <2>1, <3>1
  <2>3. BookOf(o)
    BY <1>1
  <2>4. QED BY <1>3, <1>7, <2>2, <2>3 DEF BookOf
<1>9. ASSUME NEW u \in WeakObjects, u # o PROVE BookOf(u)'
  BY <1>1, <1>2, <1>3, <1>7, <1>9, OtherBook
<1>10. QED BY <1>1, <1>3, <1>4, <1>5, <1>6, <1>8, <1>9 DEF WeakInv

LEMMA ReleaseLocalKeeps ==
  ASSUME WeakInv, NEW o \in WeakObjects, ReleaseLocal(o)
  PROVE  WeakInv'
<1>1. WeakTypeOK /\ GivenInv /\ TraceInv /\ ~disposed /\ \A u \in WeakObjects : BookOf(u)
  BY ClientFacts DEF ReleaseLocal
<1>a. localCount[o] > 0 /\ strongCount[o] > 0
  BY <1>1, BookNumbers DEF ReleaseLocal
<1>2. /\ strongCount' \in [WeakObjects -> Nat] /\ strongCount'[o] = strongCount[o] - 1
      /\ localCount' \in [WeakObjects -> Nat] /\ localCount'[o] = localCount[o] - 1
      /\ \A u \in WeakObjects : u # o => /\ strongCount'[u] = strongCount[u]
                                         /\ localCount'[u] = localCount[u]
  BY <1>1, <1>a, MinusOne DEF ReleaseLocal, WeakTypeOK
<1>3. /\ present' = IF strongCount'[o] = 0 /\ weakCount'[o] = 0 THEN present \ {o} ELSE present
      /\ UNCHANGED <<cell, given, weakCount, weakList, nearDeath, trace, disposed>>
  BY DEF ReleaseLocal, DeletedIfUnused
<1>4. WeakTypeOK'
  BY <1>1, <1>2, <1>3 DEF WeakTypeOK
<1>5. GivenInv'
  BY <1>1, <1>3 DEF GivenInv
<1>6. TraceInv'
  BY <1>1, <1>3, TraceKept, SameLists DEF TraceInv
<1>7. \A u : CellsOf(u)' = CellsOf(u) /\ StrongCells(u)' = StrongCells(u) /\ Listed(u)' = Listed(u)
  BY <1>3, SameLists DEF CellsOf, StrongCells
<1>8. BookOf(o)'
  <2>1. Held(o)' = Held(o) /\ Traced(o)' = Traced(o)
    BY <1>3, <1>7, HeldKept, TracedKept
  <2>2. strongCount'[o] = localCount'[o] + Held(o)' + Traced(o)'
    <3>1. /\ strongCount[o] \in Nat /\ localCount[o] \in Nat
          /\ Held(o) \in Nat /\ Traced(o) \in Nat
          /\ strongCount[o] = localCount[o] + Held(o) + Traced(o)
      BY <1>1, BookNumbers
    <3>2. QED BY <1>2, <2>1, <3>1
  <2>3. BookOf(o)
    BY <1>1
  <2>4. o \in present
    BY <1>a, <2>3 DEF BookOf
  <2>5. (o \in present)' <=> (strongCount[o] # 0 \/ weakCount[o] # 0)'
    BY <1>3, <2>4
  <2>6. QED BY <1>3, <1>7, <2>2, <2>3, <2>5 DEF BookOf
<1>9. ASSUME NEW u \in WeakObjects, u # o PROVE BookOf(u)'
  BY <1>1, <1>2, <1>3, <1>7, <1>9, OtherBook
<1>10. QED BY <1>1, <1>3, <1>4, <1>5, <1>6, <1>8, <1>9 DEF WeakInv

LEMMA MakePersistentKeeps ==
  ASSUME WeakInv, NEW c \in Cells, NEW o \in WeakObjects, MakePersistent(c, o)
  PROVE  WeakInv'
<1>1. WeakTypeOK /\ GivenInv /\ TraceInv /\ ~disposed /\ \A u \in WeakObjects : BookOf(u)
  BY ClientFacts DEF MakePersistent
<1>2. /\ strongCount' \in [WeakObjects -> Nat] /\ strongCount'[o] = strongCount[o] + 1
      /\ \A u \in WeakObjects : u # o => strongCount'[u] = strongCount[u]
  BY <1>1, PlusOne DEF MakePersistent, WeakTypeOK
<1>3. /\ c \notin given /\ o \in present
      /\ given' = given \cup {c}
      /\ cell' = [cell EXCEPT ![c] = o]
      /\ UNCHANGED <<present, weakCount, weakList, nearDeath, localCount, trace, disposed>>
  BY DEF MakePersistent
<1>4. WeakTypeOK'
  BY <1>1, <1>2, <1>3 DEF WeakTypeOK
<1>5. GivenInv'
  BY <1>1, <1>3, FS_AddElement DEF GivenInv, WeakTypeOK
<1>6. TraceInv'
  BY <1>1, <1>3, TraceKept, SameLists DEF TraceInv
<1>7. \A u : Listed(u)' = Listed(u)
  BY <1>3, SameLists
<1>8. cell[c] = NoTarget /\ c \notin Listed(o)
  BY <1>1, <1>3, StrongFinite DEF GivenInv, BookOf
<1>9. CellsOf(o)' = CellsOf(o) \cup {c} /\ StrongCells(o)' = StrongCells(o) \cup {c}
  BY <1>1, <1>3, <1>7, <1>8 DEF CellsOf, StrongCells, WeakTypeOK
<1>10. Held(o)' = Held(o) + 1 /\ Traced(o)' = Traced(o)
  <2>1. c \notin StrongCells(o)
    BY <1>8, WeakAssumption DEF StrongCells, CellsOf
  <2>2. QED BY <1>1, <1>3, <1>9, <2>1, HeldGains, TracedKept
<1>11. BookOf(o)'
  <2>1. BookOf(o)
    BY <1>1
  <2>2. strongCount'[o] = localCount'[o] + Held(o)' + Traced(o)' /\ strongCount'[o] # 0
    BY <1>1, <1>2, <1>3, <1>10, BookNumbers
  <2>3. QED BY <1>3, <1>7, <1>9, <2>1, <2>2 DEF BookOf
<1>12. ASSUME NEW u \in WeakObjects, u # o PROVE BookOf(u)'
  <2>1. CellsOf(u)' = CellsOf(u)
    BY <1>1, <1>3, <1>8, <1>12, WeakAssumption DEF CellsOf, WeakTypeOK
  <2>2. QED BY <1>1, <1>2, <1>3, <1>12, <2>1, OtherBook
<1>13. QED BY <1>1, <1>3, <1>4, <1>5, <1>6, <1>11, <1>12 DEF WeakInv

(* A strong handle becomes weak, or a weak one gets another callback.      *)
LEMMA MakeWeakKeeps ==
  ASSUME WeakInv, NEW c \in Cells, NEW callback \in BOOLEAN, MakeWeak(c, callback)
  PROVE  WeakInv'
<1>0. PICK o \in WeakObjects : o = cell[c]
  BY TouchFacts DEF MakeWeak
<1> DEFINE e == [cell |-> c, callback |-> callback]
<1>1. /\ WeakTypeOK /\ GivenInv /\ TraceInv /\ ~disposed /\ \A u \in WeakObjects : BookOf(u)
      /\ o \in WeakObjects /\ c \in CellsOf(o)
  BY <1>0, ClientFacts, TouchFacts DEF MakeWeak
<1>b. BookOf(o)
  BY <1>1
<1>2. UNCHANGED <<cell, given, present, nearDeath, localCount, trace, disposed>>
  BY DEF MakeWeak
<1>3. e \in Entry /\ e.cell = c
  BY DEF Entry
<1>4. /\ weakList[o] \in Seq(Entry) /\ Distinct(weakList[o])
      /\ Listed(o) = ListedIn(weakList[o])
      /\ \A x : IsWeak(o, x) <=> x \in ListedIn(weakList[o])
  BY <1>1, ListedAre DEF BookOf
<1>5. \A u : CellsOf(u)' = CellsOf(u)
  BY <1>2 DEF CellsOf
<1>6. GivenInv'
  BY <1>1, <1>2 DEF GivenInv
<1>7. Traced(o)' = Traced(o)
  BY <1>2, TracedKept
<1>a. trace.next # NoCell => trace.object \in WeakObjects
  BY <1>1 DEF TraceInv, NoTrace
<1>8. CASE IsWeak(o, c)
  <2> DEFINE new == [k \in DOMAIN weakList[o] |->
                       IF weakList[o][k].cell = e.cell THEN e ELSE weakList[o][k]]
  <2>1. /\ weakList' = [weakList EXCEPT ![o] = new]
        /\ UNCHANGED <<strongCount, weakCount>>
    BY <1>0, <1>1, <1>8, <1>3 DEF MakeWeak, WeakTypeOK
  <2>2. /\ new \in Seq(Entry) /\ Distinct(new)
        /\ ListedIn(new) = ListedIn(weakList[o]) /\ Len(new) = Len(weakList[o])
    BY <1>3, <1>4, Replaced
  <2> HIDE DEF new, e
  <2>4. /\ weakList' \in [WeakObjects -> Seq(Entry)] /\ weakList'[o] = new
        /\ Listed(o)' = ListedIn(new)
        /\ \A u \in WeakObjects : u # o => weakList'[u] = weakList[u] /\ Listed(u)' = Listed(u)
    BY <1>1, <2>1, <2>2, ListChanged
  <2>3. \A u \in WeakObjects : Listed(u)' = Listed(u)
    BY <1>4, <2>2, <2>4
  <2>5. Held(o)' = Held(o)
    <3>1. StrongCells(o)' = StrongCells(o)
      BY <1>1, <1>5, <2>3 DEF StrongCells
    <3>2. QED BY <3>1, HeldKept
  <2>6. BookOf(o)'
    <3>1. Distinct(weakList[o])' /\ (weakCount[o] = Len(weakList[o]))'
      BY <1>b, <2>1, <2>2, <2>4 DEF BookOf
    <3>2. (Listed(o) \subseteq CellsOf(o))'
      BY <1>1, <1>b, <1>5, <2>3 DEF BookOf
    <3>3. QED BY <1>b, <1>2, <1>7, <2>1, <2>5, <3>1, <3>2 DEF BookOf
  <2>7. ASSUME NEW u \in WeakObjects, u # o PROVE BookOf(u)'
    BY <1>1, <1>2, <1>5, <2>1, <2>4, <2>7, OtherBook
  <2>8. TraceInv'
    BY <1>1, <1>2, <1>a, <2>3, TraceKept DEF TraceInv
  <2>9. WeakTypeOK'
    BY <1>1, <1>2, <2>1, <2>4 DEF WeakTypeOK
  <2>10. QED BY <1>1, <1>2, <1>6, <2>6, <2>7, <2>8, <2>9 DEF WeakInv
<1>9. CASE ~IsWeak(o, c)
  <2> DEFINE new == <<e>> \o weakList[o]
  <2>1. /\ weakList' = [weakList EXCEPT ![o] = new]
        /\ strongCount' = Plus(strongCount, o, -1)
        /\ weakCount' = Plus(weakCount, o, 1)
    BY <1>0, <1>1, <1>9 DEF MakeWeak, WeakTypeOK
  <2>2. /\ new \in Seq(Entry) /\ Distinct(new)
        /\ ListedIn(new) = ListedIn(weakList[o]) \cup {c} /\ Len(new) = Len(weakList[o]) + 1
    BY <1>3, <1>4, <1>9, Prepended
  <2> HIDE DEF new, e
  <2>4. /\ weakList' \in [WeakObjects -> Seq(Entry)] /\ weakList'[o] = new
        /\ Listed(o)' = ListedIn(new)
        /\ \A u \in WeakObjects : u # o => weakList'[u] = weakList[u] /\ Listed(u)' = Listed(u)
    BY <1>1, <2>1, <2>2, ListChanged
  <2>3. Listed(o)' = Listed(o) \cup {c} /\ c \notin Listed(o)
    BY <1>4, <1>9, <2>2, <2>4
  <2>5. StrongCells(o)' = StrongCells(o) \ {c} /\ c \in StrongCells(o)
    <3>1. CellsOf(o)' = CellsOf(o)
      BY <1>5
    <3>2. QED BY <1>1, <2>3, <3>1 DEF StrongCells
  <2>6. Held(o) > 0 /\ Held(o)' = Held(o) - 1
    BY <1>1, <2>5, HeldLoses
  <2>a. strongCount[o] > 0
    BY <1>1, <2>6, BookNumbers
  <2>7. /\ strongCount' \in [WeakObjects -> Nat] /\ strongCount'[o] = strongCount[o] - 1
        /\ weakCount' \in [WeakObjects -> Nat] /\ weakCount'[o] = weakCount[o] + 1
        /\ \A u \in WeakObjects : u # o => /\ strongCount'[u] = strongCount[u]
                                           /\ weakCount'[u] = weakCount[u]
    <3>1. strongCount \in [WeakObjects -> Nat] /\ weakCount \in [WeakObjects -> Nat]
      BY <1>1 DEF WeakTypeOK
    <3>2. /\ strongCount' \in [WeakObjects -> Nat] /\ strongCount'[o] = strongCount[o] - 1
          /\ \A u \in WeakObjects : u # o => strongCount'[u] = strongCount[u]
      BY <2>1, <2>a, <3>1, MinusOne
    <3>3. /\ weakCount' \in [WeakObjects -> Nat] /\ weakCount'[o] = weakCount[o] + 1
          /\ \A u \in WeakObjects : u # o => weakCount'[u] = weakCount[u]
      BY <2>1, <3>1, PlusOne
    <3>4. QED BY <3>2, <3>3
  <2>8. BookOf(o)'
    <3>1. strongCount'[o] = localCount'[o] + Held(o)' + Traced(o)' /\ weakCount'[o] # 0
      BY <1>1, <1>2, <1>7, <2>6, <2>7, BookNumbers
    <3>2. o \in present
      BY <1>b, <2>a DEF BookOf
    <3>3. Distinct(weakList[o])' /\ (weakCount[o] = Len(weakList[o]))'
      BY <1>b, <2>2, <2>4, <2>7 DEF BookOf
    <3>4. (Listed(o) \subseteq CellsOf(o))'
      BY <1>1, <1>b, <1>5, <2>3 DEF BookOf
    <3>5. QED BY <1>2, <3>1, <3>2, <3>3, <3>4 DEF BookOf
  <2>9. ASSUME NEW u \in WeakObjects, u # o PROVE BookOf(u)'
    BY <1>1, <1>2, <1>5, <2>4, <2>7, <2>9, OtherBook
  <2>10. TraceInv'
    BY <1>1, <1>2, <1>a, <2>3, <2>4, TraceKept DEF TraceInv
  <2>11. WeakTypeOK'
    BY <1>1, <1>2, <2>4, <2>7 DEF WeakTypeOK
  <2>12. QED BY <1>1, <1>2, <1>6, <2>8, <2>9, <2>10, <2>11 DEF WeakInv
<1>10. QED BY <1>8, <1>9

LEMMA ClearWeaknessKeeps ==
  ASSUME WeakInv, NEW c \in Cells, ClearWeakness(c)
  PROVE  WeakInv'
<1>0. PICK o \in WeakObjects : o = cell[c]
  BY TouchFacts DEF ClearWeakness
<1> DEFINE new == Unlist(c, weakList[o])
<1>1. /\ WeakTypeOK /\ GivenInv /\ TraceInv /\ ~disposed /\ \A u \in WeakObjects : BookOf(u)
      /\ o \in WeakObjects /\ c \in CellsOf(o)
      /\ trace.next # NoCell /\ trace.object = o => trace.next # c
  BY <1>0, ClientFacts, TouchFacts DEF ClearWeakness
<1>b. BookOf(o)
  BY <1>1
<1>2. /\ weakList' = [weakList EXCEPT ![o] = new]
      /\ strongCount' = Plus(strongCount, o, 1)
      /\ weakCount' = Plus(weakCount, o, -1)
      /\ nearDeath' = [nearDeath EXCEPT ![o] = FALSE]
      /\ UNCHANGED <<cell, given, present, localCount, trace, disposed>>
  BY <1>0, <1>1 DEF ClearWeakness, WeakTypeOK
<1>3. /\ weakList[o] \in Seq(Entry) /\ Distinct(weakList[o])
      /\ Listed(o) = ListedIn(weakList[o]) /\ c \in Listed(o)
  BY <1>0, <1>1, ListedAre DEF BookOf, ClearWeakness, Listed
<1>4. /\ new \in Seq(Entry) /\ Distinct(new)
      /\ ListedIn(new) = Listed(o) \ {c} /\ Len(new) = Len(weakList[o]) - 1
  BY <1>3, Unlisted
<1>a. trace.next # NoCell => trace.object \in WeakObjects
  BY <1>1 DEF TraceInv, NoTrace
<1> HIDE DEF new
<1>5. /\ weakList' \in [WeakObjects -> Seq(Entry)] /\ weakList'[o] = new
      /\ Listed(o)' = Listed(o) \ {c}
      /\ \A u \in WeakObjects : u # o => weakList'[u] = weakList[u] /\ Listed(u)' = Listed(u)
  BY <1>1, <1>2, <1>4, ListChanged
<1>6. \A u : CellsOf(u)' = CellsOf(u) /\ Traced(u)' = Traced(u)
  BY <1>2, TracedKept DEF CellsOf
<1>7. Held(o)' = Held(o) + 1
  <2>1. CellsOf(o)' = CellsOf(o)
    BY <1>6
  <2>2. StrongCells(o)' = StrongCells(o) \cup {c} /\ c \notin StrongCells(o)
    BY <1>1, <1>3, <1>5, <2>1 DEF StrongCells
  <2>3. QED BY <1>1, <2>2, HeldGains
<1>8. weakCount[o] > 0
  BY <1>1, <1>3, BookNumbers
<1>9. /\ strongCount' \in [WeakObjects -> Nat] /\ strongCount'[o] = strongCount[o] + 1
      /\ weakCount' \in [WeakObjects -> Nat] /\ weakCount'[o] = weakCount[o] - 1
      /\ \A u \in WeakObjects : u # o => /\ strongCount'[u] = strongCount[u]
                                         /\ weakCount'[u] = weakCount[u]
  <2>1. strongCount \in [WeakObjects -> Nat] /\ weakCount \in [WeakObjects -> Nat]
    BY <1>1 DEF WeakTypeOK
  <2>2. /\ strongCount' \in [WeakObjects -> Nat] /\ strongCount'[o] = strongCount[o] + 1
        /\ \A u \in WeakObjects : u # o => strongCount'[u] = strongCount[u]
    BY <1>1, <1>2, <2>1, PlusOne
  <2>3. /\ weakCount' \in [WeakObjects -> Nat] /\ weakCount'[o] = weakCount[o] - 1
        /\ \A u \in WeakObjects : u # o => weakCount'[u] = weakCount[u]
    BY <1>1, <1>2, <1>8, <2>1, MinusOne
  <2>4. QED BY <2>2, <2>3
<1>10. WeakTypeOK'
  BY <1>1, <1>2, <1>5, <1>9 DEF WeakTypeOK
<1>11. GivenInv'
  BY <1>1, <1>2 DEF GivenInv
<1>12. TraceInv'
  BY <1>1, <1>2, <1>a, <1>5, TraceKept DEF TraceInv
<1>13. BookOf(o)'
  <2>1. strongCount'[o] = localCount'[o] + Held(o)' + Traced(o)' /\ strongCount'[o] # 0
    BY <1>1, <1>2, <1>6, <1>7, <1>9, BookNumbers
  <2>2. o \in present
    BY <1>b, <1>8 DEF BookOf
  <2>3. Distinct(weakList[o])' /\ (weakCount[o] = Len(weakList[o]))'
    BY <1>b, <1>4, <1>5, <1>9 DEF BookOf
  <2>4. (Listed(o) \subseteq CellsOf(o))'
    BY <1>1, <1>b, <1>5, <1>6 DEF BookOf
  <2>5. QED BY <1>2, <2>1, <2>2, <2>3, <2>4 DEF BookOf
<1>14. ASSUME NEW u \in WeakObjects, u # o PROVE BookOf(u)'
  BY <1>1, <1>2, <1>5, <1>6, <1>9, <1>14, OtherBook
<1>15. QED BY <1>1, <1>2, <1>10, <1>11, <1>12, <1>13, <1>14 DEF WeakInv

LEMMA DeletePersistentKeeps ==
  ASSUME WeakInv, NEW c \in Cells, DeletePersistent(c)
  PROVE  WeakInv'
<1>0. PICK o \in WeakObjects : o = cell[c]
  BY TouchFacts DEF DeletePersistent
<1> DEFINE new == Unlist(c, weakList[o])
<1>1. /\ WeakTypeOK /\ GivenInv /\ TraceInv /\ ~disposed /\ \A u \in WeakObjects : BookOf(u)
      /\ o \in WeakObjects /\ c \in CellsOf(o)
      /\ trace.next # NoCell /\ trace.object = o => trace.next # c \/ ~IsWeak(o, c)
  BY <1>0, ClientFacts, TouchFacts DEF DeletePersistent
<1>b. BookOf(o)
  BY <1>1
<1>2. /\ weakList' = [weakList EXCEPT ![o] = new]
      /\ present' = IF strongCount'[o] = 0 /\ weakCount'[o] = 0 THEN present \ {o} ELSE present
      /\ cell' = [cell EXCEPT ![c] = NoTarget]
      /\ UNCHANGED <<given, nearDeath, localCount, trace, disposed>>
  BY <1>0, <1>1 DEF DeletePersistent, ReleaseCell, DeletedIfUnused, WeakTypeOK
<1>3. /\ weakList[o] \in Seq(Entry) /\ Distinct(weakList[o])
      /\ Listed(o) = ListedIn(weakList[o])
      /\ IsWeak(o, c) <=> c \in Listed(o)
  BY <1>1, ListedAre DEF BookOf
<1>4. /\ new \in Seq(Entry) /\ Distinct(new)
      /\ ListedIn(new) = Listed(o) \ {c}
      /\ Len(new) = IF c \in Listed(o) THEN Len(weakList[o]) - 1 ELSE Len(weakList[o])
  BY <1>3, Unlisted
<1>a. trace.next # NoCell => trace.object \in WeakObjects
  BY <1>1 DEF TraceInv, NoTrace
<1>c. IF c \in Listed(o)
      THEN weakCount' = Plus(weakCount, o, -1) /\ UNCHANGED strongCount
      ELSE strongCount' = Plus(strongCount, o, -1) /\ UNCHANGED weakCount
  BY <1>0, <1>3 DEF DeletePersistent, ReleaseCell
<1>6. /\ CellsOf(o)' = CellsOf(o) \ {c}
      /\ \A u \in WeakObjects : u # o => CellsOf(u)' = CellsOf(u)
  BY <1>0, <1>1, <1>2, WeakAssumption DEF CellsOf, WeakTypeOK
<1>11. GivenInv'
  BY <1>1, <1>2 DEF GivenInv, WeakTypeOK
<1>d. cell' \in [Cells -> WeakObjects \cup {NoTarget}]
  BY <1>1, <1>2 DEF WeakTypeOK
<1> HIDE DEF new
<1>5. /\ weakList' \in [WeakObjects -> Seq(Entry)] /\ weakList'[o] = new
      /\ Listed(o)' = Listed(o) \ {c}
      /\ \A u \in WeakObjects : u # o => weakList'[u] = weakList[u] /\ Listed(u)' = Listed(u)
  BY <1>1, <1>2, <1>4, ListChanged
<1>7. Traced(o)' = Traced(o)
  BY <1>2, TracedKept
<1>8. IF c \in Listed(o)
      THEN Held(o)' = Held(o) /\ weakCount[o] > 0
      ELSE Held(o)' = Held(o) - 1 /\ Held(o) > 0 /\ strongCount[o] > 0
  <2>1. CASE c \in Listed(o)
    <3>1. StrongCells(o)' = StrongCells(o)
      BY <1>5, <1>6, <2>1 DEF StrongCells
    <3>2. QED BY <1>1, <2>1, <3>1, HeldKept, BookNumbers
  <2>2. CASE c \notin Listed(o)
    <3>1. StrongCells(o)' = StrongCells(o) \ {c} /\ c \in StrongCells(o)
      BY <1>1, <1>5, <1>6, <2>2 DEF StrongCells
    <3>2. Held(o)' = Held(o) - 1 /\ Held(o) > 0
      BY <1>1, <3>1, HeldLoses
    <3>3. QED BY <1>1, <2>2, <3>2, BookNumbers
  <2>3. QED BY <2>1, <2>2
<1>9. /\ strongCount' \in [WeakObjects -> Nat] /\ weakCount' \in [WeakObjects -> Nat]
      /\ strongCount'[o] = IF c \in Listed(o) THEN strongCount[o] ELSE strongCount[o] - 1
      /\ weakCount'[o] = IF c \in Listed(o) THEN weakCount[o] - 1 ELSE weakCount[o]
      /\ \A u \in WeakObjects : u # o => /\ strongCount'[u] = strongCount[u]
                                         /\ weakCount'[u] = weakCount[u]
  <2>a. strongCount \in [WeakObjects -> Nat] /\ weakCount \in [WeakObjects -> Nat]
    BY <1>1 DEF WeakTypeOK
  <2>1. CASE c \in Listed(o)
    <3>1. weakCount' = Plus(weakCount, o, -1) /\ strongCount' = strongCount /\ weakCount[o] > 0
      BY <1>c, <1>8, <2>1
    <3>2. QED BY <2>a, <2>1, <3>1, MinusOne
  <2>2. CASE c \notin Listed(o)
    <3>1. strongCount' = Plus(strongCount, o, -1) /\ weakCount' = weakCount /\ strongCount[o] > 0
      BY <1>c, <1>8, <2>2
    <3>2. QED BY <2>a, <2>2, <3>1, MinusOne
  <2>3. QED BY <2>1, <2>2
<1>10. WeakTypeOK'
  BY <1>1, <1>2, <1>d, <1>5, <1>9 DEF WeakTypeOK
<1>12. TraceInv'
  BY <1>1, <1>2, <1>a, <1>3, <1>5, TraceKept DEF TraceInv
<1>13. BookOf(o)'
  <2>1. strongCount'[o] = localCount'[o] + Held(o)' + Traced(o)'
    BY <1>1, <1>2, <1>7, <1>8, <1>9, BookNumbers
  <2>2. o \in present
    <3>1. strongCount[o] # 0 \/ weakCount[o] # 0
      BY <1>1, <1>8
    <3>2. QED BY <1>b, <3>1 DEF BookOf
  <2>3. Distinct(weakList[o])' /\ (weakCount[o] = Len(weakList[o]))'
    BY <1>b, <1>4, <1>5, <1>9 DEF BookOf
  <2>4. (Listed(o) \subseteq CellsOf(o))'
    BY <1>1, <1>b, <1>5, <1>6 DEF BookOf
  <2>5. (o \in present)' <=> (strongCount[o] # 0 \/ weakCount[o] # 0)'
    BY <1>2, <2>2
  <2>6. QED BY <2>1, <2>3, <2>4, <2>5 DEF BookOf
<1>14. ASSUME NEW u \in WeakObjects, u # o PROVE BookOf(u)'
  BY <1>1, <1>2, <1>5, <1>6, <1>9, <1>14, OtherBook
<1>15. QED BY <1>1, <1>2, <1>10, <1>11, <1>12, <1>13, <1>14 DEF WeakInv

(* An object that is traced is there, and gets a reference of the trace.   *)
LEMMA StartTraceKeeps ==
  ASSUME WeakInv, NEW c \in Cells, StartTrace(c)
  PROVE  WeakInv'
<1>0. PICK o \in WeakObjects : o = cell[c]
  BY DEF StartTrace, WeakInv, WeakTypeOK
<1> DEFINE first == NextInList(weakList[o], NoCell)
<1>1. WeakTypeOK /\ GivenInv /\ TraceInv /\ ~disposed /\ \A u \in WeakObjects : BookOf(u)
  BY DEF StartTrace, WeakInv
<1>2. /\ o \in WeakObjects /\ c \in CellsOf(o) /\ strongCount[o] = 0 /\ trace = NoTrace
      /\ strongCount' = Plus(strongCount, o, 1)
      /\ trace' = [at |-> "loop", object |-> o, current |-> NoCell, next |-> first]
      /\ UNCHANGED <<cell, given, present, weakCount, weakList, nearDeath, localCount, disposed>>
  BY <1>0, <1>1 DEF StartTrace, CellsOf, WeakTypeOK
<1>b. BookOf(o)
  BY <1>1, <1>2
<1>3. /\ weakList[o] \in Seq(Entry) /\ Distinct(weakList[o])
      /\ Listed(o) = ListedIn(weakList[o]) /\ Listed(o) \subseteq Cells
  BY <1>1, <1>2, ListedAre DEF BookOf, Listed
<1>4. first = NoCell \/ first \in Listed(o)
  BY <1>3, NextListed
<1> HIDE DEF first
<1>5. /\ trace'.at = "loop" /\ trace'.object = o /\ trace'.next = first
      /\ trace' \in Trace /\ trace.object = NoTarget
  BY <1>2, <1>3, <1>4 DEF Trace, NoTrace
<1>6. /\ strongCount' \in [WeakObjects -> Nat] /\ strongCount'[o] = strongCount[o] + 1
      /\ \A u \in WeakObjects : u # o => strongCount'[u] = strongCount[u]
  <2>1. strongCount \in [WeakObjects -> Nat]
    BY <1>1 DEF WeakTypeOK
  <2>2. QED BY <1>2, <2>1, PlusOne
<1>7. WeakTypeOK'
  BY <1>1, <1>2, <1>5, <1>6 DEF WeakTypeOK
<1>8. GivenInv'
  BY <1>1, <1>2 DEF GivenInv
<1>9. \A u : CellsOf(u)' = CellsOf(u) /\ StrongCells(u)' = StrongCells(u) /\ Listed(u)' = Listed(u)
  BY <1>2, SameLists DEF CellsOf, StrongCells
<1>10. TraceInv'
  BY <1>1, <1>2, <1>4, <1>5, <1>9 DEF TraceInv
<1>11. BookOf(o)'
  <2>1. Traced(o) = 0 /\ Traced(o)' = 1
    BY <1>2, <1>5, WeakAssumption DEF Traced
  <2>2. Held(o)' = Held(o)
    BY <1>9, HeldKept
  <2>3. StrongCells(o) = {}
    BY <1>1, <1>2, BookNumbers
  <2>4. c \in Listed(o)
    BY <1>2, <2>3 DEF StrongCells
  <2>5. weakCount[o] # 0
    BY <1>1, <1>2, <2>4, BookNumbers
  <2>6. o \in present
    BY <1>b, <2>5 DEF BookOf
  <2>7. strongCount'[o] = localCount'[o] + Held(o)' + Traced(o)'
    BY <1>1, <1>2, <1>6, <2>1, <2>2, BookNumbers
  <2>8. QED BY <1>b, <1>2, <1>9, <2>5, <2>6, <2>7 DEF BookOf
<1>12. ASSUME NEW u \in WeakObjects, u # o PROVE BookOf(u)'
  <2>1. (trace.object = u)' <=> trace.object = u
    BY <1>5, <1>12, WeakAssumption
  <2>2. QED BY <1>1, <1>2, <1>6, <1>9, <1>12, <2>1, OtherBook
<1>13. QED BY <1>1, <1>2, <1>7, <1>8, <1>10, <1>11, <1>12 DEF WeakInv

(* The entry visited is listed, and the one looked up is another.          *)
LEMMA VisitNextKeeps ==
  ASSUME WeakInv, VisitNext
  PROVE  WeakInv'
<1>1. WeakTypeOK /\ GivenInv /\ TraceInv /\ ~disposed /\ \A u \in WeakObjects : BookOf(u)
  BY DEF VisitNext, WeakInv, TraceInv
<1>2. PICK o \in WeakObjects : o = trace.object
  BY <1>1 DEF VisitNext, TraceInv
<1>3. PICK c : c = trace.next /\ c # NoCell
  BY DEF VisitNext
<1> DEFINE calls == weakList[o][Position(weakList[o], c)].callback
           next == NextInList(weakList[o], c)
<1>4. /\ trace' = [trace EXCEPT !.at = IF calls THEN "callback" ELSE "loop",
                                !.current = c, !.next = next]
      /\ nearDeath' = [nearDeath EXCEPT ![o] = @ \/ calls]
      /\ UNCHANGED <<cell, given, present, strongCount, weakCount, weakList,
                     localCount, disposed>>
  BY <1>2, <1>3 DEF VisitNext
<1>5. /\ weakList[o] \in Seq(Entry) /\ Distinct(weakList[o])
      /\ Listed(o) = ListedIn(weakList[o]) /\ Listed(o) \subseteq Cells
  BY <1>1, ListedAre DEF BookOf, Listed
<1>6. c \in Listed(o)
  BY <1>1, <1>2, <1>3 DEF TraceInv
<1>7. next = NoCell \/ (next \in Listed(o) /\ next # c)
  BY <1>5, <1>6, NextListed
<1>8. calls \in BOOLEAN
  <2>1. Position(weakList[o], c) \in 1 .. Len(weakList[o])
    BY <1>5, <1>6, PositionFinds
  <2>2. weakList[o][Position(weakList[o], c)] \in Entry
    BY <1>5, <2>1, ListBasics
  <2>3. QED BY <2>2 DEF Entry
<1> HIDE DEF calls, next
<1>9. /\ trace' \in Trace
      /\ trace'.at # "idle" /\ trace'.object = o
      /\ trace'.next = next /\ trace'.current = c
  BY <1>1, <1>2, <1>4, <1>5, <1>6, <1>7 DEF Trace, WeakTypeOK
<1>10. nearDeath' \in [WeakObjects -> BOOLEAN]
  BY <1>1, <1>4, <1>8 DEF WeakTypeOK
<1>11. WeakTypeOK'
  BY <1>1, <1>4, <1>9, <1>10 DEF WeakTypeOK
<1>12. GivenInv'
  BY <1>1, <1>4 DEF GivenInv
<1>13. TraceInv'
  BY <1>1, <1>4, <1>7, <1>9, SameLists DEF TraceInv
<1>14. ASSUME NEW u \in WeakObjects PROVE BookOf(u)'
  <2>1. CellsOf(u)' = CellsOf(u)
    BY <1>4 DEF CellsOf
  <2>2. QED BY <1>1, <1>2, <1>4, <1>9, <2>1, OtherBook
<1>15. QED BY <1>1, <1>4, <1>11, <1>12, <1>13, <1>14 DEF WeakInv

LEMMA CallbackReturnsKeeps ==
  ASSUME WeakInv, CallbackReturns
  PROVE  WeakInv'
<1>1. WeakTypeOK /\ GivenInv /\ TraceInv /\ ~disposed /\ \A u \in WeakObjects : BookOf(u)
  BY DEF CallbackReturns, WeakInv, TraceInv
<1>2. /\ trace.at = "callback" /\ trace' = [trace EXCEPT !.at = "loop"]
      /\ UNCHANGED <<cell, given, present, strongCount, weakCount, weakList, nearDeath,
                     localCount, disposed>>
  BY DEF CallbackReturns
<1>3. /\ trace' \in Trace /\ trace'.at = "loop"
      /\ trace'.object = trace.object /\ trace'.next = trace.next
  BY <1>1, <1>2 DEF WeakTypeOK, Trace
<1>4. WeakTypeOK'
  BY <1>1, <1>2, <1>3 DEF WeakTypeOK
<1>5. GivenInv'
  BY <1>1, <1>2 DEF GivenInv
<1>6. TraceInv'
  BY <1>1, <1>2, <1>3, SameLists DEF TraceInv
<1>7. ASSUME NEW u \in WeakObjects PROVE BookOf(u)'
  <2>1. CellsOf(u)' = CellsOf(u)
    BY <1>2 DEF CellsOf
  <2>2. QED BY <1>1, <1>2, <1>3, <2>1, OtherBook
<1>8. QED BY <1>1, <1>2, <1>4, <1>5, <1>6, <1>7 DEF WeakInv

(* The reference of the trace was the last strong one, or it was not.      *)
LEMMA FinishTraceKeeps ==
  ASSUME WeakInv, FinishTrace
  PROVE  WeakInv'
<1>1. WeakTypeOK /\ GivenInv /\ TraceInv /\ ~disposed /\ \A u \in WeakObjects : BookOf(u)
  BY DEF FinishTrace, WeakInv, TraceInv
<1>2. PICK o \in WeakObjects : o = trace.object
  BY <1>1 DEF FinishTrace, TraceInv
<1>b. BookOf(o)
  BY <1>1
<1>3. Traced(o) = 1 /\ Traced(o)' = 0 /\ strongCount[o] > 0
  <2>1. Traced(o) = 1
    BY <1>2 DEF Traced
  <2>2. Traced(o)' = 0
    BY WeakAssumption DEF Traced, FinishTrace, NoTrace
  <2>3. QED BY <1>1, <2>1, <2>2, BookNumbers
<1>4. /\ strongCount' \in [WeakObjects -> Nat] /\ strongCount'[o] = strongCount[o] - 1
      /\ \A u \in WeakObjects : u # o => strongCount'[u] = strongCount[u]
  <2>1. strongCount \in [WeakObjects -> Nat]
    BY <1>1 DEF WeakTypeOK
  <2>2. strongCount' = Plus(strongCount, o, -1)
    BY <1>2 DEF FinishTrace
  <2>3. QED BY <1>2, <1>3, <2>1, <2>2, MinusOne
<1>5. /\ nearDeath' \in [WeakObjects -> BOOLEAN]
      /\ trace' = NoTrace /\ NoTrace \in Trace /\ NoTrace.object = NoTarget
      /\ UNCHANGED <<given, localCount, disposed>>
  BY <1>1, <1>2 DEF FinishTrace, WeakTypeOK, NoTrace, Trace
<1>6. TraceInv'
  BY <1>1, <1>5 DEF TraceInv, NoTrace
<1>7. \A u \in WeakObjects : u # o => ((trace.object = u)' <=> trace.object = u)
  BY <1>2, <1>5, WeakAssumption
<1>8. present' = IF strongCount'[o] = 0 /\ weakCount'[o] = 0 THEN present \ {o} ELSE present
  BY <1>2 DEF FinishTrace, DeletedIfUnused
<1>9. CASE strongCount[o] - 1 = 0
  <2>1. /\ weakCount' = [weakCount EXCEPT ![o] = @ - Len(weakList[o])]
        /\ cell' = [c \in Cells |-> IF IsWeak(o, c) THEN NoTarget ELSE cell[c]]
        /\ weakList' = [weakList EXCEPT ![o] = <<>>]
    BY <1>2, <1>9 DEF FinishTrace
  <2>2. <<>> \in Seq(Entry) /\ ListedIn(<<>>) = {} /\ Len(<<>>) = 0 /\ Distinct(<<>>)
    BY DEF ListedIn, Distinct
  <2>3. /\ weakList' \in [WeakObjects -> Seq(Entry)] /\ weakList'[o] = <<>>
        /\ Listed(o)' = {}
        /\ \A u \in WeakObjects : u # o => weakList'[u] = weakList[u] /\ Listed(u)' = Listed(u)
    BY <1>1, <2>1, <2>2, ListChanged
  <2>4. /\ weakCount' \in [WeakObjects -> Nat] /\ weakCount'[o] = 0
        /\ \A u \in WeakObjects : u # o => weakCount'[u] = weakCount[u]
    <3>1. weakCount[o] \in Nat /\ weakCount[o] - Len(weakList[o]) = 0
      BY <1>1, <1>b, BookNumbers DEF BookOf
    <3>2. QED BY <1>1, <2>1, <3>1 DEF WeakTypeOK
  <2>5. localCount[o] = 0 /\ Held(o) = 0 /\ StrongCells(o) = {}
    <3>1. /\ strongCount[o] \in Nat /\ localCount[o] \in Nat /\ Held(o) \in Nat
          /\ strongCount[o] = localCount[o] + Held(o) + Traced(o)
          /\ (Held(o) = 0 <=> StrongCells(o) = {})
      BY <1>1, BookNumbers
    <3>2. QED BY <1>3, <1>9, <3>1
  <2>6. \A x \in Cells : cell[x] = o <=> IsWeak(o, x)
    BY <1>b, <2>5 DEF BookOf, StrongCells, Listed, CellsOf
  <2>7. CellsOf(o)' = {} /\ \A u \in WeakObjects : u # o => CellsOf(u)' = CellsOf(u)
    BY <2>1, <2>6, WeakAssumption DEF CellsOf
  <2>8. Held(o)' = 0
    BY <2>7, FS_EmptySet DEF Held, StrongCells
  <2>9. BookOf(o)'
    <3>1. strongCount'[o] = 0
      BY <1>1, <1>4, <1>9
    <3>2. strongCount'[o] = localCount'[o] + Held(o)' + Traced(o)'
      BY <1>3, <1>5, <2>5, <2>8, <3>1
    <3>3. ~(o \in present)'
      BY <1>8, <2>4, <3>1
    <3>4. QED BY <2>2, <2>3, <2>4, <2>7, <3>1, <3>2, <3>3 DEF BookOf
  <2>10. ASSUME NEW u \in WeakObjects, u # o PROVE BookOf(u)'
    BY <1>1, <1>4, <1>5, <1>7, <1>8, <2>3, <2>4, <2>7, <2>10, OtherBook
  <2>11. cell' \in [Cells -> WeakObjects \cup {NoTarget}] /\ GivenInv'
    BY <1>1, <1>5, <2>1 DEF WeakTypeOK, GivenInv
  <2>12. WeakTypeOK'
    BY <1>1, <1>4, <1>5, <1>8, <2>3, <2>4, <2>11 DEF WeakTypeOK
  <2>13. QED BY <1>1, <1>5, <1>6, <2>9, <2>10, <2>11, <2>12 DEF WeakInv
<1>10. CASE strongCount[o] - 1 # 0
  <2>1. UNCHANGED <<weakCount, cell, weakList>>
    BY <1>1, <1>2, <1>10 DEF FinishTrace, WeakTypeOK
  <2>2. present' = present /\ strongCount'[o] # 0
    BY <1>4, <1>8, <1>10
  <2>3. \A u : CellsOf(u)' = CellsOf(u) /\ StrongCells(u)' = StrongCells(u) /\ Listed(u)' = Listed(u)
    BY <2>1, SameLists DEF CellsOf, StrongCells
  <2>4. BookOf(o)'
    <3>1. Held(o)' = Held(o)
      BY <2>3, HeldKept
    <3>2. /\ strongCount[o] \in Nat /\ localCount[o] \in Nat /\ Held(o) \in Nat
          /\ strongCount[o] = localCount[o] + Held(o) + Traced(o)
      BY <1>1, BookNumbers
    <3>3. strongCount'[o] = localCount'[o] + Held(o)' + Traced(o)'
      BY <1>3, <1>4, <1>5, <3>1, <3>2
    <3>4. o \in present
      BY <1>3, <1>b DEF BookOf
    <3>5. QED BY <1>b, <2>1, <2>2, <2>3, <3>3, <3>4 DEF BookOf
  <2>5. ASSUME NEW u \in WeakObjects, u # o PROVE BookOf(u)'
    BY <1>1, <1>4, <1>5, <1>7, <2>1, <2>2, <2>3, <2>5, OtherBook
  <2>6. WeakTypeOK' /\ GivenInv'
    BY <1>1, <1>4, <1>5, <2>1, <2>2 DEF WeakTypeOK, GivenInv
  <2>7. QED BY <1>1, <1>5, <1>6, <2>4, <2>5, <2>6 DEF WeakInv
<1>11. QED BY <1>9, <1>10

(* All of the cells release their handles, the weak ones as weak.          *)
LEMMA DisposeIsolateKeeps ==
  ASSUME WeakInv, DisposeIsolate
  PROVE  WeakInv'
<1> DEFINE fromWeak == [o \in WeakObjects |-> Min({weakCount[o], Cardinality(CellsOf(o))})]
<1>1. WeakTypeOK /\ GivenInv /\ TraceInv /\ ~disposed /\ \A u \in WeakObjects : BookOf(u)
  BY ClientFacts DEF DisposeIsolate
<1>2. /\ trace = NoTrace
      /\ \A o \in WeakObjects : localCount[o] = 0
      /\ weakCount' = [o \in WeakObjects |-> weakCount[o] - fromWeak[o]]
      /\ strongCount' = [o \in WeakObjects |->
                           strongCount[o] - (Cardinality(CellsOf(o)) - fromWeak[o])]
      /\ present' = {o \in present : strongCount'[o] # 0 \/ weakCount'[o] # 0}
      /\ disposed' = TRUE
      /\ UNCHANGED <<cell, given, weakList, nearDeath, localCount, trace>>
  BY DEF DisposeIsolate
<1>3. ASSUME NEW o \in WeakObjects
      PROVE  /\ weakCount[o] - fromWeak[o] = 0
             /\ strongCount[o] - (Cardinality(CellsOf(o)) - fromWeak[o]) = 0
  <2>1. /\ weakList[o] \in Seq(Entry) /\ Distinct(weakList[o]) /\ Listed(o) \subseteq CellsOf(o)
        /\ weakCount[o] = Cardinality(Listed(o)) /\ IsFiniteSet(Listed(o))
    BY <1>1, ListedAre, LengthCounts DEF BookOf
  <2>2. /\ strongCount[o] \in Nat /\ weakCount[o] \in Nat /\ Held(o) \in Nat
        /\ strongCount[o] = localCount[o] + Held(o) + Traced(o)
    BY <1>1, BookNumbers
  <2>3. Traced(o) = 0 /\ localCount[o] = 0
    BY <1>2, WeakAssumption DEF Traced, NoTrace
  <2>4. Cardinality(CellsOf(o)) = weakCount[o] + Held(o)
    <3>1. /\ IsFiniteSet(StrongCells(o)) /\ Listed(o) \cap StrongCells(o) = {}
          /\ CellsOf(o) = Listed(o) \cup StrongCells(o)
      BY <1>1, <2>1, StrongFinite DEF StrongCells
    <3>2. Cardinality(Listed(o) \cup StrongCells(o))
            = Cardinality(Listed(o)) + Cardinality(StrongCells(o))
      <4>1. Cardinality(Listed(o) \cup StrongCells(o))
              = Cardinality(Listed(o)) + Cardinality(StrongCells(o)) - Cardinality({})
        BY <2>1, <3>1, FS_Union
      <4>2. Cardinality({}) = 0
        BY FS_EmptySet
      <4>3. Cardinality(Listed(o)) \in Nat /\ Cardinality(StrongCells(o)) \in Nat
        BY <2>1, <2>2 DEF Held
      <4>4. QED BY <4>1, <4>2, <4>3
    <3>3. QED BY <2>1, <3>1, <3>2 DEF Held
  <2>5. fromWeak[o] = weakCount[o]
    <3> DEFINE m == Cardinality(CellsOf(o))
               w == weakCount[o]
    <3>1. fromWeak[o] = Min({w, m})
      OBVIOUS
    <3>2. w \in Nat /\ m \in Nat /\ w <= m
      BY <2>2, <2>4
    <3> HIDE DEF m, w
    <3>3. Min({w, m}) = w
      BY <3>2 DEF Min
    <3>4. QED BY <3>1, <3>3 DEF w
  <2> HIDE DEF fromWeak
  <2>6. QED BY <2>2, <2>3, <2>4, <2>5
<1> HIDE DEF fromWeak
<1>4. \A o \in WeakObjects : strongCount'[o] = 0 /\ weakCount'[o] = 0
  BY <1>2, <1>3
<1>5. strongCount' \in [WeakObjects -> Nat] /\ weakCount' \in [WeakObjects -> Nat]
  BY <1>2, <1>3
<1>6. present' = {}
  BY <1>1, <1>2, <1>4 DEF WeakTypeOK
<1>7. WeakTypeOK' /\ GivenInv'
  BY <1>1, <1>2, <1>5, <1>6 DEF WeakTypeOK, GivenInv
<1>8. TraceInv'
  BY <1>2 DEF TraceInv, NoTrace
<1>9. QED BY <1>2, <1>6, <1>7, <1>8 DEF WeakInv

LEMMA WeakInvStep == WeakInv /\ [WeakNext]_weakVars => WeakInv'
<1> SUFFICES ASSUME WeakInv, [WeakNext]_weakVars PROVE WeakInv'
  OBVIOUS
<1>1. CASE UNCHANGED weakVars
  <2>1. \A u : BookOf(u)' <=> BookOf(u)
    BY <1>1 DEF weakVars, BookOf, Listed, IsWeak, CellsOf, Held, StrongCells, Traced
  <2>2. WeakTypeOK' /\ GivenInv' /\ TraceInv'
    BY <1>1, SameLists DEF weakVars, WeakInv, WeakTypeOK, GivenInv, TraceInv
  <2>3. QED BY <1>1, <2>1, <2>2 DEF weakVars, WeakInv
<1>2. ASSUME NEW o \in WeakObjects, AddLocal(o) \/ ReleaseLocal(o) PROVE WeakInv'
  BY <1>2, AddLocalKeeps, ReleaseLocalKeeps
<1>3. ASSUME NEW c \in Cells, NEW o \in WeakObjects, MakePersistent(c, o) PROVE WeakInv'
  BY <1>3, MakePersistentKeeps
<1>4. ASSUME NEW c \in Cells, NEW callback \in BOOLEAN, MakeWeak(c, callback) PROVE WeakInv'
  BY <1>4, MakeWeakKeeps
<1>5. ASSUME NEW c \in Cells, ClearWeakness(c) \/ DeletePersistent(c) \/ StartTrace(c)
      PROVE  WeakInv'
  BY <1>5, ClearWeaknessKeeps, DeletePersistentKeeps, StartTraceKeeps
<1>6. CASE VisitNext \/ CallbackReturns \/ FinishTrace \/ DisposeIsolate
  BY <1>6, VisitNextKeeps, CallbackReturnsKeeps, FinishTraceKeeps, DisposeIsolateKeeps
<1>7. QED BY <1>1, <1>2, <1>3, <1>4, <1>5, <1>6 DEF WeakNext
-----------------------------------------------------------------------------
(* The counters, the callback lists and the cells agree at every step.     *)
THEOREM WeakInvAlways == WeakSpec => []WeakInv
<1>1. QED BY WeakInvInit, WeakInvStep, PTL DEF WeakSpec

(* What TLC checks of the books follows: the length of a callback list is  *)
(* the number of the weak handles, since no cell is listed twice.          *)
THEOREM WeakBooksAgreeAlways == WeakSpec => []WeakBooksAgree
<1>1. ASSUME WeakInv PROVE WeakBooksAgree
  <2>1. WeakTypeOK /\ NextStaysListed
    BY <1>1 DEF WeakInv, TraceInv, NextStaysListed
  <2>2. ASSUME ~disposed, NEW o \in WeakObjects
        PROVE  /\ Listed(o) \subseteq CellsOf(o)
               /\ Len(weakList[o]) = Cardinality(Listed(o))
               /\ weakCount[o] = Cardinality(Listed(o))
               /\ strongCount[o] = localCount[o] + Cardinality(CellsOf(o) \ Listed(o))
                                     + (IF trace.object = o THEN 1 ELSE 0)
    <3>1. BookOf(o)
      BY <1>1, <2>2 DEF WeakInv
    <3>2. Len(weakList[o]) = Cardinality(Listed(o))
      BY <2>1, <3>1, ListedAre, LengthCounts DEF BookOf
    <3>3. QED BY <3>1, <3>2 DEF BookOf, Held, Traced, StrongCells
  <2>3. CountsFitHandles
    BY <2>2 DEF CountsFitHandles
  <2>4. QED BY <2>1, <2>3 DEF WeakBooksAgree
<1>2. QED BY <1>1, WeakInvAlways, PTL

(* An object exists exactly as long as a handle refers to it.              *)
THEOREM PresentIfReferencedAlways == WeakSpec => []PresentIfReferenced
<1>1. ASSUME WeakInv PROVE PresentIfReferenced
  <2>1. WeakTypeOK /\ GivenInv
    BY <1>1 DEF WeakInv
  <2>2. CASE disposed
    BY <1>1, <2>2 DEF WeakInv, PresentIfReferenced
  <2>3. ASSUME ~disposed, NEW o \in WeakObjects
        PROVE  o \in present <=> localCount[o] > 0 \/ CellsOf(o) # {} \/ trace.object = o
    <3>1. BookOf(o)
      BY <1>1, <2>3 DEF WeakInv
    <3>2. /\ weakList[o] \in Seq(Entry) /\ Distinct(weakList[o])
          /\ Listed(o) = ListedIn(weakList[o]) /\ Listed(o) \subseteq CellsOf(o)
          /\ weakCount[o] = Cardinality(Listed(o)) /\ IsFiniteSet(Listed(o))
      BY <2>1, <3>1, ListedAre, LengthCounts DEF BookOf
    <3>3. weakCount[o] = 0 <=> Listed(o) = {}
      BY <3>2, FS_EmptySet
    <3>4. /\ localCount[o] \in Nat /\ Held(o) \in Nat
          /\ strongCount[o] = localCount[o] + Held(o) + Traced(o)
          /\ (Held(o) = 0 <=> StrongCells(o) = {})
      BY <2>1, <3>1, BookNumbers
    <3>5. CellsOf(o) = {} <=> Listed(o) = {} /\ StrongCells(o) = {}
      BY <3>2 DEF StrongCells
    <3>6. Traced(o) \in {0, 1} /\ (Traced(o) = 1 <=> trace.object = o)
      BY DEF Traced
    <3>7. strongCount[o] = 0 <=> localCount[o] = 0 /\ Held(o) = 0 /\ Traced(o) = 0
      BY <3>4, <3>6
    <3>8. o \in present <=> strongCount[o] # 0 \/ weakCount[o] # 0
      BY <3>1 DEF BookOf
    <3>9. localCount[o] > 0 <=> localCount[o] # 0
      BY <3>4
    <3>10. QED BY <3>3, <3>4, <3>5, <3>6, <3>7, <3>8, <3>9
  <2>4. QED BY <2>2, <2>3 DEF PresentIfReferenced
<1>2. QED BY <1>1, WeakInvAlways, PTL

(* Only a collection that found nothing strong left clears a weak handle   *)
(* behind the client's back.                                               *)
THEOREM WeakClearedByCollectionAlways == WeakSpec => WeakClearedByCollection
<1> DEFINE Cleared(c) ==
      cell[c] # NoTarget /\ cell'[c] = NoTarget =>
        \/ MayTouch(c)
        \/ /\ trace.object = cell[c] /\ trace.at = "loop"
           /\ localCount[cell[c]] = 0
           /\ CellsOf(cell[c]) \subseteq Listed(cell[c])
<1>1. ASSUME WeakInv, [WeakNext]_weakVars, NEW c \in Cells, cell[c] # NoTarget, cell'[c] = NoTarget
      PROVE  Cleared(c)
  <2>1. ASSUME UNCHANGED cell PROVE FALSE
    BY <1>1, <2>1
  <2>2. ASSUME NEW o \in WeakObjects, AddLocal(o) \/ ReleaseLocal(o) PROVE FALSE
    BY <2>1, <2>2 DEF AddLocal, ReleaseLocal
  <2>3. ASSUME NEW d \in Cells, NEW o \in WeakObjects, MakePersistent(d, o) PROVE FALSE
    BY <1>1, <2>3, WeakAssumption DEF MakePersistent, WeakInv, WeakTypeOK
  <2>4. ASSUME NEW d \in Cells, NEW callback \in BOOLEAN, MakeWeak(d, callback) PROVE FALSE
    BY <2>1, <2>4 DEF MakeWeak
  <2>5. ASSUME NEW d \in Cells, ClearWeakness(d) \/ StartTrace(d) PROVE FALSE
    BY <2>1, <2>5 DEF ClearWeakness, StartTrace
  <2>6. ASSUME NEW d \in Cells, DeletePersistent(d) PROVE MayTouch(c)
    <3>1. cell' = [cell EXCEPT ![d] = NoTarget] /\ MayTouch(d)
      BY <2>6 DEF DeletePersistent, ReleaseCell
    <3>2. d = c
      BY <1>1, <3>1 DEF WeakInv, WeakTypeOK
    <3>3. QED BY <3>1, <3>2
  <2>7. CASE VisitNext \/ CallbackReturns \/ DisposeIsolate
    BY <2>1, <2>7 DEF VisitNext, CallbackReturns, DisposeIsolate
  <2>8. CASE FinishTrace
    <3>1. /\ WeakTypeOK /\ GivenInv /\ \A u \in WeakObjects : BookOf(u)
          /\ trace.object \in WeakObjects
      BY <1>1, <2>8 DEF FinishTrace, WeakInv, TraceInv
    <3>2. PICK o \in WeakObjects : o = trace.object
      BY <3>1
    <3>3. strongCount[o] - 1 = 0 /\ IsWeak(o, c) /\ trace.at = "loop"
      BY <1>1, <2>8, <3>2 DEF FinishTrace
    <3>4. BookOf(o)
      BY <3>1
    <3>5. cell[c] = o
      BY <3>3, <3>4 DEF BookOf, Listed, CellsOf
    <3>6. Traced(o) = 1
      BY <3>2 DEF Traced
    <3>7. /\ strongCount[o] \in Nat /\ localCount[o] \in Nat /\ Held(o) \in Nat
          /\ strongCount[o] = localCount[o] + Held(o) + Traced(o)
          /\ (Held(o) = 0 <=> StrongCells(o) = {})
      BY <3>1, <3>4, BookNumbers
    <3>8. localCount[o] = 0 /\ StrongCells(o) = {}
      BY <3>3, <3>6, <3>7
    <3>9. QED BY <3>2, <3>3, <3>5, <3>8 DEF StrongCells
  <2>9. QED BY <1>1, <2>1, <2>2, <2>3, <2>4, <2>5, <2>6, <2>7, <2>8 DEF WeakNext, weakVars
<1>2. ASSUME WeakInv, [WeakNext]_weakVars PROVE [\A c \in Cells : Cleared(c)]_weakVars
  BY <1>1, <1>2
<1>3. QED BY <1>2, WeakInvAlways, PTL DEF WeakSpec, WeakClearedByCollection
=============================================================================
