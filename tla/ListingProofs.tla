---------------------------- MODULE ListingProofs ----------------------------
(***************************************************************************)
(* Proofs about Listing for any finite set of products, any keys and any   *)
(* size of a page: a scroll stays in order and lists every product that    *)
(* stays put exactly once, and an undisturbed listing is complete.         *)
(***************************************************************************)
EXTENDS Listing, TLAPS, FiniteSetTheorems, SequenceTheorems

-----------------------------------------------------------------------------
(*                        Sorting by rank                                  *)

(* The positions are strictly and totally ordered, both ways.              *)
LEMMA OrderFacts ==
  /\ \A a \in PositionRecord : ~Order(a, a)
  /\ \A a, b, c \in PositionRecord : Order(a, b) /\ Order(b, c) => Order(a, c)
  /\ \A a, b \in PositionRecord : a = b \/ Order(a, b) \/ Order(b, a)
<1>1. \A a \in PositionRecord : a.key \in Nat /\ a.id \in Nat
  BY ListingAssumption DEF PositionRecord
<1>2. \A a, b \in PositionRecord : a.key = b.key /\ a.id = b.id => a = b
  BY DEF PositionRecord
<1>3. \A a \in PositionRecord : ~Before(a, a)
  BY <1>1 DEF Before
<1>4. \A a, b, c \in PositionRecord : Before(a, b) /\ Before(b, c) => Before(a, c)
  BY <1>1 DEF Before
<1>5. \A a, b \in PositionRecord : a = b \/ Before(a, b) \/ Before(b, a)
  BY <1>1, <1>2 DEF Before
<1>. QED
  BY <1>3, <1>4, <1>5 DEF Order

(* Ranks count from zero, and grow with the order.                         *)
LEMMA RankFacts ==
  ASSUME NEW P \in SUBSET PositionRecord, IsFiniteSet(P), NEW a \in P
  PROVE  /\ Rank(a, P) \in 0 .. Cardinality(P) - 1
         /\ \A b \in P : Order(a, b) => Rank(a, P) < Rank(b, P)
<1>. DEFINE pre(b) == {c \in P : Order(c, b)}
<1>1. \A b \in P : IsFiniteSet(pre(b)) /\ Cardinality(pre(b)) \in Nat
  BY FS_Subset, FS_CardinalityType
<1>2. Cardinality(P) \in Nat
  BY FS_CardinalityType
<1>3. Cardinality(pre(a)) < Cardinality(P)
  <2>1. pre(a) \subseteq P /\ a \notin pre(a)
    BY OrderFacts
  <2>2. Cardinality(pre(a)) <= Cardinality(P) /\ Cardinality(pre(a)) # Cardinality(P)
    BY <2>1, FS_Subset
  <2>. QED
    BY <1>1, <1>2, <2>2
<1>4. ASSUME NEW b \in P, Order(a, b)
      PROVE  Cardinality(pre(a)) < Cardinality(pre(b))
  <2>1. pre(a) \subseteq pre(b) /\ a \in pre(b) /\ a \notin pre(a)
    BY <1>4, OrderFacts
  <2>. HIDE DEF pre
  <2>2. Cardinality(pre(a)) <= Cardinality(pre(b)) /\ Cardinality(pre(a)) # Cardinality(pre(b))
    BY <1>1, <2>1, FS_Subset
  <2>. QED
    BY <1>1, <2>2
<1>. QED
  BY <1>1, <1>2, <1>3, <1>4 DEF Rank

(* Every rank is taken.                                                    *)
LEMMA RanksTaken ==
  ASSUME NEW P \in SUBSET PositionRecord, IsFiniteSet(P), NEW n \in 0 .. Cardinality(P) - 1
  PROVE  \E a \in P : Rank(a, P) = n
<1>. DEFINE R == 0 .. Cardinality(P) - 1
            f == [a \in P |-> Rank(a, P)]
<1>1. Cardinality(P) \in Nat
  BY FS_CardinalityType
<1>2. IsFiniteSet(R) /\ Cardinality(R) = Cardinality(P)
  BY <1>1, FS_Interval
<1>3. \A a, b \in P : a # b => Rank(a, P) # Rank(b, P)
  <2>1. \A a \in P : Rank(a, P) \in 0 .. Cardinality(P) - 1
    BY RankFacts
  <2>2. \A a, b \in P : Order(a, b) => Rank(a, P) < Rank(b, P)
    BY RankFacts
  <2>. QED
    BY <1>1, <2>1, <2>2, OrderFacts
<1>4. f \in Injection(P, R)
  BY <1>3, RankFacts DEF Injection, IsInjective
<1>5. f \in Surjection(P, R)
  <2>. HIDE DEF f, R
  <2>. QED
    BY <1>2, <1>4, FS_Injection
<1>. QED
  BY <1>5 DEF Surjection

(* A list that shows the positions of P, each once and in order.           *)
Lists(s, P) ==
  /\ s \in Seq(PositionRecord)
  /\ {s[n] : n \in DOMAIN s} = P
  /\ \A m, n \in DOMAIN s : m < n => Order(s[m], s[n])

LEMMA SortedLists ==
  ASSUME NEW P \in SUBSET PositionRecord, IsFiniteSet(P)
  PROVE  Lists(Sorted(P), P) /\ Len(Sorted(P)) = Cardinality(P)
<1>. DEFINE s == Sorted(P)
            N == Cardinality(P)
<1>1. N \in Nat
  BY FS_CardinalityType
<1>2. DOMAIN s = 1 .. N
  BY DEF Sorted
<1>3. ASSUME NEW n \in 1 .. N
      PROVE  s[n] \in P /\ Rank(s[n], P) = n - 1
  <2>1. n - 1 \in 0 .. N - 1
    BY <1>1
  <2>2. \E a \in P : Rank(a, P) = n - 1
    BY <2>1, RanksTaken
  <2>3. s[n] = CHOOSE a \in P : Rank(a, P) = n - 1
    BY DEF Sorted
  <2>. QED
    BY <2>2, <2>3
<1>4. s \in [1 .. N -> PositionRecord]
  BY <1>3 DEF Sorted
<1>5. s \in Seq(PositionRecord) /\ Len(s) = N
  BY <1>1, <1>4
<1>6. ASSUME NEW a \in P
      PROVE  \E n \in 1 .. N : s[n] = a
  <2>1. Rank(a, P) \in 0 .. N - 1 /\ \A b \in P : Rank(b, P) = Rank(a, P) => b = a
    <3>1. \A b, c \in P : Order(b, c) => Rank(b, P) < Rank(c, P)
      BY RankFacts
    <3>2. \A b \in P : Rank(b, P) \in 0 .. N - 1
      BY RankFacts
    <3>. QED
      BY <1>1, <3>1, <3>2, OrderFacts
  <2>2. Rank(a, P) + 1 \in 1 .. N /\ (Rank(a, P) + 1) - 1 = Rank(a, P)
    BY <1>1, <2>1
  <2>. HIDE DEF s
  <2>3. s[Rank(a, P) + 1] = a
    BY <1>3, <2>1, <2>2
  <2>. QED
    BY <2>2, <2>3
<1>7. ASSUME NEW m \in 1 .. N, NEW n \in 1 .. N, m < n
      PROVE  Order(s[m], s[n])
  <2>1. Order(s[n], s[m]) => Rank(s[n], P) < Rank(s[m], P)
    BY <1>3, RankFacts
  <2>2. s[m] # s[n] /\ ~Order(s[n], s[m])
    BY <1>3, <1>7, <2>1
  <2>. QED
    BY <1>3, <2>2, OrderFacts
<1>. HIDE DEF s, N
<1>8. {s[n] : n \in DOMAIN s} = P
  BY <1>2, <1>3, <1>6
<1>. QED
  BY <1>2, <1>5, <1>7, <1>8 DEF Lists, s, N

(* There is only one such list.                                            *)
LEMMA OneList ==
  ASSUME NEW P \in SUBSET PositionRecord, IsFiniteSet(P), NEW s, Lists(s, P)
  PROVE  s = Sorted(P)
<1>. DEFINE N == Len(s)
<1>1. /\ s \in Seq(PositionRecord) /\ N \in Nat /\ DOMAIN s = 1 .. N
      /\ s = [n \in 1 .. N |-> s[n]]
  BY DEF Lists
<1>2. \A m, n \in 1 .. N : m < n => Order(s[m], s[n])
  BY <1>1 DEF Lists
<1>3. {s[n] : n \in 1 .. N} = P
  BY <1>1 DEF Lists
<1>4. \A m, n \in 1 .. N : s[m] \in PositionRecord /\ (m # n => s[m] # s[n])
  BY <1>1, <1>2, OrderFacts
<1>. HIDE DEF N
<1>5. ASSUME NEW n \in 1 .. N
      PROVE  Rank(s[n], P) = n - 1
  <2>. DEFINE T == 1 .. n - 1
              U == {b \in P : Order(b, s[n])}
              f == [m \in T |-> s[m]]
  <2>1. \A m \in 1 .. N : Order(s[m], s[n]) <=> m < n
    BY <1>1, <1>2, <1>4, OrderFacts
  <2>2. f \in [T -> U]
    BY <1>1, <1>3, <2>1
  <2>3. f \in Injection(T, U)
    <3>1. T \subseteq 1 .. N
      BY <1>1
    <3>2. \A k, m \in T : f[k] = f[m] => k = m
      BY <1>4, <3>1
    <3>. QED
      BY <2>2, <3>2 DEF Injection, IsInjective
  <2>4. f \in Surjection(T, U)
    <3>1. ASSUME NEW b \in U
          PROVE  \E m \in T : f[m] = b
      <4>1. PICK m \in 1 .. N : s[m] = b
        BY <1>3
      <4>2. m \in T
        BY <1>1, <2>1, <4>1
      <4>. QED
        BY <4>1, <4>2
    <3>. QED
      BY <2>2, <3>1 DEF Surjection
  <2>5. ExistsBijection(T, U)
    BY <2>3, <2>4 DEF ExistsBijection, Bijection
  <2>6. IsFiniteSet(T) /\ Cardinality(T) = n - 1
    BY <1>1, FS_Interval
  <2>. HIDE DEF T, U
  <2>7. Cardinality(U) = n - 1
    BY <2>5, <2>6, FS_Bijection
  <2>. QED
    BY <2>7 DEF U, Rank
<1>6. Cardinality(P) = N
  <2>. DEFINE f == [n \in 1 .. N |-> s[n]]
  <2>1. f \in Injection(1 .. N, P) /\ f \in Surjection(1 .. N, P)
    <3>1. f \in [1 .. N -> P]
      BY <1>3
    <3>2. \A k, m \in 1 .. N : f[k] = f[m] => k = m
      BY <1>4
    <3>3. \A b \in P : \E m \in 1 .. N : f[m] = b
      BY <1>3
    <3>. QED
      BY <3>1, <3>2, <3>3 DEF Injection, IsInjective, Surjection
  <2>2. ExistsBijection(1 .. N, P)
    BY <2>1 DEF ExistsBijection, Bijection
  <2>. HIDE DEF f
  <2>3. N \in Nat
    BY <1>1
  <2>4. IsFiniteSet(1 .. N) /\ Cardinality(1 .. N) = N
    BY <2>3, FS_Interval
  <2>. QED
    BY <2>2, <2>4, FS_Bijection
<1>7. ASSUME NEW n \in 1 .. N
      PROVE  s[n] = CHOOSE a \in P : Rank(a, P) = n - 1
  <2>1. s[n] \in P
    BY <1>3
  <2>2. ASSUME NEW a \in P, Rank(a, P) = n - 1
        PROVE  a = s[n]
    <3>1. PICK m \in 1 .. N : a = s[m]
      BY <1>3
    <3>2. m - 1 = n - 1
      BY <1>5, <2>2, <3>1
    <3>. QED
      BY <1>1, <3>1, <3>2
  <2>. QED
    BY <1>5, <2>1, <2>2
<1>. QED
  BY <1>1, <1>6, <1>7 DEF Sorted
-----------------------------------------------------------------------------
(*                     What a request finds                                *)

Positions(xs) == {Position(x) : x \in xs}

(* The rows of a snapshot take positions, finitely many, each its own.     *)
LEMMA PositionFacts ==
  ASSUME Typed, NEW xs \in SUBSET Filtered
  PROVE  /\ IsFiniteSet(xs)
         /\ Positions(xs) \in SUBSET PositionRecord /\ IsFiniteSet(Positions(xs))
         /\ \A p \in Positions(xs) : p.id \in xs /\ p = Position(p.id)
<1>1. IsFiniteSet(xs)
  BY ListingAssumption, FS_Subset DEF Filtered
<1>2. ASSUME NEW x \in xs
      PROVE  Position(x) \in PositionRecord /\ Position(x).id = x
  <2>1. x \in Product /\ rows[x] \in RowRecord
    BY DEF Filtered, Exists, Typed
  <2>2. rows[x].key \in Key
    BY <2>1 DEF RowRecord
  <2>. QED
    BY <2>1, <2>2 DEF Position, PositionRecord
<1>3. IsFiniteSet(Positions(xs))
  <2>. DEFINE f == [x \in xs |-> Position(x)]
  <2>1. f \in Surjection(xs, Positions(xs))
    BY DEF Surjection, Positions
  <2>. HIDE DEF f
  <2>. QED
    BY <1>1, <2>1, FS_Surjection
<1>. QED
  BY <1>1, <1>2, <1>3 DEF Positions

(* A request finds the rows it may show, each once and in order.           *)
LEMMA OrderedLists ==
  ASSUME Typed, NEW xs \in SUBSET Filtered
  PROVE  /\ Lists(Ordered(xs), Positions(xs))
         /\ \A s : Lists(s, Positions(xs)) => s = Ordered(xs)
         /\ Len(Ordered(xs)) = Cardinality(Positions(xs))
<1>1. Ordered(xs) = Sorted(Positions(xs))
  BY DEF Ordered, Positions
<1>. QED
  BY <1>1, PositionFacts, SortedLists, OneList

(* Nobody who does not change the query changes the order.                 *)
LEMMA OrderSame ==
  ASSUME UNCHANGED query, NEW a, NEW b
  PROVE  Order(a, b)' <=> Order(a, b)
BY DEF Order, Before

LEMMA OrderedSame ==
  ASSUME UNCHANGED <<rows, query>>
  PROVE  Ordered(Filtered)' = Ordered(Filtered)
<1>1. Filtered' = Filtered
  BY DEF Filtered, Exists
<1>2. {Position(x) : x \in Filtered}' = {Position(x) : x \in Filtered}
  BY <1>1 DEF Position
<1>3. \A a, P : Rank(a, P)' = Rank(a, P)
  BY OrderSame DEF Rank
<1>. DEFINE P == {Position(x) : x \in Filtered}
<1>4. P' = P
  BY <1>2
<1>5. ASSUME NEW Q
      PROVE  Sorted(Q)' = Sorted(Q)
  BY <1>3 DEF Sorted
<1>. QED
  BY <1>2, <1>5 DEF Ordered

(* How a page of a scroll extends it: with the rows beyond the cursor, all *)
(* of them when it is the last, else up to the new cursor.                 *)
LEMMA ScrollStep ==
  ASSUME Typed, Fetch, query.mode = "cursor"
  PROVE  \E f, k :
           /\ Lists(f, Positions({x \in Filtered : Beyond(Position(x))}))
           /\ f = Ordered({x \in Filtered : Beyond(Position(x))})
           /\ k \in 0 .. Len(f) /\ listed' = listed \o SubSeq(f, 1, k)
           /\ \/ k = Len(f) /\ k <= SIZE /\ done' /\ cursor' = cursor
              \/ k = SIZE /\ k < Len(f) /\ ~done' /\ cursor' = f[k]
<1>. DEFINE found == Ordered({x \in Filtered : Beyond(Position(x))})
            front == IF Len(found) < SIZE + 1 THEN Len(found) ELSE SIZE + 1
            fetched == SubSeq(found, 1, front)
<1>1. Lists(found, Positions({x \in Filtered : Beyond(Position(x))}))
  <2>1. {x \in Filtered : Beyond(Position(x))} \in SUBSET Filtered
    OBVIOUS
  <2>. QED
    BY <2>1, OrderedLists
<1>2. found \in Seq(PositionRecord)
  BY <1>1 DEF Lists
<1>3. After /\ ~done
  BY DEF Fetch, Page
<1>4. FetchPage(SIZE + 1) = fetched
  BY DEF FetchPage
<1>. HIDE DEF found
<1>5. SIZE \in Nat \ {0} /\ Len(found) \in Nat
  BY <1>2, ListingAssumption
<1>6. CASE Len(found) <= SIZE
  <2>1. fetched = SubSeq(found, 1, Len(found)) /\ fetched = found
    BY <1>2, <1>5, <1>6
  <2>2. listed' = listed \o fetched /\ done' /\ cursor' = cursor
    BY <1>3, <1>4, <1>6, <2>1 DEF After, NoMore
  <2>3. Len(found) \in 0 .. Len(found)
    BY <1>5
  <2>. QED
    BY <1>1, <1>6, <2>1, <2>2, <2>3 DEF found
<1>7. CASE ~(Len(found) <= SIZE)
  <2>1. fetched = SubSeq(found, 1, SIZE + 1) /\ Len(fetched) = SIZE + 1
    BY <1>2, <1>5, <1>7
  <2>2. SubSeq(fetched, 1, SIZE) = SubSeq(found, 1, SIZE) /\ fetched[SIZE] = found[SIZE]
    BY <1>2, <1>5, <1>7, <2>1
  <2>3. ~NoMore(fetched)
    BY <1>5, <2>1 DEF NoMore
  <2>. HIDE DEF fetched
  <2>4. /\ listed' = listed \o SubSeq(found, 1, SIZE)
        /\ cursor' = found[SIZE]
        /\ ~done'
    BY <1>3, <1>4, <2>2, <2>3 DEF After
  <2>5. SIZE \in 0 .. Len(found) /\ SIZE < Len(found)
    BY <1>5, <1>7
  <2>. QED
    BY <1>1, <2>4, <2>5 DEF found
<1>. QED
  BY <1>6, <1>7

(* What every request leaves as it has to be.                              *)
LEMMA TypedNext ==
  ASSUME Typed, Next
  PROVE  Typed'
<1>1. CASE Fetch
  <2>1. /\ rows' = rows /\ query' = query /\ page' = page + 1
        /\ Filtered' = Filtered
    BY <1>1 DEF Fetch, Filtered, Exists
  <2>2. stayed' \in [products : SUBSET Filtered, quiet : BOOLEAN]
    BY <1>1 DEF Fetch, Typed
  <2>3. /\ listed' \in Seq(PositionRecord) /\ done' \in BOOLEAN
        /\ cursor' \in PositionRecord \cup {NoCursor}
    <3>1. CASE query.mode = "cursor"
      <4>1. PICK f, k :
              /\ f \in Seq(PositionRecord)
              /\ k \in 0 .. Len(f) /\ listed' = listed \o SubSeq(f, 1, k)
              /\ \/ k = Len(f) /\ k <= SIZE /\ done' /\ cursor' = cursor
                 \/ k = SIZE /\ k < Len(f) /\ ~done' /\ cursor' = f[k]
        BY <1>1, <3>1, ScrollStep DEF Lists
      <4>2. SubSeq(f, 1, k) \in Seq(PositionRecord)
        BY <4>1
      <4>3. done' \in BOOLEAN
        BY <1>1, <3>1 DEF Fetch, After, Page, Typed
      <4>4. cursor' = f[k] /\ k = SIZE /\ k < Len(f) => cursor' \in PositionRecord
        BY <4>1, ListingAssumption
      <4>. QED
        BY <4>1, <4>2, <4>3, <4>4 DEF Typed
    <3>2. CASE query.mode # "cursor"
      <4>. DEFINE found == Ordered(Filtered)
                  offset == (page - 1) * SIZE
      <4>1. Page
        BY <1>1, <3>2 DEF Fetch, After
      <4>2. found \in Seq(PositionRecord)
        BY OrderedLists DEF Lists
      <4>3. offset \in Nat
        BY ListingAssumption DEF Typed
      <4>. HIDE DEF found, offset
      <4>4. SubSeq(found, offset + 1, IF Len(found) < offset + SIZE THEN Len(found) ELSE offset + SIZE)
              \in Seq(PositionRecord)
        <5>1. SIZE \in Nat
          BY ListingAssumption
        <5>. QED
          BY <4>2, <4>3, <5>1
      <4>5. listed' \in Seq(PositionRecord)
        <5>1. listed' = listed \o (IF offset >= Len(found) THEN <<>>
                ELSE SubSeq(found, offset + 1,
                            IF Len(found) < offset + SIZE THEN Len(found) ELSE offset + SIZE))
          BY <4>1 DEF Page, found, offset
        <5>. QED
          BY <4>4, <5>1 DEF Typed
      <4>6. done' \in BOOLEAN /\ cursor' = cursor
        BY <4>1 DEF Page
      <4>. QED
        BY <4>5, <4>6 DEF Typed
    <3>. QED
      BY <3>1, <3>2
  <2>. QED
    BY <2>1, <2>2, <2>3 DEF Typed
<1>2. CASE Edit
  <2>. USE DEF Typed
  <2>1. ASSUME NEW x \in Product, Delete(x)
        PROVE  Typed'
    <3>1. stayed.products \ {x} \subseteq Filtered'
      BY <2>1 DEF Delete, Filtered, Exists
    <3>. QED
      BY <2>1, <3>1 DEF Delete, Changed
  <2>2. ASSUME NEW x \in Product, NEW row \in RowRecord, Create(x, row)
        PROVE  Typed'
    <3>1. stayed.products \ {} \subseteq Filtered'
      BY <2>2 DEF Create, Filtered, Exists
    <3>. QED
      BY <2>2, <3>1 DEF Create, Changed
  <2>3. ASSUME NEW x \in Product, NEW row \in RowRecord, Update(x, row)
        PROVE  Typed'
    <3>1. stayed.products \ {x} \subseteq Filtered'
      BY <2>3 DEF Update, Filtered, Exists
    <3>. QED
      BY <2>3, <3>1 DEF Update, Changed
  <2>. QED
    BY <1>2, <2>1, <2>2, <2>3 DEF Edit
<1>. QED
  BY <1>1, <1>2 DEF Next

-----------------------------------------------------------------------------
(*                     The inductive invariant                             *)

LEMMA InitIInv ==
  ASSUME Init
  PROVE  IInv
<1>1. rows \in [Product -> RowRecord \cup {Absent, Gone}]
  BY DEF Init
<1>2. Typed
  <2>1. query \in Query /\ cursor \in PositionRecord \cup {NoCursor}
    BY DEF Init
  <2>2. page \in Nat \ {0}
    BY DEF Init
  <2>5. done \in BOOLEAN
    BY DEF Init
  <2>4. listed \in Seq(PositionRecord)
    BY DEF Init
  <2>3. stayed \in [products : SUBSET Filtered, quiet : BOOLEAN]
    BY DEF Init
  <2>. QED
    BY <1>1, <2>1, <2>2, <2>3, <2>4, <2>5 DEF Typed
<1>3. Fresh /\ ScrolledInOrder
  BY DEF Init, Fresh, ScrolledInOrder
<1>4. CursorOK
  BY DEF Init, CursorOK
<1>5. QuietOK
  <2>. DEFINE all == Ordered(Filtered)
  <2>1. all \in Seq(PositionRecord)
    BY <1>2, OrderedLists DEF Lists
  <2>. HIDE DEF all
  <2>2. SubSeq(all, 1, (page - 1) * SIZE) = <<>>
    <3>1. (page - 1) * SIZE = 0
      BY ListingAssumption DEF Init
    <3>2. SubSeq(all, 1, 0) = <<>>
      BY <2>1
    <3>. QED
      BY <3>1, <3>2
  <2>3. ~done /\ listed = <<>> /\ ~(page > 1)
    BY DEF Init
  <2>. QED
    BY <2>2, <2>3 DEF QuietOK, all
<1>. QED
  BY <1>2, <1>3, <1>4, <1>5 DEF IInv

(* What a scroll adds to its list.                                         *)
LEMMA ScrollAppends ==
  ASSUME Typed, NEW f \in Seq(PositionRecord), NEW k \in 0 .. Len(f),
         listed' = listed \o SubSeq(f, 1, k)
  PROVE  /\ Len(listed) \in Nat /\ Len(listed') = Len(listed) + k
         /\ DOMAIN listed = 1 .. Len(listed) /\ DOMAIN listed' = 1 .. Len(listed) + k
         /\ \A n \in 1 .. Len(listed) : listed'[n] = listed[n]
         /\ \A n \in Len(listed) + 1 .. Len(listed) + k :
              n - Len(listed) \in 1 .. k /\ listed'[n] = f[n - Len(listed)]
         /\ \A j \in 1 .. k : Len(listed) + j \in DOMAIN listed' /\ listed'[Len(listed) + j] = f[j]
<1>1. listed \in Seq(PositionRecord)
  BY DEF Typed
<1>. DEFINE new == SubSeq(f, 1, k)
<1>2. new \in Seq(PositionRecord) /\ Len(new) = k /\ \A j \in 1 .. k : new[j] = f[j]
  OBVIOUS
<1>3. listed' = listed \o new
  OBVIOUS
<1>. HIDE DEF new
<1>4. Len(listed) \in Nat /\ Len(listed') = Len(listed) + k
  BY <1>1, <1>2, <1>3
<1>5. DOMAIN listed = 1 .. Len(listed) /\ DOMAIN listed' = 1 .. Len(listed) + k
  BY <1>1, <1>2, <1>3, <1>4
<1>6. \A n \in 1 .. Len(listed) : listed'[n] = listed[n]
  BY <1>1, <1>2, <1>3, <1>4
<1>7. \A n \in Len(listed) + 1 .. Len(listed) + k :
        n - Len(listed) \in 1 .. k /\ listed'[n] = f[n - Len(listed)]
  BY <1>1, <1>2, <1>3, <1>4
<1>8. \A j \in 1 .. k : Len(listed) + j \in DOMAIN listed' /\ listed'[Len(listed) + j] = f[j]
  BY <1>1, <1>2, <1>3, <1>4, <1>5
<1>. QED
  BY <1>4, <1>5, <1>6, <1>7, <1>8

(* A page of a scroll keeps the list in order: its rows lie beyond the     *)
(* cursor, and everything shown before lies up to it.                      *)
LEMMA FetchScrolls ==
  ASSUME Typed, Fresh, CursorOK, ScrolledInOrder, Fetch, query.mode = "cursor"
  PROVE  CursorOK' /\ ScrolledInOrder'
<1>. DEFINE L == Len(listed)
            ahead == {x \in Filtered : Beyond(Position(x))}
<1>1. PICK f, k :
        /\ Lists(f, Positions(ahead))
        /\ k \in 0 .. Len(f) /\ listed' = listed \o SubSeq(f, 1, k)
        /\ \/ k = Len(f) /\ k <= SIZE /\ done' /\ cursor' = cursor
           \/ k = SIZE /\ k < Len(f) /\ ~done' /\ cursor' = f[k]
  BY ScrollStep
<1>2. f \in Seq(PositionRecord) /\ DOMAIN f = 1 .. Len(f) /\ Len(f) \in Nat
  BY <1>1 DEF Lists
<1>3. \A m, n \in 1 .. Len(f) : m < n => Order(f[m], f[n])
  BY <1>1, <1>2 DEF Lists
<1>4. ahead \in SUBSET Filtered
  OBVIOUS
<1>5. \A j \in 1 .. Len(f) : /\ f[j].id \in ahead /\ f[j] = Position(f[j].id)
                             /\ f[j] \in PositionRecord /\ Beyond(f[j])
  <2>1. ASSUME NEW j \in 1 .. Len(f)
        PROVE  f[j] \in Positions(ahead)
    BY <1>1, <1>2 DEF Lists
  <2>2. \A p \in Positions(ahead) : p.id \in ahead /\ p = Position(p.id) /\ p \in PositionRecord
    BY <1>4, PositionFacts
  <2>3. \A p \in Positions(ahead) : Beyond(p)
    BY <2>2
  <2>. HIDE DEF ahead
  <2>. QED
    BY <2>1, <2>2, <2>3
<1>6. \A x \in ahead : \E j \in 1 .. Len(f) : f[j] = Position(x)
  <2>1. \A x \in ahead : Position(x) \in Positions(ahead)
    BY DEF Positions
  <2>. QED
    BY <1>1, <1>2, <2>1 DEF Lists
<1>. HIDE DEF ahead
<1>7. /\ L \in Nat /\ Len(listed') = L + k
      /\ DOMAIN listed = 1 .. L /\ DOMAIN listed' = 1 .. L + k
      /\ \A n \in 1 .. L : listed'[n] = listed[n]
      /\ \A n \in L + 1 .. L + k : n - L \in 1 .. k /\ listed'[n] = f[n - L]
      /\ \A j \in 1 .. k : L + j \in DOMAIN listed' /\ listed'[L + j] = f[j]
  BY <1>1, <1>2, ScrollAppends
<1>8. \A n \in 1 .. L : listed[n] \in PositionRecord
  BY <1>7 DEF Typed
<1>. HIDE DEF L
<1>15. /\ k \in Nat /\ k <= Len(f) /\ L \in Nat /\ Len(f) \in Nat
       /\ ~done' => k = SIZE /\ k < Len(f) /\ cursor' = f[k] /\ k \in 1 .. Len(f)
       /\ k # Len(f) => ~done'
  <2>5. L \in Nat
    BY <1>7
  <2>6. Len(f) \in Nat
    BY <1>2
  <2>1. k \in Nat /\ k <= Len(f)
    <3>1. k \in 0 .. Len(f)
      BY <1>1
    <3>. QED
      BY <2>6, <3>1
  <2>2. ~done' => k = SIZE /\ k < Len(f) /\ cursor' = f[k]
    BY <1>1
  <2>3. k # Len(f) => ~done'
    BY <1>1
  <2>4. k = SIZE => k # 0
    BY ListingAssumption
  <2>7. ~done' => k \in 1 .. Len(f)
    BY <2>1, <2>2, <2>4, <2>6
  <2>. QED
    BY <2>1, <2>2, <2>3, <2>5, <2>6, <2>7
<1>16. /\ \A n \in 1 .. L + k : n \in 1 .. L \/ (n \in L + 1 .. L + k /\ n - L \in 1 .. Len(f))
       /\ \A n \in 1 .. L : n \in 1 .. L + k
  BY <1>15
<1>9. /\ ~done /\ page' = page + 1 /\ query' = query /\ rows' = rows
      /\ \A a, b : Order(a, b)' <=> Order(a, b)
  BY OrderSame DEF Fetch
<1>10. \A m \in 1 .. L, j \in 1 .. Len(f) : Order(listed[m], f[j])
  <2>. SUFFICES ASSUME NEW m \in 1 .. L, NEW j \in 1 .. Len(f)
                PROVE  Order(listed[m], f[j])
    OBVIOUS
  <2>1. page # 1
    BY <1>7 DEF Fresh
  <2>2. cursor # NoCursor /\ (listed[m] = cursor \/ Order(listed[m], cursor))
    BY <1>7, <1>9, <2>1 DEF CursorOK, Typed
  <2>3. Order(cursor, f[j]) /\ cursor \in PositionRecord
    BY <1>5, <2>2 DEF Beyond, Typed
  <2>. QED
    BY <1>5, <1>8, <2>2, <2>3, OrderFacts
<1>11. ScrolledInOrder'
  <2>1. ASSUME NEW m \in 1 .. L + k, NEW n \in 1 .. L + k, m < n
        PROVE  Order(listed'[m], listed'[n])
    <3>1. CASE n <= L
      <4>1. m \in 1 .. L /\ n \in 1 .. L
        BY <1>15, <2>1, <3>1
      <4>2. Order(listed[m], listed[n])
        BY <1>7, <2>1, <4>1 DEF ScrolledInOrder
      <4>. QED
        BY <1>7, <4>1, <4>2
    <3>2. CASE n > L /\ m <= L
      <4>1. m \in 1 .. L /\ n \in L + 1 .. L + k
        BY <1>15, <2>1, <3>2
      <4>2. n - L \in 1 .. Len(f)
        BY <1>15, <4>1
      <4>. QED
        BY <1>7, <1>10, <4>1, <4>2
    <3>3. CASE n > L /\ m > L
      <4>1. m \in L + 1 .. L + k /\ n \in L + 1 .. L + k
        BY <1>15, <2>1, <3>3
      <4>2. m - L \in 1 .. Len(f) /\ n - L \in 1 .. Len(f) /\ m - L < n - L
        BY <1>15, <2>1, <4>1
      <4>. QED
        BY <1>3, <1>7, <4>1, <4>2
    <3>. QED
      BY <1>15, <2>1, <3>1, <3>2, <3>3
  <2>. QED
    BY <1>7, <1>9, <2>1 DEF ScrolledInOrder
<1>12. ASSUME ~done'
       PROVE  /\ cursor' # NoCursor
              /\ \A n \in DOMAIN listed' : listed'[n] = cursor' \/ Order(listed'[n], cursor')
  <2>1. k = SIZE /\ k < Len(f) /\ cursor' = f[k] /\ k \in 1 .. Len(f)
    BY <1>12, <1>15
  <2>2. cursor' # NoCursor
    BY <1>5, <2>1, MarkersAssumption
  <2>3. ASSUME NEW n \in 1 .. L
        PROVE  Order(listed'[n], cursor')
    BY <1>7, <1>10, <2>1
  <2>4. ASSUME NEW n \in L + 1 .. L + k
        PROVE  listed'[n] = cursor' \/ Order(listed'[n], cursor')
    <3>1. n - L \in 1 .. k /\ listed'[n] = f[n - L]
      BY <1>7
    <3>2. n - L = k \/ n - L < k
      BY <1>15, <2>1, <3>1
    <3>. QED
      BY <1>3, <1>15, <2>1, <3>1, <3>2
  <2>. QED
    BY <1>7, <1>16, <2>2, <2>3, <2>4
<1>13. ASSUME NEW x \in stayed'.products
       PROVE  /\ \A n \in Shows(x)' : listed'[n] = Position(x)
              /\ Shows(x)' # {} \/ (~done' /\ Beyond(Position(x))')
  <2>1. /\ x \in Filtered
        /\ \A n \in 1 .. L : listed[n].id = x => listed[n] = Position(x)
        /\ (\E n \in 1 .. L : listed[n].id = x) \/ Beyond(Position(x))
    <3>1. CASE page = 1
      <4>1. L = 0 /\ cursor = NoCursor /\ stayed' = [products |-> Filtered, quiet |-> TRUE]
        BY <3>1 DEF Fresh, Fetch, L
      <4>. QED
        BY <4>1 DEF Beyond
    <3>2. CASE page # 1
      <4>1. x \in stayed.products
        BY <1>13, <3>2 DEF Fetch
      <4>2. /\ \A n \in Shows(x) : listed[n] = Position(x)
            /\ Shows(x) # {} \/ Beyond(Position(x))
        BY <4>1 DEF CursorOK
      <4>. QED
        BY <1>7, <4>1, <4>2 DEF Shows, Typed
    <3>. QED
      BY <3>1, <3>2
  <2>2. Shows(x)' = {n \in 1 .. L + k : listed'[n].id = x}
    BY <1>7 DEF Shows
  <2>3. ASSUME NEW n \in Shows(x)'
        PROVE  listed'[n] = Position(x)
    <3>1. CASE n \in 1 .. L
      BY <1>7, <2>1, <2>2, <3>1
    <3>2. CASE n \in L + 1 .. L + k
      <4>1. n - L \in 1 .. Len(f) /\ listed'[n] = f[n - L]
        BY <1>7, <1>16, <2>2, <3>2
      <4>. QED
        BY <1>5, <2>2, <4>1
    <3>. QED
      BY <1>16, <2>2, <3>1, <3>2
  <2>4. Shows(x)' # {} \/ (~done' /\ Beyond(Position(x))')
    <3>1. CASE \E n \in 1 .. L : listed[n].id = x
      <4>1. PICK n \in 1 .. L : listed[n].id = x
        BY <3>1
      <4>2. n \in 1 .. L + k /\ listed'[n].id = x
        BY <1>7, <1>16, <4>1
      <4>. QED
        BY <2>2, <4>2
    <3>2. CASE Beyond(Position(x))
      <4>1. x \in ahead
        BY <2>1, <3>2 DEF ahead
      <4>2. PICK j \in 1 .. Len(f) : f[j] = Position(x)
        BY <1>6, <4>1
      <4>3. CASE j <= k
        <5>1. L + j \in DOMAIN listed' /\ listed'[L + j] = f[j]
          BY <1>7, <1>15, <4>3
        <5>2. listed'[L + j].id = x
          BY <4>2, <5>1 DEF Position
        <5>3. L + j \in Shows(x)'
          BY <1>7, <2>2, <5>1, <5>2
        <5>. QED
          BY <5>3
      <4>4. CASE ~(j <= k)
        <5>1. k = SIZE /\ k < Len(f) /\ ~done' /\ cursor' = f[k] /\ k \in 1 .. Len(f) /\ k < j
          BY <1>15, <4>4
        <5>2. Order(cursor', Position(x))
          BY <1>3, <4>2, <5>1
        <5>3. Position(x)' = Position(x)
          BY <1>9 DEF Position
        <5>4. Beyond(Position(x))'
          BY <1>9, <5>2, <5>3 DEF Beyond
        <5>. QED
          BY <5>1, <5>4
      <4>. QED
        BY <4>3, <4>4
    <3>. QED
      BY <2>1, <3>1, <3>2
  <2>. QED
    BY <2>3, <2>4
<1>14. CursorOK'
  <2>1. \A x : Position(x)' = Position(x)
    BY <1>9 DEF Position
  <2>. QED
    BY <1>9, <1>12, <1>13, <2>1 DEF CursorOK
<1>. QED
  BY <1>11, <1>14

-----------------------------------------------------------------------------
(*                       Undisturbed listings                              *)

(* Two parts of a list make up the list.                                   *)
LEMMA Parts ==
  ASSUME NEW S, NEW s \in Seq(S), NEW a \in 0 .. Len(s), NEW b \in a .. Len(s)
  PROVE  /\ SubSeq(s, 1, a) \o SubSeq(s, a + 1, b) = SubSeq(s, 1, b)
         /\ SubSeq(s, 1, Len(s)) = s /\ SubSeq(s, 1, 0) = <<>>
         /\ SubSeq(s, a + 1, b) \in Seq(S) /\ Len(SubSeq(s, a + 1, b)) = b - a
         /\ \A n \in 1 .. b - a : SubSeq(s, a + 1, b)[n] = s[a + n]
         /\ Len(SubSeq(s, 1, b)) = b
<1>. DEFINE t == SubSeq(s, 1, a)
            u == SubSeq(s, a + 1, b)
            v == SubSeq(s, 1, b)
<1>1. Len(s) \in Nat /\ a \in Nat /\ b \in Nat /\ a <= b /\ b <= Len(s)
  <2>1. Len(s) \in Nat
    OBVIOUS
  <2>. QED
    BY <2>1
<1>2. t \in Seq(S) /\ Len(t) = a /\ \A n \in 1 .. a : t[n] = s[n]
  BY <1>1
<1>3. u \in Seq(S) /\ Len(u) = b - a /\ \A n \in 1 .. b - a : u[n] = s[a + n]
  BY <1>1
<1>4. v \in Seq(S) /\ Len(v) = b /\ \A n \in 1 .. b : v[n] = s[n]
  BY <1>1
<1>5. SubSeq(s, 1, Len(s)) = s /\ SubSeq(s, 1, 0) = <<>>
  BY <1>1
<1>. HIDE DEF t, u, v
<1>6. t \o u = v
  <2>1. /\ t \o u \in Seq(S) /\ Len(t \o u) = b
        /\ \A n \in 1 .. b : (t \o u)[n] = IF n <= a THEN t[n] ELSE u[n - a]
    BY <1>1, <1>2, <1>3
  <2>2. \A n \in 1 .. b : (t \o u)[n] = v[n]
    <3>1. ASSUME NEW n \in 1 .. b, n <= a
          PROVE  t[n] = v[n]
      BY <1>1, <1>2, <1>4, <3>1
    <3>2. ASSUME NEW n \in 1 .. b, ~(n <= a)
          PROVE  u[n - a] = v[n]
      <4>1. n - a \in 1 .. b - a /\ a + (n - a) = n
        BY <1>1, <3>2
      <4>. QED
        BY <1>3, <1>4, <4>1
    <3>. QED
      BY <2>1, <3>1, <3>2
  <2>. QED
    BY <1>4, <2>1, <2>2, SeqEqual
<1>. QED
  BY <1>2, <1>3, <1>4, <1>5, <1>6 DEF t, u, v

(* What the client has been shown when nothing has happened.               *)
LEMMA ShownSoFar ==
  ASSUME Typed, Fresh, ~done, page > 1 => QuietOK
  PROVE  LET all == Ordered(Filtered)
             offset == (page - 1) * SIZE
         IN /\ all \in Seq(PositionRecord) /\ Len(all) \in Nat
            /\ offset \in 0 .. Len(all) /\ listed = SubSeq(all, 1, offset)
            /\ page * SIZE = offset + SIZE
            /\ IF page = 1 THEN offset = 0 /\ cursor = NoCursor
                           ELSE /\ offset \in 1 .. Len(all) - 1
                                /\ query.mode = "cursor" => cursor = all[offset]
<1>. DEFINE all == Ordered(Filtered)
            offset == (page - 1) * SIZE
<1>1. all \in Seq(PositionRecord)
  BY OrderedLists DEF Lists
<1>2. Len(all) \in Nat
  BY <1>1
<1>3. page \in Nat \ {0} /\ SIZE \in Nat \ {0}
  BY ListingAssumption DEF Typed
<1>4. page * SIZE = offset + SIZE /\ offset \in Nat
  BY <1>3
<1>5. CASE page = 1
  <2>1. offset = 0
    BY <1>3, <1>5
  <2>2. listed = <<>> /\ cursor = NoCursor
    BY <1>5 DEF Fresh
  <2>. HIDE DEF all, offset
  <2>3. SubSeq(all, 1, 0) = <<>>
    BY <1>1
  <2>. QED
    BY <1>1, <1>2, <1>4, <1>5, <2>1, <2>2, <2>3 DEF all, offset
<1>6. CASE page # 1
  <2>1. page > 1 /\ offset >= 1
    BY <1>3, <1>6
  <2>2. /\ listed = SubSeq(all, 1, offset) /\ offset < Len(all)
        /\ query.mode = "cursor" => cursor = all[offset]
    BY <2>1 DEF QuietOK
  <2>. HIDE DEF all, offset
  <2>3. offset \in 1 .. Len(all) - 1 /\ offset \in 0 .. Len(all)
    BY <1>2, <1>4, <2>1, <2>2
  <2>. QED
    BY <1>1, <1>2, <1>4, <1>6, <2>2, <2>3 DEF all, offset
<1>. QED
  BY <1>5, <1>6

(* When nothing has happened, what lies beyond the cursor is what the      *)
(* client has not been shown.                                              *)
LEMMA QuietRest ==
  ASSUME Typed, Fresh, ~done, page > 1 => QuietOK, query.mode = "cursor"
  PROVE  LET all == Ordered(Filtered)
         IN Ordered({x \in Filtered : Beyond(Position(x))})
              = SubSeq(all, (page - 1) * SIZE + 1, Len(all))
<1>. DEFINE all == Ordered(Filtered)
            offset == (page - 1) * SIZE
            rest == SubSeq(all, offset + 1, Len(all))
            ahead == {x \in Filtered : Beyond(Position(x))}
<1>1. /\ all \in Seq(PositionRecord) /\ Len(all) \in Nat
      /\ offset \in 0 .. Len(all)
      /\ IF page = 1 THEN offset = 0 /\ cursor = NoCursor
                     ELSE offset \in 1 .. Len(all) - 1 /\ cursor = all[offset]
  BY ShownSoFar
<1>2. /\ \A j \in 1 .. Len(all) : all[j] \in Positions(Filtered)
      /\ \A p \in Positions(Filtered) : \E j \in 1 .. Len(all) : all[j] = p
      /\ \A m, n \in 1 .. Len(all) : m < n => Order(all[m], all[n])
  <2>1. Lists(all, Positions(Filtered))
    BY OrderedLists
  <2>2. DOMAIN all = 1 .. Len(all)
    BY <1>1
  <2>. HIDE DEF all
  <2>. QED
    BY <2>1, <2>2 DEF Lists
<1>. HIDE DEF all, offset
<1>3. \A j \in 1 .. Len(all) : all[j] \in PositionRecord
  BY <1>1
<1>4. ASSUME NEW j \in 1 .. Len(all)
      PROVE  Beyond(all[j]) <=> j > offset
  <2>1. CASE page = 1
    BY <1>1, <2>1 DEF Beyond
  <2>2. CASE page # 1
    <3>1. offset \in 1 .. Len(all) /\ cursor = all[offset]
      BY <1>1, <2>2
    <3>2. cursor # NoCursor
      BY <1>3, <3>1, MarkersAssumption
    <3>3. Order(all[offset], all[j]) <=> j > offset
      <4>1. j > offset \/ j = offset \/ j < offset
        BY <1>1
      <4>2. j < offset => Order(all[j], all[offset])
        BY <1>2, <3>1
      <4>3. j > offset => Order(all[offset], all[j])
        BY <1>2, <3>1
      <4>4. ~(j > offset) => ~Order(all[offset], all[j])
        BY <1>3, <3>1, <4>1, <4>2, OrderFacts
      <4>. QED
        BY <4>3, <4>4
    <3>. QED
      BY <3>1, <3>2, <3>3 DEF Beyond
  <2>. QED
    BY <2>1, <2>2
<1>5. Positions(ahead) = {p \in Positions(Filtered) : Beyond(p)}
  BY DEF Positions
<1>6. /\ rest \in Seq(PositionRecord) /\ Len(rest) = Len(all) - offset
      /\ \A n \in 1 .. Len(all) - offset : rest[n] = all[offset + n]
  <2>1. Len(all) \in offset .. Len(all)
    BY <1>1
  <2>. QED
    BY <1>1, <2>1, Parts
<1>. HIDE DEF rest
<1>7. DOMAIN rest = 1 .. Len(all) - offset
  BY <1>6
<1>8. \A n \in 1 .. Len(all) - offset : offset + n \in 1 .. Len(all) /\ offset + n > offset
  BY <1>1
<1>9. {rest[n] : n \in DOMAIN rest} = Positions(ahead)
  <2>1. ASSUME NEW n \in DOMAIN rest
        PROVE  rest[n] \in Positions(ahead)
    BY <1>2, <1>4, <1>5, <1>6, <1>7, <1>8
  <2>2. ASSUME NEW p \in Positions(ahead)
        PROVE  \E n \in DOMAIN rest : rest[n] = p
    <3>1. PICK j \in 1 .. Len(all) : all[j] = p
      BY <1>2, <1>5
    <3>2. j > offset
      BY <1>4, <1>5, <3>1
    <3>3. j - offset \in 1 .. Len(all) - offset /\ offset + (j - offset) = j
      BY <1>1, <3>2
    <3>. QED
      BY <1>6, <1>7, <3>1, <3>3
  <2>. HIDE DEF ahead
  <2>. QED
    BY <2>1, <2>2
<1>10. \A m, n \in DOMAIN rest : m < n => Order(rest[m], rest[n])
  <2>1. ASSUME NEW m \in DOMAIN rest, NEW n \in DOMAIN rest, m < n
        PROVE  Order(rest[m], rest[n])
    <3>1. offset + m < offset + n
      BY <1>1, <1>7, <2>1
    <3>. QED
      BY <1>2, <1>6, <1>7, <1>8, <3>1
  <2>. QED
    BY <2>1
<1>11. ahead \in SUBSET Filtered
  OBVIOUS
<1>. HIDE DEF ahead
<1>12. Lists(rest, Positions(ahead))
  BY <1>6, <1>9, <1>10 DEF Lists
<1>13. rest = Ordered(ahead)
  BY <1>11, <1>12, OrderedLists
<1>. QED
  BY <1>13 DEF rest, all, offset, ahead

(* The next page of an undisturbed scroll is the next part of the list.    *)
LEMMA QuietScroll ==
  ASSUME Typed, Fresh, Fetch, page > 1 => QuietOK, query.mode = "cursor"
  PROVE  QuietOK'
<1>. DEFINE all == Ordered(Filtered)
            offset == (page - 1) * SIZE
            rest == SubSeq(all, offset + 1, Len(all))
<1>1. ~done /\ page' = page + 1 /\ query' = query /\ rows' = rows /\ page \in Nat \ {0}
  BY DEF Fetch, Typed
<1>2. /\ all \in Seq(PositionRecord) /\ Len(all) \in Nat
      /\ offset \in 0 .. Len(all) /\ listed = SubSeq(all, 1, offset)
      /\ page * SIZE = offset + SIZE
      /\ IF page = 1 THEN offset = 0 ELSE offset \in 1 .. Len(all) - 1
  BY <1>1, ShownSoFar
<1>3. PICK f, k :
        /\ f = Ordered({x \in Filtered : Beyond(Position(x))})
        /\ k \in 0 .. Len(f) /\ listed' = listed \o SubSeq(f, 1, k)
        /\ \/ k = Len(f) /\ k <= SIZE /\ done' /\ cursor' = cursor
           \/ k = SIZE /\ k < Len(f) /\ ~done' /\ cursor' = f[k]
  BY ScrollStep
<1>4. f = rest
  BY <1>1, <1>3, QuietRest
<1>5. all' = all /\ (page' - 1) * SIZE = offset + SIZE /\ SIZE \in Nat \ {0}
  <2>1. all' = all
    BY <1>1, OrderedSame
  <2>2. (page' - 1) * SIZE = page * SIZE
    BY <1>1, ListingAssumption
  <2>. QED
    BY <1>2, <2>1, <2>2, ListingAssumption
<1>. HIDE DEF all, offset
<1>6. /\ rest \in Seq(PositionRecord) /\ Len(rest) = Len(all) - offset
      /\ \A n \in 1 .. Len(all) - offset : rest[n] = all[offset + n]
  <2>1. Len(all) \in offset .. Len(all)
    BY <1>2
  <2>. QED
    BY <1>2, <2>1, Parts
<1>7. k \in Nat /\ k <= Len(all) - offset /\ Len(f) = Len(all) - offset
  <2>1. Len(f) = Len(all) - offset
    BY <1>4, <1>6
  <2>2. k \in 0 .. Len(f)
    BY <1>3
  <2>. QED
    BY <1>2, <2>1, <2>2
<1>8. listed' = SubSeq(all, 1, offset + k)
  <2>1. SubSeq(rest, 1, k) = SubSeq(all, offset + 1, offset + k)
    <3>1. SubSeq(all, offset + 1, offset + k) = [n \in 1 .. k |-> all[offset + n]]
      <4>1. offset + k \in offset .. Len(all)
        BY <1>2, <1>7
      <4>2. /\ SubSeq(all, offset + 1, offset + k) \in Seq(PositionRecord)
            /\ Len(SubSeq(all, offset + 1, offset + k)) = k
            /\ \A n \in 1 .. k : SubSeq(all, offset + 1, offset + k)[n] = all[offset + n]
        <5>1. (offset + k) - offset = k
          BY <1>2, <1>7
        <5>. QED
          BY <1>2, <4>1, <5>1, Parts
      <4>. QED
        BY <4>2
    <3>2. SubSeq(rest, 1, k) = [n \in 1 .. k |-> rest[n]]
      BY <1>2, <1>6, <1>7
    <3>3. \A n \in 1 .. k : rest[n] = all[offset + n]
      BY <1>2, <1>6, <1>7
    <3>. QED
      BY <3>1, <3>2, <3>3
  <2>2. offset + k \in offset .. Len(all)
    BY <1>2, <1>7
  <2>3. SubSeq(all, 1, offset) \o SubSeq(all, offset + 1, offset + k) = SubSeq(all, 1, offset + k)
    BY <1>2, <2>2, Parts
  <2>. QED
    BY <1>2, <1>3, <1>4, <2>1, <2>3
<1>9. CASE done'
  <2>1. k = Len(all) - offset /\ k <= SIZE
    BY <1>3, <1>7, <1>9
  <2>2. offset + k = Len(all) /\ Len(all) <= offset + SIZE
    BY <1>2, <1>5, <2>1
  <2>3. listed' = all
    BY <1>2, <1>8, <2>2, Parts
  <2>4. page' = 2 \/ offset + SIZE < Len(all) + SIZE
    BY <1>1, <1>2, <1>5
  <2>. QED
    BY <1>5, <1>9, <2>2, <2>3, <2>4 DEF QuietOK, all
<1>10. CASE ~done'
  <2>1. k = SIZE /\ k < Len(all) - offset /\ cursor' = rest[k]
    BY <1>3, <1>4, <1>7, <1>10
  <2>. HIDE DEF rest
  <2>4. SIZE \in 1 .. Len(all) - offset /\ offset + SIZE < Len(all)
    BY <1>2, <1>5, <2>1
  <2>2. offset + SIZE < Len(all) /\ cursor' = all[offset + SIZE]
    BY <1>6, <2>1, <2>4
  <2>3. listed' = SubSeq(all, 1, offset + SIZE)
    BY <1>8, <2>1
  <2>. QED
    BY <1>5, <1>10, <2>2, <2>3 DEF QuietOK, all
<1>. QED
  BY <1>9, <1>10

(* As many pages as it takes to hold the rows.                             *)
LEMMA PagesHold ==
  ASSUME NEW total \in Nat
  PROVE  /\ Pages(total) \in Nat
         /\ Pages(total) * SIZE >= total /\ Pages(total) * SIZE < total + SIZE
         /\ \A p \in Nat : p >= Pages(total) <=> p * SIZE >= total
         /\ \A p \in Nat : p * SIZE >= total /\ p * SIZE < total + SIZE => p = Pages(total)
<1>1. SIZE \in Nat \ {0}
  BY ListingAssumption
<1>2. Pages(total) \in Nat
  BY <1>1 DEF Pages
<1>3. Pages(total) * SIZE >= total /\ Pages(total) * SIZE < total + SIZE
  BY <1>1 DEF Pages
<1>4. \A a, b \in Nat : a < b => b * SIZE >= a * SIZE + SIZE
  <2>. TAKE a \in Nat, b \in Nat
  <2>1. ASSUME a < b
        PROVE  (b - a) * SIZE >= SIZE
    BY <1>1, <2>1
  <2>2. (b - a) * SIZE = b * SIZE - a * SIZE
    BY <1>1
  <2>3. b * SIZE \in Nat /\ a * SIZE \in Nat
    BY <1>1
  <2>. HAVE a < b
  <2>. QED
    BY <1>1, <2>1, <2>2, <2>3
<1>5. \A p \in Nat : p * SIZE \in Nat
  BY <1>1
<1>6. \A p \in Nat : p < Pages(total) \/ p = Pages(total) \/ p > Pages(total)
  BY <1>2
<1>7. ASSUME NEW p \in Nat
      PROVE  p >= Pages(total) <=> p * SIZE >= total
  <2>1. p * SIZE \in Nat /\ Pages(total) * SIZE \in Nat
    BY <1>2, <1>5
  <2>2. CASE p < Pages(total)
    <3>1. Pages(total) * SIZE >= p * SIZE + SIZE
      BY <1>2, <1>4, <2>2
    <3>2. ~(p * SIZE >= total)
      BY <1>1, <1>3, <2>1, <3>1
    <3>. QED
      BY <1>2, <2>2, <3>2
  <2>3. CASE p > Pages(total)
    <3>1. p * SIZE >= Pages(total) * SIZE + SIZE
      BY <1>2, <1>4, <2>3
    <3>. QED
      BY <1>1, <1>2, <1>3, <2>1, <2>3, <3>1
  <2>. QED
    BY <1>2, <1>3, <1>6, <2>2, <2>3
<1>8. ASSUME NEW p \in Nat, p * SIZE >= total, p * SIZE < total + SIZE
      PROVE  p = Pages(total)
  BY <1>1, <1>2, <1>3, <1>4, <1>5, <1>6, <1>8
<1>. QED
  BY <1>2, <1>3, <1>7, <1>8

(* The next page by number of an undisturbed list is its next part.        *)
LEMMA QuietPage ==
  ASSUME Typed, Fresh, Fetch, page > 1 => QuietOK, query.mode # "cursor"
  PROVE  QuietOK'
<1>. DEFINE all == Ordered(Filtered)
            offset == (page - 1) * SIZE
            end == IF Len(all) < offset + SIZE THEN Len(all) ELSE offset + SIZE
<1>1. ~done /\ page' = page + 1 /\ query' = query /\ rows' = rows /\ page \in Nat \ {0}
  BY DEF Fetch, Typed
<1>2. /\ all \in Seq(PositionRecord) /\ Len(all) \in Nat
      /\ offset \in 0 .. Len(all) /\ listed = SubSeq(all, 1, offset)
      /\ page * SIZE = offset + SIZE
      /\ IF page = 1 THEN offset = 0 ELSE offset \in 1 .. Len(all) - 1
  BY <1>1, ShownSoFar
<1>3. /\ listed' = listed \o (IF offset >= Len(all) THEN <<>>
                              ELSE SubSeq(all, offset + 1, end))
      /\ done' = (page >= Pages(Len(all)))
  BY DEF Fetch, After, Page
<1>4. all' = all /\ (page' - 1) * SIZE = offset + SIZE /\ SIZE \in Nat \ {0} /\ query'.mode # "cursor"
  <2>1. all' = all
    BY <1>1, OrderedSame
  <2>2. (page' - 1) * SIZE = page * SIZE
    BY <1>1, ListingAssumption
  <2>. QED
    BY <1>1, <1>2, <2>1, <2>2, ListingAssumption
<1>. HIDE DEF all, offset
<1>5. done' <=> offset + SIZE >= Len(all)
  BY <1>1, <1>2, <1>3, PagesHold
<1>6. listed' = SubSeq(all, 1, end)
  <2>1. CASE offset >= Len(all)
    <3>1. offset = Len(all) /\ end = Len(all)
      BY <1>2, <1>4, <2>1
    <3>2. listed = all /\ listed' = listed \o <<>>
      BY <1>2, <1>3, <2>1, <3>1, Parts
    <3>3. SubSeq(all, 1, Len(all)) = all /\ all \o <<>> = all
      BY <1>2
    <3>. HIDE DEF end
    <3>. QED
      BY <3>1, <3>2, <3>3
  <2>2. CASE ~(offset >= Len(all))
    <3>1. end \in offset .. Len(all)
      BY <1>2, <1>4, <2>2
    <3>. HIDE DEF end
    <3>2. SubSeq(all, 1, offset) \o SubSeq(all, offset + 1, end) = SubSeq(all, 1, end)
      BY <1>2, <3>1, Parts
    <3>. QED
      BY <1>2, <1>3, <2>2, <3>2
  <2>. QED
    BY <2>1, <2>2
<1>7. CASE done'
  <2>1. end = Len(all) /\ Len(all) <= offset + SIZE
    BY <1>2, <1>4, <1>5, <1>7
  <2>2. listed' = all
    BY <1>2, <1>6, <2>1, Parts
  <2>3. page' = 2 \/ offset + SIZE < Len(all) + SIZE
    BY <1>1, <1>2, <1>4
  <2>. QED
    BY <1>4, <1>7, <2>1, <2>2, <2>3 DEF QuietOK, all
<1>8. CASE ~done'
  <2>1. end = offset + SIZE /\ offset + SIZE < Len(all)
    BY <1>2, <1>4, <1>5, <1>8
  <2>. QED
    BY <1>4, <1>6, <1>8, <2>1 DEF QuietOK, all
<1>. QED
  BY <1>7, <1>8

-----------------------------------------------------------------------------
(*                        Every step keeps it                              *)

LEMMA FetchIInv ==
  ASSUME IInv, Fetch
  PROVE  IInv'
<1>1. Typed'
  BY TypedNext DEF IInv, Next
<1>2. page' # 1
  BY DEF IInv, Typed, Fetch
<1>3. Fresh'
  BY <1>2 DEF Fresh
<1>4. query' = query
  BY DEF Fetch
<1>5. ScrolledInOrder' /\ (query'.mode = "cursor" => CursorOK')
  <2>1. CASE query.mode = "cursor"
    BY <2>1, FetchScrolls DEF IInv
  <2>2. CASE query.mode # "cursor"
    BY <1>4, <2>2 DEF ScrolledInOrder
  <2>. QED
    BY <2>1, <2>2
<1>6. stayed'.quiet => QuietOK'
  <2>. HAVE stayed'.quiet
  <2>1. page > 1 => QuietOK
    BY DEF Fetch, IInv
  <2>. QED
    BY <2>1, QuietScroll, QuietPage DEF IInv
<1>. QED
  BY <1>1, <1>3, <1>5, <1>6 DEF IInv

(* A product that is edited does not stay, and the others are where they   *)
(* were.                                                                   *)
LEMMA EditIInv ==
  ASSUME IInv, Edit
  PROVE  IInv'
<1>1. Typed'
  BY TypedNext DEF IInv, Next
<1>2. PICK xs : /\ Changed(xs)
                /\ \A x \in stayed.products \ xs : rows'[x] = rows[x]
  <2>1. \A x \in stayed.products : rows[x] # Absent
    BY DEF IInv, Typed, Filtered, Exists
  <2>2. ASSUME NEW x \in Product, Delete(x)
        PROVE  Changed({x}) /\ \A y \in stayed.products \ {x} : rows'[y] = rows[y]
    BY <2>2 DEF Delete
  <2>3. ASSUME NEW x \in Product, NEW row \in RowRecord, Update(x, row)
        PROVE  Changed({x}) /\ \A y \in stayed.products \ {x} : rows'[y] = rows[y]
    BY <2>3 DEF Update
  <2>4. ASSUME NEW x \in Product, NEW row \in RowRecord, Create(x, row)
        PROVE  Changed({}) /\ \A y \in stayed.products \ {} : rows'[y] = rows[y]
    BY <2>1, <2>4 DEF Create
  <2>. QED
    BY <2>2, <2>3, <2>4 DEF Edit
<1>3. /\ query' = query /\ cursor' = cursor /\ page' = page /\ listed' = listed /\ done' = done
      /\ stayed' = [products |-> stayed.products \ xs, quiet |-> FALSE]
  BY <1>2 DEF Changed
<1>4. \A a, b : Order(a, b)' <=> Order(a, b)
  BY <1>3, OrderSame
<1>5. Fresh'
  BY <1>3 DEF IInv, Fresh
<1>6. ScrolledInOrder'
  BY <1>3, <1>4 DEF IInv, ScrolledInOrder
<1>7. ASSUME query.mode = "cursor"
      PROVE  CursorOK'
  <2>1. \A x \in stayed'.products : x \in stayed.products /\ Position(x)' = Position(x)
    BY <1>2, <1>3 DEF Position
  <2>2. \A x : Shows(x)' = Shows(x)
    BY <1>3 DEF Shows
  <2>3. \A x \in stayed'.products : Beyond(Position(x))' <=> Beyond(Position(x))
    BY <1>3, <1>4, <2>1 DEF Beyond
  <2>4. CursorOK
    BY <1>7 DEF IInv
  <2>. QED
    BY <1>3, <1>4, <2>1, <2>2, <2>3, <2>4 DEF CursorOK
<1>. QED
  BY <1>1, <1>3, <1>5, <1>6, <1>7 DEF IInv

(* Nothing changes when nothing happens.                                   *)
LEMMA StutterIInv ==
  ASSUME IInv, UNCHANGED vars
  PROVE  IInv'
<1>1. /\ rows' = rows /\ query' = query /\ cursor' = cursor /\ page' = page
      /\ listed' = listed /\ done' = done /\ stayed' = stayed
  BY DEF vars
<1>2. \A a, b : Order(a, b)' <=> Order(a, b)
  BY <1>1, OrderSame
<1>3. Typed' /\ Fresh'
  <2>1. Filtered' = Filtered
    BY <1>1 DEF Filtered, Exists
  <2>. QED
    BY <1>1, <2>1 DEF IInv, Typed, Fresh
<1>4. ScrolledInOrder'
  BY <1>1, <1>2 DEF IInv, ScrolledInOrder
<1>5. ASSUME CursorOK PROVE CursorOK'
  <2>1. \A x : Position(x)' = Position(x) /\ Shows(x)' = Shows(x)
    BY <1>1 DEF Position, Shows
  <2>2. \A x : Beyond(Position(x))' <=> Beyond(Position(x))
    BY <1>1, <1>2, <2>1 DEF Beyond
  <2>. QED
    BY <1>1, <1>2, <1>5, <2>1, <2>2 DEF CursorOK
<1>6. ASSUME QuietOK PROVE QuietOK'
  BY <1>1, <1>6, OrderedSame DEF QuietOK
<1>. QED
  BY <1>1, <1>3, <1>4, <1>5, <1>6 DEF IInv

(* The inductive invariant of a listing.                                   *)
THEOREM InductiveInvariant == Spec => []IInv
<1>1. Init => IInv
  BY InitIInv
<1>2. IInv /\ [Next]_vars => IInv'
  BY FetchIInv, EditIInv, StutterIInv DEF Next
<1>. QED
  BY <1>1, <1>2, PTL DEF Spec

(* A scroll shows rows in their order, over all its pages, whatever the    *)
(* members do between them.                                                *)
THEOREM ScrollsStayInOrder == Spec => []ScrolledInOrder
<1>1. IInv => ScrolledInOrder
  BY DEF IInv
<1>. QED
  BY <1>1, InductiveInvariant, PTL

(* A product nobody touches is neither skipped nor repeated by a scroll.   *)
THEOREM StayersAreListed == Spec => []StayersListedOnce
<1>1. ASSUME IInv
      PROVE  StayersListedOnce
  <2>. SUFFICES ASSUME query.mode = "cursor", done, NEW x \in stayed.products
                PROVE  Cardinality(Shows(x)) = 1
    BY DEF StayersListedOnce
  <2>1. /\ \A n \in Shows(x) : listed[n] = Position(x)
        /\ Shows(x) # {}
    BY <1>1 DEF IInv, CursorOK
  <2>2. DOMAIN listed \subseteq Nat /\ \A n \in DOMAIN listed : listed[n] \in PositionRecord
    BY <1>1 DEF IInv, Typed
  <2>3. PICK n : n \in Shows(x)
    BY <2>1
  <2>4. ASSUME NEW m \in Shows(x)
        PROVE  m = n
    <3>1. /\ m \in DOMAIN listed /\ n \in DOMAIN listed /\ m \in Nat /\ n \in Nat
          /\ listed[m] = listed[n] /\ listed[n] \in PositionRecord
      BY <2>1, <2>2, <2>3 DEF Shows
    <3>2. ~Order(listed[n], listed[n])
      BY <3>1, OrderFacts
    <3>3. ~(m < n) /\ ~(n < m)
      BY <1>1, <3>1, <3>2 DEF IInv, ScrolledInOrder
    <3>. QED
      BY <3>1, <3>3
  <2>5. Shows(x) = {n}
    BY <2>3, <2>4
  <2>. QED
    BY <2>5, FS_Singleton
<1>. QED
  BY <1>1, InductiveInvariant, PTL

(* When nothing happens meanwhile, numbered pages and a scroll list every  *)
(* row exactly once, in order, in as many pages as it takes.               *)
THEOREM QuietListings == Spec => []QuietListingIsComplete
<1>1. ASSUME IInv
      PROVE  QuietListingIsComplete
  <2>. SUFFICES ASSUME done, stayed.quiet
                PROVE  /\ listed = Ordered(Filtered)
                       /\ page - 1 = IF listed = <<>> THEN 1 ELSE Pages(Len(listed))
    BY DEF QuietListingIsComplete, Pages
  <2>. DEFINE offset == (page - 1) * SIZE
  <2>1. /\ listed = Ordered(Filtered)
        /\ page = 2 \/ offset < Len(listed) + SIZE
        /\ Len(listed) <= offset
    BY <1>1 DEF IInv, QuietOK
  <2>2. page \in Nat /\ page - 1 \in Nat /\ page # 1 /\ SIZE \in Nat \ {0} /\ offset \in Nat
    BY <1>1, ListingAssumption DEF IInv, Typed, Fresh
  <2>3. Len(listed) \in Nat /\ (listed = <<>> <=> Len(listed) = 0)
    BY <1>1 DEF IInv, Typed
  <2>4. page = 2 => offset = SIZE
    BY <2>2
  <2>5. CASE listed = <<>>
    <3>1. page # 2 => offset >= SIZE
      BY <2>2
    <3>. HIDE DEF offset
    <3>2. page = 2
      BY <2>1, <2>2, <2>3, <2>5, <3>1
    <3>. QED
      BY <2>1, <2>5, <3>2
  <2>6. CASE listed # <<>>
    <3>1. offset < Len(listed) + SIZE
      BY <2>1, <2>2, <2>3, <2>4, <2>6
    <3>2. page - 1 = Pages(Len(listed))
      BY <2>1, <2>2, <2>3, <3>1, PagesHold
    <3>. QED
      BY <2>1, <2>6, <3>2
  <2>. QED
    BY <2>5, <2>6
<1>. QED
  BY <1>1, InductiveInvariant, PTL

-----------------------------------------------------------------------------
(*                       A listing comes to an end                         *)

PositionCount == Cardinality(Product) * Cardinality(Key)

LEMMA PositionsCounted ==
  ASSUME IsFiniteSet(Key)
  PROVE  /\ IsFiniteSet(PositionRecord) /\ PositionCount \in Nat
         /\ Cardinality(PositionRecord) = PositionCount
<1>. DEFINE pairs == Product \X Key
            f == [p \in pairs |-> [key |-> p[2], id |-> p[1]]]
<1>1. IsFiniteSet(pairs) /\ Cardinality(pairs) = PositionCount
  BY FS_Product, ListingAssumption DEF PositionCount
<1>2. PositionCount \in Nat
  BY <1>1, FS_CardinalityType
<1>3. f \in Bijection(pairs, PositionRecord)
  <2>1. f \in [pairs -> PositionRecord]
    BY DEF PositionRecord
  <2>2. \A p, q \in pairs : f[p] = f[q] => p = q
    <3>. TAKE p \in pairs, q \in pairs
    <3>1. p = <<p[1], p[2]>> /\ q = <<q[1], q[2]>>
      OBVIOUS
    <3>2. f[p].id = p[1] /\ f[p].key = p[2] /\ f[q].id = q[1] /\ f[q].key = q[2]
      OBVIOUS
    <3>. QED
      BY <3>1, <3>2
  <2>3. ASSUME NEW a \in PositionRecord
        PROVE  \E p \in pairs : f[p] = a
    <3>1. <<a.id, a.key>> \in pairs /\ a = [key |-> a.key, id |-> a.id]
      BY DEF PositionRecord
    <3>2. f[<<a.id, a.key>>] = a
      BY <3>1
    <3>. QED
      BY <3>1, <3>2
  <2>. HIDE DEF f, pairs
  <2>. QED
    BY <2>1, <2>2, <2>3 DEF Bijection, Injection, IsInjective, Surjection
<1>4. ExistsBijection(pairs, PositionRecord)
  BY <1>3 DEF ExistsBijection
<1>. HIDE DEF pairs
<1>. QED
  BY <1>1, <1>2, <1>4, FS_Bijection

(* A scroll in order repeats no position.                                  *)
LEMMA ScrollFits ==
  ASSUME IsFiniteSet(Key), Typed, ScrolledInOrder, query.mode = "cursor"
  PROVE  Len(listed) <= PositionCount
<1>. DEFINE L == Len(listed)
<1>1. L \in Nat /\ DOMAIN listed = 1 .. L /\ listed \in [1 .. L -> PositionRecord]
  BY DEF Typed
<1>2. \A m, n \in 1 .. L : listed[m] = listed[n] => m = n
  <2>1. \A m, n \in 1 .. L : m < n => Order(listed[m], listed[n])
    BY <1>1 DEF ScrolledInOrder
  <2>2. \A m \in 1 .. L : ~Order(listed[m], listed[m])
    BY <1>1, OrderFacts
  <2>. QED
    BY <1>1, <2>1, <2>2
<1>. HIDE DEF L
<1>3. listed \in Injection(1 .. L, PositionRecord)
  BY <1>1, <1>2 DEF Injection, IsInjective
<1>4. Cardinality(1 .. L) <= Cardinality(PositionRecord)
  BY <1>3, PositionsCounted, FS_Injection
<1>5. Cardinality(1 .. L) = L
  BY <1>1, FS_Interval
<1>. QED
  BY <1>4, <1>5, PositionsCounted DEF L

(* How far the pages can go.  Every page of a scroll that has a next one   *)
(* shows a row; a numbered page has a next one only when there are more    *)
(* rows than it and the pages before it can hold.                          *)
Bounded ==
  /\ page <= PositionCount + 2
  /\ ~done => page - 1 <= IF query.mode = "cursor" THEN Len(listed) ELSE PositionCount
  /\ query.mode # "cursor" => /\ Len(listed) <= (page - 1) * SIZE
                              /\ Len(listed) <= PositionCount

LEMMA InitBounded ==
  ASSUME IsFiniteSet(Key), Init
  PROVE  Bounded
<1>1. PositionCount \in Nat
  BY PositionsCounted
<1>2. page = 1 /\ Len(listed) = 0
  BY DEF Init
<1>3. (page - 1) * SIZE = 0
  BY <1>2, ListingAssumption
<1>. QED
  BY <1>1, <1>2, <1>3 DEF Bounded

LEMMA FetchBounded ==
  ASSUME IsFiniteSet(Key), IInv, Bounded, Fetch
  PROVE  Bounded'
<1>1. /\ Typed /\ ~done /\ page' = page + 1 /\ query' = query /\ page \in Nat \ {0}
      /\ SIZE \in Nat \ {0} /\ PositionCount \in Nat /\ Len(listed) \in Nat
  BY PositionsCounted, ListingAssumption DEF Fetch, IInv, Typed
<1>2. CASE query.mode = "cursor"
  <2>1. page - 1 <= Len(listed) /\ Len(listed) <= PositionCount
    BY <1>1, <1>2, ScrollFits DEF Bounded, IInv
  <2>2. ~done' => page <= Len(listed')
    <3>1. PICK f, k :
            /\ f \in Seq(PositionRecord)
            /\ k \in 0 .. Len(f) /\ listed' = listed \o SubSeq(f, 1, k)
            /\ done' \/ k = SIZE
      BY <1>1, <1>2, ScrollStep DEF Lists
    <3>2. Len(listed') = Len(listed) + k
      BY <1>1, <3>1, ScrollAppends
    <3>. HAVE ~done'
    <3>3. Len(listed') = Len(listed) + SIZE
      BY <3>1, <3>2
    <3>. QED
      BY <1>1, <2>1, <3>3
  <2>3. page' <= PositionCount + 2
    BY <1>1, <2>1
  <2>4. page' - 1 = page
    BY <1>1
  <2>. QED
    BY <1>1, <1>2, <2>2, <2>3, <2>4 DEF Bounded
<1>3. CASE query.mode # "cursor"
  <2>. DEFINE all == Ordered(Filtered)
              offset == (page - 1) * SIZE
              end == IF Len(all) < offset + SIZE THEN Len(all) ELSE offset + SIZE
  <2>1. all \in Seq(PositionRecord) /\ Len(all) \in Nat /\ Len(all) <= PositionCount
    <3>1. all \in Seq(PositionRecord) /\ Len(all) = Cardinality(Positions(Filtered))
      BY <1>1, OrderedLists DEF Lists
    <3>2. Positions(Filtered) \in SUBSET PositionRecord
      BY <1>1, PositionFacts
    <3>3. Cardinality(Positions(Filtered)) <= PositionCount
      BY <3>2, PositionsCounted, FS_Subset
    <3>. QED
      BY <3>1, <3>3
  <2>2. /\ listed' = listed \o (IF offset >= Len(all) THEN <<>>
                                ELSE SubSeq(all, offset + 1, end))
        /\ done' = (page >= Pages(Len(all)))
    BY <1>3 DEF Fetch, After, Page
  <2>3. /\ offset \in Nat /\ page * SIZE = offset + SIZE /\ page <= page * SIZE
        /\ page - 1 <= PositionCount
    BY <1>1, <1>3 DEF Bounded
  <2>4. Len(listed) <= offset /\ Len(listed) <= PositionCount
    BY <1>3 DEF Bounded
  <2>. HIDE DEF all, offset
  <2>5. Len(listed') <= offset + SIZE /\ Len(listed') <= PositionCount
    <3>1. listed \in Seq(PositionRecord)
      BY <1>1 DEF Typed
    <3>2. CASE offset >= Len(all)
      <4>1. listed' = listed
        BY <2>2, <3>1, <3>2
      <4>. QED
        BY <1>1, <2>3, <2>4, <4>1
    <3>3. CASE ~(offset >= Len(all))
      <4>1. /\ offset \in 0 .. Len(all) /\ end \in offset .. Len(all)
            /\ end <= offset + SIZE /\ end <= PositionCount
        BY <1>1, <2>1, <2>3, <3>3
      <4>. DEFINE part == SubSeq(all, offset + 1, end)
      <4>. HIDE DEF end
      <4>2. part \in Seq(PositionRecord) /\ Len(part) = end - offset
        BY <2>1, <4>1, Parts
      <4>3. listed' = listed \o part
        BY <2>2, <3>3
      <4>. HIDE DEF part
      <4>6. Len(listed \o part) = Len(listed) + Len(part)
        BY <3>1, <4>2
      <4>4. Len(listed') = Len(listed) + (end - offset)
        BY <4>2, <4>3, <4>6
      <4>5. end \in Nat /\ offset <= end
        BY <2>1, <4>1
      <4>. QED
        BY <1>1, <2>3, <2>4, <4>1, <4>4, <4>5
    <3>. QED
      BY <3>2, <3>3
  <2>6. ~done' => page <= PositionCount
    <3>1. done' <=> page * SIZE >= Len(all)
      BY <1>1, <2>1, <2>2, PagesHold
    <3>. QED
      BY <1>1, <2>1, <2>3, <3>1
  <2>7. page' <= PositionCount + 2 /\ page' - 1 = page
    BY <1>1, <2>3
  <2>. QED
    BY <1>1, <1>3, <2>3, <2>5, <2>6, <2>7 DEF Bounded
<1>. QED
  BY <1>2, <1>3

(* Everything has its type, and a listing comes to an end, whatever the    *)
(* members do meanwhile: it never shows more than there are positions.     *)
THEOREM TypeCorrect ==
  ASSUME IsFiniteSet(Key)
  PROVE  Spec => []TypeOK
<1>1. Init => Bounded
  BY InitBounded
<1>2. IInv /\ Bounded /\ [Next]_vars => Bounded'
  <2>1. ASSUME Bounded, Edit
        PROVE  Bounded'
    BY <2>1 DEF Bounded, Edit, Create, Update, Delete, Changed
  <2>2. ASSUME Bounded, UNCHANGED vars
        PROVE  Bounded'
    BY <2>2 DEF Bounded, vars
  <2>. QED
    BY <2>1, <2>2, FetchBounded DEF Next
<1>3. ASSUME IInv, Bounded
      PROVE  TypeOK
  <2>1. PositionCount \in Nat
    BY PositionsCounted
  <2>2. page \in 1 .. PositionCount + 2
    BY <1>3, <2>1 DEF IInv, Typed, Bounded
  <2>3. Len(listed) <= PositionCount
    BY <1>3, ScrollFits DEF IInv, Bounded
  <2>4. \A n \in DOMAIN listed : listed[n] \in PositionRecord
    BY <1>3 DEF IInv, Typed
  <2>5. stayed.products \subseteq Product
    BY <1>3 DEF IInv, Typed, Filtered
  <2>. QED
    BY <1>3, <2>2, <2>3, <2>4, <2>5 DEF IInv, Typed, TypeOK, PositionCount
<1>. QED
  BY <1>1, <1>2, <1>3, InductiveInvariant, PTL DEF Spec
=============================================================================
