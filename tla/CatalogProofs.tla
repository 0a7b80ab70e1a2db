--------------------------- MODULE CatalogProofs ---------------------------
(***************************************************************************)
(* Proofs about Catalog for any number of sessions, workspaces, products,  *)
(* uploads and files, any limits and any requests: the quotas, the images  *)
(* of a product, and where their files are.                                *)
(***************************************************************************)
EXTENDS Catalog, UnitOfWorkProofs, FiniteSetTheorems, SequenceTheorems

-----------------------------------------------------------------------------
(*                        Counting and adding                              *)

(* Induction over finite sets, as a minimal counterexample: the library's  *)
(* theorem that strict inclusion is well-founded takes no operator.        *)
LEMMA MinimalSet ==
  ASSUME NEW S, IsFiniteSet(S), NEW T, T \subseteq SUBSET S, T # {}
  PROVE  \E U \in T : \A V \in T : V \subseteq U => V = U
<1>1. IsWellFoundedOn(StrictSubsetOrdering(S), FiniteSubsetsOf(S))
  BY FS_StrictSubsetOrderingWellFounded
<1>2. T \subseteq FiniteSubsetsOf(S)
  BY FS_FiniteSubsetsOfFinite
<1>3. \E U \in T : \A V \in T : ~(<<V, U>> \in StrictSubsetOrdering(S))
  BY <1>1, <1>2, WFMin
<1>. QED
  BY <1>3 DEF StrictSubsetOrdering

(* The same for natural numbers, seen as the intervals below them.         *)
LEMMA LeastNumber ==
  ASSUME NEW T \in SUBSET Nat, T # {}
  PROVE  \E n \in T : \A m \in T : n <= m
<1>1. PICK k \in T : TRUE
  OBVIOUS
<1>. DEFINE F == {0 .. n : n \in {m \in T : m <= k}}
            S == 0 .. k
<1>2. F \subseteq SUBSET S
  OBVIOUS
<1>3. F # {}
  <2>1. k \in {m \in T : m <= k}
    OBVIOUS
  <2>2. 0 .. k \in F
    BY <2>1
  <2>. QED
    BY <2>2
<1>4. IsFiniteSet(S)
  BY FS_Interval
<1>5. PICK U \in F : \A V \in F : V \subseteq U => V = U
  <2>. HIDE DEF F, S
  <2>. QED
    BY <1>2, <1>3, <1>4, MinimalSet
<1>6. PICK n \in T : n <= k /\ U = 0 .. n
  BY <1>5
<1>7. ASSUME NEW m \in T, m < n
      PROVE  FALSE
  <2>1. 0 .. m \in F /\ 0 .. m \subseteq U
    BY <1>6, <1>7
  <2>2. 0 .. m = 0 .. n
    BY <1>5, <1>6, <2>1
  <2>. QED
    BY <1>7, <2>2
<1>. QED
  BY <1>7

(* Among things in positions of their own from 0, m are before position m. *)
LEMMA CountBefore ==
  ASSUME NEW S, IsFiniteSet(S), NEW place \in [S -> Nat],
         \A i, j \in S : place[i] = place[j] => i = j,
         {place[i] : i \in S} = 0 .. Cardinality(S) - 1, NEW m \in 0 .. Cardinality(S)
  PROVE  Cardinality({k \in S : place[k] < m}) = m
<1>. DEFINE T == {k \in S : place[k] < m}
            f == [k \in T |-> place[k]]
<1>1. Cardinality(S) \in Nat /\ IsFiniteSet(T)
  BY FS_CardinalityType, FS_Subset
<1>2. f \in [T -> 0 .. m - 1]
  BY <1>1
<1>3. f \in Injection(T, 0 .. m - 1)
  BY <1>2 DEF Injection, IsInjective
<1>4. f \in Surjection(T, 0 .. m - 1)
  <2>1. ASSUME NEW n \in 0 .. m - 1
        PROVE  \E k \in T : f[k] = n
    <3>1. n \in 0 .. Cardinality(S) - 1
      BY <1>1
    <3>2. PICK k \in S : place[k] = n
      BY <3>1
    <3>. QED
      BY <3>2, <1>1
  <2>. QED
    BY <1>2, <2>1 DEF Surjection
<1>5. Cardinality(0 .. m - 1) = Cardinality(T)
  <2>1. ExistsBijection(T, 0 .. m - 1)
    BY <1>3, <1>4 DEF ExistsBijection, Bijection
  <2>. HIDE DEF T
  <2>. QED
    BY <1>1, <2>1, FS_Bijection
<1>6. Cardinality(0 .. m - 1) = m
  <2>1. m \in Nat
    BY <1>1
  <2>. QED
    BY <2>1, FS_Interval
<1>. QED
  BY <1>5, <1>6

(* n things in different places below n are in all of them.                *)
LEMMA AllPlaces ==
  ASSUME NEW S, IsFiniteSet(S), NEW place \in [S -> 0 .. Cardinality(S) - 1],
         \A i, j \in S : place[i] = place[j] => i = j
  PROVE  {place[i] : i \in S} = 0 .. Cardinality(S) - 1
<1>. DEFINE T == 0 .. Cardinality(S) - 1
<1>1. Cardinality(S) \in Nat
  BY FS_CardinalityType
<1>2. IsFiniteSet(T) /\ Cardinality(T) = Cardinality(S)
  BY <1>1, FS_Interval
<1>3. place \in Injection(S, T)
  BY DEF Injection, IsInjective
<1>4. place \in Surjection(S, T)
  <2>. HIDE DEF T
  <2>. QED
    BY <1>2, <1>3, FS_Injection
<1>. QED
  BY <1>4 DEF Surjection


(* The sum that MapThenSumSet computes, by picking one element after the   *)
(* other: f[s] is the sum of the weights in s.                             *)
Picked(s) == CHOOSE x \in s : TRUE
Sums(f, weight, S) ==
  f = [s \in SUBSET S |-> IF s = {} THEN 0 ELSE weight[Picked(s)] + f[s \ {Picked(s)}]]
SumsUpTo(f, weight, S, n) ==
  f = [s \in {t \in SUBSET S : Cardinality(t) <= n} |->
         IF s = {} THEN 0 ELSE weight[Picked(s)] + f[s \ {Picked(s)}]]

LEMMA WithoutPicked ==
  ASSUME NEW S, IsFiniteSet(S), NEW s \in SUBSET S
  PROVE  /\ Cardinality(s) \in Nat
         /\ s # {} => /\ Picked(s) \in s
                      /\ \A x \in s : Cardinality(s \ {x}) = Cardinality(s) - 1
         /\ Cardinality(s) = 0 => s = {}
<1>1. s # {} => Picked(s) \in s
  BY DEF Picked
<1>2. IsFiniteSet(s)
  BY FS_Subset
<1>. QED
  BY <1>1, <1>2, FS_RemoveElement, FS_CardinalityType, FS_EmptySet

(* The recursion has a solution: by induction on the size of the sets, a   *)
(* solution for small sets gives one for sets with one more element.       *)
LEMMA SumsGrow ==
  ASSUME NEW S, IsFiniteSet(S), NEW weight, NEW n \in Nat, NEW f, SumsUpTo(f, weight, S, n)
  PROVE  \E g : SumsUpTo(g, weight, S, n + 1)
<1>. DEFINE D(m) == {t \in SUBSET S : Cardinality(t) <= m}
            g == [s \in D(n + 1) |->
                    IF s = {} THEN 0 ELSE weight[Picked(s)] + f[s \ {Picked(s)}]]
<1>1. ASSUME NEW s \in D(n + 1), s # {}
      PROVE  f[s \ {Picked(s)}] = g[s \ {Picked(s)}]
  <2>. DEFINE t == s \ {Picked(s)}
  <2>1. t \in D(n) /\ t \in D(n + 1)
    BY <1>1, WithoutPicked
  <2>. QED
    BY <2>1 DEF SumsUpTo
<1>2. SumsUpTo(g, weight, S, n + 1)
  BY <1>1 DEF SumsUpTo
<1>. QED
  BY <1>2

LEMMA SumsUpToExist ==
  ASSUME NEW S, IsFiniteSet(S), NEW weight
  PROVE  \A n \in Nat : \E f : SumsUpTo(f, weight, S, n)
<1>. DEFINE T == {n \in Nat : ~ \E f : SumsUpTo(f, weight, S, n)}
<1>1. SUFFICES ASSUME T # {} PROVE FALSE
  OBVIOUS
<1>2. PICK n \in T : \A m \in T : n <= m
  <2>1. T \in SUBSET Nat
    OBVIOUS
  <2>. HIDE DEF T
  <2>. QED
    BY <1>1, <2>1, LeastNumber
<1>3. CASE n = 0
  <2>1. \A s \in SUBSET S : Cardinality(s) <= 0 => s = {}
    BY WithoutPicked
  <2>. DEFINE f == [s \in {t \in SUBSET S : Cardinality(t) <= 0} |-> 0]
  <2>2. SumsUpTo(f, weight, S, 0)
    BY <2>1 DEF SumsUpTo
  <2>. QED
    BY <1>3, <2>2
<1>4. CASE n # 0
  <2>1. n - 1 \in Nat /\ ~(n <= n - 1) /\ (n - 1) + 1 = n
    BY <1>4
  <2>2. \E f : SumsUpTo(f, weight, S, n - 1)
    BY <1>2, <2>1
  <2>3. \E g : SumsUpTo(g, weight, S, (n - 1) + 1)
    BY <2>1, <2>2, SumsGrow
  <2>. QED
    BY <2>1, <2>3
<1>. QED
  BY <1>3, <1>4

LEMMA SumsExist ==
  ASSUME NEW S, IsFiniteSet(S), NEW weight
  PROVE  \E f : Sums(f, weight, S)
<1>1. Cardinality(S) \in Nat
  BY FS_CardinalityType
<1>2. {t \in SUBSET S : Cardinality(t) <= Cardinality(S)} = SUBSET S
  BY FS_Subset
<1>3. PICK f : SumsUpTo(f, weight, S, Cardinality(S))
  BY <1>1, SumsUpToExist
<1>. QED
  BY <1>2, <1>3 DEF SumsUpTo, Sums

(* Sums of weights that agree are the same.                                *)
LEMMA SumsAgree ==
  ASSUME NEW S, IsFiniteSet(S), NEW weight, NEW f, Sums(f, weight, S),
         NEW T, NEW other, NEW g, Sums(g, other, T),
         NEW R \in SUBSET (S \cap T), \A x \in R : weight[x] = other[x]
  PROVE  f[R] = g[R]
<1>. DEFINE Bad == {s \in SUBSET R : f[s] # g[s]}
<1>1. SUFFICES ASSUME Bad # {} PROVE FALSE
  OBVIOUS
<1>2. IsFiniteSet(R)
  BY FS_Subset
<1>3. PICK s \in Bad : \A t \in Bad : t \subseteq s => t = s
  <2>1. Bad \subseteq SUBSET R
    OBVIOUS
  <2>. HIDE DEF Bad
  <2>. QED
    BY <1>1, <1>2, <2>1, MinimalSet
<1>4. s # {}
  BY <1>3 DEF Sums
<1>5. Picked(s) \in s
  BY <1>4 DEF Picked
<1>6. f[s \ {Picked(s)}] = g[s \ {Picked(s)}]
  BY <1>3, <1>5
<1>. QED
  BY <1>3, <1>4, <1>5, <1>6 DEF Sums

LEMMA SumsAreNumbers ==
  ASSUME NEW S, IsFiniteSet(S), NEW weight, \A x \in S : weight[x] \in Nat,
         NEW f, Sums(f, weight, S)
  PROVE  \A s \in SUBSET S : f[s] \in Nat
<1>. DEFINE Bad == {s \in SUBSET S : f[s] \notin Nat}
<1>1. SUFFICES ASSUME Bad # {} PROVE FALSE
  OBVIOUS
<1>2. PICK s \in Bad : \A t \in Bad : t \subseteq s => t = s
  <2>1. Bad \subseteq SUBSET S
    OBVIOUS
  <2>. HIDE DEF Bad
  <2>. QED
    BY <1>1, <2>1, MinimalSet
<1>3. s # {}
  BY <1>2 DEF Sums
<1>4. Picked(s) \in s
  BY <1>3 DEF Picked
<1>5. f[s \ {Picked(s)}] \in Nat /\ weight[Picked(s)] \in Nat
  BY <1>2, <1>4
<1>6. f[s] = weight[Picked(s)] + f[s \ {Picked(s)}]
  BY <1>3 DEF Sums
<1>. QED
  BY <1>2, <1>5, <1>6

(* Whichever element is taken out first.                                   *)
LEMMA SumsAnyOrder ==
  ASSUME NEW S, IsFiniteSet(S), NEW weight, \A x \in S : weight[x] \in Nat,
         NEW f, Sums(f, weight, S)
  PROVE  \A s \in SUBSET S : \A x \in s : f[s] = weight[x] + f[s \ {x}]
<1>. DEFINE Bad == {s \in SUBSET S : \E x \in s : f[s] # weight[x] + f[s \ {x}]}
<1>1. SUFFICES ASSUME Bad # {} PROVE FALSE
  OBVIOUS
<1>2. PICK s \in Bad : \A t \in Bad : t \subseteq s => t = s
  <2>1. Bad \subseteq SUBSET S
    OBVIOUS
  <2>. HIDE DEF Bad
  <2>. QED
    BY <1>1, <2>1, MinimalSet
<1>3. PICK x \in s : f[s] # weight[x] + f[s \ {x}]
  OBVIOUS
<1>. DEFINE y == Picked(s)
<1>4. y \in s
  BY DEF Picked
<1>5. f[s] = weight[y] + f[s \ {y}]
  BY <1>3 DEF Sums
<1>6. x # y
  BY <1>3, <1>5
<1>. DEFINE sx == s \ {x}
            sy == s \ {y}
            rest == (s \ {x}) \ {y}
<1>7. \A t \in SUBSET s : t # s => \A z \in t : f[t] = weight[z] + f[t \ {z}]
  BY <1>2
<1>8. sx \in SUBSET s /\ sx # s /\ y \in sx /\ sx \ {y} = rest
  BY <1>3, <1>4, <1>6
<1>9. sy \in SUBSET s /\ sy # s /\ x \in sy /\ sy \ {x} = rest
  BY <1>3, <1>4, <1>6
<1>10. f[sy] = weight[x] + f[rest] /\ f[sx] = weight[y] + f[rest]
  <2>. HIDE DEF sx, sy, rest
  <2>. QED
    BY <1>7, <1>8, <1>9
<1>11. weight[x] \in Nat /\ weight[y] \in Nat /\ f[rest] \in Nat
  BY <1>4, SumsAreNumbers
<1>12. f[s] # weight[x] + f[sx] /\ f[s] = weight[y] + f[sy]
  BY <1>3, <1>5
<1>. HIDE DEF y, sx, sy, rest
<1>. QED
  BY <1>10, <1>11, <1>12

LEMMA SumsMonotone ==
  ASSUME NEW S, IsFiniteSet(S), NEW weight, \A x \in S : weight[x] \in Nat,
         NEW f, Sums(f, weight, S)
  PROVE  \A s \in SUBSET S : \A r \in SUBSET s : f[r] <= f[s]
<1>. DEFINE Bad == {s \in SUBSET S : \E r \in SUBSET s : ~(f[r] <= f[s])}
<1>1. SUFFICES ASSUME Bad # {} PROVE FALSE
  OBVIOUS
<1>2. PICK s \in Bad : \A t \in Bad : t \subseteq s => t = s
  <2>1. Bad \subseteq SUBSET S
    OBVIOUS
  <2>. HIDE DEF Bad
  <2>. QED
    BY <1>1, <2>1, MinimalSet
<1>3. PICK r \in SUBSET s : ~(f[r] <= f[s])
  OBVIOUS
<1>4. f[s] \in Nat /\ f[r] \in Nat
  BY SumsAreNumbers
<1>5. PICK x \in s : x \notin r
  BY <1>3, <1>4
<1>6. f[s] = weight[x] + f[s \ {x}]
  BY SumsAnyOrder
<1>7. f[r] <= f[s \ {x}]
  BY <1>2, <1>5
<1>8. weight[x] \in Nat /\ f[s \ {x}] \in Nat
  BY SumsAreNumbers
<1>. QED
  BY <1>3, <1>4, <1>6, <1>7, <1>8


-----------------------------------------------------------------------------
(*                              Rows                                       *)

LEMMA RowsDiffer ==
  ASSUME NEW x, NEW y
  PROVE  /\ WorkspaceRow(x) = WorkspaceRow(y) <=> x = y
         /\ ProductRow(x) = ProductRow(y) <=> x = y
         /\ ImageRow(x) = ImageRow(y) <=> x = y
         /\ WorkspaceRow(x) # ProductRow(y)
         /\ WorkspaceRow(x) # ImageRow(y)
         /\ ProductRow(x) # ImageRow(y)
BY DEF WorkspaceRow, ProductRow, ImageRow

LEMMA RowsExist ==
  /\ \A w \in Workspace : WorkspaceRow(w) \in Row
  /\ \A x \in Product : ProductRow(x) \in Row
  /\ \A i \in File : ImageRow(i) \in Row
BY DEF Row

LEMMA RowKinds ==
  ASSUME NEW row \in Row
  PROVE  \/ \E w \in Workspace : row = WorkspaceRow(w)
         \/ \E x \in Product : row = ProductRow(x)
         \/ \E i \in File : row = ImageRow(i)
BY DEF Row

LEMMA NotRows ==
  /\ Absent # Gone
  /\ Absent \notin WorkspaceRecord /\ Gone \notin WorkspaceRecord
  /\ Absent \notin ProductRecord /\ Gone \notin ProductRecord
  /\ Absent \notin ImageRecord /\ Gone \notin ImageRecord
BY MarkersAssumption

LEMMA RowContents ==
  ASSUME NEW v, DatabaseOK(v)
  PROVE  /\ \A w \in Workspace :
              /\ Exists(v, WorkspaceRow(w)) <=> v[WorkspaceRow(w)] \in WorkspaceRecord
              /\ Exists(v, WorkspaceRow(w)) \/ v[WorkspaceRow(w)] = Gone
         /\ \A x \in Product : Exists(v, ProductRow(x)) <=> v[ProductRow(x)] \in ProductRecord
         /\ \A i \in File :
              /\ Exists(v, ImageRow(i)) <=> v[ImageRow(i)] \in ImageRecord
              /\ ~Exists(v, ImageRow(i)) <=> v[ImageRow(i)] = Absent
              /\ Exists(v, ImageRow(i)) =>
                   /\ v[ImageRow(i)].workspace \in Workspace
                   /\ v[ImageRow(i)].product \in Product
                   /\ v[ImageRow(i)].upload \in Upload
                   /\ v[ImageRow(i)].position \in 0 .. MAX_IMAGES - 1
BY NotRows DEF DatabaseOK, Exists, ImageRecord

LEMMA FinitelyMany ==
  ASSUME NEW v, NEW x
  PROVE  /\ IsFiniteSet(ProductsOf(v, x)) /\ Cardinality(ProductsOf(v, x)) \in Nat
         /\ IsFiniteSet(ImagesOf(v, x)) /\ Cardinality(ImagesOf(v, x)) \in Nat
         /\ IsFiniteSet(ImagesIn(v, x))
<1>1. /\ ProductsOf(v, x) \in SUBSET Product
      /\ ImagesOf(v, x) \in SUBSET File
      /\ ImagesIn(v, x) \in SUBSET File
  BY DEF ProductsOf, ImagesOf, ImagesIn
<1>2. /\ IsFiniteSet(ProductsOf(v, x))
      /\ IsFiniteSet(ImagesOf(v, x))
      /\ IsFiniteSet(ImagesIn(v, x))
  BY <1>1, FiniteAssumption, FS_Subset
<1>. QED
  BY <1>2, FS_CardinalityType

-----------------------------------------------------------------------------
(*                         What the quotas count                           *)

Bytes(v) == [i \in File |-> StoredBytes[v[ImageRow(i)].upload]]

LEMMA StorageIsSum ==
  ASSUME NEW v, NEW w
  PROVE  \E f : Sums(f, Bytes(v), ImagesIn(v, w)) /\ StorageBytes(v, w) = f[ImagesIn(v, w)]
<1>. DEFINE S == ImagesIn(v, w)
            Fits(f) == f = [s \in SUBSET S |->
                              IF s = {} THEN 0
                              ELSE StoredBytes[v[ImageRow(Picked(s))].upload]
                                     + f[s \ {Picked(s)}]]
<1>1. StorageBytes(v, w) = (CHOOSE f : Fits(f))[S]
  BY DEF StorageBytes, MapThenSumSet, MapThenFoldSet, Picked
<1>2. \A f : Sums(f, Bytes(v), S) <=> Fits(f)
  <2>1. \A s \in SUBSET S : s # {} =>
          Bytes(v)[Picked(s)] = StoredBytes[v[ImageRow(Picked(s))].upload]
    <3>. SUFFICES ASSUME NEW s \in SUBSET S, s # {}
                  PROVE  Picked(s) \in File
      BY DEF Bytes
    <3>. QED
      BY DEF Picked, ImagesIn
  <2>. HIDE DEF S
  <2>. QED
    BY <2>1 DEF Sums
<1>3. \E f : Fits(f)
  BY <1>2, FinitelyMany, SumsExist
<1>4. Fits(CHOOSE f : Fits(f))
  <2>. HIDE DEF Fits
  <2>. QED
    BY <1>3
<1>. HIDE DEF Fits, S
<1>5. QED
  BY <1>1, <1>2, <1>4 DEF S

LEMMA BytesAreNumbers ==
  ASSUME NEW v, DatabaseOK(v), NEW w
  PROVE  \A i \in ImagesIn(v, w) : Bytes(v)[i] \in Nat
BY RowContents, LimitsAssumption DEF ImagesIn, Bytes

LEMMA StorageMonotone ==
  ASSUME NEW v, NEW s, DatabaseOK(v), DatabaseOK(s), NEW w, NoImagesAdded(v, s, w)
  PROVE  /\ StorageBytes(v, w) \in Nat /\ StorageBytes(s, w) \in Nat
         /\ StorageBytes(v, w) <= StorageBytes(s, w)
<1>. DEFINE R == ImagesIn(v, w)
            S == ImagesIn(s, w)
<1>1. PICK f : Sums(f, Bytes(v), R) /\ StorageBytes(v, w) = f[R]
  BY StorageIsSum
<1>2. PICK g : Sums(g, Bytes(s), S) /\ StorageBytes(s, w) = g[S]
  BY StorageIsSum
<1>3. /\ R \in SUBSET (R \cap S) /\ R \in SUBSET S
      /\ \A i \in R : Bytes(v)[i] = Bytes(s)[i]
  BY DEF NoImagesAdded, Bytes, ImagesIn
<1>4. IsFiniteSet(R) /\ IsFiniteSet(S)
  BY FinitelyMany
<1>5. /\ \A i \in R : Bytes(v)[i] \in Nat
      /\ \A i \in S : Bytes(s)[i] \in Nat
  BY BytesAreNumbers
<1>. HIDE DEF R, S
<1>6. f[R] = g[R]
  BY <1>1, <1>2, <1>3, <1>4, SumsAgree
<1>7. g[R] \in Nat /\ g[S] \in Nat /\ g[R] <= g[S]
  BY <1>2, <1>3, <1>4, <1>5, SumsAreNumbers, SumsMonotone
<1>. QED
  BY <1>1, <1>2, <1>6, <1>7

LEMMA StorageAdded ==
  ASSUME NEW v, NEW s, DatabaseOK(v), DatabaseOK(s), NEW w,
         NEW f \in File, f \notin ImagesIn(s, w), ImagesIn(v, w) = ImagesIn(s, w) \cup {f},
         \A i \in ImagesIn(s, w) : v[ImageRow(i)].upload = s[ImageRow(i)].upload
  PROVE  StorageBytes(v, w) = StorageBytes(s, w) + StoredBytes[v[ImageRow(f)].upload]
<1>. DEFINE R == ImagesIn(s, w)
            S == ImagesIn(v, w)
<1>1. PICK g : Sums(g, Bytes(s), R) /\ StorageBytes(s, w) = g[R]
  BY StorageIsSum
<1>2. PICK h : Sums(h, Bytes(v), S) /\ StorageBytes(v, w) = h[S]
  BY StorageIsSum
<1>3. /\ R \in SUBSET (R \cap S) /\ S \in SUBSET S /\ f \in S /\ S \ {f} = R
      /\ \A i \in R : Bytes(s)[i] = Bytes(v)[i]
  BY DEF Bytes, ImagesIn
<1>4. IsFiniteSet(R) /\ IsFiniteSet(S)
  BY FinitelyMany
<1>5. /\ \A i \in R : Bytes(s)[i] \in Nat
      /\ \A i \in S : Bytes(v)[i] \in Nat
  BY BytesAreNumbers
<1>6. Bytes(v)[f] = StoredBytes[v[ImageRow(f)].upload]
  BY DEF Bytes
<1>. HIDE DEF R, S
<1>7. g[R] = h[R]
  BY <1>1, <1>2, <1>3, <1>4, SumsAgree
<1>8. h[S] = Bytes(v)[f] + h[S \ {f}]
  BY <1>2, <1>3, <1>4, <1>5, SumsAnyOrder
<1>9. h[R] \in Nat /\ Bytes(v)[f] \in Nat
  BY <1>2, <1>3, <1>4, <1>5, SumsAreNumbers
<1>10. h[S] = h[R] + Bytes(v)[f]
  <2>1. h[S \ {f}] = h[R]
    BY <1>3
  <2>. QED
    BY <1>8, <1>9, <2>1
<1>. QED
  BY <1>1, <1>2, <1>6, <1>7, <1>10


-----------------------------------------------------------------------------
(*                     What a commit makes of two views                    *)

(* new is old with the changes from s to after, none of which old had made *)
(* already.  The two changes may be exchanged.                             *)
Merges(new, old, s, after) ==
  \A row \in Row : \/ new[row] = old[row] /\ after[row] = s[row]
                   \/ new[row] = after[row] /\ old[row] = s[row]

LEMMA CommitMerges ==
  ASSUME NEW p \in Session, NEW locked, NEW after, NEW next,
         DatabaseOK(db), Relies(db, tx[p].snapshot, tx[p].touched),
         Commit(p, locked, after, next)
  PROVE  /\ Merges(db', db, tx[p].snapshot, after)
         /\ Merges(db', after, tx[p].snapshot, db)
         /\ DOMAIN db' = Row
<1>. DEFINE s == tx[p].snapshot
<1>1. ASSUME NEW row \in Row
      PROVE  \/ db'[row] = db[row] /\ after[row] = s[row]
             \/ db'[row] = after[row] /\ db[row] = s[row]
  <2>1. db'[row] = IF after[row] # s[row] THEN after[row] ELSE db[row]
    BY MergedRow DEF DatabaseOK
  <2>2. after[row] # s[row] => row \notin tx[p].touched
    BY FootprintUntouched DEF DatabaseOK
  <2>. QED
    BY <2>1, <2>2 DEF Relies
<1>2. DOMAIN db' = Row
  BY DEF Commit, DatabaseOK
<1>. QED
  BY <1>1, <1>2 DEF Merges

LEMMA MergedDatabaseOK ==
  ASSUME NEW new, NEW old, NEW s, NEW after, Merges(new, old, s, after), DOMAIN new = Row,
         DatabaseOK(old), DatabaseOK(after)
  PROVE  DatabaseOK(new)
<1>1. \A row \in Row : new[row] \in {old[row], after[row]}
  BY DEF Merges
<1>2. \A w \in Workspace : new[WorkspaceRow(w)] \in WorkspaceRecord \cup {Gone}
  BY <1>1, RowsExist DEF DatabaseOK
<1>3. \A x \in Product : new[ProductRow(x)] \in ProductRecord \cup {Absent, Gone}
  BY <1>1, RowsExist DEF DatabaseOK
<1>4. \A i \in File : new[ImageRow(i)] \in ImageRecord \cup {Absent}
  BY <1>1, RowsExist DEF DatabaseOK
<1>. QED
  BY <1>2, <1>3, <1>4 DEF DatabaseOK

LEMMA MergedSameImages ==
  ASSUME NEW new, NEW old, NEW s, NEW after, Merges(new, old, s, after),
         NEW x \in Product, SameImages(after, s, x)
  PROVE  SameImages(new, old, x)
<1>1. ASSUME NEW i \in ImagesOf(new, x) \cup ImagesOf(old, x)
      PROVE  new[ImageRow(i)] = old[ImageRow(i)]
  <2>1. i \in File /\ ImageRow(i) \in Row
    BY RowsExist DEF ImagesOf
  <2>2. CASE new[ImageRow(i)] = after[ImageRow(i)] /\ old[ImageRow(i)] = s[ImageRow(i)]
    <3>1. i \in ImagesOf(after, x) \cup ImagesOf(s, x)
      BY <2>1, <2>2 DEF ImagesOf, Exists
    <3>. QED
      BY <2>2, <3>1 DEF SameImages
  <2>. QED
    BY <2>1, <2>2 DEF Merges
<1>. QED
  BY <1>1 DEF SameImages

LEMMA MergedNoProductsAdded ==
  ASSUME NEW new, NEW old, NEW s, NEW after, Merges(new, old, s, after),
         NEW w \in Workspace, NoProductsAdded(after, s, w)
  PROVE  NoProductsAdded(new, old, w)
BY RowsExist DEF Merges, NoProductsAdded, ProductsOf, Exists

LEMMA MergedNoImagesAdded ==
  ASSUME NEW new, NEW old, NEW s, NEW after, Merges(new, old, s, after),
         NEW w \in Workspace, NoImagesAdded(after, s, w)
  PROVE  NoImagesAdded(new, old, w)
<1>1. ASSUME NEW i \in ImagesIn(new, w)
      PROVE  i \in ImagesIn(old, w) /\ new[ImageRow(i)].upload = old[ImageRow(i)].upload
  <2>1. i \in File /\ ImageRow(i) \in Row
    BY RowsExist DEF ImagesIn
  <2>2. CASE new[ImageRow(i)] = after[ImageRow(i)] /\ old[ImageRow(i)] = s[ImageRow(i)]
    <3>1. i \in ImagesIn(after, w)
      BY <2>1, <2>2 DEF ImagesIn, Exists
    <3>2. i \in ImagesIn(s, w) /\ after[ImageRow(i)].upload = s[ImageRow(i)].upload
      BY <3>1 DEF NoImagesAdded
    <3>. QED
      BY <2>1, <2>2, <3>2 DEF ImagesIn, Exists
  <2>3. CASE new[ImageRow(i)] = old[ImageRow(i)]
    BY <2>1, <2>3 DEF ImagesIn, Exists
  <2>. QED
    BY <2>1, <2>2, <2>3 DEF Merges
<1>. QED
  BY <1>1 DEF NoImagesAdded

(* ImagesOK is about a product and its images only.                        *)
LEMMA ImagesOKAgain ==
  ASSUME NEW v, NEW s, NEW x \in Product, SameImages(v, s, x),
         v[ProductRow(x)] = s[ProductRow(x)], ImagesOK(s, x)
  PROVE  ImagesOK(v, x)
<1>1. ImagesOf(v, x) = ImagesOf(s, x)
  BY DEF SameImages, ImagesOf, Exists
<1>2. \A i \in ImagesOf(v, x) : v[ImageRow(i)] = s[ImageRow(i)]
  BY DEF SameImages
<1>3. Positions(v, x) = Positions(s, x)
  BY <1>1, <1>2 DEF Positions
<1>4. \A w : x \in ProductsOf(v, w) <=> x \in ProductsOf(s, w)
  BY DEF ProductsOf, Exists
<1>. QED
  BY <1>1, <1>2, <1>3, <1>4 DEF ImagesOK

-----------------------------------------------------------------------------
(*                      What a use case must do                            *)

Guards(locked, s, after, row) == row \in locked \/ after[row] # s[row]

(* The view that a use case leaves fits together, it changes the images of *)
(* a product only if it locks or writes the product, adds to a live        *)
(* workspace only if it locks the workspace, and never above a quota.      *)
Sound(s, locked, after) ==
  /\ DatabaseOK(after)
  /\ \A x \in Product :
       /\ ImagesOK(after, x)
       /\ after[ProductRow(x)] = Absent => s[ProductRow(x)] = Absent
       /\ Guards(locked, s, after, ProductRow(x)) \/ SameImages(after, s, x)
  /\ \A w \in Workspace :
       /\ Live(after, w) => Live(s, w)
       /\ Live(s, w) =>
            /\ \/ NoProductsAdded(after, s, w)
               \/ /\ Guards(locked, s, after, WorkspaceRow(w))
                  /\ Cardinality(ProductsOf(after, w)) <= MAX_PRODUCTS
            /\ \/ NoImagesAdded(after, s, w)
               \/ /\ Guards(locked, s, after, WorkspaceRow(w))
                  /\ StorageBytes(after, w) <= MAX_BYTES

LEMMA GuardedUntouched ==
  ASSUME NEW p \in Session, NEW locked, NEW after, NEW next, DatabaseOK(db),
         Commit(p, locked, after, next), NEW row \in Row,
         Guards(locked, tx[p].snapshot, after, row)
  PROVE  row \in Footprint(p, locked, after) /\ row \notin tx[p].touched
BY FootprintUntouched DEF Guards, DatabaseOK

LEMMA LiveAfter ==
  ASSUME NEW new, NEW old, NEW s, NEW after, Merges(new, old, s, after),
         NEW w \in Workspace, Live(after, w) => Live(s, w), Live(new, w)
  PROVE  Live(old, w)
BY RowsExist DEF Merges, Live, Exists

LEMMA MergedImagesOK ==
  ASSUME NEW p \in Session, NEW locked, NEW after, NEW next,
         DatabaseOK(db), Relies(db, tx[p].snapshot, tx[p].touched),
         Sound(tx[p].snapshot, locked, after), Commit(p, locked, after, next),
         NEW x \in Product, ImagesOK(db, x)
  PROVE  ImagesOK(db', x)
<1>. DEFINE s == tx[p].snapshot
            row == ProductRow(x)
<1>1. row \in Row /\ Merges(db', db, s, after) /\ Merges(db', after, s, db)
  BY RowsExist, CommitMerges
<1>2. CASE Guards(locked, s, after, row)
  <2>1. row \notin tx[p].touched
    BY <1>1, <1>2, GuardedUntouched
  <2>2. db[row] = s[row] /\ SameImages(db, s, x)
    BY <1>1, <2>1 DEF Relies
  <2>3. SameImages(db', after, x)
    BY <1>1, <2>2, MergedSameImages
  <2>4. db'[row] = after[row]
    BY <1>1, <2>2 DEF Merges
  <2>. QED
    BY <2>3, <2>4, ImagesOKAgain DEF Sound
<1>3. CASE ~Guards(locked, s, after, row)
  <2>1. SameImages(db', db, x)
    BY <1>1, <1>3, MergedSameImages DEF Sound
  <2>2. db'[row] = db[row]
    BY <1>1, <1>3 DEF Guards, Merges
  <2>. QED
    BY <2>1, <2>2, ImagesOKAgain
<1>. QED
  BY <1>2, <1>3

LEMMA MergedQuotas ==
  ASSUME NEW p \in Session, NEW locked, NEW after, NEW next,
         DatabaseOK(db), QuotasHold, Relies(db, tx[p].snapshot, tx[p].touched),
         Sound(tx[p].snapshot, locked, after), Commit(p, locked, after, next)
  PROVE  QuotasHold'
<1>. DEFINE s == tx[p].snapshot
<1>1. /\ Merges(db', db, s, after) /\ Merges(db', after, s, db)
      /\ DatabaseOK(after) /\ DatabaseOK(db')
  BY CommitMerges, MergedDatabaseOK DEF Sound
<1>2. ASSUME NEW w \in Workspace, Live(db', w)
      PROVE  /\ Cardinality(ProductsOf(db', w)) <= MAX_PRODUCTS
             /\ StorageBytes(db', w) <= MAX_BYTES
  <2>1. Live(db, w) /\ Live(s, w)
    BY <1>1, <1>2, LiveAfter DEF Sound, Relies
  <2>2. Guards(locked, s, after, WorkspaceRow(w)) =>
          NoProductsAdded(db', after, w) /\ NoImagesAdded(db', after, w)
    <3>. SUFFICES ASSUME Guards(locked, s, after, WorkspaceRow(w))
                  PROVE  NoProductsAdded(db', after, w) /\ NoImagesAdded(db', after, w)
      OBVIOUS
    <3>1. WorkspaceRow(w) \notin tx[p].touched
      BY RowsExist, GuardedUntouched
    <3>2. NoProductsAdded(db, s, w) /\ NoImagesAdded(db, s, w)
      BY <2>1, <3>1 DEF Relies
    <3>. QED
      BY <1>1, <3>2, MergedNoProductsAdded, MergedNoImagesAdded
  <2>3. ASSUME NEW v, NoProductsAdded(db', v, w), Cardinality(ProductsOf(v, w)) <= MAX_PRODUCTS
        PROVE  Cardinality(ProductsOf(db', w)) <= MAX_PRODUCTS
    <3>1. /\ IsFiniteSet(ProductsOf(v, w))
          /\ ProductsOf(db', w) \in SUBSET ProductsOf(v, w)
          /\ Cardinality(ProductsOf(v, w)) \in Nat /\ Cardinality(ProductsOf(db', w)) \in Nat
      BY <2>3, FinitelyMany DEF NoProductsAdded
    <3>2. Cardinality(ProductsOf(db', w)) <= Cardinality(ProductsOf(v, w))
      BY <3>1, FS_Subset
    <3>. QED
      BY <2>3, <3>1, <3>2, LimitsAssumption
  <2>4. Cardinality(ProductsOf(db', w)) <= MAX_PRODUCTS
    <3>1. CASE NoProductsAdded(after, s, w)
      <4>1. NoProductsAdded(db', db, w)
        BY <1>1, <3>1, MergedNoProductsAdded
      <4>. QED
        BY <2>1, <2>3, <4>1 DEF QuotasHold
    <3>2. CASE ~NoProductsAdded(after, s, w)
      BY <2>1, <2>2, <2>3, <3>2 DEF Sound
    <3>. QED
      BY <3>1, <3>2
  <2>5. ASSUME NEW v, DatabaseOK(v), NoImagesAdded(db', v, w), StorageBytes(v, w) <= MAX_BYTES
        PROVE  StorageBytes(db', w) <= MAX_BYTES
    <3>1. /\ StorageBytes(db', w) \in Nat /\ StorageBytes(v, w) \in Nat
          /\ StorageBytes(db', w) <= StorageBytes(v, w)
      BY <1>1, <2>5, StorageMonotone
    <3>. QED
      BY <2>5, <3>1, LimitsAssumption
  <2>6. StorageBytes(db', w) <= MAX_BYTES
    <3>1. CASE NoImagesAdded(after, s, w)
      <4>1. NoImagesAdded(db', db, w)
        BY <1>1, <3>1, MergedNoImagesAdded
      <4>. QED
        BY <2>1, <2>5, <4>1 DEF QuotasHold
    <3>2. CASE ~NoImagesAdded(after, s, w)
      BY <1>1, <2>1, <2>2, <2>5, <3>2 DEF Sound
    <3>. QED
      BY <3>1, <3>2
  <2>. QED
    BY <2>4, <2>6
<1>. QED
  BY <1>2 DEF QuotasHold


LEMMA MergedRelies ==
  ASSUME NEW p \in Session, NEW locked, NEW after, NEW next,
         DatabaseOK(db), Relies(db, tx[p].snapshot, tx[p].touched),
         Sound(tx[p].snapshot, locked, after), Commit(p, locked, after, next),
         NEW v, NEW touched, Relies(db, v, touched)
  PROVE  Relies(db', v, touched \cup Footprint(p, locked, after))
<1>. DEFINE s == tx[p].snapshot
            beyond == touched \cup Footprint(p, locked, after)
<1>1. /\ Merges(db', db, s, after) /\ DOMAIN db = Row
      /\ \A row \in Row : Guards(locked, s, after, row) => row \in beyond
  BY CommitMerges, GuardedUntouched DEF DatabaseOK
<1>2. ASSUME NEW row \in Row \ beyond
      PROVE  db'[row] = db[row] /\ after[row] = s[row] /\ db[row] = v[row]
  BY <1>1, <1>2 DEF Merges, Guards, Relies
<1>. HIDE DEF s, beyond
<1>3. ASSUME NEW x \in Product, db'[ProductRow(x)] = Absent
      PROVE  v[ProductRow(x)] = Absent
  <2>1. db[ProductRow(x)] = Absent
    BY <1>1, <1>3, RowsExist DEF Merges, Sound, s
  <2>. QED
    BY <2>1 DEF Relies
<1>4. ASSUME NEW x \in Product, ProductRow(x) \notin beyond
      PROVE  SameImages(db', v, x)
  <2>1. SameImages(after, s, x)
    BY <1>1, <1>4, RowsExist DEF Sound, s
  <2>2. SameImages(db', db, x)
    BY <1>1, <2>1, MergedSameImages
  <2>3. SameImages(db, v, x)
    BY <1>4 DEF Relies, beyond
  <2>4. ASSUME NEW i \in ImagesOf(db', x) \cup ImagesOf(v, x)
        PROVE  db'[ImageRow(i)] = v[ImageRow(i)]
    <3>1. i \in ImagesOf(db, x)
      BY <2>2, <2>3 DEF SameImages, ImagesOf, Exists
    <3>. QED
      BY <2>2, <2>3, <3>1 DEF SameImages
  <2>. QED
    BY <2>4 DEF SameImages
<1>5. ASSUME NEW w \in Workspace, Live(v, w), WorkspaceRow(w) \notin beyond
      PROVE  NoProductsAdded(db', v, w) /\ NoImagesAdded(db', v, w)
  <2>1. Live(db, w)
    BY <1>2, <1>5, RowsExist DEF Live, Exists
  <2>2. Live(s, w)
    BY <2>1 DEF Relies, s
  <2>3. NoProductsAdded(after, s, w) /\ NoImagesAdded(after, s, w)
    BY <1>1, <1>5, <2>2, RowsExist DEF Sound, s
  <2>4. NoProductsAdded(db', db, w) /\ NoImagesAdded(db', db, w)
    BY <1>1, <2>3, MergedNoProductsAdded, MergedNoImagesAdded
  <2>5. NoProductsAdded(db, v, w) /\ NoImagesAdded(db, v, w)
    BY <1>5 DEF Relies, beyond
  <2>. QED
    BY <2>4, <2>5 DEF NoProductsAdded, NoImagesAdded
<1>6. ASSUME NEW w \in Workspace, ~Live(v, w)
      PROVE  ~Live(db', w)
  BY <1>1, <1>6, LiveAfter DEF Relies, Sound, s
<1>. QED
  BY <1>2, <1>3, <1>4, <1>5, <1>6 DEF Relies, beyond

-----------------------------------------------------------------------------
(*                       What a session has in hand                        *)

At(r, calls) == r # NoRequest /\ r.call \in calls
Carries(r) == At(r, {"consuming", "attaching"})
Holds(r, f) == (Carries(r) /\ r.file = f) \/ (At(r, {"cleaning"}) /\ f \in r.files)

(* FilesAreNew of any database, sessions and files.                        *)
InNone(d, t, f) ==
  /\ \A row \in Row : f \notin FilesOf(d, row)
  /\ \A q \in Session : t[q].open => \A row \in Row : f \notin FilesOf(t[q].snapshot, row)
NewFiles(d, t, fs) ==
  /\ \A f \in File : fs[f] = "unused" => InNone(d, t, f)
  /\ \A p \in Session : Carries(t[p].request) =>
       /\ InNone(d, t, t[p].request.file)
       /\ fs[t[p].request.file] # "unused"
       /\ \A q \in Session :
            Carries(t[q].request) /\ t[q].request.file = t[p].request.file => q = p

LEMMA NewFilesNow == FilesAreNew <=> NewFiles(db, tx, files)
BY DEF FilesAreNew, NewFiles, InNoRow, InNone, InStage, InHand, Carries, At

LEMMA NewFilesNext == FilesAreNew' <=> NewFiles(db', tx', files')
<1>1. FilesAreNew' <=> NewFiles(db, tx, files)'
  BY NewFilesNow, PTL
<1>. QED
  BY <1>1

(* The part of IInv that is about a transaction.                           *)
SessionOK(d, t) ==
  /\ TransactionOK(t)
  /\ t.open => /\ ~At(t.request, {"cleaning"})
               /\ \A x \in Product : ImagesOK(t.snapshot, x)
               /\ Relies(d, t.snapshot, t.touched)

LEMMA IInvNow ==
  IInv <=> /\ DatabaseOK(db) /\ DOMAIN tx = Session /\ MediaTypeOK
           /\ \A x \in Product : ImagesOK(db, x)
           /\ QuotasHold /\ NewFiles(db, tx, files)
           /\ \A p \in Session : SessionOK(db, tx[p])
BY NewFilesNow DEF IInv, TypeOK, SessionOK, InStage, At

LEMMA IInvNext ==
  IInv' <=> /\ DatabaseOK(db') /\ DOMAIN tx' = Session /\ MediaTypeOK'
            /\ \A x \in Product : ImagesOK(db', x)
            /\ QuotasHold' /\ NewFiles(db', tx', files')
            /\ \A p \in Session : SessionOK(db', tx'[p])
BY NewFilesNext DEF IInv, TypeOK, SessionOK, InStage, At

(* A commit attaches no file but the one that its session brought.         *)
Attaching(s, after, r) ==
  \A row \in Row : \A f \in FilesOf(after, row) :
    f \in FilesOf(s, row) \/ (Carries(r) /\ r.file = f)

LEMMA OtherTransactions ==
  ASSUME NEW p \in Session, NEW locked, NEW after, NEW next, Commit(p, locked, after, next)
  PROVE  /\ DOMAIN tx' = Session
         /\ tx'[p] = Waiting(next, 1)
         /\ \A q \in Session : q # p /\ TransactionOK(tx[q]) =>
              /\ tx'[q].open = tx[q].open
              /\ tx'[q].snapshot = tx[q].snapshot
              /\ tx'[q].request = tx[q].request
              /\ tx[q].open => tx'[q] = [tx[q] EXCEPT !.touched =
                                           tx[q].touched \cup Footprint(p, locked, after)]
              /\ ~tx[q].open => tx'[q] = tx[q]
<1>1. DOMAIN tx' = Session /\ tx'[p] = Waiting(next, 1)
  BY DEF Commit
<1>2. ASSUME NEW q \in Session \ {p}, TransactionOK(tx[q])
      PROVE  /\ tx'[q].open = tx[q].open
             /\ tx'[q].snapshot = tx[q].snapshot
             /\ tx'[q].request = tx[q].request
             /\ tx[q].open => tx'[q] = [tx[q] EXCEPT !.touched =
                                          tx[q].touched \cup Footprint(p, locked, after)]
             /\ ~tx[q].open => tx'[q] = tx[q]
  BY <1>2, OtherSessions DEF TransactionOK
<1>. QED
  BY <1>1, <1>2

LEMMA WaitingOK ==
  ASSUME NEW d, NEW r \in Unfinished \cup {NoRequest}, NEW n \in 1 .. ATTEMPTS
  PROVE  /\ SessionOK(d, Waiting(r, n)) /\ ~Waiting(r, n).open
         /\ Waiting(r, n).request = r
BY DEF SessionOK, TransactionOK, Waiting

LEMMA FirstAttempt == 1 \in 1 .. ATTEMPTS
BY AttemptsAssumption

LEMMA MergedSessions ==
  ASSUME IInv, NEW p \in Session, tx[p].open, NEW locked, locked \subseteq Row, NEW after,
         NEW next \in Unfinished \cup {NoRequest}, Sound(tx[p].snapshot, locked, after),
         Commit(p, locked, after, next), NEW q \in Session
  PROVE  SessionOK(db', tx'[q])
<1>1. SessionOK(db, tx[q]) /\ DatabaseOK(db) /\ Relies(db, tx[p].snapshot, tx[p].touched)
  BY IInvNow DEF SessionOK
<1>2. CASE q = p
  BY <1>2, OtherTransactions, WaitingOK, FirstAttempt
<1>3. CASE q # p /\ ~tx[q].open
  BY <1>1, <1>3, OtherTransactions DEF SessionOK
<1>4. CASE q # p /\ tx[q].open
  <2>. DEFINE fp == Footprint(p, locked, after)
              t == [tx[q] EXCEPT !.touched = tx[q].touched \cup fp]
  <2>1. fp \subseteq Row
    BY <1>1 DEF Footprint, Written, DatabaseOK
  <2>2. tx'[q] = t
    BY <1>1, <1>4, OtherTransactions DEF SessionOK
  <2>3. Relies(db', tx[q].snapshot, tx[q].touched \cup fp)
    BY <1>1, <1>4, MergedRelies DEF SessionOK
  <2>. HIDE DEF fp
  <2>4. /\ t.open = tx[q].open /\ t.snapshot = tx[q].snapshot /\ t.request = tx[q].request
        /\ t.touched = tx[q].touched \cup fp /\ TransactionOK(t)
    BY <1>1, <1>4, <2>1 DEF SessionOK, TransactionOK
  <2>. HIDE DEF t
  <2>. QED
    BY <1>1, <1>4, <2>2, <2>3, <2>4 DEF SessionOK
<1>. QED
  BY <1>2, <1>3, <1>4

LEMMA MergedFiles ==
  ASSUME NEW p \in Session, NEW locked, NEW after, NEW next, DatabaseOK(db),
         Relies(db, tx[p].snapshot, tx[p].touched), Commit(p, locked, after, next),
         NEW row \in Row
  PROVE  \/ /\ FilesOf(db', row) = FilesOf(db, row)
            /\ FilesOf(after, row) = FilesOf(tx[p].snapshot, row)
         \/ /\ FilesOf(db', row) = FilesOf(after, row)
            /\ FilesOf(db, row) = FilesOf(tx[p].snapshot, row)
BY CommitMerges DEF Merges, FilesOf, Exists, Logo

LEMMA MergedNewFiles ==
  ASSUME IInv, NEW p \in Session, tx[p].open, NEW locked, NEW after,
         NEW next, Commit(p, locked, after, next), UNCHANGED files,
         Attaching(tx[p].snapshot, after, tx[p].request), ~Carries(next)
  PROVE  NewFiles(db', tx', files')
<1>1. /\ NewFiles(db, tx, files) /\ DatabaseOK(db)
      /\ \A q \in Session : TransactionOK(tx[q])
      /\ Relies(db, tx[p].snapshot, tx[p].touched)
  BY IInvNow DEF SessionOK
<1>2. /\ tx'[p].request = next /\ ~tx'[p].open
      /\ \A q \in Session : q # p => /\ tx'[q].open = tx[q].open
                                     /\ tx'[q].snapshot = tx[q].snapshot
                                     /\ tx'[q].request = tx[q].request
  <2>1. tx'[p].request = next /\ ~tx'[p].open
    <3>1. tx'[p] = Waiting(next, 1)
      BY OtherTransactions
    <3>. QED
      BY <3>1 DEF Waiting
  <2>2. ASSUME NEW q \in Session, q # p
        PROVE  /\ tx'[q].open = tx[q].open
               /\ tx'[q].snapshot = tx[q].snapshot
               /\ tx'[q].request = tx[q].request
    BY <1>1, <2>2, OtherTransactions
  <2>. QED
    BY <2>1, <2>2
<1>3. \A row \in Row : \A f \in FilesOf(db', row) :
        \/ f \in FilesOf(db, row)
        \/ Carries(tx[p].request) /\ tx[p].request.file = f
  BY <1>1, MergedFiles DEF Attaching
<1>4. ASSUME NEW f, InNone(db, tx, f), ~(Carries(tx[p].request) /\ tx[p].request.file = f)
      PROVE  InNone(db', tx', f)
  <2>1. \A row \in Row : f \notin FilesOf(db', row)
    BY <1>3, <1>4 DEF InNone
  <2>2. \A q \in Session : tx'[q].open => \A row \in Row : f \notin FilesOf(tx'[q].snapshot, row)
    BY <1>2, <1>4 DEF InNone
  <2>. QED
    BY <2>1, <2>2 DEF InNone
<1>5. ASSUME NEW f \in File, files[f] = "unused"
      PROVE  InNone(db', tx', f)
  BY <1>1, <1>4, <1>5 DEF NewFiles
<1>6. ASSUME NEW q \in Session, Carries(tx'[q].request)
      PROVE  /\ InNone(db', tx', tx'[q].request.file)
             /\ files[tx'[q].request.file] # "unused"
             /\ \A o \in Session : Carries(tx'[o].request)
                  /\ tx'[o].request.file = tx'[q].request.file => o = q
  <2>1. q # p /\ tx'[q].request = tx[q].request
    BY <1>2, <1>6
  <2>. QED
    BY <1>1, <1>2, <1>4, <1>6, <2>1 DEF NewFiles
<1>. QED
  BY <1>5, <1>6 DEF NewFiles

LEMMA CommitKeepsIInv ==
  ASSUME IInv, NEW p \in Session, tx[p].open, NEW locked, locked \subseteq Row, NEW after,
         NEW next \in Unfinished \cup {NoRequest}, ~Carries(next),
         Sound(tx[p].snapshot, locked, after),
         Attaching(tx[p].snapshot, after, tx[p].request),
         Commit(p, locked, after, next), UNCHANGED Bucket
  PROVE  IInv'
<1>1. /\ DatabaseOK(db) /\ Relies(db, tx[p].snapshot, tx[p].touched) /\ QuotasHold
      /\ MediaTypeOK /\ \A x \in Product : ImagesOK(db, x)
  BY IInvNow DEF SessionOK
<1>2. DatabaseOK(db') /\ DOMAIN tx' = Session
  BY <1>1, CommitMerges, MergedDatabaseOK, OtherTransactions DEF Sound
<1>3. \A x \in Product : ImagesOK(db', x)
  BY <1>1, MergedImagesOK
<1>4. QuotasHold'
  BY <1>1, MergedQuotas
<1>5. \A q \in Session : SessionOK(db', tx'[q])
  BY MergedSessions
<1>6. NewFiles(db', tx', files') /\ MediaTypeOK'
  BY <1>1, MergedNewFiles DEF Bucket, MediaTypeOK
<1>. QED
  BY <1>2, <1>3, <1>4, <1>5, <1>6, IInvNext

-----------------------------------------------------------------------------
(*                        Requests and their stages                        *)

LEMMA RequestKinds ==
  ASSUME NEW r \in Request
  PROVE  /\ r.call \in {"create", "update", "delete", "request_upload", "confirm",
                        "remove_image", "reorder", "request_logo", "delete_workspace",
                        "purge", "set_logo"}
         /\ r.workspace \in Workspace
         /\ r.call \in {"create", "update"} => r.value \in Value
         /\ r.call \in {"update", "delete", "request_upload", "confirm", "remove_image",
                        "reorder"} => r.product \in Product
         /\ r.call = "confirm" => r.upload \in Upload
         /\ r.call = "set_logo" => r.upload \in Upload \cup {NoUpload}
         /\ r.call = "reorder" => r.order \in Orders
BY DEF Request

LEMMA StoreKinds ==
  ASSUME NEW r \in Stores
  PROVE  r \in Requests /\ r.call \in {"confirm", "set_logo"} /\ r.upload \in Upload
         /\ r.workspace \in Workspace /\ (r.call = "confirm" => r.product \in Product)
<1>1. r \in Requests /\ (r.call = "confirm" \/ (r.call = "set_logo" /\ r.upload # NoUpload))
  BY DEF Stores
<1>2. r \in Request
  BY <1>1, RequestsAssumption
<1>. QED
  BY <1>1, <1>2, RequestKinds

LEMMA PurgeKinds ==
  ASSUME NEW r \in Purges
  PROVE  r \in Unfinished /\ r.call \in {"purge", "purge_rows"}
BY DEF Purges, PurgingRows, Unfinished

LEMMA UnfinishedKinds ==
  ASSUME NEW r \in Unfinished
  PROVE  /\ r.call \in {"storing", "consuming", "attaching"} => r \in Storings(Stores)
         /\ r.call = "cleaning" => r \in Cleanings(Purges \cup {NoRequest})
<1>1. r \in Requests => r.call \notin {"storing", "consuming", "attaching", "cleaning"}
  BY RequestsAssumption, RequestKinds
<1>2. r \in Purges => r.call \notin {"storing", "consuming", "attaching", "cleaning"}
  BY PurgeKinds
<1>3. r \in Cleanings(Purges \cup {NoRequest}) => r.call = "cleaning"
  BY DEF Cleanings
<1>4. r \in Storings(Stores) => r.call \in {"storing", "consuming", "attaching"}
  BY DEF Storings
<1>. QED
  BY <1>1, <1>2, <1>3, <1>4 DEF Unfinished

LEMMA FileInHand ==
  ASSUME NEW t, TransactionOK(t)
  PROVE  /\ At(t.request, {"storing", "consuming", "attaching"}) =>
              /\ t.request.purpose \in Stores
              /\ t.request = Storing(t.request.call, t.request.purpose, t.request.file)
         /\ Carries(t.request) => t.request.file \in File
         /\ At(t.request, {"cleaning"}) =>
              /\ t.request.files \in SUBSET File
              /\ t.request.then \in Purges \cup {NoRequest}
              /\ t.request.then \in Unfinished \cup {NoRequest}
<1>. DEFINE r == t.request
<1>1. r # NoRequest => r \in Unfinished
  BY DEF TransactionOK
<1>2. At(r, {"storing", "consuming", "attaching"}) => r \in Storings(Stores)
  BY <1>1, UnfinishedKinds DEF At
<1>3. r \in Storings(Stores) =>
        /\ r.purpose \in Stores
        /\ r = Storing(r.call, r.purpose, r.file)
        /\ r.call \in {"consuming", "attaching"} => r.file \in File
  BY DEF Storings, Storing
<1>4. At(r, {"cleaning"}) => r \in Cleanings(Purges \cup {NoRequest})
  BY <1>1, UnfinishedKinds DEF At
<1>5. r \in Cleanings(Purges \cup {NoRequest}) =>
        r.files \in SUBSET File /\ r.then \in Purges \cup {NoRequest}
  BY DEF Cleanings
<1>6. Carries(r) => At(r, {"storing", "consuming", "attaching"}) /\ r.call \in {"consuming", "attaching"}
  BY DEF Carries, At
<1>. QED
  BY <1>2, <1>3, <1>4, <1>5, <1>6, PurgeKinds

LEMMA StoringIsUnfinished ==
  ASSUME NEW r \in Stores
  PROVE  /\ Storing("storing", r, NoFile) \in Unfinished
         /\ \A f \in File : /\ Storing("consuming", r, f) \in Unfinished
                            /\ Storing("attaching", r, f) \in Unfinished
BY DEF Storing, Storings, Unfinished

LEMMA CleaningIsUnfinished ==
  ASSUME NEW fs \in SUBSET File, NEW then \in Purges \cup {NoRequest}
  PROVE  /\ Cleaning(fs, then) \in Unfinished \cup {NoRequest}
         /\ ~Carries(Cleaning(fs, then))
<1>1. CASE fs = {}
  BY <1>1, PurgeKinds DEF Cleaning, Carries, At
<1>2. CASE fs # {}
  <2>. DEFINE c == [call |-> "cleaning", files |-> fs, then |-> then]
              nexts == Purges \cup {NoRequest}
  <2>1. fs \in (SUBSET File) \ {{}} /\ then \in nexts
    BY <1>2
  <2>2. c \in Cleanings(nexts)
    <3>. HIDE DEF nexts
    <3>. QED
      BY <2>1 DEF Cleanings
  <2>3. c \in Unfinished /\ c.call = "cleaning"
    BY <2>2 DEF Unfinished
  <2>. HIDE DEF c
  <2>4. Cleaning(fs, then) = c
    BY <1>2 DEF Cleaning, c
  <2>. QED
    BY <2>3, <2>4 DEF Carries, At
<1>. QED
  BY <1>1, <1>2

-----------------------------------------------------------------------------
(*            Steps that leave the database as it is                       *)

LEMMA ReliesOnItself ==
  ASSUME NEW v
  PROVE  Relies(v, v, {})
BY DEF Relies, SameImages, NoProductsAdded, NoImagesAdded

(* A session goes on in its transaction, with a new snapshot, or without.  *)
LEMMA QuietStepKeepsIInv ==
  ASSUME IInv, NEW p \in Session, NEW t, TransactionOK(t),
         t.open => /\ ~At(t.request, {"cleaning"})
                   /\ \/ /\ tx[p].open
                         /\ t.snapshot = tx[p].snapshot /\ t.touched = tx[p].touched
                      \/ t.snapshot = db /\ t.touched = {},
         tx' = [tx EXCEPT ![p] = t], UNCHANGED db, MediaTypeOK',
         \A f \in File : files'[f] = "unused" => files[f] = "unused",
         Carries(t.request) =>
           /\ files'[t.request.file] # "unused"
           /\ \/ files[t.request.file] = "unused"
              \/ Carries(tx[p].request) /\ tx[p].request.file = t.request.file
  PROVE  IInv'
<1>1. /\ DatabaseOK(db) /\ DOMAIN tx = Session /\ QuotasHold /\ NewFiles(db, tx, files)
      /\ \A x \in Product : ImagesOK(db, x)
      /\ \A q \in Session : SessionOK(db, tx[q])
  BY IInvNow
<1>2. /\ DOMAIN tx' = Session
      /\ \A q \in Session : tx'[q] = IF q = p THEN t ELSE tx[q]
  BY <1>1
<1>3. SessionOK(db, t)
  <2>1. SessionOK(db, tx[p]) /\ Relies(db, db, {})
    BY <1>1, ReliesOnItself
  <2>. QED
    BY <1>1, <2>1 DEF SessionOK
<1>4. ASSUME NEW f, InNone(db, tx, f)
      PROVE  InNone(db', tx', f)
  <2>1. ASSUME NEW q \in Session, tx'[q].open, NEW row \in Row
        PROVE  f \notin FilesOf(tx'[q].snapshot, row)
    <3>1. CASE q # p
      BY <1>2, <1>4, <2>1, <3>1 DEF InNone
    <3>2. CASE q = p
      <4>1. tx'[q] = t
        BY <1>2, <3>2
      <4>2. \/ tx[p].open /\ t.snapshot = tx[p].snapshot
            \/ t.snapshot = db
        BY <2>1, <4>1
      <4>. QED
        BY <1>4, <2>1, <4>1, <4>2 DEF InNone
    <3>. QED
      BY <3>1, <3>2
  <2>2. \A row \in Row : f \notin FilesOf(db', row)
    BY <1>4 DEF InNone
  <2>. QED
    BY <2>1, <2>2 DEF InNone
<1>5. ASSUME NEW f \in File, files'[f] = "unused"
      PROVE  InNone(db', tx', f)
  BY <1>1, <1>4, <1>5 DEF NewFiles
<1>6. ASSUME NEW q \in Session, Carries(tx'[q].request)
      PROVE  /\ tx'[q].request.file \in File
             /\ files'[tx'[q].request.file] # "unused"
             /\ \/ files[tx'[q].request.file] = "unused" /\ q = p
                \/ Carries(tx[q].request) /\ tx[q].request.file = tx'[q].request.file
  <2>1. CASE q = p
    <3>1. tx'[q] = t /\ t.request.file \in File
      BY <1>2, <1>6, <2>1, FileInHand
    <3>. QED
      BY <1>6, <2>1, <3>1
  <2>2. CASE q # p
    <3>1. tx'[q] = tx[q] /\ TransactionOK(tx[q])
      BY <1>1, <1>2, <2>2 DEF SessionOK
    <3>2. tx[q].request.file \in File
      BY <1>6, <3>1, FileInHand
    <3>3. files[tx[q].request.file] # "unused"
      BY <1>1, <1>6, <3>1 DEF NewFiles
    <3>. QED
      BY <1>6, <3>1, <3>2, <3>3
  <2>. QED
    BY <2>1, <2>2
<1>7. ASSUME NEW q \in Session, Carries(tx'[q].request)
      PROVE  InNone(db', tx', tx'[q].request.file)
  <2>1. InNone(db, tx, tx'[q].request.file)
    BY <1>1, <1>6, <1>7 DEF NewFiles
  <2>. QED
    BY <1>4, <2>1
<1>8. ASSUME NEW q \in Session, Carries(tx'[q].request),
             NEW o \in Session, Carries(tx'[o].request),
             tx'[o].request.file = tx'[q].request.file
      PROVE  o = q
  <2>. DEFINE f == tx'[q].request.file
  <2>1. \/ files[f] = "unused" /\ q = p
        \/ Carries(tx[q].request) /\ tx[q].request.file = f
    BY <1>6, <1>8
  <2>2. \/ files[f] = "unused" /\ o = p
        \/ Carries(tx[o].request) /\ tx[o].request.file = f
    BY <1>6, <1>8
  <2>3. \A n \in Session : Carries(tx[n].request) => files[tx[n].request.file] # "unused"
    BY <1>1 DEF NewFiles
  <2>. HIDE DEF f
  <2>. QED
    BY <1>1, <2>1, <2>2, <2>3 DEF NewFiles
<1>9. NewFiles(db', tx', files')
  BY <1>5, <1>6, <1>7, <1>8 DEF NewFiles
<1>10. \A q \in Session : SessionOK(db', tx'[q])
  <2>1. ASSUME NEW q \in Session
        PROVE  SessionOK(db, tx'[q])
    BY <1>1, <1>2, <1>3
  <2>. QED
    BY <2>1
<1>11. DatabaseOK(db') /\ QuotasHold' /\ \A x \in Product : ImagesOK(db', x)
  BY <1>1 DEF QuotasHold
<1>. QED
  BY <1>2, <1>9, <1>10, <1>11, IInvNext

LEMMA GoOnKeepsIInv ==
  ASSUME IInv, NEW p \in Session, NEW r \in Unfinished \cup {NoRequest},
         tx[p].open => ~At(r, {"cleaning"}),
         tx' = [tx EXCEPT ![p].request = r], UNCHANGED db, MediaTypeOK',
         \A f \in File : files'[f] = "unused" => files[f] = "unused",
         Carries(r) => /\ files'[r.file] # "unused"
                       /\ \/ files[r.file] = "unused"
                          \/ Carries(tx[p].request) /\ tx[p].request.file = r.file
  PROVE  IInv'
<1>. DEFINE t == [tx[p] EXCEPT !.request = r]
<1>1. TransactionOK(tx[p]) /\ DOMAIN tx = Session
  BY IInvNow DEF SessionOK
<1>2. /\ TransactionOK(t) /\ t.request = r
      /\ t.open = tx[p].open /\ t.snapshot = tx[p].snapshot /\ t.touched = tx[p].touched
  BY <1>1 DEF TransactionOK
<1>3. tx' = [tx EXCEPT ![p] = t]
  BY <1>1
<1>. HIDE DEF t
<1>. QED
  BY <1>2, <1>3, QuietStepKeepsIInv

LEMMA WaitKeepsIInv ==
  ASSUME IInv, NEW p \in Session, NEW r \in Unfinished \cup {NoRequest},
         NEW n \in 1 .. ATTEMPTS, tx' = [tx EXCEPT ![p] = Waiting(r, n)],
         UNCHANGED <<db, files>>, MediaTypeOK',
         Carries(r) => /\ files[r.file] # "unused"
                       /\ Carries(tx[p].request) /\ tx[p].request.file = r.file
  PROVE  IInv'
<1>1. /\ TransactionOK(Waiting(r, n)) /\ ~Waiting(r, n).open
      /\ Waiting(r, n).request = r
  BY WaitingOK DEF SessionOK
<1>. QED
  BY <1>1, QuietStepKeepsIInv

LEMMA IdleKeepsIInv ==
  ASSUME IInv, NEW p \in Session, tx' = [tx EXCEPT ![p] = Idle], UNCHANGED <<db, files>>,
         MediaTypeOK'
  PROVE  IInv'
<1>1. ~Carries(NoRequest)
  BY DEF Carries, At
<1>. QED
  BY <1>1, WaitKeepsIInv, FirstAttempt DEF Idle

LEMMA LoseRaceKeepsIInv ==
  ASSUME IInv, NEW p \in Session, NEW r \in Unfinished \cup {NoRequest},
         NEW failed \in Unfinished \cup {NoRequest}, NEW locked, NEW after,
         LoseRaceElse(p, r, locked, after, failed), UNCHANGED Bucket, ~Carries(failed),
         Carries(r) => r = tx[p].request
  PROVE  IInv'
<1>1. tx[p].attempt \in 1 .. ATTEMPTS /\ MediaTypeOK
  BY IInvNow DEF SessionOK, TransactionOK
<1>2. MediaTypeOK' /\ UNCHANGED <<db, files>>
  BY <1>1 DEF MediaTypeOK, Bucket, LoseRaceElse
<1>3. Carries(r) => /\ files[r.file] # "unused"
                    /\ Carries(tx[p].request) /\ tx[p].request.file = r.file
  BY IInvNow DEF NewFiles
<1>4. CASE tx[p].attempt = ATTEMPTS
  BY <1>2, <1>4, WaitKeepsIInv, FirstAttempt DEF LoseRaceElse
<1>5. CASE tx[p].attempt # ATTEMPTS
  <2>1. tx[p].attempt + 1 \in 1 .. ATTEMPTS
    BY <1>1, <1>5, AttemptsAssumption
  <2>2. tx' = [tx EXCEPT ![p] = Waiting(r, tx[p].attempt + 1)]
    BY <1>5 DEF LoseRaceElse
  <2>. QED
    BY <1>2, <1>3, <2>1, <2>2, WaitKeepsIInv
<1>. QED
  BY <1>4, <1>5

-----------------------------------------------------------------------------
(*                           Where files are                               *)

(* FilesInOnePlace and FilesAccountedFor of any database, sessions and     *)
(* files.                                                                  *)
OnePlace(d, t, fs) ==
  /\ \A row \in Row : \A f \in FilesOf(d, row) : fs[f] = "stored"
  /\ \A row, other \in Row : row # other => FilesOf(d, row) \cap FilesOf(d, other) = {}
  /\ \A p \in Session, f \in File : Holds(t[p].request, f) =>
       /\ fs[f] = "stored" /\ \A row \in Row : f \notin FilesOf(d, row)
       /\ \A q \in Session : Holds(t[q].request, f) => q = p

Accounted(d, t, fs) ==
  \A f \in File : fs[f] = "stored" =>
    \/ \E row \in Row : f \in FilesOf(d, row)
    \/ \E p \in Session : Holds(t[p].request, f)

LEMMA OnePlaceNow == FilesInOnePlace <=> OnePlace(db, tx, files)
BY DEF FilesInOnePlace, OnePlace, ShownFilesExist, Shown, HasToDelete, InStage, InHand,
       Holds, Carries, At

LEMMA AccountedNow == FilesAccountedFor <=> Accounted(db, tx, files)
BY DEF FilesAccountedFor, Accounted, Shown, HasToDelete, InStage, InHand, Holds, Carries, At

LEMMA OnePlaceNext == FilesInOnePlace' <=> OnePlace(db', tx', files')
<1>1. FilesInOnePlace' <=> OnePlace(db, tx, files)'
  BY OnePlaceNow, PTL
<1>. QED
  BY <1>1

LEMMA AccountedNext == FilesAccountedFor' <=> Accounted(db', tx', files')
<1>1. FilesAccountedFor' <=> Accounted(db, tx, files)'
  BY AccountedNow, PTL
<1>. QED
  BY <1>1

(* An error of the database means that nothing was committed.              *)
AnswersAreTrue == "unanswered" \notin Faults

(* Nobody dies, the bucket deletes what it is told to, and no logo is      *)
(* replaced by a commit that reports an error.                             *)
NothingIsLost ==
  /\ Killable = {} /\ "undeleted" \notin Faults
  /\ AnswersAreTrue \/ \A r \in Requests : r.call # "set_logo"

FilesStay ==
  /\ AnswersAreTrue /\ OnePlace(db, tx, files) => OnePlace(db', tx', files')
  /\ NothingIsLost /\ Accounted(db, tx, files) => Accounted(db', tx', files')

LEMMA HoldsNothing ==
  /\ \A f : ~Holds(NoRequest, f)
  /\ \A r \in Requests : \A f : ~Holds(r, f)
  /\ \A w, f : ~Holds(PurgingRows(w), f)
  /\ \A purpose, f, g : ~Holds(Storing("storing", purpose, g), f)
<1>1. \A r \in Requests : r.call \notin {"consuming", "attaching", "cleaning"}
  BY RequestsAssumption, RequestKinds
<1>. QED
  BY <1>1 DEF Holds, Carries, At, PurgingRows, Storing

LEMMA CleaningHolds ==
  ASSUME NEW fs \in SUBSET File, NEW then \in Purges \cup {NoRequest}
  PROVE  \A f : Holds(Cleaning(fs, then), f) <=> f \in fs
<1>1. CASE fs = {}
  <2>1. \A f : ~Holds(then, f)
    BY PurgeKinds DEF Holds, Carries, At
  <2>. QED
    BY <1>1, <2>1 DEF Cleaning
<1>2. CASE fs # {}
  <2>. DEFINE r == [call |-> "cleaning", files |-> fs, then |-> then]
  <2>1. Cleaning(fs, then) = r
    BY <1>2 DEF Cleaning
  <2>2. r # NoRequest
    <3>1. r \in Unfinished \cup {NoRequest} /\ r \in Cleanings(Purges \cup {NoRequest})
      <4>. DEFINE nexts == Purges \cup {NoRequest}
      <4>1. fs \in (SUBSET File) \ {{}} /\ then \in nexts
        BY <1>2
      <4>2. r \in Cleanings(nexts)
        <5>. HIDE DEF nexts
        <5>. QED
          BY <4>1 DEF Cleanings
      <4>. QED
        BY <4>2 DEF Unfinished
    <3>. QED
      BY <3>1, MarkersAssumption DEF Unfinished
  <2>. QED
    BY <2>1, <2>2 DEF Holds, Carries, At
<1>. QED
  BY <1>1, <1>2

(* A session that keeps its files, or lets go of some.                     *)
LEMMA SessionStepKeepsFiles ==
  ASSUME IInv, NEW p \in Session, NEW t, tx' = [tx EXCEPT ![p] = t], UNCHANGED <<db, files>>,
         \A f \in File : Holds(t.request, f) => Holds(tx[p].request, f),
         NothingIsLost => \A f \in File : Holds(tx[p].request, f) => Holds(t.request, f)
  PROVE  FilesStay
<1>1. \A q \in Session : tx'[q] = IF q = p THEN t ELSE tx[q]
  BY IInvNow
<1>2. \A q \in Session, f \in File : Holds(tx'[q].request, f) => Holds(tx[q].request, f)
  BY <1>1
<1>3. ASSUME OnePlace(db, tx, files)
      PROVE  OnePlace(db', tx', files')
  BY <1>2, <1>3 DEF OnePlace
<1>4. ASSUME NothingIsLost, Accounted(db, tx, files)
      PROVE  Accounted(db', tx', files')
  <2>1. \A q \in Session, f \in File : Holds(tx[q].request, f) => Holds(tx'[q].request, f)
    BY <1>1, <1>4
  <2>. QED
    BY <1>4, <2>1 DEF Accounted
<1>. QED
  BY <1>3, <1>4 DEF FilesStay

LEMMA GoOnKeepsFiles ==
  ASSUME IInv, NEW p \in Session, NEW r, tx' = [tx EXCEPT ![p].request = r],
         UNCHANGED <<db, files>>, \A f \in File : Holds(r, f) <=> Holds(tx[p].request, f)
  PROVE  FilesStay
<1>. DEFINE t == [tx[p] EXCEPT !.request = r]
<1>1. TransactionOK(tx[p]) /\ DOMAIN tx = Session
  BY IInvNow DEF SessionOK
<1>2. t.request = r
  BY <1>1 DEF TransactionOK
<1>3. tx' = [tx EXCEPT ![p] = t]
  BY <1>1
<1>. HIDE DEF t
<1>. QED
  BY <1>2, <1>3, SessionStepKeepsFiles

LEMMA WaitKeepsFiles ==
  ASSUME IInv, NEW p \in Session, NEW r, NEW n, tx' = [tx EXCEPT ![p] = Waiting(r, n)],
         UNCHANGED <<db, files>>, \A f \in File : Holds(r, f) <=> Holds(tx[p].request, f)
  PROVE  FilesStay
<1>1. Waiting(r, n).request = r
  BY DEF Waiting
<1>. QED
  BY <1>1, SessionStepKeepsFiles

LEMMA IdleKeepsFiles ==
  ASSUME IInv, NEW p \in Session, tx' = [tx EXCEPT ![p] = Idle], UNCHANGED <<db, files>>,
         \A f \in File : ~Holds(tx[p].request, f)
  PROVE  FilesStay
BY WaitKeepsFiles, HoldsNothing DEF Idle

LEMMA LoseRaceKeepsFiles ==
  ASSUME IInv, NEW p \in Session, NEW r, NEW failed, NEW locked, NEW after,
         LoseRaceElse(p, r, locked, after, failed), UNCHANGED files,
         \A f \in File : /\ Holds(r, f) <=> Holds(tx[p].request, f)
                         /\ Holds(failed, f) <=> Holds(tx[p].request, f)
  PROVE  FilesStay
<1>1. CASE tx[p].attempt = ATTEMPTS
  <2>1. tx' = [tx EXCEPT ![p] = Waiting(failed, 1)] /\ UNCHANGED db
    BY <1>1 DEF LoseRaceElse
  <2>. QED
    BY <2>1, WaitKeepsFiles
<1>2. CASE tx[p].attempt # ATTEMPTS
  <2>1. tx' = [tx EXCEPT ![p] = Waiting(r, tx[p].attempt + 1)] /\ UNCHANGED db
    BY <1>2 DEF LoseRaceElse
  <2>. QED
    BY <2>1, WaitKeepsFiles
<1>. QED
  BY <1>1, <1>2

(* The files that a row shows in s, and does not show any more.            *)
LetGo(s, after) ==
  {f \in File : \E row \in Row : f \in FilesOf(s, row) /\ f \notin FilesOf(after, row)}

(* The files that a request still has to place: those that rows let go of, *)
(* and the one it brought, unless a row shows it now.                      *)
ToPlace(s, after, r) ==
  {f \in File : \/ f \in LetGo(s, after)
                \/ Holds(r, f) /\ \A row \in Row : f \notin FilesOf(after, row)}

(* The rows show what they showed in s, but for these files.               *)
LetsGo(s, after, fs) ==
  /\ \A row \in Row : FilesOf(after, row) \subseteq FilesOf(s, row)
  /\ \A f \in File : f \in LetGo(s, after) <=> f \in fs

(* What the rows show.                                                     *)
LEMMA FilesShown ==
  ASSUME NEW v
  PROVE  /\ \A x : FilesOf(v, ProductRow(x)) = {}
         /\ \A i \in File : FilesOf(v, ImageRow(i)) = IF Exists(v, ImageRow(i)) THEN {i} ELSE {}
         /\ \A w \in Workspace : FilesOf(v, WorkspaceRow(w)) =
              IF Exists(v, WorkspaceRow(w)) THEN Keys(Logo(v, w)) \cap File ELSE {}
<1>1. \A x : FilesOf(v, ProductRow(x)) = {}
  BY RowsDiffer DEF FilesOf
<1>2. ASSUME NEW i \in File
      PROVE  FilesOf(v, ImageRow(i)) = IF Exists(v, ImageRow(i)) THEN {i} ELSE {}
  BY RowsDiffer DEF FilesOf
<1>3. ASSUME NEW w \in Workspace
      PROVE  FilesOf(v, WorkspaceRow(w)) =
               IF Exists(v, WorkspaceRow(w)) THEN Keys(Logo(v, w)) \cap File ELSE {}
  BY RowsDiffer, MarkersAssumption DEF FilesOf, Keys
<1>. QED
  BY <1>1, <1>2, <1>3

(* Images go, and whatever remains shows what it showed.                   *)
LEMMA ImagesGo ==
  ASSUME NEW s, NEW after, NEW fs \in SUBSET File,
         \A w \in Workspace : after[WorkspaceRow(w)] = s[WorkspaceRow(w)],
         \A i \in fs : Exists(s, ImageRow(i)),
         \A i \in File : Exists(after, ImageRow(i)) <=> Exists(s, ImageRow(i)) /\ i \notin fs
  PROVE  LetsGo(s, after, fs)
<1>1. ASSUME NEW w \in Workspace
      PROVE  FilesOf(after, WorkspaceRow(w)) = FilesOf(s, WorkspaceRow(w))
  <2>1. /\ Exists(after, WorkspaceRow(w)) <=> Exists(s, WorkspaceRow(w))
        /\ Logo(after, w) = Logo(s, w)
    BY DEF Exists, Logo
  <2>. QED
    BY <2>1, FilesShown
<1>2. \A i \in File :
        /\ FilesOf(after, ImageRow(i)) \subseteq FilesOf(s, ImageRow(i))
        /\ \A f : f \in FilesOf(s, ImageRow(i)) /\ f \notin FilesOf(after, ImageRow(i))
                    <=> f = i /\ i \in fs
  BY FilesShown
<1>3. \A x \in Product : FilesOf(after, ProductRow(x)) = {} /\ FilesOf(s, ProductRow(x)) = {}
  BY FilesShown
<1>4. ASSUME NEW row \in Row
      PROVE  FilesOf(after, row) \subseteq FilesOf(s, row)
  BY <1>1, <1>2, <1>3, RowKinds
<1>5. ASSUME NEW f \in File, f \in LetGo(s, after)
      PROVE  f \in fs
  <2>1. PICK row \in Row : f \in FilesOf(s, row) /\ f \notin FilesOf(after, row)
    BY <1>5 DEF LetGo
  <2>. QED
    BY <1>1, <1>2, <1>3, <2>1, RowKinds
<1>6. ASSUME NEW f \in File, f \in fs
      PROVE  f \in LetGo(s, after)
  BY <1>2, <1>6, RowsExist DEF LetGo
<1>. QED
  BY <1>4, <1>5, <1>6 DEF LetsGo

(* One row changes.                                                        *)
LEMMA OneRowGoes ==
  ASSUME NEW s, NEW after, NEW row \in Row,
         \A other \in Row \ {row} : after[other] = s[other]
  PROVE  /\ \A other \in Row \ {row} : FilesOf(after, other) = FilesOf(s, other)
         /\ \A f \in File : f \in LetGo(s, after) <=>
              f \in FilesOf(s, row) /\ f \notin FilesOf(after, row)
<1>1. ASSUME NEW other \in Row \ {row}
      PROVE  FilesOf(after, other) = FilesOf(s, other)
  BY DEF FilesOf, Exists, Logo
<1>. QED
  BY <1>1 DEF LetGo

(* What an open session has in hand is new to its snapshot.                *)
LEMMA OpenHolds ==
  ASSUME IInv, NEW p \in Session, tx[p].open, NEW f \in File, Holds(tx[p].request, f)
  PROVE  \A row \in Row : f \notin FilesOf(tx[p].snapshot, row) /\ f \notin FilesOf(db, row)
<1>1. SessionOK(db, tx[p]) /\ NewFiles(db, tx, files)
  BY IInvNow
<1>2. Carries(tx[p].request) /\ tx[p].request.file = f
  BY <1>1 DEF SessionOK, Holds
<1>. QED
  BY <1>1, <1>2 DEF NewFiles, InNone

LEMMA CommitMovesFiles ==
  ASSUME IInv, NEW p \in Session, tx[p].open, NEW locked, NEW after, NEW next,
         Commit(p, locked, after, next)
  PROVE  /\ tx'[p].request = next
         /\ \A q \in Session : q # p => tx'[q].request = tx[q].request
         /\ \A row \in Row :
              \/ /\ FilesOf(db', row) = FilesOf(db, row)
                 /\ FilesOf(after, row) = FilesOf(tx[p].snapshot, row)
              \/ /\ FilesOf(db', row) = FilesOf(after, row)
                 /\ FilesOf(db, row) = FilesOf(tx[p].snapshot, row)
<1>1. /\ DatabaseOK(db) /\ Relies(db, tx[p].snapshot, tx[p].touched)
      /\ \A q \in Session : TransactionOK(tx[q])
  BY IInvNow DEF SessionOK
<1>2. tx'[p].request = next
  <2>1. tx'[p] = Waiting(next, 1)
    BY OtherTransactions
  <2>. QED
    BY <2>1 DEF Waiting
<1>3. ASSUME NEW q \in Session, q # p
      PROVE  tx'[q].request = tx[q].request
  BY <1>1, <1>3, OtherTransactions
<1>4. ASSUME NEW row \in Row
      PROVE  \/ /\ FilesOf(db', row) = FilesOf(db, row)
                /\ FilesOf(after, row) = FilesOf(tx[p].snapshot, row)
             \/ /\ FilesOf(db', row) = FilesOf(after, row)
                /\ FilesOf(db, row) = FilesOf(tx[p].snapshot, row)
  BY <1>1, MergedFiles
<1>. QED
  BY <1>2, <1>3, <1>4

(* A commit exchanges files between rows and its request.  If it takes into*)
(* hand nothing but what it has to place, files stay in one place;         *)
LEMMA CommitKeepsPlaces ==
  ASSUME IInv, NEW p \in Session, tx[p].open, NEW locked, NEW after, NEW next,
         Commit(p, locked, after, next), UNCHANGED files,
         \A row \in Row : \A f \in FilesOf(after, row) :
           f \in FilesOf(tx[p].snapshot, row) \/ Holds(tx[p].request, f),
         \A f \in File : Holds(tx[p].request, f) => \A row, other \in Row :
           f \in FilesOf(after, row) /\ f \in FilesOf(after, other) => row = other,
         \A f \in File : Holds(next, f) => f \in ToPlace(tx[p].snapshot, after, tx[p].request),
         OnePlace(db, tx, files)
  PROVE  OnePlace(db', tx', files')
<1>. DEFINE s == tx[p].snapshot
            r == tx[p].request
<1>0. \A d, row : FilesOf(d, row) \subseteq File
  BY DEF FilesOf
<1>1. /\ tx'[p].request = next
      /\ \A q \in Session : q # p => tx'[q].request = tx[q].request
      /\ \A row \in Row :
           \/ FilesOf(db', row) = FilesOf(db, row) /\ FilesOf(after, row) = FilesOf(s, row)
           \/ FilesOf(db', row) = FilesOf(after, row) /\ FilesOf(db, row) = FilesOf(s, row)
  BY CommitMovesFiles
<1>2. \A f \in File : Holds(r, f) => \A row \in Row : f \notin FilesOf(s, row)
  BY OpenHolds
<1>. HIDE DEF s, r
<1>3. ASSUME NEW row \in Row, NEW f \in FilesOf(db', row)
      PROVE  f \in FilesOf(db, row) \/ (Holds(r, f) /\ f \in FilesOf(after, row))
  BY <1>1, <1>3 DEF s, r
<1>4. ASSUME NEW f \in File, Holds(r, f)
      PROVE  /\ files[f] = "stored" /\ \A row \in Row : f \notin FilesOf(db, row)
             /\ \A q \in Session : Holds(tx[q].request, f) => q = p
  BY <1>4 DEF OnePlace, r
<1>5. ASSUME NEW row \in Row, NEW f \in FilesOf(db', row)
      PROVE  files[f] = "stored"
  BY <1>0, <1>3, <1>4, <1>5 DEF OnePlace
<1>6. ASSUME NEW row \in Row, NEW other \in Row, row # other
      PROVE  FilesOf(db', row) \cap FilesOf(db', other) = {}
  <2>1. SUFFICES ASSUME NEW f \in FilesOf(db', row), f \in FilesOf(db', other)
                 PROVE  FALSE
    OBVIOUS
  <2>2. CASE Holds(r, f)
    BY <1>0, <1>3, <1>4, <1>6, <2>1, <2>2 DEF r
  <2>3. CASE ~Holds(r, f)
    BY <1>3, <1>6, <2>1, <2>3 DEF OnePlace
  <2>. QED
    BY <2>2, <2>3
<1>7. ASSUME NEW f \in File, Holds(next, f)
      PROVE  /\ files[f] = "stored" /\ \A row \in Row : f \notin FilesOf(db', row)
             /\ \A q \in Session : q # p => ~Holds(tx[q].request, f)
  <2>1. f \in ToPlace(s, after, r)
    BY <1>7 DEF s, r
  <2>2. CASE f \in LetGo(s, after)
    <3>1. PICK row \in Row : f \in FilesOf(s, row) /\ f \notin FilesOf(after, row)
      BY <2>2 DEF LetGo
    <3>2. f \in FilesOf(db, row) /\ f \notin FilesOf(db', row)
      BY <1>1, <3>1
    <3>3. /\ files[f] = "stored" /\ ~Holds(r, f)
          /\ \A q \in Session : ~Holds(tx[q].request, f)
      BY <3>2 DEF OnePlace, r
    <3>4. ASSUME NEW other \in Row, f \in FilesOf(db', other)
          PROVE  FALSE
      <4>1. f \in FilesOf(db, other) /\ other # row
        BY <1>3, <3>2, <3>3, <3>4
      <4>. QED
        BY <3>2, <4>1 DEF OnePlace
    <3>. QED
      BY <3>3, <3>4
  <2>3. CASE Holds(r, f) /\ \A row \in Row : f \notin FilesOf(after, row)
    BY <1>3, <1>4, <2>3
  <2>. QED
    BY <2>1, <2>2, <2>3 DEF ToPlace
<1>8. ASSUME NEW q \in Session, NEW f \in File, Holds(tx'[q].request, f)
      PROVE  /\ files[f] = "stored" /\ \A row \in Row : f \notin FilesOf(db', row)
             /\ \A o \in Session : Holds(tx'[o].request, f) => o = q
  <2>1. CASE q = p
    BY <1>1, <1>7, <1>8, <2>1
  <2>2. CASE q # p
    <3>1. Holds(tx[q].request, f)
      BY <1>1, <1>8, <2>2
    <3>2. /\ files[f] = "stored" /\ \A row \in Row : f \notin FilesOf(db, row)
          /\ \A o \in Session : Holds(tx[o].request, f) => o = q
      BY <3>1 DEF OnePlace
    <3>3. ~Holds(r, f) /\ ~Holds(next, f)
      BY <1>7, <2>2, <3>1, <3>2 DEF r
    <3>. QED
      BY <1>1, <1>3, <3>2, <3>3
  <2>. QED
    BY <2>1, <2>2
<1>. QED
  BY <1>5, <1>6, <1>8 DEF OnePlace

(* and if it takes into hand everything it has to place, none is forgotten.*)
LEMMA CommitKeepsAccount ==
  ASSUME IInv, NEW p \in Session, tx[p].open, NEW locked, NEW after, NEW next,
         Commit(p, locked, after, next), UNCHANGED files,
         \A f \in ToPlace(tx[p].snapshot, after, tx[p].request) : Holds(next, f),
         Accounted(db, tx, files)
  PROVE  Accounted(db', tx', files')
<1>. DEFINE s == tx[p].snapshot
            r == tx[p].request
<1>1. /\ tx'[p].request = next
      /\ \A q \in Session : q # p => tx'[q].request = tx[q].request
      /\ \A row \in Row :
           \/ FilesOf(db', row) = FilesOf(db, row) /\ FilesOf(after, row) = FilesOf(s, row)
           \/ FilesOf(db', row) = FilesOf(after, row) /\ FilesOf(db, row) = FilesOf(s, row)
  BY CommitMovesFiles
<1>2. \A f \in File : Holds(r, f) => \A row \in Row : f \notin FilesOf(s, row)
  BY OpenHolds
<1>. HIDE DEF s, r
<1>3. SUFFICES ASSUME NEW f \in File, files[f] = "stored"
               PROVE  \/ \E row \in Row : f \in FilesOf(db', row)
                      \/ \E q \in Session : Holds(tx'[q].request, f)
  BY DEF Accounted
<1>4. CASE \E row \in Row : f \in FilesOf(db, row)
  <2>1. PICK row \in Row : f \in FilesOf(db, row)
    BY <1>4
  <2>2. f \in FilesOf(db', row) \/ f \in LetGo(s, after)
    BY <1>1, <2>1 DEF LetGo
  <2>. QED
    BY <1>1, <2>1, <2>2 DEF ToPlace, s, r
<1>5. CASE \E q \in Session : q # p /\ Holds(tx[q].request, f)
  BY <1>1, <1>5
<1>6. CASE Holds(r, f)
  <2>1. CASE \A row \in Row : f \notin FilesOf(after, row)
    BY <1>1, <1>6, <2>1 DEF ToPlace, s, r
  <2>2. CASE \E row \in Row : f \in FilesOf(after, row)
    BY <1>1, <1>2, <1>6, <2>2
  <2>. QED
    BY <2>1, <2>2
<1>. QED
  BY <1>3, <1>4, <1>5, <1>6 DEF Accounted, r

LEMMA AttemptKeepsIInv ==
  ASSUME IInv, NEW p \in Session, tx[p].open, NEW r \in Unfinished, ~Carries(r),
         NEW locked, locked \subseteq Row, NEW after,
         NEW next \in Unfinished \cup {NoRequest}, ~Carries(next),
         Sound(tx[p].snapshot, locked, after),
         Attaching(tx[p].snapshot, after, tx[p].request),
         AttemptThen(p, r, locked, after, next), UNCHANGED Bucket
  PROVE  IInv'
<1>1. CASE Commit(p, locked, after, next)
  BY <1>1, CommitKeepsIInv
<1>2. CASE LoseRace(p, r, locked, after)
  <2>1. ~Carries(NoRequest)
    BY DEF Carries, At
  <2>. QED
    BY <1>2, <2>1, LoseRaceKeepsIInv DEF LoseRace
<1>. QED
  BY <1>1, <1>2 DEF AttemptThen

LEMMA AttachKeepsIInv ==
  ASSUME IInv, NEW p \in Session, tx[p].open, InStage(p, {"attaching"}),
         NEW locked, locked \subseteq Row, NEW after,
         NEW next \in Unfinished \cup {NoRequest}, ~Carries(next),
         Sound(tx[p].snapshot, locked, after),
         Attaching(tx[p].snapshot, after, tx[p].request),
         Attach(p, locked, after, next), UNCHANGED Bucket
  PROVE  IInv'
<1>1. TransactionOK(tx[p]) /\ Carries(tx[p].request)
  BY IInvNow DEF SessionOK, InStage, Carries, At
<1>2. InHand(p) \in File
  BY <1>1, FileInHand DEF InHand
<1>3. Discarding(p) \in Unfinished \cup {NoRequest} /\ ~Carries(Discarding(p))
  BY <1>2, CleaningIsUnfinished DEF Discarding
<1>4. tx[p].request \in Unfinished \cup {NoRequest}
  BY <1>1 DEF TransactionOK
<1>5. CASE Commit(p, locked, after, next)
  BY <1>5, CommitKeepsIInv
<1>6. CASE Commit(p, locked, after, Discarding(p))
  BY <1>3, <1>6, CommitKeepsIInv
<1>7. CASE LoseRaceElse(p, tx[p].request, locked, after, Discarding(p))
  BY <1>3, <1>4, <1>7, LoseRaceKeepsIInv
<1>. QED
  BY <1>5, <1>6, <1>7 DEF Attach

-----------------------------------------------------------------------------
(*                  The steps of the bucket and of sessions                *)

LEMMA StartKeepsIInv ==
  ASSUME IInv, NEW p \in Session, Start(p)
  PROVE  IInv'
<1>. DEFINE t == [tx[p] EXCEPT !.open = TRUE, !.snapshot = db]
<1>1. TransactionOK(tx[p]) /\ DatabaseOK(db) /\ DOMAIN tx = Session /\ MediaTypeOK
  BY IInvNow DEF SessionOK
<1>2. ~tx[p].open /\ UNCHANGED <<db, uploads, files>> /\ ~At(tx[p].request, {"cleaning"})
  BY DEF Start, Begin, Bucket, InStage, At, Outside
<1>3. /\ TransactionOK(t) /\ t.open /\ t.snapshot = db /\ t.touched = {}
      /\ t.request = tx[p].request
  BY <1>1, <1>2 DEF TransactionOK
<1>4. tx' = [tx EXCEPT ![p] = t]
  BY <1>1 DEF Start, Begin
<1>5. MediaTypeOK'
  BY <1>1, <1>2 DEF MediaTypeOK
<1>6. Carries(tx[p].request) => files[tx[p].request.file] # "unused"
  BY IInvNow DEF NewFiles
<1>. HIDE DEF t
<1>. QED
  BY <1>2, <1>3, <1>4, <1>5, <1>6, QuietStepKeepsIInv

LEMMA StoreFileKeepsIInv ==
  ASSUME IInv, NEW p \in Session, StoreFile(p)
  PROVE  IInv'
<1>1. TransactionOK(tx[p]) /\ MediaTypeOK /\ At(tx[p].request, {"storing"})
  BY IInvNow DEF SessionOK, StoreFile, InStage, At
<1>2. tx[p].request.purpose \in Stores
  BY <1>1, FileInHand DEF At
<1>3. PICK f \in File :
        /\ files[f] = "unused" /\ files' = [files EXCEPT ![f] = "stored"]
        /\ tx' = [tx EXCEPT ![p].request = Storing("consuming", tx[p].request.purpose, f)]
        /\ UNCHANGED <<db, uploads>>
  BY DEF StoreFile
<1>. DEFINE r == Storing("consuming", tx[p].request.purpose, f)
<1>4. r \in Unfinished /\ r.file = f /\ ~At(r, {"cleaning"})
  BY <1>2, StoringIsUnfinished DEF Storing, At
<1>5. /\ MediaTypeOK' /\ files'[f] = "stored"
      /\ \A g \in File : files'[g] = "unused" => files[g] = "unused"
  BY <1>1, <1>3 DEF MediaTypeOK
<1>. HIDE DEF r
<1>. QED
  BY <1>3, <1>4, <1>5, GoOnKeepsIInv DEF r

LEMMA ConsumeUploadKeepsIInv ==
  ASSUME IInv, NEW p \in Session, ConsumeUpload(p)
  PROVE  IInv'
<1>1. TransactionOK(tx[p]) /\ MediaTypeOK /\ NewFiles(db, tx, files)
  BY IInvNow DEF SessionOK
<1>2. At(tx[p].request, {"consuming"}) /\ Carries(tx[p].request)
  BY DEF ConsumeUpload, InStage, At, Carries
<1>. DEFINE f == tx[p].request.file
            r == Storing("attaching", tx[p].request.purpose, f)
<1>3. /\ tx[p].request.purpose \in Stores /\ f \in File
      /\ tx[p].request = Storing("consuming", tx[p].request.purpose, f)
  BY <1>1, <1>2, FileInHand DEF At
<1>4. r \in Unfinished /\ r.file = f /\ ~At(r, {"cleaning"})
  BY <1>3, StoringIsUnfinished DEF Storing, At
<1>5. tx' = [tx EXCEPT ![p].request = r] /\ UNCHANGED <<db, files>>
  <2>1. [tx[p].request EXCEPT !.call = "attaching"] = r
    BY <1>3 DEF Storing
  <2>. QED
    BY <2>1 DEF ConsumeUpload
<1>6. MediaTypeOK'
  BY <1>1 DEF MediaTypeOK, ConsumeUpload
<1>7. files[f] # "unused"
  BY <1>1, <1>2 DEF NewFiles
<1>. HIDE DEF r
<1>. QED
  BY <1>2, <1>4, <1>5, <1>6, <1>7, GoOnKeepsIInv

LEMMA CleanUpKeepsIInv ==
  ASSUME IInv, NEW p \in Session, CleanUp(p)
  PROVE  IInv'
<1>. DEFINE r == tx[p].request.then
<1>1. /\ SessionOK(db, tx[p]) /\ TransactionOK(tx[p]) /\ MediaTypeOK
      /\ At(tx[p].request, {"cleaning"})
  BY IInvNow DEF SessionOK, CleanUp, InStage, At
<1>2. ~tx[p].open
  BY <1>1 DEF SessionOK
<1>3. r \in Unfinished \cup {NoRequest} /\ r \in Purges \cup {NoRequest}
  BY <1>1, FileInHand
<1>4. ~Carries(r)
  BY <1>3, PurgeKinds DEF Carries, At
<1>5. tx' = [tx EXCEPT ![p].request = r] /\ UNCHANGED <<db, uploads>>
  BY DEF CleanUp
<1>6. MediaTypeOK' /\ \A f \in File : files'[f] = "unused" => files[f] = "unused"
  BY <1>1 DEF CleanUp, MediaTypeOK
<1>. HIDE DEF r
<1>. QED
  BY <1>2, <1>3, <1>4, <1>5, <1>6, GoOnKeepsIInv

LEMMA FailAttachKeepsIInv ==
  ASSUME IInv, NEW p \in Session, FailAttach(p)
  PROVE  IInv'
<1>1. TransactionOK(tx[p]) /\ MediaTypeOK /\ Carries(tx[p].request)
  BY IInvNow DEF SessionOK, FailAttach, InStage, Carries, At
<1>2. Discarding(p) \in Unfinished \cup {NoRequest} /\ ~Carries(Discarding(p))
  BY <1>1, FileInHand, CleaningIsUnfinished DEF Discarding, InHand
<1>3. MediaTypeOK' /\ UNCHANGED <<db, files>> /\ tx' = [tx EXCEPT ![p] = Waiting(Discarding(p), 1)]
  BY <1>1 DEF FailAttach, MediaTypeOK
<1>. QED
  BY <1>2, <1>3, FirstAttempt, WaitKeepsIInv

LEMMA MediaStepKeepsIInv ==
  ASSUME IInv, NEW p \in Session, MediaStep(p)
  PROVE  IInv'
<1>1. CASE RollBackRequest(p) \/ Interrupt(p)
  <2>1. tx' = [tx EXCEPT ![p] = Idle] /\ UNCHANGED <<db, uploads, files>>
    BY <1>1 DEF RollBackRequest, RollBack, Interrupt, Bucket
  <2>2. MediaTypeOK'
    BY <2>1, IInvNow DEF MediaTypeOK
  <2>. QED
    BY <2>1, <2>2, IdleKeepsIInv
<1>. QED
  BY <1>1, StartKeepsIInv, StoreFileKeepsIInv, ConsumeUploadKeepsIInv, CleanUpKeepsIInv,
     FailAttachKeepsIInv DEF MediaStep

-----------------------------------------------------------------------------
(*                    The views that use cases leave                       *)

LEMMA OpenView ==
  ASSUME IInv, NEW p \in Session, tx[p].open
  PROVE  /\ View(p) = tx[p].snapshot /\ DatabaseOK(View(p))
         /\ \A x \in Product : ImagesOK(View(p), x)
         /\ Relies(db, View(p), tx[p].touched)
BY IInvNow DEF SessionOK, TransactionOK, View

(* Nothing but the rows of products and workspaces has changed, and the    *)
(* products are still where they were.                                     *)
LEMMA ImagesUntouched ==
  ASSUME NEW s, NEW after, DatabaseOK(s),
         \A i \in File : after[ImageRow(i)] = s[ImageRow(i)],
         \A w \in Workspace : ProductsOf(s, w) \subseteq ProductsOf(after, w)
  PROVE  /\ \A x \in Product : /\ ImagesOK(s, x) => ImagesOK(after, x)
                               /\ SameImages(after, s, x)
         /\ \A w \in Workspace : NoImagesAdded(after, s, w)
<1>1. \A w : ImagesIn(after, w) = ImagesIn(s, w)
  BY DEF ImagesIn, Exists
<1>2. \A w \in Workspace : NoImagesAdded(after, s, w)
  <2>1. ASSUME NEW w \in Workspace, NEW i \in ImagesIn(after, w)
        PROVE  i \in ImagesIn(s, w) /\ after[ImageRow(i)].upload = s[ImageRow(i)].upload
    BY <1>1, <2>1 DEF ImagesIn
  <2>. QED
    BY <2>1 DEF NoImagesAdded
<1>3. ASSUME NEW x \in Product
      PROVE  /\ ImagesOf(after, x) = ImagesOf(s, x) /\ ImagesOf(s, x) \subseteq File
             /\ Positions(after, x) = Positions(s, x)
  <2>1. ImagesOf(after, x) = ImagesOf(s, x) /\ ImagesOf(s, x) \subseteq File
    BY DEF ImagesOf, Exists
  <2>2. \A i \in ImagesOf(s, x) : after[ImageRow(i)].position = s[ImageRow(i)].position
    BY <2>1
  <2>. QED
    BY <2>1, <2>2 DEF Positions
<1>4. ASSUME NEW x \in Product
      PROVE  SameImages(after, s, x)
  BY <1>3 DEF SameImages
<1>5. ASSUME NEW x \in Product, ImagesOK(s, x)
      PROVE  ImagesOK(after, x)
  <2>1. ASSUME NEW i \in ImagesOf(after, x)
        PROVE  x \in ProductsOf(after, after[ImageRow(i)].workspace)
    <3>1. /\ i \in File /\ Exists(s, ImageRow(i))
          /\ after[ImageRow(i)] = s[ImageRow(i)] /\ x \in ProductsOf(s, s[ImageRow(i)].workspace)
      BY <1>3, <1>5, <2>1 DEF ImagesOf, ImagesOK
    <3>2. s[ImageRow(i)].workspace \in Workspace
      BY <3>1, RowContents
    <3>. QED
      BY <3>1, <3>2
  <2>2. \A i \in ImagesOf(s, x) : after[ImageRow(i)] = s[ImageRow(i)]
    BY <1>3
  <2>. QED
    BY <1>3, <1>5, <2>1, <2>2 DEF ImagesOK
<1>. QED
  BY <1>2, <1>4, <1>5

(* The files that rows show come from rows of images and workspaces.       *)
LEMMA AttachingRows ==
  ASSUME NEW s, NEW after, NEW r,
         \A i \in File : Exists(after, ImageRow(i)) =>
           Exists(s, ImageRow(i)) \/ (Carries(r) /\ r.file = i),
         \A w \in Workspace : Exists(after, WorkspaceRow(w)) =>
           \/ Exists(s, WorkspaceRow(w)) /\ Logo(after, w) = Logo(s, w)
           \/ Logo(after, w) = NoFile
           \/ Carries(r) /\ r.file = Logo(after, w)
  PROVE  Attaching(s, after, r)
<1>1. ASSUME NEW row \in Row, NEW f \in FilesOf(after, row)
      PROVE  f \in FilesOf(s, row) \/ (Carries(r) /\ r.file = f)
  <2>1. f \in File /\ Exists(after, row) /\ f # NoFile
    BY MarkersAssumption DEF FilesOf
  <2>2. CASE row = ImageRow(f)
    BY <2>1, <2>2 DEF FilesOf
  <2>3. CASE row # ImageRow(f)
    <3>1. PICK w \in Workspace : row = WorkspaceRow(w) /\ Logo(after, w) = f
      BY <2>3 DEF FilesOf
    <3>. QED
      BY <2>1, <3>1 DEF FilesOf
  <2>. QED
    BY <2>2, <2>3
<1>. QED
  BY <1>1 DEF Attaching

(* One row of a product has changed, which stays where it was or is new.   *)
LEMMA OneProductIsSound ==
  ASSUME NEW s, DatabaseOK(s), \A y \in Product : ImagesOK(s, y),
         NEW x \in Product, NEW content \in ProductRecord, NEW locked, NEW r,
         \/ s[ProductRow(x)] \in ProductRecord /\ s[ProductRow(x)].workspace = content.workspace
         \/ /\ s[ProductRow(x)] = Absent
            /\ Live(s, content.workspace) =>
                 /\ WorkspaceRow(content.workspace) \in locked
                 /\ RoomForProduct(s, content.workspace)
  PROVE  LET after == [s EXCEPT ![ProductRow(x)] = content]
         IN Sound(s, locked, after) /\ Attaching(s, after, r)
<1>. DEFINE after == [s EXCEPT ![ProductRow(x)] = content]
            home == content.workspace
<1>1. /\ DOMAIN after = Row
      /\ \A row \in Row : after[row] = IF row = ProductRow(x) THEN content ELSE s[row]
  BY DEF DatabaseOK
<1>. HIDE DEF after
<1>2. /\ \A w \in Workspace : after[WorkspaceRow(w)] = s[WorkspaceRow(w)]
      /\ \A i \in File : after[ImageRow(i)] = s[ImageRow(i)]
      /\ \A y \in Product : after[ProductRow(y)] = IF y = x THEN content ELSE s[ProductRow(y)]
  BY <1>1, RowsExist, RowsDiffer
<1>3. DatabaseOK(after)
  <2>1. DatabaseOK(s) => DatabaseOK(after)
    BY <1>1, <1>2 DEF DatabaseOK
  <2>. QED
    BY <2>1
<1>4. home \in Workspace
  BY DEF ProductRecord
<1>5. ASSUME NEW w \in Workspace
      PROVE  /\ ProductsOf(s, w) \subseteq ProductsOf(after, w)
             /\ ProductsOf(after, w) \subseteq ProductsOf(s, w) \cup (IF w = home THEN {x} ELSE {})
             /\ s[ProductRow(x)] # Absent => ProductsOf(after, w) \subseteq ProductsOf(s, w)
  <2>1. Exists(after, ProductRow(x)) /\ after[ProductRow(x)] = content
    BY <1>2, NotRows DEF Exists
  <2>2. \A y \in Product : y # x => (y \in ProductsOf(s, w) <=> y \in ProductsOf(after, w))
    BY <1>2 DEF ProductsOf, Exists
  <2>3. x \in ProductsOf(after, w) <=> w = home
    BY <2>1 DEF ProductsOf
  <2>4. s[ProductRow(x)] # Absent => (x \in ProductsOf(s, w) <=> w = home)
    BY NotRows DEF ProductsOf, Exists
  <2>5. s[ProductRow(x)] = Absent => x \notin ProductsOf(s, w)
    BY DEF ProductsOf, Exists
  <2>6. ProductsOf(s, w) \subseteq Product /\ ProductsOf(after, w) \subseteq Product
    BY DEF ProductsOf
  <2>. QED
    BY <2>2, <2>3, <2>4, <2>5, <2>6
<1>6. /\ \A y \in Product : ImagesOK(after, y) /\ SameImages(after, s, y)
      /\ \A w \in Workspace : NoImagesAdded(after, s, w)
  BY <1>2, <1>5, ImagesUntouched
<1>7. \A w \in Workspace : Live(after, w) <=> Live(s, w)
  BY <1>2 DEF Live, Exists
<1>8. ASSUME NEW w \in Workspace, Live(s, w), ~NoProductsAdded(after, s, w)
      PROVE  WorkspaceRow(w) \in locked /\ Cardinality(ProductsOf(after, w)) <= MAX_PRODUCTS
  <2>1. w = home /\ s[ProductRow(x)] = Absent
    BY <1>5, <1>8 DEF NoProductsAdded
  <2>2. /\ WorkspaceRow(w) \in locked /\ RoomForProduct(s, w)
    BY <1>8, <2>1, NotRows
  <2>3. ProductsOf(after, w) = ProductsOf(s, w) \cup {x} /\ x \notin ProductsOf(s, w)
    <3>1. ProductsOf(after, w) \subseteq ProductsOf(s, w) \cup {x}
      BY <1>5, <2>1
    <3>2. x \in ProductsOf(after, w)
      BY <1>2, <2>1, NotRows DEF ProductsOf, Exists
    <3>3. x \notin ProductsOf(s, w)
      BY <2>1 DEF ProductsOf, Exists
    <3>. QED
      BY <1>5, <3>1, <3>2, <3>3
  <2>4. IsFiniteSet(ProductsOf(s, w)) /\ Cardinality(ProductsOf(s, w)) \in Nat
    BY FinitelyMany
  <2>5. Cardinality(ProductsOf(after, w)) = Cardinality(ProductsOf(s, w)) + 1
    BY <2>3, <2>4, FS_AddElement
  <2>. QED
    BY <2>2, <2>4, <2>5, LimitsAssumption DEF RoomForProduct
<1>9. \A y \in Product : after[ProductRow(y)] = Absent => s[ProductRow(y)] = Absent
  BY <1>2, NotRows
<1>10. Sound(s, locked, after)
  BY <1>3, <1>6, <1>7, <1>8, <1>9 DEF Sound, Guards
<1>11. Attaching(s, after, r)
  BY <1>2, AttachingRows DEF Exists, Logo
<1>. QED
  BY <1>10, <1>11 DEF after

(* One row of a workspace has changed, and it is not live if it was not;   *)
(* its logo is the one it had, none, or the file in hand.                  *)
LEMMA OneWorkspaceIsSound ==
  ASSUME NEW s, DatabaseOK(s), \A y \in Product : ImagesOK(s, y),
         NEW w \in Workspace, NEW content \in WorkspaceRecord \cup {Gone}, NEW locked, NEW r,
         Exists(s, WorkspaceRow(w)),
         content \in WorkspaceRecord /\ s[WorkspaceRow(w)].deleted => content.deleted,
         content \in WorkspaceRecord =>
           \/ content.logo \in {Logo(s, w), NoFile}
           \/ Carries(r) /\ r.file = content.logo
  PROVE  LET after == [s EXCEPT ![WorkspaceRow(w)] = content]
         IN Sound(s, locked, after) /\ Attaching(s, after, r)
<1>. DEFINE after == [s EXCEPT ![WorkspaceRow(w)] = content]
<1>1. /\ DOMAIN after = Row
      /\ \A row \in Row : after[row] = IF row = WorkspaceRow(w) THEN content ELSE s[row]
  BY DEF DatabaseOK
<1>. HIDE DEF after
<1>2. /\ \A o \in Workspace :
           after[WorkspaceRow(o)] = IF o = w THEN content ELSE s[WorkspaceRow(o)]
      /\ \A i \in File : after[ImageRow(i)] = s[ImageRow(i)]
      /\ \A y \in Product : after[ProductRow(y)] = s[ProductRow(y)]
  BY <1>1, RowsExist, RowsDiffer
<1>3. DatabaseOK(after)
  <2>1. DatabaseOK(s) => DatabaseOK(after)
    BY <1>1, <1>2 DEF DatabaseOK
  <2>. QED
    BY <2>1
<1>4. \A o \in Workspace : ProductsOf(after, o) = ProductsOf(s, o)
  BY <1>2 DEF ProductsOf, Exists
<1>5. /\ \A y \in Product : ImagesOK(after, y) /\ SameImages(after, s, y)
      /\ \A o \in Workspace : NoImagesAdded(after, s, o)
  BY <1>2, <1>4, ImagesUntouched
<1>6. Exists(after, WorkspaceRow(w)) => content \in WorkspaceRecord
  BY <1>2 DEF Exists
<1>7. \A o \in Workspace : Live(after, o) => Live(s, o)
  BY <1>2, <1>6 DEF Live, Exists, WorkspaceRecord
<1>8. Sound(s, locked, after)
  BY <1>2, <1>3, <1>4, <1>5, <1>7 DEF Sound, Guards, NoProductsAdded
<1>9. Attaching(s, after, r)
  <2>1. \A i \in File : Exists(after, ImageRow(i)) => Exists(s, ImageRow(i))
    BY <1>2 DEF Exists
  <2>2. ASSUME NEW o \in Workspace, Exists(after, WorkspaceRow(o))
        PROVE  \/ Exists(s, WorkspaceRow(o)) /\ Logo(after, o) = Logo(s, o)
               \/ Logo(after, o) = NoFile
               \/ Carries(r) /\ r.file = Logo(after, o)
    BY <1>2, <1>6, <2>2 DEF Exists, Logo
  <2>. QED
    BY <2>1, <2>2, AttachingRows
<1>. QED
  BY <1>8, <1>9 DEF after

(* Products that were there are gone, with their images.                   *)
LEMMA WithoutProductsIsSound ==
  ASSUME NEW s, DatabaseOK(s), \A y \in Product : ImagesOK(s, y),
         NEW xs \in SUBSET Product, \A x \in xs : Exists(s, ProductRow(x)), NEW locked, NEW r
  PROVE  /\ Sound(s, locked, WithoutProducts(s, xs))
         /\ Attaching(s, WithoutProducts(s, xs), r)
<1>. DEFINE after == WithoutProducts(s, xs)
            taken == UNION {ImagesOf(s, x) : x \in xs}
<1>1. /\ DOMAIN after = Row
      /\ \A row \in Row : after[row] =
           IF row \in {ImageRow(i) : i \in taken} THEN Absent
           ELSE IF row \in {ProductRow(x) : x \in xs} THEN Gone ELSE s[row]
  BY DEF WithoutProducts, Put, DatabaseOK
<1>. HIDE DEF after, taken
<1>2. /\ \A w \in Workspace : after[WorkspaceRow(w)] = s[WorkspaceRow(w)]
      /\ \A y \in Product : after[ProductRow(y)] = IF y \in xs THEN Gone ELSE s[ProductRow(y)]
      /\ \A i \in File : after[ImageRow(i)] = IF i \in taken THEN Absent ELSE s[ImageRow(i)]
  <2>1. ASSUME NEW w \in Workspace
        PROVE  after[WorkspaceRow(w)] = s[WorkspaceRow(w)]
    BY <1>1, RowsExist, RowsDiffer
  <2>2. ASSUME NEW y \in Product
        PROVE  after[ProductRow(y)] = IF y \in xs THEN Gone ELSE s[ProductRow(y)]
    BY <1>1, RowsExist, RowsDiffer
  <2>3. ASSUME NEW i \in File
        PROVE  after[ImageRow(i)] = IF i \in taken THEN Absent ELSE s[ImageRow(i)]
    BY <1>1, RowsExist, RowsDiffer
  <2>. QED
    BY <2>1, <2>2, <2>3
<1>3. DatabaseOK(after)
  <2>1. DatabaseOK(s) => DatabaseOK(after)
    BY <1>1, <1>2 DEF DatabaseOK
  <2>. QED
    BY <2>1
<1>4. \A i \in File : i \in taken <=> Exists(s, ImageRow(i)) /\ s[ImageRow(i)].product \in xs
  <2>1. \A i \in File, x \in xs :
          i \in ImagesOf(s, x) <=> Exists(s, ImageRow(i)) /\ s[ImageRow(i)].product = x
    BY DEF ImagesOf
  <2>. QED
    BY <2>1 DEF taken
<1>5. \A i \in File : Exists(after, ImageRow(i)) =>
        /\ Exists(s, ImageRow(i)) /\ after[ImageRow(i)] = s[ImageRow(i)]
        /\ s[ImageRow(i)].product \notin xs
  BY <1>2, <1>4 DEF Exists
<1>6. \A i \in File : Exists(s, ImageRow(i)) /\ s[ImageRow(i)].product \notin xs =>
        after[ImageRow(i)] = s[ImageRow(i)]
  BY <1>2, <1>4
<1>7. ASSUME NEW y \in Product, y \notin xs
      PROVE  SameImages(after, s, y) /\ ImagesOK(after, y)
  <2>1. SameImages(after, s, y)
    BY <1>5, <1>6, <1>7 DEF SameImages, ImagesOf
  <2>2. after[ProductRow(y)] = s[ProductRow(y)]
    BY <1>2, <1>7
  <2>. QED
    BY <2>1, <2>2, ImagesOKAgain
<1>8. ASSUME NEW y \in xs
      PROVE  /\ after[ProductRow(y)] # s[ProductRow(y)] /\ after[ProductRow(y)] # Absent
             /\ ImagesOK(after, y)
  <2>1. ImagesOf(after, y) = {}
    BY <1>5, <1>8 DEF ImagesOf
  <2>2. Positions(after, y) = {} /\ Cardinality({}) = 0
    BY <2>1, FS_EmptySet DEF Positions
  <2>3. ImagesOK(after, y)
    BY <2>1, <2>2, LimitsAssumption DEF ImagesOK
  <2>4. after[ProductRow(y)] = Gone /\ s[ProductRow(y)] # Gone
    BY <1>2, <1>8 DEF Exists
  <2>. QED
    BY <2>3, <2>4, NotRows
<1>9. ASSUME NEW w \in Workspace
      PROVE  /\ Live(after, w) <=> Live(s, w)
             /\ NoProductsAdded(after, s, w)
             /\ NoImagesAdded(after, s, w)
  <2>1. Live(after, w) <=> Live(s, w)
    BY <1>2 DEF Live, Exists
  <2>2. NoProductsAdded(after, s, w)
    BY <1>2 DEF NoProductsAdded, ProductsOf, Exists
  <2>3. NoImagesAdded(after, s, w)
    BY <1>5 DEF NoImagesAdded, ImagesIn
  <2>. QED
    BY <2>1, <2>2, <2>3
<1>10. ASSUME NEW y \in Product
       PROVE  /\ ImagesOK(after, y)
              /\ after[ProductRow(y)] = Absent => s[ProductRow(y)] = Absent
              /\ Guards(locked, s, after, ProductRow(y)) \/ SameImages(after, s, y)
  BY <1>2, <1>7, <1>8 DEF Guards
<1>11. Sound(s, locked, after)
  BY <1>3, <1>9, <1>10 DEF Sound
<1>12. Attaching(s, after, r)
  <2>1. \A i \in File : Exists(after, ImageRow(i)) => Exists(s, ImageRow(i))
    BY <1>5
  <2>2. \A w \in Workspace : Exists(after, WorkspaceRow(w)) =>
          Exists(s, WorkspaceRow(w)) /\ Logo(after, w) = Logo(s, w)
    BY <1>2 DEF Exists, Logo
  <2>. QED
    BY <2>1, <2>2, AttachingRows
<1>. QED
  BY <1>11, <1>12 DEF after

(* A new image takes the next position, under locks on its workspace and   *)
(* its product.                                                            *)
LEMMA AddedImageIsSound ==
  ASSUME NEW s, DatabaseOK(s), \A y \in Product : ImagesOK(s, y),
         NEW a, a.workspace \in Workspace, a.product \in Product, a.upload \in Upload,
         NEW f \in File, ~Exists(s, ImageRow(f)),
         a.product \in ProductsOf(s, a.workspace), RoomForImage(s, a.product),
         RoomForBytes(s, a.workspace, StoredBytes[a.upload]),
         UniqueUpload(s, a.product, a.upload),
         NEW locked, ProductRow(a.product) \in locked,
         Live(s, a.workspace) => WorkspaceRow(a.workspace) \in locked,
         NEW r, Carries(r), r.file = f
  PROVE  LET after == [s EXCEPT ![ImageRow(f)] = AddedImage(s, a)]
         IN Sound(s, locked, after) /\ Attaching(s, after, r)
<1>. DEFINE after == [s EXCEPT ![ImageRow(f)] = AddedImage(s, a)]
            x == a.product
            n == Cardinality(ImagesOf(s, x))
            new == AddedImage(s, a)
<1>1. /\ DOMAIN after = Row
      /\ \A row \in Row : after[row] = IF row = ImageRow(f) THEN new ELSE s[row]
  BY DEF DatabaseOK
<1>2. /\ n \in Nat /\ IsFiniteSet(ImagesOf(s, x)) /\ n < MAX_IMAGES
      /\ new.workspace = a.workspace /\ new.product = x /\ new.upload = a.upload
      /\ new.position = n
  BY FinitelyMany DEF RoomForImage, AddedImage
<1>3. new \in ImageRecord
  BY <1>2, LimitsAssumption DEF ImageRecord, AddedImage
<1>. HIDE DEF after, new, n
<1>4. /\ \A w \in Workspace : after[WorkspaceRow(w)] = s[WorkspaceRow(w)]
      /\ \A y \in Product : after[ProductRow(y)] = s[ProductRow(y)]
      /\ \A i \in File : after[ImageRow(i)] = IF i = f THEN new ELSE s[ImageRow(i)]
  BY <1>1, RowsExist, RowsDiffer
<1>5. DatabaseOK(after)
  <2>1. DatabaseOK(s) => DatabaseOK(after)
    BY <1>1, <1>3, <1>4 DEF DatabaseOK
  <2>. QED
    BY <2>1
<1>6. Exists(after, ImageRow(f)) /\ after[ImageRow(f)] = new
  BY <1>3, <1>4, NotRows DEF Exists
<1>7. \A i \in File : i # f =>
        /\ after[ImageRow(i)] = s[ImageRow(i)]
        /\ Exists(after, ImageRow(i)) <=> Exists(s, ImageRow(i))
  BY <1>4 DEF Exists
<1>8. \A w : ProductsOf(after, w) = ProductsOf(s, w)
  BY <1>4 DEF ProductsOf, Exists
<1>9. ASSUME NEW y \in Product, y # x
      PROVE  SameImages(after, s, y) /\ ImagesOK(after, y)
  <2>1. SameImages(after, s, y)
    BY <1>2, <1>6, <1>7, <1>9 DEF SameImages, ImagesOf
  <2>. QED
    BY <1>4, <2>1, ImagesOKAgain
<1>10. ImagesOf(after, x) = ImagesOf(s, x) \cup {f} /\ f \notin ImagesOf(s, x)
  BY <1>2, <1>6, <1>7 DEF ImagesOf
<1>11. Cardinality(ImagesOf(after, x)) = n + 1
  BY <1>2, <1>10, FS_AddElement DEF n
<1>12. ImagesOK(after, x)
  <2>1. ImagesOK(s, x) /\ Positions(s, x) = 0 .. n - 1
    BY DEF ImagesOK, n
  <2>2. \A i \in ImagesOf(s, x) : i \in File /\ i # f /\ after[ImageRow(i)] = s[ImageRow(i)]
    BY <1>7, <1>10 DEF ImagesOf
  <2>3. Positions(after, x) = Positions(s, x) \cup {n}
    BY <1>2, <1>6, <1>10, <2>2 DEF Positions
  <2>4. Positions(after, x) = 0 .. (n + 1) - 1
    BY <1>2, <2>1, <2>3
  <2>5. \A i \in ImagesOf(after, x) : x \in ProductsOf(after, after[ImageRow(i)].workspace)
    BY <1>2, <1>6, <1>8, <1>10, <2>1, <2>2 DEF ImagesOK
  <2>6. \A i \in ImagesOf(s, x) : s[ImageRow(i)].position # n /\ s[ImageRow(i)].upload # a.upload
    <3>1. \A i \in ImagesOf(s, x) : s[ImageRow(i)].position \in 0 .. n - 1
      BY <2>1 DEF Positions
    <3>2. \A i \in ImagesOf(s, x) : s[ImageRow(i)].upload # a.upload
      BY DEF UniqueUpload, ImagesByUpload
    <3>. QED
      BY <1>2, <3>1, <3>2
  <2>7. \A i, j \in ImagesOf(after, x) : i # j =>
          /\ after[ImageRow(i)].position # after[ImageRow(j)].position
          /\ after[ImageRow(i)].upload # after[ImageRow(j)].upload
    <3>. SUFFICES ASSUME NEW i \in ImagesOf(after, x), NEW j \in ImagesOf(after, x), i # j
                  PROVE  /\ after[ImageRow(i)].position # after[ImageRow(j)].position
                         /\ after[ImageRow(i)].upload # after[ImageRow(j)].upload
      OBVIOUS
    <3>1. CASE i # f /\ j # f
      BY <1>10, <2>1, <2>2, <3>1 DEF ImagesOK
    <3>2. CASE i = f \/ j = f
      BY <1>2, <1>6, <1>10, <2>2, <2>6, <3>2
    <3>. QED
      BY <3>1, <3>2
  <2>8. n + 1 <= MAX_IMAGES
    BY <1>2, LimitsAssumption
  <2>. QED
    BY <1>11, <2>4, <2>5, <2>7, <2>8 DEF ImagesOK
<1>13. ASSUME NEW w \in Workspace, Live(s, w), ~NoImagesAdded(after, s, w)
       PROVE  WorkspaceRow(w) \in locked /\ StorageBytes(after, w) <= MAX_BYTES
  <2>1. \A i \in ImagesIn(after, w) : i # f =>
          i \in ImagesIn(s, w) /\ after[ImageRow(i)].upload = s[ImageRow(i)].upload
    BY <1>7 DEF ImagesIn
  <2>2. f \in ImagesIn(after, w) /\ w = a.workspace
    BY <1>2, <1>6, <1>13, <2>1 DEF NoImagesAdded, ImagesIn
  <2>3. ImagesIn(after, w) = ImagesIn(s, w) \cup {f} /\ f \notin ImagesIn(s, w)
    BY <1>7, <2>1, <2>2 DEF ImagesIn
  <2>4. \A i \in ImagesIn(s, w) : after[ImageRow(i)].upload = s[ImageRow(i)].upload
    BY <2>1, <2>3
  <2>5. StorageBytes(after, w) = StorageBytes(s, w) + StoredBytes[after[ImageRow(f)].upload]
    BY <1>5, <2>3, <2>4, StorageAdded
  <2>6. StoredBytes[after[ImageRow(f)].upload] = StoredBytes[a.upload]
    BY <1>2, <1>6
  <2>. QED
    BY <1>13, <2>2, <2>5, <2>6 DEF RoomForBytes
<1>14. \A w \in Workspace : /\ Live(after, w) <=> Live(s, w)
                            /\ NoProductsAdded(after, s, w)
  BY <1>4, <1>8 DEF Live, Exists, NoProductsAdded
<1>15. ASSUME NEW y \in Product
       PROVE  /\ ImagesOK(after, y)
              /\ after[ProductRow(y)] = Absent => s[ProductRow(y)] = Absent
              /\ Guards(locked, s, after, ProductRow(y)) \/ SameImages(after, s, y)
  BY <1>4, <1>9, <1>12 DEF Guards
<1>16. Sound(s, locked, after)
  BY <1>5, <1>13, <1>14, <1>15 DEF Sound, Guards
<1>17. Attaching(s, after, r)
  <2>1. \A i \in File : Exists(after, ImageRow(i)) =>
          Exists(s, ImageRow(i)) \/ (Carries(r) /\ r.file = i)
    BY <1>7
  <2>2. \A w \in Workspace : Exists(after, WorkspaceRow(w)) =>
          Exists(s, WorkspaceRow(w)) /\ Logo(after, w) = Logo(s, w)
    BY <1>4 DEF Exists, Logo
  <2>. QED
    BY <2>1, <2>2, AttachingRows
<1>. QED
  BY <1>16, <1>17 DEF after, new

(* Some of the images of a product are gone, the others have positions of  *)
(* their own from 0, under a lock on the product.                          *)
LEMMA RearrangedIsSound ==
  ASSUME NEW s, DatabaseOK(s), \A y \in Product : ImagesOK(s, y),
         NEW x \in Product, NEW kept \in SUBSET ImagesOf(s, x),
         NEW place \in [kept -> 0 .. Cardinality(kept) - 1],
         \A i, j \in kept : place[i] = place[j] => i = j,
         NEW after, DOMAIN after = Row,
         \A w \in Workspace : after[WorkspaceRow(w)] = s[WorkspaceRow(w)],
         \A y \in Product : after[ProductRow(y)] = s[ProductRow(y)],
         \A i \in File : after[ImageRow(i)] =
           IF i \in kept THEN [s[ImageRow(i)] EXCEPT !.position = place[i]]
           ELSE IF i \in ImagesOf(s, x) THEN Absent ELSE s[ImageRow(i)],
         NEW locked, ProductRow(x) \in locked, NEW r
  PROVE  Sound(s, locked, after) /\ Attaching(s, after, r) /\ LetsGo(s, after, ImagesOf(s, x) \ kept)
<1>. DEFINE n == Cardinality(kept)
<1>1. /\ IsFiniteSet(ImagesOf(s, x)) /\ IsFiniteSet(kept) /\ n \in Nat
      /\ n <= Cardinality(ImagesOf(s, x)) /\ Cardinality(ImagesOf(s, x)) \in Nat
      /\ n <= MAX_IMAGES
  <2>1. IsFiniteSet(ImagesOf(s, x)) /\ Cardinality(ImagesOf(s, x)) \in Nat
    BY FinitelyMany
  <2>2. IsFiniteSet(kept) /\ n <= Cardinality(ImagesOf(s, x))
    BY <2>1, FS_Subset
  <2>3. n \in Nat
    BY <2>2, FS_CardinalityType
  <2>4. Cardinality(ImagesOf(s, x)) <= MAX_IMAGES
    BY DEF ImagesOK
  <2>. QED
    BY <2>1, <2>2, <2>3, <2>4, LimitsAssumption
<1>. HIDE DEF n
<1>2. ASSUME NEW i \in kept
      PROVE  /\ i \in File /\ s[ImageRow(i)] \in ImageRecord /\ s[ImageRow(i)].product = x
             /\ after[ImageRow(i)] \in ImageRecord /\ Exists(after, ImageRow(i))
             /\ after[ImageRow(i)].workspace = s[ImageRow(i)].workspace
             /\ after[ImageRow(i)].product = x
             /\ after[ImageRow(i)].upload = s[ImageRow(i)].upload
             /\ after[ImageRow(i)].position = place[i]
  <2>1. i \in File /\ Exists(s, ImageRow(i)) /\ s[ImageRow(i)].product = x
    BY DEF ImagesOf
  <2>2. s[ImageRow(i)] \in ImageRecord
    BY <2>1, RowContents
  <2>3. place[i] \in 0 .. MAX_IMAGES - 1
    <3>1. place[i] \in 0 .. n - 1
      BY DEF n
    <3>. QED
      BY <1>1, <3>1, LimitsAssumption
  <2>4. after[ImageRow(i)] = [s[ImageRow(i)] EXCEPT !.position = place[i]]
    BY <2>1
  <2>. DEFINE old == s[ImageRow(i)]
              new == after[ImageRow(i)]
  <2>. HIDE DEF old, new
  <2>5. old \in ImageRecord /\ new = [old EXCEPT !.position = place[i]]
    BY <2>2, <2>4 DEF old, new
  <2>6. /\ new \in ImageRecord
        /\ new.workspace = old.workspace /\ new.product = old.product
        /\ new.upload = old.upload /\ new.position = place[i]
    BY <2>3, <2>5 DEF ImageRecord
  <2>7. Exists(after, ImageRow(i))
    BY <2>6, NotRows DEF Exists, new
  <2>. QED
    BY <2>1, <2>2, <2>6, <2>7 DEF old, new
<1>3. ASSUME NEW i \in File, i \notin ImagesOf(s, x)
      PROVE  after[ImageRow(i)] = s[ImageRow(i)] /\ (Exists(after, ImageRow(i)) <=> Exists(s, ImageRow(i)))
  BY <1>3 DEF Exists
<1>4. ASSUME NEW i \in File, i \in ImagesOf(s, x), i \notin kept
      PROVE  ~Exists(after, ImageRow(i)) /\ after[ImageRow(i)] = Absent
  BY <1>4 DEF Exists
<1>5. DatabaseOK(after)
  <2>1. ASSUME NEW i \in File
        PROVE  after[ImageRow(i)] \in ImageRecord \cup {Absent}
    <3>1. s[ImageRow(i)] \in ImageRecord \cup {Absent}
      BY DEF DatabaseOK
    <3>. QED
      BY <1>2, <1>3, <1>4, <3>1
  <2>2. \A w \in Workspace : after[WorkspaceRow(w)] \in WorkspaceRecord \cup {Gone}
    BY DEF DatabaseOK
  <2>3. \A y \in Product : after[ProductRow(y)] \in ProductRecord \cup {Absent, Gone}
    BY DEF DatabaseOK
  <2>. QED
    BY <2>1, <2>2, <2>3 DEF DatabaseOK
<1>6. \A w : ProductsOf(after, w) = ProductsOf(s, w)
  BY DEF ProductsOf, Exists
<1>7. ASSUME NEW y \in Product, y # x
      PROVE  SameImages(after, s, y) /\ ImagesOK(after, y)
  <2>1. \A i \in ImagesOf(s, y) : i \in File /\ i \notin ImagesOf(s, x)
    BY <1>7 DEF ImagesOf
  <2>2. \A i \in ImagesOf(after, y) : i \in File /\ i \notin ImagesOf(s, x)
    BY <1>2, <1>4, <1>7 DEF ImagesOf
  <2>3. SameImages(after, s, y)
    BY <1>3, <2>1, <2>2 DEF SameImages
  <2>. QED
    BY <2>3, ImagesOKAgain
<1>8. ImagesOf(after, x) = kept
  <2>1. kept \subseteq ImagesOf(after, x)
    BY <1>2 DEF ImagesOf
  <2>2. ASSUME NEW i \in ImagesOf(after, x)
        PROVE  i \in kept
    BY <1>3, <1>4, <2>2 DEF ImagesOf
  <2>. QED
    BY <2>1, <2>2
<1>9. ImagesOK(after, x)
  <2>1. {place[i] : i \in kept} = 0 .. n - 1
    BY <1>1, AllPlaces DEF n
  <2>2. Positions(after, x) = 0 .. n - 1
    <3>1. Positions(after, x) = {place[i] : i \in kept}
      BY <1>2, <1>8 DEF Positions
    <3>. QED
      BY <2>1, <3>1
  <2>3. ImagesOK(s, x)
    OBVIOUS
  <2>4. \A i \in kept : x \in ProductsOf(after, after[ImageRow(i)].workspace)
    BY <1>2, <1>6, <2>3 DEF ImagesOK
  <2>5. \A i, j \in kept : i # j =>
          /\ after[ImageRow(i)].position # after[ImageRow(j)].position
          /\ after[ImageRow(i)].upload # after[ImageRow(j)].upload
    BY <1>2, <2>3 DEF ImagesOK
  <2>. QED
    BY <1>1, <1>8, <2>2, <2>4, <2>5 DEF ImagesOK, n
<1>10. ASSUME NEW w \in Workspace
       PROVE  /\ Live(after, w) <=> Live(s, w)
              /\ NoProductsAdded(after, s, w)
              /\ NoImagesAdded(after, s, w)
  <2>1. Live(after, w) <=> Live(s, w)
    BY DEF Live, Exists
  <2>2. NoProductsAdded(after, s, w)
    BY <1>6 DEF NoProductsAdded
  <2>3. ASSUME NEW i \in ImagesIn(after, w)
        PROVE  i \in ImagesIn(s, w) /\ after[ImageRow(i)].upload = s[ImageRow(i)].upload
    <3>1. i \in File /\ Exists(after, ImageRow(i)) /\ after[ImageRow(i)].workspace = w
      BY DEF ImagesIn
    <3>2. CASE i \in kept
      <4>1. Exists(s, ImageRow(i))
        BY <3>2 DEF ImagesOf
      <4>. QED
        BY <1>2, <3>1, <3>2, <4>1 DEF ImagesIn
    <3>3. CASE i \notin kept
      BY <1>3, <1>4, <3>1, <3>3 DEF ImagesIn
    <3>. QED
      BY <3>2, <3>3
  <2>4. NoImagesAdded(after, s, w)
    BY <2>3 DEF NoImagesAdded
  <2>. QED
    BY <2>1, <2>2, <2>4
<1>11. ASSUME NEW y \in Product
       PROVE  /\ ImagesOK(after, y)
              /\ after[ProductRow(y)] = Absent => s[ProductRow(y)] = Absent
              /\ Guards(locked, s, after, ProductRow(y)) \/ SameImages(after, s, y)
  BY <1>7, <1>9 DEF Guards
<1>12. Sound(s, locked, after)
  BY <1>5, <1>10, <1>11 DEF Sound
<1>13. Attaching(s, after, r)
  <2>1. ASSUME NEW i \in File, Exists(after, ImageRow(i))
        PROVE  Exists(s, ImageRow(i))
    <3>1. \A j \in ImagesOf(s, x) : Exists(s, ImageRow(j))
      BY DEF ImagesOf
    <3>. QED
      BY <1>3, <2>1, <3>1
  <2>2. \A w \in Workspace : Exists(after, WorkspaceRow(w)) =>
          Exists(s, WorkspaceRow(w)) /\ Logo(after, w) = Logo(s, w)
    BY DEF Exists, Logo
  <2>. QED
    BY <2>1, <2>2, AttachingRows
<1>14. LetsGo(s, after, ImagesOf(s, x) \ kept)
  <2>. DEFINE fs == ImagesOf(s, x) \ kept
  <2>1. fs \in SUBSET File /\ \A i \in fs : Exists(s, ImageRow(i))
    BY DEF ImagesOf
  <2>2. \A i \in kept : Exists(s, ImageRow(i))
    BY DEF ImagesOf
  <2>3. \A i \in File : Exists(after, ImageRow(i)) <=> Exists(s, ImageRow(i)) /\ i \notin fs
    BY <1>2, <1>3, <2>2 DEF Exists
  <2>. HIDE DEF fs
  <2>. QED
    BY <2>1, <2>3, ImagesGo DEF fs
<1>. QED
  BY <1>12, <1>13, <1>14

(* Those after the gap move up by one.                                     *)
LEMMA ClosedIsSound ==
  ASSUME NEW s, DatabaseOK(s), \A y \in Product : ImagesOK(s, y),
         NEW x \in Product, NEW i \in ImagesOf(s, x), NEW locked, ProductRow(x) \in locked, NEW r
  PROVE  LET after == Closed(s, x, i)
         IN Sound(s, locked, after) /\ Attaching(s, after, r) /\ LetsGo(s, after, {i})
<1>. DEFINE all == ImagesOf(s, x)
            left == all \ {i}
            n == Cardinality(all)
            at == [j \in all |-> s[ImageRow(j)].position]
            before(j) == {k \in left : s[ImageRow(k)].position < s[ImageRow(j)].position}
            place == [j \in left |-> Cardinality(before(j))]
            after == Closed(s, x, i)
<1>1. IsFiniteSet(all) /\ n \in Nat /\ Cardinality(left) = n - 1 /\ left \in SUBSET all
  BY FinitelyMany, FS_RemoveElement
<1>2. /\ at \in [all -> 0 .. n - 1] /\ at \in [all -> Nat]
      /\ \A j, k \in all : at[j] = at[k] => j = k
      /\ {at[j] : j \in all} = 0 .. n - 1
  <2>1. ImagesOK(s, x)
    OBVIOUS
  <2>2. \A j \in all : s[ImageRow(j)].position \in 0 .. n - 1
    BY <2>1 DEF ImagesOK, Positions
  <2>3. \A j, k \in all : at[j] = at[k] => j = k
    BY <2>1 DEF ImagesOK
  <2>4. {at[j] : j \in all} = 0 .. n - 1
    BY <2>1 DEF ImagesOK, Positions
  <2>. QED
    BY <1>1, <2>2, <2>3, <2>4
<1>3. ASSUME NEW j \in left
      PROVE  place[j] = IF at[j] < at[i] THEN at[j] ELSE at[j] - 1
  <2>. DEFINE those == {k \in all : at[k] < at[j]}
  <2>1. at[j] \in 0 .. n - 1 /\ at[i] \in 0 .. n - 1 /\ at[j] # at[i]
    BY <1>2, <1>3
  <2>2. Cardinality(those) = at[j]
    <3>1. at[j] \in 0 .. n
      BY <1>1, <2>1
    <3>. HIDE DEF at, all
    <3>. QED
      BY <1>1, <1>2, <3>1, CountBefore DEF n
  <2>3. before(j) = those \ {i} /\ IsFiniteSet(those)
    <3>1. before(j) = those \ {i}
      BY <1>3
    <3>2. those \in SUBSET all
      OBVIOUS
    <3>. HIDE DEF those, all
    <3>. QED
      BY <1>1, <3>1, <3>2, FS_Subset
  <2>4. i \in those <=> at[i] < at[j]
    OBVIOUS
  <2>5. CASE i \in those
    <3>1. Cardinality(those \ {i}) = Cardinality(those) - 1
      BY <2>3, <2>5, FS_RemoveElement
    <3>2. place[j] = at[j] - 1
      BY <1>3, <2>2, <2>3, <3>1
    <3>. QED
      BY <2>1, <2>4, <2>5, <3>2
  <2>6. CASE i \notin those
    <3>1. those \ {i} = those
      BY <2>6
    <3>2. place[j] = at[j]
      BY <1>3, <2>2, <2>3, <3>1
    <3>. QED
      BY <2>1, <2>4, <2>6, <3>2
  <2>. QED
    BY <2>5, <2>6
<1>4. /\ place \in [left -> 0 .. Cardinality(left) - 1]
      /\ \A j, k \in left : place[j] = place[k] => j = k
  <2>1. \A j \in left : at[j] \in 0 .. n - 1 /\ at[j] # at[i] /\ at[i] \in 0 .. n - 1
    BY <1>2
  <2>2. DOMAIN place = left /\ place = [j \in left |-> place[j]]
    OBVIOUS
  <2>3. \A j, k \in left : at[j] = at[k] => j = k
    BY <1>2
  <2>. HIDE DEF place, at, left, all, n
  <2>4. \A j \in left : place[j] \in 0 .. (n - 1) - 1
    BY <1>1, <1>3, <2>1
  <2>5. \A j, k \in left : place[j] = place[k] => at[j] = at[k]
    BY <1>1, <1>3, <2>1
  <2>. QED
    BY <1>1, <2>2, <2>3, <2>4, <2>5
<1>5. /\ DOMAIN after = Row
      /\ \A row \in Row : after[row] =
           IF row = ImageRow(i) THEN Absent
           ELSE IF row \in {ImageRow(j) : j \in left}
             THEN [s[row] EXCEPT !.position = Cardinality(before(row[2]))]
             ELSE s[row]
  BY DEF Closed, DatabaseOK
<1>6. \A j : ImageRow(j)[2] = j
  BY DEF ImageRow
<1>. HIDE DEF after
<1>7. ASSUME NEW row \in Row, \A j : row # ImageRow(j)
      PROVE  after[row] = s[row]
  <2>1. row # ImageRow(i) /\ row \notin {ImageRow(j) : j \in left}
    BY <1>7
  <2>. HIDE DEF before, left
  <2>. QED
    BY <1>5, <2>1
<1>8. /\ \A w \in Workspace : after[WorkspaceRow(w)] = s[WorkspaceRow(w)]
      /\ \A y \in Product : after[ProductRow(y)] = s[ProductRow(y)]
  BY <1>7, RowsExist, RowsDiffer
<1>9. ASSUME NEW j \in File
      PROVE  after[ImageRow(j)] = IF j \in left THEN [s[ImageRow(j)] EXCEPT !.position = place[j]]
                                  ELSE IF j \in all THEN Absent ELSE s[ImageRow(j)]
  <2>1. ImageRow(j) \in Row /\ \A k : ImageRow(j) = ImageRow(k) <=> j = k
    BY RowsExist, RowsDiffer
  <2>2. ImageRow(j) \in {ImageRow(k) : k \in left} <=> j \in left
    BY <2>1
  <2>3. j \in left => place[j] = Cardinality(before(ImageRow(j)[2]))
    BY <1>6
  <2>4. i \in all /\ (j \in all <=> j \in left \/ j = i) /\ i \notin left
    OBVIOUS
  <2>. HIDE DEF before, place, left, all
  <2>. QED
    BY <1>5, <2>1, <2>2, <2>3, <2>4
<1>. HIDE DEF place
<1>10. Sound(s, locked, after) /\ Attaching(s, after, r) /\ LetsGo(s, after, all \ left)
  BY <1>1, <1>4, <1>5, <1>8, <1>9, RearrangedIsSound
<1>11. all \ left = {i}
  OBVIOUS
<1>. QED
  BY <1>10, <1>11 DEF after

(* n images listed in n places are listed once each.                       *)
LEMMA ReorderedIsSound ==
  ASSUME NEW s, DatabaseOK(s), \A y \in Product : ImagesOK(s, y),
         NEW x \in Product, NEW order \in Orders, ListsEachOnce(order, ImagesOf(s, x)),
         NEW locked, ProductRow(x) \in locked, NEW r
  PROVE  LET after == [row \in Row |->
                         IF \E n \in DOMAIN order : row = ImageRow(order[n])
                           THEN [s[row] EXCEPT !.position =
                                   (CHOOSE n \in DOMAIN order : row = ImageRow(order[n])) - 1]
                           ELSE s[row]]
         IN Sound(s, locked, after) /\ Attaching(s, after, r) /\ LetsGo(s, after, {})
<1>. DEFINE all == ImagesOf(s, x)
            m == Cardinality(all)
            number(i) == CHOOSE n \in DOMAIN order : ImageRow(i) = ImageRow(order[n])
            place == [i \in all |-> number(i) - 1]
            after == [row \in Row |->
                        IF \E n \in DOMAIN order : row = ImageRow(order[n])
                          THEN [s[row] EXCEPT !.position =
                                  (CHOOSE n \in DOMAIN order : row = ImageRow(order[n])) - 1]
                          ELSE s[row]]
<1>1. IsFiniteSet(all) /\ m \in Nat /\ all \in SUBSET File
  BY FinitelyMany DEF ImagesOf
<1>2. order \in [1 .. m -> File] /\ {order[n] : n \in 1 .. m} = all
  <2>1. PICK k \in 1 .. Cardinality(File) : order \in [1 .. k -> File]
    BY DEF Orders
  <2>2. k \in Nat
    BY <2>1, FiniteAssumption, FS_CardinalityType
  <2>3. order \in Seq(File)
    BY <2>1, <2>2, SeqDef
  <2>4. DOMAIN order = 1 .. Len(order)
    BY <2>3
  <2>5. Len(order) = m /\ {order[n] : n \in DOMAIN order} = all
    BY DEF ListsEachOnce
  <2>. QED
    BY <2>1, <2>4, <2>5
<1>. HIDE DEF all
<1>3. \A i \in all : number(i) \in 1 .. m /\ order[number(i)] = i
  <2>1. ASSUME NEW i \in all
        PROVE  \E n \in DOMAIN order : ImageRow(i) = ImageRow(order[n])
    BY <1>2
  <2>2. ASSUME NEW i \in all
        PROVE  number(i) \in DOMAIN order /\ ImageRow(i) = ImageRow(order[number(i)])
    BY <2>1
  <2>. HIDE DEF number
  <2>. QED
    BY <1>2, <2>2, RowsDiffer
<1>4. /\ place \in [all -> 0 .. m - 1]
      /\ \A i, j \in all : place[i] = place[j] => i = j
  <2>. HIDE DEF number
  <2>1. \A i \in all : number(i) - 1 \in 0 .. m - 1
    BY <1>1, <1>3
  <2>2. \A i, j \in all : number(i) - 1 = number(j) - 1 => i = j
    BY <1>1, <1>3
  <2>. QED
    BY <2>1, <2>2
<1>5. \A row \in Row : (\A i : row # ImageRow(i)) => after[row] = s[row]
  OBVIOUS
<1>6. DOMAIN after = Row
  OBVIOUS
<1>7. ASSUME NEW j \in File
      PROVE  after[ImageRow(j)] = IF j \in all THEN [s[ImageRow(j)] EXCEPT !.position = place[j]]
                                  ELSE s[ImageRow(j)]
  <2>1. (\E n \in DOMAIN order : ImageRow(j) = ImageRow(order[n])) <=> j \in all
    BY <1>2, RowsDiffer
  <2>2. after[ImageRow(j)] =
          IF \E n \in DOMAIN order : ImageRow(j) = ImageRow(order[n])
            THEN [s[ImageRow(j)] EXCEPT !.position = number(j) - 1] ELSE s[ImageRow(j)]
    BY RowsExist
  <2>3. j \in all => place[j] = number(j) - 1
    OBVIOUS
  <2>. HIDE DEF after, place, number
  <2>. QED
    BY <2>1, <2>2, <2>3
<1>. HIDE DEF after, place
<1>8. /\ \A w \in Workspace : after[WorkspaceRow(w)] = s[WorkspaceRow(w)]
      /\ \A y \in Product : after[ProductRow(y)] = s[ProductRow(y)]
  BY <1>5, RowsExist, RowsDiffer
<1>9. Sound(s, locked, after) /\ Attaching(s, after, r) /\ LetsGo(s, after, ImagesOf(s, x) \ all)
  <2>1. all \in SUBSET ImagesOf(s, x)
    BY DEF all
  <2>2. \A j \in File : after[ImageRow(j)] =
          IF j \in all THEN [s[ImageRow(j)] EXCEPT !.position = place[j]]
          ELSE IF j \in ImagesOf(s, x) THEN Absent ELSE s[ImageRow(j)]
    BY <1>7 DEF all
  <2>. QED
    BY <1>4, <1>6, <1>8, <2>1, <2>2, RearrangedIsSound
<1>10. ImagesOf(s, x) \ all = {}
  BY DEF all
<1>. QED
  BY <1>9, <1>10 DEF after

-----------------------------------------------------------------------------
(*                            The use cases                                *)

LEMMA RequestsGoOn ==
  ASSUME NEW r \in Requests
  PROVE  r \in Request /\ r \in Unfinished /\ ~Carries(r)
<1>1. r \in Request /\ r.call \notin {"consuming", "attaching"}
  BY RequestsAssumption, RequestKinds
<1>. QED
  BY <1>1 DEF Unfinished, Carries, At

LEMMA NothingNext == NoRequest \in Unfinished \cup {NoRequest} /\ ~Carries(NoRequest)
BY DEF Carries, At

LEMMA QuotaLockRows ==
  ASSUME NEW v, NEW w \in Workspace
  PROVE  QuotaLock(v, w) \subseteq Row /\ (Live(v, w) => WorkspaceRow(w) \in QuotaLock(v, w))
BY RowsExist DEF QuotaLock

LEMMA FoundProduct ==
  ASSUME NEW v, DatabaseOK(v), NEW x, NEW w, x \in ProductsOf(v, w)
  PROVE  /\ x \in Product /\ Exists(v, ProductRow(x))
         /\ v[ProductRow(x)] \in ProductRecord /\ v[ProductRow(x)].workspace = w
<1>1. x \in Product /\ Exists(v, ProductRow(x)) /\ v[ProductRow(x)].workspace = w
  BY DEF ProductsOf
<1>. QED
  BY <1>1, RowContents

LEMMA CreateProductKeepsIInv ==
  ASSUME IInv, NEW p \in Session, NEW r \in Requests, CreateProduct(p, r)
  PROVE  IInv'
<1>1. /\ tx[p].open /\ r.call = "create" /\ RoomForProduct(View(p), r.workspace)
      /\ UNCHANGED Bucket
  BY DEF CreateProduct, Handles, Serves
<1>2. r.workspace \in Workspace /\ r.value \in Value /\ r \in Unfinished /\ ~Carries(r)
  BY <1>1, RequestsGoOn, RequestKinds
<1>3. PICK x \in Product :
        /\ db[ProductRow(x)] = Absent
        /\ Attempt(p, r, QuotaLock(View(p), r.workspace),
                   [View(p) EXCEPT ![ProductRow(x)] = NewProduct(r)])
  BY DEF CreateProduct
<1>. DEFINE s == View(p)
            after == [s EXCEPT ![ProductRow(x)] = NewProduct(r)]
            locked == QuotaLock(s, r.workspace)
<1>4. s = tx[p].snapshot /\ DatabaseOK(s) /\ \A y \in Product : ImagesOK(s, y)
  BY <1>1, OpenView
<1>5. s[ProductRow(x)] = Absent
  BY <1>1, <1>3, OpenView DEF Relies
<1>6. NewProduct(r) \in ProductRecord /\ NewProduct(r).workspace = r.workspace
  BY <1>2, LimitsAssumption DEF NewProduct, ProductRecord
<1>7. locked \subseteq Row /\ (Live(s, r.workspace) => WorkspaceRow(r.workspace) \in locked)
  BY <1>2, QuotaLockRows
<1>. HIDE DEF s, locked
<1>8. Sound(s, locked, after) /\ Attaching(s, after, tx[p].request)
  BY <1>1, <1>4, <1>5, <1>6, <1>7, OneProductIsSound DEF s
<1>9. AttemptThen(p, r, locked, after, NoRequest)
  BY <1>3 DEF Attempt, s, locked
<1>. HIDE DEF after
<1>. QED
  BY <1>1, <1>2, <1>4, <1>7, <1>8, <1>9, NothingNext, AttemptKeepsIInv

LEMMA UpdatedRecord ==
  ASSUME NEW old \in ProductRecord, old.updated_at < MAX_VERSION, NEW value \in Value
  PROVE  /\ Updated(old, value) \in ProductRecord
         /\ Updated(old, value).workspace = old.workspace
<1>1. CASE old.value = value
  BY <1>1 DEF Updated
<1>2. CASE old.value # value
  <2>. DEFINE n == old.updated_at + 1
  <2>1. n \in 0 .. MAX_VERSION
    BY LimitsAssumption DEF ProductRecord
  <2>2. Updated(old, value) = [old EXCEPT !.value = value, !.updated_at = n]
    BY <1>2 DEF Updated
  <2>. HIDE DEF n
  <2>. QED
    BY <2>1, <2>2 DEF ProductRecord
<1>. QED
  BY <1>1, <1>2

LEMMA UpdateProductKeepsIInv ==
  ASSUME IInv, NEW p \in Session, NEW r \in Requests, UpdateProduct(p, r)
  PROVE  IInv'
<1>. DEFINE s == View(p)
            x == r.product
            content == Updated(s[ProductRow(x)], r.value)
            after == [s EXCEPT ![ProductRow(x)] = content]
            locked == ProductLock(r)
<1>1. /\ tx[p].open /\ r.call = "update" /\ x \in ProductsOf(s, r.workspace)
      /\ s[ProductRow(x)].updated_at < MAX_VERSION /\ UNCHANGED Bucket
  BY DEF UpdateProduct, Handles, Serves, GetsProduct
<1>2. r.value \in Value /\ r \in Unfinished /\ ~Carries(r)
  BY <1>1, RequestsGoOn, RequestKinds
<1>3. s = tx[p].snapshot /\ DatabaseOK(s) /\ \A y \in Product : ImagesOK(s, y)
  BY <1>1, OpenView
<1>4. x \in Product /\ s[ProductRow(x)] \in ProductRecord
  BY <1>1, <1>3, FoundProduct
<1>5. content \in ProductRecord /\ content.workspace = s[ProductRow(x)].workspace
  BY <1>1, <1>2, <1>4, UpdatedRecord
<1>6. AttemptThen(p, r, locked, after, NoRequest) /\ locked \subseteq Row
  BY <1>4, RowsExist DEF UpdateProduct, Attempt, ProductLock
<1>. HIDE DEF s, x, content, locked
<1>7. Sound(s, locked, after) /\ Attaching(s, after, tx[p].request)
  BY <1>3, <1>4, <1>5, OneProductIsSound
<1>. HIDE DEF after
<1>. QED
  BY <1>1, <1>2, <1>3, <1>6, <1>7, NothingNext, AttemptKeepsIInv

LEMMA DeleteProductKeepsIInv ==
  ASSUME IInv, NEW p \in Session, NEW r \in Requests, DeleteProduct(p, r)
  PROVE  IInv'
<1>. DEFINE s == View(p)
            x == r.product
            after == WithoutProducts(s, {x})
            next == Cleaning(ImagesOf(s, x), NoRequest)
            locked == ProductLock(r)
<1>1. /\ tx[p].open /\ x \in ProductsOf(s, r.workspace) /\ UNCHANGED Bucket
      /\ AttemptThen(p, r, locked, after, next)
  BY DEF DeleteProduct, Handles, Serves, GetsProduct
<1>2. s = tx[p].snapshot /\ DatabaseOK(s) /\ \A y \in Product : ImagesOK(s, y)
  BY <1>1, OpenView
<1>3. x \in Product /\ Exists(s, ProductRow(x)) /\ locked \subseteq Row
  BY <1>1, <1>2, FoundProduct, RowsExist DEF ProductLock
<1>4. next \in Unfinished \cup {NoRequest} /\ ~Carries(next)
  <2>1. ImagesOf(s, x) \in SUBSET File
    BY DEF ImagesOf
  <2>. QED
    BY <2>1, CleaningIsUnfinished
<1>. HIDE DEF s, x, locked, next
<1>5. Sound(s, locked, after) /\ Attaching(s, after, tx[p].request)
  BY <1>2, <1>3, WithoutProductsIsSound
<1>. HIDE DEF after
<1>. QED
  BY <1>1, <1>2, <1>3, <1>4, <1>5, RequestsGoOn, AttemptKeepsIInv

LEMMA RemoveImageKeepsIInv ==
  ASSUME IInv, NEW p \in Session, NEW r \in Requests, RemoveImage(p, r)
  PROVE  IInv'
<1>. DEFINE s == View(p)
            x == r.product
            i == r.image
            after == Closed(s, x, i)
            next == Cleaning({i}, NoRequest)
            locked == ProductLock(r)
<1>1. /\ tx[p].open /\ x \in ProductsOf(s, r.workspace) /\ i \in ImagesOf(s, x)
      /\ AttemptThen(p, r, locked, after, next) /\ UNCHANGED Bucket
  BY DEF RemoveImage, Handles, Serves, GetsProduct
<1>2. s = tx[p].snapshot /\ DatabaseOK(s) /\ \A y \in Product : ImagesOK(s, y)
  BY <1>1, OpenView
<1>3. x \in Product /\ locked \subseteq Row /\ ProductRow(x) \in locked
  BY <1>1, <1>2, FoundProduct, RowsExist DEF ProductLock
<1>4. next \in Unfinished \cup {NoRequest} /\ ~Carries(next)
  <2>1. {i} \in SUBSET File
    BY <1>1 DEF ImagesOf
  <2>. QED
    BY <2>1, CleaningIsUnfinished
<1>. HIDE DEF s, x, i, locked, next
<1>5. Sound(s, locked, after) /\ Attaching(s, after, tx[p].request)
  BY <1>1, <1>2, <1>3, ClosedIsSound
<1>. HIDE DEF after
<1>. QED
  BY <1>1, <1>2, <1>3, <1>4, <1>5, RequestsGoOn, AttemptKeepsIInv

LEMMA ReorderImagesKeepsIInv ==
  ASSUME IInv, NEW p \in Session, NEW r \in Requests, ReorderImages(p, r)
  PROVE  IInv'
<1>. DEFINE s == View(p)
            x == r.product
            order == r.order
            after == [row \in Row |->
                        IF \E n \in DOMAIN order : row = ImageRow(order[n])
                          THEN [s[row] EXCEPT !.position =
                                  (CHOOSE n \in DOMAIN order : row = ImageRow(order[n])) - 1]
                          ELSE s[row]]
            locked == ProductLock(r)
<1>1. /\ tx[p].open /\ r.call = "reorder" /\ x \in ProductsOf(s, r.workspace)
      /\ ListsEachOnce(order, ImagesOf(s, x)) /\ UNCHANGED Bucket
      /\ AttemptThen(p, r, locked, after, NoRequest)
  BY DEF ReorderImages, Handles, Serves, GetsProduct, Attempt
<1>2. s = tx[p].snapshot /\ DatabaseOK(s) /\ \A y \in Product : ImagesOK(s, y)
  BY <1>1, OpenView
<1>3. x \in Product /\ locked \subseteq Row /\ ProductRow(x) \in locked
  BY <1>1, <1>2, FoundProduct, RowsExist DEF ProductLock
<1>4. order \in Orders
  BY <1>1, RequestsGoOn, RequestKinds
<1>. HIDE DEF s, x, order, locked
<1>5. Sound(s, locked, after) /\ Attaching(s, after, tx[p].request)
  BY <1>1, <1>2, <1>3, <1>4, ReorderedIsSound
<1>. HIDE DEF after
<1>. QED
  BY <1>1, <1>2, <1>3, <1>5, NothingNext, RequestsGoOn, AttemptKeepsIInv

LEMMA PurgeBatchKeepsIInv ==
  ASSUME IInv, NEW p \in Session, NEW r \in Requests, PurgeBatch(p, r)
  PROVE  IInv'
<1>. DEFINE s == View(p)
            w == r.workspace
<1>1. tx[p].open /\ r.call = "purge" /\ UNCHANGED Bucket
  BY DEF PurgeBatch, Serves
<1>2. PICK batch \in SUBSET ProductsOf(s, w) :
        AttemptThen(p, r, {}, WithoutProducts(s, batch),
                    Cleaning(UNION {ImagesOf(s, x) : x \in batch}, AfterBatch(r, batch)))
  BY DEF PurgeBatch
<1>. DEFINE after == WithoutProducts(s, batch)
            next == Cleaning(UNION {ImagesOf(s, x) : x \in batch}, AfterBatch(r, batch))
<1>3. s = tx[p].snapshot /\ DatabaseOK(s) /\ \A y \in Product : ImagesOK(s, y)
  BY <1>1, OpenView
<1>4. batch \in SUBSET Product /\ \A x \in batch : Exists(s, ProductRow(x))
  BY DEF ProductsOf
<1>5. next \in Unfinished \cup {NoRequest} /\ ~Carries(next)
  <2>1. UNION {ImagesOf(s, x) : x \in batch} \in SUBSET File
    BY DEF ImagesOf
  <2>2. w \in Workspace
    BY RequestsGoOn, RequestKinds
  <2>3. AfterBatch(r, batch) \in Purges \cup {NoRequest}
    BY <1>1, <2>2 DEF AfterBatch, Purges
  <2>. QED
    BY <2>1, <2>3, CleaningIsUnfinished
<1>6. AttemptThen(p, r, {}, after, next)
  BY <1>2
<1>. HIDE DEF s, next
<1>7. Sound(s, {}, after) /\ Attaching(s, after, tx[p].request)
  BY <1>3, <1>4, WithoutProductsIsSound
<1>. HIDE DEF after
<1>. QED
  BY <1>1, <1>3, <1>5, <1>6, <1>7, RequestsGoOn, AttemptKeepsIInv

LEMMA LogoType ==
  ASSUME NEW v, DatabaseOK(v), NEW w \in Workspace, Exists(v, WorkspaceRow(w))
  PROVE  /\ v[WorkspaceRow(w)] \in WorkspaceRecord
         /\ Logo(v, w) \in File \cup {NoFile} /\ Keys(Logo(v, w)) \in SUBSET File
         /\ Cleaning(Keys(Logo(v, w)), NoRequest) \in Unfinished \cup {NoRequest}
         /\ ~Carries(Cleaning(Keys(Logo(v, w)), NoRequest))
<1>1. v[WorkspaceRow(w)] \in WorkspaceRecord
  BY RowContents
<1>2. Logo(v, w) \in File \cup {NoFile} /\ Keys(Logo(v, w)) \in SUBSET File
  BY <1>1 DEF Logo, Keys, WorkspaceRecord
<1>. QED
  BY <1>1, <1>2, CleaningIsUnfinished

LEMMA RemoveLogoKeepsIInv ==
  ASSUME IInv, NEW p \in Session, NEW r \in Requests, RemoveLogo(p, r)
  PROVE  IInv'
<1>. DEFINE s == View(p)
            w == r.workspace
            content == [s[WorkspaceRow(w)] EXCEPT !.logo = NoFile]
            after == [s EXCEPT ![WorkspaceRow(w)] = content]
            next == Cleaning(Keys(Logo(s, w)), NoRequest)
            locked == {WorkspaceRow(w)}
<1>1. /\ tx[p].open /\ Live(s, w) /\ UNCHANGED Bucket
      /\ AttemptThen(p, r, locked, WithLogo(s, w, NoFile), next)
  BY DEF RemoveLogo, Handles, Serves
<1>2. s = tx[p].snapshot /\ DatabaseOK(s) /\ \A y \in Product : ImagesOK(s, y)
  BY <1>1, OpenView
<1>3. w \in Workspace /\ locked \subseteq Row /\ Exists(s, WorkspaceRow(w))
  BY <1>1, RequestsGoOn, RequestKinds, RowsExist DEF Live
<1>4. /\ s[WorkspaceRow(w)] \in WorkspaceRecord
      /\ next \in Unfinished \cup {NoRequest} /\ ~Carries(next)
  BY <1>2, <1>3, LogoType
<1>5. /\ content \in WorkspaceRecord /\ content.deleted = s[WorkspaceRow(w)].deleted
      /\ content.logo = NoFile
  BY <1>4 DEF WorkspaceRecord
<1>6. AttemptThen(p, r, locked, after, next)
  <2>1. WithLogo(s, w, NoFile) = after
    BY DEF WithLogo
  <2>. QED
    BY <1>1, <2>1
<1>. HIDE DEF s, w, content, locked, next
<1>7. Sound(s, locked, after) /\ Attaching(s, after, tx[p].request)
  BY <1>2, <1>3, <1>5, OneWorkspaceIsSound
<1>. HIDE DEF after
<1>. QED
  BY <1>1, <1>2, <1>3, <1>4, <1>6, <1>7, RequestsGoOn, AttemptKeepsIInv

LEMMA DeleteWorkspaceKeepsIInv ==
  ASSUME IInv, NEW p \in Session, NEW r \in Requests, DeleteWorkspace(p, r)
  PROVE  IInv'
<1>. DEFINE s == View(p)
            w == r.workspace
            content == [s[WorkspaceRow(w)] EXCEPT !.deleted = TRUE]
            after == [s EXCEPT ![WorkspaceRow(w)] = content]
            locked == {WorkspaceRow(w)}
<1>1. /\ tx[p].open /\ Live(s, w) /\ UNCHANGED Bucket
      /\ AttemptThen(p, r, locked, [s EXCEPT ![WorkspaceRow(w)].deleted = TRUE], NoRequest)
  BY DEF DeleteWorkspace, Handles, Serves, Attempt
<1>2. s = tx[p].snapshot /\ DatabaseOK(s) /\ \A y \in Product : ImagesOK(s, y)
  BY <1>1, OpenView
<1>3. w \in Workspace /\ locked \subseteq Row /\ Exists(s, WorkspaceRow(w))
  BY <1>1, RequestsGoOn, RequestKinds, RowsExist DEF Live
<1>4. s[WorkspaceRow(w)] \in WorkspaceRecord
  BY <1>2, <1>3, LogoType
<1>5. /\ content \in WorkspaceRecord /\ content.deleted = TRUE /\ content.logo = Logo(s, w)
  BY <1>4 DEF WorkspaceRecord, Logo
<1>6. AttemptThen(p, r, locked, after, NoRequest)
  BY <1>1
<1>. HIDE DEF s, w, content, locked
<1>7. Sound(s, locked, after) /\ Attaching(s, after, tx[p].request)
  BY <1>2, <1>3, <1>5, OneWorkspaceIsSound
<1>. HIDE DEF after
<1>. QED
  BY <1>1, <1>2, <1>3, <1>6, <1>7, NothingNext, RequestsGoOn, AttemptKeepsIInv

LEMMA UntouchedIsSound ==
  ASSUME NEW s, DatabaseOK(s), \A y \in Product : ImagesOK(s, y), NEW locked, NEW r
  PROVE  Sound(s, locked, s) /\ Attaching(s, s, r)
BY DEF Sound, Attaching, SameImages, NoProductsAdded, NoImagesAdded

LEMMA PurgeRowsKeepsIInv ==
  ASSUME IInv, NEW p \in Session, NEW w \in Workspace, PurgeRows(p, w)
  PROVE  IInv'
<1>. DEFINE s == View(p)
            after == [s EXCEPT ![WorkspaceRow(w)] = Gone]
            next == Cleaning(Keys(Logo(s, w)), NoRequest)
            r == PurgingRows(w)
<1>1. tx[p].open /\ UNCHANGED Bucket
  BY DEF PurgeRows
<1>2. s = tx[p].snapshot /\ DatabaseOK(s) /\ \A y \in Product : ImagesOK(s, y)
  BY <1>1, OpenView
<1>3. r \in Unfinished /\ ~Carries(r)
  <2>1. r \in Purges
    BY DEF Purges
  <2>. HIDE DEF r
  <2>. QED
    BY <2>1, PurgeKinds DEF Carries, At
<1>4. CASE Deleted(s, w)
  <2>1. AttemptThen(p, r, {}, after, next)
    BY <1>4 DEF PurgeRows
  <2>2. Exists(s, WorkspaceRow(w)) /\ Gone \notin WorkspaceRecord
    BY <1>4, NotRows DEF Deleted
  <2>3. next \in Unfinished \cup {NoRequest} /\ ~Carries(next)
    BY <1>2, <2>2, LogoType
  <2>. HIDE DEF s, r, next
  <2>4. Sound(s, {}, after) /\ Attaching(s, after, tx[p].request)
    BY <1>2, <2>2, OneWorkspaceIsSound
  <2>. HIDE DEF after
  <2>. QED
    BY <1>1, <1>2, <1>3, <2>1, <2>3, <2>4, AttemptKeepsIInv
<1>5. CASE ~Deleted(s, w)
  <2>1. AttemptThen(p, r, {}, s, NoRequest)
    BY <1>5 DEF PurgeRows, Attempt
  <2>. HIDE DEF s, r
  <2>2. Sound(s, {}, s) /\ Attaching(s, s, tx[p].request)
    BY <1>2, UntouchedIsSound
  <2>. QED
    BY <1>1, <1>2, <1>3, <2>1, <2>2, NothingNext, AttemptKeepsIInv
<1>. QED
  BY <1>4, <1>5

LEMMA InHandIsNew ==
  ASSUME IInv, NEW p \in Session, InStage(p, {"attaching"}), tx[p].open
  PROVE  /\ Carries(tx[p].request) /\ InHand(p) \in File /\ Purpose(p) \in Stores
         /\ tx[p].request.file = InHand(p)
         /\ ~Exists(View(p), ImageRow(InHand(p)))
<1>1. Carries(tx[p].request) /\ TransactionOK(tx[p]) /\ NewFiles(db, tx, files)
  BY IInvNow DEF SessionOK, InStage, Carries, At
<1>2. InHand(p) \in File /\ tx[p].request.file = InHand(p)
  BY <1>1, FileInHand DEF InHand
<1>3. Purpose(p) \in Stores
  BY <1>1, FileInHand DEF InStage, At, Purpose
<1>4. InHand(p) \notin FilesOf(View(p), ImageRow(InHand(p)))
  BY <1>1, <1>2, RowsExist DEF NewFiles, InNone, View
<1>. QED
  BY <1>1, <1>2, <1>3, <1>4 DEF FilesOf

LEMMA AttachImageKeepsIInv ==
  ASSUME IInv, NEW p \in Session, AttachImage(p)
  PROVE  IInv'
<1>. DEFINE s == View(p)
            r == Purpose(p)
            f == InHand(p)
            after == [s EXCEPT ![ImageRow(f)] = AddedImage(s, r)]
            locked == QuotaLock(s, r.workspace) \cup ProductLock(r)
<1>1. /\ tx[p].open /\ InStage(p, {"attaching"}) /\ r.call = "confirm"
      /\ r.product \in ProductsOf(s, r.workspace) /\ RoomForImage(s, r.product)
      /\ RoomForBytes(s, r.workspace, StoredBytes[r.upload])
      /\ UniqueUpload(s, r.product, r.upload)
      /\ Attach(p, locked, after, NoRequest) /\ UNCHANGED Bucket
  BY DEF AttachImage, Attaches, GetsProduct
<1>2. s = tx[p].snapshot /\ DatabaseOK(s) /\ \A y \in Product : ImagesOK(s, y)
  BY <1>1, OpenView
<1>3. /\ Carries(tx[p].request) /\ f \in File /\ r \in Stores /\ tx[p].request.file = f
      /\ ~Exists(s, ImageRow(f))
  BY <1>1, InHandIsNew
<1>4. r.workspace \in Workspace /\ r.product \in Product /\ r.upload \in Upload
  BY <1>1, <1>3, StoreKinds
<1>5. /\ locked \subseteq Row /\ ProductRow(r.product) \in locked
      /\ Live(s, r.workspace) => WorkspaceRow(r.workspace) \in locked
  BY <1>4, QuotaLockRows, RowsExist DEF ProductLock
<1>. HIDE DEF s, r, f, locked
<1>6. Sound(s, locked, after) /\ Attaching(s, after, tx[p].request)
  BY <1>1, <1>2, <1>3, <1>4, <1>5, AddedImageIsSound
<1>. HIDE DEF after
<1>. QED
  BY <1>1, <1>2, <1>5, <1>6, NothingNext, AttachKeepsIInv

LEMMA AttachLogoKeepsIInv ==
  ASSUME IInv, NEW p \in Session, AttachLogo(p)
  PROVE  IInv'
<1>. DEFINE s == View(p)
            w == Purpose(p).workspace
            f == InHand(p)
            content == [s[WorkspaceRow(w)] EXCEPT !.logo = f]
            after == [s EXCEPT ![WorkspaceRow(w)] = content]
            next == Cleaning(Keys(Logo(s, w)), NoRequest)
            locked == {WorkspaceRow(w)}
<1>1. /\ tx[p].open /\ InStage(p, {"attaching"}) /\ Live(s, w) /\ UNCHANGED Bucket
      /\ Attach(p, locked, WithLogo(s, w, f), next)
  BY DEF AttachLogo, Attaches
<1>2. s = tx[p].snapshot /\ DatabaseOK(s) /\ \A y \in Product : ImagesOK(s, y)
  BY <1>1, OpenView
<1>3. /\ Carries(tx[p].request) /\ f \in File /\ Purpose(p) \in Stores
      /\ tx[p].request.file = f
  BY <1>1, InHandIsNew
<1>4. w \in Workspace /\ locked \subseteq Row /\ Exists(s, WorkspaceRow(w))
  BY <1>1, <1>3, StoreKinds, RowsExist DEF Live
<1>5. /\ s[WorkspaceRow(w)] \in WorkspaceRecord
      /\ next \in Unfinished \cup {NoRequest} /\ ~Carries(next)
  BY <1>2, <1>4, LogoType
<1>6. /\ content \in WorkspaceRecord /\ content.deleted = s[WorkspaceRow(w)].deleted
      /\ content.logo = f
  BY <1>3, <1>5 DEF WorkspaceRecord
<1>7. Attach(p, locked, after, next)
  <2>1. WithLogo(s, w, f) = after
    BY DEF WithLogo
  <2>. QED
    BY <1>1, <2>1
<1>. HIDE DEF s, w, f, content, locked, next
<1>8. Sound(s, locked, after) /\ Attaching(s, after, tx[p].request)
  BY <1>2, <1>3, <1>4, <1>6, OneWorkspaceIsSound
<1>. HIDE DEF after
<1>. QED
  BY <1>1, <1>2, <1>4, <1>5, <1>7, <1>8, AttachKeepsIInv

(* A request refused, or answered, without a change of the database.       *)
LEMMA AnsweredKeepsIInv ==
  ASSUME IInv, NEW p \in Session, tx' = [tx EXCEPT ![p] = Idle], UNCHANGED <<db, files>>,
         \/ Presign
         \/ \E u \in Upload \cup {NoUpload} : RefuseUpload(p, u)
  PROVE  IInv'
<1>1. MediaTypeOK
  BY IInvNow
<1>2. MediaTypeOK'
  BY <1>1 DEF MediaTypeOK, Presign, RefuseUpload
<1>. QED
  BY <1>2, IdleKeepsIInv

LEMMA StartStoringKeepsIInv ==
  ASSUME IInv, NEW p \in Session, NEW r \in Stores, StartStoring(p, r)
  PROVE  IInv'
<1>1. MediaTypeOK
  BY IInvNow
<1>2. MediaTypeOK' /\ UNCHANGED <<db, files>>
  BY <1>1 DEF MediaTypeOK, StartStoring
<1>. DEFINE next == Storing("storing", r, NoFile)
<1>3. next \in Unfinished /\ ~At(next, {"cleaning"}) /\ ~Carries(next)
  BY StoringIsUnfinished DEF Storing, At, Carries
<1>4. tx' = [tx EXCEPT ![p].request = next]
  BY DEF StartStoring
<1>. HIDE DEF next
<1>. QED
  BY <1>2, <1>3, <1>4, GoOnKeepsIInv

LEMMA UploadsKeepIInv ==
  ASSUME IInv, NEW p \in Session, NEW r \in Requests,
         \/ RequestUpload(p, r) \/ ReadUpload(p, r) \/ UploadNotFound(p, r)
         \/ RequestLogoUpload(p, r) \/ ReadLogo(p, r)
  PROVE  IInv'
<1>1. CASE RequestUpload(p, r) \/ RequestLogoUpload(p, r)
  BY <1>1, AnsweredKeepsIInv DEF RequestUpload, RequestLogoUpload, Presign
<1>2. CASE ReadUpload(p, r)
  <2>1. StartStoring(p, r) /\ r \in Stores
    BY <1>2 DEF ReadUpload, NotConfirmed, Handles, Stores
  <2>. QED
    BY <2>1, StartStoringKeepsIInv
<1>3. CASE UploadNotFound(p, r)
  <2>1. r.call = "confirm" /\ RefuseUpload(p, r.upload)
    BY <1>3 DEF UploadNotFound, NotConfirmed, Handles
  <2>2. r.upload \in Upload
    BY <2>1, RequestsGoOn, RequestKinds
  <2>. QED
    BY <2>1, <2>2, AnsweredKeepsIInv DEF RefuseUpload
<1>4. CASE ReadLogo(p, r)
  <2>1. /\ r.call = "set_logo" /\ r.upload # NoUpload
        /\ StartStoring(p, r) \/ RefuseUpload(p, r.upload)
    BY <1>4 DEF ReadLogo, Handles
  <2>2. r \in Stores /\ r.upload \in Upload \cup {NoUpload}
    BY <2>1, RequestsGoOn, RequestKinds DEF Stores
  <2>3. CASE StartStoring(p, r)
    BY <2>2, <2>3, StartStoringKeepsIInv
  <2>4. CASE RefuseUpload(p, r.upload)
    BY <2>2, <2>4, AnsweredKeepsIInv DEF RefuseUpload
  <2>. QED
    BY <2>1, <2>3, <2>4
<1>. QED
  BY <1>1, <1>2, <1>3, <1>4

-----------------------------------------------------------------------------
(*                    Files stay where they are found                      *)

LEMMA AttemptKeepsFiles ==
  ASSUME IInv, NEW p \in Session, tx[p].open, NEW r, NEW locked, NEW after, NEW next,
         \A f \in File : ~Holds(tx[p].request, f) /\ ~Holds(r, f),
         NEW fs, LetsGo(tx[p].snapshot, after, fs), \A f \in File : Holds(next, f) <=> f \in fs,
         AttemptThen(p, r, locked, after, next), UNCHANGED Bucket
  PROVE  FilesStay
<1>. DEFINE s == tx[p].snapshot
<1>1. UNCHANGED files
  BY DEF Bucket
<1>2. /\ \A f \in File : f \in ToPlace(s, after, tx[p].request) <=> Holds(next, f)
      /\ \A row \in Row : FilesOf(after, row) \subseteq FilesOf(s, row)
  BY DEF ToPlace, LetsGo
<1>3. CASE Commit(p, locked, after, next)
  <2>1. ASSUME OnePlace(db, tx, files)
        PROVE  OnePlace(db', tx', files')
    BY <1>1, <1>2, <1>3, <2>1, CommitKeepsPlaces
  <2>2. ASSUME Accounted(db, tx, files)
        PROVE  Accounted(db', tx', files')
    <3>1. \A f \in ToPlace(s, after, tx[p].request) : Holds(next, f)
      BY <1>2 DEF ToPlace
    <3>. QED
      BY <1>1, <1>3, <2>2, <3>1, CommitKeepsAccount
  <2>. QED
    BY <2>1, <2>2 DEF FilesStay
<1>4. CASE LoseRace(p, r, locked, after)
  BY <1>1, <1>4, HoldsNothing, LoseRaceKeepsFiles DEF LoseRace
<1>. QED
  BY <1>3, <1>4 DEF AttemptThen

(* What row shows afterwards is the file that was in hand.  A commit that  *)
(* reports an error deletes that file, and forgets those it let go of.     *)
LEMMA AttachKeepsFiles ==
  ASSUME IInv, NEW p \in Session, tx[p].open, InStage(p, {"attaching"}),
         NEW locked, NEW after, NEW next, NEW shower \in Row,
         FilesOf(after, shower) = {InHand(p)},
         \A row \in Row \ {shower} : FilesOf(after, row) = FilesOf(tx[p].snapshot, row),
         \A f \in File : Holds(next, f) <=> f \in LetGo(tx[p].snapshot, after),
         NothingIsLost => AnswersAreTrue \/ LetGo(tx[p].snapshot, after) = {},
         Attach(p, locked, after, next), UNCHANGED Bucket
  PROVE  FilesStay
<1>. DEFINE s == tx[p].snapshot
<1>1. /\ UNCHANGED files /\ InHand(p) \in File
      /\ \A f : Holds(tx[p].request, f) <=> f = InHand(p)
  BY InHandIsNew DEF Bucket, Holds, InStage, At, Carries
<1>2. \A f \in File : Holds(Discarding(p), f) <=> Holds(tx[p].request, f)
  BY <1>1, CleaningHolds DEF Discarding
<1>3. \A row \in Row : InHand(p) \notin FilesOf(s, row)
  BY <1>1, OpenHolds
<1>4. /\ \A row \in Row : \A f \in FilesOf(after, row) :
           f \in FilesOf(s, row) \/ Holds(tx[p].request, f)
      /\ \A f \in File : Holds(tx[p].request, f) => \A row, other \in Row :
           f \in FilesOf(after, row) /\ f \in FilesOf(after, other) => row = other
  BY <1>1, <1>3
<1>5. ToPlace(s, after, tx[p].request) = LetGo(s, after)
  BY <1>1 DEF ToPlace, LetGo
<1>6. CASE Commit(p, locked, after, next)
  <2>1. ASSUME OnePlace(db, tx, files)
        PROVE  OnePlace(db', tx', files')
    BY <1>1, <1>4, <1>5, <1>6, <2>1, CommitKeepsPlaces
  <2>2. ASSUME Accounted(db, tx, files)
        PROVE  Accounted(db', tx', files')
    <3>1. \A f \in ToPlace(s, after, tx[p].request) : Holds(next, f)
      BY <1>5 DEF LetGo
    <3>. QED
      BY <1>1, <1>6, <2>2, <3>1, CommitKeepsAccount
  <2>. QED
    BY <2>1, <2>2 DEF FilesStay
<1>7. CASE "unanswered" \in Faults /\ Commit(p, locked, after, Discarding(p))
  <2>1. ASSUME NothingIsLost, Accounted(db, tx, files)
        PROVE  Accounted(db', tx', files')
    <3>1. ToPlace(s, after, tx[p].request) = {}
      BY <1>5, <1>7, <2>1 DEF AnswersAreTrue
    <3>. QED
      BY <1>1, <1>7, <2>1, <3>1, CommitKeepsAccount
  <2>. QED
    BY <1>7, <2>1 DEF FilesStay, AnswersAreTrue
<1>8. CASE LoseRaceElse(p, tx[p].request, locked, after, Discarding(p))
  BY <1>1, <1>2, <1>8, LoseRaceKeepsFiles
<1>. QED
  BY <1>6, <1>7, <1>8 DEF Attach

LEMMA ServedHoldsNothing ==
  ASSUME NEW p \in Session, NEW r \in Requests, Serves(p, r)
  PROVE  \A f : ~Holds(tx[p].request, f) /\ ~Holds(r, f)
BY HoldsNothing DEF Serves

(* A use case whose request then deletes the files that rows let go of.    *)
LEMMA ServedKeepsFiles ==
  ASSUME IInv, NEW p \in Session, NEW r \in Requests, Serves(p, r), NEW locked, NEW after,
         NEW fs \in SUBSET File, NEW then \in Purges \cup {NoRequest},
         LetsGo(tx[p].snapshot, after, fs),
         AttemptThen(p, r, locked, after, Cleaning(fs, then)), UNCHANGED Bucket
  PROVE  FilesStay
<1>. DEFINE next == Cleaning(fs, then)
<1>1. tx[p].open /\ \A f \in File : ~Holds(tx[p].request, f) /\ ~Holds(r, f)
  BY ServedHoldsNothing DEF Serves
<1>2. \A f \in File : Holds(next, f) <=> f \in fs
  BY CleaningHolds
<1>. HIDE DEF next
<1>. QED
  BY <1>1, <1>2, AttemptKeepsFiles DEF next

LEMMA NothingToClean == {} \in SUBSET File /\ Cleaning({}, NoRequest) = NoRequest
BY DEF Cleaning

LEMMA ProductsKeepFiles ==
  ASSUME IInv, NEW p \in Session, NEW r \in Requests, CreateProduct(p, r) \/ UpdateProduct(p, r)
  PROVE  FilesStay
<1>. DEFINE s == tx[p].snapshot
<1>1. tx[p].open /\ Serves(p, r) /\ UNCHANGED Bucket /\ DatabaseOK(s)
  BY OpenView DEF CreateProduct, UpdateProduct, Handles, Serves, View
<1>2. PICK x, content, locked :
        x \in Product /\ Attempt(p, r, locked, [s EXCEPT ![ProductRow(x)] = content])
  <2>1. CASE CreateProduct(p, r)
    BY <2>1 DEF CreateProduct, View
  <2>2. CASE UpdateProduct(p, r)
    <3>1. r.product \in Product
      BY <2>2 DEF UpdateProduct, GetsProduct, ProductsOf
    <3>. QED
      BY <2>2, <3>1 DEF UpdateProduct, View
  <2>. QED
    BY <2>1, <2>2
<1>. DEFINE after == [s EXCEPT ![ProductRow(x)] = content]
<1>3. ProductRow(x) \in Row /\ \A other \in Row \ {ProductRow(x)} : after[other] = s[other]
  BY <1>1, <1>2, RowsExist DEF DatabaseOK
<1>4. AttemptThen(p, r, locked, after, Cleaning({}, NoRequest))
  BY <1>2, NothingToClean DEF Attempt
<1>. HIDE DEF after, s
<1>5. FilesOf(after, ProductRow(x)) = {} /\ FilesOf(s, ProductRow(x)) = {}
  BY FilesShown
<1>6. LetsGo(s, after, {})
  BY <1>3, <1>5, OneRowGoes DEF LetsGo
<1>. QED
  BY <1>1, <1>4, <1>6, NothingToClean, ServedKeepsFiles DEF s

(* Products that go take the files of all their images with them.          *)
LEMMA WithoutProductsFiles ==
  ASSUME NEW s, DatabaseOK(s), NEW xs \in SUBSET Product
  PROVE  LET after == WithoutProducts(s, xs)
             fs == UNION {ImagesOf(s, x) : x \in xs}
         IN fs \in SUBSET File /\ LetsGo(s, after, fs)
<1>. DEFINE after == WithoutProducts(s, xs)
            fs == UNION {ImagesOf(s, x) : x \in xs}
            gone == {ProductRow(x) : x \in xs}
            images == {ImageRow(i) : i \in fs}
<1>1. fs \in SUBSET File /\ \A i \in fs : Exists(s, ImageRow(i))
  BY DEF ImagesOf
<1>2. \A row \in Row : after[row] = IF row \in images THEN Absent
                                    ELSE IF row \in gone THEN Gone ELSE s[row]
  BY DEF WithoutProducts, Put, DatabaseOK
<1>3. /\ \A w : WorkspaceRow(w) \notin images /\ WorkspaceRow(w) \notin gone
      /\ \A i : ImageRow(i) \notin gone
      /\ \A i : ImageRow(i) \in images <=> i \in fs
  BY RowsDiffer
<1>. HIDE DEF after, fs, gone, images
<1>4. \A w \in Workspace : after[WorkspaceRow(w)] = s[WorkspaceRow(w)]
  BY <1>2, <1>3, RowsExist
<1>5. \A i \in File : after[ImageRow(i)] = IF i \in fs THEN Absent ELSE s[ImageRow(i)]
  BY <1>2, <1>3, RowsExist
<1>6. \A i \in File : Exists(after, ImageRow(i)) <=> Exists(s, ImageRow(i)) /\ i \notin fs
  BY <1>5 DEF Exists
<1>7. LetsGo(s, after, fs)
  BY <1>1, <1>4, <1>6, ImagesGo
<1>. QED
  BY <1>1, <1>7 DEF after, fs

LEMMA DeleteProductKeepsFiles ==
  ASSUME IInv, NEW p \in Session, NEW r \in Requests, DeleteProduct(p, r)
  PROVE  FilesStay
<1>. DEFINE s == tx[p].snapshot
            x == r.product
            after == WithoutProducts(s, {x})
            fs == UNION {ImagesOf(s, y) : y \in {x}}
<1>1. /\ tx[p].open /\ Serves(p, r) /\ UNCHANGED Bucket /\ DatabaseOK(s) /\ x \in Product
      /\ AttemptThen(p, r, ProductLock(r), after, Cleaning(ImagesOf(s, x), NoRequest))
  BY OpenView DEF DeleteProduct, Handles, Serves, View, GetsProduct, ProductsOf
<1>2. fs \in SUBSET File /\ LetsGo(s, after, fs)
  <2>1. {x} \in SUBSET Product
    BY <1>1
  <2>. HIDE DEF s, x
  <2>. QED
    BY <1>1, <2>1, WithoutProductsFiles
<1>3. fs = ImagesOf(s, x)
  OBVIOUS
<1>. HIDE DEF fs, after, s, x
<1>. QED
  BY <1>1, <1>2, <1>3, ServedKeepsFiles DEF s

LEMMA PurgeBatchKeepsFiles ==
  ASSUME IInv, NEW p \in Session, NEW r \in Requests, PurgeBatch(p, r)
  PROVE  FilesStay
<1>. DEFINE s == tx[p].snapshot
            w == r.workspace
<1>1. tx[p].open /\ r.call = "purge" /\ Serves(p, r) /\ UNCHANGED Bucket /\ DatabaseOK(s)
  BY OpenView DEF PurgeBatch, Serves, View
<1>2. PICK batch \in SUBSET ProductsOf(s, w) :
        AttemptThen(p, r, {}, WithoutProducts(s, batch),
                    Cleaning(UNION {ImagesOf(s, x) : x \in batch}, AfterBatch(r, batch)))
  BY DEF PurgeBatch, View
<1>. DEFINE after == WithoutProducts(s, batch)
            fs == UNION {ImagesOf(s, x) : x \in batch}
            then == AfterBatch(r, batch)
<1>3. batch \in SUBSET Product
  BY DEF ProductsOf
<1>4. fs \in SUBSET File /\ LetsGo(s, after, fs)
  BY <1>1, <1>3, WithoutProductsFiles
<1>5. then \in Purges \cup {NoRequest}
  <2>1. w \in Workspace
    BY RequestsGoOn, RequestKinds
  <2>. QED
    BY <1>1, <2>1 DEF AfterBatch, Purges
<1>6. AttemptThen(p, r, {}, after, Cleaning(fs, then))
  BY <1>2
<1>. HIDE DEF fs, after, s, then
<1>. QED
  BY <1>1, <1>4, <1>5, <1>6, ServedKeepsFiles DEF s

LEMMA RemoveImageKeepsFiles ==
  ASSUME IInv, NEW p \in Session, NEW r \in Requests, RemoveImage(p, r)
  PROVE  FilesStay
<1>. DEFINE s == tx[p].snapshot
            x == r.product
            i == r.image
            after == Closed(s, x, i)
<1>1. /\ tx[p].open /\ Serves(p, r) /\ UNCHANGED Bucket /\ x \in ProductsOf(s, r.workspace)
      /\ i \in ImagesOf(s, x)
      /\ AttemptThen(p, r, ProductLock(r), after, Cleaning({i}, NoRequest))
  BY DEF RemoveImage, Handles, Serves, GetsProduct, View
<1>2. DatabaseOK(s) /\ \A y \in Product : ImagesOK(s, y)
  BY <1>1, OpenView DEF View
<1>3. x \in Product /\ i \in File
  BY <1>1 DEF ProductsOf, ImagesOf
<1>. HIDE DEF s, x, i
<1>4. LetsGo(s, after, {i})
  BY <1>1, <1>2, <1>3, ClosedIsSound
<1>. HIDE DEF after
<1>. QED
  BY <1>1, <1>3, <1>4, ServedKeepsFiles DEF s

LEMMA ReorderImagesKeepsFiles ==
  ASSUME IInv, NEW p \in Session, NEW r \in Requests, ReorderImages(p, r)
  PROVE  FilesStay
<1>. DEFINE s == tx[p].snapshot
            x == r.product
            order == r.order
            after == [row \in Row |->
                        IF \E n \in DOMAIN order : row = ImageRow(order[n])
                          THEN [s[row] EXCEPT !.position =
                                  (CHOOSE n \in DOMAIN order : row = ImageRow(order[n])) - 1]
                          ELSE s[row]]
<1>1. /\ tx[p].open /\ r.call = "reorder" /\ Serves(p, r) /\ UNCHANGED Bucket
      /\ x \in ProductsOf(s, r.workspace) /\ ListsEachOnce(order, ImagesOf(s, x))
      /\ Attempt(p, r, ProductLock(r), after)
  BY DEF ReorderImages, Handles, Serves, GetsProduct, View
<1>2. DatabaseOK(s) /\ \A y \in Product : ImagesOK(s, y)
  BY <1>1, OpenView DEF View
<1>3. x \in Product /\ order \in Orders
  BY <1>1, RequestsGoOn, RequestKinds DEF ProductsOf
<1>. HIDE DEF s, x, order
<1>4. LetsGo(s, after, {})
  BY <1>1, <1>2, <1>3, ReorderedIsSound
<1>. HIDE DEF after
<1>5. AttemptThen(p, r, ProductLock(r), after, Cleaning({}, NoRequest))
  BY <1>1, NothingToClean DEF Attempt
<1>. QED
  BY <1>1, <1>4, <1>5, NothingToClean, ServedKeepsFiles DEF s

(* One workspace changes, and shows another logo, none, or what it did.    *)
LEMMA OneWorkspaceFiles ==
  ASSUME NEW s, DatabaseOK(s), NEW w \in Workspace, NEW content
  PROVE  LET after == [s EXCEPT ![WorkspaceRow(w)] = content]
             row == WorkspaceRow(w)
         IN /\ after[row] = content
            /\ \A other \in Row \ {row} : FilesOf(after, other) = FilesOf(s, other)
            /\ \A f \in File : f \in LetGo(s, after) <=>
                  f \in FilesOf(s, row) /\ f \notin FilesOf(after, row)
<1>. DEFINE row == WorkspaceRow(w)
            after == [s EXCEPT ![row] = content]
<1>1. row \in Row /\ after[row] = content /\ \A other \in Row \ {row} : after[other] = s[other]
  BY RowsExist DEF DatabaseOK
<1>. HIDE DEF after, row
<1>2. /\ \A other \in Row \ {row} : FilesOf(after, other) = FilesOf(s, other)
      /\ \A f \in File : f \in LetGo(s, after) <=>
           f \in FilesOf(s, row) /\ f \notin FilesOf(after, row)
  BY <1>1, OneRowGoes
<1>. QED
  BY <1>1, <1>2 DEF after, row

LEMMA WorkspaceShows ==
  ASSUME NEW v, DatabaseOK(v), NEW w \in Workspace, Exists(v, WorkspaceRow(w))
  PROVE  FilesOf(v, WorkspaceRow(w)) = Keys(Logo(v, w)) /\ Keys(Logo(v, w)) \in SUBSET File
BY FilesShown, LogoType

LEMMA LogosKeepFiles ==
  ASSUME IInv, NEW p \in Session, NEW r \in Requests, RemoveLogo(p, r) \/ DeleteWorkspace(p, r)
  PROVE  FilesStay
<1>. DEFINE s == tx[p].snapshot
            w == r.workspace
            row == WorkspaceRow(w)
<1>1. /\ tx[p].open /\ Serves(p, r) /\ Live(s, w) /\ UNCHANGED Bucket /\ DatabaseOK(s)
  BY OpenView DEF RemoveLogo, DeleteWorkspace, Handles, Serves, View
<1>2. w \in Workspace /\ row \in Row /\ Exists(s, row) /\ s[row] \in WorkspaceRecord
  BY <1>1, RequestsGoOn, RequestKinds, RowsExist, LogoType DEF Live
<1>3. FilesOf(s, row) = Keys(Logo(s, w)) /\ Keys(Logo(s, w)) \in SUBSET File
  BY <1>1, <1>2, WorkspaceShows
<1>4. CASE RemoveLogo(p, r)
  <2>. DEFINE content == [s[row] EXCEPT !.logo = NoFile]
              after == [s EXCEPT ![row] = content]
  <2>1. AttemptThen(p, r, {row}, after, Cleaning(Keys(Logo(s, w)), NoRequest))
    <3>1. WithLogo(s, w, NoFile) = after
      BY DEF WithLogo
    <3>. QED
      BY <1>4, <3>1 DEF RemoveLogo, View
  <2>2. content.logo = NoFile
    BY <1>2 DEF WorkspaceRecord
  <2>. HIDE DEF content
  <2>3. /\ after[row] = content
        /\ \A other \in Row \ {row} : FilesOf(after, other) = FilesOf(s, other)
        /\ \A f \in File : f \in LetGo(s, after) <=> f \in FilesOf(s, row) /\ f \notin FilesOf(after, row)
    BY <1>1, <1>2, OneWorkspaceFiles
  <2>. HIDE DEF after
  <2>4. FilesOf(after, row) = {}
    BY <1>2, <2>2, <2>3, FilesShown DEF Logo, Keys
  <2>. HIDE DEF s, w, row
  <2>5. LetsGo(s, after, Keys(Logo(s, w)))
    BY <1>2, <1>3, <2>3, <2>4 DEF LetsGo
  <2>. QED
    BY <1>1, <1>3, <2>1, <2>5, ServedKeepsFiles DEF s
<1>5. CASE DeleteWorkspace(p, r)
  <2>. DEFINE content == [s[row] EXCEPT !.deleted = TRUE]
              after == [s EXCEPT ![row] = content]
  <2>1. Attempt(p, r, {row}, after)
    BY <1>5 DEF DeleteWorkspace, View
  <2>2. content.logo = Logo(s, w) /\ content \in WorkspaceRecord
    BY <1>2 DEF WorkspaceRecord, Logo
  <2>. HIDE DEF content
  <2>3. /\ after[row] = content
        /\ \A other \in Row \ {row} : FilesOf(after, other) = FilesOf(s, other)
        /\ \A f \in File : f \in LetGo(s, after) <=> f \in FilesOf(s, row) /\ f \notin FilesOf(after, row)
    BY <1>1, <1>2, OneWorkspaceFiles
  <2>. HIDE DEF after
  <2>4. Exists(after, row) /\ Logo(after, w) = Logo(s, w)
    BY <2>2, <2>3, NotRows DEF Exists, Logo
  <2>5. FilesOf(after, row) = FilesOf(s, row)
    BY <1>2, <2>4, FilesShown
  <2>. HIDE DEF s, w, row
  <2>6. LetsGo(s, after, {})
    BY <2>3, <2>5 DEF LetsGo
  <2>7. AttemptThen(p, r, {row}, after, Cleaning({}, NoRequest))
    BY <2>1, NothingToClean DEF Attempt
  <2>. QED
    BY <1>1, <2>6, <2>7, NothingToClean, ServedKeepsFiles DEF s
<1>. QED
  BY <1>4, <1>5

LEMMA PurgeRowsKeepsFiles ==
  ASSUME IInv, NEW p \in Session, NEW w \in Workspace, PurgeRows(p, w)
  PROVE  FilesStay
<1>. DEFINE s == tx[p].snapshot
            row == WorkspaceRow(w)
            r == PurgingRows(w)
            after == [s EXCEPT ![row] = Gone]
            fs == Keys(Logo(s, w))
<1>1. tx[p].open /\ tx[p].request = r /\ UNCHANGED Bucket /\ DatabaseOK(s)
  BY OpenView DEF PurgeRows, View
<1>2. \A f \in File : ~Holds(tx[p].request, f) /\ ~Holds(r, f)
  BY <1>1, HoldsNothing
<1>3. CASE Deleted(s, w)
  <2>1. AttemptThen(p, r, {}, after, Cleaning(fs, NoRequest))
    BY <1>3 DEF PurgeRows, View
  <2>2. FilesOf(s, row) = fs /\ fs \in SUBSET File
    BY <1>1, <1>3, WorkspaceShows DEF Deleted
  <2>3. /\ after[row] = Gone
        /\ \A other \in Row \ {row} : FilesOf(after, other) = FilesOf(s, other)
        /\ \A f \in File : f \in LetGo(s, after) <=> f \in FilesOf(s, row) /\ f \notin FilesOf(after, row)
    BY <1>1, OneWorkspaceFiles
  <2>. HIDE DEF after
  <2>4. FilesOf(after, row) = {}
    BY <2>3, FilesShown DEF Exists
  <2>. HIDE DEF s, fs, row, r
  <2>5. LetsGo(s, after, fs)
    BY <2>2, <2>3, <2>4 DEF LetsGo
  <2>6. \A f \in File : Holds(Cleaning(fs, NoRequest), f) <=> f \in fs
    BY <2>2, CleaningHolds
  <2>. QED
    BY <1>1, <1>2, <2>1, <2>5, <2>6, AttemptKeepsFiles DEF s
<1>4. CASE ~Deleted(s, w)
  <2>1. AttemptThen(p, r, {}, s, NoRequest)
    BY <1>4 DEF PurgeRows, View, Attempt
  <2>2. LetsGo(s, s, {})
    BY DEF LetsGo, LetGo
  <2>3. \A f \in File : Holds(NoRequest, f) <=> f \in {}
    BY HoldsNothing
  <2>. HIDE DEF s, r
  <2>. QED
    BY <1>1, <1>2, <2>1, <2>2, <2>3, AttemptKeepsFiles DEF s
<1>. QED
  BY <1>3, <1>4

LEMMA AttachImageKeepsFiles ==
  ASSUME IInv, NEW p \in Session, AttachImage(p)
  PROVE  FilesStay
<1>. DEFINE s == tx[p].snapshot
            f == InHand(p)
            row == ImageRow(f)
            content == AddedImage(s, Purpose(p))
            after == [s EXCEPT ![row] = content]
            locked == QuotaLock(s, Purpose(p).workspace) \cup ProductLock(Purpose(p))
<1>1. /\ tx[p].open /\ InStage(p, {"attaching"}) /\ UNCHANGED Bucket
      /\ Attach(p, locked, after, NoRequest)
      /\ Purpose(p).call = "confirm" /\ RoomForImage(s, Purpose(p).product)
  BY DEF AttachImage, Attaches, View
<1>2. DatabaseOK(s) /\ f \in File /\ Purpose(p) \in Stores /\ ~Exists(s, row)
  BY <1>1, OpenView, InHandIsNew DEF View
<1>3. row \in Row /\ after[row] = content /\ \A other \in Row \ {row} : after[other] = s[other]
  BY <1>2, RowsExist DEF DatabaseOK
<1>4. content \in ImageRecord
  <2>. DEFINE r == Purpose(p)
              n == Cardinality(ImagesOf(s, r.product))
  <2>1. r.workspace \in Workspace /\ r.product \in Product /\ r.upload \in Upload
    BY <1>1, <1>2, StoreKinds
  <2>2. n \in Nat /\ n < MAX_IMAGES
    BY <1>1, FinitelyMany DEF RoomForImage
  <2>3. n \in 0 .. MAX_IMAGES - 1
    BY <2>2, LimitsAssumption
  <2>4. content = [workspace |-> r.workspace, product |-> r.product, upload |-> r.upload,
                   position |-> n]
    BY DEF AddedImage
  <2>. HIDE DEF r, n, content
  <2>. QED
    BY <2>1, <2>3, <2>4 DEF ImageRecord
<1>. HIDE DEF after, content, locked
<1>5. Exists(after, row)
  BY <1>3, <1>4, NotRows DEF Exists
<1>6. FilesOf(after, row) = {f} /\ FilesOf(s, row) = {}
  BY <1>2, <1>5, FilesShown
<1>. HIDE DEF s, f, row
<1>7. /\ \A other \in Row \ {row} : FilesOf(after, other) = FilesOf(s, other)
      /\ \A g \in File : g \notin LetGo(s, after)
  BY <1>3, <1>6, OneRowGoes
<1>8. LetGo(s, after) = {}
  BY <1>7 DEF LetGo
<1>. QED
  BY <1>1, <1>3, <1>6, <1>7, <1>8, HoldsNothing, AttachKeepsFiles DEF s, f

LEMMA AttachLogoKeepsFiles ==
  ASSUME IInv, NEW p \in Session, AttachLogo(p)
  PROVE  FilesStay
<1>. DEFINE s == tx[p].snapshot
            w == Purpose(p).workspace
            f == InHand(p)
            row == WorkspaceRow(w)
            content == [s[row] EXCEPT !.logo = f]
            after == [s EXCEPT ![row] = content]
            fs == Keys(Logo(s, w))
<1>1. /\ tx[p].open /\ InStage(p, {"attaching"}) /\ UNCHANGED Bucket /\ Live(s, w)
      /\ Attach(p, {row}, WithLogo(s, w, f), Cleaning(fs, NoRequest))
      /\ Purpose(p).call = "set_logo"
  BY DEF AttachLogo, Attaches, View
<1>2. DatabaseOK(s) /\ f \in File /\ Purpose(p) \in Stores /\ InHand(p) = f
  BY <1>1, OpenView, InHandIsNew DEF View
<1>3. w \in Workspace /\ row \in Row /\ Exists(s, row) /\ s[row] \in WorkspaceRecord
  BY <1>1, <1>2, StoreKinds, RowsExist, LogoType DEF Live
<1>4. FilesOf(s, row) = fs /\ fs \in SUBSET File
  BY <1>2, <1>3, WorkspaceShows
<1>5. Attach(p, {row}, after, Cleaning(fs, NoRequest))
  <2>1. WithLogo(s, w, f) = after
    BY DEF WithLogo
  <2>. QED
    BY <1>1, <2>1
<1>6. content.logo = f /\ content \in WorkspaceRecord
  BY <1>2, <1>3 DEF WorkspaceRecord
<1>7. f \notin FilesOf(s, row)
  <2>1. Holds(tx[p].request, f)
    BY <1>1, InHandIsNew DEF Holds
  <2>. QED
    BY <1>1, <1>2, <1>3, <2>1, OpenHolds
<1>. HIDE DEF content
<1>8. /\ after[row] = content
      /\ \A other \in Row \ {row} : FilesOf(after, other) = FilesOf(s, other)
      /\ \A g \in File : g \in LetGo(s, after) <=> g \in FilesOf(s, row) /\ g \notin FilesOf(after, row)
  BY <1>2, <1>3, OneWorkspaceFiles
<1>. HIDE DEF after
<1>9. Exists(after, row) /\ Logo(after, w) = f
  BY <1>6, <1>8, NotRows DEF Exists, Logo
<1>10. FilesOf(after, row) = {f}
  BY <1>2, <1>3, <1>9, FilesShown, MarkersAssumption DEF Keys
<1>11. ~(\A r \in Requests : r.call # "set_logo")
  BY <1>1, <1>2, StoreKinds
<1>. HIDE DEF s, w, f, row, fs
<1>12. \A g \in File : Holds(Cleaning(fs, NoRequest), g) <=> g \in LetGo(s, after)
  BY <1>4, <1>7, <1>8, <1>10, CleaningHolds
<1>13. NothingIsLost => AnswersAreTrue
  BY <1>11 DEF NothingIsLost
<1>. QED
  BY <1>1, <1>3, <1>5, <1>8, <1>10, <1>12, <1>13, AttachKeepsFiles DEF s, f

LEMMA StartKeepsFiles ==
  ASSUME IInv, NEW p \in Session, Start(p)
  PROVE  FilesStay
<1>. DEFINE t == [tx[p] EXCEPT !.open = TRUE, !.snapshot = db]
<1>1. TransactionOK(tx[p]) /\ DOMAIN tx = Session
  BY IInvNow DEF SessionOK
<1>2. t.request = tx[p].request
  BY <1>1 DEF TransactionOK
<1>3. tx' = [tx EXCEPT ![p] = t] /\ UNCHANGED <<db, files>>
  BY <1>1 DEF Start, Begin, Bucket
<1>. HIDE DEF t
<1>. QED
  BY <1>2, <1>3, SessionStepKeepsFiles

LEMMA EndKeepsFiles ==
  ASSUME IInv, NEW p \in Session, RollBackRequest(p) \/ Interrupt(p)
  PROVE  FilesStay
<1>1. tx' = [tx EXCEPT ![p] = Idle] /\ UNCHANGED <<db, files>>
  BY DEF RollBackRequest, RollBack, Interrupt, Bucket
<1>2. CASE RollBackRequest(p)
  <2>1. tx[p].open /\ SessionOK(db, tx[p])
    BY <1>2, IInvNow DEF RollBackRequest, RollBack
  <2>2. \A f \in File : ~Holds(tx[p].request, f)
    BY <1>2, <2>1 DEF SessionOK, Holds, Carries, At, RollBackRequest, InStage
  <2>. QED
    BY <1>1, <2>2, IdleKeepsFiles
<1>3. CASE Interrupt(p)
  <2>1. ~NothingIsLost
    BY <1>3 DEF Interrupt, NothingIsLost
  <2>2. Idle.request = NoRequest
    BY DEF Idle, Waiting
  <2>. QED
    BY <1>1, <2>1, <2>2, HoldsNothing, SessionStepKeepsFiles
<1>. QED
  BY <1>2, <1>3

LEMMA StoreFileKeepsFiles ==
  ASSUME IInv, NEW p \in Session, StoreFile(p)
  PROVE  FilesStay
<1>1. /\ DOMAIN tx = Session /\ TransactionOK(tx[p]) /\ MediaTypeOK
      /\ At(tx[p].request, {"storing"})
  BY IInvNow DEF SessionOK, StoreFile, InStage, At
<1>2. PICK f \in File :
        /\ files[f] = "unused" /\ files' = [files EXCEPT ![f] = "stored"]
        /\ tx' = [tx EXCEPT ![p].request = Storing("consuming", tx[p].request.purpose, f)]
        /\ UNCHANGED db
  BY DEF StoreFile
<1>. DEFINE r == Storing("consuming", tx[p].request.purpose, f)
<1>3. tx'[p].request = r /\ \A q \in Session : q # p => tx'[q] = tx[q]
  BY <1>1, <1>2 DEF TransactionOK
<1>4. \A g : /\ ~Holds(tx[p].request, g)
             /\ Holds(tx'[p].request, g) <=> g = f
  <2>1. r # NoRequest
    <3>1. r \in Unfinished
      BY <1>1, FileInHand, StoringIsUnfinished DEF At
    <3>. QED
      BY <3>1, MarkersAssumption
  <2>2. r.call = "consuming" /\ r.file = f
    BY DEF Storing
  <2>. HIDE DEF r
  <2>. QED
    BY <1>1, <1>3, <2>1, <2>2 DEF Holds, Carries, At
<1>5. files'[f] = "stored" /\ \A g \in File : g # f => files'[g] = files[g]
  BY <1>1, <1>2 DEF MediaTypeOK
<1>. HIDE DEF r
<1>6. ASSUME OnePlace(db, tx, files)
      PROVE  OnePlace(db', tx', files')
  <2>1. /\ \A row \in Row : f \notin FilesOf(db, row)
        /\ \A q \in Session : ~Holds(tx[q].request, f)
    BY <1>2, <1>6 DEF OnePlace
  <2>2. ASSUME NEW row \in Row, NEW g \in FilesOf(db', row)
        PROVE  files'[g] = "stored"
    <3>1. g \in File /\ g \in FilesOf(db, row)
      BY <1>2, <2>2 DEF FilesOf
    <3>. QED
      BY <1>5, <1>6, <3>1 DEF OnePlace
  <2>3. ASSUME NEW q \in Session, NEW g \in File, Holds(tx'[q].request, g)
        PROVE  /\ files'[g] = "stored" /\ \A row \in Row : g \notin FilesOf(db', row)
               /\ \A o \in Session : Holds(tx'[o].request, g) => o = q
    <3>1. CASE g = f
      BY <1>2, <1>3, <1>4, <1>5, <2>1, <2>3, <3>1
    <3>2. CASE g # f
      <4>1. q # p /\ Holds(tx[q].request, g)
        BY <1>3, <1>4, <2>3, <3>2
      <4>2. /\ files[g] = "stored" /\ \A row \in Row : g \notin FilesOf(db, row)
            /\ \A o \in Session : Holds(tx[o].request, g) => o = q
        BY <1>6, <4>1 DEF OnePlace
      <4>. QED
        BY <1>2, <1>3, <1>4, <1>5, <3>2, <4>2
    <3>. QED
      BY <3>1, <3>2
  <2>4. \A row, other \in Row : row # other => FilesOf(db', row) \cap FilesOf(db', other) = {}
    BY <1>2, <1>6 DEF OnePlace
  <2>. QED
    BY <2>2, <2>3, <2>4 DEF OnePlace
<1>7. ASSUME Accounted(db, tx, files)
      PROVE  Accounted(db', tx', files')
  <2>1. ASSUME NEW g \in File, files'[g] = "stored"
        PROVE  \/ \E row \in Row : g \in FilesOf(db', row)
               \/ \E q \in Session : Holds(tx'[q].request, g)
    <3>1. CASE g = f
      BY <1>4, <3>1
    <3>2. CASE g # f
      <4>1. \/ \E row \in Row : g \in FilesOf(db, row)
            \/ \E q \in Session : Holds(tx[q].request, g)
        BY <1>5, <1>7, <2>1, <3>2 DEF Accounted
      <4>. QED
        BY <1>2, <1>3, <1>4, <4>1
    <3>. QED
      BY <3>1, <3>2
  <2>. QED
    BY <2>1 DEF Accounted
<1>. QED
  BY <1>6, <1>7 DEF FilesStay

LEMMA ConsumeUploadKeepsFiles ==
  ASSUME IInv, NEW p \in Session, ConsumeUpload(p)
  PROVE  FilesStay
<1>1. TransactionOK(tx[p]) /\ At(tx[p].request, {"consuming"})
  BY IInvNow DEF SessionOK, ConsumeUpload, InStage, At
<1>. DEFINE f == tx[p].request.file
            old == tx[p].request
            r == Storing("attaching", old.purpose, f)
<1>2. old.purpose \in Stores /\ f \in File /\ old = Storing("consuming", old.purpose, f)
  BY <1>1, FileInHand DEF At, Carries
<1>3. tx' = [tx EXCEPT ![p].request = r] /\ UNCHANGED <<db, files>>
  <2>1. [old EXCEPT !.call = "attaching"] = r
    BY <1>2 DEF Storing
  <2>. QED
    BY <2>1 DEF ConsumeUpload
<1>4. r # NoRequest /\ r.call = "attaching" /\ r.file = f
  <2>1. r.call = "attaching" /\ r.file = f
    BY DEF Storing
  <2>. HIDE DEF f, old
  <2>2. r \in Unfinished
    BY <1>2, StoringIsUnfinished
  <2>. QED
    BY <2>1, <2>2, MarkersAssumption
<1>. HIDE DEF r
<1>5. \A g \in File : Holds(r, g) <=> Holds(tx[p].request, g)
  BY <1>1, <1>4 DEF Holds, Carries, At
<1>. QED
  BY <1>3, <1>5, GoOnKeepsFiles

LEMMA CleanUpKeepsFiles ==
  ASSUME IInv, NEW p \in Session, CleanUp(p)
  PROVE  FilesStay
<1>. DEFINE fs == tx[p].request.files
<1>1. DOMAIN tx = Session /\ TransactionOK(tx[p]) /\ At(tx[p].request, {"cleaning"})
  BY IInvNow DEF SessionOK, CleanUp, InStage, At
<1>2. PICK kept \in SUBSET fs :
        /\ kept # {} => "undeleted" \in Faults
        /\ \A f \in File : files'[f] = IF f \in fs \ kept THEN "deleted" ELSE files[f]
  BY DEF CleanUp
<1>3. UNCHANGED db /\ tx'[p].request = tx[p].request.then /\ \A q \in Session : q # p => tx'[q] = tx[q]
  BY <1>1 DEF CleanUp, TransactionOK
<1>4. \A f : Holds(tx[p].request, f) <=> f \in fs
  BY <1>1 DEF Holds, Carries, At
<1>5. \A f : ~Holds(tx'[p].request, f)
  BY <1>1, <1>3, FileInHand, PurgeKinds DEF Holds, Carries, At
<1>. HIDE DEF fs
<1>6. ASSUME OnePlace(db, tx, files)
      PROVE  OnePlace(db', tx', files')
  <2>1. ASSUME NEW row \in Row, NEW f \in FilesOf(db', row)
        PROVE  files'[f] = "stored"
    <3>1. f \in File /\ f \in FilesOf(db, row)
      BY <1>3, <2>1 DEF FilesOf
    <3>2. files[f] = "stored" /\ f \notin fs
      BY <1>4, <1>6, <3>1 DEF OnePlace
    <3>. QED
      BY <1>2, <3>1, <3>2
  <2>2. ASSUME NEW q \in Session, NEW f \in File, Holds(tx'[q].request, f)
        PROVE  /\ files'[f] = "stored" /\ \A row \in Row : f \notin FilesOf(db', row)
               /\ \A o \in Session : Holds(tx'[o].request, f) => o = q
    <3>1. q # p /\ Holds(tx[q].request, f)
      BY <1>3, <1>5, <2>2
    <3>2. /\ files[f] = "stored" /\ \A row \in Row : f \notin FilesOf(db, row)
          /\ \A o \in Session : Holds(tx[o].request, f) => o = q
      BY <1>6, <3>1 DEF OnePlace
    <3>3. f \notin fs
      BY <1>4, <3>1, <3>2
    <3>. QED
      BY <1>2, <1>3, <1>5, <3>2, <3>3
  <2>3. \A row, other \in Row : row # other => FilesOf(db', row) \cap FilesOf(db', other) = {}
    BY <1>3, <1>6 DEF OnePlace
  <2>. QED
    BY <2>1, <2>2, <2>3 DEF OnePlace
<1>7. ASSUME NothingIsLost, Accounted(db, tx, files)
      PROVE  Accounted(db', tx', files')
  <2>1. ASSUME NEW f \in File, files'[f] = "stored"
        PROVE  \/ \E row \in Row : f \in FilesOf(db', row)
               \/ \E q \in Session : Holds(tx'[q].request, f)
    <3>1. f \notin fs /\ files[f] = "stored"
      BY <1>2, <1>7, <2>1 DEF NothingIsLost
    <3>2. \/ \E row \in Row : f \in FilesOf(db, row)
          \/ \E q \in Session : Holds(tx[q].request, f)
      BY <1>7, <3>1 DEF Accounted
    <3>. QED
      BY <1>3, <1>4, <3>1, <3>2
  <2>. QED
    BY <2>1 DEF Accounted
<1>. QED
  BY <1>6, <1>7 DEF FilesStay

LEMMA FailAttachKeepsFiles ==
  ASSUME IInv, NEW p \in Session, FailAttach(p)
  PROVE  FilesStay
<1>1. TransactionOK(tx[p]) /\ At(tx[p].request, {"attaching"})
  BY IInvNow DEF SessionOK, FailAttach, InStage, At
<1>2. Carries(tx[p].request) /\ InHand(p) \in File /\ InHand(p) = tx[p].request.file
  BY <1>1, FileInHand DEF Carries, At, InHand
<1>3. \A f \in File : Holds(tx[p].request, f) <=> f \in {InHand(p)}
  BY <1>1, <1>2 DEF Holds, Carries, At
<1>4. {InHand(p)} \in SUBSET File
  BY <1>2
<1>5. \A f \in File : Holds(Discarding(p), f) <=> f \in {InHand(p)}
  BY <1>4, CleaningHolds DEF Discarding
<1>6. tx' = [tx EXCEPT ![p] = Waiting(Discarding(p), 1)] /\ UNCHANGED <<db, files>>
  BY DEF FailAttach
<1>. QED
  BY <1>3, <1>5, <1>6, WaitKeepsFiles

LEMMA UploadsKeepFiles ==
  ASSUME IInv, NEW p \in Session, NEW r \in Requests,
         \/ RequestUpload(p, r) \/ ReadUpload(p, r) \/ UploadNotFound(p, r)
         \/ RequestLogoUpload(p, r) \/ ReadLogo(p, r)
  PROVE  FilesStay
<1>1. Serves(p, r) /\ UNCHANGED <<db, files>>
  BY DEF RequestUpload, ReadUpload, UploadNotFound, RequestLogoUpload, ReadLogo, NotConfirmed,
         Handles, Presign, StartStoring, RefuseUpload
<1>2. \A f \in File : ~Holds(tx[p].request, f)
  BY <1>1, ServedHoldsNothing
<1>3. CASE tx' = [tx EXCEPT ![p] = Idle]
  BY <1>1, <1>2, <1>3, IdleKeepsFiles
<1>4. CASE StartStoring(p, r)
  <2>. DEFINE next == Storing("storing", r, NoFile)
  <2>1. tx' = [tx EXCEPT ![p].request = next]
    BY <1>4 DEF StartStoring
  <2>2. \A f \in File : ~Holds(next, f)
    BY HoldsNothing
  <2>. HIDE DEF next
  <2>. QED
    BY <1>1, <1>2, <2>1, <2>2, GoOnKeepsFiles
<1>. QED
  BY <1>3, <1>4 DEF RequestUpload, ReadUpload, UploadNotFound, RequestLogoUpload, ReadLogo,
                    RefuseUpload

-----------------------------------------------------------------------------
(*                             The theorems                                *)

LEMMA InitIInv == Init => IInv
<1>. SUFFICES ASSUME Init PROVE IInv
  OBVIOUS
<1>. DEFINE blank == [deleted |-> FALSE, logo |-> NoFile]
<1>0. blank \in WorkspaceRecord
  BY DEF WorkspaceRecord
<1>1. /\ \A w \in Workspace : db[WorkspaceRow(w)] = blank
      /\ \A x \in Product : db[ProductRow(x)] = Absent
      /\ \A i \in File : db[ImageRow(i)] = Absent
      /\ DOMAIN db = Row
  <2>. DEFINE Homes == {WorkspaceRow(w) : w \in Workspace}
  <2>1. db = [row \in Row |-> IF row \in Homes THEN blank ELSE Absent]
    BY DEF Init
  <2>2. /\ \A w \in Workspace : WorkspaceRow(w) \in Homes
        /\ \A x : ProductRow(x) \notin Homes /\ ImageRow(x) \notin Homes
    BY RowsDiffer
  <2>. HIDE DEF Homes, blank
  <2>. QED
    BY <2>1, <2>2, RowsExist
<1>2. DatabaseOK(db)
  <2>. HIDE DEF blank
  <2>. QED
    BY <1>0, <1>1 DEF DatabaseOK
<1>3. \A v : ProductsOf(db, v) = {} /\ ImagesOf(db, v) = {} /\ ImagesIn(db, v) = {}
  BY <1>1 DEF ProductsOf, ImagesOf, ImagesIn, Exists
<1>4. Cardinality({}) = 0 /\ Cardinality({}) - 1 = -1
  BY FS_EmptySet
<1>5. \A x \in Product : ImagesOK(db, x)
  BY <1>3, <1>4, LimitsAssumption DEF ImagesOK, Positions
<1>6. QuotasHold
  <2>1. ASSUME NEW w \in Workspace
        PROVE  StorageBytes(db, w) = 0
    <3>1. PICK f : Sums(f, Bytes(db), ImagesIn(db, w)) /\ StorageBytes(db, w) = f[ImagesIn(db, w)]
      BY StorageIsSum
    <3>. QED
      BY <1>3, <3>1 DEF Sums
  <2>. QED
    BY <1>3, <1>4, <2>1, LimitsAssumption DEF QuotasHold
<1>7. \A p \in Session : tx[p] = Idle
  BY DEF Init, MediaInit
<1>8. SessionOK(db, Idle) /\ ~Idle.open /\ ~Carries(Idle.request)
  BY WaitingOK, FirstAttempt, NothingNext DEF Idle
<1>9. NewFiles(db, tx, files)
  <2>1. ASSUME NEW f \in File, NEW row \in Row
        PROVE  f \notin FilesOf(db, row)
    BY <1>1, RowsDiffer, MarkersAssumption DEF FilesOf, Exists, Logo
  <2>. QED
    BY <1>7, <1>8, <2>1 DEF NewFiles, InNone
<1>10. DOMAIN tx = Session /\ MediaTypeOK
  BY DEF Init, MediaInit, MediaTypeOK
<1>. QED
  BY <1>2, <1>5, <1>6, <1>7, <1>8, <1>9, <1>10, IInvNow

LEMMA NextKeepsIInv ==
  ASSUME IInv, [Next]_vars
  PROVE  IInv'
<1>1. CASE Next
  <2>1. PICK p \in Session :
          \/ MediaStep(p)
          \/ AttachImage(p) \/ RefuseAttach(p) \/ AttachLogo(p)
          \/ \E w \in Workspace : PurgeRows(p, w)
          \/ \E r \in Requests :
               \/ CreateProduct(p, r) \/ UpdateProduct(p, r) \/ DeleteProduct(p, r)
               \/ RequestUpload(p, r) \/ ReadUpload(p, r) \/ UploadNotFound(p, r)
               \/ RemoveImage(p, r) \/ ReorderImages(p, r)
               \/ RequestLogoUpload(p, r) \/ ReadLogo(p, r) \/ RemoveLogo(p, r)
               \/ DeleteWorkspace(p, r) \/ PurgeBatch(p, r)
    BY <1>1 DEF Next
  <2>2. RefuseAttach(p) => IInv'
    BY FailAttachKeepsIInv DEF RefuseAttach
  <2>. QED
    BY <2>1, <2>2, MediaStepKeepsIInv, AttachImageKeepsIInv, AttachLogoKeepsIInv,
       PurgeRowsKeepsIInv, CreateProductKeepsIInv, UpdateProductKeepsIInv,
       DeleteProductKeepsIInv, UploadsKeepIInv, RemoveImageKeepsIInv,
       ReorderImagesKeepsIInv, RemoveLogoKeepsIInv, DeleteWorkspaceKeepsIInv,
       PurgeBatchKeepsIInv
<1>2. CASE UNCHANGED vars
  <2>1. QuotasHold' <=> QuotasHold
    BY <1>2 DEF vars, QuotasHold
  <2>2. MediaTypeOK' <=> MediaTypeOK
    BY <1>2 DEF vars, MediaTypeOK
  <2>. QED
    BY <1>2, <2>1, <2>2, IInvNow, IInvNext DEF vars
<1>. QED
  BY <1>1, <1>2

LEMMA NextKeepsFiles ==
  ASSUME IInv, [Next]_vars
  PROVE  FilesStay
<1>1. CASE Next
  <2>1. PICK p \in Session :
          \/ MediaStep(p)
          \/ AttachImage(p) \/ RefuseAttach(p) \/ AttachLogo(p)
          \/ \E w \in Workspace : PurgeRows(p, w)
          \/ \E r \in Requests :
               \/ CreateProduct(p, r) \/ UpdateProduct(p, r) \/ DeleteProduct(p, r)
               \/ RequestUpload(p, r) \/ ReadUpload(p, r) \/ UploadNotFound(p, r)
               \/ RemoveImage(p, r) \/ ReorderImages(p, r)
               \/ RequestLogoUpload(p, r) \/ ReadLogo(p, r) \/ RemoveLogo(p, r)
               \/ DeleteWorkspace(p, r) \/ PurgeBatch(p, r)
    BY <1>1 DEF Next
  <2>2. RefuseAttach(p) => FilesStay
    BY FailAttachKeepsFiles DEF RefuseAttach
  <2>3. MediaStep(p) => FilesStay
    BY StartKeepsFiles, EndKeepsFiles, StoreFileKeepsFiles, ConsumeUploadKeepsFiles,
       CleanUpKeepsFiles, FailAttachKeepsFiles DEF MediaStep
  <2>. QED
    BY <2>1, <2>2, <2>3, AttachImageKeepsFiles, AttachLogoKeepsFiles, PurgeRowsKeepsFiles,
       ProductsKeepFiles, DeleteProductKeepsFiles, UploadsKeepFiles, RemoveImageKeepsFiles,
       ReorderImagesKeepsFiles, LogosKeepFiles, PurgeBatchKeepsFiles
<1>2. CASE UNCHANGED vars
  BY <1>2 DEF vars, FilesStay
<1>. QED
  BY <1>1, <1>2

LEMMA InitFiles == Init => OnePlace(db, tx, files) /\ Accounted(db, tx, files)
<1>. SUFFICES ASSUME Init PROVE OnePlace(db, tx, files) /\ Accounted(db, tx, files)
  OBVIOUS
<1>1. IInv /\ \A f \in File : files[f] = "unused"
  BY InitIInv DEF Init, MediaInit
<1>2. \A row \in Row : FilesOf(db, row) = {}
  <2>1. NewFiles(db, tx, files)
    BY <1>1, IInvNow
  <2>. QED
    BY <1>1, <2>1 DEF NewFiles, InNone, FilesOf
<1>3. \A p \in Session, f \in File : ~Holds(tx[p].request, f)
  BY HoldsNothing DEF Init, MediaInit, Idle, Waiting
<1>. QED
  BY <1>1, <1>2, <1>3 DEF OnePlace, Accounted

(* What makes every commit safe: the images of every product are in order, *)
(* in the database and in every open snapshot, and a snapshot is right     *)
(* about everything that its transaction relies on.                        *)
THEOREM SnapshotsAgree == Spec => []IInv
<1>1. IInv /\ [Next]_vars => IInv'
  BY NextKeepsIInv
<1>. QED
  BY InitIInv, <1>1, PTL DEF Spec

(* Every row, snapshot, request, upload and file keeps its type.           *)
THEOREM TypeCorrect == Spec => []TypeOK
<1>1. IInv => TypeOK
  BY DEF IInv
<1>. QED
  BY <1>1, SnapshotsAgree, PTL

(* No live workspace ever holds more products or bytes than its quotas,    *)
(* however many sessions create products and attach images at once.        *)
THEOREM QuotasAreKept == Spec => []QuotasHold
<1>1. IInv => QuotasHold
  BY DEF IInv
<1>. QED
  BY <1>1, SnapshotsAgree, PTL

(* The images of a product are in positions 0 to n-1, each once, after any *)
(* overlap of attaching, removing and reordering.                          *)
THEOREM PositionsStayDense == Spec => []PositionsAreDense
<1>1. IInv => PositionsAreDense
  BY DEF IInv, ImagesOK, PositionsAreDense
<1>. QED
  BY <1>1, SnapshotsAgree, PTL

(* Two confirms of one upload give a product one image.                    *)
THEOREM UploadsAreUsedOnce == Spec => []OneImagePerUpload
<1>1. ASSUME IInv, NEW x \in Product, NEW u \in Upload
      PROVE  Cardinality(ImagesByUpload(db, x, u)) <= 1
  <2>. DEFINE S == ImagesByUpload(db, x, u)
  <2>1. ImagesOK(db, x) /\ S \in SUBSET ImagesOf(db, x) /\ IsFiniteSet(ImagesOf(db, x))
    BY <1>1, FinitelyMany DEF IInv, ImagesByUpload
  <2>2. IsFiniteSet(S)
    <3>. HIDE DEF S
    <3>. QED
      BY <2>1, FS_Subset
  <2>3. \A i, j \in S : i = j
    BY <2>1 DEF ImagesOK, ImagesByUpload
  <2>. HIDE DEF S
  <2>4. CASE S = {}
    BY <2>4, FS_EmptySet DEF S
  <2>5. CASE S # {}
    <3>1. PICK i \in S : TRUE
      BY <2>5
    <3>2. S = {i}
      BY <2>3, <3>1
    <3>3. Cardinality({i}) = 1
      BY FS_Singleton
    <3>4. Cardinality(S) = 1
      BY <3>2, <3>3
    <3>. QED
      BY <3>4 DEF S
  <2>. QED
    BY <2>4, <2>5
<1>2. IInv => OneImagePerUpload
  BY <1>1 DEF OneImagePerUpload
<1>. QED
  BY <1>2, SnapshotsAgree, PTL

(* No image outlives its product, though attaching one may overlap with    *)
(* deleting the product or purging its workspace.                          *)
THEOREM ImagesGoWithProducts == Spec => []ImagesHaveProducts
<1>1. ASSUME IInv, NEW i \in File, Exists(db, ImageRow(i))
      PROVE  db[ImageRow(i)].product \in ProductsOf(db, db[ImageRow(i)].workspace)
  <2>1. db[ImageRow(i)].product \in Product
    BY <1>1, RowContents, IInvNow
  <2>2. ImagesOK(db, db[ImageRow(i)].product) /\ i \in ImagesOf(db, db[ImageRow(i)].product)
    BY <1>1, <2>1 DEF IInv, ImagesOf
  <2>. QED
    BY <2>2 DEF ImagesOK
<1>2. IInv => ImagesHaveProducts
  BY <1>1 DEF ImagesHaveProducts
<1>. QED
  BY <1>2, SnapshotsAgree, PTL

(* An update sent with If-Match changes the version the client saw: the    *)
(* product was locked, so the snapshot it was checked in is still right.   *)
THEOREM NoUpdateIsLost == Spec => NoLostUpdate
<1>1. ASSUME IInv, NEW p \in Session, NEW r \in Requests, UpdateProduct(p, r),
             r.if_match # NoVersion, db' # db
      PROVE  db[ProductRow(r.product)].updated_at = r.if_match
  <2>. DEFINE s == tx[p].snapshot
              row == ProductRow(r.product)
              after == [s EXCEPT ![row] = Updated(@, r.value)]
  <2>1. /\ tx[p].open /\ s[row].updated_at = r.if_match /\ r.call = "update"
        /\ Attempt(p, r, {row}, after)
    BY <1>1 DEF UpdateProduct, Handles, Serves, EnsureUnchangedSince, View, ProductLock
  <2>2. row \in Row
    BY <2>1, RequestsGoOn, RequestKinds, RowsExist
  <2>. HIDE DEF after
  <2>3. Commit(p, {row}, after, NoRequest)
    BY <1>1, <2>1 DEF Attempt, AttemptThen, LoseRace, LoseRaceElse
  <2>4. DatabaseOK(db) /\ Relies(db, s, tx[p].touched)
    BY <1>1, <2>1, IInvNow DEF SessionOK
  <2>5. row \notin tx[p].touched
    BY <2>2, <2>3, <2>4, GuardedUntouched DEF Guards
  <2>. QED
    BY <2>1, <2>2, <2>4, <2>5 DEF Relies
<1>2. IInv /\ [Next]_vars =>
        [\A p \in Session, r \in VersionedUpdates :
           UpdateProduct(p, r) /\ db' # db
             => db[ProductRow(r.product)].updated_at = r.if_match]_vars
  BY <1>1 DEF VersionedUpdates
<1>. QED
  BY <1>2, SnapshotsAgree, PTL DEF Spec, NoLostUpdate

(* A file is shown by one row or in the hands of one request, never of two,*)
(* however attaching, replacing and deleting overlap and whoever dies.     *)
(* An error of a commit must mean that nothing was committed: otherwise    *)
(* the file of a row that was committed is discarded.                      *)
THEOREM FilesAreInOnePlace ==
  ASSUME AnswersAreTrue
  PROVE  Spec => []FilesInOnePlace
<1>1. Init => FilesInOnePlace
  BY InitFiles, OnePlaceNow
<1>2. IInv /\ FilesInOnePlace /\ [Next]_vars => FilesInOnePlace'
  BY NextKeepsFiles, OnePlaceNow, OnePlaceNext DEF FilesStay
<1>. QED
  BY <1>1, <1>2, SnapshotsAgree, PTL DEF Spec

(* Every image that is listed, and every logo, can be shown.               *)
THEOREM ShownFilesAreThere ==
  ASSUME AnswersAreTrue
  PROVE  Spec => []ShownFilesExist
<1>1. FilesInOnePlace => ShownFilesExist
  BY DEF FilesInOnePlace
<1>. QED
  BY <1>1, FilesAreInOnePlace, PTL

(* No orphan file: where no environment dies and the bucket deletes what it*)
(* is told to, a stored file is shown or will be attached or deleted, even *)
(* if commits of images report errors.                                     *)
THEOREM NoFileIsForgotten ==
  ASSUME NothingIsLost
  PROVE  Spec => []FilesAccountedFor
<1>1. Init => FilesAccountedFor
  BY InitFiles, AccountedNow
<1>2. IInv /\ FilesAccountedFor /\ [Next]_vars => FilesAccountedFor'
  BY NextKeepsFiles, AccountedNow, AccountedNext DEF FilesStay
<1>. QED
  BY <1>1, <1>2, SnapshotsAgree, PTL DEF Spec
=============================================================================
