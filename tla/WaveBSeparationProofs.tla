------------------------ MODULE WaveBSeparationProofs ------------------------
(***************************************************************************)
(* Proofs about WaveBSeparation for any boards, packs, buffer and window:   *)
(* boards are moved as a whole, the search for delays ends with a schedule  *)
(* without conflict, and the samples stand for the tracks between them.     *)
(***************************************************************************)
EXTENDS WaveBSeparation, FiniteSetTheorems, WellFoundedInduction, TLAPS

-----------------------------------------------------------------------------
(* Numbers *)

LEMMA LeastNumber ==
  ASSUME NEW T, T \subseteq Nat, T # {}
  PROVE  \E x \in T : \A y \in T : x <= y
<1>1. PICK x \in T : \A y \in T : ~ (<<y, x>> \in OpToRel(<, Nat))
  BY NatLessThanWellFounded, WFMin, Zenon
<1>2. ASSUME NEW y \in T, y < x
      PROVE  FALSE
  <2>1. <<y, x>> \in { ss \in Nat \X Nat : ss[1] < ss[2] }
    BY <1>2
  <2>2. QED BY <1>1, <2>1 DEF OpToRel
<1>3. QED BY <1>2

LEMMA MaxOfBounded ==
  ASSUME NEW S, S \subseteq Int, S # {}, NEW u \in Int, \A x \in S : x <= u
  PROVE  Max(S) \in S /\ \A x \in S : x <= Max(S)
<1> DEFINE below == { u - x : x \in S }
<1>1. below \subseteq Nat /\ below # {}
  <2>1. \A x \in S : x \in Int /\ u - x \in Nat
    OBVIOUS
  <2>2. QED BY <2>1
<1>2. PICK d \in below : \A y \in below : d <= y
  BY <1>1, LeastNumber
<1>3. PICK m \in S : d = u - m
  BY <1>2
<1>4. ASSUME NEW x \in S
      PROVE  x <= m
  <2>1. u - m <= u - x /\ x \in Int /\ m \in Int
    BY <1>2, <1>3
  <2>2. QED BY <2>1
<1>5. QED BY <1>4 DEF Max

LEMMA MinOfBounded ==
  ASSUME NEW S, S \subseteq Int, S # {}, NEW u \in Int, \A x \in S : u <= x
  PROVE  Min(S) \in S /\ \A x \in S : Min(S) <= x
<1> DEFINE above == { x - u : x \in S }
<1>1. above \subseteq Nat /\ above # {}
  <2>1. \A x \in S : x \in Int /\ x - u \in Nat
    OBVIOUS
  <2>2. QED BY <2>1
<1>2. PICK d \in above : \A y \in above : d <= y
  BY <1>1, LeastNumber
<1>3. PICK m \in S : d = m - u
  BY <1>2
<1>4. ASSUME NEW x \in S
      PROVE  m <= x
  <2>1. m - u <= x - u /\ x \in Int /\ m \in Int
    BY <1>2, <1>3
  <2>2. QED BY <2>1
<1>5. QED BY <1>4 DEF Min

(* A finite set of numbers has an upper bound: a smallest one without would
   have one again once it loses an element. *)
LEMMA FiniteIsBounded ==
  ASSUME NEW S, S \subseteq Int, IsFiniteSet(S)
  PROVE  \E u \in Int : \A x \in S : x <= u
<1> DEFINE Bounded(X) == \E u \in Int : \A x \in X : x <= u
           sizes == { Cardinality(X) : X \in { X \in SUBSET S : ~Bounded(X) } }
<1>1. SUFFICES ASSUME ~Bounded(S) PROVE FALSE
  OBVIOUS
<1>2. \A X \in SUBSET S : IsFiniteSet(X) /\ Cardinality(X) \in Nat
  BY FS_Subset, FS_CardinalityType
<1>3. sizes \subseteq Nat /\ sizes # {}
  <2>1. Cardinality(S) \in sizes
    BY <1>1
  <2>2. QED BY <1>2, <2>1
<1>4. PICK X \in SUBSET S : ~Bounded(X) /\ \A n \in sizes : Cardinality(X) <= n
  <2>1. PICK n \in sizes : \A m \in sizes : n <= m
    BY <1>3, LeastNumber
  <2>2. PICK X \in { X \in SUBSET S : ~Bounded(X) } : n = Cardinality(X)
    BY <2>1
  <2>3. QED BY <2>1, <2>2
<1> HIDE DEF Bounded
<1>5. PICK x : x \in X
  <2>1. Bounded({})
    <3>1. 0 \in Int /\ \A y \in {} : y <= 0
      OBVIOUS
    <3>2. QED BY <3>1 DEF Bounded
  <2>2. QED BY <1>4, <2>1
<1>6. Cardinality(X \ {x}) < Cardinality(X) /\ X \ {x} \in SUBSET S
  BY <1>2, <1>4, <1>5, FS_RemoveElement
<1>7. Bounded(X \ {x})
  BY <1>2, <1>4, <1>6
<1>8. PICK u \in Int : \A y \in X \ {x} : y <= u
  BY <1>7 DEF Bounded
<1>9. PICK v \in {u, x} : u <= v /\ x <= v
  <2>1. u \in Int /\ x \in Int
    BY <1>4, <1>5
  <2>2. QED BY <2>1
<1>10. v \in Int /\ \A y \in X : y <= v
  <2>1. u \in Int /\ x \in Int /\ X \subseteq Int
    BY <1>4, <1>5
  <2>2. QED BY <1>8, <1>9, <2>1
<1>11. QED BY <1>4, <1>10 DEF Bounded

LEMMA FiniteRange ==
  ASSUME NEW D, IsFiniteSet(D), NEW f
  PROVE  IsFiniteSet({ f[x] : x \in D })
<1> DEFINE g == [x \in D |-> f[x]]
<1>1. g \in Surjection(D, { f[x] : x \in D })
  BY DEF Surjection
<1>2. QED BY <1>1, FS_Surjection

-----------------------------------------------------------------------------
(* Paths *)

(* Sums along a sequence exist. *)
LEMMA SumsExist ==
  ASSUME NEW leg, NEW n \in Nat
  PROVE  \E g : g = [k \in 0 .. n |-> IF k = 0 THEN 0 ELSE g[k - 1] + leg[k]]
<1> DEFINE Exists(m) == \E g : g = [k \in 0 .. m |-> IF k = 0 THEN 0 ELSE g[k - 1] + leg[k]]
           without == { m \in Nat : ~Exists(m) }
<1>1. SUFFICES ASSUME ~Exists(n) PROVE FALSE
  OBVIOUS
<1>2. PICK m \in without : \A j \in without : m <= j
  BY <1>1, LeastNumber
<1>3. m # 0
  <2> DEFINE g == [k \in 0 .. 0 |-> 0]
  <2>1. g = [k \in 0 .. 0 |-> IF k = 0 THEN 0 ELSE g[k - 1] + leg[k]]
    OBVIOUS
  <2>2. Exists(0)
    BY <2>1
  <2>3. QED BY <1>2, <2>2
<1>4. Exists(m - 1)
  <2> HIDE DEF Exists
  <2>1. m - 1 \in Nat /\ ~(m <= m - 1)
    BY <1>2, <1>3
  <2>2. QED BY <1>2, <2>1
<1>5. PICK g : g = [k \in 0 .. m - 1 |-> IF k = 0 THEN 0 ELSE g[k - 1] + leg[k]]
  BY <1>4
<1> DEFINE h == [k \in 0 .. m |-> IF k = m THEN g[m - 1] + leg[m] ELSE g[k]]
<1>6. \A k \in 0 .. m : h[k] = IF k = 0 THEN 0 ELSE h[k - 1] + leg[k]
  <2>1. \A k \in 0 .. m - 1 : g[k] = IF k = 0 THEN 0 ELSE g[k - 1] + leg[k]
    BY <1>5
  <2>2. QED BY <1>2, <1>3, <2>1
<1>7. h = [k \in 0 .. m |-> IF k = 0 THEN 0 ELSE h[k - 1] + leg[k]]
  BY <1>6
<1>8. QED BY <1>2, <1>7

(* Walked adds up the legs. *)
LEMMA WalkedAdds ==
  ASSUME NEW path \in Seq(Int), Len(path) >= 1
  PROVE  /\ DOMAIN Walked(path) = 0 .. Len(path) - 1
         /\ Walked(path)[0] = 0
         /\ \A k \in 1 .. Len(path) - 1 :
              Walked(path)[k] = Walked(path)[k - 1] + Abs(path[k + 1] - path[k])
<1> DEFINE n == Len(path) - 1
           leg == [k \in 1 .. n |-> Abs(path[k + 1] - path[k])]
           Sums(g) == g = [k \in 0 .. n |-> IF k = 0 THEN 0 ELSE g[k - 1] + Abs(path[k + 1] - path[k])]
<1>1. n \in Nat
  OBVIOUS
<1>2. PICK g : g = [k \in 0 .. n |-> IF k = 0 THEN 0 ELSE g[k - 1] + leg[k]]
  BY <1>1, SumsExist
<1>3. Sums(g)
  <2>1. \A k \in 0 .. n : (IF k = 0 THEN 0 ELSE g[k - 1] + leg[k])
                          = (IF k = 0 THEN 0 ELSE g[k - 1] + Abs(path[k + 1] - path[k]))
    BY <1>1
  <2>2. QED BY <1>2, <2>1
<1>4. Walked(path) = CHOOSE w : Sums(w)
  BY DEF Walked
<1>5. Sums(Walked(path))
  BY <1>3, <1>4
<1>6. QED BY <1>1, <1>5

(* Along a path every leg adds something. *)
LEMMA WalkedGrows ==
  ASSUME NEW path, IsPath(path)
  PROVE  /\ Len(path) \in Nat /\ Len(path) >= 2
         /\ \A k \in 1 .. Len(path) : path[k] \in Int
         /\ Walked(path)[0] = 0
         /\ \A k \in 1 .. Len(path) - 1 :
              /\ path[k] # path[k + 1]
              /\ Walked(path)[k] = Walked(path)[k - 1] + Abs(path[k + 1] - path[k])
         /\ \A k \in 0 .. Len(path) - 1 : Walked(path)[k] \in Nat
         /\ \A i, k \in 0 .. Len(path) - 1 : i < k => Walked(path)[i] < Walked(path)[k]
<1> DEFINE n == Len(path) - 1
           w == Walked(path)
<1>1. n \in Nat /\ path \in Seq(Int) /\ \A k \in 1 .. n + 1 : path[k] \in Int
  BY DEF IsPath
<1>2. \A k \in 1 .. n : Abs(path[k + 1] - path[k]) \in Nat \ {0}
  BY <1>1 DEF IsPath, Abs
<1>3. w[0] = 0 /\ \A k \in 1 .. n : w[k] = w[k - 1] + Abs(path[k + 1] - path[k])
  BY <1>1, WalkedAdds DEF IsPath
<1> HIDE DEF w
<1>4. \A k \in 0 .. n : w[k] \in Nat
  <2> DEFINE bad == { k \in 0 .. n : w[k] \notin Nat }
  <2>1. SUFFICES ASSUME bad # {} PROVE FALSE
    OBVIOUS
  <2>2. PICK k \in bad : \A j \in bad : k <= j
    <3>1. bad \subseteq Nat
      OBVIOUS
    <3>2. QED BY <2>1, <3>1, LeastNumber
  <2>3. k \in 1 .. n /\ k - 1 \in 0 .. n /\ ~(k <= k - 1)
    BY <1>1, <1>3, <2>2
  <2>4. w[k - 1] \in Nat
    BY <2>2, <2>3
  <2>5. QED BY <1>2, <1>3, <2>2, <2>3, <2>4
<1>5. ASSUME NEW i \in 0 .. n
      PROVE  \A k \in 0 .. n : i < k => w[i] < w[k]
  <2> DEFINE bad == { k \in 0 .. n : i < k /\ ~(w[i] < w[k]) }
  <2>1. SUFFICES ASSUME bad # {} PROVE FALSE
    OBVIOUS
  <2>2. PICK k \in bad : \A j \in bad : k <= j
    <3>1. bad \subseteq Nat
      OBVIOUS
    <3>2. QED BY <2>1, <3>1, LeastNumber
  <2>3. k \in 1 .. n /\ k - 1 \in 0 .. n /\ ~(k <= k - 1) /\ i <= k - 1
    BY <1>1, <2>2
  <2>4. w[k - 1] < w[k] /\ w[i] \in Nat /\ w[k] \in Nat /\ w[k - 1] \in Nat
    BY <1>2, <1>3, <1>4, <2>3
  <2>5. i = k - 1 \/ w[i] < w[k - 1]
    BY <2>2, <2>3
  <2>6. QED BY <2>2, <2>4, <2>5
<1>6. QED BY <1>1, <1>3, <1>4, <1>5 DEF w, IsPath

(* Every distance up to the length is on a leg. *)
LEMMA OnSomeLeg ==
  ASSUME NEW path, IsPath(path), NEW d \in 0 .. LengthOf(path)
  PROVE  \E k \in 1 .. Len(path) - 1 : Walked(path)[k - 1] <= d /\ d <= Walked(path)[k]
<1> DEFINE n == Len(path) - 1
           w == Walked(path)
           past == { k \in 1 .. n : d <= w[k] }
<1>1. n \in Nat \ {0} /\ w[0] = 0 /\ \A k \in 0 .. n : w[k] \in Nat
  BY WalkedGrows
<1>2. past \subseteq Nat /\ n \in past
  <2>1. d \in 0 .. w[n]
    BY DEF LengthOf
  <2> HIDE DEF n, w
  <2>2. QED BY <1>1, <2>1
<1>3. PICK k \in past : \A j \in past : k <= j
  BY <1>2, LeastNumber
<1>4. w[k - 1] <= d
  <2>1. CASE k = 1
    BY <1>1, <2>1
  <2>2. CASE k # 1
    <3>1. k - 1 \in 1 .. n /\ ~(k <= k - 1)
      BY <1>1, <1>3, <2>2
    <3>2. w[k - 1] \in Nat /\ ~(d <= w[k - 1])
      BY <1>1, <1>3, <3>1
    <3>3. QED BY <3>2
  <2>3. QED BY <2>1, <2>2
<1>5. QED BY <1>3, <1>4

(* Where a board is on a leg, whichever leg a turn is counted to. *)
LEMMA PointOnLeg ==
  ASSUME NEW path, IsPath(path), NEW d \in Int, NEW k \in 1 .. Len(path) - 1,
         Walked(path)[k - 1] <= d, d <= Walked(path)[k]
  PROVE  PointOnPath(path, d) =
           IF path[k + 1] < path[k] THEN path[k] - (d - Walked(path)[k - 1])
                                    ELSE path[k] + (d - Walked(path)[k - 1])
<1> DEFINE n == Len(path) - 1
           w == Walked(path)
           j == CHOOSE j \in 1 .. n : w[j - 1] <= d /\ d <= w[j]
           At(i) == IF path[i + 1] < path[i] THEN path[i] - (d - w[i - 1]) ELSE path[i] + (d - w[i - 1])
<1>1. /\ n \in Nat /\ \A i \in 1 .. n + 1 : path[i] \in Int
      /\ \A i \in 0 .. n : w[i] \in Nat
      /\ \A i, m \in 0 .. n : i < m => w[i] < w[m]
      /\ \A i \in 1 .. n : w[i] = w[i - 1] + Abs(path[i + 1] - path[i])
  BY WalkedGrows
<1>2. j \in 1 .. n /\ w[j - 1] <= d /\ d <= w[j]
  OBVIOUS
<1>3. PointOnPath(path, d) = At(j)
  BY DEF PointOnPath
<1> HIDE DEF w, j
<1>4. \A i \in 1 .. n : i + 1 \in 1 .. n => (d = w[i] => At(i) = path[i + 1] /\ At(i + 1) = path[i + 1])
  <2> TAKE i \in 1 .. n
  <2> SUFFICES ASSUME i + 1 \in 1 .. n, d = w[i]
               PROVE  At(i) = path[i + 1] /\ At(i + 1) = path[i + 1]
    OBVIOUS
  <2>1. path[i] \in Int /\ path[i + 1] \in Int /\ (i + 1) - 1 = i /\ i - 1 \in 0 .. n
    BY <1>1
  <2>2. w[i] - w[i - 1] = Abs(path[i + 1] - path[i])
    <3>1. w[i] = w[i - 1] + Abs(path[i + 1] - path[i]) /\ w[i - 1] \in Nat
      BY <1>1, <2>1
    <3>2. QED BY <2>1, <3>1 DEF Abs
  <2>3. At(i) = path[i + 1]
    BY <2>1, <2>2 DEF Abs
  <2>4. At(i + 1) = path[i + 1]
    BY <2>1
  <2>5. QED BY <2>3, <2>4
<1>5. j = k \/ (j = k + 1 /\ d = w[k]) \/ (k = j + 1 /\ d = w[j])
  <2>1. CASE j > k
    <3>1. w[k] <= w[j - 1] /\ (k # j - 1 => w[k] < w[j - 1])
      BY <1>1, <1>2, <2>1
    <3>2. w[k] \in Nat /\ w[j - 1] \in Nat /\ d <= w[k] /\ w[j - 1] <= d
      BY <1>1, <1>2 DEF w
    <3>3. QED BY <1>2, <3>1, <3>2, <2>1
  <2>2. CASE k > j
    <3>1. w[j] <= w[k - 1] /\ (j # k - 1 => w[j] < w[k - 1])
      BY <1>1, <1>2, <2>2
    <3>2. w[j] \in Nat /\ w[k - 1] \in Nat /\ d <= w[j] /\ w[k - 1] <= d
      BY <1>1, <1>2 DEF w
    <3>3. QED BY <1>2, <3>1, <3>2, <2>2
  <2>3. QED BY <1>2, <2>1, <2>2
<1>6. At(j) = At(k)
  BY <1>2, <1>4, <1>5
<1>7. QED BY <1>3, <1>6 DEF w

LEMMA PointIsTyped ==
  ASSUME NEW path, IsPath(path), NEW d \in 0 .. LengthOf(path)
  PROVE  PointOnPath(path, d) \in Int
<1>0. d \in Int
  BY WalkedGrows DEF LengthOf
<1>1. PICK k \in 1 .. Len(path) - 1 : Walked(path)[k - 1] <= d /\ d <= Walked(path)[k]
  BY OnSomeLeg
<1>2. path[k] \in Int /\ Walked(path)[k - 1] \in Int
  BY WalkedGrows
<1>3. PointOnPath(path, d) = IF path[k + 1] < path[k] THEN path[k] - (d - Walked(path)[k - 1])
                                                      ELSE path[k] + (d - Walked(path)[k - 1])
  BY <1>0, <1>1, PointOnLeg
<1>4. QED BY <1>0, <1>2, <1>3

(* A path flown backwards is as long. *)
Backwards(path) == [i \in DOMAIN path |-> path[Len(path) + 1 - i]]

LEMMA BackwardsIsAsLong ==
  ASSUME NEW path, IsPath(path)
  PROVE  IsPath(Backwards(path)) /\ LengthOf(Backwards(path)) = LengthOf(path)
<1> DEFINE n == Len(path) - 1
           back == Backwards(path)
           w == Walked(path)
           v == Walked(back)
<1>1. /\ n \in Nat \ {0} /\ Len(path) = n + 1 /\ Len(path) - 1 = n /\ DOMAIN path = 1 .. n + 1
      /\ \A k \in 1 .. n + 1 : path[k] \in Int
      /\ \A k \in 1 .. n : path[k] # path[k + 1]
  BY WalkedGrows DEF IsPath
<1>2. /\ DOMAIN back = 1 .. n + 1 /\ Len(back) = n + 1 /\ Len(back) - 1 = n /\ back \in Seq(Int)
      /\ \A k \in 1 .. n + 1 : back[k] = path[n + 2 - k]
  BY <1>1 DEF Backwards
<1> HIDE DEF n, back
<1>3. IsPath(back)
  <2>1. ASSUME NEW k \in 1 .. n
        PROVE  back[k] # back[k + 1]
    <3>1. n + 1 - k \in 1 .. n /\ (n + 1 - k) + 1 = n + 2 - k /\ n + 2 - (k + 1) = n + 1 - k
      BY <1>1
    <3>2. back[k] = path[n + 2 - k] /\ back[k + 1] = path[n + 1 - k]
      BY <1>1, <1>2, <3>1
    <3>3. QED BY <1>1, <3>1, <3>2
  <2>2. QED BY <1>1, <1>2, <2>1 DEF IsPath
<1>4. /\ w[0] = 0 /\ \A k \in 0 .. n : w[k] \in Nat
      /\ \A k \in 1 .. n : w[k] = w[k - 1] + Abs(path[k + 1] - path[k])
  BY <1>1, WalkedGrows
<1>5. /\ v[0] = 0 /\ \A k \in 0 .. n : v[k] \in Nat
      /\ \A k \in 1 .. n : v[k] = v[k - 1] + Abs(back[k + 1] - back[k])
  BY <1>2, <1>3, WalkedGrows
<1> HIDE DEF w, v
<1>6. \A k \in 1 .. n : v[k] = v[k - 1] + (w[n + 1 - k] - w[n - k])
  <2> TAKE k \in 1 .. n
  <2>1. /\ n + 1 - k \in 1 .. n /\ (n + 1 - k) + 1 = n + 2 - k /\ n + 2 - (k + 1) = n + 1 - k
        /\ (n + 1 - k) - 1 = n - k /\ n - k \in 0 .. n
    BY <1>1
  <2>2. back[k] = path[n + 2 - k] /\ back[k + 1] = path[n + 1 - k]
    BY <1>1, <1>2, <2>1
  <2>3. w[n + 1 - k] = w[n - k] + Abs(path[n + 2 - k] - path[n + 1 - k])
    BY <1>4, <2>1
  <2>4. Abs(back[k + 1] - back[k]) = Abs(path[n + 2 - k] - path[n + 1 - k])
    <3>1. path[n + 2 - k] \in Int /\ path[n + 1 - k] \in Int
      BY <1>1, <2>1
    <3>2. QED BY <2>2, <3>1 DEF Abs
  <2>5. Abs(path[n + 2 - k] - path[n + 1 - k]) \in Int
    BY <1>1, <2>1 DEF Abs
  <2>6. QED BY <1>4, <1>5, <2>1, <2>3, <2>4, <2>5
<1>7. \A k \in 0 .. n : v[k] = w[n] - w[n - k]
  <2> DEFINE bad == { k \in 0 .. n : v[k] # w[n] - w[n - k] }
  <2>1. SUFFICES ASSUME bad # {} PROVE FALSE
    OBVIOUS
  <2>2. PICK k \in bad : \A j \in bad : k <= j
    <3>1. bad \subseteq Nat
      OBVIOUS
    <3>2. QED BY <2>1, <3>1, LeastNumber
  <2>3. k # 0
    BY <1>1, <1>4, <1>5, <2>2
  <2>4. k - 1 \in 0 .. n /\ k - 1 \notin bad /\ n - (k - 1) = n + 1 - k
    BY <1>1, <2>2, <2>3
  <2>5. v[k - 1] = w[n] - w[n + 1 - k]
    BY <2>4
  <2>6. v[k] = w[n] - w[n - k]
    <3>1. n \in 0 .. n /\ n - k \in 0 .. n /\ n + 1 - k \in 0 .. n
      BY <1>1, <2>2, <2>3
    <3>2. w[n] \in Nat /\ w[n - k] \in Nat /\ w[n + 1 - k] \in Nat
      BY <1>4, <3>1
    <3>3. QED BY <1>6, <2>2, <2>3, <2>5, <3>2
  <2>7. QED BY <2>2, <2>6
<1>8. v[n] = w[n]
  <2>1. n \in 0 .. n /\ n - n = 0
    BY <1>1
  <2>2. QED BY <1>4, <1>7, <2>1
<1>9. LengthOf(path) = w[n] /\ LengthOf(back) = v[n]
  BY <1>1, <1>2 DEF LengthOf, w, v, n
<1>10. QED BY <1>3, <1>8, <1>9 DEF back

-----------------------------------------------------------------------------
(* Blocks *)

LEMMA BlockFacts ==
  ASSUME NEW items, IsBlock(items)
  PROVE  /\ Len(items) \in Nat \ {0} /\ DOMAIN items = 1 .. Len(items)
         /\ \A k \in DOMAIN items :
              /\ items[k] \in [path : Seq(Int), flight : Nat, start : Nat, rest : Nat]
              /\ IsPath(items[k].path) /\ items[k].flight = LengthOf(items[k].path)
              /\ k > 1 => EndOf(items[k - 1]) <= items[k].start
<1> DEFINE S == [path : Seq(Int), flight : Nat, start : Nat, rest : Nat]
<1>1. items \in Seq(S) /\ items # <<>>
  BY DEF IsBlock
<1> HIDE DEF S
<1>2. /\ Len(items) \in Nat \ {0} /\ DOMAIN items = 1 .. Len(items)
      /\ \A k \in DOMAIN items : items[k] \in S
  BY <1>1
<1>3. QED BY <1>2 DEF IsBlock, S

LEMMA AsSequence ==
  ASSUME NEW n \in Nat, n # 0, NEW S, NEW f, f = [k \in 1 .. n |-> f[k]], \A k \in 1 .. n : f[k] \in S
  PROVE  f \in Seq(S) /\ f # <<>>
<1>1. [k \in 1 .. n |-> f[k]] \in Seq(S)
  OBVIOUS
<1>2. f \in Seq(S)
  BY <1>1
<1>3. DOMAIN f = 1 .. n
  OBVIOUS
<1>4. 1 \in DOMAIN f
  BY <1>3
<1>5. 1 \notin DOMAIN <<>>
  OBVIOUS
<1>6. QED BY <1>2, <1>4, <1>5

(* apply_recharge_timeline: sorties along paths become a block, each after the
   first starting when the one before has landed and the board is charged. *)
THEOREM RechargeTimeline ==
  ASSUME NEW paths \in Seq(Seq(Int)), paths # <<>>, \A k \in DOMAIN paths : IsPath(paths[k]),
         NEW gap \in Nat
  PROVE  LET block == Placed(paths, gap)
         IN /\ IsBlock(block) /\ DOMAIN block = DOMAIN paths /\ block[1].start = 0
            /\ \A k \in 2 .. Len(paths) :
                 block[k].rest = gap /\ block[k].start = EndOf(block[k - 1]) + gap
<1> DEFINE n == Len(paths)
           rest(k) == IF k > 1 THEN gap ELSE 0
           length == [k \in 1 .. n |-> LengthOf(paths[k])]
           leg == [k \in 1 .. n |-> rest(k) + LengthOf(paths[k])]
           Sums(g) == g = [k \in 0 .. n |-> IF k = 0 THEN 0
                                             ELSE g[k - 1] + (rest(k) + LengthOf(paths[k]))]
           end == CHOOSE g : Sums(g)
           block == Placed(paths, gap)
           S == [path : Seq(Int), flight : Nat, start : Nat, rest : Nat]
<1>1. n \in Nat \ {0} /\ DOMAIN paths = 1 .. n /\ \A k \in 1 .. n : paths[k] \in Seq(Int)
  OBVIOUS
<1>2. \A k \in 1 .. n : length[k] \in Nat /\ length[k] = LengthOf(paths[k])
  <2> TAKE k \in 1 .. n
  <2>1. Len(paths[k]) - 1 \in 0 .. Len(paths[k]) - 1 /\ IsPath(paths[k])
    BY <1>1, WalkedGrows
  <2>2. QED BY <2>1, WalkedGrows DEF LengthOf
<1>3. Sums(end)
  <2>1. PICK g : g = [k \in 0 .. n |-> IF k = 0 THEN 0 ELSE g[k - 1] + leg[k]]
    BY <1>1, SumsExist
  <2>2. \A k \in 0 .. n : (IF k = 0 THEN 0 ELSE g[k - 1] + leg[k])
                          = (IF k = 0 THEN 0 ELSE g[k - 1] + (rest(k) + LengthOf(paths[k])))
    BY <1>1
  <2>3. Sums(g)
    BY <2>1, <2>2
  <2> HIDE DEF Sums
  <2>4. QED BY <2>3
<1>4. block = [k \in 1 .. n |-> [path |-> paths[k], flight |-> LengthOf(paths[k]),
                                 start |-> end[k - 1] + rest(k), rest |-> rest(k)]]
  BY <1>1 DEF Placed
<1> HIDE DEF end
<1>5. end[0] = 0 /\ \A k \in 1 .. n : end[k] = end[k - 1] + (rest(k) + length[k])
  <2>1. \A k \in 0 .. n : end[k] = IF k = 0 THEN 0 ELSE end[k - 1] + (rest(k) + LengthOf(paths[k]))
    BY <1>3
  <2> HIDE DEF length
  <2>2. QED BY <1>1, <1>2, <2>1
<1>6. \A k \in 1 .. n : rest(k) \in Nat /\ (k > 1 => rest(k) = gap) /\ (k = 1 => rest(k) = 0)
  OBVIOUS
<1> HIDE DEF length, rest, n, block, S
<1>7. \A k \in 0 .. n : end[k] \in Nat
  <2> DEFINE bad == { k \in 0 .. n : end[k] \notin Nat }
  <2>1. SUFFICES ASSUME bad # {} PROVE FALSE
    OBVIOUS
  <2>2. PICK k \in bad : \A j \in bad : k <= j
    <3>1. bad \subseteq Nat
      OBVIOUS
    <3>2. QED BY <2>1, <3>1, LeastNumber
  <2>3. k \in 1 .. n /\ k - 1 \in 0 .. n /\ ~(k <= k - 1)
    BY <1>1, <1>5, <2>2
  <2>4. end[k - 1] \in Nat
    BY <2>2, <2>3
  <2>5. /\ end[k] = end[k - 1] + (rest(k) + length[k]) /\ rest(k) \in Nat /\ length[k] \in Nat
        /\ end[k] \notin Nat
    BY <1>2, <1>5, <1>6, <2>2, <2>3
  <2>6. QED BY <2>4, <2>5
<1>8. \A k \in 1 .. n :
        /\ block[k].path = paths[k] /\ block[k].flight = length[k]
        /\ block[k].start = end[k - 1] + rest(k) /\ block[k].rest = rest(k)
        /\ end[k - 1] \in Nat /\ block[k].start \in Nat /\ EndOf(block[k]) = end[k]
        /\ block[k] \in S
  <2> TAKE k \in 1 .. n
  <2>1. block[k] = [path |-> paths[k], flight |-> length[k], start |-> end[k - 1] + rest(k), rest |-> rest(k)]
    BY <1>2, <1>4
  <2>2. k - 1 \in 0 .. n
    BY <1>1
  <2>3. end[k - 1] \in Nat /\ rest(k) \in Nat /\ length[k] \in Nat /\ paths[k] \in Seq(Int)
    BY <1>1, <1>2, <1>6, <1>7, <2>2
  <2>4. end[k] = end[k - 1] + (rest(k) + length[k])
    BY <1>5
  <2>5. QED BY <2>1, <2>3, <2>4 DEF EndOf, S
<1>9. \A k \in 2 .. n : block[k].rest = gap /\ block[k].start = EndOf(block[k - 1]) + gap
  <2> TAKE k \in 2 .. n
  <2>1. k \in 1 .. n /\ k - 1 \in 1 .. n /\ k > 1
    BY <1>1
  <2>2. QED BY <1>6, <1>8, <2>1
<1>10. DOMAIN block = 1 .. n /\ block \in Seq(S) /\ block # <<>>
  <2>1. block = [k \in 1 .. n |-> block[k]]
    BY <1>4
  <2>2. \A k \in 1 .. n : block[k] \in S
    BY <1>8
  <2>3. block \in Seq(S) /\ block # <<>>
    <3>1. n \in Nat /\ n # 0
      BY <1>1
    <3>2. QED BY <2>1, <2>2, <3>1, AsSequence
  <2>4. DOMAIN block = 1 .. n
    BY <2>1
  <2> HIDE DEF Sums
  <2>5. QED BY <2>3, <2>4
<1>11. ASSUME NEW k \in 1 .. n
       PROVE  /\ IsPath(block[k].path) /\ block[k].flight = LengthOf(block[k].path)
              /\ k > 1 => EndOf(block[k - 1]) <= block[k].start
  <2>1. IsPath(block[k].path) /\ block[k].flight = LengthOf(block[k].path)
    BY <1>1, <1>2, <1>8
  <2>2. ASSUME k > 1
        PROVE  EndOf(block[k - 1]) <= block[k].start
    <3>1. k \in 2 .. n /\ k - 1 \in 1 .. n /\ k - 1 \in 0 .. n
      BY <1>1, <2>2
    <3>2. EndOf(block[k - 1]) = end[k - 1] /\ end[k - 1] \in Nat
      BY <1>7, <1>8, <3>1
    <3>3. QED BY <1>9, <3>1, <3>2
  <2>3. QED BY <2>1, <2>2
<1>12. IsBlock(block)
  BY <1>10, <1>11 DEF IsBlock, S
<1>13. block[1].start = 0
  <2>1. 1 \in 1 .. n /\ 1 - 1 = 0
    BY <1>1
  <2>2. QED BY <1>5, <1>6, <1>8, <2>1
<1>14. QED BY <1>1, <1>9, <1>10, <1>12, <1>13 DEF n, block

LEMMA DelayedIsBlock ==
  ASSUME NEW items, IsBlock(items), NEW d \in Nat
  PROVE  /\ IsBlock(Delayed(items, d)) /\ DOMAIN Delayed(items, d) = DOMAIN items
         /\ \A k \in DOMAIN items : /\ Delayed(items, d)[k].path = items[k].path
                                    /\ Delayed(items, d)[k].flight = items[k].flight
                                    /\ Delayed(items, d)[k].start = items[k].start + d
<1> DEFINE S == [path : Seq(Int), flight : Nat, start : Nat, rest : Nat]
           late == Delayed(items, d)
<1>1. /\ Len(items) \in Nat \ {0} /\ DOMAIN items = 1 .. Len(items)
      /\ \A k \in DOMAIN items :
           /\ items[k] \in S
           /\ IsPath(items[k].path) /\ items[k].flight = LengthOf(items[k].path)
           /\ k > 1 => EndOf(items[k - 1]) <= items[k].start
  BY BlockFacts
<1>2. DOMAIN late = 1 .. Len(items)
  BY <1>1 DEF Delayed
<1>3. \A k \in 1 .. Len(items) :
        /\ late[k] \in S /\ late[k].path = items[k].path /\ late[k].flight = items[k].flight
        /\ late[k].start = items[k].start + d
  <2> TAKE k \in 1 .. Len(items)
  <2>1. items[k] \in S /\ items[k].start + d \in Nat
    BY <1>1
  <2>2. late[k] = [items[k] EXCEPT !.start = @ + d]
    BY <1>1 DEF Delayed
  <2>3. QED BY <2>1, <2>2
<1> HIDE DEF late, S
<1>4. late \in Seq(S) /\ late # <<>>
  <2>1. late = [k \in 1 .. Len(items) |-> late[k]]
    BY <1>2 DEF late, Delayed
  <2>2. late \in Seq(S)
    BY <1>1, <1>3, <2>1
  <2>3. QED BY <1>1, <1>2, <2>2
<1>5. \A k \in 1 .. Len(items) : k > 1 => EndOf(late[k - 1]) <= late[k].start
  <2> TAKE k \in 1 .. Len(items)
  <2> SUFFICES ASSUME k > 1 PROVE EndOf(late[k - 1]) <= late[k].start
    OBVIOUS
  <2>1. k - 1 \in 1 .. Len(items)
    BY <1>1
  <2>2. /\ items[k - 1].start \in Nat /\ items[k - 1].flight \in Nat /\ items[k].start \in Nat
        /\ items[k - 1].start + items[k - 1].flight <= items[k].start
    BY <1>1, <2>1 DEF EndOf, S
  <2>3. /\ late[k - 1].start = items[k - 1].start + d /\ late[k - 1].flight = items[k - 1].flight
        /\ late[k].start = items[k].start + d
    BY <1>3, <2>1
  <2>4. QED BY <2>2, <2>3 DEF EndOf
<1>6. IsBlock(late)
  BY <1>1, <1>2, <1>3, <1>4, <1>5 DEF IsBlock, S
<1>7. QED BY <1>1, <1>2, <1>3, <1>6 DEF late

LEMMA ReversedIsBlock ==
  ASSUME NEW items, IsBlock(items)
  PROVE  /\ IsBlock(Reversed(items)) /\ DOMAIN Reversed(items) = DOMAIN items
         /\ \A k \in DOMAIN items : /\ Reversed(items)[k].start = items[k].start
                                    /\ Reversed(items)[k].flight = items[k].flight
<1> DEFINE S == [path : Seq(Int), flight : Nat, start : Nat, rest : Nat]
           back == Reversed(items)
<1>1. /\ Len(items) \in Nat \ {0} /\ DOMAIN items = 1 .. Len(items)
      /\ \A k \in DOMAIN items :
           /\ items[k] \in S
           /\ IsPath(items[k].path) /\ items[k].flight = LengthOf(items[k].path)
           /\ k > 1 => EndOf(items[k - 1]) <= items[k].start
  BY BlockFacts
<1>2. DOMAIN back = 1 .. Len(items)
  BY <1>1 DEF Reversed
<1>3. \A k \in 1 .. Len(items) :
        /\ back[k] \in S /\ back[k].start = items[k].start /\ back[k].flight = items[k].flight
        /\ IsPath(back[k].path) /\ back[k].flight = LengthOf(back[k].path)
  <2> TAKE k \in 1 .. Len(items)
  <2>1. items[k] \in S /\ IsPath(items[k].path) /\ items[k].flight = LengthOf(items[k].path)
    BY <1>1
  <2>2. back[k] = [items[k] EXCEPT !.path = Backwards(items[k].path)]
    BY <1>1 DEF Reversed, Backwards
  <2>3. IsPath(Backwards(items[k].path)) /\ LengthOf(Backwards(items[k].path)) = LengthOf(items[k].path)
    BY <2>1, BackwardsIsAsLong
  <2>4. Backwards(items[k].path) \in Seq(Int)
    BY <2>3 DEF IsPath
  <2>5. QED BY <2>1, <2>2, <2>3, <2>4
<1> HIDE DEF back, S
<1>4. back \in Seq(S) /\ back # <<>>
  <2>1. back = [k \in 1 .. Len(items) |-> back[k]]
    BY <1>2 DEF back, Reversed
  <2>2. back \in Seq(S)
    BY <1>1, <1>3, <2>1
  <2>3. QED BY <1>1, <1>2, <2>2
<1>5. \A k \in 1 .. Len(items) : k > 1 => EndOf(back[k - 1]) <= back[k].start
  <2> TAKE k \in 1 .. Len(items)
  <2> SUFFICES ASSUME k > 1 PROVE EndOf(back[k - 1]) <= back[k].start
    OBVIOUS
  <2>1. k - 1 \in 1 .. Len(items)
    BY <1>1
  <2>2. QED BY <1>1, <1>3, <2>1 DEF EndOf
<1>6. IsBlock(back)
  BY <1>1, <1>2, <1>3, <1>4, <1>5 DEF IsBlock, S
<1>7. QED BY <1>1, <1>2, <1>3, <1>6 DEF back

-----------------------------------------------------------------------------
(* Tracks *)

(* The samples of a sortie are strictly between its start and its end. *)
LEMMA SamplesInFlight ==
  ASSUME NEW s, s.start \in Nat, s.flight \in Nat, NEW t \in SampleTimes(s)
  PROVE  t \in Int /\ s.start < t /\ t < EndOf(s)
<1>1. PICK d \in 1 .. s.flight - 1 : t = s.start + d
  BY DEF SampleTimes
<1>2. QED BY <1>1 DEF EndOf

IsTrack(track) == \A t \in DOMAIN track : t \in Int /\ track[t] \in Int

(* Sorties of a block do not overlap. *)
LEMMA SortiesApart ==
  ASSUME NEW items, IsBlock(items), NEW i \in DOMAIN items, NEW k \in DOMAIN items, NEW t \in Int,
         items[i].start < t, t < EndOf(items[i]), items[k].start < t, t < EndOf(items[k])
  PROVE  i = k
<1>1. /\ Len(items) \in Nat \ {0} /\ DOMAIN items = 1 .. Len(items)
      /\ \A j \in DOMAIN items :
           /\ items[j].start \in Nat /\ items[j].flight \in Nat
           /\ j > 1 => EndOf(items[j - 1]) <= items[j].start
  BY BlockFacts
<1>2. ASSUME NEW l \in DOMAIN items
      PROVE  \A m \in DOMAIN items : l < m => EndOf(items[l]) <= items[m].start
  <2> DEFINE bad == { m \in DOMAIN items : l < m /\ ~(EndOf(items[l]) <= items[m].start) }
  <2>1. SUFFICES ASSUME bad # {} PROVE FALSE
    OBVIOUS
  <2>2. PICK m \in bad : \A j \in bad : m <= j
    <3>1. bad \subseteq Nat
      BY <1>1
    <3>2. QED BY <2>1, <3>1, LeastNumber
  <2>3. /\ m \in DOMAIN items /\ m - 1 \in DOMAIN items /\ l <= m - 1 /\ m > 1 /\ l < m
        /\ ~(m <= m - 1)
    BY <1>1, <2>2
  <2>4. EndOf(items[m - 1]) <= items[m].start
    BY <1>1, <2>3
  <2>5. l = m - 1 \/ EndOf(items[l]) <= items[m - 1].start
    BY <1>1, <2>2, <2>3
  <2>6. /\ items[m - 1].start \in Nat /\ items[m - 1].flight \in Nat /\ items[m].start \in Nat
        /\ items[l].start \in Nat /\ items[l].flight \in Nat
    BY <1>1, <2>3
  <2>7. EndOf(items[l]) <= items[m].start
    BY <2>4, <2>5, <2>6 DEF EndOf
  <2>8. QED BY <2>2, <2>7
<1>3. ~(i < k) /\ ~(k < i)
  BY <1>1, <1>2 DEF EndOf
<1>4. QED BY <1>1, <1>3

(* A track has the positions of the sortie that is sampled then. *)
LEMMA TrackOfBlock ==
  ASSUME NEW items, IsBlock(items)
  PROVE  /\ DOMAIN Track(items) = UNION { SampleTimes(items[i]) : i \in DOMAIN items }
         /\ IsTrack(Track(items))
         /\ \A i \in DOMAIN items : \A t \in SampleTimes(items[i]) :
              Track(items)[t] = PointOnPath(items[i].path, t - items[i].start)
<1> DEFINE of(t) == CHOOSE i \in DOMAIN items : t \in SampleTimes(items[i])
           times == UNION { SampleTimes(items[i]) : i \in DOMAIN items }
<1>1. Track(items) = [t \in times |-> PointOnPath(items[of(t)].path, t - items[of(t)].start)]
  BY DEF Track
<1>2. /\ Len(items) \in Nat \ {0} /\ DOMAIN items = 1 .. Len(items)
      /\ \A i \in DOMAIN items :
           /\ items[i].start \in Nat /\ items[i].flight \in Nat
           /\ IsPath(items[i].path) /\ items[i].flight = LengthOf(items[i].path)
  BY BlockFacts
<1>3. \A i \in DOMAIN items : \A t \in SampleTimes(items[i]) :
        t \in Int /\ items[i].start < t /\ t < EndOf(items[i])
  BY <1>2, SamplesInFlight
<1>4. \A i, k \in DOMAIN items : \A t \in SampleTimes(items[i]) : t \in SampleTimes(items[k]) => i = k
  BY <1>3, SortiesApart
<1> HIDE DEF of
<1>5. \A i \in DOMAIN items : \A t \in SampleTimes(items[i]) : of(t) = i
  BY <1>4 DEF of
<1>6. \A i \in DOMAIN items : \A t \in SampleTimes(items[i]) :
        Track(items)[t] = PointOnPath(items[i].path, t - items[i].start)
  BY <1>1, <1>5
<1>7. \A i \in DOMAIN items : \A t \in SampleTimes(items[i]) : t \in Int /\ Track(items)[t] \in Int
  <2> TAKE i \in DOMAIN items
  <2> TAKE t \in SampleTimes(items[i])
  <2>1. t \in Int /\ t - items[i].start \in 0 .. LengthOf(items[i].path) /\ IsPath(items[i].path)
    BY <1>2, <1>3 DEF EndOf
  <2>2. PointOnPath(items[i].path, t - items[i].start) \in Int
    BY <2>1, PointIsTyped
  <2>3. QED BY <1>6, <2>1, <2>2
<1>8. DOMAIN Track(items) = times
  BY <1>1
<1>9. QED BY <1>6, <1>7, <1>8 DEF IsTrack

(* Where a track is read it has samples on both sides. *)
LEMMA Neighbours ==
  ASSUME NEW track, IsTrack(track), NEW t \in Int, Covers(track, t)
  PROVE  LET t0 == Max({ u \in DOMAIN track : u <= t })
             t1 == Min({ u \in DOMAIN track : u >= t })
         IN /\ t0 \in DOMAIN track /\ t0 \in Int /\ t0 <= t /\ \A u \in DOMAIN track : u <= t => u <= t0
            /\ t1 \in DOMAIN track /\ t1 \in Int /\ t <= t1 /\ \A u \in DOMAIN track : t <= u => t1 <= u
<1> DEFINE before == { u \in DOMAIN track : u <= t }
           after == { u \in DOMAIN track : u >= t }
<1>1. before \subseteq Int /\ after \subseteq Int
  BY DEF IsTrack
<1>2. before # {} /\ after # {}
  <2>1. PICK t0, t1 \in DOMAIN track : t0 <= t /\ t <= t1
    BY DEF Covers
  <2>2. t1 \in Int
    BY <2>1 DEF IsTrack
  <2>3. t0 \in before /\ t1 \in after
    BY <2>1, <2>2
  <2>4. QED BY <2>3
<1>3. Max(before) \in before /\ \A x \in before : x <= Max(before)
  BY <1>1, <1>2, MaxOfBounded
<1>4. Min(after) \in after /\ \A x \in after : Min(after) <= x
  <2>1. \A x \in after : t <= x
    BY <1>1
  <2>2. QED BY <1>1, <1>2, <2>1, MinOfBounded
<1> DEFINE t0 == Max(before)
           t1 == Min(after)
<1>5. t0 \in before /\ t1 \in after /\ t0 \in Int /\ t1 \in Int
  BY <1>1, <1>3, <1>4
<1>6. \A u \in DOMAIN track : (u <= t => u <= t0) /\ (t <= u => t1 <= u)
  BY <1>3, <1>4 DEF IsTrack
<1> HIDE DEF t0, t1
<1>7. t <= t1
  BY <1>5
<1>8. QED BY <1>5, <1>6, <1>7 DEF t0, t1

LEMMA PosIsTyped ==
  ASSUME NEW track, IsTrack(track), NEW t \in Int, Covers(track, t)
  PROVE  PosAt(track, t).num \in Int /\ PosAt(track, t).den \in Nat \ {0}
<1> DEFINE t0 == Max({ u \in DOMAIN track : u <= t })
           t1 == Min({ u \in DOMAIN track : u >= t })
<1>1. t0 \in Int /\ t0 <= t /\ t1 \in Int /\ t <= t1 /\ track[t0] \in Int /\ track[t1] \in Int
  BY Neighbours DEF IsTrack
<1>2. PosAt(track, t) = IF t0 = t1 THEN [num |-> track[t0], den |-> 1]
                        ELSE [num |-> track[t0] * (t1 - t0) + (t - t0) * (track[t1] - track[t0]),
                              den |-> t1 - t0]
  BY DEF PosAt
<1> HIDE DEF t0, t1
<1>3. CASE t0 = t1
  BY <1>1, <1>2, <1>3
<1>4. CASE t0 # t1
  <2>1. t1 - t0 \in Nat \ {0} /\ t - t0 \in Int /\ track[t1] - track[t0] \in Int
    BY <1>1, <1>4
  <2>2. track[t0] * (t1 - t0) + (t - t0) * (track[t1] - track[t0]) \in Int
    BY <1>1, <2>1
  <2>3. QED BY <1>2, <1>4, <2>1, <2>2
<1>5. QED BY <1>3, <1>4

(* It does not matter which of two tracks comes first. *)
LEMMA ConflictIsMutual ==
  ASSUME NEW a, NEW b, IsTrack(a), IsTrack(b), Conflict(a, b)
  PROVE  Conflict(b, a)
<1> USE SeparationAssumption
<1>1. PICK t \in DOMAIN a \cup DOMAIN b, shift \in Shifts :
        /\ Covers(a, t + shift) /\ Covers(b, t + shift)
        /\ TooClose(PosAt(a, t + shift), PosAt(b, t + shift))
  BY DEF Conflict
<1>2. t + shift \in Int
  BY <1>1 DEF IsTrack, Shifts
<1> DEFINE p == PosAt(a, t + shift)
           q == PosAt(b, t + shift)
<1>3. p.num \in Int /\ p.den \in Int /\ q.num \in Int /\ q.den \in Int
  BY <1>1, <1>2, PosIsTyped
<1> HIDE DEF p, q
<1>4. TooClose(p, q)
  BY <1>1 DEF p, q
<1>5. TooClose(q, p)
  <2> DEFINE x == p.num * q.den
             y == q.num * p.den
             m == MinSeparation * p.den * q.den
  <2>1. x \in Int /\ y \in Int /\ MinSeparation \in Int
    BY <1>3
  <2>2. MinSeparation * q.den * p.den = m
    BY <1>3, <2>1
  <2>3. Abs(x - y) < m
    BY <1>4 DEF TooClose
  <2>4. Abs(y - x) = Abs(x - y)
    BY <2>1 DEF Abs
  <2>5. QED BY <2>2, <2>3, <2>4 DEF TooClose
<1>6. QED BY <1>1, <1>5 DEF Conflict, p, q

-----------------------------------------------------------------------------
(* Boards are moved as a whole *)

Moved(b) ==
  \E d \in Nat, block \in {given[b], Reversed(given[b])} : schedule[b] = Delayed(block, d)

(* Boards not yet looked at are as they were packed, the others moved. *)
Moving ==
  /\ given \in Packs /\ DOMAIN schedule = Boards
  /\ delay \in Nat /\ asPacked \in Nat /\ reversing \in BOOLEAN
  /\ \A b \in Boards : Moved(b)
  /\ schedule[1] = given[1]
  /\ phase = "detect" => schedule = given /\ delay = 0 /\ ~reversing
  /\ phase = "search" => board \in Boards \ {1} /\ \A b \in Boards : b >= board => schedule[b] = given[b]
  /\ phase \in {"detect", "search", "done"}

LEMMA BoardsAreNumbers ==
  Cardinality(Boards) \in Nat /\ Boards = 1 .. Cardinality(Boards)
BY SeparationAssumption, FS_CardinalityType

LEMMA ScheduleIsBlocks ==
  ASSUME Moving
  PROVE  /\ \A b \in Boards : IsBlock(given[b]) /\ IsBlock(schedule[b])
         /\ phase = "search" => IsBlock(Candidate)
<1>1. \A b \in Boards : IsBlock(given[b]) /\ IsBlock(Reversed(given[b]))
  BY PacksAssumption, ReversedIsBlock DEF Moving
<1>2. ASSUME NEW b \in Boards
      PROVE  IsBlock(schedule[b])
  <2>1. PICK d \in Nat, block \in {given[b], Reversed(given[b])} : schedule[b] = Delayed(block, d)
    BY DEF Moving, Moved
  <2>2. IsBlock(block)
    BY <1>1, <2>1
  <2>3. QED BY <2>1, <2>2, DelayedIsBlock
<1>3. ASSUME phase = "search"
      PROVE  IsBlock(Candidate)
  <2>1. board \in Boards
    BY <1>3 DEF Moving
  <2>2. QED BY <1>2, <2>1, ReversedIsBlock DEF Candidate
<1>4. QED BY <1>1, <1>2, <1>3

LEMMA TimesOfBlock ==
  ASSUME NEW items, IsBlock(items)
  PROVE  /\ Ends(items) \subseteq Nat /\ Ends(items) # {} /\ IsFiniteSet(Ends(items))
         /\ Starts(items) \subseteq Nat /\ Starts(items) # {}
         /\ \A k \in DOMAIN items : EndOf(items[k]) \in Ends(items) /\ items[k].start \in Starts(items)
<1>1. /\ Len(items) \in Nat \ {0} /\ DOMAIN items = 1 .. Len(items)
      /\ \A k \in DOMAIN items : items[k].start \in Nat /\ items[k].flight \in Nat
  BY BlockFacts
<1> DEFINE e == [k \in DOMAIN items |-> EndOf(items[k])]
<1>2. Ends(items) = { e[k] : k \in DOMAIN items }
  BY DEF Ends
<1>3. IsFiniteSet(DOMAIN items)
  BY <1>1, FS_Interval
<1>4. IsFiniteSet(Ends(items))
  <2> HIDE DEF e
  <2>1. QED BY <1>2, <1>3, FiniteRange
<1>5. \A k \in DOMAIN items : EndOf(items[k]) \in Nat
  BY <1>1 DEF EndOf
<1>6. 1 \in DOMAIN items
  BY <1>1
<1>7. QED BY <1>1, <1>4, <1>5, <1>6 DEF Ends, Starts

(* The landings of some boards have a last one. *)
LEMMA LastLanding ==
  ASSUME Moving, NEW S, S \subseteq Boards, S # {}
  PROVE  LET last == Max(UNION { Ends(schedule[b]) : b \in S })
         IN /\ last \in Nat
            /\ \A b \in S : \A k \in DOMAIN schedule[b] : EndOf(schedule[b][k]) <= last
            /\ \E b \in S : \E k \in DOMAIN schedule[b] : EndOf(schedule[b][k]) = last
<1> DEFINE e == [b \in Boards |-> Ends(schedule[b])]
           all == UNION { Ends(schedule[b]) : b \in S }
<1>1. \A b \in S : IsBlock(schedule[b])
  BY ScheduleIsBlocks
<1>2. all \subseteq Nat /\ all # {}
  BY <1>1, TimesOfBlock
<1>3. IsFiniteSet(all)
  <2>1. IsFiniteSet(S)
    BY SeparationAssumption, FS_Subset
  <2>2. \A b \in S : e[b] = Ends(schedule[b]) /\ IsFiniteSet(e[b])
    BY <1>1, TimesOfBlock
  <2>3. all = UNION { e[b] : b \in S }
    BY <2>2
  <2> HIDE DEF e
  <2>4. IsFiniteSet({ e[b] : b \in S }) /\ \A T \in { e[b] : b \in S } : IsFiniteSet(T)
    BY <2>1, <2>2, FiniteRange
  <2>5. IsFiniteSet(UNION { e[b] : b \in S })
    <3> DEFINE parts == { e[b] : b \in S }
    <3> HIDE DEF parts
    <3>1. IsFiniteSet(parts) /\ \A T \in parts : IsFiniteSet(T)
      BY <2>4 DEF parts
    <3>2. QED BY <3>1, FS_UNION DEF parts
  <2>6. QED BY <2>3, <2>5
<1>4. Max(all) \in all /\ \A x \in all : x <= Max(all)
  <2> HIDE DEF all
  <2>1. all \subseteq Int
    BY <1>2
  <2>2. PICK u \in Int : \A x \in all : x <= u
    BY <1>3, <2>1, FiniteIsBounded
  <2>3. QED BY <1>2, <2>1, <2>2, MaxOfBounded
<1>5. \A b \in S : \A k \in DOMAIN schedule[b] : EndOf(schedule[b][k]) \in all
  BY DEF Ends
<1>6. \A x \in all : \E b \in S : \E k \in DOMAIN schedule[b] : EndOf(schedule[b][k]) = x
  BY DEF Ends
<1> HIDE DEF all
<1>7. Max(all) \in Nat
  BY <1>2, <1>4
<1>8. QED BY <1>4, <1>5, <1>6, <1>7 DEF all

LEMMA CapIsLate ==
  ASSUME Moving, Boards # {}
  PROVE  /\ DelayCap \in Nat
         /\ DelayCap >= 4 * (Max(UNION { Ends(schedule[b]) : b \in Boards }) + Margin)
<1> USE SeparationAssumption
<1> DEFINE last == Max(UNION { Ends(schedule[b]) : b \in Boards })
           two == { 4 * (last + Margin), MinCap }
<1>1. last \in Nat
  BY LastLanding
<1> HIDE DEF last
<1>2. two \subseteq Int /\ two # {} /\ 4 * (last + Margin) \in Nat /\ MinCap \in Nat
  BY <1>1
<1>3. Max(two) \in two /\ \A x \in two : x <= Max(two)
  <2>1. \A x \in two : x <= 4 * (last + Margin) + MinCap
    BY <1>2
  <2>2. 4 * (last + Margin) + MinCap \in Int
    BY <1>2
  <2> HIDE DEF two
  <2>3. QED BY <1>2, <2>1, <2>2, MaxOfBounded
<1>4. DelayCap = Max(two)
  BY DEF DelayCap, last
<1>5. QED BY <1>2, <1>3, <1>4 DEF last

(* A board that waits until those in its way have landed has no conflict with
   them: who is in the way has an end after the start of the trial. *)
LEMMA OthersAreUp ==
  ASSUME Moving, phase = "search", NEW a \in Others
  PROVE  /\ a \in Boards \ {board}
         /\ \E k \in DOMAIN schedule[a], j \in DOMAIN Candidate :
              Candidate[j].start + delay < EndOf(schedule[a][k])
<1> DEFINE trial == Delayed(Candidate, delay)
<1>1. a \in Boards \ {board} /\ board \in Boards /\ DOMAIN schedule = Boards
  BY DEF Others, ConflictsOf, Moving
<1>2. Conflict(Track(schedule[a]), Track(trial))
  <2>1. Tried[a] = schedule[a] /\ Tried[board] = trial
    BY <1>1 DEF Tried
  <2>2. QED BY <2>1 DEF Others, ConflictsOf
<1>3. PICK t \in DOMAIN Track(schedule[a]) \cup DOMAIN Track(trial), shift \in Shifts :
        Covers(Track(schedule[a]), t + shift) /\ Covers(Track(trial), t + shift)
  BY <1>2 DEF Conflict
<1>4. IsBlock(schedule[a]) /\ IsBlock(Candidate) /\ delay \in Nat
  BY <1>1, ScheduleIsBlocks DEF Moving
<1>5. IsBlock(trial) /\ DOMAIN trial = DOMAIN Candidate
      /\ \A k \in DOMAIN Candidate : trial[k].start = Candidate[k].start + delay
  BY <1>4, DelayedIsBlock
<1> HIDE DEF trial
<1>6. t + shift \in Int
  <2>1. IsTrack(Track(schedule[a])) /\ IsTrack(Track(trial))
    BY <1>4, <1>5, TrackOfBlock
  <2>2. t \in Int
    BY <2>1 DEF IsTrack
  <2>3. QED BY <2>2, SeparationAssumption DEF Shifts
<1>7. PICK t1 \in DOMAIN Track(schedule[a]) : t + shift <= t1
  BY <1>3 DEF Covers
<1>8. PICK k \in DOMAIN schedule[a] : t1 \in SampleTimes(schedule[a][k])
  <2>1. DOMAIN Track(schedule[a]) = UNION { SampleTimes(schedule[a][i]) : i \in DOMAIN schedule[a] }
    BY <1>4, TrackOfBlock
  <2>2. QED BY <1>7, <2>1
<1>9. PICK t0 \in DOMAIN Track(trial) : t0 <= t + shift
  BY <1>3 DEF Covers
<1>10. PICK j \in DOMAIN Candidate : t0 \in SampleTimes(trial[j])
  <2>1. DOMAIN Track(trial) = UNION { SampleTimes(trial[i]) : i \in DOMAIN trial }
    BY <1>5, TrackOfBlock
  <2>2. QED BY <1>5, <1>9, <2>1
<1>11. t1 \in Int /\ t1 < EndOf(schedule[a][k]) /\ EndOf(schedule[a][k]) \in Int
  <2>1. schedule[a][k].start \in Nat /\ schedule[a][k].flight \in Nat
    BY <1>4, <1>8, BlockFacts
  <2>2. QED BY <1>8, <2>1, SamplesInFlight DEF EndOf
<1>12. t0 \in Int /\ trial[j].start < t0 /\ trial[j].start = Candidate[j].start + delay
       /\ trial[j].start \in Int
  <2>1. trial[j].start \in Nat /\ trial[j].flight \in Nat
    BY <1>5, <1>10, BlockFacts
  <2>2. QED BY <1>5, <1>10, <2>1, SamplesInFlight
<1>13. Candidate[j].start + delay < EndOf(schedule[a][k])
  BY <1>6, <1>7, <1>9, <1>11, <1>12
<1>14. QED BY <1>1, <1>13

(* So a turn of the loop moves it on, and never past the bound. *)
LEMMA JumpIsForward ==
  ASSUME Moving, phase = "search", Others # {}
  PROVE  NextDelay \in Nat /\ delay < NextDelay /\ NextDelay <= DelayCap
<1> USE SeparationAssumption
<1> DEFINE L == Max(UNION { Ends(schedule[b]) : b \in Others })
           last == Max(UNION { Ends(schedule[b]) : b \in Boards })
           m == Min(Starts(Candidate))
<1>1. Others \subseteq Boards /\ Boards # {}
  BY DEF Others, ConflictsOf
<1>2. L \in Nat /\ \A b \in Others : \A k \in DOMAIN schedule[b] : EndOf(schedule[b][k]) <= L
  BY <1>1, LastLanding
<1>3. last \in Nat /\ L <= last
  <2>1. PICK b \in Others : \E k \in DOMAIN schedule[b] : EndOf(schedule[b][k]) = L
    BY <1>1, LastLanding
  <2>2. last \in Nat /\ \A k \in DOMAIN schedule[b] : EndOf(schedule[b][k]) <= last
    BY <1>1, LastLanding
  <2>3. QED BY <2>1, <2>2
<1>4. m \in Nat /\ \A k \in DOMAIN Candidate : m <= Candidate[k].start /\ Candidate[k].start \in Nat
  <2>1. IsBlock(Candidate)
    BY ScheduleIsBlocks
  <2>2. /\ Starts(Candidate) \subseteq Nat /\ Starts(Candidate) # {}
        /\ \A k \in DOMAIN Candidate : Candidate[k].start \in Starts(Candidate)
    BY <2>1, TimesOfBlock
  <2>3. Starts(Candidate) \subseteq Int /\ \A x \in Starts(Candidate) : 0 <= x
    BY <2>2
  <2>4. m \in Starts(Candidate) /\ \A x \in Starts(Candidate) : m <= x
    BY <2>2, <2>3, MinOfBounded
  <2>5. QED BY <2>2, <2>4
<1>5. NextDelay = IF L - m + SampleDt <= delay THEN delay + SampleDt ELSE L - m + SampleDt
  BY DEF NextDelay
<1>6. DelayCap \in Nat /\ DelayCap >= 4 * (last + Margin)
  BY <1>1, CapIsLate
<1> HIDE DEF L, last, m
<1>7. m + delay < L
  <2>1. PICK a \in Others : TRUE
    OBVIOUS
  <2>2. PICK k \in DOMAIN schedule[a], j \in DOMAIN Candidate :
          Candidate[j].start + delay < EndOf(schedule[a][k])
    BY <2>1, OthersAreUp
  <2>3. EndOf(schedule[a][k]) <= L /\ m <= Candidate[j].start /\ Candidate[j].start \in Nat
    BY <1>2, <1>4
  <2>4. IsBlock(schedule[a])
    BY <1>1, ScheduleIsBlocks
  <2>5. EndOf(schedule[a][k]) \in Nat
    BY <2>4, TimesOfBlock
  <2>6. delay \in Nat
    BY DEF Moving
  <2>7. QED BY <1>2, <1>4, <2>2, <2>3, <2>5, <2>6
<1>8. delay \in Nat
  BY DEF Moving
<1>9. QED BY <1>2, <1>3, <1>4, <1>5, <1>6, <1>7, <1>8

LEMMA MovingStep ==
  ASSUME Moving, [Next]_vars
  PROVE  Moving'
<1> USE SeparationAssumption
<1>0. Cardinality(Boards) \in Nat /\ Boards = 1 .. Cardinality(Boards)
  BY BoardsAreNumbers
<1>1. CASE Detect
  <2>1. CASE Clean(schedule)
    BY <1>1, <2>1 DEF Detect, Moving, Moved
  <2>2. CASE ~Clean(schedule)
    <3>1. 2 \in Boards
      <4>1. PICK a, b \in Boards : a # b
        BY <2>2 DEF Clean, ConflictsOf
      <4>2. QED BY <1>0, <4>1
    <3>2. schedule = given /\ \A b \in Boards : schedule[b] = given[b]
      BY <1>1 DEF Detect, Moving
    <3>3. QED BY <1>1, <2>2, <3>1, <3>2 DEF Detect, Moving, Moved
  <2>3. QED BY <2>1, <2>2
<1>2. CASE Jump
  <2>1. NextDelay \in Nat
    BY <1>2, JumpIsForward DEF Jump
  <2>2. QED BY <1>2, <2>1 DEF Jump, Moving, Moved
<1>3. CASE TryReversed
  <2>1. Found \in Nat
    <3>1. Boards # {}
      BY <1>3 DEF TryReversed, Returns, Moving
    <3>2. QED BY <3>1, CapIsLate DEF Found, Moving
  <2>2. QED BY <1>3, <2>1 DEF TryReversed, Returns, Moving, Moved
<1>4. CASE Adopt
  <2>1. phase = "search" /\ reversing /\ board \in Boards \ {1} /\ schedule[board] = given[board]
    BY <1>0, <1>4 DEF Adopt, Returns, Moving
  <2>2. Found \in Nat
    <3>1. Boards # {}
      BY <2>1
    <3>2. QED BY <3>1, CapIsLate DEF Found, Moving
  <2>3. schedule'[board] = Best /\ DOMAIN schedule' = Boards
        /\ \A b \in Boards \ {board} : schedule'[b] = schedule[b]
    BY <1>4, <2>1 DEF Adopt, Moving
  <2>4. \E d \in Nat, block \in {given[board], Reversed(given[board])} : Best = Delayed(block, d)
    BY <2>1, <2>2 DEF Best, Candidate, Moving
  <2>5. \A b \in Boards : Moved(b)'
    BY <1>4, <2>3, <2>4 DEF Adopt, Moved, Moving
  <2>6. schedule'[1] = given'[1]
    <3>1. 1 \in Boards
      BY <1>0, <2>1
    <3>2. QED BY <1>4, <2>1, <2>3, <3>1 DEF Adopt, Moving
  <2>7. phase' = "search" => /\ board' \in Boards \ {1}
                             /\ \A b \in Boards : b >= board' => schedule'[b] = given'[b]
    <3> SUFFICES ASSUME phase' = "search"
                 PROVE  /\ board' \in Boards \ {1}
                        /\ \A b \in Boards : b >= board' => schedule'[b] = given'[b]
      OBVIOUS
    <3>1. board # Cardinality(Boards) /\ board' = board + 1
      BY <1>4 DEF Adopt
    <3>2. board' \in Boards \ {1}
      BY <1>0, <2>1, <3>1
    <3>3. \A b \in Boards : b >= board' => b # board /\ b >= board
      BY <1>0, <2>1, <3>1
    <3>4. \A b \in Boards : b >= board => schedule[b] = given[b]
      BY <2>1 DEF Moving
    <3>5. given' = given
      BY <1>4 DEF Adopt
    <3>6. QED BY <2>3, <3>2, <3>3, <3>4, <3>5
  <2>8. /\ given' \in Packs /\ delay' \in Nat /\ asPacked' \in Nat /\ reversing' \in BOOLEAN
        /\ phase' \in {"search", "done"}
    BY <1>4, <2>1 DEF Adopt, Moving
  <2>9. QED BY <2>3, <2>5, <2>6, <2>7, <2>8 DEF Moving
<1>5. CASE UNCHANGED vars
  BY <1>5 DEF vars, Moving, Moved
<1>6. QED BY <1>1, <1>2, <1>3, <1>4, <1>5 DEF Next

LEMMA MovingStarts == Init => Moving
<1> SUFFICES ASSUME Init PROVE Moving
  OBVIOUS
<1>1. given \in Packs /\ schedule = given /\ DOMAIN schedule = Boards
  BY PacksAssumption DEF Init
<1>2. ASSUME NEW b \in Boards
      PROVE  Moved(b)
  <2>1. IsBlock(given[b])
    BY <1>1, PacksAssumption
  <2>2. Delayed(given[b], 0) = given[b]
    <3> DEFINE items == given[b]
    <3>1. \A k \in DOMAIN items : items[k] \in [path : Seq(Int), flight : Nat, start : Nat, rest : Nat]
      BY <2>1, BlockFacts
    <3>2. \A k \in DOMAIN items : [items[k] EXCEPT !.start = @ + 0] = items[k]
      BY <3>1
    <3>3. items = [k \in DOMAIN items |-> items[k]]
      BY <2>1 DEF IsBlock
    <3> HIDE DEF items
    <3>4. Delayed(items, 0) = items
      BY <3>2, <3>3 DEF Delayed
    <3>5. QED BY <3>4 DEF items
  <2>3. QED BY <1>1, <2>2 DEF Moved
<1>3. QED BY <1>1, <1>2 DEF Init, Moving

(* resolve_separation moves blocks, not sorties: the first board stays, every
   other one flies what it was given or the reverse of it, all of it later by
   the same delay, whatever delays the search tried before. *)
THEOREM BoardsMoveAsAWhole == Spec => []MovedAsAWhole
<1>1. Moving => MovedAsAWhole
  <2> SUFFICES ASSUME Moving, NEW b \in Boards
               PROVE  LET d == schedule[b][1].start - given[b][1].start
                      IN /\ d >= 0
                         /\ DOMAIN schedule[b] = DOMAIN given[b]
                         /\ \A k \in DOMAIN schedule[b] : schedule[b][k].start = given[b][k].start + d
                         /\ \E block \in {given[b], Reversed(given[b])} :
                              \A k \in DOMAIN schedule[b] : schedule[b][k].path = block[k].path
    BY DEF MovedAsAWhole, Moving
  <2>1. PICK d \in Nat, block \in {given[b], Reversed(given[b])} : schedule[b] = Delayed(block, d)
    BY DEF Moving, Moved
  <2>2. IsBlock(given[b])
    BY ScheduleIsBlocks
  <2>3. IsBlock(block) /\ DOMAIN block = DOMAIN given[b]
        /\ \A k \in DOMAIN given[b] : block[k].start = given[b][k].start
    BY <2>1, <2>2, ReversedIsBlock
  <2>4. /\ DOMAIN schedule[b] = DOMAIN given[b]
        /\ \A k \in DOMAIN given[b] : /\ schedule[b][k].path = block[k].path
                                      /\ schedule[b][k].start = given[b][k].start + d
    BY <2>1, <2>3, DelayedIsBlock
  <2>5. 1 \in DOMAIN given[b] /\ given[b][1].start \in Nat
    BY <2>2, BlockFacts
  <2>6. schedule[b][1].start - given[b][1].start = d
    BY <2>4, <2>5
  <2>7. QED BY <2>1, <2>4, <2>6
<1>2. QED BY MovingStarts, MovingStep, <1>1, PTL DEF Spec

-----------------------------------------------------------------------------
(* No conflict is left *)

(* Boards that have been moved are in conflict with nobody, those after them
   included; the delay of the block as it was packed has been tried. *)
Separated ==
  /\ phase = "search" =>
       /\ MinSeparation # 0
       /\ delay = 0 \/ delay <= DelayCap
       /\ \A b \in 2 .. board - 1 : ConflictsOf(schedule, b) = {}
       /\ reversing =>
            ConflictsOf([schedule EXCEPT ![board] = Delayed(schedule[board], asPacked)], board) = {}
  /\ phase = "done" => Clean(schedule)

LEMMA ConflictsAreMutual ==
  ASSUME NEW sched, NEW b \in Boards, \A c \in Boards : IsBlock(sched[c]),
         NEW a \in ConflictsOf(sched, b)
  PROVE  a \in Boards \ {b} /\ b \in ConflictsOf(sched, a)
<1>1. a \in Boards \ {b} /\ MinSeparation # 0 /\ Conflict(Track(sched[a]), Track(sched[b]))
  BY DEF ConflictsOf
<1>2. Conflict(Track(sched[b]), Track(sched[a]))
  BY <1>1, TrackOfBlock, ConflictIsMutual
<1>3. QED BY <1>1, <1>2 DEF ConflictsOf

(* When one board is moved and is clean, the others keep the conflicts they had
   with each other, and no more. *)
LEMMA OneBoardMoves ==
  ASSUME NEW sched, NEW moved, NEW c \in Boards,
         \A b \in Boards : IsBlock(moved[b]),
         \A b \in Boards \ {c} : moved[b] = sched[b],
         ConflictsOf(moved, c) = {}
  PROVE  \A b \in Boards \ {c} : ConflictsOf(moved, b) \subseteq ConflictsOf(sched, b)
<1> SUFFICES ASSUME NEW b \in Boards \ {c}, NEW a \in ConflictsOf(moved, b)
             PROVE  a \in ConflictsOf(sched, b)
  OBVIOUS
<1>1. a \in Boards \ {b} /\ b \in ConflictsOf(moved, a)
  BY ConflictsAreMutual
<1>2. a # c
  BY <1>1
<1>3. QED BY <1>1, <1>2 DEF ConflictsOf

LEMMA SeparatedStep ==
  ASSUME Moving, Separated, [Next]_vars
  PROVE  Separated'
<1> USE SeparationAssumption
<1>0. Cardinality(Boards) \in Nat /\ Boards = 1 .. Cardinality(Boards)
  BY BoardsAreNumbers
<1>1. CASE Detect
  <2>1. CASE Clean(schedule)
    BY <1>1, <2>1 DEF Detect, Separated, Clean, ConflictsOf
  <2>2. CASE ~Clean(schedule)
    <3>1. phase' = "search" /\ board' = 2 /\ ~reversing' /\ delay' = 0 /\ schedule' = schedule
      BY <1>1, <2>2 DEF Detect, Moving
    <3>2. MinSeparation # 0
      BY <2>2 DEF Clean, ConflictsOf
    <3>3. QED BY <3>1, <3>2 DEF Separated
  <2>3. QED BY <2>1, <2>2
<1>2. CASE Jump
  <2>1. NextDelay <= DelayCap
    BY <1>2, JumpIsForward DEF Jump
  <2>2. /\ phase' = phase /\ phase = "search" /\ delay' = NextDelay
        /\ schedule' = schedule /\ board' = board /\ reversing' = reversing /\ asPacked' = asPacked
    BY <1>2 DEF Jump
  <2>3. DelayCap' = DelayCap
    BY <2>2 DEF DelayCap
  <2>4. QED BY <2>1, <2>2, <2>3 DEF Separated
<1>3. ASSUME Returns
      PROVE  Others = {} /\ Found = delay /\ phase = "search" /\ Boards # {}
  <2>1. phase = "search" /\ board \in Boards
    BY <1>3 DEF Returns, Moving
  <2>2. DelayCap \in Nat /\ delay \in Nat /\ delay <= DelayCap
    BY <2>1, CapIsLate DEF Moving, Separated
  <2>3. QED BY <1>3, <2>1, <2>2 DEF Returns, Found
<1>4. CASE TryReversed
  <2>1. /\ phase' = "search" /\ delay' = 0 /\ asPacked' = delay /\ phase = "search" /\ Others = {}
        /\ schedule' = schedule /\ board' = board /\ ~reversing
    BY <1>3, <1>4 DEF TryReversed, Returns
  <2>2. ConflictsOf([schedule EXCEPT ![board] = Delayed(schedule[board], delay)], board) = {}
    BY <2>1 DEF Others, Tried, Candidate
  <2>3. ConflictsOf([schedule EXCEPT ![board] = Delayed(schedule[board], asPacked)], board)' = {}
    BY <2>1, <2>2
  <2>4. MinSeparation # 0 /\ \A b \in 2 .. board - 1 : ConflictsOf(schedule, b) = {}
    BY <2>1 DEF Separated
  <2>5. QED BY <2>1, <2>3, <2>4 DEF Separated
<1>5. CASE Adopt
  <2>1. /\ phase = "search" /\ reversing /\ Others = {} /\ Found = delay /\ delay' = 0 /\ ~reversing'
        /\ schedule' = [schedule EXCEPT ![board] = Best] /\ Boards # {}
    BY <1>3, <1>5 DEF Adopt
  <2>2. board \in Boards \ {1} /\ DOMAIN schedule = Boards
    BY <2>1 DEF Moving
  <2>3. ConflictsOf(schedule', board) = {}
    BY <2>1 DEF Best, Others, Tried, Separated
  <2>4. \A b \in Boards : IsBlock(given[b]) /\ IsBlock(schedule[b])
    BY ScheduleIsBlocks
  <2>5. \A b \in Boards : IsBlock(schedule'[b])
    <3>1. IsBlock(Best)
      BY <2>1, <2>2, <2>4, DelayedIsBlock, ReversedIsBlock DEF Best, Candidate, Moving
    <3>2. QED BY <2>1, <2>2, <2>4, <3>1
  <2>6. \A b \in Boards \ {board} : ConflictsOf(schedule', b) \subseteq ConflictsOf(schedule, b)
    <3>1. \A b \in Boards \ {board} : schedule'[b] = schedule[b]
      BY <2>1, <2>2
    <3>2. QED BY <2>2, <2>3, <2>5, <3>1, OneBoardMoves
  <2>7. \A b \in 2 .. board : ConflictsOf(schedule', b) = {}
    <3>1. \A b \in 2 .. board - 1 : b \in Boards \ {board} /\ ConflictsOf(schedule, b) = {}
      BY <1>0, <2>1, <2>2 DEF Separated
    <3>2. \A b \in 2 .. board : b = board \/ b \in 2 .. board - 1
      BY <1>0, <2>2
    <3>3. QED BY <2>3, <2>6, <3>1, <3>2
  <2>8. CASE board = Cardinality(Boards)
    <3>1. phase' = "done"
      BY <1>5, <2>8 DEF Adopt
    <3>2. ASSUME NEW b \in Boards
          PROVE  ConflictsOf(schedule', b) = {}
      <4>1. CASE b \in 2 .. board
        BY <2>7, <4>1
      <4>2. CASE b = 1
        <5> SUFFICES ASSUME NEW a \in ConflictsOf(schedule', b) PROVE FALSE
          OBVIOUS
        <5>1. a \in Boards \ {b} /\ b \in ConflictsOf(schedule', a)
          BY <2>5, ConflictsAreMutual
        <5>2. a \in 2 .. board
          BY <1>0, <2>8, <4>2, <5>1
        <5>3. QED BY <2>7, <5>1, <5>2
      <4>3. QED BY <1>0, <2>8, <4>1, <4>2
    <3>3. QED BY <3>1, <3>2 DEF Separated, Clean
  <2>9. CASE board # Cardinality(Boards)
    <3>1. phase' = "search" /\ board' = board + 1
      BY <1>5, <2>1, <2>9 DEF Adopt
    <3>2. 2 .. board' - 1 = 2 .. board
      BY <1>0, <2>2, <3>1
    <3>3. MinSeparation # 0
      BY <2>1 DEF Separated
    <3>4. \A b \in 2 .. board' - 1 : ConflictsOf(schedule, b)' = {}
      BY <2>7, <3>2
    <3>5. QED BY <2>1, <3>1, <3>3, <3>4 DEF Separated
  <2>10. QED BY <2>8, <2>9
<1>6. CASE UNCHANGED vars
  <2>1. DelayCap' = DelayCap
    BY <1>6 DEF vars, DelayCap
  <2>2. QED BY <1>6, <2>1 DEF vars, Separated, Clean
<1>7. QED BY <1>1, <1>2, <1>4, <1>5, <1>6 DEF Next

(* _delay_until_clean never gives up at its bound, so the schedule that
   resolve_separation returns has no conflict, although detect_conflicts is not
   asked again about boards that were separated earlier. *)
THEOREM SearchEndsClean == Spec => []NoConflictLeft
<1>1. Init => Separated
  BY DEF Init, Separated
<1>2. Separated => NoConflictLeft
  BY DEF Separated, NoConflictLeft
<1>3. QED BY MovingStarts, MovingStep, SeparatedStep, <1>1, <1>2, PTL DEF Spec

-----------------------------------------------------------------------------
(* The samples stand for the tracks *)

IsSortie(s) ==
  /\ s.start \in Nat /\ s.flight \in Nat
  /\ IsPath(s.path) /\ s.flight = LengthOf(s.path)

FirstUp(s) == Min({SampleDt, Walked(s.path)[1]})
LastUp(s) == Max({(s.flight - 1) - ((s.flight - 1) % SampleDt), Walked(s.path)[Len(s.path) - 2]})

Place(s, t) == PointOnPath(s.path, t - s.start)

LEMMA SortiePath ==
  ASSUME NEW s, IsSortie(s)
  PROVE  LET n == Len(s.path) - 1
             w == Walked(s.path)
         IN /\ n \in Nat \ {0} /\ w[0] = 0 /\ w[n] = s.flight /\ s.flight \in Nat
            /\ Len(s.path) - 2 = n - 1
            /\ \A k \in 0 .. n : w[k] \in Nat
            /\ \A i, k \in 0 .. n : i < k => w[i] < w[k]
            /\ \A k \in 1 .. n + 1 : s.path[k] \in Int
<1>1. IsPath(s.path) /\ s.flight = Walked(s.path)[Len(s.path) - 1]
  BY DEF IsSortie, LengthOf
<1>2. QED BY <1>1, WalkedGrows DEF IsSortie

LEMMA Division ==
  ASSUME NEW a \in Nat, NEW b \in Nat \ {0}
  PROVE  /\ a \div b \in Nat /\ a % b \in 0 .. b - 1
         /\ a = b * (a \div b) + (a % b) /\ a \div b <= a
<1> DEFINE q == a \div b
           r == a % b
<1>1. q \in Nat /\ r \in 0 .. b - 1 /\ a = b * q + r
  OBVIOUS
<1> HIDE DEF q, r
<1>2. q <= b * q
  BY <1>1
<1>3. q <= a
  <2>1. b * q \in Nat
    BY <1>1
  <2>2. QED BY <1>1, <1>2, <2>1
<1>4. QED BY <1>1, <1>3 DEF q, r

(* In the air is from the first sample to the last, if there are any. *)
LEMMA AirIsSampled ==
  ASSUME NEW s, IsSortie(s)
  PROVE  /\ FirstUp(s) \in Nat /\ LastUp(s) \in Nat
         /\ FirstUp(s) <= LastUp(s) =>
              s.start + FirstUp(s) \in SampleTimes(s) /\ s.start + LastUp(s) \in SampleTimes(s)
<1> USE SeparationAssumption
<1> DEFINE n == Len(s.path) - 1
           w == Walked(s.path)
           F == s.flight
           x == (F - 1) - ((F - 1) % SampleDt)
           q == (F - 1) \div SampleDt
<1>1. /\ n \in Nat \ {0} /\ w[0] = 0 /\ w[n] = F /\ F \in Nat /\ Len(s.path) - 2 = n - 1
      /\ \A k \in 0 .. n : w[k] \in Nat
      /\ \A i, k \in 0 .. n : i < k => w[i] < w[k]
  BY SortiePath
<1> HIDE DEF n, w, F
<1>2. F > 0 /\ w[1] \in Nat \ {0} /\ w[1] <= F /\ w[n - 1] \in Nat /\ w[n - 1] < F
  <2>1. 0 \in 0 .. n /\ 1 \in 0 .. n /\ n - 1 \in 0 .. n /\ n \in 0 .. n
    BY <1>1
  <2>2. w[0] < w[n] /\ w[0] < w[1] /\ w[n - 1] < w[n] /\ (1 = n \/ w[1] < w[n])
    BY <1>1, <2>1
  <2>3. QED BY <1>1, <2>1, <2>2
<1>3. /\ q \in Nat /\ x \in Nat /\ x = SampleDt * q /\ x <= F - 1 /\ q <= F - 1
  <2>1. F - 1 \in Nat
    BY <1>1, <1>2
  <2> DEFINE m == (F - 1) % SampleDt
             p == SampleDt * q
  <2>2. q \in Nat /\ m \in Nat /\ F - 1 = p + m /\ q <= F - 1
    <3> DEFINE a == F - 1
    <3>1. a \in Nat /\ SampleDt \in Nat \ {0}
      BY <2>1
    <3> HIDE DEF a
    <3>2. /\ a \div SampleDt \in Nat /\ a % SampleDt \in 0 .. SampleDt - 1
          /\ a = SampleDt * (a \div SampleDt) + (a % SampleDt) /\ a \div SampleDt <= a
      BY <3>1, Division
    <3>3. QED BY <3>1, <3>2 DEF a
  <2> HIDE DEF q
  <2>3. p \in Nat
    BY <2>2
  <2>4. x = (F - 1) - m
    OBVIOUS
  <2> HIDE DEF m, p, x
  <2>5. x = p /\ x <= F - 1
    BY <2>1, <2>2, <2>3, <2>4
  <2>6. QED BY <2>2, <2>3, <2>5 DEF p
<1> HIDE DEF x, q
<1>4. /\ FirstUp(s) \in {SampleDt, w[1]} /\ FirstUp(s) <= SampleDt /\ FirstUp(s) <= w[1]
      /\ FirstUp(s) \in Nat \ {0}
  <2> DEFINE two == {SampleDt, w[1]}
  <2>1. two \subseteq Int /\ two # {} /\ \A y \in two : 0 <= y
    BY <1>2
  <2>2. FirstUp(s) = Min(two)
    BY DEF FirstUp, w
  <2>3. Min(two) \in two /\ \A y \in two : Min(two) <= y
    <3> HIDE DEF two
    <3>1. PICK u \in Int : \A y \in two : u <= y
      BY <2>1
    <3>2. QED BY <2>1, <3>1, MinOfBounded
  <2>4. QED BY <1>2, <2>2, <2>3
<1>5. LastUp(s) \in {x, w[n - 1]} /\ LastUp(s) \in Nat /\ LastUp(s) >= x /\ LastUp(s) >= w[n - 1]
  <2> DEFINE two == {x, w[n - 1]}
  <2>1. two \subseteq Int /\ two # {} /\ \A y \in two : y <= F
    BY <1>1, <1>2, <1>3
  <2>2. LastUp(s) = Max(two)
    BY <1>1 DEF LastUp, w, x, F
  <2>3. Max(two) \in two /\ \A y \in two : y <= Max(two)
    <3> HIDE DEF two
    <3>1. F \in Int
      BY <1>1
    <3>2. QED BY <2>1, <3>1, MaxOfBounded
  <2>4. QED BY <1>2, <1>3, <2>2, <2>3
<1>6. \A t \in 1 .. F - 1 : (\E i \in 1 .. F : t = SampleDt * i) \/ (\E k \in 1 .. n - 1 : t = w[k])
        => s.start + t \in SampleTimes(s)
  BY <1>1 DEF SampleTimes, F, w, n
<1>7. ASSUME FirstUp(s) <= LastUp(s)
      PROVE  s.start + LastUp(s) \in SampleTimes(s)
  <2>1. LastUp(s) \in 1 .. F - 1
    BY <1>1, <1>2, <1>3, <1>4, <1>5, <1>7
  <2>2. CASE LastUp(s) = x
    <3>1. q \in 1 .. F
      BY <1>1, <1>3, <2>1, <2>2
    <3>2. QED BY <1>3, <1>6, <2>1, <2>2, <3>1
  <2>3. CASE LastUp(s) = w[n - 1]
    <3>1. n - 1 \in 1 .. n - 1
      BY <1>1, <2>1, <2>3
    <3>2. QED BY <1>6, <2>1, <2>3, <3>1
  <2>4. QED BY <1>5, <2>2, <2>3
<1>8. ASSUME FirstUp(s) <= LastUp(s)
      PROVE  s.start + FirstUp(s) \in SampleTimes(s)
  <2>1. FirstUp(s) \in 1 .. F - 1
    BY <1>1, <1>2, <1>3, <1>4, <1>5, <1>8
  <2>2. CASE FirstUp(s) = SampleDt
    <3>1. SampleDt = SampleDt * 1 /\ 1 \in 1 .. F
      BY <1>1, <1>2
    <3>2. QED BY <1>6, <2>1, <2>2, <3>1
  <2>3. CASE FirstUp(s) = w[1]
    <3>1. n # 1
      BY <1>1, <2>1, <2>3
    <3>2. 1 \in 1 .. n - 1
      BY <1>1, <3>1
    <3>3. QED BY <1>6, <2>1, <2>3, <3>2
  <2>4. QED BY <1>4, <2>2, <2>3
<1>9. QED BY <1>4, <1>5, <1>7, <1>8

UpFrom(s) == s.start + FirstUp(s)
UpTo(s) == s.start + LastUp(s)

LEMMA AirTimes ==
  ASSUME NEW s, IsSortie(s)
  PROVE  /\ s.start \in Int /\ EndOf(s) \in Int /\ UpFrom(s) \in Int /\ UpTo(s) \in Int
         /\ s.start <= UpFrom(s)
         /\ UpFrom(s) <= UpTo(s) => /\ UpFrom(s) \in SampleTimes(s) /\ UpTo(s) \in SampleTimes(s)
                                    /\ s.start < UpFrom(s) /\ UpTo(s) < EndOf(s)
<1> DEFINE first == FirstUp(s)
           last == LastUp(s)
<1>1. s.start \in Nat /\ s.flight \in Nat
  BY DEF IsSortie
<1>2. /\ first \in Nat /\ last \in Nat
      /\ first <= last => s.start + first \in SampleTimes(s) /\ s.start + last \in SampleTimes(s)
  BY AirIsSampled
<1> HIDE DEF first, last
<1>3. first <= last <=> s.start + first <= s.start + last
  BY <1>1, <1>2
<1>4. first <= last => s.start < s.start + first /\ s.start + last < EndOf(s)
  BY <1>1, <1>2, SamplesInFlight
<1>5. QED BY <1>1, <1>2, <1>3, <1>4 DEF UpFrom, UpTo, EndOf, first, last

(* Between two samples a board does not turn. *)
LEMMA StraightBetweenSamples ==
  ASSUME NEW s, IsSortie(s), NEW u0 \in Int, NEW u1 \in Int,
         s.start <= u0, u0 <= u1, u1 < EndOf(s),
         \A t \in SampleTimes(s) : ~(u0 < t /\ t < u1)
  PROVE  \E way \in {-1, 1} : \A t \in u0 .. u1 :
           Place(s, u0) \in Int /\ Place(s, t) = Place(s, u0) + way * (t - u0)
<1> DEFINE n == Len(s.path) - 1
           w == Walked(s.path)
           F == s.flight
           d0 == u0 - s.start
           d1 == u1 - s.start
           ahead == { k \in 1 .. n : d0 < w[k] }
<1>1. /\ n \in Nat \ {0} /\ w[0] = 0 /\ w[n] = F /\ F \in Nat /\ Len(s.path) - 2 = n - 1
      /\ \A k \in 0 .. n : w[k] \in Nat
      /\ \A i, k \in 0 .. n : i < k => w[i] < w[k]
      /\ \A k \in 1 .. n + 1 : s.path[k] \in Int
      /\ IsPath(s.path) /\ s.start \in Nat
  BY SortiePath DEF IsSortie
<1> HIDE DEF n, w, F
<1>2. d0 \in Nat /\ d1 \in Nat /\ d0 <= d1 /\ d1 < F
  BY <1>1 DEF EndOf, F
<1> HIDE DEF d0, d1
<1>3. PICK k \in ahead : \A j \in ahead : k <= j
  <2>1. ahead \subseteq Nat /\ n \in ahead
    BY <1>1, <1>2
  <2>2. QED BY <2>1, LeastNumber
<1>4. k \in 1 .. n /\ w[k] \in Nat /\ w[k - 1] \in Nat /\ d0 < w[k] /\ w[k - 1] <= d0
  <2>1. k \in 1 .. n /\ d0 < w[k] /\ k - 1 \in 0 .. n
    BY <1>1, <1>3
  <2>2. k - 1 \notin ahead
    BY <1>3, <2>1
  <2>3. k - 1 = 0 \/ k - 1 \in 1 .. n
    BY <2>1
  <2>4. w[k - 1] <= d0
    BY <1>1, <1>2, <2>1, <2>2, <2>3
  <2>5. QED BY <1>1, <2>1, <2>4
<1>5. d1 <= w[k]
  <2>1. SUFFICES ASSUME w[k] < d1 PROVE FALSE
    BY <1>2, <1>4
  <2>2. w[k] \in 1 .. F - 1 /\ k \in 1 .. n - 1
    <3>1. w[k] \in 1 .. F - 1
      BY <1>1, <1>2, <1>4, <2>1
    <3>2. k # n
      BY <1>1, <3>1
    <3>3. QED BY <1>1, <1>4, <3>1, <3>2
  <2>3. s.start + w[k] \in SampleTimes(s)
    BY <1>1, <2>2 DEF SampleTimes, F, w, n
  <2>4. u0 < s.start + w[k] /\ s.start + w[k] < u1
    BY <1>1, <1>4, <2>1 DEF d0, d1
  <2>5. QED BY <2>3, <2>4
<1> DEFINE way == IF s.path[k + 1] < s.path[k] THEN -1 ELSE 1
<1>6. ASSUME NEW d \in d0 .. d1
      PROVE  PointOnPath(s.path, d) = s.path[k] + way * (d - w[k - 1])
  <2>1. d \in Int /\ w[k - 1] <= d /\ d <= w[k]
    BY <1>2, <1>4, <1>5
  <2>2. PointOnPath(s.path, d) = IF s.path[k + 1] < s.path[k] THEN s.path[k] - (d - w[k - 1])
                                                             ELSE s.path[k] + (d - w[k - 1])
    <3>1. /\ IsPath(s.path) /\ k \in 1 .. Len(s.path) - 1
          /\ Walked(s.path)[k - 1] <= d /\ d <= Walked(s.path)[k]
      BY <1>1, <1>4, <2>1 DEF w, n
    <3>2. QED BY <2>1, <3>1, PointOnLeg DEF w
  <2>3. s.path[k] \in Int
    BY <1>1, <1>4
  <2>4. QED BY <1>4, <2>1, <2>2, <2>3
<1>7. way \in {-1, 1}
  OBVIOUS
<1> HIDE DEF way
<1>8. ASSUME NEW t \in u0 .. u1
      PROVE  Place(s, u0) \in Int /\ Place(s, t) = Place(s, u0) + way * (t - u0)
  <2>1. t - s.start \in d0 .. d1 /\ d0 \in d0 .. d1
    BY <1>1, <1>2 DEF d0, d1
  <2>2. /\ Place(s, t) = s.path[k] + way * ((t - s.start) - w[k - 1])
        /\ Place(s, u0) = s.path[k] + way * (d0 - w[k - 1])
    BY <1>6, <2>1 DEF Place, d0
  <2>3. s.path[k] \in Int /\ w[k - 1] \in Int /\ d0 \in Int /\ t - s.start = d0 + (t - u0) /\ t - u0 \in Int
    BY <1>1, <1>2, <1>4 DEF d0
  <2>4. QED BY <1>7, <2>2, <2>3
<1>9. QED BY <1>7, <1>8

(* What is read off a track while a sortie is in the air is where it is. *)
LEMMA SampledIsExact ==
  ASSUME NEW items, IsBlock(items), NEW i \in DOMAIN items, NEW t \in Int,
         UpFrom(items[i]) <= t, t <= UpTo(items[i])
  PROVE  LET pos == PosAt(Track(items), t)
         IN /\ Covers(Track(items), t) /\ Place(items[i], t) \in Int
            /\ pos.den \in Nat \ {0} /\ pos.num = Place(items[i], t) * pos.den
<1> DEFINE s == items[i]
           track == Track(items)
           first == UpFrom(s)
           last == UpTo(s)
           t0 == Max({ u \in DOMAIN track : u <= t })
           t1 == Min({ u \in DOMAIN track : u >= t })
<1>1. IsSortie(s) /\ s.start \in Nat /\ s.flight \in Nat
  BY BlockFacts DEF IsSortie
<1>2. /\ first \in SampleTimes(s) /\ last \in SampleTimes(s) /\ first \in Int /\ last \in Int
      /\ s.start < first /\ last < EndOf(s)
  <2>1. first \in Int /\ last \in Int
    BY <1>1, AirTimes
  <2>2. first <= last
    <3> HIDE DEF first, last
    <3>1. QED BY <2>1 DEF first, last
  <2>3. QED BY <1>1, <2>1, <2>2, AirTimes
<1>3. /\ DOMAIN track = UNION { SampleTimes(items[k]) : k \in DOMAIN items } /\ IsTrack(track)
      /\ \A u \in SampleTimes(s) : track[u] = Place(s, u)
  BY TrackOfBlock DEF Place
<1>4. first \in DOMAIN track /\ last \in DOMAIN track /\ first <= t /\ t <= last
  BY <1>2, <1>3
<1>5. Covers(track, t)
  BY <1>4 DEF Covers
<1> HIDE DEF first, last
<1>6. /\ t0 \in DOMAIN track /\ t0 \in Int /\ t0 <= t /\ \A u \in DOMAIN track : u <= t => u <= t0
      /\ t1 \in DOMAIN track /\ t1 \in Int /\ t <= t1 /\ \A u \in DOMAIN track : t <= u => t1 <= u
  BY <1>3, <1>5, Neighbours
<1>7. PosAt(track, t) = IF t0 = t1 THEN [num |-> track[t0], den |-> 1]
                        ELSE [num |-> track[t0] * (t1 - t0) + (t - t0) * (track[t1] - track[t0]),
                              den |-> t1 - t0]
  BY DEF PosAt
<1> HIDE DEF t0, t1, track
<1>8. first <= t0 /\ t1 <= last
  BY <1>4, <1>6
<1>9. ASSUME NEW u \in DOMAIN track, first <= u, u <= last
      PROVE  u \in SampleTimes(s)
  <2>1. PICK k \in DOMAIN items : u \in SampleTimes(items[k])
    BY <1>3
  <2>2. items[k].start \in Nat /\ items[k].flight \in Nat
    BY BlockFacts
  <2>3. u \in Int /\ items[k].start < u /\ u < EndOf(items[k])
    BY <2>1, <2>2, SamplesInFlight
  <2>4. s.start < u /\ u < EndOf(s)
    BY <1>1, <1>2, <1>9, <2>3 DEF EndOf
  <2>5. k = i
    BY <2>3, <2>4, SortiesApart
  <2>6. QED BY <2>1, <2>5
<1>10. track[t0] = Place(s, t0) /\ track[t1] = Place(s, t1)
  <2>1. t0 <= last /\ first <= t1
    BY <1>2, <1>4, <1>6
  <2>2. QED BY <1>3, <1>6, <1>8, <1>9, <2>1
<1>11. PICK way \in {-1, 1} : \A u \in t0 .. t1 :
          Place(s, t0) \in Int /\ Place(s, u) = Place(s, t0) + way * (u - t0)
  <2>1. s.start <= t0 /\ t0 <= t1 /\ t1 < EndOf(s)
    BY <1>1, <1>2, <1>6, <1>8 DEF EndOf
  <2>2. \A u \in SampleTimes(s) : u \in DOMAIN track /\ u \in Int
    BY <1>3 DEF IsTrack
  <2>3. \A u \in SampleTimes(s) : ~(t0 < u /\ u < t1)
    BY <1>6, <2>2
  <2>4. QED BY <1>1, <1>6, <2>1, <2>3, StraightBetweenSamples
<1>12. /\ Place(s, t0) \in Int /\ Place(s, t) = Place(s, t0) + way * (t - t0)
       /\ Place(s, t1) = Place(s, t0) + way * (t1 - t0)
  BY <1>6, <1>11
<1>13. Place(s, t) \in Int
  BY <1>6, <1>12
<1>14. CASE t0 = t1
  <2>1. t = t0
    BY <1>6, <1>14
  <2>2. PosAt(track, t).num = Place(s, t) /\ PosAt(track, t).den = 1
    BY <1>7, <1>10, <1>14, <2>1
  <2>3. QED BY <1>5, <1>13, <2>2 DEF track
<1>15. CASE t0 # t1
  <2> DEFINE len == t1 - t0
             x == t - t0
             P == Place(s, t0)
  <2>1. len \in Nat \ {0} /\ x \in Int /\ P \in Int
    <3>1. t0 \in Int /\ t1 \in Int /\ t0 <= t /\ t <= t1 /\ t0 # t1
      BY <1>6, <1>15
    <3>2. len \in Nat \ {0} /\ x \in Int
      BY <3>1
    <3>3. QED BY <1>12, <3>2
  <2>2. track[t0] = P /\ track[t1] - track[t0] = way * len
    BY <1>10, <1>12, <2>1
  <2>3. PosAt(track, t).num = P * len + x * (way * len) /\ PosAt(track, t).den = len
    BY <1>7, <1>15, <2>2
  <2>4. Place(s, t) = P + way * x
    BY <1>12
  <2> HIDE DEF len, x, P
  <2>5. P * len + x * (way * len) = (P + way * x) * len
    <3>1. CASE way = 1
      BY <2>1, <3>1
    <3>2. CASE way = -1
      BY <2>1, <3>2
    <3>3. QED BY <3>1, <3>2
  <2>6. QED BY <1>5, <1>13, <2>1, <2>3, <2>4, <2>5 DEF track
<1>16. QED BY <1>14, <1>15

(* Positions that are not too close. *)
LEMMA NotTooClose ==
  ASSUME NEW p, NEW q, NEW P \in Int, NEW Q \in Int,
         p.den \in Nat \ {0}, q.den \in Nat \ {0}, p.num = P * p.den, q.num = Q * q.den,
         ~TooClose(p, q)
  PROVE  Abs(P - Q) >= MinSeparation
<1> DEFINE a == p.den
           b == q.den
           D == a * b
<1>1. a \in Nat \ {0} /\ b \in Nat \ {0} /\ MinSeparation \in Nat
  BY SeparationAssumption
<1>2. p.num * b - q.num * a = (P * a) * b - (Q * b) * a
  OBVIOUS
<1>3. ~(Abs(p.num * b - q.num * a) < MinSeparation * a * b)
  BY DEF TooClose
<1> HIDE DEF a, b
<1>4. D \in Nat \ {0}
  <2>1. D \in Int /\ a > 0 /\ b > 0
    BY <1>1
  <2>2. a * b > 0
    BY <1>1
  <2>3. QED BY <2>1, <2>2
<1>5. (P * a) * b - (Q * b) * a = (P - Q) * D /\ MinSeparation * a * b = MinSeparation * D
  BY <1>1
<1> HIDE DEF D
<1>6. SUFFICES ASSUME Abs(P - Q) < MinSeparation PROVE FALSE
  BY <1>1 DEF Abs
<1> DEFINE x == P - Q
<1>7. x \in Int /\ x < MinSeparation /\ -x < MinSeparation
  BY <1>1, <1>6 DEF Abs
<1> HIDE DEF x
<1>8. x * D < MinSeparation * D /\ (-x) * D < MinSeparation * D /\ (-x) * D = -(x * D)
  BY <1>1, <1>4, <1>7
<1>9. x * D \in Int
  BY <1>4, <1>7
<1>10. Abs(x * D) < MinSeparation * D
  BY <1>8, <1>9 DEF Abs
<1>11. QED BY <1>2, <1>3, <1>5, <1>10 DEF x

(* After every instant in the air comes a sample, at most a sampling step later. *)
LEMMA NextSample ==
  ASSUME NEW s, IsSortie(s), UpFrom(s) <= UpTo(s), NEW u \in Int, s.start <= u, u < UpTo(s)
  PROVE  \E t \in SampleTimes(s) : u < t /\ t <= u + SampleDt
<1> DEFINE F == s.flight
           d == u - s.start
           q == d \div SampleDt
           next == SampleDt * (q + 1)
           last == UpTo(s)
<1>0. SampleDt \in Nat \ {0}
  BY SeparationAssumption
<1>1. s.start \in Nat /\ F \in Nat /\ last \in Int /\ last \in SampleTimes(s) /\ last < s.start + F
  BY AirTimes DEF IsSortie, EndOf
<1> HIDE DEF F, last
<1>2. u < last /\ d \in Nat /\ s.start + d = u /\ s.start + d < s.start + F
  BY <1>1 DEF last
<1> HIDE DEF d
<1>3. q \in Nat /\ next \in Nat /\ d < next /\ next <= d + SampleDt /\ q <= d
  <2> DEFINE p == SampleDt * q
             m == d % SampleDt
  <2>1. q \in Nat /\ m \in 0 .. SampleDt - 1 /\ d = p + m /\ q <= d
    BY <1>0, <1>2, Division
  <2> HIDE DEF q, m
  <2>2. next = p + SampleDt /\ p \in Nat
    BY <1>0, <2>1
  <2> HIDE DEF p, next
  <2>3. QED BY <1>0, <1>2, <2>1, <2>2
<1>4. CASE next <= F - 1
  <2>1. q + 1 \in 1 .. F /\ next \in 1 .. F - 1
    <3> HIDE DEF q, next
    <3>1. QED BY <1>1, <1>2, <1>3, <1>4
  <2>2. s.start + next \in SampleTimes(s)
    <3> HIDE DEF q
    <3>1. QED BY <2>1 DEF SampleTimes, F
  <2> HIDE DEF next
  <2>3. u < s.start + next /\ s.start + next <= u + SampleDt
    BY <1>0, <1>1, <1>2, <1>3
  <2>4. QED BY <2>2, <2>3
<1>5. CASE ~(next <= F - 1)
  <2> HIDE DEF next
  <2>1. last <= u + SampleDt
    BY <1>0, <1>1, <1>2, <1>3, <1>5
  <2>2. QED BY <1>1, <1>2, <2>1
<1>6. QED BY <1>4, <1>5

(* Two sorties whose boards have no conflict keep the buffer as long as both are
   in the air: between two of their instants that were checked neither turns, and
   they are too near in time for the two to change sides. *)
LEMMA BufferBetweenSamples ==
  ASSUME NEW A, NEW B, IsBlock(A), IsBlock(B), ~Conflict(Track(A), Track(B)),
         MinSeparation > SampleDt,
         NEW i \in DOMAIN A, NEW s, s = A[i], NEW j \in DOMAIN B, NEW r, r = B[j],
         NEW x \in Int, NEW y \in Int, x <= y, y <= x + 1,
         UpFrom(s) <= x, y <= UpTo(s), UpFrom(r) <= x, y <= UpTo(r)
  PROVE  Abs((Place(s, x) + Place(s, y)) - (Place(r, x) + Place(r, y))) >= 2 * MinSeparation
<1> DEFINE times == DOMAIN Track(A) \cup DOMAIN Track(B)
           before == { t \in times : t <= x }
           after == { t \in times : t >= y }
           u0 == Max(before)
           u1 == Min(after)
           fs == UpFrom(s)
           ls == UpTo(s)
           fr == UpFrom(r)
           lr == UpTo(r)
<1>0. SampleDt \in Nat \ {0} /\ MinSeparation \in Nat /\ x <= y /\ y <= x + 1
  BY SeparationAssumption
<1>1. IsSortie(s) /\ IsSortie(r)
  BY BlockFacts DEF IsSortie
<1>2. s.start \in Int /\ EndOf(s) \in Int /\ r.start \in Int /\ EndOf(r) \in Int
  BY <1>1, AirTimes
<1>2a. /\ fs \in Int /\ ls \in Int /\ fr \in Int /\ lr \in Int
      /\ fs <= x /\ y <= ls /\ fr <= x /\ y <= lr /\ s.start <= fs /\ r.start <= fr
  BY <1>1, AirTimes
<1>2b. fs <= ls /\ fr <= lr
  <2> HIDE DEF fs, ls, fr, lr
  <2>1. QED BY <1>0, <1>2a
<1>3. fs \in SampleTimes(s) /\ ls \in SampleTimes(s) /\ fr \in SampleTimes(r) /\ lr \in SampleTimes(r)
  BY <1>1, <1>2b, AirTimes
<1>3a. ls < EndOf(s) /\ lr < EndOf(r)
  BY <1>1, <1>2b, AirTimes
<1>4. /\ times \subseteq Int /\ SampleTimes(s) \subseteq times /\ SampleTimes(r) \subseteq times
  <2>1. /\ DOMAIN Track(A) = UNION { SampleTimes(A[k]) : k \in DOMAIN A } /\ IsTrack(Track(A))
        /\ DOMAIN Track(B) = UNION { SampleTimes(B[k]) : k \in DOMAIN B } /\ IsTrack(Track(B))
    BY TrackOfBlock
  <2>2. QED BY <2>1 DEF IsTrack
<1> HIDE DEF times
<1>5. before \subseteq Int /\ before # {} /\ after \subseteq Int /\ after # {}
  <2>1. fs \in before /\ ls \in after
    BY <1>3, <1>4, <1>2a
  <2>2. QED BY <1>4, <2>1
<1>6. /\ u0 \in times /\ u0 \in Int /\ u0 <= x /\ \A t \in times : t <= x => t <= u0
      /\ u1 \in times /\ u1 \in Int /\ y <= u1 /\ \A t \in times : t >= y => u1 <= t
  <2>1. u0 \in before /\ \A t \in before : t <= u0
    <3>1. \A t \in before : t <= x
      OBVIOUS
    <3> HIDE DEF before
    <3>2. QED BY <1>5, <3>1, MaxOfBounded
  <2>2. u1 \in after /\ \A t \in after : u1 <= t
    <3>1. \A t \in after : y <= t
      BY <1>5
    <3> HIDE DEF after
    <3>2. QED BY <1>5, <3>1, MinOfBounded
  <2> HIDE DEF u0, u1
  <2>3. QED BY <1>4, <2>1, <2>2
<1> HIDE DEF u0, u1
<1>7. \A t \in times : ~(u0 < t /\ t < u1)
  <2> SUFFICES ASSUME NEW t \in times, u0 < t, t < u1 PROVE FALSE
    OBVIOUS
  <2>1. t \in Int
    BY <1>4
  <2>2. QED BY <1>6, <2>1
<1>8. fs <= u0 /\ u1 <= ls /\ fr <= u0 /\ u1 <= lr /\ u0 <= u1
  <2>1. fs \in times /\ ls \in times /\ fr \in times /\ lr \in times
    BY <1>3, <1>4
  <2>2. QED BY <1>6, <1>2a, <2>1
<1>9. u1 - u0 <= SampleDt
  <2>1. CASE u0 < ls
    <3>1. s.start <= u0
      <4> HIDE DEF fs, ls, fr, lr
      <4>1. QED BY <1>2, <1>6, <1>8, <1>2a
    <3>2. PICK t \in SampleTimes(s) : u0 < t /\ t <= u0 + SampleDt
      BY <1>1, <1>6, <1>2b, <2>1, <3>1, NextSample
    <3>3. t \in Int /\ ~(t < u1)
      BY <1>4, <1>7, <3>2
    <3>4. QED BY <1>0, <1>6, <3>2, <3>3
  <2>2. CASE ~(u0 < ls)
    <3> HIDE DEF ls
    <3>1. u1 <= u0
      BY <1>6, <1>8, <1>2a, <2>2
    <3>2. QED BY <1>0, <1>6, <3>1
  <2>3. QED BY <2>1, <2>2
<1>10. ASSUME NEW u \in {u0, u1}
       PROVE  /\ Place(s, u) \in Int /\ Place(r, u) \in Int
              /\ Abs(Place(s, u) - Place(r, u)) >= MinSeparation
  <2> DEFINE p == PosAt(Track(A), u)
             q == PosAt(Track(B), u)
  <2>1. u \in times /\ u \in Int /\ u0 <= u /\ u <= u1
    BY <1>6, <1>8
  <2>2. fs <= u /\ u <= ls /\ fr <= u /\ u <= lr
    <3> HIDE DEF fs, ls, fr, lr
    <3>1. QED BY <1>6, <1>8, <1>2a, <2>1
  <2>3. /\ Covers(Track(A), u) /\ Place(s, u) \in Int
        /\ p.den \in Nat \ {0} /\ p.num = Place(s, u) * p.den
    BY <2>1, <2>2, SampledIsExact
  <2>4. /\ Covers(Track(B), u) /\ Place(r, u) \in Int
        /\ q.den \in Nat \ {0} /\ q.num = Place(r, u) * q.den
    BY <2>1, <2>2, SampledIsExact
  <2>5. ~TooClose(p, q)
    <3>1. 0 \in Shifts /\ u + 0 = u
      BY <2>1 DEF Shifts
    <3> DEFINE TA == Track(A)
               TB == Track(B)
    <3>2. u \in DOMAIN TA \cup DOMAIN TB
      BY <2>1 DEF times
    <3>3. Covers(TA, u + 0) /\ Covers(TB, u + 0)
      BY <2>3, <2>4, <3>1
    <3>4. p = PosAt(TA, u + 0) /\ q = PosAt(TB, u + 0)
      BY <3>1
    <3>5. ~Conflict(TA, TB)
      OBVIOUS
    <3> HIDE DEF TA, TB, p, q
    <3>6. QED BY <3>1, <3>2, <3>3, <3>4, <3>5 DEF Conflict
  <2> HIDE DEF p, q
  <2>6. QED BY <2>3, <2>4, <2>5, NotTooClose
<1>11. PICK way \in {-1, 1} : \A t \in u0 .. u1 :
          Place(s, u0) \in Int /\ Place(s, t) = Place(s, u0) + way * (t - u0)
  <2>1. s.start <= u0 /\ u1 < EndOf(s)
    <3> HIDE DEF fs, ls, fr, lr
    <3>1. QED BY <1>2, <1>6, <1>8, <1>2a, <1>3a
  <2>2. \A t \in SampleTimes(s) : ~(u0 < t /\ t < u1)
    BY <1>4, <1>7
  <2>3. QED BY <1>1, <1>6, <1>8, <2>1, <2>2, StraightBetweenSamples
<1>12. PICK turn \in {-1, 1} : \A t \in u0 .. u1 :
          Place(r, u0) \in Int /\ Place(r, t) = Place(r, u0) + turn * (t - u0)
  <2>1. r.start <= u0 /\ u1 < EndOf(r)
    <3> HIDE DEF fs, ls, fr, lr
    <3>1. QED BY <1>2, <1>6, <1>8, <1>2a, <1>3a
  <2>2. \A t \in SampleTimes(r) : ~(u0 < t /\ t < u1)
    BY <1>4, <1>7
  <2>3. QED BY <1>1, <1>6, <1>8, <2>1, <2>2, StraightBetweenSamples
<1>13. x \in u0 .. u1 /\ y \in u0 .. u1 /\ u1 \in u0 .. u1
  BY <1>6, <1>8
<1> DEFINE P == Place(s, u0)
           Q == Place(r, u0)
           lx == x - u0
           ly == y - u0
           L == u1 - u0
<1>14. /\ Place(s, x) = P + way * lx /\ Place(s, y) = P + way * ly /\ Place(s, u1) = P + way * L
       /\ Place(r, x) = Q + turn * lx /\ Place(r, y) = Q + turn * ly /\ Place(r, u1) = Q + turn * L
  BY <1>11, <1>12, <1>13
<1>15. P \in Int /\ Q \in Int /\ Abs(P - Q) >= MinSeparation
  BY <1>10
<1>16. Abs((P + way * L) - (Q + turn * L)) >= MinSeparation
  BY <1>10, <1>14
<1>17. /\ lx \in Nat /\ ly \in Nat /\ L \in Nat /\ lx <= ly /\ ly <= L /\ L < MinSeparation
       /\ MinSeparation \in Nat
  BY <1>0, <1>6, <1>9, <1>13
<1> HIDE DEF P, Q, lx, ly, L
<1>18. Abs(((P + way * lx) + (P + way * ly)) - ((Q + turn * lx) + (Q + turn * ly))) >= 2 * MinSeparation
  <2>1. CASE way = 1 /\ turn = 1
    BY <1>15, <1>16, <1>17, <2>1 DEF Abs
  <2>2. CASE way = 1 /\ turn = -1
    BY <1>15, <1>16, <1>17, <2>2 DEF Abs
  <2>3. CASE way = -1 /\ turn = 1
    BY <1>15, <1>16, <1>17, <2>3 DEF Abs
  <2>4. CASE way = -1 /\ turn = -1
    BY <1>15, <1>16, <1>17, <2>4 DEF Abs
  <2>5. QED BY <2>1, <2>2, <2>3, <2>4
<1>19. QED BY <1>14, <1>18

(* resolve_separation samples, and the schedule it returns keeps the buffer at
   every instant two boards are in the air, between the samples and at the turns
   included, when the buffer is longer than what is flown between two samples. *)
THEOREM BufferHolds == Spec => []SeparationHolds
<1>1. Moving /\ Separated => SeparationHolds
  <2> SUFFICES ASSUME Moving, Separated, phase = "done", MinSeparation > SampleDt,
                      NEW a \in Boards, NEW b \in Boards, a # b,
                      NEW i \in DOMAIN schedule[a], NEW j \in DOMAIN schedule[b],
                      NEW h \in 2 * schedule[a][i].start .. 2 * EndOf(schedule[a][i]),
                      InAir(schedule[a][i], h), InAir(schedule[b][j], h)
               PROVE  Abs(TwicePos(schedule[a][i], h) - TwicePos(schedule[b][j], h)) >= 2 * MinSeparation
    BY DEF SeparationHolds
  <2> DEFINE s == schedule[a][i]
             r == schedule[b][j]
             x == h \div 2
             y == (h + 1) \div 2
  <2>1. IsBlock(schedule[a]) /\ IsBlock(schedule[b])
    BY ScheduleIsBlocks
  <2>2. ~Conflict(Track(schedule[a]), Track(schedule[b]))
    <3>1. ConflictsOf(schedule, b) = {} /\ MinSeparation # 0
      BY SeparationAssumption DEF Separated, Clean
    <3>2. QED BY <3>1 DEF ConflictsOf
  <2>3. IsSortie(s) /\ IsSortie(r)
    BY <2>1, BlockFacts DEF IsSortie
  <2>4. UpFrom(s) \in Int /\ UpTo(s) \in Int /\ UpFrom(r) \in Int /\ UpTo(r) \in Int
        /\ s.start \in Int /\ EndOf(s) \in Int
    BY <2>3, AirTimes
  <2>5. 2 * UpFrom(s) <= h /\ h <= 2 * UpTo(s) /\ 2 * UpFrom(r) <= h /\ h <= 2 * UpTo(r)
    BY DEF InAir, UpFrom, UpTo, FirstUp, LastUp
  <2>6. h \in Int /\ x \in Int /\ y \in Int /\ x <= y /\ y <= x + 1 /\ 2 * x <= h /\ h <= 2 * x + 1
        /\ h <= 2 * y /\ 2 * y <= h + 1
    BY <2>4
  <2>7. TwicePos(s, h) = Place(s, x) + Place(s, y) /\ TwicePos(r, h) = Place(r, x) + Place(r, y)
    BY DEF TwicePos, Place
  <2> HIDE DEF x, y
  <2>8. UpFrom(s) <= x /\ y <= UpTo(s) /\ UpFrom(r) <= x /\ y <= UpTo(r)
    BY <2>4, <2>5, <2>6
  <2>9. Abs((Place(s, x) + Place(s, y)) - (Place(r, x) + Place(r, y))) >= 2 * MinSeparation
    BY <2>1, <2>2, <2>6, <2>8, BufferBetweenSamples
  <2>10. QED BY <2>7, <2>9
<1>2. Init => Separated
  BY DEF Init, Separated
<1>3. QED BY MovingStarts, MovingStep, SeparatedStep, <1>1, <1>2, PTL DEF Spec

=============================================================================
