------------------------- MODULE SiteBackupsProofs -------------------------
(***************************************************************************)
(* Proofs about SiteBackups.                                                *)
(*                                                                         *)
(* Inv, the type invariant with what the steps of the requests have left    *)
(* behind, is inductive; RecordedIsThere follows.  On top of it there are   *)
(* four invariants, each inductive with Inv: RootInv (no root is lost),     *)
(* SiteInv (what a request replaces is saved), QuotaInv (an excess is on    *)
(* some list) and RetainInv (what is on a list ought to go).  The last two  *)
(* need that Total, a fold over a finite set, is a sum.                     *)
(*                                                                         *)
(* The lemmas are named for the action and the invariant: ListQuota says    *)
(* that List keeps QuotaInv.                                                *)
(***************************************************************************)
EXTENDS SiteBackups, FiniteSetTheorems, FunctionTheorems, SequenceTheorems,
        WellFoundedInduction, TLAPS

\* No element of s comes twice.
Distinct(s) == \A i, j \in DOMAIN s : i # j => s[i] # s[j]

\* What the helpers on sequences do to the elements, and that they keep them
\* distinct: a row deleted from the table,
LEMMA Removed ==
    ASSUME NEW S, NEW s \in Seq(S), NEW k \in 1 .. Len(s)
    PROVE  /\ RemoveAt(s, k) \in Seq(S)
           /\ Len(RemoveAt(s, k)) = Len(s) - 1
           /\ \A i \in 1 .. Len(s) - 1 :
                RemoveAt(s, k)[i] = IF i < k THEN s[i] ELSE s[i + 1]
<1> DEFINE a == SubSeq(s, 1, k - 1)
           b == SubSeq(s, k + 1, Len(s))
<1>0. \A i \in 1 .. Len(s) : s[i] \in S
  BY ElementOfSeq
<1>1. Len(s) \in Nat
  OBVIOUS
<1>2. a \in Seq(S) /\ Len(a) = k - 1 /\ \A i \in 1 .. k - 1 : a[i] = s[i]
  BY <1>0, <1>1, SubSeqProperties
<1>3. b \in Seq(S) /\ Len(b) = Len(s) - k /\ \A i \in 1 .. Len(s) - k : b[i] = s[k + i]
  BY <1>0, <1>1, SubSeqProperties
<1> HIDE DEF a, b
<1>4. a \o b \in Seq(S) /\ Len(a \o b) = Len(s) - 1
  <2>1. a \o b \in Seq(S) /\ Len(a \o b) = Len(a) + Len(b)
    BY <1>2, <1>3, ConcatProperties
  <2>. QED BY <2>1, <1>1, <1>2, <1>3
<1>5. ASSUME NEW i \in 1 .. Len(s) - 1
      PROVE  (a \o b)[i] = IF i < k THEN s[i] ELSE s[i + 1]
  <2>1. (a \o b)[i] = IF i <= k - 1 THEN a[i] ELSE b[i - (k - 1)]
    BY <1>1, <1>2, <1>3, ConcatProperties
  <2>. QED BY <2>1, <1>1, <1>2, <1>3
<1>. QED BY <1>4, <1>5 DEF RemoveAt, a, b

\* by its name,
LEMMA RemoveFirstOne ==
    ASSUME NEW S, NEW s \in Seq(S), NEW h, Distinct(s)
    PROVE  /\ RemoveFirst(s, h) \in Seq(S)
           /\ ToSet(RemoveFirst(s, h)) = ToSet(s) \ {h}
           /\ Distinct(RemoveFirst(s, h))
<1>1. CASE \A i \in 1 .. Len(s) : s[i] # h
  <2>1. RemoveFirst(s, h) = s
    BY <1>1 DEF RemoveFirst
  <2>. QED BY <1>1, <2>1 DEF ToSet
<1>2. CASE \E i \in 1 .. Len(s) : s[i] = h
  <2>1. PICK k \in 1 .. Len(s) : s[k] = h
    BY <1>2
  <2> DEFINE I == {i \in 1 .. Len(s) : s[i] = h}
             t == RemoveAt(s, k)
  <2>2. I = {k}
    BY <2>1 DEF Distinct
  <2>3. SelectInSeq(s, LAMBDA v : v = h) = k
    BY <2>2 DEF SelectInSeq, Min
  <2>4. RemoveFirst(s, h) = t
    BY <2>1, <2>3 DEF RemoveFirst
  <2>5. /\ t \in Seq(S) /\ DOMAIN t = 1 .. Len(s) - 1
        /\ \A i \in 1 .. Len(s) - 1 : t[i] = IF i < k THEN s[i] ELSE s[i + 1]
    BY Removed
  <2> HIDE DEF t, I
  <2>6. ToSet(t) = ToSet(s) \ {h}
    <3>1. ASSUME NEW x \in ToSet(t) PROVE x \in ToSet(s) \ {h}
      <4>1. PICK i \in 1 .. Len(s) - 1 : x = t[i]
        BY <2>5 DEF ToSet
      <4>2. CASE i < k
        <5>1. i \in 1 .. Len(s) /\ i # k /\ x = s[i]
          BY <4>1, <4>2, <2>5
        <5>. QED BY <5>1, <2>1 DEF Distinct, ToSet
      <4>3. CASE ~(i < k)
        <5>1. i + 1 \in 1 .. Len(s) /\ i + 1 # k /\ x = s[i + 1]
          BY <4>1, <4>3, <2>5
        <5>. QED BY <5>1, <2>1 DEF Distinct, ToSet
      <4>. QED BY <4>2, <4>3
    <3>2. ASSUME NEW x \in ToSet(s) \ {h} PROVE x \in ToSet(t)
      <4>1. PICK i \in 1 .. Len(s) : x = s[i] /\ i # k
        BY <2>1 DEF ToSet
      <4>2. CASE i < k
        <5>1. i \in 1 .. Len(s) - 1 /\ t[i] = x
          BY <4>1, <4>2, <2>5
        <5>. QED BY <5>1, <2>5 DEF ToSet
      <4>3. CASE ~(i < k)
        <5>1. i - 1 \in 1 .. Len(s) - 1 /\ ~(i - 1 < k) /\ (i - 1) + 1 = i
          BY <4>1, <4>3
        <5>2. t[i - 1] = x
          BY <5>1, <4>1, <2>5
        <5>. QED BY <5>1, <5>2, <2>5 DEF ToSet
      <4>. QED BY <4>2, <4>3
    <3>. QED BY <3>1, <3>2
  <2>7. Distinct(t)
    <3>1. ASSUME NEW i \in 1 .. Len(s) - 1, NEW j \in 1 .. Len(s) - 1, i # j
          PROVE  t[i] # t[j]
      <4> DEFINE At(n) == IF n < k THEN n ELSE n + 1
      <4>1. At(i) \in 1 .. Len(s) /\ At(j) \in 1 .. Len(s) /\ At(i) # At(j)
        BY <3>1
      <4>2. t[i] = s[At(i)] /\ t[j] = s[At(j)]
        BY <2>5
      <4> HIDE DEF At
      <4>. QED BY <4>1, <4>2 DEF Distinct
    <3>. QED BY <3>1, <2>5 DEF Distinct
  <2>. QED BY <2>4, <2>5, <2>6, <2>7
<1>. QED BY <1>1, <1>2

\* the listing, oldest first,
LEMMA Sorted ==
    ASSUME NEW S, IsFiniteSet(S), NEW s \in OldestFirst(S)
    PROVE  /\ s \in Seq(S) /\ ToSet(s) = S /\ Distinct(s)
           /\ \A i, j \in DOMAIN s : i < j => Older(s[i], s[j])
<1>1. s \in SetToSeqs(S) /\ \A i, j \in DOMAIN s : i < j => Older(s[i], s[j])
  BY DEF OldestFirst
<1>2. Cardinality(S) \in Nat
  BY FS_CardinalityType
<1> DEFINE D == 1 .. Cardinality(S)
<1>3. s \in [D -> S] /\ \A i, j \in D : i # j => s[i] # s[j]
  BY <1>1 DEF SetToSeqs
<1>4. s \in Injection(D, S)
  BY <1>3 DEF Injection, IsInjective
<1>5. Cardinality(D) = Cardinality(S) /\ IsFiniteSet(D)
  BY <1>2, FS_Interval
<1>6. s \in Surjection(D, S)
  BY <1>4, <1>5, FS_Injection
<1>7. ToSet(s) = S
  BY <1>6, <1>3 DEF Surjection, ToSet
<1>. QED BY <1>1, <1>2, <1>3, <1>7 DEF Distinct

\* the listing in the order of the SELECT,
LEMMA Backwards ==
    ASSUME NEW S, NEW s \in Seq(S)
    PROVE  /\ Reverse(s) \in Seq(S) /\ ToSet(Reverse(s)) = ToSet(s)
<1>1. /\ Len(s) \in Nat /\ DOMAIN s = 1 .. Len(s)
      /\ \A i \in 1 .. Len(s) : s[i] \in S
  BY ElementOfSeq
<1>2. \A i \in 1 .. Len(s) : Len(s) - i + 1 \in 1 .. Len(s)
  BY <1>1
<1> DEFINE t == Reverse(s)
<1>3. t = [i \in 1 .. Len(s) |-> s[Len(s) - i + 1]]
  BY DEF Reverse
<1>4. t \in Seq(S)
  BY <1>1, <1>2, <1>3
<1> HIDE DEF t
<1>5. ASSUME NEW x \in ToSet(t) PROVE x \in ToSet(s)
  BY <1>1, <1>2, <1>3 DEF ToSet
<1>6. ASSUME NEW x \in ToSet(s) PROVE x \in ToSet(t)
  <2>1. PICK i \in 1 .. Len(s) : x = s[i]
    BY <1>1 DEF ToSet
  <2>2. Len(s) - i + 1 \in 1 .. Len(s) /\ Len(s) - (Len(s) - i + 1) + 1 = i
    BY <1>1
  <2>3. t[Len(s) - i + 1] = x
    BY <2>1, <2>2, <1>3
  <2>. QED BY <2>2, <2>3, <1>3 DEF ToSet
<1>. QED BY <1>4, <1>5, <1>6 DEF t

\* a row inserted,
LEMMA Appended ==
    ASSUME NEW S, NEW s \in Seq(S), NEW e \in S
    PROVE  /\ Append(s, e) \in Seq(S) /\ ToSet(Append(s, e)) = ToSet(s) \cup {e}
           /\ Distinct(s) /\ e \notin ToSet(s) => Distinct(Append(s, e))
<1> DEFINE t == Append(s, e)
<1>1. /\ t \in Seq(S) /\ Len(s) \in Nat /\ DOMAIN s = 1 .. Len(s)
      /\ DOMAIN t = 1 .. Len(s) + 1 /\ t[Len(s) + 1] = e
      /\ \A i \in 1 .. Len(s) : t[i] = s[i]
  BY AppendProperties
<1> HIDE DEF t
<1>2. ToSet(t) = ToSet(s) \cup {e}
  <2>1. \A i \in 1 .. Len(s) + 1 : i \in 1 .. Len(s) \/ i = Len(s) + 1
    BY <1>1
  <2>2. 1 .. Len(s) \subseteq 1 .. Len(s) + 1 /\ Len(s) + 1 \in 1 .. Len(s) + 1
    BY <1>1
  <2>. QED BY <1>1, <2>1, <2>2 DEF ToSet
<1>3. ASSUME Distinct(s), e \notin ToSet(s) PROVE Distinct(t)
  <2>1. ASSUME NEW i \in 1 .. Len(s) + 1, NEW j \in 1 .. Len(s) + 1, i # j
        PROVE  t[i] # t[j]
    BY <2>1, <1>1, <1>3 DEF Distinct, ToSet
  <2>. QED BY <2>1, <1>1 DEF Distinct
<1>. QED BY <1>1, <1>2, <1>3 DEF t

\* the next backup to remove,
LEMMA Popped ==
    ASSUME NEW S, NEW s \in Seq(S), s # <<>>
    PROVE  /\ Head(s) \in S /\ Head(s) \in ToSet(s)
           /\ Tail(s) \in Seq(S) /\ ToSet(Tail(s)) \subseteq ToSet(s)
           /\ ToSet(s) = {Head(s)} \cup ToSet(Tail(s))
<1>1. /\ Len(s) \in Nat /\ Len(s) >= 1 /\ DOMAIN s = 1 .. Len(s)
      /\ Head(s) = s[1] /\ Head(s) \in S /\ Tail(s) \in Seq(S)
      /\ DOMAIN Tail(s) = 1 .. Len(s) - 1
      /\ \A i \in 1 .. Len(s) - 1 : Tail(s)[i] = s[i + 1]
  BY HeadTailProperties
<1>2. \A x \in ToSet(Tail(s)) : x \in ToSet(s)
  <2>1. \A i \in 1 .. Len(s) - 1 : i + 1 \in 1 .. Len(s)
    BY <1>1
  <2>. QED BY <1>1, <2>1 DEF ToSet
<1>3. ASSUME NEW x \in ToSet(s) PROVE x = Head(s) \/ x \in ToSet(Tail(s))
  <2>1. PICK i \in 1 .. Len(s) : x = s[i]
    BY <1>1 DEF ToSet
  <2>2. CASE i = 1
    BY <2>1, <2>2, <1>1
  <2>3. CASE i # 1
    <3>1. i - 1 \in 1 .. Len(s) - 1 /\ (i - 1) + 1 = i
      BY <2>3, <1>1
    <3>2. Tail(s)[i - 1] = x
      BY <3>1, <2>1, <1>1
    <3>. QED BY <3>1, <3>2, <1>1 DEF ToSet
  <2>. QED BY <2>2, <2>3
<1>4. Head(s) \in ToSet(s)
  BY <1>1 DEF ToSet
<1>. QED BY <1>1, <1>2, <1>3, <1>4

\* and the first n of a list.
LEMMA Started ==
    ASSUME NEW S, NEW s \in Seq(S), NEW n \in 0 .. Len(s)
    PROVE  /\ SubSeq(s, 1, n) \in Seq(S) /\ Len(SubSeq(s, 1, n)) = n
           /\ \A i \in 1 .. n : SubSeq(s, 1, n)[i] = s[i]
<1>1. /\ Len(s) \in Nat /\ n \in Nat /\ n <= Len(s)
      /\ \A i \in 1 .. Len(s) : s[i] \in S
  BY ElementOfSeq
<1>2. \A i \in 1 .. n : s[i] \in S
  BY <1>1
<1>. QED BY <1>1, <1>2, SubSeqProperties

-----------------------------------------------------------------------------
\* Total, of any table r.
SumOf(r, S) == MapThenSumSet(LAMBDA b : r[b].size, S)

\* g adds up the sizes of every part of U.
Adds(g, r, U) ==
    /\ g \in [SUBSET U -> Nat]
    /\ g[{}] = 0
    /\ \A T \in SUBSET U : \A x \in T : g[T] = r[x].size + g[T \ {x}]

\* Induction over finite sets: a non-empty family of subsets has a smallest one.
LEMMA SmallestSubset ==
    ASSUME NEW U, IsFiniteSet(U), NEW P, P \subseteq SUBSET U, P # {}
    PROVE  \E T \in P : \A x \in T : T \ {x} \notin P
<1>1. IsWellFoundedOn(StrictSubsetOrdering(U), FiniteSubsetsOf(U))
  BY FS_StrictSubsetOrderingWellFounded
<1>2. P \subseteq FiniteSubsetsOf(U)
  BY FS_Subset DEF FiniteSubsetsOf
<1>3. PICK T \in P : \A Q \in P : ~(<<Q, T>> \in StrictSubsetOrdering(U))
  BY <1>1, <1>2, WFMin
<1>4. ASSUME NEW x \in T, T \ {x} \in P PROVE FALSE
  <2>1. <<T \ {x}, T>> \in StrictSubsetOrdering(U)
    BY <1>4 DEF StrictSubsetOrdering
  <2>. QED BY <2>1, <1>3, <1>4
<1>. QED BY <1>4

\* By which the function that adds up the sizes exists,
LEMMA AdderExists ==
    ASSUME NEW U, IsFiniteSet(U), NEW r, \A x \in U : r[x].size \in Nat
    PROVE  \E g : Adds(g, r, U)
<1> DEFINE P == {V \in SUBSET U : ~ \E g : Adds(g, r, V)}
<1>1. ASSUME P # {} PROVE FALSE
  <2>1. PICK V \in P : \A x \in V : V \ {x} \notin P
    <3> HIDE DEF P
    <3> P \subseteq SUBSET U BY DEF P
    <3>. QED BY <1>1, SmallestSubset
  <2>2. CASE V = {}
    <3>1. Adds([T \in SUBSET V |-> 0], r, V)
      BY <2>2 DEF Adds
    <3>. QED BY <3>1
  <2>3. CASE V # {}
    <3>1. PICK z \in V : TRUE
      BY <2>3
    <3>2. PICK g : Adds(g, r, V \ {z})
      BY <2>1, <3>1
    <3> DEFINE h == [T \in SUBSET V |-> g[T \ {z}] + (IF z \in T THEN r[z].size ELSE 0)]
    <3>a. r[z].size \in Nat OBVIOUS
    <3>b. \A T \in SUBSET V : T \ {z} \in SUBSET (V \ {z}) OBVIOUS
    <3>3. h \in [SUBSET V -> Nat]
      <4>1. \A T \in SUBSET V : g[T \ {z}] \in Nat
        BY <3>2, <3>b DEF Adds
      <4> DEFINE E(T) == g[T \ {z}] + (IF z \in T THEN r[z].size ELSE 0)
      <4>2. ASSUME NEW T \in SUBSET V PROVE E(T) \in Nat
        <5>1. g[T \ {z}] \in Nat
          BY <4>1
        <5>. QED BY <5>1, <3>a
      <4> HIDE DEF E
      <4>3. [T \in SUBSET V |-> E(T)] \in [SUBSET V -> Nat]
        BY <4>2
      <4>. QED BY <4>3 DEF E
    <3>4. h[{}] = 0
      <4>1. g[{}] = 0
        BY <3>2 DEF Adds
      <4>2. {} \in SUBSET V /\ {} \ {z} = {} /\ z \notin {}
        OBVIOUS
      <4>3. h[{}] = g[{} \ {z}] + 0
        BY <4>2
      <4>. QED BY <4>1, <4>2, <4>3
    <3>5. ASSUME NEW T \in SUBSET V, NEW x \in T PROVE h[T] = r[x].size + h[T \ {x}]
      <4>0. T \ {x} \in SUBSET V OBVIOUS
      <4>1. CASE x = z
        <5>1. h[T] = g[T \ {z}] + r[z].size
          BY <4>1
        <5>2. (T \ {x}) \ {z} = T \ {z} /\ z \notin T \ {x}
          BY <4>1
        <5>3. h[T \ {x}] = g[T \ {z}] + 0
          BY <5>2, <4>0
        <5>4. g[T \ {z}] \in Nat
          BY <3>b, <3>2 DEF Adds
        <5>. QED BY <5>1, <5>3, <5>4, <3>a, <4>1
      <4>2. CASE x # z
        <5>1. T \ {z} \in SUBSET (V \ {z}) /\ x \in T \ {z}
          BY <4>2
        <5>2. g[T \ {z}] = r[x].size + g[(T \ {z}) \ {x}]
          BY <5>1, <3>2 DEF Adds
        <5>3. (T \ {z}) \ {x} = (T \ {x}) \ {z} /\ (z \in T <=> z \in T \ {x})
          BY <4>2
        <5>4. h[T \ {x}] = g[(T \ {z}) \ {x}] + (IF z \in T THEN r[z].size ELSE 0)
          BY <5>3, <4>0
        <5>5. r[x].size \in Nat /\ g[(T \ {z}) \ {x}] \in Nat
          BY <3>2, <5>3, <3>b, <4>0 DEF Adds
        <5>. QED BY <5>2, <5>4, <5>5, <3>a
      <4>. QED BY <4>1, <4>2
    <3>6. Adds(h, r, V)
      <4> HIDE DEF h
      <4>. QED BY <3>3, <3>4, <3>5 DEF Adds
    <3>. QED BY <3>6
  <2>. QED BY <2>2, <2>3
<1>2. U \notin P
  BY <1>1
<1>. QED BY <1>2

\* is what the fold computes, in whatever order it takes the backups,
LEMMA SumIsAdded ==
    ASSUME NEW U, IsFiniteSet(U), NEW r, \A x \in U : r[x].size \in Nat,
           NEW g, Adds(g, r, U), NEW S \in SUBSET U
    PROVE  SumOf(r, S) = g[S]
<1> DEFINE Picks(s) == CHOOSE x \in s : TRUE
           Iter(f) == [s \in SUBSET S |-> IF s = {} THEN 0 ELSE r[Picks(s)].size + f[s \ {Picks(s)}]]
           it == CHOOSE f : f = Iter(f)
           h == [s \in SUBSET S |-> g[s]]
<1>1. SumOf(r, S) = it[S]
  BY Zenon DEF SumOf, MapThenSumSet, MapThenFoldSet
<1>2. h = Iter(h)
  <2>1. ASSUME NEW s \in SUBSET S
        PROVE  h[s] = IF s = {} THEN 0 ELSE r[Picks(s)].size + h[s \ {Picks(s)}]
    <3>1. CASE s = {}
      BY <3>1 DEF Adds
    <3>2. CASE s # {}
      <4>1. Picks(s) \in s
        BY <3>2
      <4> HIDE DEF Picks
      <4>2. s \ {Picks(s)} \in SUBSET S /\ s \in SUBSET U
        OBVIOUS
      <4>. QED BY <3>2, <4>1, <4>2 DEF Adds
    <3>. QED BY <3>1, <3>2
  <2>2. h = [s \in SUBSET S |-> h[s]]
    OBVIOUS
  <2> HIDE DEF h, Picks
  <2>. QED BY <2>1, <2>2
<1>3. it = Iter(it)
  <2> HIDE DEF h, Iter
  <2>. QED BY <1>2
<1>4. ASSUME NEW s \in SUBSET S
      PROVE  it[s] = IF s = {} THEN 0 ELSE r[Picks(s)].size + it[s \ {Picks(s)}]
  <2> HIDE DEF it, Picks
  <2>. QED BY <1>3
<1>5. S \in {s \in SUBSET S : it[s] = g[s]}
  <2> DEFINE P == {s \in SUBSET S : it[s] # g[s]}
  <2>1. ASSUME P # {} PROVE FALSE
    <3>1. IsFiniteSet(S) /\ P \subseteq SUBSET S
      BY FS_Subset
    <3>2. PICK T \in P : \A x \in T : T \ {x} \notin P
      <4> HIDE DEF P
      <4>. QED BY <2>1, <3>1, SmallestSubset
    <3>3. CASE T = {}
      <4> HIDE DEF it
      <4>. QED BY <3>2, <3>3, <1>4 DEF Adds
    <3>4. CASE T # {}
      <4>1. Picks(T) \in T
        BY <3>4
      <4>2. T \ {Picks(T)} \in SUBSET S /\ T \in SUBSET S /\ T \in SUBSET U
        BY <3>2
      <4> HIDE DEF it, Picks
      <4>3. it[T \ {Picks(T)}] = g[T \ {Picks(T)}]
        BY <3>2, <4>1, <4>2
      <4>4. it[T] = r[Picks(T)].size + g[T \ {Picks(T)}]
        BY <1>4, <3>4, <4>2, <4>3
      <4>. QED BY <4>1, <4>2, <4>4, <3>2 DEF Adds
    <3>. QED BY <3>3, <3>4
  <2> HIDE DEF it
  <2>. QED BY <2>1
<1>. QED
  <2> HIDE DEF it
  <2>. QED BY <1>1, <1>5

\* and obeys the equations of a sum,
LEMMA SumOfParts ==
    ASSUME NEW U, IsFiniteSet(U), NEW r, \A x \in U : r[x].size \in Nat
    PROVE  /\ \A S \in SUBSET U : SumOf(r, S) \in Nat
           /\ SumOf(r, {}) = 0
           /\ \A S \in SUBSET U : \A x \in S : SumOf(r, S) = r[x].size + SumOf(r, S \ {x})
<1>1. PICK g : Adds(g, r, U)
  BY AdderExists
<1>2. \A S \in SUBSET U : SumOf(r, S) = g[S]
  BY <1>1, SumIsAdded
<1>. QED BY <1>1, <1>2 DEF Adds

\* grows with the set,
LEMMA SumMonotone ==
    ASSUME NEW U, IsFiniteSet(U), NEW r, \A x \in U : r[x].size \in Nat,
           NEW S, S \subseteq U
    PROVE  SumOf(r, S) <= SumOf(r, U)
<1> DEFINE P == {D \in SUBSET (U \ S) : ~(SumOf(r, S) <= SumOf(r, S \cup D))}
<1>1. ASSUME P # {} PROVE FALSE
  <2>1. PICK D \in P : \A x \in D : D \ {x} \notin P
    <3>1. IsFiniteSet(U \ S) /\ P \subseteq SUBSET (U \ S)
      BY FS_Subset
    <3> HIDE DEF P
    <3>. QED BY <1>1, <3>1, SmallestSubset
  <2>0. SumOf(r, S) \in Nat /\ SumOf(r, S \cup (D \ {x \in D : TRUE})) \in Nat
    BY SumOfParts, <2>1
  <2>2. D # {}
    <3>1. SumOf(r, S) <= SumOf(r, S)
      BY <2>0
    <3>2. ASSUME D = {} PROVE S \cup D = S
      BY <3>2
    <3>. QED BY <3>1, <3>2, <2>1
  <2>3. PICK x \in D : TRUE
    BY <2>2
  <2>4. SumOf(r, S) <= SumOf(r, S \cup (D \ {x}))
    BY <2>1, <2>3
  <2>5. SumOf(r, S \cup D) = r[x].size + SumOf(r, (S \cup D) \ {x})
    BY SumOfParts, <2>1, <2>3
  <2>6. (S \cup D) \ {x} = S \cup (D \ {x})
    BY <2>1
  <2>7. SumOf(r, S) \in Nat /\ SumOf(r, S \cup (D \ {x})) \in Nat /\ r[x].size \in Nat
    BY SumOfParts, <2>1
  <2>8. ~(SumOf(r, S) <= SumOf(r, S \cup D))
    BY <2>1
  <2>9. SumOf(r, S \cup D) = r[x].size + SumOf(r, S \cup (D \ {x}))
    BY <2>5, <2>6, Zenon
  <2> DEFINE a == SumOf(r, S)
             b == SumOf(r, S \cup (D \ {x}))
             c == r[x].size
             d == SumOf(r, S \cup D)
  <2>10. a <= b /\ d = c + b /\ a \in Nat /\ b \in Nat /\ c \in Nat /\ ~(a <= d)
    BY <2>4, <2>9, <2>7, <2>8
  <2> HIDE DEF a, b, c, d
  <2>. QED BY <2>10
<1>2. U \ S \notin P
  BY <1>1
<1>3. S \cup (U \ S) = U
  OBVIOUS
<1>. QED BY <1>2, <1>3

\* and depends on the sizes only.
LEMMA SumAgrees ==
    ASSUME NEW U, IsFiniteSet(U), NEW r, \A x \in U : r[x].size \in Nat,
           NEW rr, \A x \in U : rr[x].size = r[x].size
    PROVE  SumOf(rr, U) = SumOf(r, U)
<1>1. PICK g : Adds(g, r, U)
  BY AdderExists
<1>2. Adds(g, rr, U)
  BY <1>1 DEF Adds
<1>. QED BY <1>1, <1>2, SumIsAdded

-----------------------------------------------------------------------------
\* The parts a content has.
Kept(content) == {p \in Part : content[p] # None}

\* The backup a request makes is not recorded yet.
Fresh(q) == \/ step[q] \in {"archiving", "encrypting", "recording"}
            \/ step[q] \in {"keying", "opening", "writing"} /\ key[q] = None

\* The steps after the old content has been saved.
Placing == {"staging", "ready", "swapping", "returning", "dropping", "importing"}

\* What a request holds at each step.
Working(q) ==
    /\ stamp[q] <= now
    /\ step[q] # "idle" =>
         /\ ask[q] \in Asks[q] /\ made[q] \in Backup /\ began[q] # None
         /\ Kept(began[q]) = Part /\ todo[q] \subseteq ask[q].parts \ {"files"}
         /\ ask[q].op = "restore" => source[q] \in Backup
         /\ step[q] # "archiving" =>
              taken[q] # None /\ Kept(taken[q].kept) = ask[q].parts
         /\ ask[q].op = "deploy" \/ step[q] \in Placing =>
              put[q] # None /\ ask[q].parts \subseteq Kept(put[q])
    /\ step[q] \in {"idle", "archiving"} => key[q] = None
    /\ step[q] = "idle" => todo[q] = {}
    /\ step[q] \in {"encrypting", "decrypting"} => key[q] # None
    /\ step[q] \in {"recording", "listing", "pruning", "deleting"} => key[q] \in Key
    /\ step[q] \in {"keying", "opening", "writing"} =>
         key[q] = None \/ ask[q].op = "restore"
    /\ step[q] = "decrypting" => ask[q].op = "restore"
    /\ step[q] \in Placing => ask[q].op # "create"
    /\ step[q] \in {"ready", "swapping", "returning", "dropping"} =>
         "files" \in ask[q].parts
    /\ old[q] # None <=> step[q] \in {"swapping", "returning", "dropping"}
    /\ step[q] = "deleting" =>
         /\ doomed[q] # <<>>
         /\ Head(doomed[q]) \in Rows => Head(doomed[q]) \in retired

\* Before it is recorded, nobody else knows the backup a request makes.
Unlisted(q) ==
    Fresh(q) => /\ row[made[q]] = None
                /\ \A r \in Request : source[r] # made[q]
                /\ \A r \in Request : made[q] \notin ToSet(doomed[r])

\* Two requests make different backups.
Apart(q) == \A r \in Request : q # r /\ step[q] # "idle" /\ step[r] # "idle" =>
                                  made[q] # made[r]

\* The file about to be recorded is the one that was sealed.
Written(q) == step[q] = "recording" => file[made[q]] =
                 [kept |-> taken[q].kept, key |-> key[q], whole |-> taken[q].whole]

\* A key somebody has read, or sealed a file with, is the key file's.
Keyed == /\ \A q \in Request : key[q] \in Key => key[q] = keyFile \/ keyLost
         /\ \A b \in Backup : file[b] # None => file[b].key = keyFile \/ keyLost

\* The row of a backup lists what its file holds, until a retention removes it.
Filed(b) == row[b] # None => IF file[b] = None THEN b \in retired
                             ELSE row[b].parts = Kept(file[b].kept)

\* The backup a request restores from holds what it asks for.
Sourced(q) == step[q] # "idle" /\ ask[q].op = "restore" /\ file[source[q]] # None =>
                 ask[q].parts \subseteq Kept(file[source[q]].kept)

\* Type correctness with what the steps of the requests and the files, keys and
\* rows say of each other.  TypeOK is not inductive alone: an action reads the
\* backup, the content and the key the step before it left.
Inv == /\ TypeOK /\ Keyed
       /\ \A q \in Request : Working(q) /\ Unlisted(q) /\ Apart(q) /\ Written(q) /\ Sourced(q)
       /\ \A b \in Backup : Filed(b)
       /\ Distinct(inserted)

USE SiteBackupsAssumption DEF Goto, Sites, Table, Marks, Store, Keys, Locals, Rows

LEMMA NothingListed == ToSet(<<>>) = {}
  BY DEF ToSet

LEMMA InitInv == Init => Inv
<1>1. Init => TypeOK
  <2>1. Init => /\ live \in [Site -> {c \in Contents : \A d \in Database : c[d] # None}]
                /\ inserted \in Seq(Backup) /\ ToSet(inserted) = {b \in Backup : row[b] # None}
    <3>1. [p \in Part |-> Original] \in {c \in Contents : \A d \in Database : c[d] # None}
      BY DEF Contents, Part
    <3>2. Init => <<>> \in Seq(Backup) /\ {b \in Backup : row[b] # None} = {}
      BY DEF Init
    <3>. QED BY <3>1, <3>2, NothingListed DEF Init
  <2>2. Init => /\ row \in [Backup -> Row \cup {None}] /\ file \in [Backup -> File \cup {None}]
                /\ now \in 0 .. MaxTime /\ faults \in 0 .. MaxFaults
                /\ stamp \in [Request -> 0 .. MaxTime]
    BY DEF Init
  <2>3. Init => /\ old \in [Request -> Content \cup {None}]
                /\ ask \in [Request -> Ask \cup {None}]
                /\ source \in [Request -> Backup \cup {None}]
                /\ made \in [Request -> Backup \cup {None}]
                /\ put \in [Request -> Contents \cup {None}]
                /\ began \in [Request -> Contents \cup {None}]
    BY DEF Init
  <2>4. Init => /\ taken \in [Request -> Plain \cup {None}]
                /\ key \in [Request -> Key \cup {"empty", None}]
                /\ doomed \in [Request -> Seq(Backup)]
                /\ todo \in [Request -> SUBSET Database]
                /\ step \in [Request -> Stage]
    BY <2>1 DEF Init, Stage
  <2>5. Init => /\ aside \subseteq [site : Site, content : Content] /\ retired \subseteq Backup
                /\ crossed \subseteq Request /\ keyLost \in BOOLEAN /\ overdue \in BOOLEAN
                /\ keyFile \in Key \cup {"none", "empty"}
    BY DEF Init
  <2>. QED BY <2>1, <2>2, <2>3, <2>4, <2>5 DEF TypeOK
<1>. QED BY <1>1 DEF Init, Inv, Keyed, Working, Unlisted, Apart, Written, Sourced,
            Filed, Fresh, Placing, Distinct

\* What TypeOK and Working say of a request that is served.
LEMMA Serving ==
    ASSUME Inv, NEW q \in Request, step[q] # "idle"
    PROVE  /\ ask[q] \in Ask /\ ask[q] \in Asks[q] /\ ask[q].site \in Site
           /\ ask[q].parts \in SUBSET Part
           /\ ask[q].op = "deploy" => ask[q].parts = {"files"}
           /\ made[q] \in Backup /\ made[q] # None
           /\ began[q] \in Contents /\ Kept(began[q]) = Part
           /\ ask[q].op = "restore" => source[q] \in Backup
           /\ step[q] # "archiving" =>
                /\ taken[q] \in Plain
                /\ taken[q].kept \in Contents /\ taken[q].whole \in BOOLEAN
                /\ Kept(taken[q].kept) = ask[q].parts
<1>1. ask[q] \in Asks[q] /\ Working(q)
  BY DEF Inv, Working
<1>2. ask[q] \in Ask
  BY <1>1
<1>. QED BY <1>1, <1>2 DEF Inv, TypeOK, Working, Ask, Plain

\* Replacing one part of one site leaves sites of their type.
LEMMA Placed ==
    ASSUME TypeOK, NEW s \in Site, NEW p \in Part, NEW c \in Content \cup {None},
           p \in Database => c # None
    PROVE  [live EXCEPT ![s][p] = c] \in
               [Site -> {x \in Contents : \A d \in Database : x[d] # None}]
<1>1. live[s] \in Contents /\ \A d \in Database : live[s][d] # None
  BY DEF TypeOK
<1>2. [live[s] EXCEPT ![p] = c] \in Contents
  BY <1>1 DEF Contents
<1>3. \A d \in Database : [live[s] EXCEPT ![p] = c][d] # None
  BY <1>1 DEF Contents, Part
<1>. QED BY <1>2, <1>3 DEF TypeOK

\* As many backups are recorded as were inserted.
LEMMA RowsFinite == ASSUME Inv PROVE IsFiniteSet(Rows)
<1>1. /\ inserted \in Seq(Backup) /\ ToSet(inserted) = Rows /\ Len(inserted) \in Nat
      /\ DOMAIN inserted = 1 .. Len(inserted)
  BY DEF Inv, TypeOK
<1>2. inserted \in Surjection(1 .. Len(inserted), Rows)
  <2>1. \A i \in 1 .. Len(inserted) : inserted[i] \in Rows
    BY <1>1 DEF ToSet
  <2>. QED BY <1>1, <2>1 DEF Surjection, ToSet
<1>3. IsFiniteSet(1 .. Len(inserted))
  BY <1>1, FS_Interval
<1>. QED BY <1>2, <1>3, FS_Surjection

\* The retention lists backups that are recorded.
LEMMA ListedRows ==
    ASSUME Inv, NEW q \in Request, List(q)
    PROVE  \E list \in Seq(Backup) :
              doomed' = [doomed EXCEPT ![q] = list] /\ ToSet(list) \subseteq Rows
<1> DEFINE past == {b \in Rows : Expired(b, stamp[q])}
<1>1. PICK gone \in OldestFirst(past), active \in OldestFirst(Rows \ past) :
        \E n \in 0 .. Len(active) :
            doomed' = [doomed EXCEPT ![q] = Reverse(gone) \o SubSeq(active, 1, n)]
  BY Zenon DEF List
<1>a. PICK n \in 0 .. Len(active) :
        doomed' = [doomed EXCEPT ![q] = Reverse(gone) \o SubSeq(active, 1, n)]
  BY <1>1
<1>2. past \subseteq Rows /\ IsFiniteSet(past) /\ IsFiniteSet(Rows \ past)
  BY RowsFinite, FS_Subset
<1> HIDE DEF past
<1>3. /\ Reverse(gone) \in Seq(past) /\ ToSet(Reverse(gone)) = past
      /\ active \in Seq(Rows \ past) /\ ToSet(active) = Rows \ past
  BY <1>2, Sorted, Backwards
<1>4. SubSeq(active, 1, n) \in Seq(Rows \ past)
  BY <1>3, <1>a, Started
<1>5. /\ Reverse(gone) \in Seq(Rows) /\ SubSeq(active, 1, n) \in Seq(Rows)
  BY <1>2, <1>3, <1>4, SeqMonotonic
<1>6. Reverse(gone) \o SubSeq(active, 1, n) \in Seq(Rows)
  BY <1>5, ConcatProperties
<1>7. ASSUME NEW s \in Seq(Rows) PROVE s \in Seq(Backup) /\ ToSet(s) \subseteq Rows
  BY SeqMonotonic, ElementOfSeq DEF ToSet
<1>. QED BY <1>a, <1>6, <1>7

LEMMA BeginInv ==
    ASSUME Inv, NEW q \in Request, Begin(q)
    PROVE  Inv'
<1>1. PICK a \in Asks[q], b \in Backup :
         /\ live[a.site]["files"] # None
         /\ ask' = [ask EXCEPT ![q] = a]
         /\ began' = [began EXCEPT ![q] = live[a.site]]
         /\ Unused(b)
         /\ made' = [made EXCEPT ![q] = b]
         /\ \/ a.op = "create" /\ UNCHANGED <<source, put>>
            \/ /\ a.op = "deploy"
               /\ \E c \in Artifact : put' = [put EXCEPT ![q] = [p \in Part |-> c]]
               /\ UNCHANGED source
            \/ /\ a.op = "restore"
               /\ \E x \in Rows : /\ row[x].site = a.site
                                  /\ ~Expired(x, now)
                                  /\ a.parts \subseteq row[x].parts
                                  /\ source' = [source EXCEPT ![q] = x]
               /\ UNCHANGED put
  BY DEF Begin
<1> DEFINE content == live[a.site]
<1>2. a \in Ask /\ a.site \in Site /\ a.op \in Operation /\ a.parts \subseteq Part
  BY DEF Ask
<1>3. content \in Contents /\ Kept(content) = Part
  BY <1>1, <1>2 DEF Inv, TypeOK, Kept, Part
<1>4. /\ step[q] = "idle" /\ step' = [step EXCEPT ![q] = "archiving"]
      /\ UNCHANGED <<live, old, aside, row, inserted, file, overdue, crossed, retired, keyFile,
                     keyLost, now, taken, key, stamp, doomed, todo, faults>>
  BY DEF Begin
<1>5. /\ put' \in [Request -> Contents \cup {None}]
      /\ \A r \in Request \ {q} : put'[r] = put[r]
      /\ a.op = "deploy" => put'[q] # None /\ a.parts \subseteq Kept(put'[q])
  <2>1. CASE a.op = "deploy"
    <3>1. PICK c \in Artifact : put' = [put EXCEPT ![q] = [p \in Part |-> c]]
      BY <1>1, <2>1
    <3>2. c \in Content /\ c # None
      OBVIOUS
    <3>3. [p \in Part |-> c] \in Contents
      BY <3>2 DEF Contents
    <3>4. Kept([p \in Part |-> c]) = Part
      BY <3>2 DEF Kept
    <3>. QED BY <3>1, <3>3, <3>4, <1>2 DEF Inv, TypeOK
  <2>2. CASE a.op # "deploy"
    BY <1>1, <2>2 DEF Inv, TypeOK
  <2>. QED BY <2>1, <2>2
<1>6. /\ source' \in [Request -> Backup \cup {None}]
      /\ \A r \in Request \ {q} : source'[r] = source[r]
      /\ source' = source \/ source'[q] \in Rows
      /\ a.op = "restore" => source'[q] \in Rows /\ a.parts \subseteq row[source'[q]].parts
  <2>1. source \in [Request -> Backup \cup {None}]
    BY DEF Inv, TypeOK
  <2>2. CASE a.op = "restore"
    <3>1. PICK x \in Rows : a.parts \subseteq row[x].parts /\ source' = [source EXCEPT ![q] = x]
      BY <1>1, <2>2
    <3>. QED BY <2>1, <3>1
  <2>3. CASE a.op # "restore"
    BY <1>1, <2>1, <2>3
  <2>. QED BY <2>2, <2>3
<1> HIDE DEF content
<1>7. /\ ask' = [ask EXCEPT ![q] = a] /\ began' = [began EXCEPT ![q] = content]
      /\ made' = [made EXCEPT ![q] = b]
      /\ row[b] = None /\ file[b] = None
      /\ \A r \in Request : made[r] # b /\ source[r] # b /\ b \notin ToSet(doomed[r])
  BY <1>1 DEF content, Unused
<1>8. TypeOK'
  BY <1>2, <1>3, <1>4, <1>5, <1>6, <1>7 DEF Inv, TypeOK, Stage
<1>9. Keyed'
  BY <1>4 DEF Inv, Keyed
<1>10. ASSUME NEW r \in Request PROVE Working(r)'
  <2>1. CASE r = q
    BY SMTT(30), <2>1, <1>2, <1>3, <1>4, <1>5, <1>6, <1>7 DEF Inv, TypeOK, Working, Placing,
       Contents
  <2>2. CASE r # q
    BY <2>2, <1>4, <1>5, <1>6, <1>7 DEF Inv, Working
  <2>. QED BY <2>1, <2>2
<1>11. ASSUME NEW r \in Request PROVE Unlisted(r)'
  BY <1>4, <1>6, <1>7 DEF Inv, TypeOK, Unlisted, Fresh
<1>12. ASSUME NEW r \in Request PROVE Apart(r)'
  BY <1>4, <1>7 DEF Inv, TypeOK, Apart
<1>13. ASSUME NEW r \in Request PROVE Written(r)'
  BY <1>4, <1>7 DEF Inv, TypeOK, Written
<1>14. ASSUME NEW r \in Request PROVE Sourced(r)'
  <2>1. CASE r = q
    <3>1. ask'[q] = a /\ file' = file
      BY <1>4, <1>7 DEF Inv, TypeOK
    <3>2. a.op = "restore" /\ file[source'[q]] # None =>
             a.parts \subseteq Kept(file[source'[q]].kept)
      BY <1>6 DEF Inv, Filed
    <3>. QED BY <2>1, <3>1, <3>2 DEF Sourced
  <2>2. CASE r # q
    BY <2>2, <1>4, <1>6, <1>7 DEF Inv, TypeOK, Sourced
  <2>. QED BY <2>1, <2>2
<1>15. ASSUME NEW x \in Backup PROVE Filed(x)'
  BY <1>4 DEF Inv, Filed
<1>16. Distinct(inserted)'
  BY <1>4 DEF Inv, Distinct
<1>. QED BY <1>8, <1>9, <1>10, <1>11, <1>12, <1>13, <1>14, <1>15, <1>16 DEF Inv

LEMMA ArchiveInv ==
    ASSUME Inv, NEW q \in Request, Archive(q)
    PROVE  Inv'
<1>1. TypeOK'
  <2>1. taken'[q] \in Plain
    <3>1. ask[q] \in Ask /\ live[ask[q].site] \in Contents
      BY DEF Archive, TypeOK, Inv, Working, Ask
    <3>2. [p \in Part |-> IF p \in ask[q].parts THEN live[ask[q].site][p] ELSE None] \in Contents
      BY <3>1 DEF Contents
    <3>. QED BY <3>2 DEF Archive, TypeOK, Inv, Plain
  <2>. QED BY <2>1 DEF Archive, TypeOK, Inv, Stage, Fail
<1>2. Keyed'
  BY DEF Archive, Inv, Keyed
<1>3. ASSUME NEW r \in Request PROVE Working(r)'
  <2>1. /\ taken'[q] # None /\ Kept(taken'[q].kept) = ask[q].parts
        /\ key[q] = None /\ step[q] = "archiving"
    <3>1. /\ \A p \in ask[q].parts : live[ask[q].site][p] # None
          /\ ask[q].parts \in SUBSET Part /\ step[q] = "archiving"
      BY Serving DEF Archive
    <3> DEFINE kept == [p \in Part |-> IF p \in ask[q].parts THEN live[ask[q].site][p] ELSE None]
    <3>2. Kept(kept) = ask[q].parts
      BY <3>1 DEF Kept
    <3> HIDE DEF kept
    <3>3. \E whole \in BOOLEAN : taken'[q] = [kept |-> kept, whole |-> whole]
      BY DEF Archive, Inv, TypeOK, kept
    <3>5. kept \in Contents
      BY <3>1, Serving DEF Archive, Inv, TypeOK, kept, Contents
    <3>4. taken'[q] # None
      BY <3>1, <3>3, <3>5 DEF Plain
    <3>. QED BY <3>1, <3>2, <3>3, <3>4 DEF Inv, Working
  <2>2. CASE r = q
    BY <2>1, <2>2 DEF Archive, Inv, Working, Placing
  <2>3. CASE r # q
    BY <2>3 DEF Archive, Inv, Working
  <2>. QED BY <2>2, <2>3
<1>4. ASSUME NEW r \in Request PROVE Unlisted(r)'
  BY DEF Archive, Inv, Unlisted, Fresh
<1>5. ASSUME NEW r \in Request PROVE Apart(r)'
  BY DEF Archive, Inv, Apart
<1>6. ASSUME NEW r \in Request PROVE Written(r)'
  BY DEF Archive, Inv, Written
<1>7. ASSUME NEW r \in Request PROVE Sourced(r)'
  BY DEF Archive, Inv, Sourced
<1>8. ASSUME NEW b \in Backup PROVE Filed(b)'
  BY DEF Archive, Inv, Filed
<1>9. Distinct(inserted)'
  BY DEF Archive, Inv, Distinct
<1>. QED BY <1>1, <1>2, <1>3, <1>4, <1>5, <1>6, <1>7, <1>8, <1>9 DEF Inv

LEMMA ArchiveFailsInv ==
    ASSUME Inv, NEW q \in Request, ArchiveFails(q)
    PROVE  Inv'
<1>1. TypeOK'
  BY DEF ArchiveFails, TypeOK, Inv, Stage, Fail, Return
<1>2. Keyed'
  BY DEF ArchiveFails, Inv, Keyed, Return
<1>3. ASSUME NEW r \in Request PROVE Working(r)'
  BY DEF ArchiveFails, TypeOK, Inv, Working, Placing, Return
<1>4. ASSUME NEW r \in Request PROVE Unlisted(r)'
  BY NothingListed DEF ArchiveFails, TypeOK, Inv, Unlisted, Fresh, Working, Return
<1>5. ASSUME NEW r \in Request PROVE Apart(r)'
  BY DEF ArchiveFails, Inv, Apart, Working, Return
<1>6. ASSUME NEW r \in Request PROVE Written(r)'
  BY ZenonT(60) DEF ArchiveFails, TypeOK, Inv, Written, Unlisted, Apart, Fresh, Return
<1>7. ASSUME NEW r \in Request PROVE Sourced(r)'
  BY DEF ArchiveFails, TypeOK, Inv, Sourced, Return
<1>8. ASSUME NEW b \in Backup PROVE Filed(b)'
  BY DEF ArchiveFails, Inv, Filed, Return
<1>9. Distinct(inserted)'
  BY DEF ArchiveFails, Inv
<1>. QED BY <1>1, <1>2, <1>3, <1>4, <1>5, <1>6, <1>7, <1>8, <1>9 DEF Inv

LEMMA ReadKeyInv ==
    ASSUME Inv, NEW q \in Request, ReadKey(q)
    PROVE  Inv'
<1>1. TypeOK'
  BY DEF ReadKey, TypeOK, Inv, Stage
<1>2. Keyed'
  BY DEF ReadKey, Inv, Keyed
<1>3. ASSUME NEW r \in Request PROVE Working(r)'
  <2>1. CASE r = q
    <3>1. keyFile \in Key \cup {"empty"} /\ keyFile # None /\ key'[q] = keyFile
      BY DEF ReadKey, Inv, TypeOK
    <3>. QED BY <2>1, <3>1 DEF ReadKey, TypeOK, Inv, Working, Placing
  <2>2. CASE r # q
    BY <2>2 DEF ReadKey, Inv, Working
  <2>. QED BY <2>1, <2>2
<1>4. ASSUME NEW r \in Request PROVE Unlisted(r)'
  BY DEF ReadKey, TypeOK, Inv, Unlisted, Fresh
<1>5. ASSUME NEW r \in Request PROVE Apart(r)'
  BY DEF ReadKey, Inv, Apart
<1>6. ASSUME NEW r \in Request PROVE Written(r)'
  BY DEF ReadKey, Inv, Written
<1>7. ASSUME NEW r \in Request PROVE Sourced(r)'
  BY DEF ReadKey, Inv, Sourced
<1>8. ASSUME NEW b \in Backup PROVE Filed(b)'
  BY DEF ReadKey, Inv, Filed
<1>9. Distinct(inserted)'
  BY DEF ReadKey, Inv, Distinct
<1>. QED BY <1>1, <1>2, <1>3, <1>4, <1>5, <1>6, <1>7, <1>8, <1>9 DEF Inv

LEMMA ReadKeyFailsInv ==
    ASSUME Inv, NEW q \in Request, ReadKeyFails(q)
    PROVE  Inv'
<1>1. TypeOK'
  BY DEF ReadKeyFails, TypeOK, Inv, Stage, Fail
<1>2. Keyed'
  BY DEF ReadKeyFails, Inv, Keyed
<1>3. ASSUME NEW r \in Request PROVE Working(r)'
  BY DEF ReadKeyFails, Inv, Working, Placing
<1>4. ASSUME NEW r \in Request PROVE Unlisted(r)'
  BY DEF ReadKeyFails, Inv, Unlisted, Fresh
<1>5. ASSUME NEW r \in Request PROVE Apart(r)'
  BY DEF ReadKeyFails, Inv, Apart
<1>6. ASSUME NEW r \in Request PROVE Written(r)'
  BY DEF ReadKeyFails, Inv, Written
<1>7. ASSUME NEW r \in Request PROVE Sourced(r)'
  BY DEF ReadKeyFails, Inv, Sourced
<1>8. ASSUME NEW b \in Backup PROVE Filed(b)'
  BY DEF ReadKeyFails, Inv, Filed
<1>9. Distinct(inserted)'
  BY DEF ReadKeyFails, Inv, Distinct
<1>. QED BY <1>1, <1>2, <1>3, <1>4, <1>5, <1>6, <1>7, <1>8, <1>9 DEF Inv

LEMMA OpenKeyInv ==
    ASSUME Inv, NEW q \in Request, OpenKey(q)
    PROVE  Inv'
<1>1. TypeOK'
  BY DEF OpenKey, TypeOK, Inv, Stage
<1>2. Keyed'
  <2>1. key' = key /\ file' = file /\ (keyLost \/ keyFile \in Key => keyLost')
    BY DEF OpenKey, Inv, TypeOK
  <2>2. \A b \in Backup : file[b] # None => file[b].key \in Key
    BY DEF Inv, TypeOK, File
  <2>. QED BY <2>1, <2>2 DEF Inv, Keyed
<1>3. ASSUME NEW r \in Request PROVE Working(r)'
  BY DEF OpenKey, Inv, Working, Placing
<1>4. ASSUME NEW r \in Request PROVE Unlisted(r)'
  BY DEF OpenKey, Inv, Unlisted, Fresh
<1>5. ASSUME NEW r \in Request PROVE Apart(r)'
  BY DEF OpenKey, Inv, Apart
<1>6. ASSUME NEW r \in Request PROVE Written(r)'
  BY DEF OpenKey, Inv, Written
<1>7. ASSUME NEW r \in Request PROVE Sourced(r)'
  BY DEF OpenKey, Inv, Sourced
<1>8. ASSUME NEW b \in Backup PROVE Filed(b)'
  BY DEF OpenKey, Inv, Filed
<1>9. Distinct(inserted)'
  BY DEF OpenKey, Inv, Distinct
<1>. QED BY <1>1, <1>2, <1>3, <1>4, <1>5, <1>6, <1>7, <1>8, <1>9 DEF Inv

LEMMA WriteKeyInv ==
    ASSUME Inv, NEW q \in Request, WriteKey(q)
    PROVE  Inv'
<1>1. TypeOK'
  BY DEF WriteKey, TypeOK, Inv, Stage
<1>2. Keyed'
  <2>1. /\ \A r \in Request : key'[r] = key[r] \/ key'[r] = keyFile'
        /\ file' = file /\ (keyLost \/ keyFile \in Key => keyLost')
    BY DEF WriteKey, Inv, TypeOK
  <2>2. \A b \in Backup : file[b] # None => file[b].key \in Key
    BY DEF Inv, TypeOK, File
  <2>. QED BY <2>1, <2>2 DEF Inv, Keyed
<1>3. ASSUME NEW r \in Request PROVE Working(r)'
  BY DEF WriteKey, TypeOK, Inv, Working, Placing
<1>4. ASSUME NEW r \in Request PROVE Unlisted(r)'
  BY DEF WriteKey, Inv, Unlisted, Fresh
<1>5. ASSUME NEW r \in Request PROVE Apart(r)'
  BY DEF WriteKey, Inv, Apart
<1>6. ASSUME NEW r \in Request PROVE Written(r)'
  BY DEF WriteKey, Inv, Written
<1>7. ASSUME NEW r \in Request PROVE Sourced(r)'
  BY DEF WriteKey, Inv, Sourced
<1>8. ASSUME NEW b \in Backup PROVE Filed(b)'
  BY DEF WriteKey, Inv, Filed
<1>9. Distinct(inserted)'
  BY DEF WriteKey, Inv, Distinct
<1>. QED BY <1>1, <1>2, <1>3, <1>4, <1>5, <1>6, <1>7, <1>8, <1>9 DEF Inv

LEMMA WriteKeyFailsInv ==
    ASSUME Inv, NEW q \in Request, WriteKeyFails(q)
    PROVE  Inv'
<1>1. TypeOK'
  BY DEF WriteKeyFails, TypeOK, Inv, Stage, Fail, Return
<1>2. Keyed'
  BY DEF WriteKeyFails, Inv, Keyed, Return
<1>3. ASSUME NEW r \in Request PROVE Working(r)'
  BY DEF WriteKeyFails, TypeOK, Inv, Working, Placing, Return
<1>4. ASSUME NEW r \in Request PROVE Unlisted(r)'
  BY NothingListed DEF WriteKeyFails, TypeOK, Inv, Unlisted, Fresh, Working, Return
<1>5. ASSUME NEW r \in Request PROVE Apart(r)'
  BY DEF WriteKeyFails, Inv, Apart, Working, Return
<1>6. ASSUME NEW r \in Request PROVE Written(r)'
  BY DEF WriteKeyFails, TypeOK, Inv, Written, Return
<1>7. ASSUME NEW r \in Request PROVE Sourced(r)'
  BY DEF WriteKeyFails, TypeOK, Inv, Sourced, Return
<1>8. ASSUME NEW b \in Backup PROVE Filed(b)'
  BY DEF WriteKeyFails, Inv, Filed, Return
<1>9. Distinct(inserted)'
  BY DEF WriteKeyFails, Inv
<1>. QED BY <1>1, <1>2, <1>3, <1>4, <1>5, <1>6, <1>7, <1>8, <1>9 DEF Inv

LEMMA EncryptInv ==
    ASSUME Inv, NEW q \in Request, Encrypt(q)
    PROVE  Inv'
<1>1. TypeOK'
  <2>1. [kept |-> taken[q].kept, key |-> key[q], whole |-> taken[q].whole] \in File /\ made[q] \in Backup
    BY Serving DEF Encrypt, File
  <2>. QED BY <2>1 DEF Encrypt, TypeOK, Inv, Stage
<1>2. Keyed'
  BY DEF Encrypt, Inv, Keyed
<1>3. ASSUME NEW r \in Request PROVE Working(r)'
  BY DEF Encrypt, TypeOK, Inv, Working, Placing
<1>4. ASSUME NEW r \in Request PROVE Unlisted(r)'
  BY DEF Encrypt, Inv, Unlisted, Fresh
<1>5. ASSUME NEW r \in Request PROVE Apart(r)'
  BY DEF Encrypt, Inv, Apart
<1>6. ASSUME NEW r \in Request PROVE Written(r)'
  BY ZenonT(60) DEF Encrypt, TypeOK, Inv, Written, Unlisted, Apart, Fresh, Working
<1>7. ASSUME NEW r \in Request PROVE Sourced(r)'
  BY DEF Encrypt, Inv, Sourced, Unlisted, Fresh
<1>8. ASSUME NEW b \in Backup PROVE Filed(b)'
  <2>1. file'[b] = file[b] \/ (b = made[q] /\ row[b] = None)
    BY Serving DEF Encrypt, Inv, Unlisted, Fresh
  <2>. QED BY <2>1 DEF Encrypt, Inv, Filed
<1>9. Distinct(inserted)'
  BY DEF Encrypt, Inv, Distinct
<1>. QED BY <1>1, <1>2, <1>3, <1>4, <1>5, <1>6, <1>7, <1>8, <1>9 DEF Inv

LEMMA EncryptFailsInv ==
    ASSUME Inv, NEW q \in Request, EncryptFails(q)
    PROVE  Inv'
<1> DEFINE cut == [kept |-> taken[q].kept, key |-> key[q], whole |-> FALSE]
<1>0. /\ step[q] = "encrypting" /\ made[q] \in Backup /\ row[made[q]] = None
      /\ \A r \in Request : source[r] # made[q]
  BY Serving DEF EncryptFails, Inv, Unlisted, Fresh
<1>a. /\ file' = file \/ (/\ key[q] \in Key /\ cut \in File
                          /\ file' = [file EXCEPT ![made[q]] = cut])
      /\ faults' \in 0 .. MaxFaults /\ Return(q)
      /\ UNCHANGED <<live, old, aside, row, inserted, overdue, crossed, keyFile, keyLost, now>>
  <2>1. key[q] \in Key => cut \in File
    BY <1>0, Serving DEF File
  <2> HIDE DEF cut
  <2>. QED BY <2>1 DEF EncryptFails, Fail, Inv, TypeOK, cut
<1>b. /\ file' \in [Backup -> File \cup {None}]
      /\ \A b \in Backup : file'[b] = file[b]
                         \/ (b = made[q] /\ file'[b] # None /\ file'[b].key = key[q] /\ key[q] \in Key)
  <2>1. key[q] \in Key => cut.key = key[q] /\ (cut \in File => cut # None)
    OBVIOUS
  <2> HIDE DEF cut
  <2>4. file \in [Backup -> File \cup {None}]
    BY DEF Inv, TypeOK
  <2>2. CASE file' = file
    BY <2>2, <2>4
  <2>3. CASE key[q] \in Key /\ cut \in File /\ file' = [file EXCEPT ![made[q]] = cut]
    <3>1. \A b \in Backup : b # made[q] => file'[b] = file[b]
      BY <2>3, <2>4
    <3>2. file'[made[q]] = cut
      BY <1>0, <2>3, <2>4
    <3>. QED BY <2>1, <2>3, <2>4, <3>1, <3>2
  <2>. QED BY <1>a, <2>2, <2>3
<1> HIDE DEF cut
<1>1. TypeOK'
  BY <1>a, <1>b DEF Inv, TypeOK, Return, Stage
<1>2. Keyed'
  BY <1>a, <1>b DEF Inv, Keyed, Return
<1>3. ASSUME NEW r \in Request PROVE Working(r)'
  <2>1. CASE r = q
    <3>1. /\ step'[q] = "idle" /\ key'[q] = None /\ todo'[q] = {} /\ stamp'[q] = 0
          /\ UNCHANGED <<old, now>>
      BY <1>a DEF Return, Inv, TypeOK
    <3>2. old[q] = None /\ 0 <= now
      <4>1. Working(q) /\ now \in Nat
        BY DEF Inv, TypeOK
      <4>. QED BY <1>0, <4>1 DEF Working
    <3>. QED BY <2>1, <3>1, <3>2 DEF Working, Placing
  <2>2. CASE r # q
    BY <1>a, <2>2 DEF TypeOK, Inv, Working, Return
  <2>. QED BY <2>1, <2>2
<1>4. ASSUME NEW r \in Request PROVE Unlisted(r)'
  BY <1>a, NothingListed DEF TypeOK, Inv, Unlisted, Fresh, Working, Return
<1>5. ASSUME NEW r \in Request PROVE Apart(r)'
  BY <1>a DEF TypeOK, Inv, Apart, Return
<1>6. ASSUME NEW r \in Request PROVE Written(r)'
  <2>1. CASE r = q
    BY <1>a, <2>1 DEF Inv, TypeOK, Written, Return
  <2>2. CASE r # q /\ step[r] = "recording"
    <3>1. made[r] # made[q] /\ made[r] \in Backup /\ step[q] # "idle"
      BY <2>2, <1>0, Serving DEF Inv, Apart
    <3>. QED BY ZenonT(60), <1>a, <2>2, <3>1 DEF Inv, TypeOK, Written, Return
  <2>3. CASE r # q /\ step[r] # "recording"
    BY <1>a, <2>3 DEF Inv, Written, Return
  <2>. QED BY <2>1, <2>2, <2>3
<1>7. ASSUME NEW r \in Request PROVE Sourced(r)'
  BY <1>0, <1>a DEF TypeOK, Inv, Sourced, Working, Return
<1>8. ASSUME NEW b \in Backup PROVE Filed(b)'
  BY <1>0, <1>a, <1>b DEF Inv, Filed, Return
<1>9. Distinct(inserted)'
  BY <1>a DEF Inv, Distinct
<1>. QED BY <1>1, <1>2, <1>3, <1>4, <1>5, <1>6, <1>7, <1>8, <1>9 DEF Inv

LEMMA RecordInv ==
    ASSUME Inv, NEW q \in Request, Record(q)
    PROVE  Inv'
<1>1. PICK n \in Sizes : row' = [row EXCEPT ![made[q]] =
         [site |-> ask[q].site, parts |-> ask[q].parts, size |-> n, at |-> stamp[q]]]
  BY DEF Record
<1> DEFINE new == [site |-> ask[q].site, parts |-> ask[q].parts, size |-> n, at |-> stamp[q]]
<1>2. /\ step[q] = "recording" /\ step' = [step EXCEPT ![q] = "listing"]
      /\ inserted' = Append(inserted, made[q]) /\ retired' = retired \ {made[q]}
      /\ UNCHANGED <<live, old, aside, file, overdue, crossed, keyFile, keyLost, now, ask, source,
                     put, made, taken, key, stamp, doomed, todo, began, faults>>
  BY DEF Record
<1>3. /\ made[q] \in Backup /\ row[made[q]] = None /\ key[q] \in Key
      /\ \A r \in Request : source[r] # made[q] /\ made[q] \notin ToSet(doomed[r])
      /\ ask[q].site \in Site /\ ask[q].parts \in SUBSET Part
      /\ file[made[q]] # None /\ Kept(file[made[q]].kept) = ask[q].parts
  <2>1. file[made[q]] = [kept |-> taken[q].kept, key |-> key[q], whole |-> taken[q].whole]
    BY <1>2 DEF Inv, Written
  <2>2. key[q] \in Key
    BY <1>2 DEF Inv, Working
  <2>3. [kept |-> taken[q].kept, key |-> key[q], whole |-> taken[q].whole] \in File
    BY <1>2, <2>2, Serving DEF File
  <2>. QED BY <1>2, <2>1, <2>2, <2>3, Serving DEF Inv, Unlisted, Fresh
<1>4. new \in Row /\ new # None
  BY <1>3 DEF Inv, TypeOK, Row
<1>5. new.parts = ask[q].parts
  OBVIOUS
<1> HIDE DEF new
<1>6. /\ row' \in [Backup -> Row \cup {None}] /\ row'[made[q]] = new
      /\ \A b \in Backup : b # made[q] => row'[b] = row[b]
      /\ Rows' = Rows \cup {made[q]}
  BY <1>1, <1>3, <1>4 DEF Inv, TypeOK, new
<1>7. inserted' \in Seq(Backup) /\ ToSet(inserted') = Rows' /\ Distinct(inserted')
  BY <1>2, <1>3, <1>6, Appended DEF Inv, TypeOK
<1>8. TypeOK'
  BY <1>2, <1>6, <1>7 DEF Inv, TypeOK, Stage
<1>9. Keyed'
  BY <1>2 DEF Inv, Keyed
<1>10. ASSUME NEW r \in Request PROVE Working(r)'
  <2>1. step[r] = "deleting" => Head(doomed[r]) \in ToSet(doomed[r]) /\ doomed[r] # <<>>
    BY Popped DEF Inv, TypeOK, Working
  <2>2. CASE r = q
    BY <1>2, <1>3, <2>2 DEF Inv, Working, Placing
  <2>3. CASE r # q
    BY <1>2, <1>3, <1>6, <2>1, <2>3 DEF Inv, Working
  <2>. QED BY <2>2, <2>3
<1>11. ASSUME NEW r \in Request PROVE Unlisted(r)'
  <2>1. CASE r = q
    BY <1>2, <2>1 DEF Inv, TypeOK, Fresh, Unlisted
  <2>2. CASE r # q /\ Fresh(r)
    <3>1. made[r] # made[q] /\ made[r] \in Backup
      BY <1>2, <2>2, Serving DEF Inv, Apart, Fresh
    <3>. QED BY <1>2, <1>6, <2>2, <3>1 DEF Inv, Unlisted
  <2>3. CASE r # q /\ ~Fresh(r)
    BY <1>2, <2>3 DEF Inv, Fresh, Unlisted
  <2>. QED BY <2>1, <2>2, <2>3
<1>12. ASSUME NEW r \in Request PROVE Apart(r)'
  BY <1>2 DEF Inv, TypeOK, Apart
<1>13. ASSUME NEW r \in Request PROVE Written(r)'
  BY <1>2 DEF Inv, TypeOK, Written
<1>14. ASSUME NEW r \in Request PROVE Sourced(r)'
  BY <1>2 DEF Inv, TypeOK, Sourced
<1>15. ASSUME NEW b \in Backup PROVE Filed(b)'
  BY <1>2, <1>3, <1>5, <1>6 DEF Inv, Filed
<1>. QED BY <1>7, <1>8, <1>9, <1>10, <1>11, <1>12, <1>13, <1>14, <1>15 DEF Inv

LEMMA RecordFailsInv ==
    ASSUME Inv, NEW q \in Request, RecordFails(q)
    PROVE  Inv'
<1>0. /\ file' \in [Backup -> File \cup {None}]
      /\ \A b \in Backup : file'[b] = file[b] \/ (b = made[q] /\ file'[b] = None)
  <2>1. file' = file \/ file' = [file EXCEPT ![made[q]] = None]
    BY DEF RecordFails
  <2>2. file \in [Backup -> File \cup {None}]
    BY DEF Inv, TypeOK
  <2>. QED BY <2>1, <2>2
<1>1. TypeOK'
  <2>1. file' \in [Backup -> File \cup {None}] /\ faults' \in 0 .. MaxFaults
    BY <1>0 DEF RecordFails, TypeOK, Inv, Fail
  <2>. QED BY <2>1 DEF RecordFails, TypeOK, Inv, Working, Stage, Return
<1>2. Keyed'
  BY <1>0 DEF RecordFails, Inv, Keyed, Return
<1>3. ASSUME NEW r \in Request PROVE Working(r)'
  BY DEF RecordFails, TypeOK, Inv, Working, Placing, Return
<1>4. ASSUME NEW r \in Request PROVE Unlisted(r)'
  BY NothingListed DEF RecordFails, TypeOK, Inv, Unlisted, Fresh, Working, Return
<1>5. ASSUME NEW r \in Request PROVE Apart(r)'
  BY DEF RecordFails, Inv, Apart, Working, Return
<1>6. ASSUME NEW r \in Request PROVE Written(r)'
  <2>1. step[q] = "recording" /\ step' = [step EXCEPT ![q] = "idle"]
    BY DEF RecordFails, Return
  <2>2. r # q => /\ step'[r] = step[r] /\ made'[r] = made[r] /\ taken'[r] = taken[r]
                 /\ key'[r] = key[r]
    BY DEF RecordFails, Return, Inv, TypeOK
  <2>3. step'[r] = "recording" => r # q /\ made[r] \in Backup /\ made[r] # made[q]
    BY <2>1, <2>2, Serving DEF Inv, TypeOK, Apart
  <2>. QED BY <1>0, <2>2, <2>3 DEF Inv, Written
<1>7. ASSUME NEW r \in Request PROVE Sourced(r)'
  <2>1. step'[r] # "idle" => /\ r # q /\ step[r] # "idle" /\ ask'[r] = ask[r]
                             /\ source'[r] = source[r]
    BY DEF RecordFails, Return, Inv, TypeOK
  <2>. QED BY <1>0, <2>1, Serving DEF Inv, Sourced
<1>8. ASSUME NEW b \in Backup PROVE Filed(b)'
  <2>1. row[made[q]] = None /\ row' = row
    BY DEF RecordFails, Inv, Unlisted, Fresh
  <2>2. file'[b] = file[b] \/ b = made[q]
    BY DEF RecordFails, Inv, TypeOK
  <2>3. b \in retired /\ row[b] # None => b \in retired'
    BY DEF RecordFails, Return
  <2>. QED BY <2>1, <2>2, <2>3 DEF Inv, Filed
<1>9. Distinct(inserted)'
  BY DEF RecordFails, Inv
<1>. QED BY <1>1, <1>2, <1>3, <1>4, <1>5, <1>6, <1>7, <1>8, <1>9 DEF Inv

LEMMA ListInv ==
    ASSUME Inv, NEW q \in Request, List(q)
    PROVE  Inv'
<1>1. /\ step[q] = "listing" /\ step' = [step EXCEPT ![q] = "pruning"]
      /\ overdue' \in BOOLEAN /\ crossed' \subseteq Request
      /\ UNCHANGED <<live, old, aside, row, inserted, file, retired, keyFile, keyLost, now, ask,
                     source, put, made, taken, key, stamp, todo, began, faults>>
  BY DEF List, Inv, TypeOK
<1>2. PICK list \in Seq(Backup) : doomed' = [doomed EXCEPT ![q] = list] /\ ToSet(list) \subseteq Rows
  BY ListedRows DEF Inv
<1>3. TypeOK'
  BY <1>1, <1>2 DEF Inv, TypeOK, Stage
<1>4. Keyed'
  BY <1>1 DEF Inv, Keyed
<1>5. ASSUME NEW r \in Request PROVE Working(r)'
  BY <1>1, <1>2 DEF Inv, Working, Placing
<1>6. ASSUME NEW r \in Request PROVE Unlisted(r)'
  BY <1>1, <1>2 DEF Inv, Unlisted, Fresh
<1>7. ASSUME NEW r \in Request PROVE Apart(r)'
  BY <1>1 DEF Inv, TypeOK, Apart
<1>8. ASSUME NEW r \in Request PROVE Written(r)'
  BY <1>1 DEF Inv, TypeOK, Written
<1>9. ASSUME NEW r \in Request PROVE Sourced(r)'
  BY <1>1 DEF Inv, TypeOK, Sourced
<1>10. ASSUME NEW b \in Backup PROVE Filed(b)'
  BY <1>1 DEF Inv, Filed
<1>11. Distinct(inserted)'
  BY <1>1 DEF Inv, Distinct
<1>. QED BY <1>3, <1>4, <1>5, <1>6, <1>7, <1>8, <1>9, <1>10, <1>11 DEF Inv

LEMMA ListFailsInv ==
    ASSUME Inv, NEW q \in Request, ListFails(q)
    PROVE  Inv'
<1>1. /\ step[q] = "listing" /\ step' = [step EXCEPT ![q] = "pruning"]
      /\ overdue' \in BOOLEAN /\ faults' \in 0 .. MaxFaults
      /\ UNCHANGED <<live, old, aside, row, inserted, file, crossed, retired, keyFile, keyLost,
                     now, ask, source, put, made, taken, key, stamp, todo, began>>
  <2>1. faults' \in 0 .. MaxFaults /\ overdue' \in BOOLEAN
    BY DEF ListFails, Fail, Inv, TypeOK
  <2>. QED BY <2>1 DEF ListFails
<1>2. PICK list \in Seq(Backup) : doomed' = [doomed EXCEPT ![q] = list] /\ ToSet(list) = {}
  <2>1. <<>> \in Seq(Backup)
    OBVIOUS
  <2>. QED BY <2>1, NothingListed DEF ListFails
<1>3. TypeOK'
  BY <1>1, <1>2 DEF Inv, TypeOK, Stage
<1>4. Keyed'
  BY <1>1 DEF Inv, Keyed
<1>5. ASSUME NEW r \in Request PROVE Working(r)'
  BY <1>1, <1>2 DEF Inv, Working, Placing
<1>6. ASSUME NEW r \in Request PROVE Unlisted(r)'
  BY <1>1, <1>2 DEF Inv, Unlisted, Fresh
<1>7. ASSUME NEW r \in Request PROVE Apart(r)'
  BY <1>1 DEF Inv, TypeOK, Apart
<1>8. ASSUME NEW r \in Request PROVE Written(r)'
  BY <1>1 DEF Inv, TypeOK, Written
<1>9. ASSUME NEW r \in Request PROVE Sourced(r)'
  BY <1>1 DEF Inv, TypeOK, Sourced
<1>10. ASSUME NEW b \in Backup PROVE Filed(b)'
  BY <1>1 DEF Inv, Filed
<1>11. Distinct(inserted)'
  BY <1>1 DEF Inv, Distinct
<1>. QED BY <1>3, <1>4, <1>5, <1>6, <1>7, <1>8, <1>9, <1>10, <1>11 DEF Inv

LEMMA RemoveFileInv ==
    ASSUME Inv, NEW q \in Request, RemoveFile(q)
    PROVE  Inv'
<1>0. /\ file' \in [Backup -> File \cup {None}] /\ faults' \in 0 .. MaxFaults
      /\ \A b \in Backup : file'[b] = file[b] \/ (b = Head(doomed[q]) /\ file'[b] = None)
  <2>1. file' = file \/ file' = [file EXCEPT ![Head(doomed[q])] = None]
    BY DEF RemoveFile
  <2>2. faults' = faults \/ Fail("disk")
    BY DEF RemoveFile
  <2>3. faults' \in 0 .. MaxFaults
    BY <2>2 DEF Fail, Inv, TypeOK
  <2>4. file \in [Backup -> File \cup {None}]
    BY DEF Inv, TypeOK
  <2>. QED BY <2>1, <2>3, <2>4
<1>1. TypeOK'
  <2>1. retired' \subseteq Backup
    BY Popped DEF RemoveFile, Inv, TypeOK
  <2>. QED BY <1>0, <2>1 DEF RemoveFile, TypeOK, Inv, Stage
<1>2. Keyed'
  BY <1>0 DEF RemoveFile, Inv, Keyed
<1>3. ASSUME NEW r \in Request PROVE Working(r)'
  BY DEF RemoveFile, Inv, Working, Placing
<1>4. ASSUME NEW r \in Request PROVE Unlisted(r)'
  BY DEF RemoveFile, Inv, Unlisted, Fresh
<1>5. ASSUME NEW r \in Request PROVE Apart(r)'
  BY DEF RemoveFile, Inv, Apart
<1>6. ASSUME NEW r \in Request PROVE Written(r)'
  <2>1. Head(doomed[q]) \in Backup /\ Head(doomed[q]) \in ToSet(doomed[q])
    BY Popped DEF RemoveFile, Inv, TypeOK
  <2>2. step[r] = "recording" => made[r] # Head(doomed[q]) /\ made[r] \in Backup
    BY <2>1, Serving DEF Inv, Unlisted, Fresh
  <2>3. step'[r] = "recording" => step[r] = "recording"
    BY DEF RemoveFile, Inv, TypeOK
  <2>. QED BY <1>0, <2>1, <2>2, <2>3 DEF RemoveFile, Inv, Written
<1>7. ASSUME NEW r \in Request PROVE Sourced(r)'
  <2>1. step'[r] # "idle" => step[r] # "idle"
    BY DEF RemoveFile, Inv, TypeOK
  <2>. QED BY <1>0, <2>1, Serving DEF RemoveFile, Inv, Sourced
<1>8. ASSUME NEW b \in Backup PROVE Filed(b)'
  BY <1>0 DEF RemoveFile, Inv, Filed
<1>9. Distinct(inserted)'
  BY DEF RemoveFile, Inv, Distinct
<1>. QED BY <1>1, <1>2, <1>3, <1>4, <1>5, <1>6, <1>7, <1>8, <1>9 DEF Inv

LEMMA DeleteRowInv ==
    ASSUME Inv, NEW q \in Request, DeleteRow(q)
    PROVE  Inv'
<1> DEFINE h == Head(doomed[q])
<1>1. /\ step[q] = "deleting" /\ step' = [step EXCEPT ![q] = "pruning"]
      /\ overdue' \in BOOLEAN /\ faults' \in 0 .. MaxFaults
      /\ UNCHANGED <<live, old, aside, file, crossed, retired, keyFile, keyLost, now, ask, source, put,
                     made, taken, key, stamp, todo, began>>
  <2>1. overdue \in BOOLEAN /\ faults \in 0 .. MaxFaults
    BY DEF Inv, TypeOK
  <2>2. overdue' \in {overdue, TRUE} /\ (faults' = faults \/ Fail("database"))
    BY DEF DeleteRow
  <2>3. faults' \in 0 .. MaxFaults
    BY <2>1, <2>2 DEF Fail
  <2>. QED BY <2>1, <2>2, <2>3 DEF DeleteRow
<1>2. h \in Backup
  BY <1>1, Popped DEF Inv, TypeOK, Working
<1>3. PICK list \in Seq(Backup) : /\ doomed' = [doomed EXCEPT ![q] = list]
                                 /\ ToSet(list) \subseteq ToSet(doomed[q])
  <2>1. doomed[q] # <<>> /\ doomed[q] \in Seq(Backup)
    BY <1>1 DEF Inv, TypeOK, Working
  <2>2. /\ Tail(doomed[q]) \in Seq(Backup) /\ <<>> \in Seq(Backup)
        /\ ToSet(Tail(doomed[q])) \subseteq ToSet(doomed[q]) /\ ToSet(<<>>) \subseteq ToSet(doomed[q])
    BY <2>1, Popped, NothingListed
  <2>3. \/ doomed' = [doomed EXCEPT ![q] = Tail(doomed[q])]
        \/ doomed' = [doomed EXCEPT ![q] = <<>>]
    BY DEF DeleteRow, Inv, TypeOK
  <2>. QED BY <2>2, <2>3
<1>4. \/ row' = row /\ inserted' = inserted
      \/ row' = [row EXCEPT ![h] = None] /\ inserted' = RemoveFirst(inserted, h)
  BY DEF DeleteRow
<1> HIDE DEF h
<1>5. /\ row' \in [Backup -> Row \cup {None}]
      /\ \A b \in Backup : row'[b] = row[b] \/ row'[b] = None
      /\ inserted' \in Seq(Backup) /\ ToSet(inserted') = Rows' /\ Distinct(inserted')
  <2>1. CASE row' = row /\ inserted' = inserted
    BY <2>1 DEF Inv, TypeOK
  <2>2. CASE row' = [row EXCEPT ![h] = None] /\ inserted' = RemoveFirst(inserted, h)
    <3>1. Rows' = Rows \ {h}
      BY <1>2, <2>2 DEF Inv, TypeOK
    <3>. QED BY <1>2, <2>2, <3>1, RemoveFirstOne DEF Inv, TypeOK
  <2>. QED BY <1>4, <2>1, <2>2
<1>6. TypeOK'
  BY <1>1, <1>3, <1>5 DEF Inv, TypeOK, Stage
<1>7. Keyed'
  BY <1>1 DEF Inv, Keyed
<1>8. ASSUME NEW r \in Request PROVE Working(r)'
  <2>1. CASE r = q
    BY <1>1, <2>1 DEF Inv, TypeOK, Working, Placing
  <2>2. CASE r # q
    <3>1. step[r] = "deleting" => Head(doomed[r]) \in Backup /\ doomed[r] # <<>>
      BY Popped DEF Inv, TypeOK, Working
    <3>. QED BY <1>1, <1>3, <1>5, <2>2, <3>1 DEF Inv, Working
  <2>. QED BY <2>1, <2>2
<1>9. ASSUME NEW r \in Request PROVE Unlisted(r)'
  <2>1. Fresh(r)' => Fresh(r) /\ made[r] \in Backup
    BY <1>1, Serving DEF Inv, TypeOK, Fresh
  <2>. QED BY SMTT(30), <1>1, <1>3, <1>5, <2>1 DEF Inv, TypeOK, Unlisted
<1>10. ASSUME NEW r \in Request PROVE Apart(r)'
  BY <1>1 DEF Inv, TypeOK, Apart
<1>11. ASSUME NEW r \in Request PROVE Written(r)'
  BY <1>1 DEF Inv, TypeOK, Written
<1>12. ASSUME NEW r \in Request PROVE Sourced(r)'
  BY <1>1 DEF Inv, TypeOK, Sourced
<1>13. ASSUME NEW b \in Backup PROVE Filed(b)'
  BY <1>1, <1>5 DEF Inv, Filed
<1>. QED BY <1>5, <1>6, <1>7, <1>8, <1>9, <1>10, <1>11, <1>12, <1>13 DEF Inv

LEMMA SavedInv ==
    ASSUME Inv, NEW q \in Request, Saved(q)
    PROVE  Inv'
<1>0. /\ step[q] = "pruning" /\ doomed[q] = <<>> /\ key[q] \in Key
      /\ crossed' = crossed \ {q}
      /\ UNCHANGED <<live, old, aside, row, inserted, file, overdue, keyFile, keyLost, now, faults>>
  BY DEF Saved, Inv, Working
<1>1. CASE ask[q].op = "create" /\ Return(q)
  <2>1. TypeOK'
    BY <1>0, <1>1, NothingListed DEF TypeOK, Inv, Stage, Return
  <2>2. Keyed'
    BY <1>0, <1>1, NothingListed DEF TypeOK, Inv, Keyed, Return
  <2>3. ASSUME NEW r \in Request PROVE Working(r)'
    BY <1>0, <1>1, NothingListed DEF TypeOK, Inv, Working, Placing, Return
  <2>4. ASSUME NEW r \in Request PROVE Unlisted(r)'
    BY <1>0, <1>1, NothingListed DEF TypeOK, Inv, Unlisted, Fresh, Working, Return
  <2>5. ASSUME NEW r \in Request PROVE Apart(r)'
    BY <1>0, <1>1, NothingListed DEF TypeOK, Inv, Apart, Return
  <2>6. ASSUME NEW r \in Request PROVE Written(r)'
    BY <1>0, <1>1, NothingListed DEF TypeOK, Inv, Written, Return
  <2>7. ASSUME NEW r \in Request PROVE Sourced(r)'
    BY <1>0, <1>1, NothingListed DEF TypeOK, Inv, Sourced, Return
  <2>8. ASSUME NEW b \in Backup PROVE Filed(b)'
    BY <1>0, <1>1, NothingListed DEF TypeOK, Inv, Filed, Return
  <2>9. Distinct(inserted)'
    BY <1>0, <1>1, NothingListed DEF Inv, Distinct, Return
  <2>. QED BY <2>1, <2>2, <2>3, <2>4, <2>5, <2>6, <2>7, <2>8, <2>9 DEF Inv
<1>2. CASE /\ ask[q].op \in {"restore", "deploy"}
            /\ Goto(q, IF ask[q].op = "restore" THEN "keying" ELSE "staging")
            /\ UNCHANGED <<Locals, retired>>
  <2>1. TypeOK'
    BY <1>0, <1>2 DEF TypeOK, Inv, Stage
  <2>2. Keyed'
    BY <1>0, <1>2 DEF TypeOK, Inv, Keyed
  <2>3. ASSUME NEW r \in Request PROVE Working(r)'
    BY <1>0, <1>2 DEF TypeOK, Inv, Working, Placing
  <2>4. ASSUME NEW r \in Request PROVE Unlisted(r)'
    BY <1>0, <1>2 DEF TypeOK, Inv, Unlisted, Fresh
  <2>5. ASSUME NEW r \in Request PROVE Apart(r)'
    BY <1>0, <1>2 DEF TypeOK, Inv, Apart
  <2>6. ASSUME NEW r \in Request PROVE Written(r)'
    BY <1>0, <1>2 DEF TypeOK, Inv, Written
  <2>7. ASSUME NEW r \in Request PROVE Sourced(r)'
    BY <1>0, <1>2 DEF TypeOK, Inv, Sourced
  <2>8. ASSUME NEW b \in Backup PROVE Filed(b)'
    BY <1>0, <1>2 DEF TypeOK, Inv, Filed
  <2>9. Distinct(inserted)'
    BY <1>0, <1>2 DEF Inv, Distinct
  <2>. QED BY <2>1, <2>2, <2>3, <2>4, <2>5, <2>6, <2>7, <2>8, <2>9 DEF Inv
<1>. QED BY <1>1, <1>2 DEF Saved

LEMMA DecryptInv ==
    ASSUME Inv, NEW q \in Request, Decrypt(q)
    PROVE  Inv'
<1>1. TypeOK'
  <2>1. file[source[q]].kept \in Contents
    BY Serving DEF Decrypt, Readable, Inv, TypeOK, File, Working
  <2>. QED BY <2>1 DEF Decrypt, Inv, TypeOK, Stage
<1>2. Keyed'
  BY DEF Decrypt, Inv, Keyed
<1>3. ASSUME NEW r \in Request PROVE Working(r)'
  <2>1. /\ file[source[q]].kept \in Contents
        /\ ask[q].parts \subseteq Kept(file[source[q]].kept)
    BY Serving DEF Decrypt, Readable, Inv, TypeOK, File, Working, Sourced
  <2>2. file[source[q]].kept # None
    BY <2>1
  <2>3. CASE r = q
    BY <2>1, <2>2, <2>3 DEF Decrypt, Inv, TypeOK, Working, Placing
  <2>4. CASE r # q
    BY <2>4 DEF Decrypt, Inv, Working
  <2>. QED BY <2>3, <2>4
<1>4. ASSUME NEW r \in Request PROVE Unlisted(r)'
  BY DEF Decrypt, Inv, Unlisted, Fresh
<1>5. ASSUME NEW r \in Request PROVE Apart(r)'
  BY DEF Decrypt, Inv, Apart
<1>6. ASSUME NEW r \in Request PROVE Written(r)'
  BY DEF Decrypt, Inv, Written
<1>7. ASSUME NEW r \in Request PROVE Sourced(r)'
  BY DEF Decrypt, Inv, Sourced
<1>8. ASSUME NEW b \in Backup PROVE Filed(b)'
  BY DEF Decrypt, Inv, Filed
<1>9. Distinct(inserted)'
  BY DEF Decrypt, Inv
<1>. QED BY <1>1, <1>2, <1>3, <1>4, <1>5, <1>6, <1>7, <1>8, <1>9 DEF Inv

LEMMA DecryptFailsInv ==
    ASSUME Inv, NEW q \in Request, DecryptFails(q)
    PROVE  Inv'
<1>1. TypeOK'
  BY DEF DecryptFails, TypeOK, Inv, Stage, Return
<1>2. Keyed'
  BY DEF DecryptFails, Inv, Keyed, Return
<1>3. ASSUME NEW r \in Request PROVE Working(r)'
  BY DEF DecryptFails, TypeOK, Inv, Working, Placing, Return
<1>4. ASSUME NEW r \in Request PROVE Unlisted(r)'
  BY NothingListed DEF DecryptFails, Inv, Unlisted, Fresh, Working, Return
<1>5. ASSUME NEW r \in Request PROVE Apart(r)'
  BY DEF DecryptFails, Inv, Apart, Working, Return
<1>6. ASSUME NEW r \in Request PROVE Written(r)'
  BY DEF DecryptFails, TypeOK, Inv, Written, Return
<1>7. ASSUME NEW r \in Request PROVE Sourced(r)'
  BY DEF DecryptFails, TypeOK, Inv, Sourced, Return
<1>8. ASSUME NEW b \in Backup PROVE Filed(b)'
  BY DEF DecryptFails, Inv, Filed, Return
<1>9. Distinct(inserted)'
  BY DEF DecryptFails, Inv
<1>. QED BY <1>1, <1>2, <1>3, <1>4, <1>5, <1>6, <1>7, <1>8, <1>9 DEF Inv

LEMMA DieInv ==
    ASSUME Inv, Die, faults' \in 0 .. MaxFaults
    PROVE  Inv'
<1>1. aside' \subseteq [site : Site, content : Content]
  <2>1. ASSUME NEW q \in Request, old[q] # None
        PROVE  Copy(q) \in [site : Site, content : Content]
    <3>1. step[q] # "idle"
      BY <2>1 DEF Inv, Working
    <3>2. old[q] \in Content
      BY <2>1 DEF Inv, TypeOK
    <3>. QED BY <3>1, <3>2, Serving DEF Copy
  <2>. QED BY <2>1 DEF Die, Inv, TypeOK
<1>2. TypeOK'
  BY <1>1 DEF Die, Inv, TypeOK, Stage
<1>3. Keyed'
  BY DEF Die, Inv, Keyed
<1>4. ASSUME NEW r \in Request PROVE Working(r)'
  BY DEF Die, TypeOK, Inv, Working, Placing
<1>5. ASSUME NEW r \in Request PROVE Unlisted(r)'
  BY DEF Die, Unlisted, Fresh
<1>6. ASSUME NEW r \in Request PROVE Apart(r)'
  BY DEF Die, Apart
<1>7. ASSUME NEW r \in Request PROVE Written(r)'
  BY DEF Die, Written
<1>8. ASSUME NEW r \in Request PROVE Sourced(r)'
  BY DEF Die, Sourced
<1>9. ASSUME NEW b \in Backup PROVE Filed(b)'
  BY DEF Die, Inv, Filed
<1>10. Distinct(inserted)'
  BY DEF Die, Inv, Distinct
<1>. QED BY <1>2, <1>3, <1>4, <1>5, <1>6, <1>7, <1>8, <1>9, <1>10 DEF Inv

LEMMA DecryptPanicsInv ==
    ASSUME Inv, NEW q \in Request, DecryptPanics(q)
    PROVE  Inv'
  BY DieInv DEF DecryptPanics, Inv, TypeOK

LEMMA CrashInv == ASSUME Inv, Crash PROVE Inv'
  BY SMTT(30), DieInv DEF Crash, Fail, Inv, TypeOK

LEMMA TickInv == ASSUME Inv, Tick PROVE Inv'
<1>1. TypeOK'
  BY DEF Tick, Inv, TypeOK
<1>2. ASSUME NEW r \in Request PROVE Working(r)'
  BY DEF Tick, Inv, TypeOK, Working
<1>. QED BY <1>1, <1>2 DEF Tick, Inv, Keyed, Unlisted, Fresh, Apart, Written, Sourced,
            Filed

LEMMA StutterInv == ASSUME Inv, UNCHANGED vars PROVE Inv'
  BY DEF vars, Inv, TypeOK, Working, Keyed, Unlisted, Fresh, Apart, Written, Sourced,
     Filed

LEMMA UnpackInv ==
    ASSUME Inv, NEW q \in Request, Unpack(q)
    PROVE  Inv'
<1>1. TypeOK'
  <2>1. ask[q].parts \ {"files"} \subseteq Database
    BY Serving DEF Unpack, Part
  <2>. QED BY <2>1 DEF Unpack, Inv, TypeOK, Stage
<1>2. Keyed'
  BY DEF Unpack, Inv, Keyed
<1>3. ASSUME NEW r \in Request PROVE Working(r)'
  BY DEF Unpack, Inv, Working, Placing
<1>4. ASSUME NEW r \in Request PROVE Unlisted(r)'
  BY DEF Unpack, Inv, Unlisted, Fresh
<1>5. ASSUME NEW r \in Request PROVE Apart(r)'
  BY DEF Unpack, Inv, Apart
<1>6. ASSUME NEW r \in Request PROVE Written(r)'
  BY DEF Unpack, TypeOK, Inv, Written
<1>7. ASSUME NEW r \in Request PROVE Sourced(r)'
  BY DEF Unpack, Inv, Sourced
<1>8. ASSUME NEW b \in Backup PROVE Filed(b)'
  BY DEF Unpack, Inv, Filed
<1>9. Distinct(inserted)'
  BY DEF Unpack, Inv, Distinct
<1>. QED BY <1>1, <1>2, <1>3, <1>4, <1>5, <1>6, <1>7, <1>8, <1>9 DEF Inv

LEMMA StagingFailsInv ==
    ASSUME Inv, NEW q \in Request, StagingFails(q)
    PROVE  Inv'
<1>1. TypeOK'
  BY DEF StagingFails, TypeOK, Inv, Stage, Fail, Return
<1>2. Keyed'
  BY DEF StagingFails, Inv, Keyed, Return
<1>3. ASSUME NEW r \in Request PROVE Working(r)'
  BY DEF StagingFails, TypeOK, Inv, Working, Placing, Return
<1>4. ASSUME NEW r \in Request PROVE Unlisted(r)'
  BY NothingListed DEF StagingFails, Inv, Unlisted, Fresh, Working, Return
<1>5. ASSUME NEW r \in Request PROVE Apart(r)'
  BY DEF StagingFails, Inv, Apart, Working, Return
<1>6. ASSUME NEW r \in Request PROVE Written(r)'
  BY DEF StagingFails, TypeOK, Inv, Written, Return
<1>7. ASSUME NEW r \in Request PROVE Sourced(r)'
  BY DEF StagingFails, TypeOK, Inv, Sourced, Return
<1>8. ASSUME NEW b \in Backup PROVE Filed(b)'
  BY DEF StagingFails, Inv, Filed, Return
<1>9. Distinct(inserted)'
  BY DEF StagingFails, Inv
<1>. QED BY <1>1, <1>2, <1>3, <1>4, <1>5, <1>6, <1>7, <1>8, <1>9 DEF Inv

LEMMA SetAsideInv ==
    ASSUME Inv, NEW q \in Request, SetAside(q)
    PROVE  Inv'
<1>1. TypeOK'
  <2>1. live' \in [Site -> {x \in Contents : \A y \in Database : x[y] # None}]
    <3>1. ask[q].site \in Site /\ "files" \in Part /\ "files" \notin Database
      BY Serving DEF SetAside, Part
    <3>. QED BY <3>1, Placed DEF SetAside, SetRoot, Inv
  <2>2. Root(q) \in Content
    <3>1. ask[q].site \in Site /\ "files" \in Part /\ Root(q) # None
      BY Serving DEF SetAside, Part
    <3>. QED BY <3>1 DEF Root, Inv, TypeOK, Contents
  <2>. QED BY <2>1, <2>2 DEF SetAside, SetOld, Inv, TypeOK, Stage
<1>2. Keyed'
  BY DEF SetAside, Inv, Keyed
<1>3. ASSUME NEW r \in Request PROVE Working(r)'
  BY DEF SetAside, TypeOK, Inv, Working, Placing, SetOld
<1>4. ASSUME NEW r \in Request PROVE Unlisted(r)'
  BY DEF SetAside, Inv, Unlisted, Fresh
<1>5. ASSUME NEW r \in Request PROVE Apart(r)'
  BY DEF SetAside, Inv, Apart
<1>6. ASSUME NEW r \in Request PROVE Written(r)'
  BY SMTT(30) DEF SetAside, Inv, Written, Working, SetRoot
<1>7. ASSUME NEW r \in Request PROVE Sourced(r)'
  BY DEF SetAside, Inv, Sourced
<1>8. ASSUME NEW b \in Backup PROVE Filed(b)'
  BY DEF SetAside, Inv, Filed
<1>9. Distinct(inserted)'
  BY DEF SetAside, Inv
<1>. QED BY <1>1, <1>2, <1>3, <1>4, <1>5, <1>6, <1>7, <1>8, <1>9 DEF Inv

LEMMA MoveInInv ==
    ASSUME Inv, NEW q \in Request, MoveIn(q)
    PROVE  Inv'
<1>1. TypeOK'
  <2>1. put[q]["files"] \in Content /\ ask[q].site \in Site
    BY Serving DEF MoveIn, Inv, TypeOK, Working, Placing, Kept, Contents
  <2>2. live' \in [Site -> {x \in Contents : \A y \in Database : x[y] # None}]
    BY <2>1, Placed DEF MoveIn, SetRoot, Inv, Part
  <2>. QED BY <2>2 DEF MoveIn, Inv, TypeOK, Stage
<1>2. Keyed'
  BY DEF MoveIn, Inv, Keyed
<1>3. ASSUME NEW r \in Request PROVE Working(r)'
  BY DEF MoveIn, Inv, Working, Placing
<1>4. ASSUME NEW r \in Request PROVE Unlisted(r)'
  BY DEF MoveIn, Inv, Unlisted, Fresh
<1>5. ASSUME NEW r \in Request PROVE Apart(r)'
  BY DEF MoveIn, Inv, Apart
<1>6. ASSUME NEW r \in Request PROVE Written(r)'
  BY DEF MoveIn, TypeOK, Inv, Written
<1>7. ASSUME NEW r \in Request PROVE Sourced(r)'
  BY DEF MoveIn, Inv, Sourced
<1>8. ASSUME NEW b \in Backup PROVE Filed(b)'
  BY DEF MoveIn, Inv, Filed
<1>9. Distinct(inserted)'
  BY DEF MoveIn, Inv
<1>. QED BY <1>1, <1>2, <1>3, <1>4, <1>5, <1>6, <1>7, <1>8, <1>9 DEF Inv

LEMMA MoveInFailsInv ==
    ASSUME Inv, NEW q \in Request, MoveInFails(q)
    PROVE  Inv'
<1>1. TypeOK'
  BY DEF MoveInFails, TypeOK, Inv, Stage, Fail
<1>2. Keyed'
  BY DEF MoveInFails, Inv, Keyed
<1>3. ASSUME NEW r \in Request PROVE Working(r)'
  BY DEF MoveInFails, Inv, Working, Placing
<1>4. ASSUME NEW r \in Request PROVE Unlisted(r)'
  BY DEF MoveInFails, Inv, Unlisted, Fresh
<1>5. ASSUME NEW r \in Request PROVE Apart(r)'
  BY DEF MoveInFails, Inv, Apart
<1>6. ASSUME NEW r \in Request PROVE Written(r)'
  BY DEF MoveInFails, Inv, Written
<1>7. ASSUME NEW r \in Request PROVE Sourced(r)'
  BY DEF MoveInFails, Inv, Sourced
<1>8. ASSUME NEW b \in Backup PROVE Filed(b)'
  BY DEF MoveInFails, Inv, Filed
<1>9. Distinct(inserted)'
  BY DEF MoveInFails, Inv, Distinct
<1>. QED BY <1>1, <1>2, <1>3, <1>4, <1>5, <1>6, <1>7, <1>8, <1>9 DEF Inv

LEMMA MoveBackInv ==
    ASSUME Inv, NEW q \in Request, MoveBack(q)
    PROVE  Inv'
<1>1. TypeOK'
  <2>1. old[q] \in Content /\ ask[q].site \in Site /\ "files" \in Part
    BY Serving DEF MoveBack, Inv, TypeOK, Working, Part
  <2>2. live' \in [Site -> {x \in Contents : \A y \in Database : x[y] # None}]
    <3>1. [live EXCEPT ![ask[q].site]["files"] = old[q]] \in
             [Site -> {x \in Contents : \A y \in Database : x[y] # None}]
      BY <2>1, Placed DEF Inv
    <3>. QED BY <3>1 DEF MoveBack, SetRoot, Inv, TypeOK
  <2>3. aside' \subseteq [site : Site, content : Content] /\ old' \in [Request -> Content \cup {None}]
    BY <2>1 DEF MoveBack, SetOld, Copy, Inv, TypeOK
  <2>4. /\ UNCHANGED <<row, inserted, file, overdue, crossed, keyFile, keyLost, now, faults>>
        /\ Return(q)
    BY DEF MoveBack
  <2>. QED BY <2>2, <2>3, <2>4 DEF Return, Inv, TypeOK, Stage
<1>2. Keyed'
  BY DEF MoveBack, Inv, Keyed, Return
<1>3. ASSUME NEW r \in Request PROVE Working(r)'
  BY DEF MoveBack, TypeOK, Inv, Working, Placing, Return, SetOld
<1>4. ASSUME NEW r \in Request PROVE Unlisted(r)'
  BY NothingListed DEF MoveBack, Inv, Unlisted, Fresh, Working, Return
<1>5. ASSUME NEW r \in Request PROVE Apart(r)'
  BY DEF MoveBack, Inv, Apart, Working, Return
<1>6. ASSUME NEW r \in Request PROVE Written(r)'
  BY DEF MoveBack, TypeOK, Inv, Written, Return
<1>7. ASSUME NEW r \in Request PROVE Sourced(r)'
  BY DEF MoveBack, TypeOK, Inv, Sourced, Return
<1>8. ASSUME NEW b \in Backup PROVE Filed(b)'
  BY DEF MoveBack, Inv, Filed, Return
<1>9. Distinct(inserted)'
  BY DEF MoveBack, Inv
<1>. QED BY <1>1, <1>2, <1>3, <1>4, <1>5, <1>6, <1>7, <1>8, <1>9 DEF Inv

LEMMA DropOldInv ==
    ASSUME Inv, NEW q \in Request, DropOld(q)
    PROVE  Inv'
<1>1. TypeOK'
  <2>1. old[q] \in Content /\ ask[q].site \in Site
    BY Serving DEF DropOld, Inv, TypeOK, Working
  <2>2. aside' \subseteq [site : Site, content : Content] /\ old' \in [Request -> Content \cup {None}]
    BY <2>1 DEF DropOld, SetOld, Copy, Inv, TypeOK
  <2>3. faults' \in 0 .. MaxFaults
    BY DEF DropOld, Fail, Inv, TypeOK
  <2>4. /\ UNCHANGED <<live, row, inserted, file, overdue, crossed, retired, keyFile, keyLost, now, ask,
                       source, put, made, taken, key, stamp, doomed, todo, began>>
        /\ step' = [step EXCEPT ![q] = "importing"]
    BY DEF DropOld
  <2>. QED BY <2>2, <2>3, <2>4 DEF Inv, TypeOK, Stage
<1>2. Keyed'
  BY DEF DropOld, Inv, Keyed
<1>3. ASSUME NEW r \in Request PROVE Working(r)'
  BY DEF DropOld, TypeOK, Inv, Working, Placing, SetOld
<1>4. ASSUME NEW r \in Request PROVE Unlisted(r)'
  BY DEF DropOld, Inv, Unlisted, Fresh
<1>5. ASSUME NEW r \in Request PROVE Apart(r)'
  BY DEF DropOld, Inv, Apart
<1>6. ASSUME NEW r \in Request PROVE Written(r)'
  BY DEF DropOld, TypeOK, Inv, Written
<1>7. ASSUME NEW r \in Request PROVE Sourced(r)'
  BY DEF DropOld, Inv, Sourced
<1>8. ASSUME NEW b \in Backup PROVE Filed(b)'
  BY DEF DropOld, Inv, Filed
<1>9. Distinct(inserted)'
  BY DEF DropOld, Inv
<1>. QED BY <1>1, <1>2, <1>3, <1>4, <1>5, <1>6, <1>7, <1>8, <1>9 DEF Inv

LEMMA ImportInv ==
    ASSUME Inv, NEW q \in Request, Import(q)
    PROVE  Inv'
<1>1. TypeOK'
  <2>1. PICK d \in todo[q] : /\ live' = [live EXCEPT ![ask[q].site][d] = put[q][d]]
                           /\ todo' = [todo EXCEPT ![q] = @ \ {d}]
    BY DEF Import
  <2>2. d \in Database /\ d \in Part /\ d \in ask[q].parts
    BY Serving DEF Import, Inv, Working, Part
  <2>3. put[q][d] \in Content /\ ask[q].site \in Site
    BY <2>2, Serving DEF Import, Inv, TypeOK, Working, Placing, Kept, Contents
  <2>4. live' \in [Site -> {x \in Contents : \A y \in Database : x[y] # None}]
    BY <2>1, <2>2, <2>3, Placed DEF Inv
  <2>. QED BY <2>1, <2>4 DEF Import, Inv, TypeOK
<1>2. Keyed'
  BY DEF Import, Inv, Keyed
<1>3. ASSUME NEW r \in Request PROVE Working(r)'
  BY DEF Import, Inv, Working
<1>4. ASSUME NEW r \in Request PROVE Unlisted(r)'
  BY DEF Import, Inv, Unlisted, Fresh
<1>5. ASSUME NEW r \in Request PROVE Apart(r)'
  BY DEF Import, Inv, Apart
<1>6. ASSUME NEW r \in Request PROVE Written(r)'
  BY DEF Import, Inv, Written
<1>7. ASSUME NEW r \in Request PROVE Sourced(r)'
  BY DEF Import, Inv, Sourced
<1>8. ASSUME NEW b \in Backup PROVE Filed(b)'
  BY DEF Import, Inv, Filed
<1>9. Distinct(inserted)'
  BY DEF Import, Inv, Distinct
<1>. QED BY <1>1, <1>2, <1>3, <1>4, <1>5, <1>6, <1>7, <1>8, <1>9 DEF Inv

LEMMA FinishInv ==
    ASSUME Inv, NEW q \in Request, Finish(q)
    PROVE  Inv'
<1>1. TypeOK'
  BY DEF Finish, TypeOK, Inv, Stage, Fail, Return
<1>2. Keyed'
  BY DEF Finish, Inv, Keyed, Return
<1>3. ASSUME NEW r \in Request PROVE Working(r)'
  BY DEF Finish, TypeOK, Inv, Working, Placing, Return
<1>4. ASSUME NEW r \in Request PROVE Unlisted(r)'
  BY NothingListed DEF Finish, Inv, Unlisted, Fresh, Working, Return
<1>5. ASSUME NEW r \in Request PROVE Apart(r)'
  BY DEF Finish, Inv, Apart, Working, Return
<1>6. ASSUME NEW r \in Request PROVE Written(r)'
  BY DEF Finish, TypeOK, Inv, Written, Return
<1>7. ASSUME NEW r \in Request PROVE Sourced(r)'
  BY DEF Finish, TypeOK, Inv, Sourced, Return
<1>8. ASSUME NEW b \in Backup PROVE Filed(b)'
  BY DEF Finish, Inv, Filed, Return
<1>9. Distinct(inserted)'
  BY DEF Finish, Inv
<1>. QED BY <1>1, <1>2, <1>3, <1>4, <1>5, <1>6, <1>7, <1>8, <1>9 DEF Inv

\* Every step keeps Inv.
LEMMA StepInv == Inv /\ [Next]_vars => Inv'
<1>. SUFFICES ASSUME Inv, [Next]_vars PROVE Inv'
  OBVIOUS
<1>1. ASSUME NEW q \in Request, Save(q) PROVE Inv'
  <2>1. CASE \/ Begin(q) \/ Archive(q) \/ ArchiveFails(q) \/ ReadKey(q) \/ ReadKeyFails(q)
             \/ OpenKey(q) \/ WriteKey(q) \/ WriteKeyFails(q) \/ Encrypt(q)
    BY <2>1, BeginInv, ArchiveInv, ArchiveFailsInv, ReadKeyInv, ReadKeyFailsInv,
       OpenKeyInv, WriteKeyInv, WriteKeyFailsInv, EncryptInv
  <2>2. CASE EncryptFails(q) \/ Record(q) \/ RecordFails(q) \/ List(q) \/ ListFails(q)
             \/ RemoveFile(q) \/ DeleteRow(q) \/ Saved(q)
    BY <2>2, EncryptFailsInv, RecordInv, RecordFailsInv, ListInv, ListFailsInv,
       RemoveFileInv, DeleteRowInv, SavedInv
  <2>. QED BY <1>1, <2>1, <2>2 DEF Save
<1>2. ASSUME NEW q \in Request, Replace(q) PROVE Inv'
  BY <1>2, DecryptInv, DecryptFailsInv, DecryptPanicsInv, UnpackInv, StagingFailsInv,
     SetAsideInv, MoveInInv, MoveInFailsInv, MoveBackInv, DropOldInv, ImportInv,
     FinishInv DEF Replace
<1>. QED BY <1>1, <1>2, CrashInv, TickInv, StutterInv DEF Next

LEMMA InvHolds == Spec => []Inv
<1>1. Inv /\ [Next]_vars => Inv'
  BY StepInv
<1>. QED BY InitInv, <1>1, PTL DEF Spec

-----------------------------------------------------------------------------
\* Every variable keeps its type, for any number of sites, requests and backups.
THEOREM TypeCorrect == Spec => []TypeOK
<1>1. Inv => TypeOK
  BY DEF Inv
<1>. QED BY <1>1, InvHolds, PTL

\* A backup the table lists has its file, sealed with the key there is, with the
\* parts its row says, unless a retention was removing it.
THEOREM RecordedIsThereHolds == Spec => []RecordedIsThere
<1>1. Inv => RecordedIsThere
  BY DEF Inv, Keyed, Filed, RecordedIsThere, Kept
<1>. QED BY <1>1, InvHolds, PTL

-----------------------------------------------------------------------------
\* Requests served at once replace parts of different sites.
SitesDiffer ==
    \A q, r \in Request : q # r =>
        \A a \in Asks[q], b \in Asks[r] :
            a.op # "create" /\ b.op # "create" => a.site # b.site

\* The steps in which the site is neither the old one nor the new one.
Moving == {"swapping", "returning", "dropping", "importing"}

\* The backup of what the request replaces is recorded and holds it.
Held(q) ==
    /\ row[made[q]] # None /\ file[made[q]] # None
    /\ \A p \in ask[q].parts : file[made[q]].kept[p] = began[q][p]

\* What a request replaces, step by step.
Replaces(q) ==
    step[q] # "idle" /\ ask[q].op # "create" =>
        /\ \A p \in Part \ ask[q].parts : live[ask[q].site][p] = began[q][p]
        /\ step[q] \in Moving \/ live[ask[q].site] = began[q]
        /\ step[q] # "archiving" => \A p \in ask[q].parts : taken[q].kept[p] = began[q][p]
        /\ Fresh(q) \/ made[q] \in retired \/ Held(q)

SiteInv == \A q \in Request : Replaces(q)

\* A root that is not in place was renamed by somebody who will put one there, or
\* nobody ever will.
RootInv ==
    \A s \in Site :
        \/ live[s]["files"] # None
        \/ \E q \in Request : step[q] \in {"swapping", "returning"} /\ ask[q].site = s
        \/ \E c \in Content : [site |-> s, content |-> c] \in aside

\* No step but these leaves a site without the root it had.
LEMMA RootsKept ==
    ASSUME Inv, RootInv,
           \A s \in Site : live[s]["files"] # None => live'[s]["files"] # None,
           aside \subseteq aside',
           \A q \in Request : step[q] \in {"swapping", "returning"} =>
              step'[q] \in {"swapping", "returning"} /\ ask'[q] = ask[q]
    PROVE  RootInv'
  BY DEF RootInv

LEMMA BeginRoot == ASSUME Inv, RootInv, NEW q \in Request, Begin(q) PROVE RootInv'
<1>1. /\ \A s \in Site : live[s]["files"] # None => live'[s]["files"] # None
      /\ aside \subseteq aside'
      /\ \A r \in Request : step[r] \in {"swapping", "returning"} =>
            step'[r] \in {"swapping", "returning"} /\ ask'[r] = ask[r]
  BY DEF Begin, Inv, TypeOK
<1>. QED BY <1>1, RootsKept

LEMMA ArchiveRoot == ASSUME Inv, RootInv, NEW q \in Request, Archive(q) PROVE RootInv'
<1>1. /\ \A s \in Site : live[s]["files"] # None => live'[s]["files"] # None
      /\ aside \subseteq aside'
      /\ \A r \in Request : step[r] \in {"swapping", "returning"} =>
            step'[r] \in {"swapping", "returning"} /\ ask'[r] = ask[r]
  BY DEF Archive, Inv, TypeOK
<1>. QED BY <1>1, RootsKept

LEMMA ArchiveFailsRoot ==
    ASSUME Inv, RootInv, NEW q \in Request, ArchiveFails(q)
    PROVE  RootInv'
<1>1. /\ \A s \in Site : live[s]["files"] # None => live'[s]["files"] # None
      /\ aside \subseteq aside'
      /\ \A r \in Request : step[r] \in {"swapping", "returning"} =>
            step'[r] \in {"swapping", "returning"} /\ ask'[r] = ask[r]
  BY DEF ArchiveFails, Return
<1>. QED BY <1>1, RootsKept

LEMMA ReadKeyRoot == ASSUME Inv, RootInv, NEW q \in Request, ReadKey(q) PROVE RootInv'
<1>1. /\ \A s \in Site : live[s]["files"] # None => live'[s]["files"] # None
      /\ aside \subseteq aside'
      /\ \A r \in Request : step[r] \in {"swapping", "returning"} =>
            step'[r] \in {"swapping", "returning"} /\ ask'[r] = ask[r]
  BY DEF ReadKey, Inv, TypeOK
<1>. QED BY <1>1, RootsKept

LEMMA ReadKeyFailsRoot ==
    ASSUME Inv, RootInv, NEW q \in Request, ReadKeyFails(q)
    PROVE  RootInv'
<1>1. /\ \A s \in Site : live[s]["files"] # None => live'[s]["files"] # None
      /\ aside \subseteq aside'
      /\ \A r \in Request : step[r] \in {"swapping", "returning"} =>
            step'[r] \in {"swapping", "returning"} /\ ask'[r] = ask[r]
  BY DEF ReadKeyFails, Inv, TypeOK
<1>. QED BY <1>1, RootsKept

LEMMA OpenKeyRoot == ASSUME Inv, RootInv, NEW q \in Request, OpenKey(q) PROVE RootInv'
<1>1. /\ \A s \in Site : live[s]["files"] # None => live'[s]["files"] # None
      /\ aside \subseteq aside'
      /\ \A r \in Request : step[r] \in {"swapping", "returning"} =>
            step'[r] \in {"swapping", "returning"} /\ ask'[r] = ask[r]
  BY DEF OpenKey, Inv, TypeOK
<1>. QED BY <1>1, RootsKept

LEMMA WriteKeyRoot == ASSUME Inv, RootInv, NEW q \in Request, WriteKey(q) PROVE RootInv'
<1>1. /\ \A s \in Site : live[s]["files"] # None => live'[s]["files"] # None
      /\ aside \subseteq aside'
      /\ \A r \in Request : step[r] \in {"swapping", "returning"} =>
            step'[r] \in {"swapping", "returning"} /\ ask'[r] = ask[r]
  BY DEF WriteKey, Inv, TypeOK
<1>. QED BY <1>1, RootsKept

LEMMA WriteKeyFailsRoot ==
    ASSUME Inv, RootInv, NEW q \in Request, WriteKeyFails(q)
    PROVE  RootInv'
<1>1. /\ \A s \in Site : live[s]["files"] # None => live'[s]["files"] # None
      /\ aside \subseteq aside'
      /\ \A r \in Request : step[r] \in {"swapping", "returning"} =>
            step'[r] \in {"swapping", "returning"} /\ ask'[r] = ask[r]
  BY DEF WriteKeyFails, Return
<1>. QED BY <1>1, RootsKept

LEMMA EncryptRoot == ASSUME Inv, RootInv, NEW q \in Request, Encrypt(q) PROVE RootInv'
<1>1. /\ \A s \in Site : live[s]["files"] # None => live'[s]["files"] # None
      /\ aside \subseteq aside'
      /\ \A r \in Request : step[r] \in {"swapping", "returning"} =>
            step'[r] \in {"swapping", "returning"} /\ ask'[r] = ask[r]
  BY DEF Encrypt, Inv, TypeOK
<1>. QED BY <1>1, RootsKept

LEMMA EncryptFailsRoot ==
    ASSUME Inv, RootInv, NEW q \in Request, EncryptFails(q)
    PROVE  RootInv'
<1>1. /\ \A s \in Site : live[s]["files"] # None => live'[s]["files"] # None
      /\ aside \subseteq aside'
      /\ \A r \in Request : step[r] \in {"swapping", "returning"} =>
            step'[r] \in {"swapping", "returning"} /\ ask'[r] = ask[r]
  BY DEF EncryptFails, Return
<1>. QED BY <1>1, RootsKept

LEMMA RecordRoot == ASSUME Inv, RootInv, NEW q \in Request, Record(q) PROVE RootInv'
<1>1. /\ \A s \in Site : live[s]["files"] # None => live'[s]["files"] # None
      /\ aside \subseteq aside'
      /\ \A r \in Request : step[r] \in {"swapping", "returning"} =>
            step'[r] \in {"swapping", "returning"} /\ ask'[r] = ask[r]
  BY DEF Record, Inv, TypeOK
<1>. QED BY <1>1, RootsKept

LEMMA RecordFailsRoot == ASSUME Inv, RootInv, NEW q \in Request, RecordFails(q) PROVE RootInv'
<1>1. /\ \A s \in Site : live[s]["files"] # None => live'[s]["files"] # None
      /\ aside \subseteq aside'
      /\ \A r \in Request : step[r] \in {"swapping", "returning"} =>
            step'[r] \in {"swapping", "returning"} /\ ask'[r] = ask[r]
  BY DEF RecordFails, Return
<1>. QED BY <1>1, RootsKept

LEMMA ListRoot == ASSUME Inv, RootInv, NEW q \in Request, List(q) PROVE RootInv'
<1>1. /\ \A s \in Site : live[s]["files"] # None => live'[s]["files"] # None
      /\ aside \subseteq aside'
      /\ \A r \in Request : step[r] \in {"swapping", "returning"} =>
            step'[r] \in {"swapping", "returning"} /\ ask'[r] = ask[r]
  BY DEF List, Inv, TypeOK
<1>. QED BY <1>1, RootsKept

LEMMA ListFailsRoot == ASSUME Inv, RootInv, NEW q \in Request, ListFails(q) PROVE RootInv'
<1>1. /\ \A s \in Site : live[s]["files"] # None => live'[s]["files"] # None
      /\ aside \subseteq aside'
      /\ \A r \in Request : step[r] \in {"swapping", "returning"} =>
            step'[r] \in {"swapping", "returning"} /\ ask'[r] = ask[r]
  BY DEF ListFails, Inv, TypeOK
<1>. QED BY <1>1, RootsKept

LEMMA RemoveFileRoot == ASSUME Inv, RootInv, NEW q \in Request, RemoveFile(q) PROVE RootInv'
<1>1. /\ \A s \in Site : live[s]["files"] # None => live'[s]["files"] # None
      /\ aside \subseteq aside'
      /\ \A r \in Request : step[r] \in {"swapping", "returning"} =>
            step'[r] \in {"swapping", "returning"} /\ ask'[r] = ask[r]
  BY DEF RemoveFile, Inv, TypeOK
<1>. QED BY <1>1, RootsKept

LEMMA DeleteRowRoot == ASSUME Inv, RootInv, NEW q \in Request, DeleteRow(q) PROVE RootInv'
<1>1. /\ \A s \in Site : live[s]["files"] # None => live'[s]["files"] # None
      /\ aside \subseteq aside'
      /\ \A r \in Request : step[r] \in {"swapping", "returning"} =>
            step'[r] \in {"swapping", "returning"} /\ ask'[r] = ask[r]
  BY DEF DeleteRow, Inv, TypeOK
<1>. QED BY <1>1, RootsKept

LEMMA SavedRoot == ASSUME Inv, RootInv, NEW q \in Request, Saved(q) PROVE RootInv'
<1>1. /\ \A s \in Site : live[s]["files"] # None => live'[s]["files"] # None
      /\ aside \subseteq aside'
      /\ \A r \in Request : step[r] \in {"swapping", "returning"} =>
            step'[r] \in {"swapping", "returning"} /\ ask'[r] = ask[r]
  BY DEF Saved, Inv, TypeOK, Return
<1>. QED BY <1>1, RootsKept

LEMMA DecryptRoot == ASSUME Inv, RootInv, NEW q \in Request, Decrypt(q) PROVE RootInv'
<1>1. /\ \A s \in Site : live[s]["files"] # None => live'[s]["files"] # None
      /\ aside \subseteq aside'
      /\ \A r \in Request : step[r] \in {"swapping", "returning"} =>
            step'[r] \in {"swapping", "returning"} /\ ask'[r] = ask[r]
  BY DEF Decrypt, Inv, TypeOK
<1>. QED BY <1>1, RootsKept

LEMMA DecryptFailsRoot ==
    ASSUME Inv, RootInv, NEW q \in Request, DecryptFails(q)
    PROVE  RootInv'
<1>1. /\ \A s \in Site : live[s]["files"] # None => live'[s]["files"] # None
      /\ aside \subseteq aside'
      /\ \A r \in Request : step[r] \in {"swapping", "returning"} =>
            step'[r] \in {"swapping", "returning"} /\ ask'[r] = ask[r]
  BY DEF DecryptFails, Return
<1>. QED BY <1>1, RootsKept

LEMMA UnpackRoot == ASSUME Inv, RootInv, NEW q \in Request, Unpack(q) PROVE RootInv'
<1>1. /\ \A s \in Site : live[s]["files"] # None => live'[s]["files"] # None
      /\ aside \subseteq aside'
      /\ \A r \in Request : step[r] \in {"swapping", "returning"} =>
            step'[r] \in {"swapping", "returning"} /\ ask'[r] = ask[r]
  BY DEF Unpack, Inv, TypeOK
<1>. QED BY <1>1, RootsKept

LEMMA StagingFailsRoot ==
    ASSUME Inv, RootInv, NEW q \in Request, StagingFails(q)
    PROVE  RootInv'
<1>1. /\ \A s \in Site : live[s]["files"] # None => live'[s]["files"] # None
      /\ aside \subseteq aside'
      /\ \A r \in Request : step[r] \in {"swapping", "returning"} =>
            step'[r] \in {"swapping", "returning"} /\ ask'[r] = ask[r]
  BY DEF StagingFails, Return
<1>. QED BY <1>1, RootsKept

LEMMA SetAsideRoot == ASSUME Inv, RootInv, NEW q \in Request, SetAside(q) PROVE RootInv'
<1>1. /\ ask[q].site \in Site /\ live \in [Site -> Contents] /\ "files" \in Part
      /\ step[q] = "ready" /\ step'[q] = "swapping" /\ ask' = ask /\ aside' = aside
      /\ \A r \in Request \ {q} : step'[r] = step[r]
  BY Serving DEF SetAside, Inv, TypeOK, Part
<1>2. \A s \in Site : s # ask[q].site => live'[s] = live[s]
  BY <1>1 DEF SetAside, SetRoot
<1>. QED BY <1>1, <1>2 DEF RootInv

LEMMA MoveInRoot == ASSUME Inv, RootInv, NEW q \in Request, MoveIn(q) PROVE RootInv'
<1>1. /\ ask[q].site \in Site /\ live \in [Site -> Contents] /\ "files" \in Part
      /\ step[q] = "swapping" /\ step'[q] = "dropping" /\ ask' = ask /\ aside' = aside
      /\ \A r \in Request \ {q} : step'[r] = step[r]
      /\ put[q]["files"] # None
  BY Serving DEF MoveIn, Inv, TypeOK, Working, Placing, Kept
<1>2. /\ \A s \in Site : s # ask[q].site => live'[s] = live[s]
      /\ live'[ask[q].site]["files"] # None
  BY <1>1 DEF MoveIn, SetRoot, Contents
<1>. QED BY <1>1, <1>2 DEF RootInv

LEMMA MoveInFailsRoot == ASSUME Inv, RootInv, NEW q \in Request, MoveInFails(q) PROVE RootInv'
<1>1. /\ \A s \in Site : live[s]["files"] # None => live'[s]["files"] # None
      /\ aside \subseteq aside'
      /\ \A r \in Request : step[r] \in {"swapping", "returning"} =>
            step'[r] \in {"swapping", "returning"} /\ ask'[r] = ask[r]
  BY DEF MoveInFails, Inv, TypeOK
<1>. QED BY <1>1, RootsKept

LEMMA MoveBackRoot == ASSUME Inv, RootInv, NEW q \in Request, MoveBack(q) PROVE RootInv'
<1>1. /\ ask[q].site \in Site /\ live \in [Site -> Contents] /\ "files" \in Part
      /\ old[q] \in Content /\ old[q] # None
      /\ \A r \in Request \ {q} : step'[r] = step[r] /\ ask'[r] = ask[r]
  BY Serving DEF MoveBack, Return, Inv, TypeOK, Working, Part
<1>2. CASE live' = live /\ aside' = aside \cup {Copy(q)}
  BY <1>1, <1>2 DEF RootInv, Copy
<1>3. CASE SetRoot(q, old[q]) /\ aside' = aside
  <2>1. /\ \A s \in Site : s # ask[q].site => live'[s] = live[s]
        /\ live'[ask[q].site]["files"] # None
    BY <1>1, <1>3 DEF SetRoot, Contents
  <2>. QED BY <1>1, <1>3, <2>1 DEF RootInv
<1>. QED BY <1>2, <1>3 DEF MoveBack

LEMMA DropOldRoot == ASSUME Inv, RootInv, NEW q \in Request, DropOld(q) PROVE RootInv'
<1>1. /\ \A s \in Site : live[s]["files"] # None => live'[s]["files"] # None
      /\ aside \subseteq aside'
      /\ \A r \in Request : step[r] \in {"swapping", "returning"} =>
            step'[r] \in {"swapping", "returning"} /\ ask'[r] = ask[r]
  BY DEF DropOld
<1>. QED BY <1>1, RootsKept

LEMMA ImportRoot == ASSUME Inv, RootInv, NEW q \in Request, Import(q) PROVE RootInv'
<1>1. /\ \A s \in Site : live[s]["files"] # None => live'[s]["files"] # None
      /\ aside \subseteq aside'
      /\ \A r \in Request : step[r] \in {"swapping", "returning"} =>
            step'[r] \in {"swapping", "returning"} /\ ask'[r] = ask[r]
  BY DEF Import, Inv, TypeOK
<1>. QED BY <1>1, RootsKept

LEMMA FinishRoot == ASSUME Inv, RootInv, NEW q \in Request, Finish(q) PROVE RootInv'
<1>1. /\ \A s \in Site : live[s]["files"] # None => live'[s]["files"] # None
      /\ aside \subseteq aside'
      /\ \A r \in Request : step[r] \in {"swapping", "returning"} =>
            step'[r] \in {"swapping", "returning"} /\ ask'[r] = ask[r]
  BY DEF Finish, Return
<1>. QED BY <1>1, RootsKept

LEMMA DieRoot == ASSUME Inv, RootInv, Die PROVE RootInv'
<1>1. ASSUME NEW s \in Site, NEW q \in Request,
             step[q] \in {"swapping", "returning"}, ask[q].site = s
      PROVE  \E c \in Content : [site |-> s, content |-> c] \in aside'
  <2>1. Working(q) /\ old[q] \in Content \cup {None}
    BY DEF Inv, TypeOK
  <2>2. old[q] \in Content /\ old[q] # None
    BY <1>1, <2>1 DEF Working
  <2>. QED BY <1>1, <2>2 DEF Die, Copy
<1>. QED BY <1>1 DEF Die, RootInv

\* Every step keeps every root.
LEMMA RootStep == Inv /\ RootInv /\ [Next]_vars => RootInv'
<1>. SUFFICES ASSUME Inv, RootInv, [Next]_vars PROVE RootInv'
  OBVIOUS
<1>1. ASSUME NEW q \in Request, Save(q) PROVE RootInv'
  BY <1>1, BeginRoot, ArchiveRoot, ArchiveFailsRoot, ReadKeyRoot, ReadKeyFailsRoot,
     OpenKeyRoot, WriteKeyRoot, WriteKeyFailsRoot, EncryptRoot, EncryptFailsRoot,
     RecordRoot, RecordFailsRoot, ListRoot, ListFailsRoot, RemoveFileRoot, DeleteRowRoot,
     SavedRoot DEF Save
<1>2. ASSUME NEW q \in Request, Replace(q) PROVE RootInv'
  BY <1>2, DieRoot, DecryptRoot, DecryptFailsRoot, UnpackRoot, StagingFailsRoot,
     SetAsideRoot, MoveInRoot, MoveInFailsRoot, MoveBackRoot, DropOldRoot, ImportRoot,
     FinishRoot DEF Replace, DecryptPanics
<1>3. Crash \/ Tick \/ UNCHANGED vars => RootInv'
  BY DieRoot, RootsKept DEF Crash, Tick, vars
<1>. QED BY <1>1, <1>2, <1>3 DEF Next

\* The root of a site that is not in place is under its temporary name or in a copy,
\* whatever fails and whoever replaces it meanwhile.
THEOREM ContentSurvivesHolds == Spec => []ContentSurvives
<1>1. Init => RootInv
  BY DEF Init, RootInv, Part
<1>2. Inv /\ RootInv => ContentSurvives
  <2>1. ASSUME Inv, NEW q \in Request, step[q] \in {"swapping", "returning"}
        PROVE  ask[q] # None /\ old[q] # None
    BY <2>1, Serving DEF Inv, TypeOK, Working
  <2>. QED BY <2>1 DEF RootInv, ContentSurvives
<1>. QED BY <1>1, <1>2, InitInv, StepInv, RootStep, PTL DEF Spec

-----------------------------------------------------------------------------
\* What a request that goes on replaces, when a step leaves it and its backup alone.
LEMMA StillReplaces ==
    ASSUME Inv, SiteInv, NEW r \in Request,
           step'[r] # "idle" /\ ask'[r].op # "create" =>
             /\ step[r] # "idle" /\ ask'[r] = ask[r] /\ began'[r] = began[r] /\ made'[r] = made[r]
             /\ \/ live'[ask[r].site] = live[ask[r].site] /\ (step[r] \in Moving => step'[r] \in Moving)
                \/ /\ step'[r] \in Moving
                   /\ \A p \in Part \ ask[r].parts : live'[ask[r].site][p] = live[ask[r].site][p]
             /\ step'[r] # "archiving" => step[r] # "archiving" /\ taken'[r] = taken[r]
             /\ Fresh(r) => Fresh(r)'
             /\ made[r] \in retired => made[r] \in retired'
             /\ \/ Fresh(r) \/ made[r] \in retired'
                \/ file'[made[r]] = file[made[r]] /\ row'[made[r]] = row[made[r]]
    PROVE  Replaces(r)'
<1>. SUFFICES ASSUME step'[r] # "idle" /\ ask'[r].op # "create"
              PROVE  /\ \A p \in Part \ ask'[r].parts : live'[ask'[r].site][p] = began'[r][p]
                     /\ step'[r] \in Moving \/ live'[ask'[r].site] = began'[r]
                     /\ step'[r] # "archiving" => \A p \in ask'[r].parts : taken'[r].kept[p] = began'[r][p]
                     /\ Fresh(r)' \/ made'[r] \in retired' \/ Held(r)'
  BY DEF Replaces
<1>1. Replaces(r)
  BY DEF SiteInv
<1>2. Held(r) /\ file'[made[r]] = file[made[r]] /\ row'[made[r]] = row[made[r]] => Held(r)'
  BY DEF Held
<1>. QED BY <1>1, <1>2 DEF Replaces

LEMMA BeginSite ==
    ASSUME Inv, SiteInv, SitesDiffer, NEW q \in Request, Begin(q), NEW r \in Request
    PROVE  Replaces(r)'
<1>1. CASE r = q
  BY <1>1, Serving DEF Begin, Inv, TypeOK, Replaces, Fresh
<1>2. CASE r # q
  BY <1>2, Serving DEF Begin, SiteInv, Replaces, Held, Fresh
<1>. QED BY <1>1, <1>2

LEMMA ArchiveSite ==
    ASSUME Inv, SiteInv, SitesDiffer, NEW q \in Request, Archive(q), NEW r \in Request
    PROVE  Replaces(r)'
<1>1. CASE r = q
  <2>1. /\ step[q] = "archiving" /\ step'[q] = "keying" /\ taken \in [Request -> Plain \cup {None}]
        /\ step \in [Request -> Stage] /\ key[q] = None
        /\ ask[q].parts \subseteq Part /\ Replaces(q)
    BY ZenonT(60), Serving DEF Archive, Inv, TypeOK, Working, SiteInv
  <2>2. taken'[q].kept = [p \in Part |-> IF p \in ask[q].parts THEN live[ask[q].site][p] ELSE None]
    BY <2>1 DEF Archive
  <2>3. UNCHANGED <<ask, began, made, live, key, retired, row, file>>
    BY DEF Archive
  <2>4. Fresh(q)'
    BY <2>1, <2>3 DEF Fresh
  <2>. QED BY <1>1, <2>1, <2>2, <2>3, <2>4 DEF Replaces, Moving
<1>2. CASE r # q
  BY <1>2, StillReplaces DEF Archive, Inv, TypeOK, Fresh
<1>. QED BY <1>1, <1>2

LEMMA ArchiveFailsSite ==
    ASSUME Inv, SiteInv, SitesDiffer, NEW q \in Request, ArchiveFails(q), NEW r \in Request
    PROVE  Replaces(r)'
<1>1. CASE r = q
  BY <1>1, Serving DEF ArchiveFails, Inv, TypeOK, Replaces, Return
<1>2. CASE r # q
  BY <1>2, Serving DEF ArchiveFails, SiteInv, Replaces, Held, Fresh, Return
<1>. QED BY <1>1, <1>2

LEMMA ReadKeySite ==
    ASSUME Inv, SiteInv, SitesDiffer, NEW q \in Request, ReadKey(q), NEW r \in Request
    PROVE  Replaces(r)'
  BY Serving, StillReplaces DEF ReadKey, Inv, TypeOK, Fresh, Moving

LEMMA ReadKeyFailsSite ==
    ASSUME Inv, SiteInv, SitesDiffer, NEW q \in Request, ReadKeyFails(q), NEW r \in Request
    PROVE  Replaces(r)'
  BY Serving, StillReplaces DEF ReadKeyFails, Fresh, Moving

LEMMA OpenKeySite ==
    ASSUME Inv, SiteInv, SitesDiffer, NEW q \in Request, OpenKey(q), NEW r \in Request
    PROVE  Replaces(r)'
  BY Serving, StillReplaces DEF OpenKey, Fresh, Moving

LEMMA WriteKeySite ==
    ASSUME Inv, SiteInv, SitesDiffer, NEW q \in Request, WriteKey(q), NEW r \in Request
    PROVE  Replaces(r)'
  BY Serving, StillReplaces DEF WriteKey, Inv, TypeOK, Fresh, Moving

LEMMA WriteKeyFailsSite ==
    ASSUME Inv, SiteInv, SitesDiffer, NEW q \in Request, WriteKeyFails(q), NEW r \in Request
    PROVE  Replaces(r)'
<1>1. CASE r = q
  BY <1>1, Serving DEF WriteKeyFails, Inv, TypeOK, Replaces, Return
<1>2. CASE r # q
  BY <1>2, Serving DEF WriteKeyFails, SiteInv, Replaces, Held, Fresh, Return
<1>. QED BY <1>1, <1>2

LEMMA EncryptSite ==
    ASSUME Inv, SiteInv, SitesDiffer, NEW q \in Request, Encrypt(q), NEW r \in Request
    PROVE  Replaces(r)'
<1>1. CASE r = q
  BY <1>1, StillReplaces DEF Encrypt, Fresh, Moving
<1>2. CASE r # q
  <2>1. /\ step[q] # "idle" /\ made[q] \in Backup
        /\ step[r] # "idle" => made[r] # made[q] /\ made[r] \in Backup
    BY <1>2, Serving DEF Encrypt, Inv, Apart
  <2>. QED BY <1>2, <2>1, StillReplaces DEF Encrypt, Fresh
<1>. QED BY <1>1, <1>2

LEMMA EncryptFailsSite ==
    ASSUME Inv, SiteInv, SitesDiffer, NEW q \in Request, EncryptFails(q), NEW r \in Request
    PROVE  Replaces(r)'
<1>1. CASE r = q
  BY <1>1, StillReplaces DEF EncryptFails, Inv, TypeOK, Return
<1>2. CASE r # q
  <2>1. /\ step[q] # "idle" /\ made[q] \in Backup
        /\ step[r] # "idle" => made[r] # made[q] /\ made[r] \in Backup
    BY <1>2, Serving DEF EncryptFails, Inv, Apart
  <2>. QED BY <1>2, <2>1, StillReplaces DEF EncryptFails, Inv, TypeOK, Fresh, Return
<1>. QED BY <1>1, <1>2

LEMMA RecordSite ==
    ASSUME Inv, SiteInv, SitesDiffer, NEW q \in Request, Record(q), NEW r \in Request
    PROVE  Replaces(r)'
<1>0. /\ step[q] = "recording" /\ made[q] \in Backup /\ key[q] \in Key
      /\ step[r] # "idle" /\ r # q => made[r] # made[q] /\ made[r] \in Backup
  BY Serving DEF Record, Inv, Apart, Working
<1>1. CASE r = q
  <2>1. /\ file[made[q]] = [kept |-> taken[q].kept, key |-> key[q], whole |-> taken[q].whole]
        /\ file[made[q]] # None
    <3>1. [kept |-> taken[q].kept, key |-> key[q], whole |-> taken[q].whole] \in File
      BY <1>0, Serving DEF File
    <3>. QED BY <1>0, <3>1 DEF Inv, Written
  <2>2. row'[made[q]] # None
    <3>1. PICK n \in Sizes : row' = [row EXCEPT ![made[q]] =
             [site |-> ask[q].site, parts |-> ask[q].parts, size |-> n, at |-> stamp[q]]]
      BY DEF Record
    <3>2. [site |-> ask[q].site, parts |-> ask[q].parts, size |-> n, at |-> stamp[q]] \in Row
      BY <1>0, Serving DEF Inv, TypeOK, Row
    <3>. QED BY <1>0, <3>1, <3>2 DEF Inv, TypeOK
  <2>3. /\ UNCHANGED <<ask, began, made, live, taken, file>> /\ step'[q] = "listing"
        /\ Replaces(q)
    BY DEF Record, Inv, TypeOK, SiteInv
  <2>4. file[made[q]].kept = taken[q].kept
    BY <2>1
  <2>. QED BY <1>0, <1>1, <2>1, <2>2, <2>3, <2>4 DEF Replaces, Held, Moving
<1>2. CASE r # q
  BY <1>0, <1>2, StillReplaces DEF Record, Fresh
<1>. QED BY <1>1, <1>2

LEMMA RecordFailsSite ==
    ASSUME Inv, SiteInv, SitesDiffer, NEW q \in Request, RecordFails(q), NEW r \in Request
    PROVE  Replaces(r)'
<1>1. CASE r = q
  BY <1>1, StillReplaces DEF RecordFails, Inv, TypeOK, Return
<1>2. CASE r # q
  <2>1. /\ step[q] # "idle" /\ made[q] \in Backup
        /\ step[r] # "idle" => made[r] # made[q] /\ made[r] \in Backup
    BY <1>2, Serving DEF RecordFails, Inv, Apart
  <2>2. file' = file \/ file' = [file EXCEPT ![made[q]] = None]
    BY DEF RecordFails
  <2>3. step[r] # "idle" => file'[made[r]] = file[made[r]]
    BY <1>2, <2>1, <2>2 DEF Inv, TypeOK
  <2>. QED BY <1>2, <2>1, <2>3, StillReplaces DEF RecordFails, Fresh, Return
<1>. QED BY <1>1, <1>2

LEMMA ListSite ==
    ASSUME Inv, SiteInv, SitesDiffer, NEW q \in Request, List(q), NEW r \in Request
    PROVE  Replaces(r)'
  BY Serving, StillReplaces DEF List, Fresh, Moving

LEMMA ListFailsSite ==
    ASSUME Inv, SiteInv, SitesDiffer, NEW q \in Request, ListFails(q), NEW r \in Request
    PROVE  Replaces(r)'
  BY Serving, StillReplaces DEF ListFails, Fresh, Moving

LEMMA RemoveFileSite ==
    ASSUME Inv, SiteInv, SitesDiffer, NEW q \in Request, RemoveFile(q), NEW r \in Request
    PROVE  Replaces(r)'
<1>1. \A b \in Backup : file'[b] = file[b] \/ b \in retired'
  <2>1. file' = file \/ file' = [file EXCEPT ![Head(doomed[q])] = None]
    BY DEF RemoveFile
  <2>2. Head(doomed[q]) \in retired' /\ file \in [Backup -> File \cup {None}]
    BY DEF RemoveFile, Inv, TypeOK
  <2>. QED BY <2>1, <2>2
<1>. QED BY <1>1, Serving, StillReplaces DEF RemoveFile, Fresh, Moving

LEMMA DeleteRowSite ==
    ASSUME Inv, SiteInv, SitesDiffer, NEW q \in Request, DeleteRow(q), NEW r \in Request
    PROVE  Replaces(r)'
<1>1. /\ step[q] = "deleting" /\ step' = [step EXCEPT ![q] = "pruning"]
      /\ UNCHANGED <<live, file, retired, ask, began, made, taken, key>>
      /\ step \in [Request -> Stage]
  BY DEF DeleteRow, Inv, TypeOK
<1>2. \A b \in Backup : row'[b] = row[b] \/ b \in retired
  <2>1. row' = row \/ row' = [row EXCEPT ![Head(doomed[q])] = None]
    BY DEF DeleteRow
  <2>2. Head(doomed[q]) \in Rows => Head(doomed[q]) \in retired
    BY <1>1 DEF Inv, Working
  <2>. QED BY <2>1, <2>2 DEF Inv, TypeOK
<1>3. step[r] # "idle" => made[r] \in Backup
  BY Serving
<1>. QED BY <1>1, <1>2, <1>3, StillReplaces DEF Fresh, Moving

LEMMA SavedSite ==
    ASSUME Inv, SiteInv, SitesDiffer, NEW q \in Request, Saved(q), NEW r \in Request
    PROVE  Replaces(r)'
<1>1. step[q] = "pruning" /\ UNCHANGED <<live, row, file>>
  BY DEF Saved
<1>2. CASE Return(q)
  BY <1>1, <1>2, StillReplaces DEF Return, Inv, TypeOK, Fresh
<1>3. CASE UNCHANGED <<Locals, retired>> /\ (Goto(q, "keying") \/ Goto(q, "staging"))
  <2>1. key[q] \in Key
    BY <1>1 DEF Inv, Working
  <2>. QED BY ZenonT(60), <1>1, <1>3, <2>1, StillReplaces DEF Inv, TypeOK, Fresh, Moving
<1>. QED BY <1>2, <1>3 DEF Saved

LEMMA DecryptSite ==
    ASSUME Inv, SiteInv, SitesDiffer, NEW q \in Request, Decrypt(q), NEW r \in Request
    PROVE  Replaces(r)'
  BY Serving, StillReplaces DEF Decrypt, Fresh, Moving

LEMMA DecryptFailsSite ==
    ASSUME Inv, SiteInv, SitesDiffer, NEW q \in Request, DecryptFails(q), NEW r \in Request
    PROVE  Replaces(r)'
<1>1. CASE r = q
  BY <1>1, Serving DEF DecryptFails, Inv, TypeOK, SiteInv, Replaces, Return
<1>2. CASE r # q
  BY <1>2, Serving DEF DecryptFails, SiteInv, Replaces, Held, Fresh, Return
<1>. QED BY <1>1, <1>2

LEMMA UnpackSite ==
    ASSUME Inv, SiteInv, SitesDiffer, NEW q \in Request, Unpack(q), NEW r \in Request
    PROVE  Replaces(r)'
  BY Serving, StillReplaces DEF Unpack, Fresh, Moving

LEMMA StagingFailsSite ==
    ASSUME Inv, SiteInv, SitesDiffer, NEW q \in Request, StagingFails(q), NEW r \in Request
    PROVE  Replaces(r)'
<1>1. CASE r = q
  BY <1>1, Serving DEF StagingFails, Inv, TypeOK, SiteInv, Replaces, Held, Return
<1>2. CASE r # q
  BY <1>2, Serving DEF StagingFails, SiteInv, Replaces, Held, Fresh, Return
<1>. QED BY <1>1, <1>2

LEMMA SetAsideSite ==
    ASSUME Inv, SiteInv, SitesDiffer, NEW q \in Request, SetAside(q), NEW r \in Request
    PROVE  Replaces(r)'
<1>1. /\ step[q] \in Placing /\ ask[q].site \in Site /\ ask[q].op # "create" /\ live \in [Site -> Contents]
  BY Serving DEF SetAside, Placing, Inv, TypeOK, Working
<1>2. /\ \A s \in Site \ {ask[q].site} : live'[s] = live[s]
      /\ \A p \in Part \ ask[q].parts : live'[ask[q].site][p] = live[ask[q].site][p]
  <2>1. "files" \in ask[q].parts /\ "files" \in Part
    BY <1>1 DEF SetAside, Inv, Working, Part
  <2>. QED BY <1>1, <2>1 DEF SetAside, SetRoot, Contents
<1>3. r # q /\ step[r] # "idle" /\ ask[r].op # "create" => ask[r].site \in Site \ {ask[q].site}
  BY <1>1, Serving DEF SitesDiffer, Placing
<1>4. /\ \A x \in Request : (x # q => step'[x] = step[x]) /\ (step'[q] \in Moving \/ step'[q] = "idle")
      /\ UNCHANGED <<ask, began, made, taken, key, row, file, retired>>
  BY DEF SetAside, Inv, TypeOK, Moving
<1>5. CASE r = q
  BY <1>1, <1>2, <1>4, <1>5, StillReplaces DEF Fresh, Moving, Placing
<1>6. CASE r # q
  BY <1>2, <1>3, <1>4, <1>6, StillReplaces DEF Fresh, Moving
<1>. QED BY <1>5, <1>6

LEMMA MoveInSite ==
    ASSUME Inv, SiteInv, SitesDiffer, NEW q \in Request, MoveIn(q), NEW r \in Request
    PROVE  Replaces(r)'
<1>1. /\ step[q] \in Placing /\ ask[q].site \in Site /\ ask[q].op # "create" /\ live \in [Site -> Contents]
  BY Serving DEF MoveIn, Placing, Inv, TypeOK, Working
<1>2. /\ \A s \in Site \ {ask[q].site} : live'[s] = live[s]
      /\ \A p \in Part \ ask[q].parts : live'[ask[q].site][p] = live[ask[q].site][p]
  <2>1. "files" \in ask[q].parts /\ "files" \in Part
    BY <1>1 DEF MoveIn, Inv, Working, Part
  <2>. QED BY <1>1, <2>1 DEF MoveIn, SetRoot, Contents
<1>3. r # q /\ step[r] # "idle" /\ ask[r].op # "create" => ask[r].site \in Site \ {ask[q].site}
  BY <1>1, Serving DEF SitesDiffer, Placing
<1>4. /\ \A x \in Request : (x # q => step'[x] = step[x]) /\ (step'[q] \in Moving \/ step'[q] = "idle")
      /\ UNCHANGED <<ask, began, made, taken, key, row, file, retired>>
  BY DEF MoveIn, Moving
<1>5. CASE r = q
  BY <1>1, <1>2, <1>4, <1>5, StillReplaces DEF Fresh, Moving, Placing
<1>6. CASE r # q
  BY <1>2, <1>3, <1>4, <1>6, StillReplaces DEF Fresh, Moving
<1>. QED BY <1>5, <1>6

LEMMA MoveInFailsSite ==
    ASSUME Inv, SiteInv, SitesDiffer, NEW q \in Request, MoveInFails(q), NEW r \in Request
    PROVE  Replaces(r)'
  BY Serving, StillReplaces DEF MoveInFails, Fresh, Moving

LEMMA MoveBackSite ==
    ASSUME Inv, SiteInv, SitesDiffer, NEW q \in Request, MoveBack(q), NEW r \in Request
    PROVE  Replaces(r)'
<1>1. /\ step[q] \in Placing /\ ask[q].site \in Site /\ ask[q].op # "create" /\ live \in [Site -> Contents]
  BY Serving DEF MoveBack, Placing, Inv, TypeOK, Working
<1>2. /\ \A s \in Site \ {ask[q].site} : live'[s] = live[s]
      /\ \A p \in Part \ ask[q].parts : live'[ask[q].site][p] = live[ask[q].site][p]
  <2>1. "files" \in ask[q].parts /\ "files" \in Part
    BY <1>1 DEF MoveBack, Inv, Working, Part
  <2>. QED BY <1>1, <2>1 DEF MoveBack, SetRoot, Contents
<1>3. r # q /\ step[r] # "idle" /\ ask[r].op # "create" => ask[r].site \in Site \ {ask[q].site}
  BY <1>1, Serving DEF SitesDiffer, Placing
<1>4. /\ step'[q] = "idle" /\ UNCHANGED <<row, file>>
      /\ \A x \in Request \ {q} : /\ step'[x] = step[x] /\ ask'[x] = ask[x] /\ began'[x] = began[x]
                                  /\ made'[x] = made[x] /\ taken'[x] = taken[x] /\ key'[x] = key[x]
                                  /\ made[x] \in retired => made[x] \in retired'
  BY DEF MoveBack, Return, Inv, TypeOK
<1>5. CASE r = q
  BY <1>1, <1>2, <1>4, <1>5, StillReplaces DEF Fresh, Moving, Placing
<1>6. CASE r # q
  <2>1. /\ step'[r] = step[r] /\ ask'[r] = ask[r] /\ began'[r] = began[r] /\ made'[r] = made[r]
        /\ taken'[r] = taken[r] /\ key'[r] = key[r] /\ row' = row /\ file' = file
        /\ made[r] \in retired => made[r] \in retired'
    <3>1. r \in Request \ {q}
      BY <1>6
    <3>. QED BY <1>4, <3>1
  <2>2. step[r] # "idle" /\ ask[r].op # "create" => live'[ask[r].site] = live[ask[r].site]
    BY <1>2, <1>3, <1>6
  <2>. QED BY <2>1, <2>2, StillReplaces DEF Fresh, Moving
<1>. QED BY <1>5, <1>6

LEMMA DropOldSite ==
    ASSUME Inv, SiteInv, SitesDiffer, NEW q \in Request, DropOld(q), NEW r \in Request
    PROVE  Replaces(r)'
  BY Serving, StillReplaces DEF DropOld, Fresh, Moving

LEMMA ImportSite ==
    ASSUME Inv, SiteInv, SitesDiffer, NEW q \in Request, Import(q), NEW r \in Request
    PROVE  Replaces(r)'
<1>1. /\ step[q] \in Placing /\ ask[q].site \in Site /\ ask[q].op # "create" /\ live \in [Site -> Contents]
  BY Serving DEF Import, Placing, Inv, TypeOK, Working
<1>2. /\ \A s \in Site \ {ask[q].site} : live'[s] = live[s]
      /\ \A p \in Part \ ask[q].parts : live'[ask[q].site][p] = live[ask[q].site][p]
  <2>1. todo[q] \subseteq ask[q].parts /\ todo[q] \subseteq Part
    BY <1>1 DEF Import, Inv, Working, Part, TypeOK
  <2>. QED BY <1>1, <2>1 DEF Import, Contents
<1>3. r # q /\ step[r] # "idle" /\ ask[r].op # "create" => ask[r].site \in Site \ {ask[q].site}
  BY <1>1, Serving DEF SitesDiffer, Placing
<1>4. /\ \A x \in Request : (x # q => step'[x] = step[x]) /\ (step'[q] \in Moving \/ step'[q] = "idle")
      /\ UNCHANGED <<ask, began, made, taken, key, row, file, retired>>
  BY DEF Import, Moving
<1>5. CASE r = q
  BY <1>1, <1>2, <1>4, <1>5, StillReplaces DEF Fresh, Moving, Placing
<1>6. CASE r # q
  BY <1>2, <1>3, <1>4, <1>6, StillReplaces DEF Fresh, Moving
<1>. QED BY <1>5, <1>6

LEMMA FinishSite ==
    ASSUME Inv, SiteInv, SitesDiffer, NEW q \in Request, Finish(q), NEW r \in Request
    PROVE  Replaces(r)'
<1>1. CASE r = q
  BY <1>1, Serving DEF Finish, Inv, TypeOK, Replaces, Return
<1>2. CASE r # q
  BY <1>2, Serving DEF Finish, SiteInv, Replaces, Held, Fresh, Return
<1>. QED BY <1>1, <1>2

\* Every step keeps what the requests replace as it was saved.
LEMMA SiteStep == SitesDiffer /\ Inv /\ SiteInv /\ [Next]_vars => SiteInv'
<1>. SUFFICES ASSUME SitesDiffer, Inv, SiteInv, [Next]_vars, NEW r \in Request PROVE Replaces(r)'
  BY DEF SiteInv
<1>1. ASSUME NEW q \in Request, Save(q) PROVE Replaces(r)'
  BY <1>1, BeginSite, ArchiveSite, ArchiveFailsSite, ReadKeySite, ReadKeyFailsSite,
     OpenKeySite, WriteKeySite, WriteKeyFailsSite, EncryptSite, EncryptFailsSite,
     RecordSite, RecordFailsSite, ListSite, ListFailsSite, RemoveFileSite, DeleteRowSite,
     SavedSite DEF Save
<1>2. Die => Replaces(r)'
  BY DEF Die, Replaces
<1>3. ASSUME NEW q \in Request, Replace(q) PROVE Replaces(r)'
  BY <1>2, <1>3, DecryptSite, DecryptFailsSite, UnpackSite, StagingFailsSite,
     SetAsideSite, MoveInSite, MoveInFailsSite, MoveBackSite, DropOldSite, ImportSite,
     FinishSite DEF Replace, DecryptPanics
<1>4. Crash \/ Tick \/ UNCHANGED vars => Replaces(r)'
  BY <1>2 DEF Crash, Tick, vars, SiteInv, Replaces, Held, Fresh
<1>. QED BY <1>1, <1>3, <1>4 DEF Next

\* What a restore or a deployment replaces is in a backup that can be opened, or in
\* place, provided no two requests replace parts of one site at once.
THEOREM ReplacedIsSavedHolds == SitesDiffer => (Spec => []ReplacedIsSaved)
<1>1. Init => SiteInv
  BY DEF Init, SiteInv, Replaces
<1>2. Inv /\ SiteInv => ReplacedIsSaved
  BY Serving DEF Inv, SiteInv, Replaces, Held, Fresh, Keyed, ReplacedIsSaved, Replacing
<1>3. ASSUME SitesDiffer PROVE Inv /\ SiteInv /\ [Next]_vars => Inv' /\ SiteInv'
  BY <1>3, StepInv, SiteStep
<1>4. ASSUME SitesDiffer PROVE Spec => []ReplacedIsSaved
  <2>1. Inv /\ SiteInv /\ [Next]_vars => Inv' /\ SiteInv'
    BY <1>3, <1>4
  <2>. QED BY <1>1, <1>2, <2>1, InitInv, PTL DEF Spec
<1>. QED BY <1>4

-----------------------------------------------------------------------------
\* Without what the retention of q has left to remove, the quota holds.
Settles(q) == \/ step[q] = "listing"
              \/ Pruning(q) /\ ~(Total(Rows \ ToSet(doomed[q])) > Quota)
\* More than the quota is recorded only while some retention is going to remove enough.
QuotaInv == Total(Rows) > Quota => overdue \/ \E q \in Request : Settles(q)

\* What is recorded and not older than b.
Newer(b) == {x \in Rows : row[x].at >= row[b].at}
Removing(q) == step[q] \in {"pruning", "deleting"} /\ doomed[q] # <<>>

\* What there is, when the turn of the i-th comes, that is not older.
Left(q, i) == Newer(doomed[q][i]) \ {doomed[q][j] : j \in 1 .. i - 1}

\* What a retention that no other overlapped is going to remove is in excess when
\* its turn comes.
Justified(q) ==
    Removing(q) /\ q \notin crossed =>
      /\ \A r \in Request \ {q} : ~Removing(r)
      /\ \A i \in DOMAIN doomed[q] : doomed[q][i] \in Rows =>
           \/ Expired(doomed[q][i], stamp[q])
           \/ Total(Left(q, i)) > Quota

RetainInv == \A q \in Request : Justified(q)

LEMMA TotalIsSum == ASSUME NEW S PROVE Total(S) = SumOf(row, S)
  BY Zenon DEF Total, SumOf

\* The same of what a step makes of the table.
LEMMA TotalOfRows == Total(Rows)' = SumOf(row', Rows')
  BY Zenon DEF Total, SumOf, MapThenSumSet, MapThenFoldSet

\* The total without the backups on a list, in the next state.
LEMMA TotalOfOthers ==
    ASSUME NEW q
    PROVE  Total(Rows \ ToSet(doomed[q]))' = SumOf(row', Rows' \ ToSet(doomed'[q]))
  BY Zenon DEF Total, SumOf, MapThenSumSet, MapThenFoldSet

\* Recorded backups have a size, and fewer of them have less of it.
LEMMA Sizable ==
    ASSUME Inv
    PROVE  IsFiniteSet(Rows) /\ \A b \in Rows : row[b].size \in Nat
  BY RowsFinite DEF Inv, TypeOK, Row

\* A part of the recorded backups has no more than the total.
LEMMA TotalOfPart ==
    ASSUME Inv, NEW T, T \subseteq Rows, NEW S, S \subseteq T
    PROVE  Total(S) \in Nat /\ Total(T) \in Nat /\ Total(S) <= Total(T)
<1>1. IsFiniteSet(T) /\ \A b \in T : row[b].size \in Nat
  BY Sizable, FS_Subset
<1>2. SumOf(row, S) <= SumOf(row, T)
  BY <1>1, SumMonotone
<1>3. SumOf(row, S) \in Nat /\ SumOf(row, T) \in Nat
  BY <1>1, SumOfParts
<1>. QED BY <1>2, <1>3, TotalIsSum

\* The list a retention works through: what is expired, then the first n of the rest.
Lists(q, past, g, active, list, n) ==
    /\ past = {b \in Rows : Expired(b, stamp[q])}
    /\ ToSet(g) = past /\ ToSet(active) = Rows \ past /\ Distinct(active)
    /\ \A i, j \in DOMAIN active : i < j => Older(active[i], active[j])
    /\ n \in 0 .. Len(active) /\ DOMAIN list = 1 .. Len(g) + n
    /\ \A i \in 1 .. Len(g) : list[i] = g[i]
    /\ \A i \in 1 .. n : list[Len(g) + i] = active[i]
    /\ ~Excess(active, n) /\ \A i \in 0 .. n - 1 : Excess(active, i)

\* What List puts on the list.
LEMMA Listing ==
    ASSUME Inv, NEW q \in Request, List(q)
    PROVE  \E past \in SUBSET Rows, g \in Seq(Backup), active \in Seq(Backup),
              list \in Seq(Backup), n \in Nat :
             Lists(q, past, g, active, list, n) /\ doomed' = [doomed EXCEPT ![q] = list]
<1> DEFINE past == {b \in Rows : Expired(b, stamp[q])}
<1>1. PICK gone \in OldestFirst(past), active \in OldestFirst(Rows \ past) :
        \E n \in 0 .. Len(active) :
            /\ ~Excess(active, n) /\ \A i \in 0 .. n - 1 : Excess(active, i)
            /\ doomed' = [doomed EXCEPT ![q] = Reverse(gone) \o SubSeq(active, 1, n)]
  BY Zenon DEF List
<1>2. PICK n \in 0 .. Len(active) :
        /\ ~Excess(active, n) /\ \A i \in 0 .. n - 1 : Excess(active, i)
        /\ doomed' = [doomed EXCEPT ![q] = Reverse(gone) \o SubSeq(active, 1, n)]
  BY <1>1
<1>3. past \subseteq Rows /\ IsFiniteSet(past) /\ IsFiniteSet(Rows \ past)
  BY RowsFinite, FS_Subset
<1>4. past = {b \in Rows : Expired(b, stamp[q])}
  OBVIOUS
<1> HIDE DEF past
<1> DEFINE g == Reverse(gone)
           start == SubSeq(active, 1, n)
           list == g \o start
<1>5. /\ g \in Seq(past) /\ ToSet(g) = past
      /\ active \in Seq(Rows \ past) /\ ToSet(active) = Rows \ past /\ Distinct(active)
      /\ \A i, j \in DOMAIN active : i < j => Older(active[i], active[j])
  BY <1>3, Sorted, Backwards
<1>6. /\ start \in Seq(Rows \ past) /\ Len(start) = n
      /\ \A i \in 1 .. n : start[i] = active[i]
  BY <1>5, <1>2, Started
<1> HIDE DEF g, start
<1>7. g \in Seq(Backup) /\ start \in Seq(Backup) /\ active \in Seq(Backup)
  <2>1. past \subseteq Backup /\ Rows \ past \subseteq Backup
    BY <1>3
  <2>. QED BY <1>5, <1>6, <2>1, SeqMonotonic
<1>8. /\ list \in Seq(Backup) /\ Len(list) = Len(g) + Len(start)
      /\ \A i \in 1 .. Len(g) + Len(start) : list[i] = IF i <= Len(g) THEN g[i] ELSE start[i - Len(g)]
  BY <1>7, ConcatProperties
<1>9. Len(g) \in Nat /\ n \in Nat /\ DOMAIN list = 1 .. Len(list)
  BY <1>5, <1>6, <1>8, LenProperties
<1>10. doomed' = [doomed EXCEPT ![q] = list]
  BY <1>2 DEF g, start
<1> HIDE DEF list
<1>11. \A i \in 1 .. Len(g) : list[i] = g[i]
  BY <1>6, <1>8, <1>9
<1>12. ASSUME NEW i \in 1 .. n PROVE list[Len(g) + i] = active[i]
  <2>1. Len(g) + i \in 1 .. Len(g) + Len(start) /\ ~(Len(g) + i <= Len(g)) /\ (Len(g) + i) - Len(g) = i
    BY <1>6, <1>9
  <2>. QED BY <1>6, <1>8, <2>1
<1>13. DOMAIN list = 1 .. Len(g) + n
  BY <1>6, <1>8, <1>9
<1>14. Lists(q, past, g, active, list, n)
  BY <1>2, <1>4, <1>5, <1>11, <1>12, <1>13 DEF Lists
<1>. QED BY <1>3, <1>7, <1>8, <1>9, <1>10, <1>14

\* Steps that leave the table alone, and each retention where it is.
LEMMA QuotaKept ==
    ASSUME QuotaInv, row' = row, overdue => overdue',
           \A r \in Request : Pruning(r) =>
              /\ Pruning(r)' /\ doomed'[r] = doomed[r]
              /\ step[r] = "listing" => step'[r] = "listing"
    PROVE  QuotaInv'
<1>1. Total(Rows)' = Total(Rows)
  BY TotalOfRows, TotalIsSum
<1>2. ASSUME NEW r \in Request, Settles(r) PROVE Settles(r)'
  <2>1. Pruning(r)
    BY <1>2 DEF Settles, Pruning
  <2>2. Total(Rows \ ToSet(doomed[r]))' = Total(Rows \ ToSet(doomed[r]))
    BY <2>1, TotalOfOthers, TotalIsSum
  <2>. QED BY <1>2, <2>1, <2>2 DEF Settles
<1>. QED BY <1>1, <1>2 DEF QuotaInv

LEMMA ListQuota == ASSUME Inv, NEW q \in Request, List(q) PROVE QuotaInv'
<1>1. PICK past \in SUBSET Rows, g \in Seq(Backup), active \in Seq(Backup),
           list \in Seq(Backup), n \in Nat :
        Lists(q, past, g, active, list, n) /\ doomed' = [doomed EXCEPT ![q] = list]
  BY Listing
<1>3. /\ doomed' = [doomed EXCEPT ![q] = list] /\ n \in 0 .. Len(active)
      /\ ToSet(g) = past /\ ToSet(active) = Rows \ past
      /\ DOMAIN list = 1 .. Len(g) + n
      /\ \A i \in 1 .. Len(g) : list[i] = g[i]
      /\ \A i \in 1 .. n : list[Len(g) + i] = active[i]
      /\ ~Excess(active, n)
  BY <1>1 DEF Lists
<1> DEFINE rest == {active[j] : j \in n + 1 .. Len(active)}
<1>4. /\ Len(g) \in Nat /\ Len(active) \in Nat /\ n <= Len(active)
      /\ DOMAIN g = 1 .. Len(g) /\ DOMAIN active = 1 .. Len(active)
  BY <1>3, LenProperties
<1>5. \A x \in past : x \in ToSet(list)
  <2>1. \A i \in 1 .. Len(g) : i \in 1 .. Len(g) + n
    BY <1>4
  <2>. QED BY <1>3, <1>4, <2>1 DEF ToSet
<1>6. ASSUME NEW x \in Rows \ ToSet(list) PROVE x \in rest
  <2>1. PICK j \in 1 .. Len(active) : x = active[j]
    BY <1>3, <1>4, <1>5, <1>6 DEF ToSet
  <2>2. ASSUME j \in 1 .. n PROVE FALSE
    <3>1. Len(g) + j \in 1 .. Len(g) + n /\ list[Len(g) + j] = x
      BY <1>3, <1>4, <2>1, <2>2
    <3>. QED BY <1>3, <1>6, <3>1 DEF ToSet
  <2>3. j \in n + 1 .. Len(active)
    BY <1>4, <2>2
  <2>. QED BY <2>1, <2>3
<1>7. rest \subseteq Rows
  <2>1. \A j \in n + 1 .. Len(active) : j \in 1 .. Len(active)
    BY <1>4
  <2>. QED BY <1>3, <1>4, <2>1 DEF ToSet
<1>8. ~(Total(rest) > Quota)
  BY <1>3 DEF Excess
<1> HIDE DEF rest
<1>9. ~(Total(Rows \ ToSet(list)) > Quota)
  <2>1. Rows \ ToSet(list) \subseteq rest
    BY <1>6
  <2>2. Total(Rows \ ToSet(list)) \in Nat /\ Total(rest) \in Nat /\ Total(Rows \ ToSet(list)) <= Total(rest)
    BY <1>7, <2>1, TotalOfPart
  <2>. QED BY <1>8, <2>2
<1>10. row' = row /\ step'[q] = "pruning" /\ doomed'[q] = list
  BY <1>3 DEF List, Inv, TypeOK
<1>11. Total(Rows \ ToSet(doomed[q]))' = Total(Rows \ ToSet(list))
  BY <1>10, TotalOfOthers, TotalIsSum
<1>. QED BY <1>9, <1>10, <1>11 DEF QuotaInv, Settles, Pruning

LEMMA ListFailsQuota == ASSUME NEW q \in Request, ListFails(q) PROVE QuotaInv'
  BY DEF ListFails, QuotaInv

LEMMA DeleteRowQuota == ASSUME Inv, QuotaInv, NEW q \in Request, DeleteRow(q) PROVE QuotaInv'
<1>1. CASE overdue'
  BY <1>1 DEF QuotaInv
<1>2. CASE ~overdue'
  <2> DEFINE h == Head(doomed[q])
  <2>1. /\ step[q] = "deleting" /\ step' = [step EXCEPT ![q] = "pruning"]
        /\ row' = [row EXCEPT ![h] = None] /\ doomed' = [doomed EXCEPT ![q] = Tail(doomed[q])]
        /\ overdue' = overdue
    BY <1>2 DEF DeleteRow, Inv, TypeOK
  <2>2. /\ doomed[q] \in Seq(Backup) /\ doomed[q] # <<>> /\ h \in Backup
        /\ ToSet(doomed[q]) = {h} \cup ToSet(Tail(doomed[q]))
    BY <2>1, Popped DEF Inv, TypeOK, Working
  <2> HIDE DEF h
  <2>3. Rows' = Rows \ {h} /\ \A b \in Rows' : row'[b] = row[b]
    BY <2>1, <2>2 DEF Inv, TypeOK
  <2>4. ASSUME NEW S, S \subseteq Rows' PROVE SumOf(row', S) = Total(S)
    <3>1. IsFiniteSet(S) /\ \A b \in S : row[b].size \in Nat
      BY <2>3, <2>4, Sizable, FS_Subset
    <3>2. \A b \in S : row'[b].size = row[b].size
      BY <2>3, <2>4
    <3>. QED BY <3>1, <3>2, SumAgrees, TotalIsSum
  <2>5. SUFFICES ASSUME Total(Rows)' > Quota PROVE overdue' \/ \E r \in Request : Settles(r)'
    BY DEF QuotaInv
  <2>6. Total(Rows)' = Total(Rows')
    BY <2>4, TotalOfRows
  <2>7. Total(Rows) > Quota
    <3>1. Total(Rows') \in Nat /\ Total(Rows) \in Nat /\ Total(Rows') <= Total(Rows)
      BY <2>3, TotalOfPart
    <3>. QED BY <2>5, <2>6, <3>1
  <2>8. ASSUME NEW r \in Request, Settles(r) PROVE Settles(r)'
    <3>1. CASE step[r] = "listing"
      BY <2>1, <3>1 DEF Settles, Inv, TypeOK
    <3>2. CASE Pruning(r) /\ ~(Total(Rows \ ToSet(doomed[r])) > Quota)
      <4>1. Rows' \ ToSet(doomed'[r]) \subseteq Rows \ ToSet(doomed[r])
        BY <2>1, <2>2, <2>3 DEF Inv, TypeOK
      <4>2. Total(Rows \ ToSet(doomed[r]))' = Total(Rows' \ ToSet(doomed'[r]))
        BY <2>4, TotalOfOthers
      <4>3. /\ Total(Rows' \ ToSet(doomed'[r])) \in Nat /\ Total(Rows \ ToSet(doomed[r])) \in Nat
            /\ Total(Rows' \ ToSet(doomed'[r])) <= Total(Rows \ ToSet(doomed[r]))
        BY <4>1, TotalOfPart
      <4>4. Pruning(r)'
        BY <2>1, <3>2 DEF Pruning, Inv, TypeOK
      <4>. QED BY <3>2, <4>2, <4>3, <4>4 DEF Settles
    <3>. QED BY <2>8, <3>1, <3>2 DEF Settles
  <2>. QED BY <2>1, <2>7, <2>8 DEF QuotaInv
<1>. QED BY <1>1, <1>2

LEMMA RecordQuota == ASSUME Inv, NEW q \in Request, Record(q) PROVE QuotaInv'
<1>1. step'[q] = "listing"
  BY DEF Record, Inv, TypeOK
<1>. QED BY <1>1 DEF QuotaInv, Settles

LEMMA SavedQuota == ASSUME Inv, QuotaInv, NEW q \in Request, Saved(q) PROVE QuotaInv'
<1>1. row' = row /\ overdue' = overdue /\ step[q] = "pruning" /\ doomed[q] = <<>>
  BY DEF Saved
<1>2. \A r \in Request \ {q} : step'[r] = step[r] /\ doomed'[r] = doomed[r]
  BY DEF Saved, Return, Inv, TypeOK
<1>3. Total(Rows)' = Total(Rows)
  BY <1>1, TotalOfRows, TotalIsSum
<1>4. ASSUME Settles(q) PROVE ~(Total(Rows) > Quota)
  <2>1. Rows \ ToSet(doomed[q]) = Rows
    BY <1>1, NothingListed
  <2>. QED BY <1>1, <1>4, <2>1 DEF Settles
<1>5. ASSUME NEW r \in Request \ {q}, Settles(r) PROVE Settles(r)'
  <2>1. Total(Rows \ ToSet(doomed[r]))' = Total(Rows \ ToSet(doomed[r]))
    BY <1>1, <1>2, TotalOfOthers, TotalIsSum
  <2>. QED BY <1>2, <1>5, <2>1 DEF Settles, Pruning
<1>. QED BY <1>1, <1>3, <1>4, <1>5 DEF QuotaInv

LEMMA DieQuota == ASSUME QuotaInv, Die PROVE QuotaInv'
<1>1. Total(Rows)' = Total(Rows)
  BY TotalOfRows, TotalIsSum DEF Die
<1>2. \A q \in Request : Settles(q) => Pruning(q)
  BY DEF Settles, Pruning
<1>. QED BY <1>1, <1>2 DEF Die, QuotaInv

LEMMA BeginQuota == ASSUME Inv, QuotaInv, NEW q \in Request, Begin(q) PROVE QuotaInv'
  BY QuotaKept DEF Begin, Pruning

LEMMA ArchiveQuota == ASSUME Inv, QuotaInv, NEW q \in Request, Archive(q) PROVE QuotaInv'
  BY QuotaKept DEF Archive, Pruning

LEMMA ArchiveFailsQuota ==
    ASSUME Inv, QuotaInv, NEW q \in Request, ArchiveFails(q)
    PROVE  QuotaInv'
  BY QuotaKept DEF ArchiveFails, Pruning, Return

LEMMA ReadKeyQuota == ASSUME Inv, QuotaInv, NEW q \in Request, ReadKey(q) PROVE QuotaInv'
  BY QuotaKept DEF ReadKey, Pruning

LEMMA ReadKeyFailsQuota ==
    ASSUME Inv, QuotaInv, NEW q \in Request, ReadKeyFails(q)
    PROVE  QuotaInv'
  BY QuotaKept DEF ReadKeyFails, Pruning

LEMMA OpenKeyQuota == ASSUME Inv, QuotaInv, NEW q \in Request, OpenKey(q) PROVE QuotaInv'
  BY QuotaKept DEF OpenKey, Pruning

LEMMA WriteKeyQuota == ASSUME Inv, QuotaInv, NEW q \in Request, WriteKey(q) PROVE QuotaInv'
  BY QuotaKept DEF WriteKey, Pruning

LEMMA WriteKeyFailsQuota ==
    ASSUME Inv, QuotaInv, NEW q \in Request, WriteKeyFails(q)
    PROVE  QuotaInv'
  BY QuotaKept DEF WriteKeyFails, Pruning, Return

LEMMA EncryptQuota == ASSUME Inv, QuotaInv, NEW q \in Request, Encrypt(q) PROVE QuotaInv'
  BY QuotaKept DEF Encrypt, Pruning

LEMMA EncryptFailsQuota ==
    ASSUME Inv, QuotaInv, NEW q \in Request, EncryptFails(q)
    PROVE  QuotaInv'
  BY QuotaKept DEF EncryptFails, Pruning, Return

LEMMA RecordFailsQuota ==
    ASSUME Inv, QuotaInv, NEW q \in Request, RecordFails(q)
    PROVE  QuotaInv'
  BY QuotaKept DEF RecordFails, Pruning, Return

LEMMA RemoveFileQuota == ASSUME Inv, QuotaInv, NEW q \in Request, RemoveFile(q) PROVE QuotaInv'
  BY QuotaKept DEF RemoveFile, Pruning

LEMMA DecryptQuota == ASSUME Inv, QuotaInv, NEW q \in Request, Decrypt(q) PROVE QuotaInv'
  BY QuotaKept DEF Decrypt, Pruning

LEMMA DecryptFailsQuota ==
    ASSUME Inv, QuotaInv, NEW q \in Request, DecryptFails(q)
    PROVE  QuotaInv'
  BY QuotaKept DEF DecryptFails, Pruning, Return

LEMMA UnpackQuota == ASSUME Inv, QuotaInv, NEW q \in Request, Unpack(q) PROVE QuotaInv'
  BY QuotaKept DEF Unpack, Pruning

LEMMA StagingFailsQuota ==
    ASSUME Inv, QuotaInv, NEW q \in Request, StagingFails(q)
    PROVE  QuotaInv'
  BY QuotaKept DEF StagingFails, Pruning, Return

LEMMA SetAsideQuota == ASSUME Inv, QuotaInv, NEW q \in Request, SetAside(q) PROVE QuotaInv'
  BY QuotaKept DEF SetAside, Pruning

LEMMA MoveInQuota == ASSUME Inv, QuotaInv, NEW q \in Request, MoveIn(q) PROVE QuotaInv'
  BY QuotaKept DEF MoveIn, Pruning

LEMMA MoveInFailsQuota ==
    ASSUME Inv, QuotaInv, NEW q \in Request, MoveInFails(q)
    PROVE  QuotaInv'
  BY QuotaKept DEF MoveInFails, Pruning

LEMMA MoveBackQuota == ASSUME Inv, QuotaInv, NEW q \in Request, MoveBack(q) PROVE QuotaInv'
  BY QuotaKept DEF MoveBack, Pruning, Return

LEMMA DropOldQuota == ASSUME Inv, QuotaInv, NEW q \in Request, DropOld(q) PROVE QuotaInv'
  BY QuotaKept DEF DropOld, Pruning

LEMMA ImportQuota == ASSUME Inv, QuotaInv, NEW q \in Request, Import(q) PROVE QuotaInv'
  BY QuotaKept DEF Import, Pruning

LEMMA FinishQuota == ASSUME Inv, QuotaInv, NEW q \in Request, Finish(q) PROVE QuotaInv'
  BY QuotaKept DEF Finish, Pruning, Return

\* Every step keeps the quota within reach.
LEMMA QuotaStep == Inv /\ QuotaInv /\ [Next]_vars => QuotaInv'
<1>. SUFFICES ASSUME Inv, QuotaInv, [Next]_vars PROVE QuotaInv'
  OBVIOUS
<1>1. ASSUME NEW q \in Request, Save(q) PROVE QuotaInv'
  BY <1>1, BeginQuota, ArchiveQuota, ArchiveFailsQuota, ReadKeyQuota, ReadKeyFailsQuota,
     OpenKeyQuota, WriteKeyQuota, WriteKeyFailsQuota, EncryptQuota, EncryptFailsQuota,
     RecordQuota, RecordFailsQuota, ListQuota, ListFailsQuota, RemoveFileQuota,
     DeleteRowQuota, SavedQuota DEF Save
<1>2. ASSUME NEW q \in Request, Replace(q) PROVE QuotaInv'
  BY <1>2, DieQuota, DecryptQuota, DecryptFailsQuota, UnpackQuota, StagingFailsQuota,
     SetAsideQuota, MoveInQuota, MoveInFailsQuota, MoveBackQuota, DropOldQuota,
     ImportQuota, FinishQuota DEF Replace, DecryptPanics
<1>3. Crash \/ Tick \/ UNCHANGED vars => QuotaInv'
  BY DieQuota, QuotaKept DEF Crash, Tick, vars, Pruning
<1>. QED BY <1>1, <1>2, <1>3 DEF Next

\* More than the quota is recorded only while a request is at it, or after a
\* retention that could not list the backups or was cut short and until the next one
\* that can list them: for any number of failures.
THEOREM QuotaHoldsAlways == Spec => []QuotaHolds
<1>1. Init => QuotaInv
  <2>1. SumOf(row, {}) = 0
    BY SumOfParts, FS_EmptySet
  <2>2. Init => Rows = {}
    BY DEF Init
  <2>3. ~(0 > Quota)
    OBVIOUS
  <2>. QED BY <2>1, <2>2, <2>3, TotalIsSum DEF QuotaInv
<1>2. QuotaInv => QuotaHolds
  BY DEF QuotaInv, QuotaHolds, Settles, Pruning
<1>. QED BY <1>1, <1>2, InitInv, StepInv, QuotaStep, PTL DEF Spec

-----------------------------------------------------------------------------
\* The total of what is left in the next state.
LEMMA TotalOfLeft ==
    ASSUME NEW q, NEW i
    PROVE  Total(Left(q, i))' = SumOf(row', Left(q, i)')
  BY Zenon DEF Total, SumOf, MapThenSumSet, MapThenFoldSet

\* Steps that leave the table alone, and each list at work as it is.
LEMMA RetainKept ==
    ASSUME RetainInv, row' = row,
           \A r \in Request : Removing(r)' =>
              /\ Removing(r) /\ doomed'[r] = doomed[r] /\ stamp'[r] = stamp[r]
              /\ r \in crossed => r \in crossed'
    PROVE  RetainInv'
<1>. SUFFICES ASSUME NEW r \in Request, Removing(r)', r \notin crossed'
              PROVE  /\ \A x \in Request \ {r} : ~Removing(x)'
                     /\ \A i \in DOMAIN doomed'[r] : doomed'[r][i] \in Rows' =>
                           \/ Expired(doomed[r][i], stamp[r])'
                           \/ Total(Left(r, i))' > Quota
  BY DEF RetainInv, Justified
<1>1. /\ Removing(r) /\ r \notin crossed /\ doomed'[r] = doomed[r] /\ stamp'[r] = stamp[r]
      /\ Justified(r)
  BY DEF RetainInv
<1>2. ASSUME NEW i \in DOMAIN doomed[r] PROVE Total(Left(r, i))' = Total(Left(r, i))
  <2>1. Left(r, i)' = Left(r, i)
    BY <1>1 DEF Left, Newer
  <2>. QED BY <2>1, TotalOfLeft, TotalIsSum
<1>3. \A i \in DOMAIN doomed[r] : Expired(doomed[r][i], stamp[r])' = Expired(doomed[r][i], stamp[r])
  BY <1>1 DEF Expired
<1>. QED BY <1>1, <1>2, <1>3 DEF Justified

LEMMA ListRetain == ASSUME Inv, RetainInv, NEW q \in Request, List(q) PROVE RetainInv'
<1>0. /\ row' = row /\ stamp' = stamp /\ step[q] = "listing" /\ step' = [step EXCEPT ![q] = "pruning"]
      /\ step \in [Request -> Stage]
  BY DEF List, Inv, TypeOK
<1>1. PICK past \in SUBSET Rows, g \in Seq(Backup), active \in Seq(Backup),
           list \in Seq(Backup), n \in Nat :
        Lists(q, past, g, active, list, n) /\ doomed' = [doomed EXCEPT ![q] = list]
  BY Listing
<1>2. doomed'[q] = list
  BY <1>1 DEF Inv, TypeOK
<1>3. SUFFICES ASSUME NEW r \in Request, Removing(r)', r \notin crossed' PROVE Justified(r)'
  BY DEF RetainInv, Justified
<1> DEFINE others == {x \in Request \ {q} : Pruning(x) /\ step[x] # "listing"}
<1>4. \A x \in Request \ {q} : Removing(x) => x \in others
  BY DEF Pruning, Removing
<1>5. \A x \in Request \ {q} : Removing(x)' <=> Removing(x)
  BY <1>0, <1>1 DEF Removing, Inv, TypeOK
<1>6. others # {} => crossed' = crossed \cup others \cup {q}
  BY DEF List
<1> HIDE DEF others
<1>7. r = q /\ \A x \in Request \ {q} : ~Removing(x)'
  <2>1. CASE r = q
    BY <1>3, <1>4, <1>5, <1>6, <2>1
  <2>2. CASE r # q
    BY <1>3, <1>4, <1>5, <1>6, <2>2
  <2>. QED BY <2>1, <2>2
<1>8. ASSUME NEW i \in DOMAIN list
      PROVE  Expired(list[i], stamp[q]) \/ Total(Left(q, i))' > Quota
  <2>1. /\ Len(g) \in Nat /\ Len(active) \in Nat /\ n <= Len(active)
        /\ DOMAIN g = 1 .. Len(g) /\ DOMAIN active = 1 .. Len(active)
        /\ DOMAIN list = 1 .. Len(g) + n
    BY <1>1, LenProperties DEF Lists
  <2>2. CASE i \in 1 .. Len(g)
    BY <1>1, <2>1, <2>2 DEF Lists, ToSet
  <2>3. CASE i \notin 1 .. Len(g)
    <3> DEFINE k == i - Len(g)
               S == {active[j] : j \in (k - 1) + 1 .. Len(active)}
    <3>1. k \in 1 .. n /\ i = Len(g) + k /\ k - 1 \in 0 .. n - 1 /\ (k - 1) + 1 = k
      BY <2>1, <2>3
    <3>2. list[i] = active[k] /\ Total(S) > Quota
      BY <1>1, <3>1 DEF Lists, Excess
    <3> HIDE DEF k
    <3>3. Left(q, i)' = Newer(active[k]) \ {list[m] : m \in 1 .. i - 1}
      BY <1>0, <1>2, <3>2 DEF Left, Newer
    <3>4. ASSUME NEW j \in k .. Len(active)
          PROVE  active[j] \in Newer(active[k]) /\ active[j] \notin {list[m] : m \in 1 .. i - 1}
      <4>1. j \in 1 .. Len(active) /\ k \in 1 .. Len(active)
        BY SMTT(30), <2>1, <3>1
      <4>2. active[j] \in Rows \ past /\ active[k] \in Rows \ past
        BY <1>1, <2>1, <4>1 DEF Lists, ToSet
      <4>3. row[active[j]].at >= row[active[k]].at
        <5>1. row[active[j]].at \in Nat /\ row[active[k]].at \in Nat
          BY <4>2 DEF Inv, TypeOK, Row
        <5>2. CASE j = k
          BY <5>1, <5>2
        <5>3. CASE j # k
          <6>1. k < j
            BY <3>1, <5>3, <4>1
          <6>2. Older(active[k], active[j])
            BY <1>1, <2>1, <4>1, <6>1 DEF Lists
          <6>. QED BY <5>1, <6>2 DEF Older
        <5>. QED BY <5>2, <5>3
      <4>4. ASSUME NEW m \in 1 .. i - 1 PROVE list[m] # active[j]
        <5>1. CASE m <= Len(g)
          <6>1. m \in 1 .. Len(g)
            BY <2>1, <5>1
          <6>2. list[m] = g[m] /\ g[m] \in ToSet(g) /\ ToSet(g) = past
            BY <1>1, <2>1, <6>1 DEF Lists, ToSet
          <6>. QED BY <4>2, <6>2
        <5>2. CASE ~(m <= Len(g))
          <6>1. /\ m - Len(g) \in 1 .. n /\ m = Len(g) + (m - Len(g)) /\ m - Len(g) # j
                /\ m - Len(g) \in 1 .. Len(active)
            BY <2>1, <3>1, <5>2, <4>1
          <6>2. list[m] = active[m - Len(g)]
            BY <1>1, <6>1 DEF Lists
          <6>. QED BY <1>1, <2>1, <4>1, <6>1, <6>2 DEF Lists, Distinct
        <5>. QED BY <5>1, <5>2
      <4>. QED BY <4>2, <4>3, <4>4 DEF Newer
    <3>5. S \subseteq Left(q, i)'
      <4>1. ASSUME NEW y \in S PROVE \E j \in k .. Len(active) : y = active[j]
        BY <3>1
      <4> HIDE DEF S
      <4>. QED BY <3>3, <3>4, <4>1
    <3>6. Left(q, i)' \subseteq Rows
      BY <3>3 DEF Newer
    <3> HIDE DEF S
    <3>7. Total(S) \in Nat /\ Total(Left(q, i)') \in Nat /\ Total(S) <= Total(Left(q, i)')
      BY <3>5, <3>6, TotalOfPart
    <3>8. Total(Left(q, i))' = Total(Left(q, i)')
      BY <1>0, TotalOfLeft, TotalIsSum
    <3>. QED BY <3>2, <3>7, <3>8
  <2>. QED BY <2>2, <2>3
<1>9. \A b \in Backup : Expired(b, stamp[q])' = Expired(b, stamp[q])
  BY <1>0 DEF Expired
<1>10. \A i \in DOMAIN list : list[i] \in Backup
  BY <1>1, ElementOfSeq, LenProperties
<1>11. \A i \in DOMAIN list : Expired(doomed[q][i], stamp[q])' = Expired(list[i], stamp[q])
  BY <1>0, <1>2 DEF Expired
<1>. QED BY <1>2, <1>7, <1>8, <1>11 DEF Justified

LEMMA DeleteRowRetain ==
    ASSUME Inv, RetainInv, NEW q \in Request, DeleteRow(q)
    PROVE  RetainInv'
<1>1. /\ step[q] = "deleting" /\ step' = [step EXCEPT ![q] = "pruning"]
      /\ stamp' = stamp /\ crossed' = crossed /\ step \in [Request -> Stage]
  BY DEF DeleteRow, Inv, TypeOK
<1>2. SUFFICES ASSUME NEW r \in Request, Removing(r)', r \notin crossed' PROVE Justified(r)'
  BY DEF RetainInv, Justified
<1>3. /\ Removing(q) /\ Removing(r) /\ r \notin crossed /\ Justified(r)
      /\ \A x \in Request : Removing(x)' => Removing(x)
  <2>1. doomed[q] # <<>> /\ \A x \in Request \ {q} : doomed'[x] = doomed[x]
    BY DEF DeleteRow, Inv, TypeOK, Working
  <2>. QED BY <1>1, <1>2, <2>1 DEF Removing, RetainInv
<1>4. r = q /\ \A x \in Request \ {q} : ~Removing(x)'
  BY <1>3 DEF Justified
<1>5. CASE doomed'[q] = <<>>
  BY <1>4, <1>5 DEF Justified
<1>6. CASE doomed'[q] # <<>>
  <2> DEFINE h == Head(doomed[q])
  <2>1. /\ row' = [row EXCEPT ![h] = None] /\ doomed'[q] = Tail(doomed[q])
    BY <1>6 DEF DeleteRow, Inv, TypeOK
  <2>2. doomed[q] \in Seq(Backup) /\ doomed[q] # <<>> /\ h \in Backup
    BY <1>1, Popped DEF Inv, TypeOK, Working
  <2>3. /\ Len(doomed[q]) \in Nat /\ DOMAIN doomed[q] = 1 .. Len(doomed[q]) /\ h = doomed[q][1]
        /\ Len(doomed[q]) >= 1 /\ DOMAIN Tail(doomed[q]) = 1 .. Len(doomed[q]) - 1
        /\ \A i \in 1 .. Len(doomed[q]) - 1 : Tail(doomed[q])[i] = doomed[q][i + 1]
    BY <2>2, HeadTailProperties
  <2> HIDE DEF h
  <2>4. Rows' = Rows \ {h} /\ \A b \in Rows' : row'[b] = row[b]
    BY <2>1, <2>2 DEF Inv, TypeOK
  <2>5. ASSUME NEW i \in DOMAIN doomed'[q], doomed'[q][i] \in Rows'
        PROVE  Expired(doomed[q][i], stamp[q])' \/ Total(Left(q, i))' > Quota
    <3>1. /\ i \in 1 .. Len(doomed[q]) - 1 /\ i + 1 \in DOMAIN doomed[q] /\ i \in Nat
          /\ doomed'[q][i] = doomed[q][i + 1]
      BY <2>1, <2>3, <2>5
    <3>2. doomed[q][i + 1] \in Rows
      BY <2>4, <2>5, <3>1
    <3>3. CASE Expired(doomed[q][i + 1], stamp[q])
      BY <1>1, <2>4, <2>5, <3>1, <3>3 DEF Expired
    <3>4. CASE Total(Left(q, i + 1)) > Quota
      <4>1. Left(q, i)' = Left(q, i + 1)
        <5>1. Newer(doomed[q][i])' = Newer(doomed[q][i + 1]) \ {h}
          BY <2>4, <2>5, <3>1 DEF Newer
        <5>2. {doomed[q][j] : j \in 1 .. (i + 1) - 1} = {h} \cup {doomed'[q][j] : j \in 1 .. i - 1}
          <6>1. \A j \in 1 .. i - 1 : j + 1 \in 1 .. (i + 1) - 1 /\ doomed'[q][j] = doomed[q][j + 1]
            BY <2>1, <2>3, <3>1
          <6>2. \A j \in 1 .. (i + 1) - 1 : j = 1 \/ (j - 1 \in 1 .. i - 1 /\ doomed[q][j] = doomed'[q][j - 1])
            BY <2>1, <2>3, <3>1
          <6>3. 1 \in 1 .. (i + 1) - 1
            BY <3>1
          <6>4. ASSUME NEW x \in {doomed[q][j] : j \in 1 .. (i + 1) - 1}
                PROVE  x \in {h} \cup {doomed'[q][j] : j \in 1 .. i - 1}
            BY <2>3, <6>2
          <6>5. ASSUME NEW x \in {doomed'[q][j] : j \in 1 .. i - 1}
                PROVE  x \in {doomed[q][j] : j \in 1 .. (i + 1) - 1}
            BY <6>1
          <6>6. h \in {doomed[q][j] : j \in 1 .. (i + 1) - 1}
            BY <2>3, <6>3
          <6>. QED BY <6>4, <6>5, <6>6, Zenon
        <5>. QED BY <5>1, <5>2 DEF Left
      <4>2. Left(q, i + 1) \subseteq Rows'
        <5>1. h \in {doomed[q][j] : j \in 1 .. (i + 1) - 1}
          BY <2>3, <3>1
        <5>. QED BY <2>4, <5>1 DEF Left, Newer
      <4>3. SumOf(row', Left(q, i + 1)) = SumOf(row, Left(q, i + 1))
        <5>1. /\ IsFiniteSet(Left(q, i + 1)) /\ \A b \in Left(q, i + 1) : row[b].size \in Nat
              /\ \A b \in Left(q, i + 1) : row'[b].size = row[b].size
          BY <2>4, <4>2, Sizable, FS_Subset
        <5>. QED BY <5>1, SumAgrees
      <4>. QED BY <3>4, <4>1, <4>3, TotalOfLeft, TotalIsSum
    <3>. QED BY <1>3, <1>4, <3>1, <3>2, <3>3, <3>4 DEF Justified
  <2>. QED BY <1>4, <2>5 DEF Justified
<1>. QED BY <1>5, <1>6

LEMMA RecordRetain == ASSUME Inv, RetainInv, NEW q \in Request, Record(q) PROVE RetainInv'
<1> DEFINE m == made[q]
<1>1. /\ step[q] = "recording" /\ step' = [step EXCEPT ![q] = "listing"]
      /\ stamp' = stamp /\ crossed' = crossed /\ doomed' = doomed /\ step \in [Request -> Stage]
  BY DEF Record, Inv, TypeOK
<1>2. /\ m \in Backup /\ row[m] = None
      /\ \A r \in Request : m \notin ToSet(doomed[r])
  BY <1>1, Serving DEF Inv, Unlisted, Fresh
<1>3. /\ \A b \in Backup \ {m} : row'[b] = row[b]
      /\ m \in Rows' => row'[m].size \in Nat
  <2>1. PICK n \in Sizes : row' = [row EXCEPT ![m] =
           [site |-> ask[q].site, parts |-> ask[q].parts, size |-> n, at |-> stamp[q]]]
    BY DEF Record
  <2>. QED BY ZenonT(60), <1>2, <2>1 DEF Inv, TypeOK
<1> HIDE DEF m
<1>4. IsFiniteSet(Rows') /\ \A b \in Rows' : row'[b].size \in Nat
  <2>1. Rows' \subseteq Rows \cup {m}
    BY <1>3
  <2>2. IsFiniteSet(Rows \cup {m})
    BY Sizable, FS_AddElement
  <2>. QED BY <1>2, <1>3, <2>1, <2>2, Sizable, FS_Subset
<1>5. SUFFICES ASSUME NEW r \in Request, Removing(r)', r \notin crossed' PROVE Justified(r)'
  BY DEF RetainInv, Justified
<1>6. /\ Justified(r) /\ Removing(r) /\ r \notin crossed
      /\ \A x \in Request \ {r} : ~Removing(x)'
  BY <1>1, <1>5 DEF Removing, RetainInv, Justified
<1>7. ASSUME NEW i \in DOMAIN doomed[r], doomed[r][i] \in Rows'
      PROVE  Expired(doomed[r][i], stamp[r])' \/ Total(Left(r, i))' > Quota
  <2>1. doomed[r][i] \in Rows /\ doomed[r][i] # m /\ row'[doomed[r][i]] = row[doomed[r][i]]
    BY <1>2, <1>3, <1>7 DEF ToSet
  <2>2. CASE Expired(doomed[r][i], stamp[r])
    BY <1>1, <2>1, <2>2 DEF Expired
  <2>3. CASE Total(Left(r, i)) > Quota
    <3>1. \A b \in Left(r, i) : b \in Rows /\ b \in Rows' /\ b # m /\ row'[b] = row[b]
      BY <1>2, <1>3 DEF Left, Newer
    <3>2. Left(r, i) \subseteq Left(r, i)' /\ Left(r, i)' \subseteq Rows'
      BY <1>1, <2>1, <3>1 DEF Left, Newer
    <3>3. SumOf(row', Left(r, i)) = SumOf(row, Left(r, i))
      <4>1. IsFiniteSet(Left(r, i)) /\ \A b \in Left(r, i) : row[b].size \in Nat
        BY <3>1, Sizable, FS_Subset
      <4>. QED BY <3>1, <4>1, SumAgrees
    <3>4. IsFiniteSet(Left(r, i)') /\ \A b \in Left(r, i)' : row'[b].size \in Nat
      BY <1>4, <3>2, FS_Subset
    <3>5. SumOf(row', Left(r, i)) <= SumOf(row', Left(r, i)')
      BY <3>2, <3>4, SumMonotone
    <3>6. SumOf(row', Left(r, i)) \in Nat /\ SumOf(row', Left(r, i)') \in Nat
      BY <3>2, <3>4, SumOfParts
    <3>. QED BY <2>3, <3>3, <3>5, <3>6, TotalOfLeft, TotalIsSum
  <2>. QED BY <1>6, <2>1, <2>2, <2>3 DEF Justified
<1>. QED BY <1>1, <1>6, <1>7 DEF Justified

LEMMA DieRetain == ASSUME Die PROVE RetainInv'
  BY DEF Die, RetainInv, Justified, Removing

LEMMA BeginRetain == ASSUME Inv, RetainInv, NEW q \in Request, Begin(q) PROVE RetainInv'
  BY RetainKept DEF Begin, Removing

LEMMA ArchiveRetain == ASSUME Inv, RetainInv, NEW q \in Request, Archive(q) PROVE RetainInv'
  BY RetainKept DEF Archive, Removing

LEMMA ArchiveFailsRetain ==
    ASSUME Inv, RetainInv, NEW q \in Request, ArchiveFails(q)
    PROVE  RetainInv'
  BY RetainKept DEF ArchiveFails, Removing, Return

LEMMA ReadKeyRetain == ASSUME Inv, RetainInv, NEW q \in Request, ReadKey(q) PROVE RetainInv'
  BY RetainKept DEF ReadKey, Removing

LEMMA ReadKeyFailsRetain ==
    ASSUME Inv, RetainInv, NEW q \in Request, ReadKeyFails(q)
    PROVE  RetainInv'
  BY RetainKept DEF ReadKeyFails, Removing

LEMMA OpenKeyRetain == ASSUME Inv, RetainInv, NEW q \in Request, OpenKey(q) PROVE RetainInv'
  BY RetainKept DEF OpenKey, Removing

LEMMA WriteKeyRetain == ASSUME Inv, RetainInv, NEW q \in Request, WriteKey(q) PROVE RetainInv'
  BY RetainKept DEF WriteKey, Removing

LEMMA WriteKeyFailsRetain ==
    ASSUME Inv, RetainInv, NEW q \in Request, WriteKeyFails(q)
    PROVE  RetainInv'
  BY RetainKept DEF WriteKeyFails, Removing, Return

LEMMA EncryptRetain == ASSUME Inv, RetainInv, NEW q \in Request, Encrypt(q) PROVE RetainInv'
  BY RetainKept DEF Encrypt, Removing

LEMMA EncryptFailsRetain ==
    ASSUME Inv, RetainInv, NEW q \in Request, EncryptFails(q)
    PROVE  RetainInv'
  BY RetainKept DEF EncryptFails, Removing, Return

LEMMA RecordFailsRetain ==
    ASSUME Inv, RetainInv, NEW q \in Request, RecordFails(q)
    PROVE  RetainInv'
  BY RetainKept DEF RecordFails, Removing, Return

LEMMA ListFailsRetain ==
    ASSUME Inv, RetainInv, NEW q \in Request, ListFails(q)
    PROVE  RetainInv'
  BY RetainKept DEF ListFails, Removing, Inv, TypeOK

LEMMA RemoveFileRetain ==
    ASSUME Inv, RetainInv, NEW q \in Request, RemoveFile(q)
    PROVE  RetainInv'
  BY RetainKept DEF RemoveFile, Removing

LEMMA SavedRetain == ASSUME Inv, RetainInv, NEW q \in Request, Saved(q) PROVE RetainInv'
  BY RetainKept DEF Saved, Removing, Inv, TypeOK, Return

LEMMA DecryptRetain == ASSUME Inv, RetainInv, NEW q \in Request, Decrypt(q) PROVE RetainInv'
  BY RetainKept DEF Decrypt, Removing

LEMMA DecryptFailsRetain ==
    ASSUME Inv, RetainInv, NEW q \in Request, DecryptFails(q)
    PROVE  RetainInv'
  BY RetainKept DEF DecryptFails, Removing, Return

LEMMA UnpackRetain == ASSUME Inv, RetainInv, NEW q \in Request, Unpack(q) PROVE RetainInv'
  BY RetainKept DEF Unpack, Removing

LEMMA StagingFailsRetain ==
    ASSUME Inv, RetainInv, NEW q \in Request, StagingFails(q)
    PROVE  RetainInv'
  BY RetainKept DEF StagingFails, Removing, Return

LEMMA SetAsideRetain == ASSUME Inv, RetainInv, NEW q \in Request, SetAside(q) PROVE RetainInv'
  BY RetainKept DEF SetAside, Removing

LEMMA MoveInRetain == ASSUME Inv, RetainInv, NEW q \in Request, MoveIn(q) PROVE RetainInv'
  BY RetainKept DEF MoveIn, Removing

LEMMA MoveInFailsRetain ==
    ASSUME Inv, RetainInv, NEW q \in Request, MoveInFails(q)
    PROVE  RetainInv'
  BY RetainKept DEF MoveInFails, Removing

LEMMA MoveBackRetain == ASSUME Inv, RetainInv, NEW q \in Request, MoveBack(q) PROVE RetainInv'
  BY RetainKept DEF MoveBack, Removing, Return

LEMMA DropOldRetain == ASSUME Inv, RetainInv, NEW q \in Request, DropOld(q) PROVE RetainInv'
  BY RetainKept DEF DropOld, Removing

LEMMA ImportRetain == ASSUME Inv, RetainInv, NEW q \in Request, Import(q) PROVE RetainInv'
  BY RetainKept DEF Import, Removing

LEMMA FinishRetain == ASSUME Inv, RetainInv, NEW q \in Request, Finish(q) PROVE RetainInv'
  BY RetainKept DEF Finish, Removing, Return

\* Every step keeps the lists justified.
LEMMA RetainStep == Inv /\ RetainInv /\ [Next]_vars => RetainInv'
<1>. SUFFICES ASSUME Inv, RetainInv, [Next]_vars PROVE RetainInv'
  OBVIOUS
<1>1. ASSUME NEW q \in Request, Save(q) PROVE RetainInv'
  BY <1>1, BeginRetain, ArchiveRetain, ArchiveFailsRetain, ReadKeyRetain,
     ReadKeyFailsRetain, OpenKeyRetain, WriteKeyRetain, WriteKeyFailsRetain,
     EncryptRetain, EncryptFailsRetain, RecordRetain, RecordFailsRetain, ListRetain,
     ListFailsRetain, RemoveFileRetain, DeleteRowRetain, SavedRetain DEF Save
<1>2. ASSUME NEW q \in Request, Replace(q) PROVE RetainInv'
  BY <1>2, DieRetain, DecryptRetain, DecryptFailsRetain, UnpackRetain,
     StagingFailsRetain, SetAsideRetain, MoveInRetain, MoveInFailsRetain,
     MoveBackRetain, DropOldRetain, ImportRetain, FinishRetain DEF Replace,
     DecryptPanics
<1>3. Crash \/ Tick \/ UNCHANGED vars => RetainInv'
  BY DieRetain, RetainKept DEF Crash, Tick, vars, Removing
<1>. QED BY <1>1, <1>2, <1>3 DEF Next

\* Only RemoveFile takes away the file of a recorded backup, and what is next on a
\* list has expired or is in excess.
LEMMA RemovedIsDue ==
    ASSUME Inv, RetainInv, NEW b \in Rows, file[b] # None, file'[b] = None, [Next]_vars
    PROVE  \/ Expired(b, now) \/ Total({x \in Rows : row[x].at >= row[b].at}) > Quota
           \/ \E q \in crossed : doomed[q] # <<>> /\ b = Head(doomed[q])
<1>1. PICK q \in Request : RemoveFile(q) /\ b = Head(doomed[q])
  <2>1. b \in Backup
    OBVIOUS
  <2>2. ASSUME NEW q \in Request PROVE ~Encrypt(q) /\ ~EncryptFails(q)
    <3>1. ASSUME NEW f \in File PROVE file' # [file EXCEPT ![made[q]] = f]
      BY <2>1 DEF Inv, TypeOK
    <3>2. Encrypt(q) => [kept |-> taken[q].kept, key |-> key[q], whole |-> taken[q].whole] \in File
      BY Serving DEF Encrypt, File
    <3>3. EncryptFails(q) /\ key[q] \in Key => [kept |-> taken[q].kept, key |-> key[q], whole |-> FALSE] \in File
      BY Serving DEF EncryptFails, File
    <3>. QED BY <3>1, <3>2, <3>3 DEF Encrypt, EncryptFails
  <2>3. ASSUME NEW q \in Request, RecordFails(q) PROVE FALSE
    <3>1. row[made[q]] = None /\ file' \in {file, [file EXCEPT ![made[q]] = None]}
      BY <2>3 DEF RecordFails, Inv, Unlisted, Fresh
    <3>. QED BY <2>1, <3>1 DEF Inv, TypeOK
  <2>4. ASSUME NEW q \in Request, RemoveFile(q) PROVE b = Head(doomed[q])
    BY <2>1, <2>4 DEF RemoveFile, Inv, TypeOK
  <2>5. file' # file
    OBVIOUS
  <2>6. ASSUME NEW q \in Request, Save(q) PROVE RemoveFile(q)
    BY <2>2, <2>3, <2>5, <2>6 DEF Save, Begin, Archive, ArchiveFails, ReadKey,
       ReadKeyFails, OpenKey, WriteKey, WriteKeyFails, Record, List, ListFails,
       DeleteRow, Saved
  <2>7. ASSUME NEW q \in Request PROVE ~Replace(q)
    BY <2>5 DEF Replace, Decrypt, DecryptFails, DecryptPanics, Unpack, StagingFails,
       SetAside, MoveIn, MoveInFails, MoveBack, DropOld, Import, Finish, Die
  <2>8. ~(Crash \/ Tick \/ UNCHANGED vars)
    BY <2>5 DEF Crash, Die, Tick, vars
  <2>. QED BY <2>4, <2>6, <2>7, <2>8 DEF Next
<1>2. /\ Removing(q) /\ doomed[q] # <<>> /\ doomed[q] \in Seq(Backup)
      /\ stamp[q] <= now /\ stamp[q] \in Nat /\ now \in Nat /\ row[b].at \in Nat
  BY <1>1 DEF RemoveFile, Removing, Inv, TypeOK, Working, Row
<1>3. 1 \in DOMAIN doomed[q] /\ b = doomed[q][1]
  BY <1>1, <1>2, HeadTailProperties
<1>4. CASE q \in crossed
  BY <1>1, <1>2, <1>4
<1>5. CASE q \notin crossed
  <2>1. Expired(b, stamp[q]) \/ Total(Left(q, 1)) > Quota
    BY <1>2, <1>3, <1>5 DEF RetainInv, Justified
  <2>2. Left(q, 1) = Newer(b)
    BY <1>3 DEF Left
  <2>3. Expired(b, stamp[q]) => Expired(b, now)
    BY <1>2 DEF Expired
  <2>. QED BY <2>1, <2>2, <2>3 DEF Newer
<1>. QED BY <1>4, <1>5

\* The file of a recorded backup is removed only if it has expired or is in excess,
\* except by a retention another one overlapped.
THEOREM RetentionOnlyHolds == Spec => RetentionOnly
<1>1. Init => RetainInv
  BY DEF Init, RetainInv, Justified, Removing
<1>2. ASSUME Inv, RetainInv, [Next]_vars
      PROVE  \A b \in Rows : file[b] # None /\ file'[b] = None =>
                \/ Expired(b, now) \/ Total({x \in Rows : row[x].at >= row[b].at}) > Quota
                \/ \E q \in crossed : doomed[q] # <<>> /\ b = Head(doomed[q])
  BY <1>2, RemovedIsDue
<1>. QED BY <1>1, <1>2, InitInv, StepInv, RetainStep, PTL DEF Spec, RetentionOnly
=============================================================================
