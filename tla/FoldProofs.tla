------------------------------ MODULE FoldProofs ------------------------------
(***************************************************************************)
(* Lemmas on folds, for the proofs about what the models compute with      *)
(* them: a fold takes one element after the other off a set until none is  *)
(* left; FoldLeft takes the largest position of a sequence.  What the two  *)
(* algorithms on port ranges compute is proved here, for every list, and   *)
(* that a sum over a finite set is one.                                    *)
(***************************************************************************)
EXTENDS Integers, Sequences, FiniteSetsExt, Ranges, WellFoundedInduction,
        FiniteSetTheorems, TLAPS

-----------------------------------------------------------------------------
(* Positions.                                                              *)

(* Induction on the naturals, for a set that is given as a set.            *)
LEMMA SetInduction ==
  ASSUME NEW B \in SUBSET Nat, 0 \in B, \A k \in B : k + 1 \in B
  PROVE  B = Nat
<1>1. SUFFICES ASSUME Nat \ B # {} PROVE FALSE
  OBVIOUS
<1>2. PICK x \in Nat \ B : \A y \in Nat \ B : ~ (<<y, x>> \in OpToRel(<, Nat))
  <2>1. IsWellFoundedOn(OpToRel(<, Nat), Nat)
    BY NatLessThanWellFounded
  <2> QED BY <1>1, <2>1, WFMin
<1>3. x \in Nat /\ x \notin B /\ x # 0
  OBVIOUS
<1>4. x - 1 \in Nat /\ x - 1 < x /\ (x - 1) + 1 = x
  BY <1>3
<1>5. x - 1 \in B
  BY <1>2, <1>4 DEF OpToRel
<1>6. (x - 1) + 1 \in B
  BY <1>5
<1> QED BY <1>3, <1>4, <1>6

(* The largest position of a non-empty set of positions.                   *)
LEMMA LastPosition ==
  ASSUME NEW k \in Nat, NEW s \in SUBSET (1..k), s # {}
  PROVE  Max(s) \in s /\ \A x \in s : x <= Max(s)
<1> DEFINE B == {j \in Nat : \A t \in SUBSET (1..j) :
                   t # {} => \E x \in t : \A y \in t : x >= y}
<1>1. 0 \in B
  <2>1. 1..0 = {}
    OBVIOUS
  <2>2. \A t \in SUBSET (1..0) : t = {}
    BY <2>1
  <2> QED BY <2>2
<1>2. ASSUME NEW j \in B PROVE j + 1 \in B
  <2>1. SUFFICES ASSUME NEW t \in SUBSET (1..(j + 1)), t # {}
                 PROVE  \E x \in t : \A y \in t : x >= y
    OBVIOUS
  <2>2. CASE j + 1 \in t
    BY <2>2, <1>2
  <2>3. CASE j + 1 \notin t
    <3>1. t \in SUBSET (1..j)
      BY <2>3, <1>2
    <3> QED BY <3>1, <2>1, <1>2
  <2> QED BY <2>2, <2>3
<1>3. B = Nat
  <2> HIDE DEF B
  <2>1. B \in SUBSET Nat
    BY DEF B
  <2> QED BY <1>1, <1>2, <2>1, SetInduction
<1>4. \E x \in s : \A y \in s : x >= y
  BY <1>3
<1>5. Max(s) \in s /\ \A y \in s : Max(s) >= y
  BY <1>4 DEF Max
<1> QED BY <1>5

LEMMA LastOfInterval ==
  ASSUME NEW k \in Nat
  PROVE  /\ Max(1..(k + 1)) = k + 1
         /\ (1..(k + 1)) \ {k + 1} = 1..k
<1>1. Max(1..(k + 1)) \in 1..(k + 1) /\ k + 1 <= Max(1..(k + 1))
  BY LastPosition, k + 1 \in Nat, k + 1 \in 1..(k + 1)
<1> QED BY <1>1

(* What is left of a set of positions without its largest.                 *)
LEMMA WithoutLast ==
  ASSUME NEW k \in Nat, NEW s \in SUBSET (1..(k + 1)), s # {}
  PROVE  s \ {Max(s)} \in SUBSET (1..k)
<1>1. Max(s) \in s /\ \A x \in s : x <= Max(s)
  BY LastPosition, k + 1 \in Nat
<1>2. SUFFICES ASSUME NEW x \in s \ {Max(s)} PROVE x \in 1..k
  OBVIOUS
<1>3. x <= Max(s) /\ x # Max(s) /\ x \in 1..(k + 1) /\ Max(s) \in 1..(k + 1)
  BY <1>1
<1> QED BY <1>3

-----------------------------------------------------------------------------
(* Any fold of values in a set Y, over a finite set S: `choice' takes an   *)
(* element off a set, `step' says what it adds.                            *)

LEMMA OneOff ==
  ASSUME NEW s, IsFiniteSet(s), NEW x \in s, NEW n \in Nat, Cardinality(s) <= n + 1
  PROVE  Cardinality(s \ {x}) <= n /\ Cardinality(s \ {x}) \in Nat
<1>1. IsFiniteSet(s \ {x}) /\ Cardinality(s \ {x}) = Cardinality(s) - 1
  BY FS_RemoveElement
<1>2. Cardinality(s) \in Nat /\ Cardinality(s \ {x}) \in Nat
  BY <1>1, FS_CardinalityType
<1> QED
  BY <1>1, <1>2

LEMMA NoneLeft ==
  ASSUME NEW s, IsFiniteSet(s), Cardinality(s) <= 0
  PROVE  s = {}
BY FS_EmptySet, FS_CardinalityType

(* The subsets of S with at most n elements.                               *)
UpTo(S, n) == {s \in SUBSET S : Cardinality(s) <= n}

FoldsOver(f, F, base, choice, step) ==
  f = [s \in F |-> IF s = {} THEN base ELSE step[choice[s]][f[s \ {choice[s]}]]]

LEMMA UpToStep ==
  ASSUME NEW S, IsFiniteSet(S), NEW n \in Nat
  PROVE  /\ \A s \in UpTo(S, n) : s \in UpTo(S, n + 1)
         /\ \A s \in UpTo(S, n + 1) : \A x \in s : s \ {x} \in UpTo(S, n)
         /\ \A s \in UpTo(S, 0) : s = {}
         /\ UpTo(S, Cardinality(S)) = SUBSET S
<1>1. \A s \in SUBSET S : IsFiniteSet(s) /\ Cardinality(s) \in Nat /\ Cardinality(s) <= Cardinality(S)
  BY FS_Subset, FS_CardinalityType
<1>2. \A s \in UpTo(S, n) : s \in UpTo(S, n + 1)
  BY <1>1 DEF UpTo
<1>3. \A s \in UpTo(S, n + 1) : \A x \in s : s \ {x} \in UpTo(S, n)
  BY <1>1, OneOff DEF UpTo
<1>4. \A s \in UpTo(S, 0) : s = {}
  BY <1>1, NoneLeft DEF UpTo
<1>5. UpTo(S, Cardinality(S)) = SUBSET S
  BY <1>1 DEF UpTo
<1> QED
  BY <1>2, <1>3, <1>4, <1>5

LEMMA FoldExists ==
  ASSUME NEW S, IsFiniteSet(S), NEW base, NEW choice, NEW step,
         \A s \in SUBSET S : s # {} => choice[s] \in s
  PROVE  \E f : FoldsOver(f, SUBSET S, base, choice, step)
<1> DEFINE B == {n \in Nat : \E f : FoldsOver(f, UpTo(S, n), base, choice, step)}
<1>1. 0 \in B
  <2> DEFINE f == [s \in UpTo(S, 0) |-> base]
  <2>1. FoldsOver(f, UpTo(S, 0), base, choice, step)
    BY UpToStep DEF FoldsOver
  <2> QED
    BY <2>1
<1>2. ASSUME NEW n \in B
      PROVE  n + 1 \in B
  <2> PICK f : FoldsOver(f, UpTo(S, n), base, choice, step)
    BY <1>2
  <2> DEFINE Value(s) == IF s = {} THEN base ELSE step[choice[s]][f[s \ {choice[s]}]]
             g == [s \in UpTo(S, n + 1) |-> Value(s)]
  <2>1. \A s \in UpTo(S, n) : s \in UpTo(S, n + 1) /\ g[s] = f[s]
    BY UpToStep DEF FoldsOver
  <2>2. \A s \in UpTo(S, n + 1) : s # {} => s \ {choice[s]} \in UpTo(S, n)
    <3> SUFFICES ASSUME NEW s \in UpTo(S, n + 1), s # {}
                 PROVE  s \ {choice[s]} \in UpTo(S, n)
      OBVIOUS
    <3>1. choice[s] \in s
      BY DEF UpTo
    <3> QED
      BY <3>1, UpToStep
  <2>3. \A s \in UpTo(S, n + 1) : s # {} => g[s \ {choice[s]}] = f[s \ {choice[s]}]
    BY <2>1, <2>2
  <2>4. /\ g = [s \in UpTo(S, n + 1) |-> g[s]]
        /\ \A s \in UpTo(S, n + 1) : g[s] = Value(s)
    OBVIOUS
  <2> HIDE DEF g
  <2>5. FoldsOver(g, UpTo(S, n + 1), base, choice, step)
    BY <2>3, <2>4 DEF FoldsOver
  <2> QED
    BY <2>5
<1>3. B \in SUBSET Nat
  OBVIOUS
<1> HIDE DEF B
<1>4. B = Nat
  BY <1>1, <1>2, <1>3, SetInduction
<1>5. Cardinality(S) \in B
  BY <1>4, FS_CardinalityType
<1>6. UpTo(S, Cardinality(S)) = SUBSET S
  BY FS_CardinalityType, UpToStep
<1>7. PICK f : FoldsOver(f, UpTo(S, Cardinality(S)), base, choice, step)
  BY <1>5 DEF B
<1> QED
  BY <1>6, <1>7

(* The values of the fold stay in Y.                                       *)
LEMMA FoldIn ==
  ASSUME NEW S, IsFiniteSet(S), NEW Y, NEW base \in Y,
         NEW choice, \A s \in SUBSET S : s # {} => choice[s] \in s,
         NEW step \in [S -> [Y -> Y]], NEW f, FoldsOver(f, SUBSET S, base, choice, step)
  PROVE  f \in [SUBSET S -> Y]
<1> DEFINE B == {n \in Nat : \A s \in UpTo(S, n) : f[s] \in Y}
<1>1. f[{}] \in Y
  BY DEF FoldsOver
<1>2. 0 \in B
  BY <1>1, UpToStep
<1>3. ASSUME NEW n \in B
      PROVE  n + 1 \in B
  <2>0. n \in Nat /\ n + 1 \in Nat /\ \A s \in UpTo(S, n) : f[s] \in Y
    OBVIOUS
  <2> SUFFICES ASSUME NEW s \in UpTo(S, n + 1), s # {}
               PROVE  f[s] \in Y
    BY <1>1, <2>0
  <2>1. s \in SUBSET S /\ choice[s] \in s
    BY DEF UpTo
  <2>2. f[s \ {choice[s]}] \in Y
    BY <2>0, <2>1, UpToStep
  <2>3. f[s] = step[choice[s]][f[s \ {choice[s]}]]
    BY <2>1 DEF FoldsOver
  <2> QED
    BY <2>1, <2>2, <2>3
<1>4. B \in SUBSET Nat
  OBVIOUS
<1> HIDE DEF B
<1>5. B = Nat
  BY <1>2, <1>3, <1>4, SetInduction
<1>6. Cardinality(S) \in B /\ UpTo(S, Cardinality(S)) = SUBSET S
  BY <1>5, FS_CardinalityType, UpToStep
<1>7. \A s \in SUBSET S : f[s] \in Y
  BY <1>6 DEF B
<1> QED
  BY <1>7 DEF FoldsOver

-----------------------------------------------------------------------------
(* FoldLeft, whose values stay in Y: step[k] is what the k-th element adds. *)

LEMMA Prefix ==
  ASSUME NEW n \in Nat, NEW k \in 1..n
  PROVE  1..k \in SUBSET (1..n) /\ 1..k # {} /\ Max(1..k) = k
<1>1. k - 1 \in Nat /\ (k - 1) + 1 = k
  OBVIOUS
<1>2. Max(1..k) = k
  BY <1>1, LastOfInterval
<1>3. k \in 1..k /\ 1..k \in SUBSET (1..n)
  OBVIOUS
<1> QED
  BY <1>2, <1>3

FoldsList(f, n, Y, base, step) ==
  /\ f \in [SUBSET (1..n) -> Y]
  /\ \A s \in SUBSET (1..n) :
       f[s] = IF s = {} THEN base ELSE step[Max(s)][f[s \ {Max(s)}]]

LEMMA ListFold ==
  ASSUME NEW n \in Nat, NEW Y, NEW base \in Y, NEW step \in [1..n -> [Y -> Y]]
  PROVE  \E f : FoldsList(f, n, Y, base, step)
<1> DEFINE choice == [s \in SUBSET (1..n) |-> Max(s)]
<1>1. IsFiniteSet(1..n)
  BY FS_Interval
<1>2. \A s \in SUBSET (1..n) : s # {} => choice[s] \in s
  BY LastPosition
<1>3. \A s \in SUBSET (1..n) : choice[s] = Max(s)
  OBVIOUS
<1> HIDE DEF choice
<1>4. PICK f : FoldsOver(f, SUBSET (1..n), base, choice, step)
  BY <1>1, <1>2, FoldExists
<1>5. f \in [SUBSET (1..n) -> Y]
  BY <1>1, <1>2, <1>4, FoldIn
<1>6. \A s \in SUBSET (1..n) :
        f[s] = IF s = {} THEN base ELSE step[Max(s)][f[s \ {Max(s)}]]
  BY <1>3, <1>4 DEF FoldsOver
<1>7. FoldsList(f, n, Y, base, step)
  BY <1>5, <1>6 DEF FoldsList
<1> QED
  BY <1>7

(* A property of the fold's values along the list.                         *)
LEMMA ListInduction ==
  ASSUME NEW n \in Nat, NEW it, NEW Y, it[{}] \in Y,
         \A k \in 1..n : it[(1..k) \ {k}] \in Y => it[1..k] \in Y
  PROVE  it[1..n] \in Y
<1> DEFINE B == {k \in Nat : k <= n => it[1..k] \in Y}
<1>1. 0 \in B
  <2>1. 1..0 = {}
    OBVIOUS
  <2> QED
    BY <2>1
<1>2. ASSUME NEW k \in B
      PROVE  k + 1 \in B
  <2>1. k \in Nat /\ k + 1 \in Nat /\ (k <= n => it[1..k] \in Y)
    OBVIOUS
  <2>2. (1..(k + 1)) \ {k + 1} = 1..k
    BY <2>1, LastOfInterval
  <2>3. k + 1 <= n => it[1..(k + 1)] \in Y
    <3> SUFFICES ASSUME k + 1 <= n
                 PROVE  it[1..(k + 1)] \in Y
      OBVIOUS
    <3>1. k + 1 \in 1..n /\ k <= n
      BY <2>1
    <3>2. it[(1..(k + 1)) \ {k + 1}] \in Y
      BY <2>1, <2>2, <3>1
    <3> QED
      BY <3>1, <3>2
  <2> QED
    BY <2>1, <2>3
<1>3. B \in SUBSET Nat
  OBVIOUS
<1> HIDE DEF B
<1>4. B = Nat
  BY <1>1, <1>2, <1>3, SetInduction
<1>5. n \in B
  BY <1>4
<1> QED
  BY <1>5 DEF B

(* The values of the fold along the list.                                  *)
Along(it, n) == [k \in 0..n |-> it[1..k]]

IsAlong(t, it, n) ==
  /\ t[0] = it[{}] /\ t[n] = it[1..n]
  /\ \A k \in 1..n : t[k] = it[1..k] /\ t[k - 1] = it[(1..k) \ {k}]

LEMMA AlongIs ==
  ASSUME NEW n \in Nat, NEW it
  PROVE  IsAlong(Along(it, n), it, n)
<1>1. 1..0 = {}
  OBVIOUS
<1>2. \A k \in 0..n : Along(it, n)[k] = it[1..k]
  BY DEF Along
<1>3. Along(it, n)[0] = it[{}] /\ Along(it, n)[n] = it[1..n]
  BY <1>1, <1>2, 0 \in 0..n, n \in 0..n
<1>4. ASSUME NEW k \in 1..n
      PROVE  Along(it, n)[k] = it[1..k] /\ Along(it, n)[k - 1] = it[(1..k) \ {k}]
  <2>1. k \in 0..n /\ k - 1 \in 0..n /\ (1..k) \ {k} = 1..(k - 1)
    OBVIOUS
  <2> QED
    BY <1>2, <2>1
<1> QED
  BY <1>3, <1>4 DEF IsAlong

-----------------------------------------------------------------------------
(* merge_port_ranges.                                                      *)

Pairs == Int \X Int

(* Ranges as a request lists them.                                         *)
Specified == {r \in Pairs : r[1] <= r[2]}

Lies(n, r) == r[1] <= n /\ n <= r[2]

(* m is what the ranges of s are merged to, taken in their order: it has   *)
(* the same ports, and a gap after each range but the last, which starts   *)
(* where one of s does.                                                    *)
Merged(m, s) ==
  /\ m \in Seq(Pairs)
  /\ \A n \in Int : (\E i \in 1..Len(m) : Lies(n, m[i])) <=> (\E r \in s : Lies(n, r))
  /\ m # <<>> => \E r \in s : m[Len(m)][1] = r[1]
  /\ \A i \in 1..(Len(m) - 1) : m[i][2] + 1 < m[i + 1][1]

LEMMA GreatestIn ==
  ASSUME NEW P, IsFiniteSet(P), P \subseteq Pairs, NEW s \in SUBSET P, s # {}
  PROVE  R!Greatest(s) \in s /\ \A q \in s : q[1] <= R!Greatest(s)[1]
<1> DEFINE Top(u, r) == r \in u /\ \A q \in u \ {r} : R!LexLess(q, r)
           B == {n \in Nat : \A u \in UpTo(P, n) : u # {} => \E r : Top(u, r)}
<1>1. 0 \in B
  BY UpToStep
<1>2. ASSUME NEW n \in B
      PROVE  n + 1 \in B
  <2>0. n \in Nat /\ n + 1 \in Nat /\ \A u \in UpTo(P, n) : u # {} => \E r : Top(u, r)
    OBVIOUS
  <2> SUFFICES ASSUME NEW u \in UpTo(P, n + 1), u # {}
               PROVE  \E r : Top(u, r)
    BY <2>0
  <2>1. PICK x : x \in u
    OBVIOUS
  <2>2. u \subseteq P /\ u \ {x} \in UpTo(P, n)
    BY <2>0, <2>1, UpToStep DEF UpTo
  <2>3. CASE u \ {x} = {}
    <3>1. Top(u, x)
      BY <2>1, <2>3
    <3> QED
      BY <3>1
  <2>4. CASE u \ {x} # {}
    <3>1. PICK r : Top(u \ {x}, r)
      BY <2>0, <2>2, <2>4
    <3>2. r \in Pairs /\ x \in Pairs /\ r # x /\ \A q \in u : q \in Pairs
      BY <2>1, <2>2, <3>1
    <3>3. CASE R!LexLess(x, r)
      <4>1. Top(u, r)
        BY <3>1, <3>3
      <4> QED
        BY <4>1
    <3>4. CASE ~R!LexLess(x, r)
      <4>1. R!LexLess(r, x)
        <5>1. r = <<r[1], r[2]>> /\ x = <<x[1], x[2]>>
              /\ r[1] \in Int /\ r[2] \in Int /\ x[1] \in Int /\ x[2] \in Int
          BY <3>2 DEF Pairs
        <5>2. r[1] # x[1] \/ r[2] # x[2]
          BY <3>2, <5>1
        <5> QED
          BY <3>4, <5>1, <5>2 DEF R!LexLess
      <4>2. ASSUME NEW q \in u \ {x}
            PROVE  R!LexLess(q, x)
        <5>1. CASE q = r
          BY <4>1, <5>1
        <5>2. CASE q # r
          <6>1. R!LexLess(q, r) /\ q \in Pairs
            BY <3>1, <3>2, <5>2
          <6> QED
            BY <3>2, <4>1, <6>1 DEF Pairs, R!LexLess
        <5> QED
          BY <5>1, <5>2
      <4>3. Top(u, x)
        BY <2>1, <4>2
      <4> QED
        BY <4>3
    <3> QED
      BY <3>3, <3>4
  <2> QED
    BY <2>3, <2>4
<1>3. B \in SUBSET Nat
  OBVIOUS
<1> HIDE DEF B
<1>4. B = Nat
  BY <1>1, <1>2, <1>3, SetInduction
<1>5. Cardinality(P) \in B /\ UpTo(P, Cardinality(P)) = SUBSET P
  BY <1>4, FS_CardinalityType, UpToStep
<1>6. \E r : Top(s, r)
  BY <1>5 DEF B
<1>7. Top(s, R!Greatest(s))
  BY <1>6 DEF R!Greatest
<1>8. \A q \in s : q \in Pairs
  OBVIOUS
<1>9. \A q \in s : q[1] <= R!Greatest(s)[1]
  BY <1>7, <1>8 DEF R!LexLess, Pairs
<1> QED
  BY <1>7, <1>9

(* A range that starts no earlier than those before it.                    *)
LEMMA FuseStep ==
  ASSUME NEW s, s \subseteq Pairs, NEW m, Merged(m, s), NEW r \in Pairs,
         \A q \in s : q[1] <= r[1]
  PROVE  Merged(R!FuseInto(m, r), s \cup {r})
<1> DEFINE k == Len(m)
           last == m[k]
           w == R!FuseInto(m, r)
<1>1. m \in Seq(Pairs) /\ k \in Nat /\ r[1] \in Int /\ r[2] \in Int
      /\ \A i \in 1..k : m[i] \in Pairs /\ m[i][1] \in Int /\ m[i][2] \in Int
  BY DEF Merged, Pairs
<1>2. CASE m # <<>> /\ R!Touches(last, r)
  <2> DEFINE hi == IF r[2] > last[2] THEN r[2] ELSE last[2]
  <2>1. k >= 1 /\ last[1] \in Int /\ last[2] \in Int /\ hi \in Int
    BY <1>1, <1>2
  <2>2. last[1] <= r[1] /\ r[1] <= last[2] + 1
    BY <1>2 DEF Merged, R!Touches
  <2>3. w = [m EXCEPT ![k] = <<last[1], hi>>]
    BY <1>2 DEF R!FuseInto
  <2>4. hi >= r[2] /\ hi >= last[2] /\ (hi = r[2] \/ hi = last[2])
    BY <1>1, <2>1
  <2> HIDE DEF hi
  <2>5. /\ w \in Seq(Pairs) /\ Len(w) = k /\ w[k] = <<last[1], hi>>
        /\ \A i \in 1..k : i # k => w[i] = m[i]
    BY <1>1, <2>1, <2>3 DEF Pairs
  <2> HIDE DEF w
  <2>6. \A n \in Int : Lies(n, w[k]) <=> Lies(n, last) \/ Lies(n, r)
    BY <1>1, <2>1, <2>2, <2>4, <2>5 DEF Lies
  <2>7. ASSUME NEW n \in Int
        PROVE  (\E i \in 1..Len(w) : Lies(n, w[i])) <=> (\E q \in s \cup {r} : Lies(n, q))
    <3>1. (\E i \in 1..k : Lies(n, m[i])) <=> (\E q \in s : Lies(n, q))
      BY DEF Merged
    <3>2. (\E i \in 1..k : Lies(n, w[i])) <=> (\E i \in 1..k : Lies(n, m[i])) \/ Lies(n, r)
      <4>1. k \in 1..k
        BY <1>1, <2>1
      <4> HIDE DEF k
      <4> QED
        BY <2>5, <2>6, <4>1
    <3> QED
      BY <2>5, <3>1, <3>2
  <2>8. \E q \in s \cup {r} : w[Len(w)][1] = q[1]
    BY <1>2, <2>5 DEF Merged
  <2>9. \A i \in 1..(Len(w) - 1) : w[i][2] + 1 < w[i + 1][1]
    <3> SUFFICES ASSUME NEW i \in 1..(k - 1)
                 PROVE  w[i][2] + 1 < w[i + 1][1]
      BY <2>5
    <3>1. m[i][2] + 1 < m[i + 1][1]
      BY DEF Merged
    <3>2. i \in 1..k /\ i # k /\ i + 1 \in 1..k
      BY <1>1
    <3>3. w[i] = m[i] /\ w[i + 1][1] = m[i + 1][1]
      BY <2>5, <3>2
    <3> QED
      BY <3>1, <3>3
  <2> QED
    BY <2>5, <2>7, <2>8, <2>9 DEF Merged, w
<1>3. CASE ~(m # <<>> /\ R!Touches(last, r))
  <2>1. w = Append(m, r)
    BY <1>3 DEF R!FuseInto
  <2>2. /\ w \in Seq(Pairs) /\ Len(w) = k + 1 /\ w[k + 1] = r
        /\ \A i \in 1..k : w[i] = m[i]
    BY <1>1, <2>1
  <2> HIDE DEF w
  <2>3. ASSUME NEW n \in Int
        PROVE  (\E i \in 1..Len(w) : Lies(n, w[i])) <=> (\E q \in s \cup {r} : Lies(n, q))
    <3>1. (\E i \in 1..k : Lies(n, m[i])) <=> (\E q \in s : Lies(n, q))
      BY DEF Merged
    <3>2. \A i : i \in 1..(k + 1) <=> i \in 1..k \/ i = k + 1
      BY <1>1
    <3> QED
      BY <2>2, <3>1, <3>2
  <2>4. \E q \in s \cup {r} : w[Len(w)][1] = q[1]
    BY <2>2
  <2>5. \A i \in 1..(Len(w) - 1) : w[i][2] + 1 < w[i + 1][1]
    <3> SUFFICES ASSUME NEW i \in 1..k
                 PROVE  w[i][2] + 1 < w[i + 1][1]
      BY <1>1, <2>2
    <3>1. CASE i = k
      <4>1. last[2] + 1 < r[1]
        <5>1. m # <<>> /\ last[2] \in Int
          BY <1>1, <3>1
        <5> QED
          BY <1>1, <1>3, <5>1 DEF R!Touches
      <4> QED
        BY <2>2, <3>1, <4>1
    <3>2. CASE i # k
      <4>1. i \in 1..(k - 1) /\ i + 1 \in 1..k
        BY <1>1, <3>2
      <4>2. m[i][2] + 1 < m[i + 1][1]
        BY <4>1 DEF Merged
      <4> QED
        BY <2>2, <4>1, <4>2
    <3> QED
      BY <3>1, <3>2
  <2> QED
    BY <2>2, <2>3, <2>4, <2>5 DEF Merged, w
<1> QED
  BY <1>2, <1>3

(* Fusing ranges gives the minimal cover of the same ports.                *)
LEMMA MergeCovers ==
  ASSUME NEW P, IsFiniteSet(P), P \subseteq Pairs
  PROVE  Merged(R!Fuse(P), P)
<1> DEFINE Value(f, s) == IF s = {} THEN <<>> ELSE R!FuseInto(f[s \ {R!Greatest(s)}], R!Greatest(s))
           it == CHOOSE f : f = [s \in SUBSET P |-> Value(f, s)]
           choice == [s \in SUBSET P |-> R!Greatest(s)]
           step == [r \in P |-> [m \in Seq(Pairs) |-> R!FuseInto(m, r)]]
<1>1. \A s \in SUBSET P : s # {} => choice[s] \in s
  BY GreatestIn
<1>2. step \in [P -> [Seq(Pairs) -> Seq(Pairs)]]
  <2> SUFFICES ASSUME NEW r \in P, NEW m \in Seq(Pairs)
               PROVE  R!FuseInto(m, r) \in Seq(Pairs)
    OBVIOUS
  <2>1. r \in Pairs
    OBVIOUS
  <2>2. CASE m # <<>> /\ R!Touches(m[Len(m)], r)
    <3> DEFINE last == m[Len(m)]
               hi == IF r[2] > last[2] THEN r[2] ELSE last[2]
    <3>1. last \in Pairs
      BY <2>2
    <3>2. <<last[1], hi>> \in Pairs
      BY <2>1, <3>1 DEF Pairs
    <3>3. R!FuseInto(m, r) = [m EXCEPT ![Len(m)] = <<last[1], hi>>]
      BY <2>2 DEF R!FuseInto
    <3> HIDE DEF hi
    <3>4. Len(m) \in 1..Len(m)
      BY <2>2
    <3> QED
      BY <3>2, <3>3, <3>4
  <2>3. CASE ~(m # <<>> /\ R!Touches(m[Len(m)], r))
    <3>1. R!FuseInto(m, r) = Append(m, r)
      BY <2>3 DEF R!FuseInto
    <3> QED
      BY <2>1, <3>1
  <2> QED
    BY <2>2, <2>3
<1>3. PICK f : FoldsOver(f, SUBSET P, <<>>, choice, step)
  BY <1>1, FoldExists
<1>4. f \in [SUBSET P -> Seq(Pairs)]
  <2>1. <<>> \in Seq(Pairs)
    OBVIOUS
  <2> HIDE DEF choice, step
  <2> QED
    BY <1>1, <1>2, <1>3, <2>1, FoldIn
<1>5. \A s \in SUBSET P : f[s] = Value(f, s)
  <2> SUFFICES ASSUME NEW s \in SUBSET P, s # {}
               PROVE  f[s] = R!FuseInto(f[s \ {R!Greatest(s)}], R!Greatest(s))
    BY <1>3 DEF FoldsOver
  <2>1. R!Greatest(s) \in P /\ f[s \ {R!Greatest(s)}] \in Seq(Pairs) /\ choice[s] = R!Greatest(s)
    BY <1>1, <1>4
  <2>2. f[s] = step[choice[s]][f[s \ {choice[s]}]]
    BY <1>3 DEF FoldsOver
  <2> QED
    BY <2>1, <2>2
<1> HIDE DEF choice, step, Value
<1>6. f = [s \in SUBSET P |-> Value(f, s)]
  BY <1>4, <1>5
<1>7. it = [s \in SUBSET P |-> Value(it, s)]
  BY <1>6
<1>8. R!Fuse(P) = it[P]
  BY DEF R!Fuse, R!MapThenFoldSet, Value
<1> HIDE DEF it
<1> DEFINE B == {n \in Nat : \A s \in UpTo(P, n) : Merged(it[s], s)}
<1>9. Merged(it[{}], {})
  <2>1. it[{}] = <<>>
    BY <1>7 DEF Value
  <2>2. Len(<<>>) = 0 /\ 1..0 = {} /\ 1..(0 - 1) = {} /\ <<>> \in Seq(Pairs)
    OBVIOUS
  <2> QED
    BY <2>1, <2>2 DEF Merged
<1>10. 0 \in B
  BY <1>9, UpToStep
<1>11. ASSUME NEW n \in B
       PROVE  n + 1 \in B
  <2>0. n \in Nat /\ n + 1 \in Nat /\ \A s \in UpTo(P, n) : Merged(it[s], s)
    OBVIOUS
  <2> SUFFICES ASSUME NEW s \in UpTo(P, n + 1), s # {}
               PROVE  Merged(it[s], s)
    BY <1>9, <2>0
  <2> DEFINE r == R!Greatest(s)
  <2>1. s \in SUBSET P
    BY DEF UpTo
  <2>2. r \in s /\ \A q \in s : q[1] <= r[1]
    BY <2>1, GreatestIn
  <2>3. it[s] = R!FuseInto(it[s \ {r}], r)
    BY <1>7, <2>1 DEF Value
  <2> HIDE DEF r
  <2>4. Merged(it[s \ {r}], s \ {r})
    BY <2>0, <2>2, UpToStep
  <2>5. s \ {r} \subseteq Pairs /\ r \in Pairs /\ (s \ {r}) \cup {r} = s
    BY <2>1, <2>2
  <2>6. Merged(R!FuseInto(it[s \ {r}], r), (s \ {r}) \cup {r})
    BY <2>2, <2>4, <2>5, FuseStep
  <2> QED
    BY <2>3, <2>5, <2>6
<1>12. B \in SUBSET Nat
  OBVIOUS
<1> HIDE DEF B
<1>13. B = Nat
  BY <1>10, <1>11, <1>12, SetInduction
<1>14. Cardinality(P) \in B /\ UpTo(P, Cardinality(P)) = SUBSET P
  BY <1>13, FS_CardinalityType, UpToStep
<1>15. Merged(it[P], P)
  BY <1>14 DEF B
<1> QED
  BY <1>8, <1>15

(* A list has finitely many elements.                                      *)
LEMMA ListedFinite ==
  ASSUME NEW S, NEW list \in Seq(S)
  PROVE  LET listed == {list[i] : i \in DOMAIN list}
         IN  IsFiniteSet(listed) /\ listed \subseteq S
<1> DEFINE listed == {list[i] : i \in DOMAIN list}
<1>1. IsFiniteSet(1..Len(list))
  BY FS_Interval
<1>2. list \in Surjection(1..Len(list), listed)
  BY DEF Surjection
<1>3. IsFiniteSet(listed)
  BY <1>1, <1>2, FS_Surjection
<1> QED
  BY <1>3

(* Ranges with the lower bound first are finitely many ranges again.       *)
LEMMA OrderedAre ==
  ASSUME NEW P, IsFiniteSet(P), P \subseteq Pairs
  PROVE  LET all == {R!Ordered(r) : r \in P} IN IsFiniteSet(all) /\ all \subseteq Pairs
<1> DEFINE all == {R!Ordered(r) : r \in P}
           order == [r \in P |-> R!Ordered(r)]
<1>1. order \in Surjection(P, all)
  BY DEF Surjection
<1>2. IsFiniteSet(all)
  BY <1>1, FS_Surjection
<1>3. ASSUME NEW r \in P
      PROVE  R!Ordered(r) \in Pairs
  BY DEF R!Ordered, Pairs
<1> QED
  BY <1>2, <1>3

(* merge_port_ranges raises if a range is out of bounds; otherwise its     *)
(* result is the minimal cover of the ranges.                              *)
LEMMA MergeIs ==
  ASSUME NEW P, IsFiniteSet(P), P \subseteq Pairs
  PROVE  /\ R!MergePortRanges(P) = {} <=> \E r \in P : ~R!InBounds(r)
         /\ \A m \in R!MergePortRanges(P) :
              /\ m \in Seq(Pairs)
              /\ \A i \in 1..(Len(m) - 1) : m[i][2] + 1 < m[i + 1][1]
              /\ \A n \in Int : (\E r \in R!ToSet(m) : Lies(n, r))
                                 <=> (\E r \in P : Lies(n, R!Ordered(r)))
<1> DEFINE all == {R!Ordered(r) : r \in P}
<1>1. Merged(R!Fuse(all), all)
  BY OrderedAre, MergeCovers
<1>2. R!MergePortRanges(P) = IF \A r \in P : R!InBounds(r) THEN {R!Fuse(all)} ELSE {}
  BY DEF R!MergePortRanges
<1>3. ASSUME NEW m \in R!MergePortRanges(P)
      PROVE  Merged(m, all)
  BY <1>1, <1>2
<1>4. \A n \in Int : (\E r \in all : Lies(n, r)) <=> (\E r \in P : Lies(n, R!Ordered(r)))
  OBVIOUS
<1> HIDE DEF all
<1>5. ASSUME NEW m \in R!MergePortRanges(P)
      PROVE  /\ m \in Seq(Pairs)
             /\ \A i \in 1..(Len(m) - 1) : m[i][2] + 1 < m[i + 1][1]
             /\ \A n \in Int : (\E r \in R!ToSet(m) : Lies(n, r))
                                <=> (\E r \in P : Lies(n, R!Ordered(r)))
  <2>1. m \in Seq(Pairs) /\ \A i \in 1..(Len(m) - 1) : m[i][2] + 1 < m[i + 1][1]
    BY <1>3, <1>5 DEF Merged
  <2>2. \A n \in Int : (\E i \in 1..Len(m) : Lies(n, m[i])) <=> (\E r \in all : Lies(n, r))
    BY <1>3, <1>5 DEF Merged
  <2>3. ASSUME NEW n \in Int
        PROVE  (\E i \in 1..Len(m) : Lies(n, m[i])) <=> (\E r \in R!ToSet(m) : Lies(n, r))
    BY <2>1 DEF R!ToSet
  <2> QED
    BY <1>4, <2>1, <2>2, <2>3
<1>6. R!MergePortRanges(P) = {} <=> \E r \in P : ~R!InBounds(r)
  BY <1>2
<1> QED
  BY <1>5, <1>6

(* Merging ranges of ports keeps what they cover.                          *)
LEMMA MergedCovers ==
  ASSUME NEW P, IsFiniteSet(P), P \subseteq Specified, \A r \in P : R!InBounds(r),
         NEW n \in Int
  PROVE  (\E r \in R!MergedRanges(P) : Lies(n, r)) <=> (\E r \in P : Lies(n, r))
<1>1. P \subseteq Pairs
  BY DEF Specified
<1>2. \A r \in P : R!Ordered(r) = r
  BY DEF Specified, Pairs, R!Ordered
<1>3. PICK m : R!MergePortRanges(P) = {m}
  BY DEF R!MergePortRanges
<1>4. R!MergedRanges(P) = R!ToSet(m)
  BY <1>3 DEF R!MergedRanges
<1>5. (\E r \in R!ToSet(m) : Lies(n, r)) <=> (\E r \in P : Lies(n, R!Ordered(r)))
  BY <1>1, <1>3, MergeIs
<1> QED
  BY <1>2, <1>4, <1>5

-----------------------------------------------------------------------------
(* Sums.                                                                   *)

(* An element more, an element less.                                       *)
LEMMA OneMore ==
  ASSUME NEW S, IsFiniteSet(S), NEW x, x \notin S
  PROVE  Cardinality(S \cup {x}) = Cardinality(S) + 1
BY FS_AddElement

LEMMA OneLess ==
  ASSUME NEW S, IsFiniteSet(S), NEW x \in S
  PROVE  Cardinality(S \ {x}) = Cardinality(S) - 1
BY FS_RemoveElement

(* Any element of a set that is not empty.                                 *)
Some(s) == CHOOSE x \in s : TRUE

LEMMA SomeElement ==
  ASSUME NEW s, s # {}
  PROVE  Some(s) \in s
BY DEF Some

(* The partial sums of w, over the subsets of S with at most n elements.   *)
Family(S, n) == {s \in SUBSET S : Cardinality(s) <= n}

SumsOf(f, w, F) ==
  f = [s \in F |-> IF s = {} THEN 0 ELSE w[CHOOSE x \in s : TRUE] + f[s \ {CHOOSE x \in s : TRUE}]]

LEMMA SumsExist ==
  ASSUME NEW S, IsFiniteSet(S), NEW w
  PROVE  \E f : SumsOf(f, w, SUBSET S)
<1> DEFINE B == {n \in Nat : \E f : SumsOf(f, w, Family(S, n))}
<1>1. 0 \in B
  <2> DEFINE f == [s \in Family(S, 0) |-> 0]
  <2>1. \A s \in Family(S, 0) : s = {}
    <3> SUFFICES ASSUME NEW s \in SUBSET S, Cardinality(s) <= 0
                 PROVE  s = {}
      BY DEF Family
    <3> QED
      BY FS_Subset, FS_CardinalityType, FS_EmptySet
  <2>2. SumsOf(f, w, Family(S, 0))
    BY <2>1 DEF SumsOf
  <2> QED
    BY <2>2
<1>2. ASSUME NEW n \in B
      PROVE  n + 1 \in B
  <2> PICK f : SumsOf(f, w, Family(S, n))
    BY <1>2
  <2> DEFINE g == [s \in Family(S, n + 1) |->
                     IF s = {} THEN 0 ELSE w[CHOOSE x \in s : TRUE] + f[s \ {CHOOSE x \in s : TRUE}]]
  <2>1. \A s \in Family(S, n) : s \in Family(S, n + 1) /\ g[s] = f[s]
    <3>1. \A s \in Family(S, n) : s \in Family(S, n + 1)
      <4> SUFFICES ASSUME NEW s \in SUBSET S, Cardinality(s) <= n
                   PROVE  Cardinality(s) <= n + 1
        BY DEF Family
      <4>1. Cardinality(s) \in Nat
        BY FS_Subset, FS_CardinalityType
      <4> QED
        BY <4>1
    <3> QED
      BY <3>1 DEF SumsOf
  <2>2. \A s \in Family(S, n + 1) : s # {} => s \ {CHOOSE x \in s : TRUE} \in Family(S, n)
    <3> SUFFICES ASSUME NEW s \in SUBSET S, Cardinality(s) <= n + 1, s # {}
                 PROVE  Cardinality(s \ {Some(s)}) <= n
      BY DEF Family, Some
    <3>1. IsFiniteSet(s) /\ Cardinality(s) \in Nat
      BY FS_Subset, FS_CardinalityType
    <3>2. Cardinality(s \ {Some(s)}) = Cardinality(s) - 1
      BY <3>1, SomeElement, OneLess
    <3> QED
      BY <3>1, <3>2
  <2>3. \A s \in Family(S, n + 1) :
          s # {} => g[s \ {CHOOSE x \in s : TRUE}] = f[s \ {CHOOSE x \in s : TRUE}]
    BY <2>1, <2>2
  <2>4. /\ g = [s \in Family(S, n + 1) |-> g[s]]
        /\ \A s \in Family(S, n + 1) :
             g[s] = IF s = {} THEN 0
                    ELSE w[CHOOSE x \in s : TRUE] + f[s \ {CHOOSE x \in s : TRUE}]
    OBVIOUS
  <2> HIDE DEF g
  <2>5. SumsOf(g, w, Family(S, n + 1))
    BY <2>3, <2>4 DEF SumsOf
  <2> QED
    BY <2>5
<1>3. B \in SUBSET Nat
  OBVIOUS
<1> HIDE DEF B
<1>4. B = Nat
  BY <1>1, <1>2, <1>3, SetInduction
<1>5. Cardinality(S) \in B
  BY <1>4, FS_CardinalityType
<1>6. Family(S, Cardinality(S)) = SUBSET S
  BY FS_Subset DEF Family
<1> QED
  BY <1>5, <1>6 DEF B

(* x is the sum of w over S.                                               *)
HasSum(w, S, x) == \E f : SumsOf(f, w, SUBSET S) /\ f[S] = x

-----------------------------------------------------------------------------
(* shard_ports.                                                            *)

LEMMA CountType ==
  ASSUME NEW r \in Pairs
  PROVE  R!CountPorts(r) \in Int
BY DEF Pairs, R!CountPorts

LEMMA SameMax == \A s : R!Max(s) = Max(s)
BY DEF R!Max, Max

TotalChain(t, list) ==
  /\ t[0] = 0 /\ \A k \in 1..Len(list) : t[k] = t[k - 1] + R!CountPorts(list[k])
  /\ R!Total(list) = t[Len(list)]

LEMMA TotalIs ==
  ASSUME NEW list \in Seq(Pairs)
  PROVE  R!Total(list) \in Int /\ \E t : TotalChain(t, list)
<1> DEFINE n == Len(list)
           Value(f, s) == IF s = {} THEN 0 ELSE f[s \ {Max(s)}] + R!CountPorts(list[Max(s)])
           it == CHOOSE f : f = [s \in SUBSET (1..n) |-> Value(f, s)]
           step == [k \in 1..n |-> [t \in Int |-> t + R!CountPorts(list[k])]]
<1>1. n \in Nat /\ DOMAIN list = 1..n /\ \A k \in 1..n : R!CountPorts(list[k]) \in Int
  BY CountType
<1>2. step \in [1..n -> [Int -> Int]]
  BY <1>1
<1>3. R!Total(list) = it[1..n]
  BY <1>1, SameMax DEF R!Total, R!FoldLeft, R!MapThenFoldSet
<1> HIDE DEF n
<1>4. PICK f : FoldsList(f, n, Int, 0, step)
  <2>1. 0 \in Int
    OBVIOUS
  <2> HIDE DEF step, it
  <2> QED
    BY <1>1, <1>2, <2>1, ListFold
<1>5. \E g : g = [s \in SUBSET (1..n) |-> Value(g, s)]
  <2>2. ASSUME NEW s \in SUBSET (1..n), s # {}
        PROVE  f[s] = f[s \ {Max(s)}] + R!CountPorts(list[Max(s)])
    BY <1>1, <1>4, <2>2, LastPosition DEF FoldsList
  <2>3. \A s \in SUBSET (1..n) : f[s] = Value(f, s)
    BY <1>4, <2>2 DEF FoldsList
  <2> HIDE DEF Value
  <2>4. f = [s \in SUBSET (1..n) |-> Value(f, s)]
    BY <1>4, <2>3 DEF FoldsList
  <2> QED
    BY <2>4
<1>6. it = [s \in SUBSET (1..n) |-> Value(it, s)]
  <2> HIDE DEF Value
  <2> QED
    BY <1>5
<1> HIDE DEF it
<1>7. it[{}] \in Int
  BY <1>6
<1>8. ASSUME NEW k \in 1..n
      PROVE  it[1..k] = it[(1..k) \ {k}] + R!CountPorts(list[k])
  <2>1. 1..k \in SUBSET (1..n) /\ 1..k # {} /\ Max(1..k) = k
    BY <1>1, Prefix
  <2> QED
    BY <1>6, <2>1
<1>9. it[1..n] \in Int
  <2>1. ASSUME NEW k \in 1..n, it[(1..k) \ {k}] \in Int
        PROVE  it[1..k] \in Int
    <3>1. it[1..k] = it[(1..k) \ {k}] + R!CountPorts(list[k])
      BY <1>8
    <3> QED
      BY <1>1, <2>1, <3>1
  <2> QED
    BY <1>1, <1>7, <2>1, ListInduction
<1>10. TotalChain(Along(it, n), list)
  <2> DEFINE t == Along(it, n)
  <2>1. it[{}] = 0
    BY <1>6
  <2>4. IsAlong(t, it, n)
    BY <1>1, AlongIs
  <2> HIDE DEF t
  <2>2. t[0] = 0 /\ t[n] = it[1..n]
    BY <2>1, <2>4 DEF IsAlong
  <2>3. \A k \in 1..n : t[k] = t[k - 1] + R!CountPorts(list[k])
    BY <1>8, <2>4 DEF IsAlong
  <2> QED
    BY <1>3, <2>2, <2>3 DEF TotalChain, n, t
<1> QED
  BY <1>3, <1>9, <1>10

(* What has been cut so far.                                               *)
Cuts == [shards : Seq(Seq(Pairs)), current : Seq(Pairs), count : Int, rest : Pairs]

LEMMA PutType ==
  ASSUME NEW st \in Cuts, NEW r \in Pairs
  PROVE  R!Put(st, r) \in Cuts /\ R!Put(st, r).rest = st.rest
<1>1. R!CountPorts(r) \in Int
  BY CountType
<1>2. Append(st.current, r) \in Seq(Pairs)
  BY DEF Cuts
<1> DEFINE longer == [st EXCEPT !.current = Append(st.current, r)]
<1>3. longer \in Cuts /\ longer.rest = st.rest /\ st.count \in Int
  BY <1>2 DEF Cuts
<1>4. R!Put(st, r) = [longer EXCEPT !.count = st.count + R!CountPorts(r)]
  BY DEF R!Put
<1> HIDE DEF longer
<1> DEFINE total == st.count + R!CountPorts(r)
<1>5. total \in Int
  BY <1>1, <1>3
<1>6. R!Put(st, r) = [longer EXCEPT !.count = total]
  BY <1>4
<1> HIDE DEF total
<1> QED
  BY <1>3, <1>5, <1>6 DEF Cuts

LEMMA CloseType ==
  ASSUME NEW st \in Cuts
  PROVE  R!Close(st) \in Cuts
<1>1. Append(st.shards, st.current) \in Seq(Seq(Pairs)) /\ <<>> \in Seq(Pairs)
  <2>1. st.shards \in Seq(Seq(Pairs)) /\ st.current \in Seq(Pairs)
    BY DEF Cuts
  <2> DEFINE C == Seq(Pairs)
  <2> HIDE DEF C
  <2>2. st.shards \in Seq(C) /\ st.current \in C
    BY <2>1 DEF C
  <2>3. Append(st.shards, st.current) \in Seq(C)
    BY <2>2
  <2> QED
    BY <2>3 DEF C
<1> DEFINE more == [st EXCEPT !.shards = Append(st.shards, st.current)]
           fresh == [more EXCEPT !.current = <<>>]
<1>2. more \in Cuts
  BY <1>1 DEF Cuts
<1>3. R!Close(st) = [fresh EXCEPT !.count = 0]
  BY DEF R!Close
<1> HIDE DEF more
<1>4. fresh \in Cuts
  BY <1>1, <1>2 DEF Cuts
<1> HIDE DEF fresh
<1> QED
  BY <1>3, <1>4 DEF Cuts

LEMMA TakePieceType ==
  ASSUME NEW st \in Cuts, NEW target \in Int
  PROVE  R!TakePiece(st, target) \in Cuts
<1> DEFINE left == R!CountPorts(st.rest)
           take == IF left < target - st.count THEN left ELSE target - st.count
           last == st.rest[1] + take - 1
           piece == R!Put(st, <<st.rest[1], last>>)
           put == [piece EXCEPT !.rest = <<last + 1, @[2]>>]
<1>1. st.rest \in Pairs /\ st.rest[1] \in Int /\ st.rest[2] \in Int /\ st.count \in Int
  BY DEF Cuts, Pairs
<1>2. left \in Int
  BY <1>1, CountType
<1> HIDE DEF left
<1>3. take \in Int
  BY <1>1, <1>2
<1> HIDE DEF take
<1>4. last \in Int /\ last + 1 \in Int
  BY <1>1, <1>3
<1> HIDE DEF last
<1>5. <<st.rest[1], last>> \in Pairs /\ <<last + 1, st.rest[2]>> \in Pairs
  BY <1>1, <1>4 DEF Pairs
<1>6. piece \in Cuts /\ piece.rest = st.rest
  BY <1>5, PutType
<1> HIDE DEF piece
<1>7. put \in Cuts
  BY <1>5, <1>6 DEF Cuts
<1>8. R!TakePiece(st, target) = IF put.count >= target /\ left > take THEN R!Close(put) ELSE put
  BY DEF R!TakePiece, piece, last, take, left
<1> HIDE DEF put
<1> QED
  BY <1>7, <1>8, CloseType

SplitChain(t, st, r, target) ==
  /\ t[0] = [st EXCEPT !.rest = r]
  /\ \A k \in 1..R!CountPorts(r) :
       t[k] = IF R!CountPorts(t[k - 1].rest) > 0 THEN R!TakePiece(t[k - 1], target) ELSE t[k - 1]
  /\ R!Split(st, r, target) = t[R!CountPorts(r)]

LEMMA SplitIs ==
  ASSUME NEW st \in Cuts, NEW r \in Specified, NEW target \in Int
  PROVE  R!Split(st, r, target) \in Cuts /\ \E t : SplitChain(t, st, r, target)
<1> DEFINE n == R!CountPorts(r)
           base == [st EXCEPT !.rest = r]
           Op(x) == IF R!CountPorts(x.rest) > 0 THEN R!TakePiece(x, target) ELSE x
           Value(f, s) == IF s = {} THEN base ELSE Op(f[s \ {Max(s)}])
           it == CHOOSE f : f = [s \in SUBSET (1..n) |-> Value(f, s)]
           step == [k \in 1..n |-> [x \in Cuts |-> Op(x)]]
<1>1. n \in Nat /\ r \in Pairs
  BY DEF Specified, Pairs, R!CountPorts
<1>2. base \in Cuts
  BY <1>1 DEF Cuts
<1>3. \A x \in Cuts : Op(x) \in Cuts
  BY TakePieceType
<1>4. R!Split(st, r, target) = it[1..n]
  BY SameMax DEF R!Split, R!FoldLeft, R!MapThenFoldSet
<1> HIDE DEF n, Op, base
<1>5. step \in [1..n -> [Cuts -> Cuts]]
  BY <1>3
<1>6. PICK f : FoldsList(f, n, Cuts, base, step)
  <2> HIDE DEF step, it
  <2> QED
    BY <1>1, <1>2, <1>5, ListFold
<1>7. \E g : g = [s \in SUBSET (1..n) |-> Value(g, s)]
  <2>1. ASSUME NEW s \in SUBSET (1..n), s # {}
        PROVE  f[s] = Op(f[s \ {Max(s)}])
    BY <1>1, <1>6, <2>1, LastPosition DEF FoldsList
  <2>2. \A s \in SUBSET (1..n) : f[s] = Value(f, s)
    BY <1>6, <2>1 DEF FoldsList
  <2> HIDE DEF Value
  <2>3. f = [s \in SUBSET (1..n) |-> Value(f, s)]
    BY <1>6, <2>2 DEF FoldsList
  <2> QED
    BY <2>3
<1>8. it = [s \in SUBSET (1..n) |-> Value(it, s)]
  <2> HIDE DEF Value
  <2> QED
    BY <1>7
<1> HIDE DEF it
<1>9. it[{}] \in Cuts
  BY <1>2, <1>8
<1>10. ASSUME NEW k \in 1..n
       PROVE  it[1..k] = Op(it[(1..k) \ {k}])
  <2>1. 1..k \in SUBSET (1..n) /\ 1..k # {} /\ Max(1..k) = k
    BY <1>1, Prefix
  <2> QED
    BY <1>8, <2>1
<1>11. it[1..n] \in Cuts
  <2>1. \A k \in 1..n : it[(1..k) \ {k}] \in Cuts => it[1..k] \in Cuts
    BY <1>3, <1>10
  <2> QED
    BY <1>1, <1>9, <2>1, ListInduction
<1>12. SplitChain(Along(it, n), st, r, target)
  <2> DEFINE t == Along(it, n)
  <2>1. it[{}] = base
    BY <1>8
  <2>4. IsAlong(t, it, n)
    BY <1>1, AlongIs
  <2> HIDE DEF t
  <2>2. t[0] = base /\ t[n] = it[1..n]
    BY <2>1, <2>4 DEF IsAlong
  <2>3. \A k \in 1..n : t[k] = Op(t[k - 1])
    BY <1>10, <2>4 DEF IsAlong
  <2> QED
    BY <1>4, <2>2, <2>3 DEF SplitChain, t, n, base, Op
<1> QED
  BY <1>4, <1>11, <1>12

LEMMA AddSpecType ==
  ASSUME NEW st \in Cuts, NEW r \in Specified, NEW target \in Int
  PROVE  R!AddSpec(st, r, target) \in Cuts
<1>1. r \in Pairs
  BY DEF Specified
<1>2. R!Put(st, r) \in Cuts /\ R!Split(st, r, target) \in Cuts
  BY <1>1, PutType, SplitIs
<1> QED
  BY <1>2, CloseType DEF R!AddSpec

ShardChain(t, list, parts) ==
  /\ t[0] = [shards |-> <<>>, current |-> <<>>, count |-> 0, rest |-> <<1, 0>>]
  /\ \A k \in 1..Len(list) :
       t[k - 1] \in Cuts /\ t[k] = R!AddSpec(t[k - 1], list[k], R!Target(list, parts))
  /\ LET end == t[Len(list)]
     IN  R!ShardPorts(list, parts)
           = IF end.current # <<>> THEN Append(end.shards, end.current) ELSE end.shards

(* Whatever the list and the number of shards, each shard is a list of     *)
(* ranges.                                                                 *)
LEMMA ShardPortsIs ==
  ASSUME NEW list \in Seq(Specified), NEW parts \in Nat
  PROVE  /\ R!ShardPorts(list, parts) \in Seq(Seq(Pairs))
         /\ parts > 1 => \E t : ShardChain(t, list, parts)
<1> DEFINE n == Len(list)
           target == R!Target(list, parts)
           base == [shards |-> <<>>, current |-> <<>>, count |-> 0, rest |-> <<1, 0>>]
           Value(f, s) == IF s = {} THEN base ELSE R!AddSpec(f[s \ {Max(s)}], list[Max(s)], target)
           it == CHOOSE f : f = [s \in SUBSET (1..n) |-> Value(f, s)]
           step == [k \in 1..n |-> [x \in Cuts |-> R!AddSpec(x, list[k], target)]]
<1>0. Specified \subseteq Pairs /\ list \in Seq(Pairs)
  <2>1. Specified \subseteq Pairs
    BY DEF Specified
  <2> QED
    BY <2>1
<1>1. CASE parts <= 1
  <2>1. R!ShardPorts(list, parts) = <<list>> /\ ~(parts > 1)
    BY <1>1 DEF R!ShardPorts
  <2>2. <<list>> \in Seq(Seq(Pairs))
    BY <1>0
  <2> QED
    BY <2>1, <2>2
<1>2. CASE ~(parts <= 1)
  <2>0. n \in Nat /\ DOMAIN list = 1..n /\ \A k \in 1..n : list[k] \in Specified
    OBVIOUS
  <2>1. target \in Int
    <3>1. R!Total(list) \in Int /\ R!Total(list) + parts - 1 \in Int /\ parts >= 1
      BY <1>0, <1>2, TotalIs
    <3> QED
      BY <3>1 DEF R!Target
  <2> DEFINE last == it[1..n]
  <2>2. R!ShardPorts(list, parts)
          = IF last.current # <<>> THEN Append(last.shards, last.current) ELSE last.shards
    <3>1. R!FoldLeft(LAMBDA st, r : R!AddSpec(st, r, target), base, list) = last
      BY <2>0, SameMax DEF R!FoldLeft, R!MapThenFoldSet
    <3> HIDE DEF last
    <3> QED
      BY <1>2, <3>1 DEF R!ShardPorts
  <2> HIDE DEF n, target
  <2>3. base \in Cuts
    <3>1. <<>> \in Seq(Seq(Pairs)) /\ <<>> \in Seq(Pairs) /\ <<1, 0>> \in Pairs /\ 0 \in Int
      BY DEF Pairs
    <3> QED
      BY <3>1 DEF Cuts
  <2> HIDE DEF base
  <2>4. step \in [1..n -> [Cuts -> Cuts]]
    BY <2>0, <2>1, AddSpecType
  <2>5. PICK f : FoldsList(f, n, Cuts, base, step)
    <3> HIDE DEF step, it
    <3> QED
      BY <2>0, <2>3, <2>4, ListFold
  <2>6. \E g : g = [s \in SUBSET (1..n) |-> Value(g, s)]
    <3>1. ASSUME NEW s \in SUBSET (1..n), s # {}
          PROVE  f[s] = R!AddSpec(f[s \ {Max(s)}], list[Max(s)], target)
      BY <2>0, <2>5, <3>1, LastPosition DEF FoldsList
    <3>2. \A s \in SUBSET (1..n) : f[s] = Value(f, s)
      BY <2>5, <3>1 DEF FoldsList
    <3> HIDE DEF Value
    <3>3. f = [s \in SUBSET (1..n) |-> Value(f, s)]
      BY <2>5, <3>2 DEF FoldsList
    <3> QED
      BY <3>3
  <2>7. it = [s \in SUBSET (1..n) |-> Value(it, s)]
    <3> HIDE DEF Value
    <3> QED
      BY <2>6
  <2> HIDE DEF it
  <2>8. it[{}] \in Cuts
    BY <2>3, <2>7
  <2>9. ASSUME NEW k \in 1..n
        PROVE  it[1..k] = R!AddSpec(it[(1..k) \ {k}], list[k], target)
    <3>1. 1..k \in SUBSET (1..n) /\ 1..k # {} /\ Max(1..k) = k
      BY <2>0, Prefix
    <3> QED
      BY <2>7, <3>1
  <2>10. \A k \in 0..n : it[1..k] \in Cuts
    <3>1. \A k \in 1..n : it[(1..k) \ {k}] \in Cuts => it[1..k] \in Cuts
      BY <2>0, <2>1, <2>9, AddSpecType
    <3> SUFFICES ASSUME NEW k \in 0..n
                 PROVE  it[1..k] \in Cuts
      OBVIOUS
    <3>2. k \in Nat /\ \A j \in 1..k : j \in 1..n
      BY <2>0
    <3>3. \A j \in 1..k : it[(1..j) \ {j}] \in Cuts => it[1..j] \in Cuts
      BY <3>1, <3>2
    <3> QED
      BY <2>8, <3>2, <3>3, ListInduction
  <2>14. ShardChain(Along(it, n), list, parts)
    <3> DEFINE t == Along(it, n)
    <3>1. it[{}] = base
      BY <2>7
    <3>5. IsAlong(t, it, n)
      BY <2>0, AlongIs
    <3> HIDE DEF t
    <3>2. t[0] = base /\ t[n] = it[1..n]
      BY <3>1, <3>5 DEF IsAlong
    <3>4. \A k \in 1..n : t[k] = it[1..k] /\ t[k - 1] = it[(1..k) \ {k}]
      BY <3>5 DEF IsAlong
    <3>3. \A k \in 1..n : t[k - 1] \in Cuts /\ t[k] = R!AddSpec(t[k - 1], list[k], target)
      <4> SUFFICES ASSUME NEW k \in 1..n
                   PROVE  t[k - 1] \in Cuts /\ t[k] = R!AddSpec(t[k - 1], list[k], target)
        OBVIOUS
      <4>1. k - 1 \in 0..n /\ (1..k) \ {k} = 1..(k - 1)
        BY <2>0
      <4> QED
        BY <2>9, <2>10, <3>4, <4>1
    <3> QED
      BY <2>2, <3>2, <3>3 DEF ShardChain, t, n, base, target
  <2> HIDE DEF last
  <2>11. last.shards \in Seq(Seq(Pairs)) /\ last.current \in Seq(Pairs)
    <3>1. last \in Cuts
      BY <2>0, <2>10 DEF last
    <3> QED
      BY <3>1 DEF Cuts
  <2> DEFINE C == Seq(Pairs)
  <2> HIDE DEF C
  <2>12. last.shards \in Seq(C) /\ last.current \in C
    BY <2>11 DEF C
  <2>13. R!ShardPorts(list, parts) \in Seq(C)
    BY <2>2, <2>12
  <2> QED
    BY <2>13, <2>14 DEF C
<1> QED
  BY <1>1, <1>2
=============================================================================
