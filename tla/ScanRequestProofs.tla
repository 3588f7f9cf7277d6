--------------------------- MODULE ScanRequestProofs ---------------------------
(***************************************************************************)
(* Theorems about a scan request, for any hosts, port ranges and number of *)
(* shards, and about what shard_ports returns for any list.  A state is    *)
(* described by RequestInv: what is known of each hostname, and what has   *)
(* been done and said once the request is answered.                        *)
(***************************************************************************)
EXTENDS ScanRequest, FoldProofs, SequenceTheorems

-----------------------------------------------------------------------------
(* FlattenSeq, for lists of lists of ports.                                *)

Ints == Seq(Int)

(* g[k] is the concatenation of the first k of s.                          *)
Flattens(g, s) ==
  /\ g \in [0..Len(s) -> Ints] /\ g[0] = <<>>
  /\ \A k \in 1..Len(s) : g[k] = g[k - 1] \o s[k]

FlattensTo(g, s, t) == Flattens(g, s) /\ t = g[Len(s)]

LEMMA IntsConcat ==
  /\ <<>> \in Ints
  /\ \A s, t \in Ints : s \o t \in Ints /\ Len(s \o t) = Len(s) + Len(t)
  /\ \A s \in Ints : s \o <<>> = s /\ <<>> \o s = s /\ Len(s) \in Nat
  /\ \A s, t, u \in Ints : (s \o t) \o u = s \o (t \o u)
<1>1. <<>> \in Ints
  BY DEF Ints
<1>2. \A s, t \in Ints : s \o t \in Ints /\ Len(s \o t) = Len(s) + Len(t)
  BY ConcatProperties DEF Ints
<1>3. \A s \in Ints : s \o <<>> = s /\ <<>> \o s = s /\ Len(s) \in Nat
  BY ConcatEmptySeq, LenProperties DEF Ints
<1>4. \A s, t, u \in Ints : (s \o t) \o u = s \o (t \o u)
  BY ConcatAssociative DEF Ints
<1> QED
  BY <1>1, <1>2, <1>3, <1>4

LEMMA FlattenSeqIs ==
  ASSUME NEW s \in Seq(Ints)
  PROVE  \E g : FlattensTo(g, s, R!FlattenSeq(s))
<1> DEFINE n == Len(s)
           Value(g, i) == IF i = 1 THEN s[i] ELSE g[i - 1] \o s[i]
           it == CHOOSE g : g = [i \in 1..n |-> Value(g, i)]
           step == [k \in 1..n |-> [x \in Ints |-> x \o s[k]]]
           chain == [k \in 0..n |-> IF k = 0 THEN <<>> ELSE it[k]]
<1>1. n \in Nat /\ \A k \in 1..n : s[k] \in Ints
  OBVIOUS
<1>2. n # 0 => R!FlattenSeq(s) = it[n]
  BY DEF R!FlattenSeq
<1>3. n = 0 => R!FlattenSeq(s) = <<>>
  BY DEF R!FlattenSeq
<1> HIDE DEF n
<1>4. step \in [1..n -> [Ints -> Ints]]
  BY <1>1, IntsConcat
<1>5. PICK f : FoldsList(f, n, Ints, <<>>, step)
  <2> HIDE DEF step, it
  <2> QED
    BY <1>1, <1>4, IntsConcat, ListFold
<1>6. \E g : g = [i \in 1..n |-> Value(g, i)]
  <2> DEFINE g == [i \in 1..n |-> f[1..i]]
  <2>1. ASSUME NEW i \in 1..n
        PROVE  g[i] = Value(g, i)
    <3>1. 1..i \in SUBSET (1..n) /\ 1..i # {} /\ Max(1..i) = i
      BY <1>1, Prefix
    <3>2. (1..i) \ {i} = 1..(i - 1) /\ (1..i) \ {i} \in SUBSET (1..n)
      BY <1>1, i \in Nat
    <3>3. f[1..(i - 1)] \in Ints
      BY <1>5, <3>2 DEF FoldsList
    <3>4. f[1..i] = f[1..(i - 1)] \o s[i]
      <4> HIDE DEF step, it
      <4>1. f[1..i] = step[i][f[(1..i) \ {i}]]
        BY <1>5, <3>1 DEF FoldsList
      <4> QED
        BY <3>2, <3>3, <4>1 DEF step
    <3>5. CASE i = 1
      <4>1. i - 1 = 0 /\ 1..0 = {} /\ {} \in SUBSET (1..n)
        BY <3>5
      <4>2. f[1..(i - 1)] = <<>>
        BY <1>5, <4>1 DEF FoldsList
      <4>3. f[1..i] = s[i]
        BY <1>1, <3>4, <4>2, IntsConcat
      <4> QED
        BY <3>5, <4>3
    <3>6. CASE i # 1
      <4>1. i - 1 \in 1..n
        BY <1>1, <3>6
      <4> QED
        BY <3>4, <3>6, <4>1
    <3> QED
      BY <3>5, <3>6
  <2>2. g = [i \in 1..n |-> g[i]]
    OBVIOUS
  <2> HIDE DEF g, Value
  <2>3. g = [i \in 1..n |-> Value(g, i)]
    BY <2>1, <2>2
  <2> QED
    BY <2>3
<1>7. it = [i \in 1..n |-> Value(it, i)]
  <2> HIDE DEF Value
  <2> QED
    BY <1>6
<1> HIDE DEF it
<1>8. \A k \in 1..n : chain[k] = chain[k - 1] \o s[k]
  <2> SUFFICES ASSUME NEW k \in 1..n
               PROVE  chain[k] = chain[k - 1] \o s[k]
    OBVIOUS
  <2>1. k \in 0..n /\ k - 1 \in 0..n /\ k # 0
    BY <1>1
  <2>2. chain[k] = it[k]
    BY <2>1
  <2>3. it[k] = Value(it, k)
    BY <1>7
  <2>4. CASE k = 1
    <3>1. chain[k - 1] = <<>>
      BY <2>1, <2>4
    <3>2. it[k] = s[k] /\ s[k] \in Ints
      BY <1>1, <2>3, <2>4
    <3>3. <<>> \o s[k] = s[k]
      BY <3>2, IntsConcat
    <3> QED
      BY <2>2, <3>1, <3>2, <3>3
  <2>5. CASE k # 1
    <3>1. k - 1 # 0
      BY <1>1, <2>5
    <3>2. chain[k - 1] = it[k - 1]
      BY <2>1, <3>1
    <3>3. it[k] = it[k - 1] \o s[k]
      BY <2>3, <2>5
    <3> QED
      BY <2>2, <3>2, <3>3
  <2> QED
    BY <2>4, <2>5
<1>9. chain = [k \in 0..n |-> chain[k]] /\ chain[0] = <<>> /\ R!FlattenSeq(s) = chain[n]
  BY <1>1, <1>2, <1>3
<1> HIDE DEF chain
<1> DEFINE B == {k \in Nat : k <= n => chain[k] \in Ints}
<1>10. 0 \in B
  BY <1>9, IntsConcat
<1>11. ASSUME NEW k \in B
       PROVE  k + 1 \in B
  <2>1. k \in Nat /\ (k <= n => chain[k] \in Ints) /\ (k + 1) - 1 = k
    OBVIOUS
  <2>2. k + 1 <= n => k + 1 \in 1..n
    BY <1>1, <2>1
  <2>3. k + 1 <= n => chain[k + 1] = chain[k] \o s[k + 1]
    BY <1>8, <2>1, <2>2
  <2>4. ASSUME k + 1 <= n
        PROVE  chain[k + 1] \in Ints
    <3>1. chain[k] \in Ints /\ s[k + 1] \in Ints
      BY <1>1, <2>1, <2>2, <2>4
    <3> QED
      BY <2>3, <2>4, <3>1, IntsConcat
  <2> QED
    BY <2>1, <2>4
<1>12. B \in SUBSET Nat
  OBVIOUS
<1> HIDE DEF B
<1>13. B = Nat
  BY <1>10, <1>11, <1>12, SetInduction
<1>14. \A k \in 0..n : chain[k] \in Ints
  BY <1>1, <1>13 DEF B
<1>15. FlattensTo(chain, s, R!FlattenSeq(s))
  BY <1>8, <1>9, <1>14 DEF Flattens, FlattensTo, n
<1> QED
  BY <1>15

LEMMA FlattensAlike ==
  ASSUME NEW s \in Seq(Ints), NEW t \in Seq(Ints), Len(s) <= Len(t),
         \A i \in 1..Len(s) : s[i] = t[i],
         NEW g, NEW h, Flattens(g, s), Flattens(h, t)
  PROVE  h[Len(s)] = g[Len(s)]
<1> DEFINE B == {k \in Nat : k <= Len(s) => h[k] = g[k]}
<1>1. 0 \in B
  BY DEF Flattens
<1>2. ASSUME NEW k \in B
      PROVE  k + 1 \in B
  <2>1. k \in Nat /\ (k <= Len(s) => h[k] = g[k]) /\ (k + 1) - 1 = k
    OBVIOUS
  <2>2. k + 1 <= Len(s) => k + 1 \in 1..Len(s) /\ k + 1 \in 1..Len(t)
    BY <2>1
  <2>3. ASSUME k + 1 <= Len(s)
        PROVE  h[k + 1] = g[k + 1]
    <3>1. g[k + 1] = g[k] \o s[k + 1]
      BY <2>1, <2>2, <2>3 DEF Flattens
    <3>2. h[k + 1] = h[k] \o t[k + 1]
      BY <2>1, <2>2, <2>3 DEF Flattens
    <3>3. h[k] = g[k] /\ s[k + 1] = t[k + 1]
      BY <2>1, <2>2, <2>3
    <3> QED
      BY <3>1, <3>2, <3>3
  <2> QED
    BY <2>1, <2>3
<1>3. B \in SUBSET Nat
  OBVIOUS
<1> HIDE DEF B
<1>4. B = Nat
  BY <1>1, <1>2, <1>3, SetInduction
<1>5. Len(s) \in B
  BY <1>4
<1> QED
  BY <1>5 DEF B

LEMMA FlattenType ==
  ASSUME NEW s \in Seq(Ints)
  PROVE  R!FlattenSeq(s) \in Ints
<1>1. PICK g : FlattensTo(g, s, R!FlattenSeq(s))
  BY FlattenSeqIs
<1>2. Len(s) \in 0..Len(s)
  OBVIOUS
<1> QED
  BY <1>1, <1>2 DEF FlattensTo, Flattens

LEMMA FlattenEmpty == R!FlattenSeq(<<>>) = <<>>
BY DEF R!FlattenSeq

LEMMA FlattenAppend ==
  ASSUME NEW s \in Seq(Ints), NEW x \in Ints
  PROVE  R!FlattenSeq(Append(s, x)) = R!FlattenSeq(s) \o x
<1> DEFINE t == Append(s, x)
<1>1. /\ t \in Seq(Ints) /\ Len(t) = Len(s) + 1 /\ t[Len(s) + 1] = x /\ Len(s) \in Nat
      /\ \A i \in 1..Len(s) : s[i] = t[i]
  OBVIOUS
<1> HIDE DEF t
<1>2. PICK g : FlattensTo(g, s, R!FlattenSeq(s))
  BY FlattenSeqIs
<1>3. PICK h : FlattensTo(h, t, R!FlattenSeq(t))
  BY <1>1, FlattenSeqIs
<1>4. h[Len(s)] = g[Len(s)]
  BY <1>1, <1>2, <1>3, FlattensAlike DEF FlattensTo
<1>5. h[Len(t)] = h[Len(s)] \o x
  <2>1. Len(t) \in 1..Len(t) /\ Len(t) - 1 = Len(s)
    BY <1>1
  <2> QED
    BY <1>1, <1>3, <2>1 DEF FlattensTo, Flattens
<1> QED
  BY <1>2, <1>3, <1>4, <1>5 DEF FlattensTo, t

-----------------------------------------------------------------------------
(* The ports of a range, and of a list of ranges, in their order.          *)
Ports(r) == [j \in 1..R!CountPorts(r) |-> r[1] + j - 1]

(* Ranges that may be empty, as what is left of one that is cut up.        *)
Rests == {r \in Pairs : r[1] <= r[2] + 1}

LEMMA PortsLen ==
  ASSUME NEW r \in Rests
  PROVE  /\ r \in Pairs /\ r[1] \in Int /\ r[2] \in Int
         /\ R!CountPorts(r) \in Nat /\ Ports(r) \in Ints /\ Len(Ports(r)) = R!CountPorts(r)
<1>1. r \in Pairs /\ r[1] \in Int /\ r[2] \in Int /\ r[1] <= r[2] + 1
  BY DEF Rests, Pairs
<1> DEFINE n == R!CountPorts(r)
<1>2. n \in Nat
  BY <1>1 DEF R!CountPorts
<1> HIDE DEF n
<1>3. \A j \in 1..n : r[1] + j - 1 \in Int
  BY <1>1, <1>2
<1>4. [j \in 1..n |-> r[1] + j - 1] \in Seq(Int) /\ Len([j \in 1..n |-> r[1] + j - 1]) = n
  BY <1>2, <1>3
<1> QED
  BY <1>1, <1>2, <1>4 DEF Ports, Ints, n

(* A range that is cut in two has the ports of both.                       *)
LEMMA CutPorts ==
  ASSUME NEW a \in Int, NEW m \in Int, NEW b \in Int, a <= m + 1, m <= b
  PROVE  /\ <<a, m>> \in Rests /\ <<m + 1, b>> \in Rests /\ <<a, b>> \in Rests
         /\ Ports(<<a, b>>) = Ports(<<a, m>>) \o Ports(<<m + 1, b>>)
         /\ R!CountPorts(<<a, m>>) = m - a + 1 /\ R!CountPorts(<<m + 1, b>>) = b - m
<1>1. <<a, m>> \in Rests /\ <<m + 1, b>> \in Rests /\ <<a, b>> \in Rests
  BY DEF Rests, Pairs
<1>2. /\ R!CountPorts(<<a, m>>) = m - a + 1 /\ R!CountPorts(<<m + 1, b>>) = b - m
      /\ R!CountPorts(<<a, b>>) = b - a + 1
  BY DEF R!CountPorts
<1> DEFINE s == Ports(<<a, m>>)
           t == Ports(<<m + 1, b>>)
           u == Ports(<<a, b>>)
<1>3. /\ s \in Seq(Int) /\ t \in Seq(Int) /\ u \in Seq(Int)
      /\ Len(s) = m - a + 1 /\ Len(t) = b - m /\ Len(u) = b - a + 1
  BY <1>1, <1>2, PortsLen DEF Ints
<1>4. /\ \A j \in 1..(m - a + 1) : s[j] = a + j - 1
      /\ \A j \in 1..(b - m) : t[j] = m + 1 + j - 1
      /\ \A j \in 1..(b - a + 1) : u[j] = a + j - 1
  BY <1>2 DEF Ports
<1> HIDE DEF s, t, u
<1>5. /\ s \o t \in Seq(Int) /\ Len(s \o t) = Len(s) + Len(t)
      /\ \A i \in 1..(Len(s) + Len(t)) : (s \o t)[i] = IF i <= Len(s) THEN s[i] ELSE t[i - Len(s)]
  BY <1>3, ConcatProperties
<1>6. \A i \in 1..Len(u) : u[i] = (s \o t)[i]
  <2> SUFFICES ASSUME NEW i \in 1..Len(u)
               PROVE  u[i] = (s \o t)[i]
    OBVIOUS
  <2>1. i \in 1..(b - a + 1) /\ i \in 1..(Len(s) + Len(t)) /\ u[i] = a + i - 1
    BY <1>3, <1>4
  <2>2. CASE i <= Len(s)
    <3>1. i \in 1..(m - a + 1)
      BY <1>3, <2>1, <2>2
    <3> QED
      BY <1>4, <1>5, <2>1, <2>2, <3>1
  <2>3. CASE ~(i <= Len(s))
    <3>1. i - Len(s) \in 1..(b - m)
      BY <1>3, <2>1, <2>3
    <3>2. t[i - Len(s)] = m + 1 + (i - Len(s)) - 1
      BY <1>4, <3>1
    <3>3. m + 1 + (i - Len(s)) - 1 = a + i - 1
      BY <1>3, <2>1
    <3> QED
      BY <1>5, <2>1, <2>3, <3>2, <3>3
  <2> QED
    BY <2>2, <2>3
<1>7. Len(u) = Len(s \o t)
  BY <1>3, <1>5
<1>8. u = s \o t
  BY <1>3, <1>5, <1>6, <1>7, SeqEqual
<1> QED
  BY <1>1, <1>2, <1>8 DEF s, t, u

LEMMA FlatIs ==
  ASSUME NEW list \in Seq(Rests)
  PROVE  /\ R!Flat(list) = R!FlattenSeq([i \in 1..Len(list) |-> Ports(list[i])])
         /\ [i \in 1..Len(list) |-> Ports(list[i])] \in Seq(Ints)
<1>1. DOMAIN list = 1..Len(list) /\ Len(list) \in Nat /\ \A i \in 1..Len(list) : list[i] \in Rests
  OBVIOUS
<1>2. \A i \in 1..Len(list) : Ports(list[i]) \in Ints
  BY <1>1, PortsLen
<1>3. R!Flat(list) = R!FlattenSeq([i \in 1..Len(list) |-> Ports(list[i])])
  BY <1>1 DEF R!Flat, Ports
<1> QED
  BY <1>1, <1>2, <1>3

LEMMA FlatAppend ==
  ASSUME NEW list \in Seq(Rests), NEW r \in Rests
  PROVE  /\ R!Flat(list) \in Ints /\ Append(list, r) \in Seq(Rests)
         /\ R!Flat(Append(list, r)) = R!Flat(list) \o Ports(r)
<1> DEFINE longer == Append(list, r)
           s == [i \in 1..Len(list) |-> Ports(list[i])]
           t == [i \in 1..Len(longer) |-> Ports(longer[i])]
<1>1. /\ longer \in Seq(Rests) /\ Len(longer) = Len(list) + 1 /\ longer[Len(list) + 1] = r
      /\ Len(list) \in Nat /\ \A i \in 1..Len(list) : longer[i] = list[i]
  OBVIOUS
<1> HIDE DEF longer
<1>2. s \in Seq(Ints) /\ R!Flat(list) = R!FlattenSeq(s)
  BY FlatIs
<1>3. t \in Seq(Ints) /\ R!Flat(longer) = R!FlattenSeq(t)
  BY <1>1, FlatIs
<1>4. Ports(r) \in Ints
  BY PortsLen
<1>5. /\ Len(s) = Len(list) /\ Len(t) = Len(list) + 1 /\ t[Len(list) + 1] = Ports(r)
      /\ \A i \in 1..Len(list) : t[i] = s[i]
  BY <1>1
<1> HIDE DEF s, t
<1>6. t = Append(s, Ports(r))
  BY <1>1, <1>2, <1>3, <1>4, <1>5
<1>7. R!FlattenSeq(t) = R!FlattenSeq(s) \o Ports(r) /\ R!FlattenSeq(s) \in Ints
  BY <1>2, <1>4, <1>6, FlattenAppend, FlattenType
<1> QED
  BY <1>1, <1>2, <1>3, <1>7 DEF longer

LEMMA FlatEmpty == R!Flat(<<>>) = <<>>
<1>1. [i \in DOMAIN <<>> |-> Ports(<<>>[i])] = <<>>
  OBVIOUS
<1> QED
  BY <1>1, FlattenEmpty DEF R!Flat, Ports

-----------------------------------------------------------------------------
(* What has been cut so far.                                               *)

Lists == Seq(Specified)

Joined(shards) == R!FlattenSeq([i \in 1..Len(shards) |-> R!Flat(shards[i])])

Whole(st) == Joined(st.shards) \o R!Flat(st.current)

CutOf(shards, current, count, rest) ==
  [shards |-> shards, current |-> current, count |-> count, rest |-> rest]

(* The finished shards have T ports each, the current one at most T.       *)
Full(shards, T) ==
  /\ shards \in Seq(Lists)
  /\ \A i \in 1..Len(shards) : Len(R!Flat(shards[i])) = T
  /\ Joined(shards) \in Ints /\ Len(Joined(shards)) = Len(shards) * T

Filled(current, count, T) ==
  /\ current \in Lists /\ R!Flat(current) \in Ints
  /\ count \in Nat /\ count = Len(R!Flat(current)) /\ count <= T
  /\ current # <<>> => count > 0

IsCut(st, T) ==
  /\ st = CutOf(st.shards, st.current, st.count, st.rest)
  /\ Full(st.shards, T) /\ Filled(st.current, st.count, T) /\ st.rest \in Rests

LEMMA CutFields ==
  ASSUME NEW shards, NEW current, NEW count, NEW rest
  PROVE  LET st == CutOf(shards, current, count, rest)
         IN  st.shards = shards /\ st.current = current /\ st.count = count /\ st.rest = rest
BY DEF CutOf

LEMMA MakeCut ==
  ASSUME NEW shards, NEW current, NEW count, NEW rest, NEW T,
         Full(shards, T), Filled(current, count, T), rest \in Rests
  PROVE  IsCut(CutOf(shards, current, count, rest), T)
BY CutFields DEF IsCut

LEMMA SpecifiedRests ==
  /\ Specified \subseteq Rests /\ Lists \subseteq Seq(Rests)
  /\ \A r \in Specified : R!CountPorts(r) \in Nat \ {0}
<1>1. Specified \subseteq Rests
  BY DEF Specified, Rests, Pairs
<1>2. Lists \subseteq Seq(Rests)
  BY <1>1 DEF Lists
<1>3. \A r \in Specified : R!CountPorts(r) \in Nat \ {0}
  BY DEF Specified, Pairs, R!CountPorts
<1> QED
  BY <1>1, <1>2, <1>3

LEMMA NothingCut ==
  ASSUME NEW T \in Nat
  PROVE  Full(<<>>, T) /\ Filled(<<>>, 0, T) /\ Joined(<<>>) = <<>>
<1>1. <<>> \in Lists /\ <<>> \in Seq(Lists) /\ Len(<<>>) = 0 /\ 1..0 = {}
  BY DEF Lists
<1>2. Joined(<<>>) = <<>>
  <2>1. [i \in 1..Len(<<>>) |-> R!Flat(<<>>[i])] = <<>>
    BY <1>1
  <2> QED
    BY <2>1, FlattenEmpty DEF Joined
<1>3. Full(<<>>, T)
  BY <1>1, <1>2, IntsConcat DEF Full
<1>4. Filled(<<>>, 0, T)
  BY <1>1, FlatEmpty, IntsConcat DEF Filled
<1> QED
  BY <1>2, <1>3, <1>4

LEMMA PutCut ==
  ASSUME NEW T \in Nat, NEW st, IsCut(st, T), NEW r \in Specified,
         st.count + R!CountPorts(r) <= T
  PROVE  /\ R!Put(st, r) = CutOf(st.shards, Append(st.current, r),
                                 st.count + R!CountPorts(r), st.rest)
         /\ IsCut(R!Put(st, r), T)
         /\ Whole(R!Put(st, r)) = Whole(st) \o Ports(r)
<1> DEFINE current == Append(st.current, r)
           count == st.count + R!CountPorts(r)
           longer == [st EXCEPT !.current = current]
<1>1. /\ st = CutOf(st.shards, st.current, st.count, st.rest) /\ st.rest \in Rests
      /\ Full(st.shards, T) /\ Filled(st.current, st.count, T)
  BY DEF IsCut
<1>2. /\ current \in Lists /\ current # <<>>
      /\ R!Flat(current) = R!Flat(st.current) \o Ports(r) /\ Ports(r) \in Ints
      /\ Len(Ports(r)) = R!CountPorts(r) /\ R!CountPorts(r) \in Nat \ {0}
  <2>1. st.current \in Lists
    BY <1>1 DEF Filled
  <2>2. current \in Lists /\ current # <<>>
    BY <2>1 DEF Lists
  <2>3. r \in Rests /\ st.current \in Seq(Rests)
    BY <2>1, SpecifiedRests
  <2> QED
    BY <2>2, <2>3, SpecifiedRests, FlatAppend, PortsLen
<1>3. R!Put(st, r) = [longer EXCEPT !.count = count]
  BY DEF R!Put
<1>4. longer = CutOf(st.shards, current, st.count, st.rest)
  <2> HIDE DEF current
  <2> QED
    BY <1>1 DEF CutOf
<1> HIDE DEF longer, count
<1>5. R!Put(st, r) = CutOf(st.shards, current, count, st.rest)
  <2> HIDE DEF current
  <2> QED
    BY <1>3, <1>4 DEF CutOf
<1> HIDE DEF current
<1>6. Filled(current, count, T)
  <2>1. R!Flat(current) \in Ints /\ Len(R!Flat(current)) = Len(R!Flat(st.current)) + R!CountPorts(r)
    BY <1>1, <1>2, IntsConcat DEF Filled
  <2> QED
    BY <1>1, <1>2, <2>1 DEF Filled, count
<1>7. IsCut(R!Put(st, r), T)
  BY <1>1, <1>5, <1>6, MakeCut
<1>8. Whole(R!Put(st, r)) = Joined(st.shards) \o R!Flat(current)
  BY <1>5, CutFields DEF Whole
<1>9. Joined(st.shards) \o (R!Flat(st.current) \o Ports(r)) = Whole(st) \o Ports(r)
  BY <1>1, <1>2, IntsConcat DEF Whole, Full, Filled
<1> QED
  BY <1>2, <1>5, <1>7, <1>8, <1>9 DEF current, count

LEMMA JoinedAppend ==
  ASSUME NEW T, NEW shards, Full(shards, T), NEW count, NEW list, Filled(list, count, T)
  PROVE  /\ Append(shards, list) \in Seq(Lists)
         /\ Joined(Append(shards, list)) = Joined(shards) \o R!Flat(list)
<1> DEFINE more == Append(shards, list)
           s == [i \in 1..Len(shards) |-> R!Flat(shards[i])]
           t == [i \in 1..Len(more) |-> R!Flat(more[i])]
<1>1. list \in Lists /\ R!Flat(list) \in Ints
  BY DEF Filled
<1>2. shards \in Seq(Lists) /\ \A i \in 1..Len(shards) : shards[i] \in Lists
  BY DEF Full
<1>3. /\ more \in Seq(Lists) /\ Len(more) = Len(shards) + 1 /\ more[Len(shards) + 1] = list
      /\ Len(shards) \in Nat /\ \A i \in 1..Len(shards) : more[i] = shards[i]
  BY <1>1, <1>2
<1> HIDE DEF more
<1>4. \A i \in 1..Len(shards) : R!Flat(shards[i]) \in Ints
  <2> SUFFICES ASSUME NEW i \in 1..Len(shards)
               PROVE  R!Flat(shards[i]) \in Ints
    OBVIOUS
  <2>1. shards[i] \in Seq(Rests)
    BY <1>2, SpecifiedRests
  <2>2. R!Flat(shards[i]) = R!FlattenSeq([j \in 1..Len(shards[i]) |-> Ports(shards[i][j])])
    BY <2>1, FlatIs
  <2> QED
    BY <2>1, <2>2, FlatIs, FlattenType
<1>5. /\ s \in Seq(Ints) /\ Len(s) = Len(shards) /\ t \in Seq(Ints) /\ Len(t) = Len(s) + 1
      /\ t[Len(s) + 1] = R!Flat(list) /\ \A i \in 1..Len(s) : t[i] = s[i]
  <2>1. s \in Seq(Ints) /\ Len(s) = Len(shards)
    BY <1>3, <1>4
  <2>2. \A i \in 1..Len(more) : R!Flat(more[i]) \in Ints
    BY <1>1, <1>3, <1>4
  <2>3. t \in Seq(Ints) /\ Len(t) = Len(more)
    BY <1>3, <2>2
  <2> QED
    BY <1>3, <2>1, <2>3
<1>6. Joined(shards) = R!FlattenSeq(s) /\ Joined(more) = R!FlattenSeq(t)
  BY DEF Joined
<1> HIDE DEF s, t
<1>7. t = Append(s, R!Flat(list))
  BY <1>1, <1>5
<1>8. Joined(more) = Joined(shards) \o R!Flat(list)
  BY <1>1, <1>5, <1>6, <1>7, FlattenAppend
<1> QED
  BY <1>3, <1>8 DEF more

LEMMA CloseFull ==
  ASSUME NEW T \in Nat, NEW shards, Full(shards, T), NEW list, Filled(list, T, T)
  PROVE  /\ Full(Append(shards, list), T)
         /\ Joined(Append(shards, list)) = Joined(shards) \o R!Flat(list)
<1> DEFINE more == Append(shards, list)
<1>1. list \in Lists /\ R!Flat(list) \in Ints /\ Len(R!Flat(list)) = T
  BY DEF Filled
<1>2. /\ shards \in Seq(Lists) /\ Joined(shards) \in Ints /\ Len(Joined(shards)) = Len(shards) * T
      /\ \A i \in 1..Len(shards) : Len(R!Flat(shards[i])) = T
  BY DEF Full
<1>3. /\ Len(more) = Len(shards) + 1 /\ more[Len(shards) + 1] = list
      /\ Len(shards) \in Nat /\ \A i \in 1..Len(shards) : more[i] = shards[i]
  BY <1>1, <1>2
<1>4. more \in Seq(Lists) /\ Joined(more) = Joined(shards) \o R!Flat(list)
  BY JoinedAppend
<1> HIDE DEF more
<1>5. Joined(more) \in Ints /\ Len(Joined(more)) = Len(shards) * T + T
  BY <1>1, <1>2, <1>4, IntsConcat
<1>6. Len(more) * T = Len(shards) * T + T
  BY <1>3
<1>7. \A i \in 1..Len(more) : Len(R!Flat(more[i])) = T
  BY <1>1, <1>2, <1>3
<1> QED
  BY <1>4, <1>5, <1>6, <1>7 DEF Full, more

LEMMA CloseCut ==
  ASSUME NEW T \in Nat, NEW st, IsCut(st, T), st.count = T
  PROVE  /\ R!Close(st) = CutOf(Append(st.shards, st.current), <<>>, 0, st.rest)
         /\ IsCut(R!Close(st), T)
         /\ Whole(R!Close(st)) = Whole(st)
<1> DEFINE shards == Append(st.shards, st.current)
           more == [st EXCEPT !.shards = shards]
           fresh == [more EXCEPT !.current = <<>>]
<1>1. /\ st = CutOf(st.shards, st.current, st.count, st.rest) /\ st.rest \in Rests
      /\ Full(st.shards, T) /\ Filled(st.current, T, T)
  BY DEF IsCut
<1>2. R!Close(st) = [fresh EXCEPT !.count = 0]
  BY DEF R!Close
<1>3. more = CutOf(shards, st.current, st.count, st.rest)
  <2> HIDE DEF shards
  <2> QED
    BY <1>1 DEF CutOf
<1> HIDE DEF more
<1>4. Full(shards, T) /\ Joined(shards) = Joined(st.shards) \o R!Flat(st.current)
  BY <1>1, CloseFull
<1> HIDE DEF shards
<1>5. fresh = CutOf(shards, <<>>, st.count, st.rest)
  BY <1>3 DEF CutOf
<1> HIDE DEF fresh
<1>6. R!Close(st) = CutOf(shards, <<>>, 0, st.rest)
  BY <1>2, <1>5 DEF CutOf
<1>7. IsCut(R!Close(st), T)
  BY <1>1, <1>4, <1>6, NothingCut, MakeCut
<1>8. Whole(R!Close(st)) = Joined(shards) \o R!Flat(<<>>)
  BY <1>6, CutFields DEF Whole
<1>9. Whole(R!Close(st)) = Whole(st)
  BY <1>4, <1>8, FlatEmpty, IntsConcat DEF Whole, Full
<1> QED
  BY <1>6, <1>7, <1>9 DEF shards

-----------------------------------------------------------------------------
(* One turn takes ports from what is left to the current shard.            *)
LEMMA TakePieceCut ==
  ASSUME NEW T \in Nat, NEW st, IsCut(st, T), st.count < T, R!CountPorts(st.rest) > 0
  PROVE  LET next == R!TakePiece(st, T)
         IN  /\ IsCut(next, T)
             /\ Whole(next) \o Ports(next.rest) = Whole(st) \o Ports(st.rest)
             /\ R!CountPorts(next.rest) < R!CountPorts(st.rest)
             /\ R!CountPorts(next.rest) > 0 => next.count < T
<1> DEFINE a == st.rest[1]
           b == st.rest[2]
           left == R!CountPorts(st.rest)
           take == IF left < T - st.count THEN left ELSE T - st.count
           m == a + take - 1
           piece == R!Put(st, <<a, m>>)
           put == [piece EXCEPT !.rest = <<m + 1, b>>]
           next == R!TakePiece(st, T)
<1>1. /\ a \in Int /\ b \in Int /\ st.rest = <<a, b>> /\ a <= b + 1
      /\ st.count \in Nat /\ left = b - a + 1 /\ left \in Nat
      /\ st.rest \in Rests
  BY DEF IsCut, Filled, Rests, Pairs, R!CountPorts
<1>2. /\ take \in Nat \ {0} /\ take <= left /\ st.count + take <= T
      /\ take < left => st.count + take = T
  BY <1>1
<1>3. next = IF put.count >= T /\ left > take THEN R!Close(put) ELSE put
  <2>1. [piece EXCEPT !.rest = <<m + 1, @[2]>>] = [piece EXCEPT !.rest = <<m + 1, piece.rest[2]>>]
    OBVIOUS
  <2>2. IsCut(st, T) => st.rest = <<a, b>>
    BY <1>1
  <2>3. piece.rest = st.rest
    BY DEF R!Put
  <2>4. [piece EXCEPT !.rest = <<m + 1, @[2]>>] = put
    BY <2>1, <2>3
  <2> QED
    BY <2>4 DEF R!TakePiece
<1>4. m \in Int /\ a <= m /\ m <= b /\ m = a + take - 1
  BY <1>1, <1>2
<1> HIDE DEF take, m, next
<1>5. <<a, m>> \in Specified
  BY <1>1, <1>4 DEF Specified, Pairs
<1>6. /\ Ports(st.rest) = Ports(<<a, m>>) \o Ports(<<m + 1, b>>) /\ <<m + 1, b>> \in Rests
      /\ R!CountPorts(<<a, m>>) = take /\ R!CountPorts(<<m + 1, b>>) = left - take
  <2> HIDE DEF left
  <2>1. m - a + 1 = take /\ b - m = left - take
    BY <1>1, <1>2, <1>4
  <2> HIDE DEF a, b
  <2>2. a \in Int /\ m \in Int /\ b \in Int /\ a <= m + 1 /\ m <= b
    BY <1>1, <1>4
  <2>3. /\ Ports(<<a, b>>) = Ports(<<a, m>>) \o Ports(<<m + 1, b>>) /\ <<m + 1, b>> \in Rests
        /\ R!CountPorts(<<a, m>>) = m - a + 1 /\ R!CountPorts(<<m + 1, b>>) = b - m
    BY <2>2, CutPorts
  <2>4. Ports(st.rest) = Ports(<<a, b>>)
    BY <1>1
  <2> QED
    BY <2>1, <2>3, <2>4
<1> HIDE DEF left
<1>7. /\ piece = CutOf(st.shards, Append(st.current, <<a, m>>), st.count + take, st.rest)
      /\ IsCut(piece, T) /\ Whole(piece) = Whole(st) \o Ports(<<a, m>>)
  <2>1. st.count + R!CountPorts(<<a, m>>) <= T
    BY <1>2, <1>6
  <2> HIDE DEF a
  <2> QED
    BY <1>5, <1>6, <2>1, PutCut
<1> DEFINE current == Append(st.current, <<a, m>>)
           count == st.count + take
           rest == <<m + 1, b>>
<1>8. piece = CutOf(st.shards, current, count, st.rest)
  BY <1>7
<1> HIDE DEF piece, current, count, rest
<1>9. put = CutOf(st.shards, current, count, rest)
  BY <1>8 DEF CutOf, rest
<1>10. Full(st.shards, T) /\ Filled(current, count, T)
  BY <1>7, <1>8, CutFields DEF IsCut
<1>11. /\ IsCut(put, T) /\ Whole(put) = Whole(piece) /\ put.rest = rest /\ put.count = count
  <2>1. rest \in Rests
    BY <1>6 DEF rest
  <2>2. IsCut(put, T)
    BY <1>9, <1>10, <2>1, MakeCut
  <2> HIDE DEF put
  <2>3. put.shards = st.shards /\ put.current = current /\ put.rest = rest /\ put.count = count
    BY <1>9, CutFields
  <2>4. piece.shards = st.shards /\ piece.current = current
    BY <1>8, CutFields
  <2> QED
    BY <2>2, <2>3, <2>4 DEF Whole
<1> HIDE DEF put
<1>12. Whole(put) \o Ports(rest) = Whole(st) \o Ports(st.rest)
  <2>1. Whole(st) \in Ints
    BY IntsConcat DEF IsCut, Full, Filled, Whole
  <2>2. <<a, m>> \in Rests /\ rest \in Rests
    BY <1>5, <1>6, SpecifiedRests DEF rest
  <2>3. Ports(<<a, m>>) \in Ints /\ Ports(rest) \in Ints
    BY <2>2, PortsLen
  <2>4. (Whole(st) \o Ports(<<a, m>>)) \o Ports(rest) = Whole(st) \o (Ports(<<a, m>>) \o Ports(rest))
    BY <2>1, <2>3, IntsConcat
  <2> QED
    BY <1>6, <1>7, <1>11, <2>4 DEF rest
<1>13. R!CountPorts(rest) = left - take /\ take \in Nat \ {0} /\ left \in Nat
  BY <1>1, <1>2, <1>6 DEF rest
<1>14. CASE put.count >= T /\ left > take
  <2>1. next = R!Close(put) /\ put.count = T
    BY <1>1, <1>2, <1>3, <1>11, <1>14 DEF count
  <2>2. IsCut(next, T) /\ Whole(next) = Whole(put) /\ next.rest = rest /\ next.count = 0
    BY <1>11, <2>1, CloseCut, CutFields
  <2>3. 0 < T
    BY <1>1
  <2> QED
    BY <1>12, <1>13, <2>2, <2>3 DEF left, next
<1>15. CASE ~(put.count >= T /\ left > take)
  <2>1. next = put
    BY <1>3, <1>15
  <2>2. R!CountPorts(rest) > 0 => left > take
    BY <1>13
  <2>3. left > take => put.count < T
    BY <1>1, <1>2, <1>11, <1>15 DEF count
  <2>4. /\ IsCut(next, T) /\ Whole(next) \o Ports(next.rest) = Whole(st) \o Ports(st.rest)
        /\ R!CountPorts(next.rest) < left
        /\ R!CountPorts(next.rest) > 0 => next.count < T
    <3>1. next.rest = rest
      BY <1>11, <2>1
    <3>2. IsCut(next, T) /\ Whole(next) \o Ports(next.rest) = Whole(st) \o Ports(st.rest)
      BY <1>11, <1>12, <2>1
    <3>3. R!CountPorts(next.rest) < left
      BY <1>13, <3>1
    <3>4. R!CountPorts(next.rest) > 0 => next.count < T
      BY <2>1, <2>2, <2>3, <3>1
    <3> QED
      BY <3>2, <3>3, <3>4
  <2> QED
    BY <2>4 DEF left, next
<1> QED
  BY <1>14, <1>15

LEMMA CutType ==
  ASSUME NEW T, NEW st, IsCut(st, T)
  PROVE  st \in Cuts
<1> DEFINE C == Seq(Pairs)
<1>1. /\ st = CutOf(st.shards, st.current, st.count, st.rest)
      /\ st.shards \in Seq(Lists) /\ st.current \in Lists /\ st.count \in Int /\ st.rest \in Pairs
  BY DEF IsCut, Full, Filled, Rests
<1>2. Lists \subseteq C
  BY DEF Lists, Specified
<1> HIDE DEF C
<1>3. st.shards \in Seq(C) /\ st.current \in C
  BY <1>1, <1>2
<1>4. st \in [shards : Seq(C), current : C, count : Int, rest : Pairs]
  BY <1>1, <1>3 DEF CutOf
<1> QED
  BY <1>4 DEF Cuts, C

(* The turns of the inner loop leave nothing of the range.                 *)
LEMMA SplitCut ==
  ASSUME NEW T \in Nat, NEW st, IsCut(st, T), st.count < T, NEW r \in Specified
  PROVE  LET next == R!Split(st, r, T)
         IN  IsCut(next, T) /\ Whole(next) = Whole(st) \o Ports(r)
<1> DEFINE n == R!CountPorts(r)
           base == [st EXCEPT !.rest = r]
           whole == Whole(st) \o Ports(r)
           Good(u, k) == /\ IsCut(u, T) /\ Whole(u) \o Ports(u.rest) = whole
                         /\ R!CountPorts(u.rest) <= n - k
                         /\ R!CountPorts(u.rest) > 0 => u.count < T
<1>1. n \in Nat /\ r \in Rests /\ T \in Int /\ st \in Cuts
  BY SpecifiedRests, CutType
<1>2. PICK t : SplitChain(t, st, r, T)
  BY <1>1, SplitIs
<1>3. base = CutOf(st.shards, st.current, st.count, r)
  BY DEF IsCut, CutOf
<1>4. /\ t[0] = base /\ R!Split(st, r, T) = t[n]
      /\ \A k \in 1..n : t[k] = IF R!CountPorts(t[k - 1].rest) > 0
                                THEN R!TakePiece(t[k - 1], T) ELSE t[k - 1]
  BY <1>2 DEF SplitChain
<1> HIDE DEF base, n
<1>5. Good(base, 0)
  <2>1. IsCut(base, T)
    BY <1>1, <1>3, MakeCut DEF IsCut
  <2>2. base.shards = st.shards /\ base.current = st.current /\ base.count = st.count /\ base.rest = r
    BY <1>3, CutFields
  <2> QED
    BY <1>1, <2>1, <2>2 DEF Whole, n
<1> DEFINE B == {k \in Nat : k <= n => Good(t[k], k)}
<1>6. 0 \in B
  BY <1>4, <1>5
<1>7. ASSUME NEW k \in B
      PROVE  k + 1 \in B
  <2>1. k \in Nat /\ k + 1 \in Nat /\ (k <= n => Good(t[k], k))
    OBVIOUS
  <2> SUFFICES ASSUME k + 1 <= n
               PROVE  Good(t[k + 1], k + 1)
    BY <2>1
  <2> DEFINE u == t[k]
             v == t[k + 1]
  <2>2. Good(u, k)
    <3>1. k <= n
      BY <1>1, <2>1
    <3> HIDE DEF Good
    <3> QED
      BY <2>1, <3>1
  <2>3. k + 1 \in 1..n /\ (k + 1) - 1 = k
    BY <1>1, <2>1
  <2>4. v = IF R!CountPorts(u.rest) > 0 THEN R!TakePiece(u, T) ELSE u
    BY <1>4, <2>3
  <2> HIDE DEF u, v, whole
  <2>5. R!CountPorts(u.rest) \in Nat
    BY <2>2, PortsLen DEF IsCut
  <2>6. CASE R!CountPorts(u.rest) > 0
    <3>1. v = R!TakePiece(u, T)
      BY <2>4, <2>6
    <3>2. u.count < T
      BY <2>2, <2>6
    <3>3. /\ IsCut(v, T) /\ Whole(v) \o Ports(v.rest) = Whole(u) \o Ports(u.rest)
          /\ R!CountPorts(v.rest) < R!CountPorts(u.rest)
          /\ R!CountPorts(v.rest) > 0 => v.count < T
      BY <2>2, <2>6, <3>1, <3>2, TakePieceCut
    <3>4. R!CountPorts(v.rest) \in Nat
      BY <3>3, PortsLen DEF IsCut
    <3>5. R!CountPorts(v.rest) <= n - (k + 1)
      BY <1>1, <2>1, <2>2, <2>5, <3>3, <3>4
    <3> QED
      BY <2>2, <3>3, <3>5 DEF v
  <2>7. CASE ~(R!CountPorts(u.rest) > 0)
    <3>1. v = u
      BY <2>4, <2>7
    <3>2. R!CountPorts(u.rest) <= n - (k + 1)
      BY <1>1, <2>1, <2>5, <2>7
    <3> QED
      BY <2>2, <3>1, <3>2 DEF v
  <2> QED
    BY <2>6, <2>7
<1>8. B \in SUBSET Nat
  OBVIOUS
<1> HIDE DEF B
<1>9. B = Nat
  BY <1>6, <1>7, <1>8, SetInduction
<1>10. Good(t[n], n)
  BY <1>1, <1>9 DEF B
<1> DEFINE last == t[n]
<1> HIDE DEF last
<1>11. Good(last, n)
  BY <1>10 DEF last
<1>12. last.rest \in Rests /\ R!CountPorts(last.rest) \in Nat /\ Ports(last.rest) \in Ints
       /\ Len(Ports(last.rest)) = R!CountPorts(last.rest)
  BY <1>11, PortsLen DEF IsCut
<1>13. Ports(last.rest) = <<>>
  <2>1. Len(Ports(last.rest)) = 0
    BY <1>1, <1>11, <1>12
  <2> QED
    BY <1>12, <2>1 DEF Ints
<1>14. Whole(last) \in Ints
  BY <1>11, IntsConcat DEF IsCut, Full, Filled, Whole
<1>15. Whole(last) = whole
  BY <1>11, <1>13, <1>14, IntsConcat
<1> QED
  BY <1>4, <1>11, <1>15 DEF last

LEMMA AddSpecCut ==
  ASSUME NEW T \in Nat, NEW st, IsCut(st, T), st.count < T, NEW r \in Specified
  PROVE  LET next == R!AddSpec(st, r, T)
         IN  /\ IsCut(next, T) /\ next.count < T
             /\ Whole(next) = Whole(st) \o Ports(r)
<1> DEFINE mid == IF R!CountPorts(r) <= T - st.count THEN R!Put(st, r) ELSE R!Split(st, r, T)
           next == R!AddSpec(st, r, T)
<1>1. st.count \in Nat /\ R!CountPorts(r) \in Nat
  BY SpecifiedRests DEF IsCut, Filled
<1>2. next = IF mid.count >= T THEN R!Close(mid) ELSE mid
  BY DEF R!AddSpec
<1>3. IsCut(mid, T) /\ Whole(mid) = Whole(st) \o Ports(r)
  <2>1. CASE R!CountPorts(r) <= T - st.count
    <3>1. st.count + R!CountPorts(r) <= T
      BY <1>1, <2>1
    <3>2. mid = R!Put(st, r)
      BY <2>1
    <3> HIDE DEF mid
    <3> QED
      BY <3>1, <3>2, PutCut
  <2>2. CASE ~(R!CountPorts(r) <= T - st.count)
    <3>1. mid = R!Split(st, r, T)
      BY <2>2
    <3> HIDE DEF mid
    <3> QED
      BY <3>1, SplitCut
  <2> QED
    BY <2>1, <2>2
<1> HIDE DEF mid, next
<1>4. mid.count \in Nat /\ mid.count <= T
  BY <1>3 DEF IsCut, Filled
<1>5. CASE mid.count >= T
  <2>1. next = R!Close(mid) /\ mid.count = T
    BY <1>2, <1>4, <1>5
  <2>2. IsCut(next, T) /\ Whole(next) = Whole(mid) /\ next.count = 0
    BY <1>3, <2>1, CloseCut, CutFields
  <2>3. 0 < T
    BY <1>1
  <2> QED
    BY <1>3, <2>2, <2>3 DEF next
<1>6. CASE ~(mid.count >= T)
  <2>1. next = mid /\ mid.count < T
    BY <1>2, <1>4, <1>6
  <2>2. IsCut(next, T) /\ next.count < T /\ Whole(next) = Whole(st) \o Ports(r)
    BY <1>3, <2>1
  <2> QED
    BY <2>2 DEF next
<1> QED
  BY <1>5, <1>6

-----------------------------------------------------------------------------
(* The ports of the first k ranges of a list.                              *)
Firsts(g, list) ==
  /\ g \in [0..Len(list) -> Ints] /\ g[0] = <<>> /\ g[Len(list)] = R!Flat(list)
  /\ \A k \in 1..Len(list) : g[k] = g[k - 1] \o Ports(list[k])

LEMMA FirstsExist ==
  ASSUME NEW list \in Seq(Specified)
  PROVE  \E g : Firsts(g, list)
<1> DEFINE n == Len(list)
           s == [i \in 1..n |-> Ports(list[i])]
<1>1. list \in Seq(Rests) /\ n \in Nat
  BY SpecifiedRests DEF Lists
<1>2. R!Flat(list) = R!FlattenSeq(s) /\ s \in Seq(Ints)
  BY <1>1, FlatIs
<1>3. Len(s) = n /\ \A i \in 1..n : s[i] = Ports(list[i])
  BY <1>1
<1> HIDE DEF s
<1>4. PICK g : FlattensTo(g, s, R!FlattenSeq(s))
  BY <1>2, FlattenSeqIs
<1>5. Firsts(g, list)
  BY <1>2, <1>3, <1>4 DEF FlattensTo, Flattens, Firsts
<1> QED
  BY <1>5

LEMMA TotalIsLength ==
  ASSUME NEW list \in Seq(Specified)
  PROVE  R!Flat(list) \in Ints /\ R!Total(list) = Len(R!Flat(list))
<1> DEFINE n == Len(list)
<1>1. list \in Seq(Pairs) /\ n \in Nat /\ \A k \in 1..n : list[k] \in Rests
  <2>1. Specified \subseteq Pairs
    BY DEF Specified
  <2> QED
    BY <2>1, SpecifiedRests
<1>2. PICK g : Firsts(g, list)
  BY FirstsExist
<1>3. PICK t : TotalChain(t, list)
  BY <1>1, TotalIs
<1> DEFINE B == {k \in Nat : k <= n => t[k] = Len(g[k])}
<1>4. 0 \in B
  BY <1>2, <1>3, IntsConcat DEF Firsts, TotalChain
<1>5. ASSUME NEW k \in B
      PROVE  k + 1 \in B
  <2>1. k \in Nat /\ (k <= n => t[k] = Len(g[k])) /\ (k + 1) - 1 = k
    OBVIOUS
  <2> SUFFICES ASSUME k + 1 <= n
               PROVE  t[k + 1] = Len(g[k + 1])
    BY <2>1
  <2>2. k + 1 \in 1..n /\ k \in 0..n /\ k <= n
    BY <1>1, <2>1
  <2>3. t[k + 1] = t[k] + R!CountPorts(list[k + 1])
    BY <1>3, <2>1, <2>2 DEF TotalChain
  <2>4. g[k + 1] = g[k] \o Ports(list[k + 1]) /\ g[k] \in Ints
    BY <1>2, <2>1, <2>2 DEF Firsts
  <2>5. Ports(list[k + 1]) \in Ints /\ Len(Ports(list[k + 1])) = R!CountPorts(list[k + 1])
    BY <1>1, <2>2, PortsLen
  <2>6. Len(g[k + 1]) = Len(g[k]) + Len(Ports(list[k + 1]))
    BY <2>4, <2>5, IntsConcat
  <2> QED
    BY <2>1, <2>2, <2>3, <2>5, <2>6
<1>6. B \in SUBSET Nat
  OBVIOUS
<1> HIDE DEF B
<1>7. B = Nat
  BY <1>4, <1>5, <1>6, SetInduction
<1>8. t[n] = Len(g[n])
  BY <1>1, <1>7 DEF B
<1> QED
  BY <1>1, <1>2, <1>3, <1>8 DEF TotalChain, Firsts

(* The shards of a list have its ports, in their order; each has its share *)
(* of them, the last one at most.                                          *)
MadeUp(shards, list, parts) ==
  /\ shards \in Seq(Lists) /\ Joined(shards) = R!Flat(list) /\ Len(shards) \in 1..parts
  /\ \A i \in 1..Len(shards) :
       /\ R!Flat(shards[i]) \in Ints /\ R!Flat(shards[i]) # <<>>
       /\ Len(R!Flat(shards[i])) <= R!Target(list, parts)
       /\ i # Len(shards) => Len(R!Flat(shards[i])) = R!Target(list, parts)

LEMMA Share ==
  ASSUME NEW total \in Nat \ {0}, NEW parts \in Nat \ {0}
  PROVE  /\ (total + parts - 1) \div parts \in Nat \ {0}
         /\ total <= parts * ((total + parts - 1) \div parts)
<1> DEFINE a == total + parts - 1
           q == a \div parts
<1>1. a \in Nat /\ parts \in Nat /\ parts > 0 /\ a >= parts
  OBVIOUS
<1>2. q \in Int /\ parts * q <= a /\ a < parts * q + parts
  BY <1>1
<1> HIDE DEF q
<1>3. total <= parts * q
  BY <1>1, <1>2
<1>4. q > 0
  BY <1>1, <1>2, <1>3
<1> QED
  BY <1>2, <1>3, <1>4 DEF q

LEMMA FullFlats ==
  ASSUME NEW T \in Nat \ {0}, NEW shards, Full(shards, T), NEW i \in 1..Len(shards)
  PROVE  R!Flat(shards[i]) \in Ints /\ R!Flat(shards[i]) # <<>> /\ Len(R!Flat(shards[i])) = T
<1>1. shards[i] \in Lists /\ Len(R!Flat(shards[i])) = T
  BY DEF Full
<1>2. R!Flat(shards[i]) \in Ints
  BY <1>1, TotalIsLength DEF Lists
<1> QED
  BY <1>1, <1>2, IntsConcat

LEMMA FlatNotEmpty ==
  ASSUME NEW list \in Lists, list # <<>>
  PROVE  Len(R!Flat(list)) \in Nat \ {0}
<1> DEFINE n == Len(list)
<1>1. n \in Nat \ {0} /\ list[n] \in Specified /\ list \in Seq(Specified)
  BY DEF Lists
<1>2. PICK g : Firsts(g, list)
  BY <1>1, FirstsExist
<1>3. R!Flat(list) = g[n - 1] \o Ports(list[n]) /\ g[n - 1] \in Ints
  BY <1>1, <1>2 DEF Firsts
<1>4. Ports(list[n]) \in Ints /\ Len(Ports(list[n])) \in Nat \ {0}
  BY <1>1, SpecifiedRests, PortsLen
<1>5. Len(R!Flat(list)) = Len(g[n - 1]) + Len(Ports(list[n])) /\ Len(g[n - 1]) \in Nat
  BY <1>3, <1>4, IntsConcat
<1>6. \A x \in Nat, y \in Nat \ {0} : x + y \in Nat \ {0}
  OBVIOUS
<1> QED
  BY <1>4, <1>5, <1>6

LEMMA ShardsMakeUp ==
  ASSUME NEW list \in Seq(Specified), list # <<>>, NEW parts \in Nat \ {0}
  PROVE  MadeUp(R!ShardPorts(list, parts), list, parts)
<1> DEFINE T == R!Target(list, parts)
           n == Len(list)
           shards == R!ShardPorts(list, parts)
           total == Len(R!Flat(list))
<1>1. list \in Lists /\ n \in Nat /\ \A k \in 1..n : list[k] \in Specified
  BY DEF Lists
<1>2. R!Flat(list) \in Ints /\ total \in Nat \ {0} /\ R!Total(list) = total
  BY <1>1, TotalIsLength, FlatNotEmpty
<1>3. T \in Nat \ {0} /\ total <= parts * T
  BY <1>2, Share DEF R!Target
<1>4. T \in Nat
  BY <1>3
<1> HIDE DEF T, n, total
<1>5. CASE parts <= 1
  <2>1. shards = <<list>> /\ parts = 1
    BY <1>5 DEF R!ShardPorts
  <2>2. <<list>> \in Seq(Lists) /\ Len(<<list>>) = 1 /\ <<list>>[1] = list
    BY <1>1
  <2>3. Joined(<<list>>) = R!Flat(list)
    <3>1. [i \in 1..Len(<<list>>) |-> R!Flat(<<list>>[i])] = Append(<<>>, R!Flat(list))
      BY <2>2
    <3>2. <<>> \in Seq(Ints)
      OBVIOUS
    <3>3. R!FlattenSeq(Append(<<>>, R!Flat(list))) = <<>> \o R!Flat(list)
      BY <1>2, <3>2, FlattenEmpty, FlattenAppend
    <3> QED
      BY <1>2, <3>1, <3>3, IntsConcat DEF Joined
  <2>4. Len(R!Flat(list)) <= T
    BY <1>2, <1>3, <2>1 DEF total
  <2>5. R!Flat(list) # <<>>
    BY <1>2, IntsConcat DEF total
  <2>6. MadeUp(<<list>>, list, parts)
    BY <1>2, <2>1, <2>2, <2>3, <2>4, <2>5 DEF MadeUp, T
  <2> QED
    BY <2>1, <2>6
<1>6. CASE ~(parts <= 1)
  <2>1. PICK t : ShardChain(t, list, parts)
    <3>1. parts \in Nat /\ parts > 1
      BY <1>6
    <3> QED
      BY <3>1, ShardPortsIs
  <2>2. PICK g : Firsts(g, list)
    BY FirstsExist
  <2>3. /\ t[0] = CutOf(<<>>, <<>>, 0, <<1, 0>>)
        /\ \A k \in 1..n : t[k] = R!AddSpec(t[k - 1], list[k], T)
        /\ shards = IF t[n].current # <<>> THEN Append(t[n].shards, t[n].current) ELSE t[n].shards
    BY <2>1 DEF ShardChain, CutOf, n, T
  <2> HIDE DEF shards
  <2> DEFINE Good(u, k) == IsCut(u, T) /\ u.count < T /\ Whole(u) = g[k]
             B == {k \in Nat : k <= n => Good(t[k], k)}
  <2>4. Good(t[0], 0)
    <3> DEFINE u == CutOf(<<>>, <<>>, 0, <<1, 0>>)
    <3>1. <<1, 0>> \in Rests
      BY DEF Rests, Pairs
    <3>2. IsCut(u, T)
      BY <1>4, <3>1, NothingCut, MakeCut
    <3>3. u.shards = <<>> /\ u.current = <<>> /\ u.count = 0
      BY CutFields
    <3> HIDE DEF u
    <3>4. Whole(u) = <<>>
      BY <1>4, <3>3, NothingCut, FlatEmpty, IntsConcat DEF Whole
    <3>5. Good(u, 0)
      BY <1>3, <2>2, <3>2, <3>3, <3>4 DEF Firsts
    <3> QED
      BY <2>3, <3>5 DEF u
  <2>5. 0 \in B
    BY <2>4
  <2>6. ASSUME NEW k \in B
        PROVE  k + 1 \in B
    <3>1. k \in Nat /\ (k <= n => Good(t[k], k)) /\ (k + 1) - 1 = k
      OBVIOUS
    <3> SUFFICES ASSUME k + 1 <= n
                 PROVE  Good(t[k + 1], k + 1)
      BY <3>1
    <3>2. k + 1 \in 1..n /\ k <= n
      BY <1>1, <3>1
    <3> DEFINE u == t[k]
               v == t[k + 1]
               r == list[k + 1]
    <3>3. Good(u, k)
      <4> HIDE DEF Good
      <4> QED
        BY <3>1, <3>2
    <3>4. v = R!AddSpec(u, r, T) /\ r \in Specified
      BY <1>1, <2>3, <3>1, <3>2
    <3>5. g[k + 1] = g[k] \o Ports(r)
      BY <2>2, <3>1, <3>2 DEF Firsts, n
    <3> HIDE DEF u, v, r
    <3>6. IsCut(v, T) /\ v.count < T /\ Whole(v) = Whole(u) \o Ports(r)
      BY <1>4, <3>3, <3>4, AddSpecCut
    <3> QED
      BY <3>3, <3>5, <3>6 DEF v
  <2>7. B \in SUBSET Nat
    OBVIOUS
  <2> HIDE DEF B
  <2>8. B = Nat
    BY <2>5, <2>6, <2>7, SetInduction
  <2> DEFINE last == t[n]
             k == Len(last.shards)
  <2>9. Good(last, n)
    BY <1>1, <2>8 DEF B
  <2>10. shards = IF last.current # <<>> THEN Append(last.shards, last.current) ELSE last.shards
    BY <2>3
  <2> HIDE DEF last
  <2>11. Full(last.shards, T) /\ Filled(last.current, last.count, T) /\ last.count < T
    BY <2>9 DEF IsCut
  <2>12. Joined(last.shards) \o R!Flat(last.current) = R!Flat(list)
    BY <2>2, <2>9 DEF Firsts, Whole, n
  <2>13. k \in Nat /\ last.count \in Nat /\ k * T + last.count = total
    <3>1. k \in Nat
      BY <2>11 DEF Full
    <3>3. /\ Joined(last.shards) \in Ints /\ Len(Joined(last.shards)) = k * T
          /\ R!Flat(last.current) \in Ints /\ Len(R!Flat(last.current)) = last.count
      BY <2>11 DEF Full, Filled
    <3> HIDE DEF k
    <3>2. Len(Joined(last.shards) \o R!Flat(last.current)) = k * T + last.count
      <4>1. Len(Joined(last.shards) \o R!Flat(last.current))
              = Len(Joined(last.shards)) + Len(R!Flat(last.current))
        BY <3>3, IntsConcat
      <4> QED
        BY <3>3, <4>1
    <3> QED
      BY <2>11, <2>12, <3>1, <3>2 DEF Filled, total
  <2> HIDE DEF k
  <2>14. \A i \in 1..k : /\ R!Flat(last.shards[i]) \in Ints /\ R!Flat(last.shards[i]) # <<>>
                         /\ Len(R!Flat(last.shards[i])) = T
    BY <1>3, <2>11, FullFlats DEF k
  <2>15. k <= parts
    <3> SUFFICES ASSUME k >= parts + 1
                 PROVE  FALSE
      BY <2>13
    <3>1. k * T >= (parts + 1) * T
      BY <1>3, <2>13
    <3>2. (parts + 1) * T = parts * T + T
      BY <1>3
    <3> QED
      BY <1>3, <2>13, <3>1, <3>2
  <2>16. last.count > 0 => k < parts
    <3> SUFFICES ASSUME k >= parts, last.count > 0
                 PROVE  FALSE
      BY <2>13
    <3>1. k * T >= parts * T
      BY <1>3, <2>13
    <3> QED
      BY <1>3, <2>13, <3>1
  <2>17. CASE last.current = <<>>
    <3>1. shards = last.shards /\ last.count = 0
      BY <2>10, <2>11, <2>17, FlatEmpty, IntsConcat DEF Filled
    <3>2. Joined(shards) = R!Flat(list)
      BY <2>11, <2>12, <2>17, <3>1, FlatEmpty, IntsConcat DEF Full
    <3>3. k > 0
      <4> SUFFICES ASSUME k = 0
                   PROVE  FALSE
        BY <2>13
      <4>1. k * T = 0
        BY <1>3
      <4> QED
        BY <1>2, <2>13, <3>1, <4>1
    <3>4. shards \in Seq(Lists) /\ Len(shards) = k
      BY <2>11, <3>1 DEF Full, k
    <3>5. Len(shards) \in 1..parts
      BY <2>13, <2>15, <3>3, <3>4
    <3>6. \A i \in 1..Len(shards) :
            /\ R!Flat(shards[i]) \in Ints /\ R!Flat(shards[i]) # <<>>
            /\ Len(R!Flat(shards[i])) <= T
            /\ i # Len(shards) => Len(R!Flat(shards[i])) = T
      BY <1>3, <2>14, <3>1, <3>4
    <3> QED
      BY <3>2, <3>4, <3>5, <3>6 DEF MadeUp, T, shards
  <2>18. CASE last.current # <<>>
    <3>1. shards = Append(last.shards, last.current) /\ last.count > 0 /\ last.count = Len(R!Flat(last.current))
      BY <2>10, <2>11, <2>18 DEF Filled
    <3>2. last.shards \in Seq(Lists) /\ last.current \in Lists
      BY <2>11 DEF Full, Filled
    <3>3. /\ shards \in Seq(Lists) /\ Len(shards) = k + 1 /\ shards[k + 1] = last.current
          /\ \A i \in 1..k : shards[i] = last.shards[i]
      BY <2>13, <3>1, <3>2 DEF k
    <3>4. Joined(shards) = R!Flat(list)
      <4>1. Joined(Append(last.shards, last.current)) = Joined(last.shards) \o R!Flat(last.current)
        BY <2>11, JoinedAppend
      <4> QED
        BY <2>12, <3>1, <4>1
    <3>5. Len(shards) \in 1..parts
      BY <2>13, <2>16, <3>1, <3>3
    <3>6. /\ R!Flat(last.current) \in Ints /\ R!Flat(last.current) # <<>>
          /\ Len(R!Flat(last.current)) <= T
      BY <2>11, <3>1, IntsConcat DEF Filled
    <3>7. ASSUME NEW i \in 1..Len(shards)
          PROVE  /\ R!Flat(shards[i]) \in Ints /\ R!Flat(shards[i]) # <<>>
                 /\ Len(R!Flat(shards[i])) <= T
                 /\ i # Len(shards) => Len(R!Flat(shards[i])) = T
      <4>1. CASE i = k + 1
        BY <3>3, <3>6, <4>1
      <4>2. CASE i # k + 1
        <5>1. i \in 1..k
          BY <2>13, <3>3, <4>2
        <5> QED
          BY <1>3, <2>14, <3>3, <5>1
      <4> QED
        BY <4>1, <4>2
    <3>8. shards \in Seq(Lists)
      BY <3>3
    <3> QED
      BY <3>4, <3>5, <3>7, <3>8 DEF MadeUp, T, shards
  <2> QED
    BY <2>17, <2>18 DEF shards
<1> QED
  BY <1>5, <1>6

-----------------------------------------------------------------------------
(* remove_duplicates.                                                      *)

HostLists == Seq(Entries)

Keep(kept, e) ==
  IF \E k \in ToSet(kept) : Normalize(k) = Normalize(e) THEN kept ELSE Append(kept, e)

DedupChain(t, hosts) ==
  /\ t \in [0..Len(hosts) -> HostLists] /\ t[0] = <<>>
  /\ \A k \in 1..Len(hosts) : t[k] = Keep(t[k - 1], hosts[k])
  /\ RemoveDuplicates(hosts) = t[Len(hosts)]

LEMMA KeepType ==
  ASSUME NEW kept \in HostLists, NEW e \in Entries
  PROVE  Keep(kept, e) \in HostLists
BY DEF Keep, HostLists

LEMMA DedupIs ==
  ASSUME NEW hosts \in HostLists
  PROVE  \E t : DedupChain(t, hosts)
<1> DEFINE n == Len(hosts)
           Value(f, s) == IF s = {} THEN <<>> ELSE Keep(f[s \ {Max(s)}], hosts[Max(s)])
           it == CHOOSE f : f = [s \in SUBSET (1..n) |-> Value(f, s)]
           step == [k \in 1..n |-> [x \in HostLists |-> Keep(x, hosts[k])]]
<1>1. n \in Nat /\ DOMAIN hosts = 1..n /\ (\A k \in 1..n : hosts[k] \in Entries) /\ <<>> \in HostLists
  BY DEF HostLists
<1>2. RemoveDuplicates(hosts) = it[1..n]
  BY <1>1 DEF RemoveDuplicates, FoldLeft, MapThenFoldSet, Keep
<1> HIDE DEF n
<1>3. step \in [1..n -> [HostLists -> HostLists]]
  BY <1>1, KeepType
<1>4. PICK f : FoldsList(f, n, HostLists, <<>>, step)
  <2> HIDE DEF step, it
  <2> QED
    BY <1>1, <1>3, ListFold
<1>5. \E g : g = [s \in SUBSET (1..n) |-> Value(g, s)]
  <2>1. ASSUME NEW s \in SUBSET (1..n), s # {}
        PROVE  f[s] = Keep(f[s \ {Max(s)}], hosts[Max(s)])
    BY <1>1, <1>4, <2>1, LastPosition DEF FoldsList
  <2>2. \A s \in SUBSET (1..n) : f[s] = Value(f, s)
    BY <1>4, <2>1 DEF FoldsList
  <2> HIDE DEF Value
  <2>3. f = [s \in SUBSET (1..n) |-> Value(f, s)]
    BY <1>4, <2>2 DEF FoldsList
  <2> QED
    BY <2>3
<1>6. it = [s \in SUBSET (1..n) |-> Value(it, s)]
  <2> HIDE DEF Value
  <2> QED
    BY <1>5
<1> HIDE DEF it
<1>7. it[{}] = <<>>
  BY <1>6
<1>8. ASSUME NEW k \in 1..n
      PROVE  it[1..k] = Keep(it[(1..k) \ {k}], hosts[k])
  <2>1. 1..k \in SUBSET (1..n) /\ 1..k # {} /\ Max(1..k) = k
    BY <1>1, Prefix
  <2> QED
    BY <1>6, <2>1
<1>9. \A k \in 0..n : it[1..k] \in HostLists
  <2>1. \A k \in 1..n : it[(1..k) \ {k}] \in HostLists => it[1..k] \in HostLists
    BY <1>1, <1>8, KeepType
  <2> SUFFICES ASSUME NEW k \in 0..n
               PROVE  it[1..k] \in HostLists
    OBVIOUS
  <2>2. k \in Nat /\ \A j \in 1..k : j \in 1..n
    BY <1>1
  <2>3. \A j \in 1..k : it[(1..j) \ {j}] \in HostLists => it[1..j] \in HostLists
    BY <2>1, <2>2
  <2>4. it[{}] \in HostLists
    BY <1>1, <1>7
  <2> HIDE DEF step, Value
  <2> QED
    BY <2>2, <2>3, <2>4, ListInduction
<1>10. DedupChain(Along(it, n), hosts)
  <2> DEFINE t == Along(it, n)
  <2>1. IsAlong(t, it, n)
    BY <1>1, AlongIs
  <2>2. t \in [0..n -> HostLists]
    BY <1>9 DEF Along
  <2> HIDE DEF t
  <2>3. t[0] = <<>> /\ t[n] = it[1..n]
    BY <1>7, <2>1 DEF IsAlong
  <2>4. \A k \in 1..n : t[k] = Keep(t[k - 1], hosts[k])
    BY <1>8, <2>1 DEF IsAlong
  <2> QED
    BY <1>2, <2>2, <2>3, <2>4 DEF DedupChain, n, t
<1> QED
  BY <1>10

(* What is kept of a list: entries of it, one for each that is in it.      *)
KeptOf(kept, entries) ==
  /\ kept \in HostLists /\ ToSet(kept) \subseteq entries
  /\ \A e \in entries : \E k \in ToSet(kept) : Normalize(k) = Normalize(e)

LEMMA ToSetAppend ==
  ASSUME NEW kept \in HostLists, NEW e \in Entries
  PROVE  Append(kept, e) \in HostLists /\ ToSet(Append(kept, e)) = ToSet(kept) \cup {e}
<1> DEFINE n == Len(kept)
           longer == Append(kept, e)
<1>1. /\ n \in Nat /\ longer \in HostLists /\ Len(longer) = n + 1 /\ longer[n + 1] = e
      /\ \A i \in 1..n : longer[i] = kept[i]
  BY DEF HostLists
<1>2. DOMAIN kept = 1..n /\ DOMAIN longer = 1..(n + 1)
  BY <1>1 DEF HostLists
<1> HIDE DEF longer, n
<1>3. 1..(n + 1) = (1..n) \cup {n + 1}
  BY <1>1
<1> QED
  BY <1>1, <1>2, <1>3 DEF ToSet, longer

LEMMA KeepOne ==
  ASSUME NEW kept, NEW entries, KeptOf(kept, entries), NEW e \in Entries
  PROVE  KeptOf(Keep(kept, e), entries \cup {e})
<1>1. CASE \E k \in ToSet(kept) : Normalize(k) = Normalize(e)
  BY <1>1 DEF Keep, KeptOf
<1>2. CASE ~ \E k \in ToSet(kept) : Normalize(k) = Normalize(e)
  <2>1. Keep(kept, e) = Append(kept, e)
    BY <1>2 DEF Keep
  <2>2. Append(kept, e) \in HostLists /\ ToSet(Append(kept, e)) = ToSet(kept) \cup {e}
    BY ToSetAppend DEF KeptOf
  <2> QED
    BY <2>1, <2>2 DEF KeptOf
<1> QED
  BY <1>1, <1>2

LEMMA DedupKeeps ==
  ASSUME NEW hosts \in HostLists
  PROVE  KeptOf(RemoveDuplicates(hosts), ToSet(hosts))
<1> DEFINE n == Len(hosts)
           Upto(k) == {hosts[i] : i \in 1..k}
<1>1. n \in Nat /\ Upto(n) = ToSet(hosts) /\ \A k \in 1..n : hosts[k] \in Entries
  BY DEF HostLists, ToSet
<1>2. PICK t : DedupChain(t, hosts)
  BY DedupIs
<1> DEFINE B == {k \in Nat : k <= n => KeptOf(t[k], Upto(k))}
<1>3. 0 \in B
  <2>1. Upto(0) = {} /\ t[0] = <<>> /\ <<>> \in HostLists /\ ToSet(<<>>) = {}
    BY <1>2 DEF DedupChain, HostLists, ToSet
  <2>2. KeptOf(t[0], Upto(0))
    <3> HIDE DEF Upto
    <3> QED
      BY <2>1 DEF KeptOf
  <2> QED
    BY <2>2
<1>4. ASSUME NEW k \in B
      PROVE  k + 1 \in B
  <2>1. k \in Nat /\ (k <= n => KeptOf(t[k], Upto(k))) /\ (k + 1) - 1 = k
    OBVIOUS
  <2> SUFFICES ASSUME k + 1 <= n
               PROVE  KeptOf(t[k + 1], Upto(k + 1))
    BY <2>1
  <2>2. k + 1 \in 1..n /\ k <= n
    BY <1>1, <2>1
  <2>3. t[k + 1] = Keep(t[k], hosts[k + 1])
    BY <1>2, <2>1, <2>2 DEF DedupChain
  <2>4. Upto(k + 1) = Upto(k) \cup {hosts[k + 1]}
    <3>1. 1..(k + 1) = (1..k) \cup {k + 1}
      BY <2>1
    <3> QED
      BY <3>1
  <2> HIDE DEF Upto
  <2> QED
    BY <1>1, <2>1, <2>2, <2>3, <2>4, KeepOne
<1>5. B \in SUBSET Nat
  OBVIOUS
<1> HIDE DEF B
<1>6. B = Nat
  BY <1>3, <1>4, <1>5, SetInduction
<1>7. KeptOf(t[n], Upto(n))
  <2> HIDE DEF Upto
  <2> QED
    BY <1>1, <1>6 DEF B
<1> HIDE DEF Upto
<1> QED
  BY <1>1, <1>2, <1>7 DEF DedupChain

LEMMA SameNetwork ==
  ASSUME NEW e \in Entries, NEW k \in Entries, Normalize(k) = Normalize(e)
  PROVE  /\ e.kind = "name" <=> k.kind = "name"
         /\ e.kind = "name" => k.name = e.name
         /\ e.kind # "name" => ExpandCidr(k) = ExpandCidr(e)
<1>1. (e.kind = "name" <=> k.kind = "name") /\ (e.kind = "name" => k.name = e.name)
  BY DEF Normalize
<1>2. ASSUME e.kind # "name"
      PROVE  ExpandCidr(k) = ExpandCidr(e)
  <2>1. k.kind # "name" /\ Network(k) = Network(e)
    BY <1>1, <1>2 DEF Normalize
  <2>2. /\ e.at \in Nat /\ e.size \in Nat \ {0} /\ k.at \in Nat /\ k.size \in Nat \ {0}
    BY <1>2, <2>1 DEF Entries
  <2>3. ASSUME NEW x \in Entries, x.at \in Nat, x.size \in Nat \ {0}
        PROVE  Cardinality(Network(x)) = x.size
    <3> DEFINE first == x.at - (x.at % x.size)
    <3>1. first \in Int
      BY <2>3
    <3> HIDE DEF first
    <3>2. Cardinality(first..(first + x.size - 1)) = (first + x.size - 1) - first + 1
      BY <2>3, <3>1, FS_Interval
    <3> QED
      BY <2>3, <3>1, <3>2 DEF Network, first
  <2>4. k.size = e.size
    BY <2>1, <2>2, <2>3
  <2> QED
    BY <2>1, <2>4 DEF ExpandCidr
<1> QED
  BY <1>1, <1>2

(* Without duplicates, a list stands for the same addresses and hostnames. *)
LEMMA DedupHarmless ==
  ASSUME NEW hosts \in HostLists
  PROVE  LET kept == RemoveDuplicates(hosts)
         IN  /\ UNION {ExpandCidr(e) : e \in Literals(kept)}
                  = UNION {ExpandCidr(e) : e \in Literals(hosts)}
             /\ Pending(kept) = Pending(hosts)
<1> DEFINE kept == RemoveDuplicates(hosts)
<1>1. KeptOf(kept, ToSet(hosts))
  BY DedupKeeps
<1> HIDE DEF kept
<1>2. ToSet(hosts) \subseteq Entries /\ ToSet(kept) \subseteq Entries
  BY <1>1 DEF KeptOf, HostLists, ToSet
<1>3. ASSUME NEW e \in ToSet(hosts)
      PROVE  \E k \in ToSet(kept) : /\ e.kind = "name" <=> k.kind = "name"
                                    /\ e.kind = "name" => k.name = e.name
                                    /\ e.kind # "name" => ExpandCidr(k) = ExpandCidr(e)
  BY <1>1, <1>2, SameNetwork DEF KeptOf
<1>4. UNION {ExpandCidr(e) : e \in Literals(kept)} = UNION {ExpandCidr(e) : e \in Literals(hosts)}
  <2>1. Literals(kept) \subseteq Literals(hosts)
    BY <1>1 DEF KeptOf, Literals
  <2>2. \A e \in Literals(hosts) : \E k \in Literals(kept) : ExpandCidr(k) = ExpandCidr(e)
    BY <1>3 DEF Literals
  <2> QED
    BY <2>1, <2>2
<1>5. Pending(kept) = Pending(hosts)
  <2>1. Pending(kept) \subseteq Pending(hosts)
    BY <1>1 DEF KeptOf, Pending
  <2>2. Pending(hosts) \subseteq Pending(kept)
    BY <1>3 DEF Pending
  <2> QED
    BY <2>1, <2>2
<1> QED
  BY <1>4, <1>5 DEF kept

-----------------------------------------------------------------------------
(* The lookups.                                                            *)

LookupOf(state, failed) == [state |-> state, failed |-> failed]

(* What is known of a hostname that the request lists.                     *)
Asked(l, ips, n, unresolved) ==
  \/ /\ l.state \in {"waiting", "asking", "sleeping"} /\ ips = {} /\ n \notin unresolved
     /\ l.failed \in Nat /\ l.failed < Retries
  \/ /\ l.state = "done" /\ ips # {} /\ n \notin unresolved
     /\ l.failed \in Nat /\ l.failed < Retries
  \/ /\ l.state = "done" /\ ips = {} /\ n \in unresolved /\ l.failed = Retries

LookupInv ==
  /\ lookup = [n \in Names |-> lookup[n]] /\ answers = [n \in Names |-> answers[n]]
  /\ resolved = [a \in UNION {Records[n] : n \in Names} |-> {n \in Names : a \in answers[n]}]
  /\ \A n \in Names : /\ answers[n] \subseteq Records[n]
                      /\ lookup[n] = LookupOf(lookup[n].state, lookup[n].failed)
                      /\ n \in Pending(Deduped) => Asked(lookup[n], answers[n], n, unresolvable)
                      /\ n \notin Pending(Deduped) => lookup[n].state = "done"

(* When the request has been answered, this is what was done and said.     *)
Answered(known, running) ==
  /\ known \subseteq TargetIps /\ running \subseteq TargetIps
  /\ toScan = TargetIps \ (known \cup running)
  /\ response = [summary |-> BuildSummary(known, running, Cardinality(toScan)),
                 skipped |-> known \cup running,
                 private |-> PrivateIpSources,
                 unresolvable |-> unresolvable]

OutcomeInv ==
  /\ pc \in {"resolve", "done", "failed"}
  /\ pc # "resolve" => \A n \in Names : lookup[n].state = "done"
  /\ pc # "done" => toScan = {}
  /\ pc = "done" => \E known, running : Answered(known, running)

RequestInv ==
  /\ request \in Requests /\ Accepts(request)
  /\ LookupInv /\ OutcomeInv

LEMMA LookupFields ==
  ASSUME NEW state, NEW failed
  PROVE  LookupOf(state, failed).state = state /\ LookupOf(state, failed).failed = failed
BY DEF LookupOf

LEMMA InitRequest == Init => RequestInv
<1> SUFFICES ASSUME Init
             PROVE  RequestInv
  OBVIOUS
<1>1. request \in Requests /\ Accepts(request) /\ pc = "resolve" /\ toScan = {}
  BY DEF Init
<1>2. OutcomeInv
  BY <1>1 DEF OutcomeInv
<1>3. LookupInv
  <2>1. Waiting = LookupOf("waiting", 0) /\ [Waiting EXCEPT !.state = "done"] = LookupOf("done", 0)
    BY DEF Waiting, LookupOf
  <2>2. /\ lookup = [n \in Names |-> IF n \in Pending(Deduped) THEN LookupOf("waiting", 0)
                                     ELSE LookupOf("done", 0)]
        /\ answers = [n \in Names |-> {}] /\ unresolvable = {}
        /\ resolved = [a \in UNION {Records[n] : n \in Names} |-> {}]
    BY <2>1 DEF Init
  <2>3. lookup = [n \in Names |-> lookup[n]] /\ answers = [n \in Names |-> answers[n]]
    BY <2>2
  <2>4. resolved = [a \in UNION {Records[n] : n \in Names} |-> {n \in Names : a \in answers[n]}]
    BY <2>2
  <2>5. ASSUME NEW n \in Names
        PROVE  /\ answers[n] \subseteq Records[n]
               /\ lookup[n] = LookupOf(lookup[n].state, lookup[n].failed)
               /\ n \in Pending(Deduped) => Asked(lookup[n], answers[n], n, unresolvable)
               /\ n \notin Pending(Deduped) => lookup[n].state = "done"
    <3>1. CASE n \in Pending(Deduped)
      <4>1. lookup[n] = LookupOf("waiting", 0) /\ answers[n] = {}
        BY <2>2, <3>1
      <4>2. 0 < Retries
        BY RequestAssumption
      <4> QED
        BY <2>2, <3>1, <4>1, <4>2, LookupFields DEF Asked
    <3>2. CASE n \notin Pending(Deduped)
      <4>1. lookup[n] = LookupOf("done", 0) /\ answers[n] = {}
        BY <2>2, <3>2
      <4> QED
        BY <3>2, <4>1, LookupFields
    <3> QED
      BY <3>1, <3>2
  <2> QED
    BY <2>3, <2>4, <2>5 DEF LookupInv
<1> QED
  BY <1>1, <1>2, <1>3 DEF RequestInv

(* A step of one lookup, before the request goes on.                       *)
LookupStep(n, l, ips, unresolved) ==
  /\ UNCHANGED <<request, pc, toScan, response>>
  /\ lookup' = [lookup EXCEPT ![n] = l]
  /\ answers' = [answers EXCEPT ![n] = ips]
  /\ resolved' = [a \in DOMAIN resolved |-> IF a \in ips THEN resolved[a] \cup {n} ELSE resolved[a]]
  /\ unresolvable' = unresolved

LEMMA LookupMoves ==
  ASSUME RequestInv, NEW n \in Names, lookup[n].state # "done",
         NEW state, NEW failed, NEW ips, ips \subseteq Records[n], NEW unresolved,
         LookupStep(n, LookupOf(state, failed), ips, unresolved),
         Asked(LookupOf(state, failed), ips, n, unresolved),
         \A m \in Names \ {n} : m \in unresolved <=> m \in unresolvable
  PROVE  RequestInv'
<1>1. /\ request' = request /\ pc' = pc /\ toScan' = toScan /\ response' = response
      /\ Deduped' = Deduped
  BY DEF LookupStep, Deduped
<1>2. pc = "resolve" /\ n \in Pending(Deduped) /\ answers[n] = {} /\ toScan = {}
  BY DEF RequestInv, LookupInv, OutcomeInv, Asked
<1>3. OutcomeInv'
  BY <1>1, <1>2 DEF OutcomeInv
<1> DEFINE l == LookupOf(state, failed)
<1> HIDE DEF l
<1>4. /\ lookup' = [lookup EXCEPT ![n] = l] /\ answers' = [answers EXCEPT ![n] = ips]
      /\ unresolvable' = unresolved
  BY DEF LookupStep, l
<1>5. /\ lookup = [m \in Names |-> lookup[m]] /\ answers = [m \in Names |-> answers[m]]
  BY DEF RequestInv, LookupInv
<1>6. /\ lookup' = [m \in Names |-> lookup'[m]] /\ answers' = [m \in Names |-> answers'[m]]
      /\ lookup'[n] = l /\ answers'[n] = ips
      /\ \A m \in Names \ {n} : lookup'[m] = lookup[m] /\ answers'[m] = answers[m]
  BY <1>4, <1>5
<1>7. resolved' = [a \in UNION {Records[m] : m \in Names} |-> {m \in Names : a \in answers'[m]}]
  <2> DEFINE Ips == UNION {Records[m] : m \in Names}
  <2>1. resolved = [a \in Ips |-> {m \in Names : a \in answers[m]}]
    BY DEF RequestInv, LookupInv
  <2>2. resolved' = [a \in Ips |-> IF a \in ips THEN resolved[a] \cup {n} ELSE resolved[a]]
    BY <2>1 DEF LookupStep
  <2>3. \A a \in Ips : (IF a \in ips THEN resolved[a] \cup {n} ELSE resolved[a])
                         = {m \in Names : a \in answers'[m]}
    BY <1>2, <1>6, <2>1
  <2> HIDE DEF Ips
  <2>4. resolved' = [a \in Ips |-> {m \in Names : a \in answers'[m]}]
    BY <2>2, <2>3
  <2> QED
    BY <2>4 DEF Ips
<1>8. ASSUME NEW m \in Names
      PROVE  /\ answers'[m] \subseteq Records[m]
             /\ lookup'[m] = LookupOf(lookup'[m].state, lookup'[m].failed)
             /\ m \in Pending(Deduped) => Asked(lookup'[m], answers'[m], m, unresolvable')
             /\ m \notin Pending(Deduped) => lookup'[m].state = "done"
  <2>1. CASE m = n
    BY <1>2, <1>4, <1>6, <2>1, LookupFields DEF l
  <2>2. CASE m # n
    <3>1. /\ answers[m] \subseteq Records[m]
          /\ lookup[m] = LookupOf(lookup[m].state, lookup[m].failed)
          /\ m \in Pending(Deduped) => Asked(lookup[m], answers[m], m, unresolvable)
          /\ m \notin Pending(Deduped) => lookup[m].state = "done"
      BY DEF RequestInv, LookupInv
    <3>2. Asked(lookup[m], answers[m], m, unresolvable) => Asked(lookup[m], answers[m], m, unresolvable')
      BY <1>4, <2>2 DEF Asked
    <3>3. lookup'[m] = lookup[m] /\ answers'[m] = answers[m]
      BY <1>6, <2>2
    <3> QED
      BY <3>1, <3>2, <3>3
  <2> QED
    BY <2>1, <2>2
<1>9. LookupInv'
  BY <1>1, <1>6, <1>7, <1>8 DEF LookupInv
<1>10. request' \in Requests /\ Accepts(request')
  BY <1>1 DEF RequestInv
<1> QED
  BY <1>3, <1>9, <1>10 DEF RequestInv

(* A lookup that goes on, or gives up.                                     *)
LEMMA NoAnswerMoves ==
  ASSUME RequestInv, NEW n \in Names, lookup[n].state # "done",
         NEW state, NEW failed, NEW unresolved,
         UNCHANGED <<request, pc, resolved, answers, toScan, response>>,
         lookup' = [lookup EXCEPT ![n] = LookupOf(state, failed)], unresolvable' = unresolved,
         Asked(LookupOf(state, failed), {}, n, unresolved),
         \A m \in Names \ {n} : m \in unresolved <=> m \in unresolvable
  PROVE  RequestInv'
<1>1. answers[n] = {}
  BY DEF RequestInv, LookupInv, Asked
<1>2. answers' = [answers EXCEPT ![n] = {}]
  <2>1. answers = [m \in Names |-> answers[m]]
    BY DEF RequestInv, LookupInv
  <2> QED
    BY <1>1, <2>1
<1>3. resolved' = [a \in DOMAIN resolved |-> IF a \in {} THEN resolved[a] \cup {n} ELSE resolved[a]]
  <2>1. resolved = [a \in UNION {Records[m] : m \in Names} |-> {m \in Names : a \in answers[m]}]
    BY DEF RequestInv, LookupInv
  <2>2. resolved = [a \in DOMAIN resolved |-> resolved[a]]
    BY <2>1
  <2> QED
    BY <2>2
<1>4. LookupStep(n, LookupOf(state, failed), {}, unresolved)
  BY <1>2, <1>3 DEF LookupStep
<1>5. {} \subseteq Records[n]
  OBVIOUS
<1> QED
  BY <1>4, <1>5, LookupMoves

LEMMA LookupMoved ==
  ASSUME NEW r, NEW state, NEW failed, r = LookupOf(state, failed), NEW new
  PROVE  [r EXCEPT !.state = new] = LookupOf(new, failed)
<1>1. DOMAIN r = {"state", "failed"} /\ r = [f \in {"state", "failed"} |-> r[f]] /\ r.failed = failed
  BY DEF LookupOf
<1>2. [r EXCEPT !.state = new] = [f \in {"state", "failed"} |-> IF f = "state" THEN new ELSE failed]
  BY <1>1
<1>3. LookupOf(new, failed) = [f \in {"state", "failed"} |-> IF f = "state" THEN new ELSE failed]
  BY DEF LookupOf
<1> QED
  BY <1>2, <1>3

LEMMA LookupIs ==
  ASSUME RequestInv, NEW n \in Names, lookup[n].state # "done"
  PROVE  /\ lookup[n] = LookupOf(lookup[n].state, lookup[n].failed)
         /\ n \notin unresolvable
         /\ lookup[n].failed \in Nat /\ lookup[n].failed < Retries
         /\ lookup = [m \in Names |-> lookup[m]]
BY DEF RequestInv, LookupInv, Asked

LEMMA StartLookupInv ==
  ASSUME RequestInv, NEW n \in Names, StartLookup(n)
  PROVE  RequestInv'
<1> DEFINE l == LookupOf("asking", lookup[n].failed)
<1>1. lookup[n].state # "done"
  BY DEF StartLookup, Acquire
<1>2. [lookup[n] EXCEPT !.state = "asking"] = l
  BY <1>1, LookupIs, LookupMoved
<1>3. lookup' = [lookup EXCEPT ![n] = [lookup[n] EXCEPT !.state = "asking"]]
  BY DEF StartLookup
<1>4. lookup' = [lookup EXCEPT ![n] = l]
  BY <1>2, <1>3
<1>5. Asked(l, {}, n, unresolvable)
  BY <1>1, LookupIs, LookupFields DEF Asked
<1>6. UNCHANGED <<request, pc, resolved, answers, toScan, response>> /\ unresolvable' = unresolvable
  BY DEF StartLookup
<1> QED
  BY <1>1, <1>4, <1>5, <1>6, NoAnswerMoves

LEMMA WakeInv ==
  ASSUME RequestInv, NEW n \in Names, Wake(n)
  PROVE  RequestInv'
<1> DEFINE l == LookupOf("asking", lookup[n].failed)
<1>1. lookup[n].state # "done"
  BY DEF Wake
<1>2. [lookup[n] EXCEPT !.state = "asking"] = l
  BY <1>1, LookupIs, LookupMoved
<1>3. lookup' = [lookup EXCEPT ![n] = [lookup[n] EXCEPT !.state = "asking"]]
  BY DEF Wake
<1>4. lookup' = [lookup EXCEPT ![n] = l]
  BY <1>2, <1>3
<1>5. Asked(l, {}, n, unresolvable)
  BY <1>1, LookupIs, LookupFields DEF Asked
<1>6. UNCHANGED <<request, pc, resolved, answers, toScan, response>> /\ unresolvable' = unresolvable
  BY DEF Wake
<1> QED
  BY <1>1, <1>4, <1>5, <1>6, NoAnswerMoves

LEMMA AttemptFailsInv ==
  ASSUME RequestInv, NEW n \in Names, AttemptFails(n)
  PROVE  RequestInv'
<1> DEFINE failed == lookup[n].failed + 1
           last == failed = Retries
           state == IF last THEN "done" ELSE "sleeping"
           unresolved == IF last THEN unresolvable \cup {n} ELSE unresolvable
           l == LookupOf(state, failed)
<1>1. lookup[n].state # "done"
  BY DEF AttemptFails
<1>2. failed \in Nat /\ (failed = Retries \/ failed < Retries) /\ n \notin unresolvable
  BY <1>1, LookupIs, RequestAssumption
<1>3. lookup' = [lookup EXCEPT ![n] = l] /\ unresolvable' = unresolved
  BY DEF AttemptFails, LookupOf
<1>4. Asked(l, {}, n, unresolved)
  <2>1. l.state = state /\ l.failed = failed
    BY LookupFields
  <2> HIDE DEF l
  <2>2. CASE last
    BY <2>1, <2>2 DEF Asked
  <2>3. CASE ~last
    BY <1>2, <2>1, <2>3 DEF Asked
  <2> QED
    BY <2>2, <2>3
<1>5. \A m \in Names \ {n} : m \in unresolved <=> m \in unresolvable
  OBVIOUS
<1>6. UNCHANGED <<request, pc, resolved, answers, toScan, response>>
  BY DEF AttemptFails
<1> HIDE DEF unresolved, state, failed
<1> QED
  BY <1>1, <1>3, <1>4, <1>5, <1>6, NoAnswerMoves

LEMMA AnswerInv ==
  ASSUME RequestInv, NEW n \in Names, Answer(n)
  PROVE  RequestInv'
<1> DEFINE l == LookupOf("done", lookup[n].failed)
<1>1. lookup[n].state # "done" /\ Records[n] # {}
  BY DEF Answer
<1>2. PICK ips \in IF request.single THEN {{a} : a \in Records[n]} ELSE {Records[n]} :
        /\ answers' = [answers EXCEPT ![n] = ips]
        /\ resolved' = [a \in DOMAIN resolved |-> IF a \in ips THEN AddIp(resolved[a], n) ELSE resolved[a]]
  BY DEF Answer
<1>3. ips \subseteq Records[n] /\ ips # {}
  BY <1>1
<1>4. [lookup[n] EXCEPT !.state = "done"] = l
  BY <1>1, LookupIs, LookupMoved
<1>5. lookup' = [lookup EXCEPT ![n] = [lookup[n] EXCEPT !.state = "done"]]
  BY DEF Answer
<1>6. lookup' = [lookup EXCEPT ![n] = l]
  BY <1>4, <1>5
<1>7. Asked(l, ips, n, unresolvable)
  BY <1>1, <1>3, LookupIs, LookupFields DEF Asked
<1>8. UNCHANGED <<request, pc, toScan, response>> /\ unresolvable' = unresolvable
  BY DEF Answer
<1>9. LookupStep(n, l, ips, unresolvable)
  BY <1>2, <1>6, <1>8 DEF LookupStep, AddIp
<1> QED
  BY <1>1, <1>3, <1>7, <1>9, LookupMoves

LEMMA FinishInv ==
  ASSUME RequestInv, Finish
  PROVE  RequestInv'
<1>1. /\ UNCHANGED <<request, lookup, resolved, unresolvable, answers>>
      /\ Deduped' = Deduped /\ \A n \in Names : lookup[n].state = "done"
  BY DEF Finish, Start, CallFails, Resolved, Deduped
<1>2. LookupInv'
  BY <1>1 DEF RequestInv, LookupInv
<1>3. request' \in Requests /\ Accepts(request')
  BY <1>1 DEF RequestInv
<1>4. CASE \E known \in SUBSET TargetIps, running \in SUBSET TargetIps : Start(known, running)
  <2>1. PICK known \in SUBSET TargetIps, running \in SUBSET TargetIps : Start(known, running)
    BY <1>4
  <2>2. /\ TargetIps' = TargetIps /\ PrivateIpSources' = PrivateIpSources
        /\ \A count : BuildSummary(known, running, count)' = BuildSummary(known, running, count)
    BY <1>1 DEF TargetIps, PrivateIpSources, BuildSummary, Named, NamesOf
  <2>3. Answered(known, running)'
    BY <1>1, <2>1, <2>2 DEF Start, Answered, BuildSummary
  <2> QED
    BY <1>1, <1>2, <1>3, <2>1, <2>3 DEF Start, RequestInv, OutcomeInv
<1>5. CASE CallFails
  BY <1>1, <1>2, <1>3, <1>5 DEF CallFails, Resolved, RequestInv, OutcomeInv
<1> QED
  BY <1>4, <1>5 DEF Finish

LEMMA NextRequest == RequestInv /\ [Next]_vars => RequestInv'
<1> SUFFICES ASSUME RequestInv, [Next]_vars
             PROVE  RequestInv'
  OBVIOUS
<1>1. ASSUME NEW n \in Names, Lookup(n)
      PROVE  RequestInv'
  <2>1. CASE StartLookup(n)
    BY <2>1, StartLookupInv
  <2>2. CASE Answer(n)
    BY <2>2, AnswerInv
  <2>3. CASE NoAddress(n)
    BY <2>3, AttemptFailsInv DEF NoAddress
  <2>4. CASE TimesOut(n)
    BY <2>4, AttemptFailsInv DEF TimesOut
  <2>5. CASE Wake(n)
    BY <2>5, WakeInv
  <2> QED
    BY <1>1, <2>1, <2>2, <2>3, <2>4, <2>5 DEF Lookup
<1>2. CASE Finish
  BY <1>2, FinishInv
<1>3. CASE UNCHANGED vars
  <2>1. UNCHANGED <<request, pc, lookup, resolved, unresolvable, answers, toScan, response>>
    BY <1>3 DEF vars
  <2>2. Deduped' = Deduped
    BY <2>1 DEF Deduped
  <2>3. LookupInv'
    BY <2>1, <2>2 DEF RequestInv, LookupInv
  <2>4. /\ TargetIps' = TargetIps /\ PrivateIpSources' = PrivateIpSources
        /\ \A known, running, count :
             BuildSummary(known, running, count)' = BuildSummary(known, running, count)
    BY <2>1, <2>2 DEF TargetIps, PrivateIpSources, BuildSummary, Named, NamesOf
  <2>5. \A known, running : Answered(known, running) => Answered(known, running)'
    BY <2>1, <2>4 DEF Answered
  <2>6. OutcomeInv'
    BY <2>1, <2>5 DEF RequestInv, OutcomeInv
  <2> QED
    BY <2>1, <2>3, <2>6 DEF RequestInv
<1> QED
  BY <1>1, <1>2, <1>3 DEF Next

(* The invariant always holds.                                             *)
LEMMA RequestInvariant == Spec => []RequestInv
BY InitRequest, NextRequest, PTL DEF Spec

-----------------------------------------------------------------------------
(* The outcome.                                                            *)

LEMMA BodyTypes ==
  ASSUME RequestInv
  PROVE  /\ request.hosts \in HostLists /\ Retries \in Nat \ {0}
         /\ request.ports \in Seq(Specified) /\ request.ports # <<>>
         /\ ShardCount \in Nat \ {0}
<1>1. request.hosts \in HostLists /\ request.ports \in Seq(Int \X Int) /\ request.shards \in Int
  BY RequestAssumption DEF RequestInv, HostLists
<1>2. request.ports # <<>> /\ request.shards >= 1 /\ \A i \in DOMAIN request.ports : ValidPort(request.ports[i])
  BY DEF RequestInv, Accepts
<1>3. request.ports \in Seq(Specified)
  <2>1. \A i \in 1..Len(request.ports) : request.ports[i] \in Specified
    BY <1>1, <1>2 DEF ValidPort, Specified, Pairs
  <2>2. Len(request.ports) \in Nat /\ request.ports \in [1..Len(request.ports) -> Specified]
    BY <1>1, <2>1
  <2> QED
    BY <2>2, SeqDef
<1> QED
  BY <1>1, <1>2, <1>3, RequestAssumption DEF ShardCount

(* What the targets are, in terms of the request and of what DNS answered. *)
LEMMA TargetsAre ==
  ASSUME RequestInv
  PROVE  /\ TargetIps = Wanted \ Private /\ DOMAIN PrivateIpSources = Wanted \cap Private
         /\ Pending(Deduped) = Pending(request.hosts) /\ Pending(Deduped) \subseteq Names
<1> DEFINE literal == UNION {ExpandCidr(e) : e \in Literals(Deduped)}
<1>1. request.hosts \in HostLists
  BY BodyTypes
<1>2. literal = UNION {ExpandCidr(e) : e \in Literals(request.hosts)} /\ Pending(Deduped) = Pending(request.hosts)
  BY <1>1, DedupHarmless DEF Deduped
<1>3. Listed = literal
  BY <1>2 DEF Listed, Literals, ToSet
<1>4. Named = UNION {answers[n] : n \in Names}
  <2>1. /\ resolved = [a \in UNION {Records[n] : n \in Names} |-> {n \in Names : a \in answers[n]}]
        /\ \A n \in Names : answers[n] \subseteq Records[n]
    BY DEF RequestInv, LookupInv
  <2>2. DOMAIN resolved = UNION {Records[n] : n \in Names}
    BY <2>1
  <2>3. \A a \in DOMAIN resolved : resolved[a] = {n \in Names : a \in answers[n]}
    BY <2>1, <2>2
  <2>4. \A a : a \in Named <=> \E n \in Names : a \in answers[n]
    BY <2>1, <2>2, <2>3 DEF Named
  <2> QED
    BY <2>4
<1>5. PublicIps(Deduped) = literal \ Private /\ PrivateIps(Deduped) = literal \cap Private
  BY DEF PublicIps, PrivateIps
<1>6. Pending(request.hosts) \subseteq Names
  <2>1. \A i \in DOMAIN request.hosts : request.hosts[i] \in Entries
    BY <1>1 DEF HostLists
  <2> QED
    BY <2>1 DEF Pending, ToSet, Entries
<1> HIDE DEF literal
<1>7. Wanted = literal \cup Named
  BY <1>3, <1>4 DEF Wanted
<1>8. TargetIps = Wanted \ Private
  BY <1>5, <1>7 DEF TargetIps
<1>9. DOMAIN PrivateIpSources = Wanted \cap Private
  BY <1>5, <1>7 DEF PrivateIpSources
<1> QED
  BY <1>2, <1>6, <1>8, <1>9

LEMMA TargetsFinite ==
  ASSUME RequestInv
  PROVE  IsFiniteSet(TargetIps)
<1> DEFINE lit == Literals(request.hosts)
           net == [e \in lit |-> ExpandCidr(e)]
           found == [n \in Names |-> answers[n]]
<1>1. IsFiniteSet(lit) /\ lit \subseteq Entries
  <2>1. IsFiniteSet(ToSet(request.hosts)) /\ ToSet(request.hosts) \subseteq Entries
    BY BodyTypes, ListedFinite DEF HostLists, ToSet
  <2>2. lit \subseteq ToSet(request.hosts)
    BY DEF Literals
  <2> QED
    BY <2>1, <2>2, FS_Subset
<1>2. ASSUME NEW e \in lit
      PROVE  IsFiniteSet(ExpandCidr(e))
  <2>1. e \in Entries /\ e.kind # "name"
    BY <1>1 DEF Literals
  <2>2. e.at \in Nat /\ e.size \in Nat \ {0}
    BY <2>1 DEF Entries
  <2>3. IsFiniteSet(Network(e))
    <3> DEFINE first == e.at - (e.at % e.size)
    <3>1. first \in Int /\ first + e.size - 1 \in Int
      BY <2>2
    <3> HIDE DEF first
    <3>2. IsFiniteSet(first..(first + e.size - 1))
      BY <3>1, FS_Interval
    <3> QED
      BY <3>2 DEF Network, first
  <2>4. ExpandCidr(e) \subseteq Network(e)
    BY DEF ExpandCidr
  <2> QED
    BY <2>3, <2>4, FS_Subset
<1>3. IsFiniteSet({ExpandCidr(e) : e \in lit})
  <2> HIDE DEF lit
  <2>1. net \in Surjection(lit, {ExpandCidr(e) : e \in lit})
    BY DEF Surjection
  <2> QED
    BY <1>1, <2>1, FS_Surjection
<1>4. IsFiniteSet(UNION {ExpandCidr(e) : e \in lit})
  <2> HIDE DEF lit
  <2> QED
    BY <1>2, <1>3, FS_UNION
<1>5. IsFiniteSet(UNION {answers[n] : n \in Names})
  <2>1. found \in Surjection(Names, {answers[n] : n \in Names})
    BY DEF Surjection
  <2>2. IsFiniteSet({answers[n] : n \in Names})
    BY <2>1, RequestAssumption, FS_Surjection
  <2>3. \A n \in Names : IsFiniteSet(answers[n])
    <3>1. \A n \in Names : IsFiniteSet(Records[n]) /\ answers[n] \subseteq Records[n]
      BY RequestAssumption DEF RequestInv, LookupInv
    <3> QED
      BY <3>1, FS_Subset
  <2> QED
    BY <2>2, <2>3, FS_UNION
<1>6. Listed = UNION {ExpandCidr(e) : e \in lit}
  BY DEF Listed, Literals, ToSet
<1>7. IsFiniteSet(Wanted)
  BY <1>4, <1>5, <1>6, FS_Union DEF Wanted
<1> QED
  BY <1>7, TargetsAre, FS_Difference

LEMMA StartedCount ==
  ASSUME NEW targets, IsFiniteSet(targets), NEW known \in SUBSET targets, NEW running \in SUBSET targets
  PROVE  Cardinality(targets \ (known \cup running))
           = Cardinality(targets) - (Cardinality(known \ running) + Cardinality(running))
<1>1. IsFiniteSet(known) /\ IsFiniteSet(running)
  BY FS_Subset
<1>2. IsFiniteSet(known \ running)
  BY <1>1, FS_Difference
<1>3. Cardinality((known \ running) \cup running)
        = Cardinality(known \ running) + Cardinality(running) - Cardinality((known \ running) \cap running)
  BY <1>1, <1>2, FS_Union
<1>4. (known \ running) \cup running = known \cup running /\ (known \ running) \cap running = {}
  OBVIOUS
<1>5. Cardinality(known \cup running) = Cardinality(known \ running) + Cardinality(running)
  <2>1. Cardinality((known \ running) \cap running) = 0
    BY <1>4, FS_EmptySet
  <2>2. Cardinality(known \ running) \in Nat /\ Cardinality(running) \in Nat
    BY <1>1, <1>2, FS_CardinalityType
  <2>3. \A x, y \in Nat : x + y - 0 = x + y
    OBVIOUS
  <2> QED
    BY <1>3, <1>4, <2>1, <2>2, <2>3
<1>6. Cardinality(targets \ (known \cup running))
        = Cardinality(targets) - Cardinality(targets \cap (known \cup running))
  BY FS_Difference
<1>7. targets \cap (known \cup running) = known \cup running
  OBVIOUS
<1> QED
  BY <1>5, <1>6, <1>7

LEMMA TasksAre ==
  ASSUME RequestInv
  PROVE  LET shards == R!ShardPorts(request.ports, ShardCount)
         IN  /\ MadeUp(shards, request.ports, ShardCount)
             /\ DOMAIN shards = 1..Len(shards) /\ DOMAIN Tasks = toScan \X (1..Len(shards))
             /\ \A t \in DOMAIN Tasks :
                  Tasks[t] = [ports |-> shards[t[2]], hostnames |-> PublicIpHostnames[t[1]]]
<1> DEFINE shards == R!ShardPorts(request.ports, ShardCount)
<1>1. MadeUp(shards, request.ports, ShardCount)
  BY BodyTypes, ShardsMakeUp
<1>2. Tasks = [t \in toScan \X DOMAIN shards |->
                 [ports |-> shards[t[2]], hostnames |-> PublicIpHostnames[t[1]]]]
  BY DEF Tasks
<1> HIDE DEF shards
<1>3. DOMAIN shards = 1..Len(shards)
  BY <1>1 DEF MadeUp
<1>4. DOMAIN Tasks = toScan \X (1..Len(shards))
  BY <1>2, <1>3
<1>5. \A t \in DOMAIN Tasks :
        Tasks[t] = [ports |-> shards[t[2]], hostnames |-> PublicIpHostnames[t[1]]]
  BY <1>2
<1> QED
  BY <1>1, <1>3, <1>4, <1>5 DEF shards

LEMMA AccountedInv ==
  ASSUME RequestInv
  PROVE  TargetsAccounted
<1> SUFFICES ASSUME pc = "done"
             PROVE  TargetsAccounted
  BY DEF TargetsAccounted
<1>1. PICK known, running : Answered(known, running)
  BY DEF RequestInv, OutcomeInv
<1>2. /\ known \subseteq TargetIps /\ running \subseteq TargetIps
      /\ toScan = TargetIps \ (known \cup running)
      /\ response.skipped = known \cup running /\ response.private = PrivateIpSources
      /\ response.unresolvable = unresolvable
      /\ response.summary = BuildSummary(known, running, Cardinality(toScan))
  BY <1>1 DEF Answered
<1>3. {t[1] : t \in DOMAIN Tasks} = toScan
  <2> DEFINE m == Len(R!ShardPorts(request.ports, ShardCount))
  <2>1. DOMAIN Tasks = toScan \X (1..m)
    BY TasksAre
  <2>2. m \in 1..ShardCount /\ ShardCount \in Nat
    BY TasksAre, BodyTypes DEF MadeUp
  <2> HIDE DEF m
  <2>3. 1 \in 1..m
    BY <2>2
  <2>4. \A a \in toScan : <<a, 1>> \in DOMAIN Tasks /\ <<a, 1>>[1] = a
    BY <2>1, <2>3
  <2>5. \A t \in DOMAIN Tasks : t[1] \in toScan
    BY <2>1
  <2> QED
    BY <2>4, <2>5
<1>4. ASSUME NEW n \in Pending(request.hosts)
      PROVE  /\ (answers[n] = {}) = (n \in response.unresolvable)
             /\ (answers[n] = {}) = (lookup[n].failed = Retries)
  <2>1. n \in Names /\ n \in Pending(Deduped)
    BY TargetsAre
  <2>2. Asked(lookup[n], answers[n], n, unresolvable) /\ lookup[n].state = "done"
    BY <2>1 DEF RequestInv, LookupInv, OutcomeInv
  <2>3. \/ answers[n] # {} /\ n \notin unresolvable /\ lookup[n].failed \in Nat /\ lookup[n].failed < Retries
        \/ answers[n] = {} /\ n \in unresolvable /\ lookup[n].failed = Retries
    BY <2>2 DEF Asked
  <2>4. lookup[n].failed \in Nat /\ lookup[n].failed < Retries => lookup[n].failed # Retries
    BY BodyTypes
  <2> QED
    BY <1>2, <2>3, <2>4
<1>5. response.summary.started
        = response.summary.target_ips
            - (response.summary.already_known + response.summary.already_running)
  <2>1. /\ response.summary.started = Cardinality(toScan)
        /\ response.summary.target_ips = Cardinality(TargetIps)
        /\ response.summary.already_known = Cardinality(known \ running)
        /\ response.summary.already_running = Cardinality(running)
    BY <1>2 DEF BuildSummary, CountKnown
  <2>2. Cardinality(toScan)
          = Cardinality(TargetIps) - (Cardinality(known \ running) + Cardinality(running))
    BY <1>2, TargetsFinite, StartedCount
  <2> QED
    BY <2>1, <2>2
<1>6. TargetIps = Wanted \ Private /\ DOMAIN PrivateIpSources = Wanted \cap Private
  BY TargetsAre
<1>7. toScan \cup response.skipped = Wanted \ Private /\ toScan \cap response.skipped = {}
  BY <1>2, <1>6
<1>8. DOMAIN response.private = Wanted \cap Private
  BY <1>2, <1>6
<1> QED
  BY <1>3, <1>4, <1>5, <1>7, <1>8 DEF TargetsAccounted

(* run_scan: whatever hosts are listed, however their lookups interleave   *)
(* and whatever is known or running, each address a request stands for is  *)
(* scanned, skipped or reported as private, once; every hostname was       *)
(* answered or is reported; the summary adds up.                           *)
THEOREM EveryTargetAccounted == Spec => []TargetsAccounted
BY RequestInvariant, AccountedInv, PTL

LEMMA SameFlatten == \A s : FlattenSeq(s) = R!FlattenSeq(s)
BY DEF FlattenSeq, R!FlattenSeq

LEMMA MadeUpInv ==
  ASSUME RequestInv
  PROVE  TasksMakeUpRequest
<1> DEFINE shards == R!ShardPorts(request.ports, ShardCount)
           m == Len(shards)
           share == R!Target(request.ports, ShardCount)
           ShardsOf(t) == {u[2] : u \in {u \in DOMAIN Tasks : u[1] = t[1]}}
           Flats(t, s) == R!Flat(Tasks[<<t[1], s>>].ports)
<1>1. MadeUp(shards, request.ports, ShardCount) /\ DOMAIN Tasks = toScan \X (1..m)
  BY TasksAre
<1>2. \A t \in DOMAIN Tasks :
        Tasks[t] = [ports |-> shards[t[2]], hostnames |-> PublicIpHostnames[t[1]]]
  BY TasksAre
<1>3. request.mode = "insert" => ShardCount = 1
  BY DEF ShardCount
<1>4. /\ Joined(shards) = R!Flat(request.ports) /\ m \in 1..ShardCount /\ ShardCount \in Nat \ {0}
      /\ \A i \in 1..m : /\ R!Flat(shards[i]) # <<>> /\ Len(R!Flat(shards[i])) <= share
                         /\ i # m => Len(R!Flat(shards[i])) = share
  BY <1>1, BodyTypes DEF MadeUp
<1>5. R!FlattenSeq([i \in 1..m |-> R!Flat(shards[i])]) = R!Flat(request.ports)
  BY <1>4 DEF Joined
<1> HIDE DEF shards, m, share
<1> SUFFICES ASSUME NEW t \in DOMAIN Tasks
             PROVE  LET last == Cardinality(ShardsOf(t))
                    IN  /\ FlattenSeq([s \in 1..last |-> Flats(t, s)]) = R!Flat(request.ports)
                        /\ Tasks[t].hostnames = {n \in Names : t[1] \in answers[n]}
                        /\ last <= ShardCount /\ (request.mode = "insert" => last = 1)
                        /\ \A s \in ShardsOf(t) : Flats(t, s) # <<>> /\ Len(Flats(t, s)) <= share
                        /\ \A s \in ShardsOf(t) \ {last} : Len(Flats(t, s)) = share
  BY DEF TasksMakeUpRequest, share
<1>6. t[1] \in toScan /\ m \in Nat \ {0} /\ m <= ShardCount
  BY <1>1, <1>4
<1>7. ShardsOf(t) = 1..m
  <2>1. \A s \in 1..m : <<t[1], s>> \in {u \in DOMAIN Tasks : u[1] = t[1]} /\ <<t[1], s>>[2] = s
    BY <1>1, <1>6
  <2>2. \A u \in DOMAIN Tasks : u[2] \in 1..m
    BY <1>1
  <2> QED
    BY <2>1, <2>2
<1>8. Cardinality(1..m) = m
  BY <1>6, FS_Interval
<1>9. \A s \in 1..m : Flats(t, s) = R!Flat(shards[s])
  <2> SUFFICES ASSUME NEW s \in 1..m
               PROVE  Flats(t, s) = R!Flat(shards[s])
    OBVIOUS
  <2>1. <<t[1], s>> \in DOMAIN Tasks /\ <<t[1], s>>[2] = s
    BY <1>1, <1>6
  <2>2. Tasks[<<t[1], s>>].ports = shards[s]
    BY <1>2, <2>1
  <2> QED
    BY <2>2
<1>10. Tasks[t].hostnames = {n \in Names : t[1] \in answers[n]}
  <2>1. toScan \subseteq TargetIps
    BY <1>6 DEF RequestInv, OutcomeInv, Answered
  <2>2. Tasks[t].hostnames = NamesOf(t[1])
    <3>1. Tasks[t].hostnames = PublicIpHostnames[t[1]]
      <4>1. Tasks[t] = [ports |-> shards[t[2]], hostnames |-> PublicIpHostnames[t[1]]]
        BY <1>2
      <4> QED
        BY <4>1
    <3>2. t[1] \in TargetIps
      BY <1>6, <2>1
    <3> QED
      BY <3>1, <3>2 DEF PublicIpHostnames
  <2>3. /\ resolved = [a \in UNION {Records[n] : n \in Names} |-> {n \in Names : a \in answers[n]}]
        /\ \A n \in Names : answers[n] \subseteq Records[n]
    BY DEF RequestInv, LookupInv
  <2>4. CASE t[1] \in Named
    BY <2>2, <2>3, <2>4 DEF NamesOf, Named
  <2>5. CASE t[1] \notin Named
    <3>1. NamesOf(t[1]) = {}
      BY <2>5 DEF NamesOf
    <3>2. \A n \in Names : t[1] \notin answers[n]
      BY <2>3, <2>5 DEF Named
    <3> QED
      BY <2>2, <3>1, <3>2
  <2> QED
    BY <2>4, <2>5
<1> HIDE DEF ShardsOf, Flats
<1>11. FlattenSeq([s \in 1..m |-> Flats(t, s)]) = R!Flat(request.ports)
  <2>1. [s \in 1..m |-> Flats(t, s)] = [i \in 1..m |-> R!Flat(shards[i])]
    BY <1>9
  <2> QED
    BY <1>5, <2>1, SameFlatten
<1>12. m <= ShardCount /\ (request.mode = "insert" => m = 1)
  BY <1>3, <1>4, <1>6
<1>13. \A s \in 1..m : Flats(t, s) # <<>> /\ Len(Flats(t, s)) <= share
  BY <1>4, <1>9
<1>14. \A s \in (1..m) \ {m} : Len(Flats(t, s)) = share
  BY <1>4, <1>9
<1> QED
  BY <1>7, <1>8, <1>10, <1>11, <1>12, <1>13, <1>14

(* _build_tasks, shard_ports: for any list of ranges and any number of     *)
(* shards, the tasks of an address scan the ports of the request, in the   *)
(* order listed, in shares of the same size, with the hostnames that DNS   *)
(* gave for the address.                                                   *)
THEOREM TasksScanRequest == Spec => []TasksMakeUpRequest
BY RequestInvariant, MadeUpInv, PTL
=============================================================================
