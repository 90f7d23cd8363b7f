----------------------------- MODULE DumpProofs -----------------------------
(***************************************************************************)
(* Proofs about Dump, for any number of threads, any memory map and any    *)
(* number of writes of the target.                                         *)
(***************************************************************************)
EXTENDS Dump, FiniteSetTheorems, TLAPS

(* Induction: a set of natural numbers that is not empty has a least one. *)

LEMMA LeastNat ==
  ASSUME NEW T \in SUBSET Nat, T # {}
  PROVE  \E n \in T : \A m \in T : n <= m
<1> DEFINE R == OpToRel(<, Nat)
<1>1. IsWellFoundedOn(R, Nat)
  BY NatLessThanWellFounded
<1>2. \A m, n \in Nat : <<m, n>> \in R <=> m < n
  BY DEF OpToRel
<1> HIDE DEF R
<1>3. PICK n \in T : \A m \in T : ~(<<m, n>> \in R)
  BY <1>1, WFMin
<1>4. ASSUME NEW m \in T PROVE n <= m
  <2>1. m \in Nat /\ n \in Nat /\ ~(m < n)
    BY <1>2, <1>3
  <2> QED
    BY <2>1
<1> QED
  BY <1>4

----------------------------------------------------------------------------
(* Sequences. *)

LEMMA SameElements ==
  ASSUME NEW S, NEW s \in Seq(S), NEW t \in Seq(S), Len(s) = Len(t),
         \A i \in 1 .. Len(s) : s[i] = t[i]
  PROVE  s = t
OBVIOUS

LEMMA SubSeqFacts ==
  ASSUME NEW S, NEW s \in Seq(S), NEW m \in Nat \ {0}, NEW n \in Nat, n <= Len(s), m <= n + 1
  PROVE  /\ SubSeq(s, m, n) \in Seq(S)
         /\ Len(SubSeq(s, m, n)) = n + 1 - m
         /\ \A i \in 1 .. (n + 1 - m) : SubSeq(s, m, n)[i] = s[m + i - 1]
<1>1. \A i \in m .. n : i \in 1 .. Len(s)
  OBVIOUS
<1>2. \A i \in m .. n : s[i] \in S
  BY <1>1
<1>3. SubSeq(s, m, n) \in Seq(S)
  BY <1>2
<1>4. Len(SubSeq(s, m, n)) = n + 1 - m
  OBVIOUS
<1> QED
  BY <1>3, <1>4

LEMMA ConcatFacts ==
  ASSUME NEW S, NEW s \in Seq(S), NEW t \in Seq(S)
  PROVE  /\ s \o t \in Seq(S)
         /\ Len(s \o t) = Len(s) + Len(t)
         /\ Len(s) \in Nat /\ Len(t) \in Nat
         /\ \A i \in 1 .. Len(s) : (s \o t)[i] = s[i]
         /\ \A i \in 1 .. Len(t) : (s \o t)[Len(s) + i] = t[i]
OBVIOUS

LEMMA AppendFacts ==
  ASSUME NEW S, NEW s \in Seq(S), NEW x \in S
  PROVE  /\ Append(s, x) \in Seq(S)
         /\ Len(Append(s, x)) = Len(s) + 1
         /\ Len(s) \in Nat /\ DOMAIN s = 1 .. Len(s)
         /\ DOMAIN Append(s, x) = 1 .. (Len(s) + 1)
         /\ \A i \in 1 .. Len(s) : Append(s, x)[i] = s[i]
         /\ Append(s, x)[Len(s) + 1] = x
OBVIOUS

\* A part of a sequence is its first element and the rest of the part.
LEMMA ConsSubSeq ==
  ASSUME NEW S, NEW s \in Seq(S), NEW k \in Nat \ {0}, NEW m \in Nat, k <= m, m <= Len(s)
  PROVE  <<s[k]>> \o SubSeq(s, k + 1, m) = SubSeq(s, k, m)
<1> DEFINE rest == SubSeq(s, k + 1, m)
           part == SubSeq(s, k, m)
<1>1. /\ part \in Seq(S) /\ Len(part) = m + 1 - k
      /\ \A i \in 1 .. (m + 1 - k) : part[i] = s[k + i - 1]
  BY SubSeqFacts
<1>2. /\ rest \in Seq(S) /\ Len(rest) = m - k
      /\ \A i \in 1 .. (m - k) : rest[i] = s[k + i]
  <2>1. k + 1 \in Nat \ {0} /\ k + 1 <= m + 1
    OBVIOUS
  <2>2. /\ rest \in Seq(S) /\ Len(rest) = m + 1 - (k + 1)
        /\ \A i \in 1 .. (m + 1 - (k + 1)) : rest[i] = s[k + 1 + i - 1]
    BY <2>1, SubSeqFacts
  <2>3. m + 1 - (k + 1) = m - k /\ \A i \in 1 .. (m - k) : k + 1 + i - 1 = k + i
    OBVIOUS
  <2> QED
    BY <2>2, <2>3
<1>3. <<s[k]>> \in Seq(S) /\ Len(<<s[k]>>) = 1 /\ <<s[k]>>[1] = s[k]
  <2>1. k \in 1 .. Len(s)
    OBVIOUS
  <2>2. s[k] \in S
    BY <2>1
  <2> QED
    BY <2>2
<1> HIDE DEF rest, part
<1>4. /\ <<s[k]>> \o rest \in Seq(S)
      /\ Len(<<s[k]>> \o rest) = 1 + (m - k)
      /\ (<<s[k]>> \o rest)[1] = s[k]
      /\ \A i \in 1 .. (m - k) : (<<s[k]>> \o rest)[1 + i] = rest[i]
  BY <1>2, <1>3, ConcatFacts
<1>5. ASSUME NEW i \in 1 .. (m + 1 - k) PROVE (<<s[k]>> \o rest)[i] = part[i]
  <2>1. CASE i = 1
    <3>1. part[1] = s[k + 1 - 1] /\ k + 1 - 1 = k
      BY <1>1, <2>1
    <3> QED
      BY <1>4, <2>1, <3>1
  <2>2. CASE i # 1
    <3>1. i - 1 \in 1 .. (m - k) /\ 1 + (i - 1) = i /\ k + (i - 1) = k + i - 1
      BY <2>2
    <3>2. (<<s[k]>> \o rest)[i] = rest[i - 1]
      BY <1>4, <3>1
    <3>3. rest[i - 1] = s[k + i - 1]
      BY <1>2, <3>1
    <3> QED
      BY <1>1, <3>2, <3>3
  <2> QED
    BY <2>1, <2>2
<1>6. 1 + (m - k) = m + 1 - k
  OBVIOUS
<1>7. <<s[k]>> \o rest = part
  BY <1>1, <1>4, <1>5, <1>6, SameElements
<1> QED
  BY <1>7 DEF rest, part

\* The beginning of a beginning, and a sequence with the beginning of another one.
LEMMA SubSeqTwice ==
  ASSUME NEW S, NEW s \in Seq(S), NEW m \in 0 .. Len(s), NEW n \in 0 .. Len(SubSeq(s, 1, m))
  PROVE  n \in 0 .. Len(s) /\ SubSeq(SubSeq(s, 1, m), 1, n) = SubSeq(s, 1, n)
<1> DEFINE t == SubSeq(s, 1, m)
<1>1. m \in Nat /\ m <= Len(s) /\ Len(s) \in Nat /\ 1 <= m + 1 /\ 1 \in Nat \ {0}
  OBVIOUS
<1>2. /\ t \in Seq(S) /\ Len(t) = m + 1 - 1
      /\ \A i \in 1 .. (m + 1 - 1) : t[i] = s[1 + i - 1]
  BY <1>1, SubSeqFacts
<1> HIDE DEF t
<1>3. Len(t) = m /\ \A i \in 1 .. m : t[i] = s[i]
  BY <1>1, <1>2
<1>4. n \in Nat /\ n <= m /\ 1 <= n + 1
  BY <1>1, <1>3 DEF t
<1>5. /\ SubSeq(t, 1, n) \in Seq(S) /\ Len(SubSeq(t, 1, n)) = n + 1 - 1
      /\ \A i \in 1 .. (n + 1 - 1) : SubSeq(t, 1, n)[i] = t[1 + i - 1]
  BY <1>1, <1>2, <1>3, <1>4, SubSeqFacts
<1>6. n <= Len(s)
  BY <1>1, <1>4
<1>7. /\ SubSeq(s, 1, n) \in Seq(S) /\ Len(SubSeq(s, 1, n)) = n + 1 - 1
      /\ \A i \in 1 .. (n + 1 - 1) : SubSeq(s, 1, n)[i] = s[1 + i - 1]
  BY <1>1, <1>4, <1>6, SubSeqFacts
<1>8. ASSUME NEW i \in 1 .. n PROVE SubSeq(t, 1, n)[i] = SubSeq(s, 1, n)[i]
  <2>1. i \in 1 .. (n + 1 - 1) /\ i \in 1 .. m /\ 1 + i - 1 = i
    BY <1>1, <1>4
  <2> QED
    BY <1>3, <1>5, <1>7, <2>1
<1>9. Len(SubSeq(t, 1, n)) = n /\ Len(SubSeq(s, 1, n)) = n
  BY <1>4, <1>5, <1>7
<1>10. SubSeq(t, 1, n) = SubSeq(s, 1, n)
  BY <1>5, <1>7, <1>8, <1>9, SameElements
<1> QED
  BY <1>1, <1>4, <1>6, <1>10 DEF t

LEMMA ConcatSubSeq ==
  ASSUME NEW S, NEW s \in Seq(S), NEW t \in Seq(S), NEW n \in Nat, n <= Len(t)
  PROVE  s \o SubSeq(t, 1, n) = SubSeq(s \o t, 1, Len(s) + n)
<1> DEFINE part == SubSeq(t, 1, n)
           all == s \o t
<1>1. 1 \in Nat \ {0} /\ 1 <= n + 1 /\ n + 1 - 1 = n /\ \A i \in 1 .. n : 1 + i - 1 = i
  OBVIOUS
<1>2. /\ part \in Seq(S) /\ Len(part) = n + 1 - 1
      /\ \A i \in 1 .. (n + 1 - 1) : part[i] = t[1 + i - 1]
  BY <1>1, SubSeqFacts
<1> HIDE DEF part
<1>3. Len(part) = n /\ \A i \in 1 .. n : part[i] = t[i]
  BY <1>1, <1>2
<1>4. /\ all \in Seq(S) /\ Len(all) = Len(s) + Len(t) /\ Len(s) \in Nat /\ Len(t) \in Nat
      /\ \A i \in 1 .. Len(s) : all[i] = s[i]
      /\ \A i \in 1 .. Len(t) : all[Len(s) + i] = t[i]
  BY ConcatFacts
<1>5. /\ s \o part \in Seq(S) /\ Len(s \o part) = Len(s) + n
      /\ \A i \in 1 .. Len(s) : (s \o part)[i] = s[i]
      /\ \A i \in 1 .. n : (s \o part)[Len(s) + i] = part[i]
  <2>1. part \in Seq(S)
    BY <1>2
  <2>2. /\ s \o part \in Seq(S) /\ Len(s \o part) = Len(s) + Len(part)
        /\ \A i \in 1 .. Len(s) : (s \o part)[i] = s[i]
        /\ \A i \in 1 .. Len(part) : (s \o part)[Len(s) + i] = part[i]
    BY <2>1, ConcatFacts
  <2> QED
    BY <1>3, <2>2
<1> HIDE DEF all
<1> DEFINE m == Len(s) + n
<1>6. m \in Nat /\ m <= Len(all) /\ 1 <= m + 1 /\ m + 1 - 1 = m
      /\ \A i \in 1 .. m : 1 + i - 1 = i
  BY <1>4
<1> HIDE DEF m
<1>7. /\ SubSeq(all, 1, m) \in Seq(S) /\ Len(SubSeq(all, 1, m)) = m + 1 - 1
      /\ \A i \in 1 .. (m + 1 - 1) : SubSeq(all, 1, m)[i] = all[1 + i - 1]
  BY <1>1, <1>4, <1>6, SubSeqFacts
<1>8. ASSUME NEW i \in 1 .. m PROVE (s \o part)[i] = SubSeq(all, 1, m)[i]
  <2>1. SubSeq(all, 1, m)[i] = all[i]
    BY <1>6, <1>7
  <2>2. CASE i \in 1 .. Len(s)
    BY <1>4, <1>5, <2>1, <2>2
  <2>3. CASE i \notin 1 .. Len(s)
    <3>1. i - Len(s) \in 1 .. n /\ i - Len(s) \in 1 .. Len(t) /\ Len(s) + (i - Len(s)) = i
      BY <1>4, <2>3 DEF m
    <3> QED
      BY <1>3, <1>4, <1>5, <2>1, <3>1
  <2> QED
    BY <2>2, <2>3
<1>9. Len(s \o part) = m /\ Len(SubSeq(all, 1, m)) = m
  BY <1>5, <1>6, <1>7 DEF m
<1>10. s \o part = SubSeq(all, 1, m)
  BY <1>5, <1>7, <1>8, <1>9, SameElements
<1> QED
  BY <1>10 DEF part, all, m

----------------------------------------------------------------------------
(* Loading a stream. *)

\* One step of the loop that loads s, if f says what follows.
Load(s, f, i) ==
  IF i > Len(s) THEN {<<>>}
  ELSE IF HasRegion(s, i)
  THEN {<<Region(s, i)>> \o rest : rest \in f[i + 2 + s[i + 1]]}
  ELSE {}

LEMMA NextRegion ==
  ASSUME NEW s \in Seq(Nat), NEW i \in 1 .. Len(s), HasRegion(s, i)
  PROVE  i + 2 + s[i + 1] \in (i + 1) .. (Len(s) + 1)
<1>1. Len(s) \in Nat /\ i \in Nat /\ i + 1 \in 1 .. Len(s)
  BY DEF HasRegion
<1>2. s[i + 1] \in Nat
  BY <1>1
<1>3. i + 1 + s[i + 1] <= Len(s)
  BY DEF HasRegion
<1> QED
  BY <1>1, <1>2, <1>3

\* The recursion of LoadFrom has a solution: by induction on the length of the
\* rest of the stream.
LEMMA LoadSolution ==
  ASSUME NEW s \in Seq(Nat)
  PROVE  \E f : f = [i \in 1 .. (Len(s) + 1) |-> Load(s, f, i)]
<1> DEFINE n == Len(s)
           Solves(f, m) == f = [i \in (n + 1 - m) .. (n + 1) |-> Load(s, f, i)]
           Bad == {m \in 0 .. n : ~ \E f : Solves(f, m)}
<1>0. n \in Nat
  OBVIOUS
<1>1. SUFFICES ASSUME Bad # {} PROVE FALSE
  <2>1. n \notin Bad /\ n \in 0 .. n
    BY <1>0, <1>1
  <2>2. \E f : Solves(f, n)
    BY <2>1
  <2>3. n + 1 - n = 1
    BY <1>0
  <2> QED
    BY <2>2, <2>3
<1>2. PICK m \in Bad : \A k \in Bad : m <= k
  <2>1. Bad \subseteq Nat
    BY <1>0
  <2> HIDE DEF Bad
  <2> QED
    BY <1>1, <2>1, LeastNat
<1>3. m \in 0 .. n /\ ~ \E f : Solves(f, m)
  OBVIOUS
<1>4. CASE m = 0
  <2> DEFINE f == [i \in (n + 1 - m) .. (n + 1) |-> {<<>>}]
  <2>1. \A i \in (n + 1 - m) .. (n + 1) : i > n
    BY <1>0, <1>4
  <2>2. \A i \in (n + 1 - m) .. (n + 1) : Load(s, f, i) = {<<>>}
    BY <2>1 DEF Load
  <2> HIDE DEF f
  <2>3. Solves(f, m)
    BY <2>2 DEF f
  <2> QED
    BY <1>3, <2>3
<1>5. CASE m # 0
  <2>1. m - 1 \in 0 .. n /\ ~(m <= m - 1)
    BY <1>0, <1>3, <1>5
  <2>2. m - 1 \notin Bad
    BY <1>2, <2>1
  <2>3. PICK g : Solves(g, m - 1)
    BY <2>1, <2>2
  <2> DEFINE first == n + 1 - m
             h == [i \in first .. (n + 1) |-> IF i = first THEN Load(s, g, i) ELSE g[i]]
  <2>4. first \in 1 .. n /\ first \in Nat /\ n + 1 - (m - 1) = first + 1
    BY <1>0, <1>3, <1>5
  <2>5. g = [i \in (first + 1) .. (n + 1) |-> Load(s, g, i)]
    BY <2>3, <2>4
  <2> HIDE DEF first
  <2>6. ASSUME NEW i \in first .. (n + 1) PROVE Load(s, h, i) = Load(s, g, i)
    <3>1. CASE i > n
      BY <3>1 DEF Load
    <3>2. CASE ~(i > n) /\ HasRegion(s, i)
      <4>1. i \in 1 .. n
        BY <1>0, <2>4, <3>2
      <4>2. i + 2 + s[i + 1] \in (i + 1) .. (n + 1)
        BY <3>2, <4>1, NextRegion
      <4>3. i + 2 + s[i + 1] \in first .. (n + 1) /\ i + 2 + s[i + 1] # first
        <5>1. \A j \in (i + 1) .. (n + 1) : j \in first .. (n + 1) /\ j # first
          BY <1>0, <2>4, <4>1
        <5> QED
          BY <4>2, <5>1
      <4>4. h[i + 2 + s[i + 1]] = g[i + 2 + s[i + 1]]
        BY <4>3
      <4> HIDE DEF h
      <4> QED
        BY <4>4 DEF Load
    <3>3. CASE ~(i > n) /\ ~HasRegion(s, i)
      BY <3>3 DEF Load
    <3> QED
      BY <3>1, <3>2, <3>3
  <2>7. ASSUME NEW i \in first .. (n + 1) PROVE h[i] = Load(s, g, i)
    <3>1. CASE i = first
      BY <3>1
    <3>2. CASE i # first
      <4>1. i \in (first + 1) .. (n + 1)
        BY <1>0, <2>4, <3>2
      <4> QED
        BY <2>5, <3>2, <4>1
    <3> QED
      BY <3>1, <3>2
  <2>8. h = [i \in first .. (n + 1) |-> Load(s, h, i)]
    BY <2>6, <2>7
  <2>9. \E f : Solves(f, m)
    BY <2>8 DEF first
  <2> QED
    BY <1>3, <2>9
<1> QED
  BY <1>4, <1>5

LEMMA LoadRecursion ==
  ASSUME NEW s \in Seq(Nat), NEW i \in 1 .. (Len(s) + 1)
  PROVE  LoadFrom(s)[i] = Load(s, LoadFrom(s), i)
<1>1. PICK f : f = [j \in 1 .. (Len(s) + 1) |-> Load(s, f, j)]
  BY LoadSolution
<1>2. LoadFrom(s) = [j \in 1 .. (Len(s) + 1) |-> Load(s, LoadFrom(s), j)]
  BY <1>1 DEF LoadFrom, Load
<1> QED
  BY <1>2

Regions == [line : Nat, data : Seq(Nat)]

\* s is the records of regs, one after another, at the places pos.
Streams(s, regs, pos) ==
  /\ s \in Seq(Nat)
  /\ regs \in Seq(Regions)
  /\ pos \in [1 .. (Len(regs) + 1) -> 1 .. (Len(s) + 1)]
  /\ pos[1] = 1
  /\ pos[Len(regs) + 1] = Len(s) + 1
  /\ \A k \in 1 .. Len(regs) :
       /\ pos[k + 1] = pos[k] + 2 + Len(regs[k].data)
       /\ s[pos[k]] = regs[k].line
       /\ s[pos[k] + 1] = Len(regs[k].data)
       /\ \A j \in 1 .. Len(regs[k].data) : s[pos[k] + 1 + j] = regs[k].data[j]

LEMMA RegionIs ==
  ASSUME NEW p \in Seq(Nat), NEW i \in Nat \ {0}, NEW d \in Seq(Nat),
         p[i + 1] = Len(d), i + 1 + Len(d) <= Len(p),
         \A j \in 1 .. Len(d) : p[i + 1 + j] = d[j]
  PROVE  Region(p, i) = [line |-> p[i], data |-> d]
<1>0. Len(d) \in Nat /\ Len(p) \in Nat
  OBVIOUS
<1> DEFINE part == SubSeq(p, i + 2, i + 1 + Len(d))
<1>1. \A e \in Nat : i + 1 + e + 1 - (i + 2) = e /\ i + 2 <= i + 1 + e + 1
  OBVIOUS
<1>2. i + 2 \in Nat \ {0} /\ \A e \in Nat : i + 1 + e \in Nat
  OBVIOUS
<1>3. \A j \in Nat : i + 2 + j - 1 = i + 1 + j
  OBVIOUS
<1>4. i + 1 + Len(d) + 1 - (i + 2) = Len(d) /\ i + 2 <= i + 1 + Len(d) + 1
  BY <1>0, <1>1
<1>5. i + 1 + Len(d) \in Nat
  BY <1>0, <1>2
<1>6. /\ part \in Seq(Nat) /\ Len(part) = i + 1 + Len(d) + 1 - (i + 2)
      /\ \A j \in 1 .. (i + 1 + Len(d) + 1 - (i + 2)) : part[j] = p[i + 2 + j - 1]
  BY <1>2, <1>4, <1>5, SubSeqFacts
<1> HIDE DEF part
<1>7. part \in Seq(Nat) /\ Len(part) = Len(d)
  BY <1>4, <1>6
<1>8. ASSUME NEW j \in 1 .. Len(d) PROVE part[j] = d[j]
  <2>1. part[j] = p[i + 2 + j - 1]
    BY <1>4, <1>6
  <2>2. i + 2 + j - 1 = i + 1 + j
    BY <1>0, <1>3
  <2> QED
    BY <2>1, <2>2
<1>9. part = d
  BY <1>7, <1>8, SameElements
<1> QED
  BY <1>9 DEF Region, part

\* The region at the place i of the stream p is r, and the next one is at the place
\* i2, unless the stream ends before.
RegionHere(p, i, i2, r) ==
  /\ HasRegion(p, i) <=> i2 <= Len(p) + 1
  /\ HasRegion(p, i) => Region(p, i) = r /\ i + 2 + p[i + 1] = i2

LEMMA RegionAt ==
  ASSUME NEW s, NEW regs, NEW pos, Streams(s, regs, pos),
         NEW n \in 0 .. Len(s), NEW p, p = SubSeq(s, 1, n),
         NEW k \in 1 .. Len(regs), pos[k] <= n
  PROVE  RegionHere(p, pos[k], pos[k + 1], regs[k])
<1> DEFINE i == pos[k]
           d == regs[k].data
<1>1. s \in Seq(Nat) /\ Len(s) \in Nat /\ n \in Nat /\ n <= Len(s) /\ Len(regs) \in Nat
  BY DEF Streams
<1>2. /\ p \in Seq(Nat) /\ Len(p) = n
      /\ \A j \in 1 .. n : p[j] = s[j]
  <2>1. 1 \in Nat \ {0} /\ 1 <= n + 1 /\ n + 1 - 1 = n /\ \A j \in 1 .. n : 1 + j - 1 = j
    BY <1>1
  <2>2. /\ SubSeq(s, 1, n) \in Seq(Nat) /\ Len(SubSeq(s, 1, n)) = n + 1 - 1
        /\ \A j \in 1 .. (n + 1 - 1) : SubSeq(s, 1, n)[j] = s[1 + j - 1]
    BY <1>1, <2>1, SubSeqFacts
  <2> QED
    BY <2>1, <2>2
<1>3. regs[k] \in Regions /\ regs[k] = [line |-> regs[k].line, data |-> d]
      /\ d \in Seq(Nat) /\ Len(d) \in Nat
  <2>1. regs[k] \in Regions
    BY DEF Streams
  <2> QED
    BY <2>1 DEF Regions
<1>4. /\ i \in 1 .. (Len(s) + 1) /\ pos[k + 1] = i + 2 + Len(d)
      /\ s[i] = regs[k].line /\ s[i + 1] = Len(d)
      /\ \A j \in 1 .. Len(d) : s[i + 1 + j] = d[j]
  <2>1. k \in 1 .. (Len(regs) + 1)
    BY <1>1
  <2> QED
    BY <2>1 DEF Streams
<1>5. i \in Nat /\ 1 <= i /\ i <= n
  BY <1>1, <1>4
<1> HIDE DEF i, d
<1>6. ASSUME i < n PROVE p[i + 1] = Len(d)
  <2>1. i + 1 \in 1 .. n
    BY <1>1, <1>5, <1>6
  <2> QED
    BY <1>2, <1>4, <2>1
<1>7. HasRegion(p, i) <=> i < n /\ i + 1 + Len(d) <= n
  BY <1>2, <1>6 DEF HasRegion
<1>8. i < n /\ i + 1 + Len(d) <= n <=> i + 2 + Len(d) <= n + 1
  BY <1>1, <1>3, <1>5
<1>9. ASSUME HasRegion(p, i)
      PROVE  Region(p, i) = regs[k] /\ i + 2 + p[i + 1] = i + 2 + Len(d)
  <2>1. i < n /\ i + 1 + Len(d) <= n /\ p[i + 1] = Len(d)
    BY <1>6, <1>7, <1>9
  <2>2. p[i] = regs[k].line
    <3>1. i \in 1 .. n
      BY <1>1, <1>5
    <3> QED
      BY <1>2, <1>4, <3>1
  <2>3. p \in Seq(Nat) /\ i \in Nat \ {0} /\ d \in Seq(Nat) /\ i + 1 + Len(d) <= Len(p)
    BY <1>2, <1>3, <1>5, <2>1
  <2>4. ASSUME NEW j \in 1 .. Len(d) PROVE p[i + 1 + j] = d[j]
    <3>1. \A e \in Nat : i + 1 + e <= n => \A m \in 1 .. e : i + 1 + m \in 1 .. n
      BY <1>1, <1>5
    <3>2. i + 1 + j \in 1 .. n
      BY <1>3, <2>1, <3>1
    <3> QED
      BY <1>2, <1>4, <3>2
  <2>5. Region(p, i) = [line |-> p[i], data |-> d]
    BY <2>1, <2>3, <2>4, RegionIs
  <2> QED
    BY <1>3, <2>1, <2>2, <2>5
<1>10. HasRegion(p, i) <=> pos[k + 1] <= n + 1
  BY <1>4, <1>7, <1>8
<1>11. HasRegion(p, i) => Region(p, i) = regs[k] /\ i + 2 + p[i + 1] = pos[k + 1]
  BY <1>4, <1>9
<1> QED
  BY <1>2, <1>10, <1>11 DEF i, RegionHere

\* From the place i, the stream p loads as the regions from the j-th on, up to one
\* of them, or not at all; if it is whole, up to the last one.
LoadsParts(p, i, regs, j, whole) ==
  /\ \A x \in LoadFrom(p)[i] : \E m \in (j - 1) .. Len(regs) : x = SubSeq(regs, j, m)
  /\ whole => LoadFrom(p)[i] = {SubSeq(regs, j, Len(regs))}

LEMMA PlaceFacts ==
  ASSUME NEW s, NEW regs, NEW pos, Streams(s, regs, pos), NEW j \in 1 .. (Len(regs) + 1)
  PROVE  /\ pos[j] \in Nat /\ 1 <= pos[j] /\ pos[j] <= Len(s) + 1
         /\ j # Len(regs) + 1 => /\ j \in 1 .. Len(regs) /\ j + 1 \in 1 .. (Len(regs) + 1)
                                 /\ pos[j + 1] \in Nat /\ pos[j] + 2 <= pos[j + 1]
                                 /\ pos[j + 1] <= Len(s) + 1
         /\ j = Len(regs) + 1 => pos[j] = Len(s) + 1
<1>0. Len(regs) \in Nat /\ Len(s) \in Nat
  BY DEF Streams
<1>1. \A k \in 1 .. (Len(regs) + 1) : pos[k] \in 1 .. (Len(s) + 1)
  BY DEF Streams
<1>2. pos[j] \in Nat /\ 1 <= pos[j] /\ pos[j] <= Len(s) + 1
  BY <1>0, <1>1
<1>3. ASSUME j # Len(regs) + 1
      PROVE  /\ j \in 1 .. Len(regs) /\ j + 1 \in 1 .. (Len(regs) + 1)
             /\ pos[j + 1] \in Nat /\ pos[j] + 2 <= pos[j + 1]
             /\ pos[j + 1] <= Len(s) + 1
  <2>1. j \in 1 .. Len(regs) /\ j + 1 \in 1 .. (Len(regs) + 1)
    BY <1>0, <1>3
  <2>2. pos[j + 1] \in Nat /\ pos[j + 1] <= Len(s) + 1
    BY <1>0, <1>1, <2>1
  <2>3. Len(regs[j].data) \in Nat
    <3>1. regs[j] \in Regions
      BY <2>1 DEF Streams
    <3> QED
      BY <3>1 DEF Regions
  <2>4. pos[j + 1] = pos[j] + 2 + Len(regs[j].data)
    BY <2>1 DEF Streams
  <2>5. \A e \in Nat : pos[j] + 2 <= pos[j] + 2 + e
    BY <1>2
  <2> QED
    BY <2>1, <2>2, <2>3, <2>4, <2>5
<1> QED
  BY <1>2, <1>3 DEF Streams

\* What follows a region loads as parts of the stream, and so does the region with it.
LEMMA LoadStep ==
  ASSUME NEW s, NEW regs, NEW pos, Streams(s, regs, pos),
         NEW n \in 0 .. Len(s), NEW p, p = SubSeq(s, 1, n),
         NEW j \in 1 .. (Len(regs) + 1), pos[j] <= n + 1,
         j # Len(regs) + 1 /\ pos[j + 1] <= n + 1 =>
           LoadsParts(p, pos[j + 1], regs, j + 1, n = Len(s))
  PROVE  LoadsParts(p, pos[j], regs, j, n = Len(s))
<1> DEFINE R == Len(regs)
           i == pos[j]
<1>0. /\ R \in Nat /\ n \in Nat /\ Len(s) \in Nat /\ n <= Len(s)
      /\ s \in Seq(Nat) /\ regs \in Seq(Regions)
  BY DEF Streams
<1>1. p \in Seq(Nat) /\ Len(p) = n
  <2>1. 1 \in Nat \ {0} /\ 1 <= n + 1 /\ n + 1 - 1 = n
    BY <1>0
  <2>2. SubSeq(s, 1, n) \in Seq(Nat) /\ Len(SubSeq(s, 1, n)) = n + 1 - 1
    BY <1>0, <2>1, SubSeqFacts
  <2> QED
    BY <2>1, <2>2
<1>2. /\ i \in Nat /\ 1 <= i /\ i <= Len(s) + 1
      /\ j # R + 1 => /\ j \in 1 .. R /\ j + 1 \in 1 .. (R + 1)
                      /\ pos[j + 1] \in Nat /\ i + 2 <= pos[j + 1]
                      /\ pos[j + 1] <= Len(s) + 1
      /\ j = R + 1 => i = Len(s) + 1
  BY PlaceFacts
<1>3. i <= n + 1 /\ LoadFrom(p)[i] = Load(p, LoadFrom(p), i)
  <2>1. i \in 1 .. (Len(p) + 1)
    BY <1>0, <1>1, <1>2
  <2> QED
    BY <1>1, <2>1, LoadRecursion
<1> HIDE DEF i
<1>4. CASE i > n
  <2>1. LoadFrom(p)[i] = {<<>>}
    BY <1>1, <1>3, <1>4 DEF Load
  <2>2. SubSeq(regs, j, j - 1) = <<>> /\ j - 1 \in (j - 1) .. R
    BY <1>0
  <2>3. ASSUME n = Len(s) PROVE j - 1 = R
    <3>1. j # R + 1 => i + 2 <= Len(s) + 1
      BY <1>0, <1>2
    <3>2. j = R + 1
      BY <1>0, <1>2, <1>4, <2>3, <3>1
    <3> QED
      BY <1>0, <3>2
  <2>4. \A x \in LoadFrom(p)[i] : \E m \in (j - 1) .. R : x = SubSeq(regs, j, m)
    BY <2>1, <2>2
  <2>5. n = Len(s) => LoadFrom(p)[i] = {SubSeq(regs, j, R)}
    BY <2>1, <2>2, <2>3
  <2> QED
    BY <2>4, <2>5 DEF LoadsParts, i
<1>5. CASE ~(i > n)
  <2>1. i <= n /\ j # R + 1
    BY <1>0, <1>2, <1>5
  <2>2. j \in 1 .. R
    BY <1>2, <2>1
  <2>3. /\ HasRegion(p, i) <=> pos[j + 1] <= n + 1
        /\ HasRegion(p, i) => /\ Region(p, i) = regs[j]
                              /\ i + 2 + p[i + 1] = pos[j + 1]
    <3>1. pos[j] <= n
      BY <2>1 DEF i
    <3>2. RegionHere(p, pos[j], pos[j + 1], regs[j])
      BY <2>2, <3>1, RegionAt
    <3> QED
      BY <1>1, <3>2 DEF i, RegionHere
  <2>4. LoadFrom(p)[i] = IF HasRegion(p, i)
                         THEN {<<regs[j]>> \o rest : rest \in LoadFrom(p)[pos[j + 1]]}
                         ELSE {}
    BY <1>1, <1>3, <1>5, <2>3 DEF Load
  <2>5. CASE HasRegion(p, i)
    <3>1. j + 1 - 1 = j /\ R \in j .. R /\ \A m \in j .. R : m \in (j - 1) .. R
      BY <1>0, <2>2
    <3>2. LoadsParts(p, pos[j + 1], regs, j + 1, n = Len(s))
      BY <2>1, <2>3, <2>5
    <3>3. /\ \A x \in LoadFrom(p)[pos[j + 1]] : \E m \in j .. R : x = SubSeq(regs, j + 1, m)
          /\ n = Len(s) => LoadFrom(p)[pos[j + 1]] = {SubSeq(regs, j + 1, R)}
      BY <3>1, <3>2 DEF LoadsParts
    <3>4. ASSUME NEW m \in j .. R PROVE <<regs[j]>> \o SubSeq(regs, j + 1, m) = SubSeq(regs, j, m)
      <4>1. j \in Nat \ {0} /\ m \in Nat /\ j <= m /\ m <= R
        BY <1>0, <2>2
      <4> QED
        BY <1>0, <4>1, ConsSubSeq
    <3>5. \A x \in LoadFrom(p)[i] : \E m \in (j - 1) .. R : x = SubSeq(regs, j, m)
      <4> SUFFICES ASSUME NEW x \in LoadFrom(p)[i]
                   PROVE  \E m \in (j - 1) .. R : x = SubSeq(regs, j, m)
        OBVIOUS
      <4>1. PICK rest \in LoadFrom(p)[pos[j + 1]] : x = <<regs[j]>> \o rest
        BY <2>4, <2>5
      <4>2. PICK m \in j .. R : rest = SubSeq(regs, j + 1, m)
        BY <3>3
      <4>3. x = SubSeq(regs, j, m)
        BY <3>4, <4>1, <4>2
      <4> QED
        BY <3>1, <4>3
    <3>6. ASSUME n = Len(s) PROVE LoadFrom(p)[i] = {SubSeq(regs, j, R)}
      <4>1. LoadFrom(p)[pos[j + 1]] = {SubSeq(regs, j + 1, R)}
        BY <3>3, <3>6
      <4>2. LoadFrom(p)[i] = {<<regs[j]>> \o SubSeq(regs, j + 1, R)}
        BY <2>4, <2>5, <4>1
      <4> QED
        BY <3>1, <3>4, <4>2
    <3> QED
      BY <3>5, <3>6 DEF LoadsParts, i
  <2>6. CASE ~HasRegion(p, i)
    <3>1. LoadFrom(p)[i] = {}
      BY <2>4, <2>6
    <3>2. n # Len(s)
      BY <1>0, <1>2, <2>1, <2>3, <2>6
    <3> QED
      BY <3>1, <3>2 DEF LoadsParts, i
  <2> QED
    BY <2>5, <2>6
<1> QED
  BY <1>4, <1>5

\* By induction on the number of regions that are left.
LEMMA LoadParts ==
  ASSUME NEW s, NEW regs, NEW pos, Streams(s, regs, pos),
         NEW n \in 0 .. Len(s), NEW p, p = SubSeq(s, 1, n)
  PROVE  LoadsParts(p, 1, regs, 1, n = Len(s))
<1> DEFINE R == Len(regs)
           Loads(j) == LoadsParts(p, pos[j], regs, j, n = Len(s))
           Bad == {d \in 0 .. R : pos[R + 1 - d] <= n + 1 /\ ~Loads(R + 1 - d)}
<1>0. R \in Nat /\ n \in Nat /\ pos[1] = 1
  BY DEF Streams
<1> HIDE DEF Loads, R
<1>1. Bad = {}
  <2> SUFFICES ASSUME Bad # {} PROVE FALSE
    OBVIOUS
  <2>1. PICK d \in Bad : \A e \in Bad : d <= e
    <3>1. Bad \subseteq Nat
      BY <1>0
    <3> HIDE DEF Bad
    <3> QED
      BY <3>1, LeastNat
  <2>2. PICK j : j = R + 1 - d
    OBVIOUS
  <2>3. d \in 0 .. R /\ pos[j] <= n + 1 /\ ~Loads(j)
    BY <2>2
  <2>4. j \in 1 .. (R + 1)
    BY <1>0, <2>2, <2>3
  <2>5. ASSUME j # R + 1, pos[j + 1] <= n + 1 PROVE Loads(j + 1)
    <3>1. d - 1 \in 0 .. R /\ ~(d <= d - 1) /\ R + 1 - (d - 1) = j + 1
      BY <1>0, <2>2, <2>3, <2>5
    <3>2. d - 1 \notin Bad
      BY <2>1, <3>1
    <3> QED
      BY <2>5, <3>1, <3>2
  <2>6. Loads(j)
    BY <2>3, <2>4, <2>5, LoadStep DEF Loads, R
  <2> QED
    BY <2>3, <2>6
<1>2. Loads(1)
  <2>1. R \in 0 .. R /\ R + 1 - R = 1 /\ 1 <= n + 1
    BY <1>0
  <2> QED
    BY <1>0, <1>1, <2>1
<1> QED
  BY <1>0, <1>2 DEF Loads, R

\* The stream of some regions loads as them, and a beginning of it as the first of
\* them or not at all.
LEMMA LoadWhole ==
  ASSUME NEW s, NEW regs, NEW pos, Streams(s, regs, pos)
  PROVE  LoadStream(s) = {regs}
<1>1. s \in Seq(Nat) /\ regs \in Seq(Regions) /\ Len(s) \in 0 .. Len(s)
  BY DEF Streams
<1>2. SubSeq(s, 1, Len(s)) = s /\ SubSeq(regs, 1, Len(regs)) = regs
  BY <1>1
<1>3. LoadsParts(s, 1, regs, 1, TRUE)
  BY <1>1, <1>2, LoadParts
<1> QED
  BY <1>2, <1>3 DEF LoadsParts, LoadStream

LEMMA LoadBeginning ==
  ASSUME NEW s, NEW regs, NEW pos, Streams(s, regs, pos), NEW n \in 0 .. Len(s),
         NEW x \in LoadStream(SubSeq(s, 1, n))
  PROVE  IsPrefix(x, regs)
<1>1. PICK m \in 0 .. Len(regs) : x = SubSeq(regs, 1, m)
  <2>1. LoadsParts(SubSeq(s, 1, n), 1, regs, 1, n = Len(s))
    BY LoadParts
  <2> QED
    BY <2>1 DEF LoadsParts, LoadStream
<1>2. regs \in Seq(Regions) /\ Len(regs) \in Nat /\ m \in Nat /\ m <= Len(regs)
  BY DEF Streams
<1>3. Len(x) = m
  BY <1>1, <1>2
<1> QED
  BY <1>1, <1>2, <1>3 DEF IsPrefix

\* No region.
LEMMA NoStream ==
  ASSUME NEW s, s = <<>>
  PROVE  Streams(s, <<>>, [i \in 1 .. 1 |-> 1])
<1>1. Len(<<>>) = 0 /\ 0 + 1 = 1 /\ <<>> \in Seq(Nat) /\ <<>> \in Seq(Regions)
  OBVIOUS
<1>2. 1 \in 1 .. 1 /\ \A k \in 1 .. 0 : FALSE
  OBVIOUS
<1> QED
  BY <1>1, <1>2 DEF Streams

\* A record after the stream is a region more.
LEMMA StreamGrows ==
  ASSUME NEW s, NEW regs, NEW pos, Streams(s, regs, pos), NEW l \in Nat, NEW d \in Seq(Nat)
  PROVE  \E pos2 : Streams(s \o Record(l, d), Append(regs, [line |-> l, data |-> d]), pos2)
<1> DEFINE R == Len(regs)
           N == Len(s)
           e == Len(d)
           r == [line |-> l, data |-> d]
           rec == Record(l, d)
           s2 == s \o rec
           regs2 == Append(regs, r)
           pos2 == [k \in 1 .. (R + 2) |-> IF k = R + 2 THEN N + e + 3 ELSE pos[k]]
<1>0. /\ R \in Nat /\ N \in Nat /\ e \in Nat /\ s \in Seq(Nat) /\ regs \in Seq(Regions)
      /\ \A k \in 1 .. (R + 1) : pos[k] \in 1 .. (N + 1)
      /\ pos[1] = 1 /\ pos[R + 1] = N + 1
  <2>1. /\ R \in Nat /\ N \in Nat /\ e \in Nat
        /\ s \in Seq(Nat) /\ regs \in Seq(Regions)
    BY DEF Streams
  <2>2. \A k \in 1 .. (R + 1) : pos[k] \in 1 .. (N + 1)
    BY DEF Streams
  <2>3. pos[1] = 1 /\ pos[R + 1] = N + 1
    BY DEF Streams
  <2> QED
    BY <2>1, <2>2, <2>3
<1>1. r \in Regions
  BY DEF Regions
<1>2. /\ rec \in Seq(Nat) /\ Len(rec) = 2 + e
      /\ rec[1] = l /\ rec[2] = e /\ \A j \in 1 .. e : rec[2 + j] = d[j]
  <2>1. /\ <<l, e>> \in Seq(Nat) /\ Len(<<l, e>>) = 2 /\ <<l, e>>[1] = l /\ <<l, e>>[2] = e
        /\ 1 \in 1 .. 2 /\ 2 \in 1 .. 2
    BY <1>0
  <2>2. rec = <<l, e>> \o d
    BY DEF Record
  <2> HIDE DEF e, rec
  <2>3. /\ rec \in Seq(Nat) /\ Len(rec) = 2 + Len(d)
        /\ \A i \in 1 .. 2 : rec[i] = <<l, e>>[i]
        /\ \A i \in 1 .. Len(d) : rec[2 + i] = d[i]
    BY <2>1, <2>2, ConcatFacts
  <2> QED
    BY <2>1, <2>3 DEF e
<1>3. /\ s2 \in Seq(Nat) /\ Len(s2) = N + (2 + e)
      /\ \A i \in 1 .. N : s2[i] = s[i]
      /\ \A i \in 1 .. (2 + e) : s2[N + i] = rec[i]
  <2> HIDE DEF rec, e
  <2>1. s \in Seq(Nat) /\ rec \in Seq(Nat)
    BY <1>0, <1>2
  <2>2. /\ s2 \in Seq(Nat) /\ Len(s2) = N + Len(rec)
        /\ \A i \in 1 .. N : s2[i] = s[i]
        /\ \A i \in 1 .. Len(rec) : s2[N + i] = rec[i]
    BY <2>1, ConcatFacts
  <2> QED
    BY <1>2, <2>2
<1>4. /\ regs2 \in Seq(Regions) /\ Len(regs2) = R + 1
      /\ \A k \in 1 .. R : regs2[k] = regs[k]
      /\ regs2[R + 1] = r
  <2> HIDE DEF r
  <2> QED
    BY <1>0, <1>1, AppendFacts
<1>5. r.line = l /\ r.data = d
  OBVIOUS
<1> HIDE DEF rec, s2, regs2, r
<1>6. /\ \A k \in 1 .. (R + 1) : k \in 1 .. (R + 2) /\ k # R + 2 /\ pos2[k] = pos[k]
      /\ pos2[R + 2] = N + e + 3
  BY <1>0
<1>7. pos2 \in [1 .. (R + 2) -> 1 .. (N + e + 3)]
  <2>1. \A k \in 1 .. (R + 2) : k = R + 2 \/ k \in 1 .. (R + 1)
    BY <1>0
  <2>2. \A n \in 1 .. (N + 1) : n \in 1 .. (N + e + 3)
    BY <1>0
  <2>3. N + e + 3 \in 1 .. (N + e + 3)
    BY <1>0
  <2> QED
    BY <1>0, <2>1, <2>2, <2>3
<1> HIDE DEF pos2
<1>8. ASSUME NEW k \in 1 .. R
      PROVE  /\ pos2[k + 1] = pos2[k] + 2 + Len(regs2[k].data)
             /\ s2[pos2[k]] = regs2[k].line
             /\ s2[pos2[k] + 1] = Len(regs2[k].data)
             /\ \A j \in 1 .. Len(regs2[k].data) : s2[pos2[k] + 1 + j] = regs2[k].data[j]
  <2> DEFINE f == Len(regs[k].data)
  <2>1. k \in 1 .. (R + 1) /\ k + 1 \in 1 .. (R + 1)
    BY <1>0
  <2>2. /\ pos[k + 1] = pos[k] + 2 + f
        /\ s[pos[k]] = regs[k].line
        /\ s[pos[k] + 1] = f
        /\ \A j \in 1 .. f : s[pos[k] + 1 + j] = regs[k].data[j]
    BY DEF Streams
  <2>3. f \in Nat
    <3>1. regs[k] \in Regions
      BY <1>0
    <3> QED
      BY <3>1 DEF Regions
  <2>4. /\ pos[k] \in Nat /\ 1 <= pos[k] /\ pos[k + 1] <= N + 1
    BY <1>0, <2>1
  <2>5. regs2[k] = regs[k] /\ pos2[k] = pos[k] /\ pos2[k + 1] = pos[k + 1]
    BY <1>4, <1>6, <2>1
  <2> HIDE DEF f
  <2>8. \A p \in Nat : 1 <= p /\ p + 2 + f <= N + 1 =>
          /\ p \in 1 .. N /\ p + 1 \in 1 .. N
          /\ \A j \in 1 .. f : p + 1 + j \in 1 .. N
    <3> SUFFICES ASSUME NEW p \in Nat, 1 <= p, p + 2 + f <= N + 1
                 PROVE  /\ p \in 1 .. N /\ p + 1 \in 1 .. N
                        /\ \A j \in 1 .. f : p + 1 + j \in 1 .. N
      OBVIOUS
    <3>1. N \in Nat
      BY <1>0
    <3> HIDE DEF N
    <3>2. p \in 1 .. N /\ p + 1 \in 1 .. N
      BY <2>3, <3>1
    <3>3. \A j \in 1 .. f : p + 1 + j \in 1 .. N
      BY <2>3, <3>1
    <3> QED
      BY <3>2, <3>3
  <2>9. pos[k] + 2 + f <= N + 1
    BY <2>2, <2>4
  <2>6. pos[k] \in 1 .. N /\ pos[k] + 1 \in 1 .. N
    BY <2>4, <2>8, <2>9
  <2>7. \A j \in 1 .. f : pos[k] + 1 + j \in 1 .. N
    BY <2>4, <2>8, <2>9
  <2> QED
    BY <1>3, <2>2, <2>5, <2>6, <2>7 DEF f
<1>9. /\ pos2[R + 1 + 1] = pos2[R + 1] + 2 + Len(regs2[R + 1].data)
      /\ s2[pos2[R + 1]] = regs2[R + 1].line
      /\ s2[pos2[R + 1] + 1] = Len(regs2[R + 1].data)
      /\ \A j \in 1 .. Len(regs2[R + 1].data) : s2[pos2[R + 1] + 1 + j] = regs2[R + 1].data[j]
  <2>1. R + 1 \in 1 .. (R + 1) /\ R + 1 + 1 = R + 2
    BY <1>0
  <2>2. regs2[R + 1].data = d /\ regs2[R + 1].line = l /\ pos2[R + 1] = N + 1
        /\ pos2[R + 1 + 1] = N + e + 3
    BY <1>0, <1>4, <1>5, <1>6, <2>1
  <2>3. N + e + 3 = N + 1 + 2 + e /\ N + 1 + 1 = N + 2
    BY <1>0
  <2>4. 1 \in 1 .. (2 + e) /\ 2 \in 1 .. (2 + e)
    BY <1>0
  <2>5. \A j \in 1 .. e : 2 + j \in 1 .. (2 + e) /\ N + 1 + 1 + j = N + (2 + j)
    BY <1>0
  <2>6. s2[N + 1] = l /\ s2[N + 2] = e
    BY <1>2, <1>3, <2>4
  <2>7. \A j \in 1 .. e : s2[N + 1 + 1 + j] = d[j]
    BY <1>2, <1>3, <2>5
  <2> QED
    BY <2>2, <2>3, <2>6, <2>7
<1>10. Streams(s2, regs2, pos2)
  <2>1. /\ Len(regs2) + 1 = R + 2 /\ Len(s2) + 1 = N + e + 3 /\ pos2[1] = 1
        /\ pos2[Len(regs2) + 1] = Len(s2) + 1
    <3>1. 1 \in 1 .. (R + 1) /\ R + 1 + 1 = R + 2 /\ N + (2 + e) + 1 = N + e + 3
      BY <1>0
    <3> QED
      BY <1>0, <1>3, <1>4, <1>6, <3>1
  <2>2. \A k \in 1 .. Len(regs2) : k \in 1 .. R \/ k = R + 1
    BY <1>0, <1>4
  <2> QED
    BY <1>3, <1>4, <1>7, <1>8, <1>9, <2>1, <2>2 DEF Streams
<1> QED
  BY <1>10 DEF s2, regs2, rec, r

----------------------------------------------------------------------------
(* The inductive invariant. *)

Busy(t) == pc[t] \in {"fopen", "copy"}

\* Before the ranges are copied, nothing has been done with them.
Early ==
  dumper \in {"start", "pause", "try", "maps", "open"} =>
    /\ \A t \in Threads : pc[t] = "new"
    /\ data = <<>>
    /\ \A l \in DOMAIN Lines : files[l] = NoFile
    /\ stream = <<>>
    /\ ~torn
    /\ next_range = 1
    /\ failed = {}

\* Which program is where.
Modes ==
  /\ dumper = "copy" => ~Script
  /\ dumper \in {"read", "write", "data", "finally"} => Script
  /\ program # "stream" => stream = <<>> /\ ~torn
  /\ Script => \A t \in Threads : ~Busy(t)

\* A thread that copies has the file of its range.
OwnFile == \A t \in Threads : pc[t] = "copy" => files[Line(t)] # NoFile

\* The script's next piece is within the range.
NextPiece ==
  /\ dumper = "read" /\ RangesLeft => Len(data) < Lines[ThisLine].chunks
  /\ dumper = "read" /\ ~RangesLeft => data = <<>>
  /\ dumper \in {"write", "data"} => RangesLeft

TInv == TypeOK /\ Early /\ Modes /\ OwnFile /\ NextPiece

\* Until it is stopped, and when the dumper has ended, the target runs.
SInv ==
  dumper \in {"start", "pause", "returned", "raised"} => target # "stopped" /\ ~stop_pending

\* The ranges are the readable private lines of the map, each once.
RangesInv ==
  /\ {ranges[i] : i \in DOMAIN ranges} = image.lines
  /\ \A i, j \in DOMAIN ranges : ranges[i] = ranges[j] => i = j

\* Two threads have two ranges; a thread ends when all have been handed out.
ClaimsInv ==
  /\ \A t \in Threads : Busy(t) => range_index[t] < next_range
  /\ \A s, t \in Threads : s # t /\ Busy(s) /\ Busy(t) => range_index[s] # range_index[t]
  /\ \A t \in Threads : pc[t] = "done" => next_range > Len(ranges)

\* A file that is being copied is as long as what has been copied.
CopiedInv ==
  \A t \in Threads : pc[t] = "copy" => Len(files[Line(t)]) = read_addr[t]

\* From the reading of the map until the end of the copying a stopped target
\* keeps its memory.
FrozenInv ==
  image.stopped /\ dumper \in {"open", "copy", "read", "write", "data", "resume"} =>
    target # "running" /\ memory = image.memory

\* What d holds of the line l, it holds as the target had it.
IsPicture(d, l) ==
  image.stopped => \A i \in DOMAIN d : d[i] = image.memory[<<l, i>>]

\* The lines handed out so far.
Taken == {ranges[j] : j \in {i \in DOMAIN ranges : i < next_range}}

Whole(d, l) == l \in failed \/ Len(d) = Lines[l].chunks

FilesInv ==
  \A l \in DOMAIN Lines :
    /\ files[l] # NoFile => l \in image.lines /\ IsPicture(files[l], l)
    /\ l \in Taken /\ program = "dump" =>
         \/ \E t \in Threads : Busy(t) /\ Line(t) = l
         \/ files[l] # NoFile /\ Whole(files[l], l)
    /\ l \in Taken /\ program = "script" =>
         l \in failed \/ (files[l] # NoFile /\ Len(files[l]) = Lines[l].chunks)

DataInv ==
  dumper \in {"read", "write", "data"} /\ RangesLeft =>
    /\ IsPicture(data, ThisLine)
    /\ dumper \in {"write", "data"} => Whole(data, ThisLine)

\* The regions of a stream.
RegsOK(regs) ==
  /\ \A k \in DOMAIN regs : regs[k].line \in Taken /\ IsPicture(regs[k].data, regs[k].line)
  /\ \A k, m \in DOMAIN regs : regs[k].line = regs[m].line => k = m
  /\ program = "stream" =>
       \A l \in Taken : l \in failed \/
         \E k \in DOMAIN regs : regs[k].line = l /\ Len(regs[k].data) = Lines[l].chunks

StreamInv ==
  ~torn => \E regs, pos : Streams(stream, regs, pos) /\ RegsOK(regs)

\* An unfinished record is the beginning of the one the script was about to write,
\* and nothing is read or written after it.
TailInv ==
  tail # <<>> =>
    /\ dumper \in {"data", "finally", "raised", "abandoned", "interrupted"}
    /\ RangesLeft
    /\ \E n \in 0 .. (2 + Len(data)) : tail = SubSeq(Record(ThisLine, data), 1, n)

\* A dump returns when nothing is left to copy.
EndInv ==
  dumper \in {"resume", "returned"} => ~RangesLeft /\ \A t \in Threads : ~Busy(t)

DInv ==
  /\ TInv /\ SInv /\ RangesInv /\ ClaimsInv /\ CopiedInv /\ FrozenInv
  /\ FilesInv /\ DataInv /\ StreamInv /\ TailInv /\ EndInv

----------------------------------------------------------------------------
(* The steps that leave the ranges, the files and the stream alone. *)

CopyVars == <<ranges, threadVars, scriptVars, image>>

\* How they move the dumper.
Move ==
  \/ dumper' = dumper
  \/ dumper \in {"start", "pause"} /\ dumper' \in {"pause", "try", "maps"}
  \/ dumper = "try" /\ dumper' = "maps"
  \/ /\ dumper \in {"start", "pause"} /\ dumper' = "raised" /\ Script
     /\ target' = target /\ (stop_pending' = stop_pending \/ ~stop_pending')
  \/ dumper \in {"maps", "open", "copy", "read"} /\ dumper' = "finally" /\ Script
  \/ dumper \in {"try", "resume", "finally"} /\ dumper' = "abandoned"
  \/ dumper \in {"maps", "open", "copy"} /\ dumper' = "terminated"
  \/ dumper \in Active \ {"write", "data"} /\ dumper' = "interrupted"
  \/ dumper = "copy" /\ (\A t \in Threads : pc[t] = "done") /\ dumper' = "resume"
  \/ dumper = "open" /\ Script /\ dumper' = "read"
  \/ dumper = "read" /\ ~RangesLeft /\ dumper' = "resume"
  \/ /\ dumper \in {"resume", "finally"} /\ dumper' \in {"returned", "raised"}
     /\ dumper' = "returned" => dumper = "resume"
     /\ target' # "stopped" /\ ~stop_pending'

\* What they do to the target.
TargetTypes ==
  /\ target \in {"running", "stopped", "gone"}
  /\ stop_pending \in BOOLEAN
  /\ memory \in [Chunks -> 0 .. MaxWrites]
  /\ unmapped \subseteq DOMAIN Lines
  /\ writes \in 0 .. MaxWrites
  /\ dir_exists \in BOOLEAN

Aside ==
  /\ UNCHANGED CopyVars
  /\ Move
  /\ TargetTypes'
  /\ target # "running" => memory' = memory
  /\ target # "running" /\ target' = "running" => dumper' \in {"returned", "raised"}
  /\ ~stop_pending /\ target # "stopped" => target' # "stopped"
  /\ ~stop_pending /\ stop_pending' => dumper = "pause"
  /\ dumper' \in {"start", "pause"} => UNCHANGED stop_pending \/ ~stop_pending'

\* The steps that write a part of a record or of a file, and leave the rest alone.
Half ==
  /\ dumper \in {"write", "data"} /\ dumper' \in {"data", "finally", "interrupted"}
  /\ UNCHANGED <<targetVars, dir_exists, ranges, next_range, pc, range_index,
                 read_addr, failed, program, data, stream, torn, image>>
  /\ \/ UNCHANGED files
     \/ \E n \in 0 .. Len(data) : files' = [files EXCEPT ![ThisLine] = SubSeq(data, 1, n)]
  /\ \/ UNCHANGED tail
     \/ \E n \in 0 .. (2 + Len(data)) : tail' = SubSeq(Record(ThisLine, data), 1, n)

LEMMA HalfCut ==
  ASSUME data \in Seq(0 .. MaxWrites), tail \in Seq(Nat), CutShort, dumper \in {"write", "data"},
         dumper' \in {"finally", "interrupted"}
  PROVE  Half
<1>1. Len(data) \in Nat /\ Len(tail) \in Nat
  OBVIOUS
<1>2. \A n \in Len(tail) .. (Len(data) + 1) : n \in 0 .. (2 + Len(data))
  BY <1>1
<1>3. CASE program = "stream"
  <2>1. tail' \in Beginnings /\ UNCHANGED files
    BY <1>3 DEF CutShort
  <2>2. PICK n \in Len(tail) .. (Len(data) + 1) : tail' = SubSeq(Record(ThisLine, data), 1, n)
    BY <2>1 DEF Beginnings
  <2> QED
    BY <1>2, <2>1, <2>2 DEF CutShort, Half
<1>4. CASE program # "stream"
  <2>1. files' \in FilesCut /\ UNCHANGED tail
    BY <1>4 DEF CutShort
  <2>2. files' = files \/
          \E n \in 0 .. Len(data) : files' = [files EXCEPT ![ThisLine] = SubSeq(data, 1, n)]
    BY <2>1 DEF FilesCut
  <2> QED
    BY <2>1, <2>2 DEF CutShort, Half
<1> QED
  BY <1>3, <1>4

LEMMA HalfBegins ==
  ASSUME data \in Seq(0 .. MaxWrites), ScriptBegins
  PROVE  Half
<1>1. Len(data) \in Nat /\ SubSeq(data, 1, 0) = <<>>
  OBVIOUS
<1>2. 0 \in 0 .. Len(data) /\ 2 \in 0 .. (2 + Len(data))
  BY <1>1
<1>3. /\ dumper = "write" /\ dumper' = "data"
      /\ UNCHANGED <<targetVars, dir_exists, ranges, next_range, pc, range_index,
                     read_addr, failed, program, data, stream, torn, image>>
  BY DEF ScriptBegins
<1>4. CASE program = "stream"
  <2>1. tail' = SubSeq(Record(ThisLine, data), 1, 2) /\ UNCHANGED files
    BY <1>4 DEF ScriptBegins
  <2> QED
    BY <1>2, <1>3, <2>1 DEF Half
<1>5. CASE program # "stream"
  <2>1. files' = [files EXCEPT ![ThisLine] = SubSeq(data, 1, 0)] /\ UNCHANGED tail
    BY <1>1, <1>5 DEF ScriptBegins
  <2> QED
    BY <1>2, <1>3, <2>1 DEF Half
<1> QED
  BY <1>4, <1>5

LEMMA StepCases ==
  ASSUME TypeOK, Next
  PROVE  \/ Aside
         \/ ReadMaps \/ OpenMem
         \/ \E t \in Threads : Claim(t) \/ OpenFile(t) \/ CopyChunk(t) \/ CopyFails(t)
         \/ ReadPiece \/ ReadEnds \/ ReadRaises \/ Half \/ ScriptWrites \/ ScriptWriteFails
<1> USE DEF TypeOK, Aside, CopyVars, TargetTypes, targetVars, threadVars, scriptVars, vars
<1>1. CASE TargetWrites
  <2>1. writes + 1 \in 0 .. MaxWrites
    BY <1>1, MaxWritesAssumption DEF TargetWrites
  <2> QED
    BY <1>1, <2>1 DEF TargetWrites, Move
<1>2. CASE TargetUnmaps
  BY <1>2 DEF TargetUnmaps, Move
<1>3. CASE TargetExits
  BY <1>3 DEF TargetExits, Move
<1>4. CASE StopTakesEffect
  BY <1>4 DEF StopTakesEffect, Move
<1>5. CASE MakeDirectory
  BY <1>5 DEF MakeDirectory, Move
<1>6. CASE Pause
  BY <1>6 DEF Pause, Move
<1>7. CASE ReadMapsFails \/ OpenMemFails
  BY <1>7 DEF ReadMapsFails, OpenMemFails, Terminate, Move, Active, Script
<1>8. CASE JoinThreads
  BY <1>8 DEF JoinThreads, Move
<1>9. CASE Resume
  BY <1>9 DEF Resume, Move
<1>10. CASE Interrupt
  <2>1. CASE dumper \in {"write", "data"}
    BY <1>10, <2>1, HalfCut DEF Interrupt
  <2>2. CASE dumper \notin {"write", "data"}
    BY <1>10, <2>2 DEF Interrupt, CutShort, Move
  <2> QED
    BY <2>1, <2>2
<1>11. CASE ScriptMakesDirectory
  BY <1>11 DEF ScriptMakesDirectory, Move
<1>12. CASE ScriptPauses
  BY <1>12 DEF ScriptPauses, Move
<1>19. CASE EnterTry
  BY <1>19 DEF EnterTry, Move
<1>20. CASE ScriptBegins
  BY <1>20, HalfBegins
<1>13. CASE ScriptOpensMem
  BY <1>13 DEF ScriptOpensMem, Move
<1>14. CASE AllRead
  BY <1>14 DEF AllRead, Move
<1>15. CASE ScriptResumes
  BY <1>15 DEF ScriptResumes, Move
<1>16. CASE KeyboardInterrupt
  <2>1. CASE dumper \in {"write", "data"}
    BY <1>16, <2>1, HalfCut DEF KeyboardInterrupt, InTry
  <2>2. CASE dumper \notin {"write", "data"}
    BY <1>16, <2>2 DEF KeyboardInterrupt, InTry, CutShort, Move
  <2> QED
    BY <2>1, <2>2
<1>17. CASE \E t \in Threads : OpenFileFails(t)
  BY <1>17 DEF OpenFileFails, Terminate, Move, Active, Script
<1>18. CASE Over
  BY <1>18 DEF Over, Move
<1> QED
  BY <1>1, <1>2, <1>3, <1>4, <1>5, <1>6, <1>7, <1>8, <1>9, <1>10, <1>11, <1>12, <1>13,
     <1>14, <1>15, <1>16, <1>17, <1>18, <1>19, <1>20
     DEF Next, TargetNext, MainNext, ScriptNext, ThreadNext

----------------------------------------------------------------------------
(* Types. *)

LEMMA InitTypes == Init => TInv
<1> SUFFICES ASSUME Init PROVE TInv
  OBVIOUS
<1> USE MaxWritesAssumption, LinesAssumption, NoFileAssumption
<1>1. memory \in [Chunks -> 0 .. MaxWrites]
  BY DEF Init
<1>2. TypeOK
  <2>1. /\ ranges = <<>> /\ data = <<>> /\ stream = <<>> /\ tail = <<>> /\ next_range = 1
        /\ <<>> \in Seq(DOMAIN Lines) /\ <<>> \in Seq(0 .. MaxWrites) /\ <<>> \in Seq(Nat)
    BY DEF Init
  <2>2. image \in [stopped : BOOLEAN, memory : [Chunks -> 0 .. MaxWrites],
                   lines : SUBSET DOMAIN Lines]
    BY <1>1 DEF Init
  <2>3. \A t \in Threads : pc[t] = "new"
    BY DEF Init
  <2>4. dumper = "start"
    BY DEF Init
  <2>5. /\ program \in {"dump", "script", "stream"} /\ target \in {"running", "stopped", "gone"}
        /\ stop_pending \in BOOLEAN /\ unmapped \subseteq DOMAIN Lines
        /\ dir_exists \in BOOLEAN /\ failed \subseteq DOMAIN Lines /\ torn \in BOOLEAN
    BY DEF Init
  <2>6. /\ range_index \in [Threads -> Nat] /\ read_addr \in [Threads -> Nat]
        /\ pc \in [Threads -> {"new", "claim", "fopen", "copy", "done"}]
    BY DEF Init
  <2>7. files \in [DOMAIN Lines -> Seq(0 .. MaxWrites) \cup {NoFile}]
    BY DEF Init
  <2>8. writes \in 0 .. MaxWrites
    BY DEF Init
  <2> QED
    BY <1>1, <2>1, <2>2, <2>3, <2>4, <2>5, <2>6, <2>7, <2>8 DEF TypeOK, Active
<1>3. Early /\ Modes /\ OwnFile /\ NextPiece
  BY DEF Init, Early, Modes, OwnFile, NextPiece, Script, Busy
<1> QED
  BY <1>2, <1>3 DEF TInv

LEMMA ChunksOf ==
  ASSUME NEW l \in DOMAIN Lines
  PROVE  /\ Lines[l].chunks \in Nat \ {0}
         /\ \A i \in 1 .. Lines[l].chunks : <<l, i>> \in Chunks
         /\ l \in Nat
<1>1. /\ Lines[l] \in [readable : BOOLEAN, shared : BOOLEAN, chunks : Nat \ {0}]
      /\ l \in Nat
  <2>1. \A R, s : s \in Seq(R) => \A i \in DOMAIN s : s[i] \in R /\ i \in Nat
    OBVIOUS
  <2> QED
    BY <2>1, LinesAssumption
<1>2. \A i \in 1 .. Lines[l].chunks : <<l, i>> \in {l} \X (1 .. Lines[l].chunks)
  OBVIOUS
<1> QED
  BY <1>1, <1>2 DEF Chunks

\* The range of a thread that has one, and the script's.
LEMMA LineTypes ==
  ASSUME TInv
  PROVE  /\ \A t \in Threads : Busy(t) => Line(t) \in DOMAIN Lines
         /\ RangesLeft => ThisLine \in DOMAIN Lines /\ next_range \in DOMAIN ranges
         /\ \A i \in DOMAIN ranges : ranges[i] \in DOMAIN Lines
         /\ Len(ranges) \in Nat /\ DOMAIN ranges = 1 .. Len(ranges)
<1>1. /\ Len(ranges) \in Nat /\ DOMAIN ranges = 1 .. Len(ranges)
      /\ \A i \in DOMAIN ranges : ranges[i] \in DOMAIN Lines
  BY DEF TInv, TypeOK
<1>2. RangesLeft => next_range \in DOMAIN ranges
  BY <1>1 DEF TInv, TypeOK, RangesLeft
<1> QED
  BY <1>1, <1>2 DEF TInv, TypeOK, Busy, Line, ThisLine

\* The record that is being written, and the beginnings of it and of the file.
LEMMA RecordTypes ==
  ASSUME TInv, RangesLeft
  PROVE  /\ ThisLine \in Nat /\ data \in Seq(Nat) /\ Len(data) \in Nat
         /\ Record(ThisLine, data) \in Seq(Nat)
         /\ Len(Record(ThisLine, data)) = 2 + Len(data)
         /\ \A n \in 0 .. (2 + Len(data)) :
              SubSeq(Record(ThisLine, data), 1, n) \in Seq(Nat)
         /\ \A n \in 0 .. Len(data) : SubSeq(data, 1, n) \in Seq(0 .. MaxWrites)
<1>1. ThisLine \in Nat
  BY LineTypes, ChunksOf
<1>2. data \in Seq(0 .. MaxWrites) /\ Len(data) \in Nat
  BY DEF TInv, TypeOK
<1>3. data \in Seq(Nat)
  BY <1>2, MaxWritesAssumption
<1>4. Record(ThisLine, data) \in Seq(Nat) /\ Len(Record(ThisLine, data)) = 2 + Len(data)
  <2>1. <<ThisLine, Len(data)>> \in Seq(Nat) /\ Len(<<ThisLine, Len(data)>>) = 2
    BY <1>1, <1>2
  <2> QED
    BY <1>3, <2>1, ConcatFacts DEF Record
<1>5. ASSUME NEW n \in 0 .. (2 + Len(data))
      PROVE  SubSeq(Record(ThisLine, data), 1, n) \in Seq(Nat)
  <2>1. 1 \in Nat \ {0} /\ n \in Nat /\ n <= 2 + Len(data) /\ 1 <= n + 1
    BY <1>2
  <2> HIDE DEF Record
  <2> QED
    BY <1>4, <2>1, SubSeqFacts
<1>6. ASSUME NEW n \in 0 .. Len(data)
      PROVE  SubSeq(data, 1, n) \in Seq(0 .. MaxWrites)
  <2>1. 1 \in Nat \ {0} /\ n \in Nat /\ n <= Len(data) /\ 1 <= n + 1
    BY <1>2
  <2> QED
    BY <1>2, <2>1, SubSeqFacts
<1> QED
  BY <1>1, <1>2, <1>3, <1>4, <1>5, <1>6

LEMMA AsideTypes ==
  ASSUME TInv, Aside
  PROVE  TInv'
<1> USE DEF Aside, CopyVars, threadVars, scriptVars
<1>1. dumper' \in Active \cup {"returned", "raised", "abandoned", "terminated", "interrupted"}
  BY DEF TInv, TypeOK, Move, Active
<1>2. dumper' \in {"read", "write", "data"} => dumper' = dumper \/ (dumper = "open" /\ dumper' = "read")
  BY DEF Move
<1>3. dumper = "open" => data = <<>>
  BY DEF TInv, Early
<1>4. TypeOK'
  BY <1>1, <1>2, <1>3 DEF TInv, TypeOK, TargetTypes, Line, RangesLeft, ThisLine
<1>5. Early'
  <2>1. dumper' \in {"start", "pause", "try", "maps", "open"} =>
          dumper \in {"start", "pause", "try", "maps", "open"}
    BY DEF Move
  <2> QED
    BY <2>1 DEF TInv, Early
<1>6. Modes'
  <2>1. /\ dumper' = "copy" => dumper = "copy"
        /\ dumper' \in {"read", "write", "data", "finally"} =>
             dumper' = dumper \/ Script
    BY DEF Move
  <2> QED
    BY <2>1 DEF TInv, Modes, Script, Busy
<1>7. OwnFile'
  BY DEF TInv, OwnFile, Line
<1>8. NextPiece'
  <2>1. CASE dumper' = dumper
    BY <2>1 DEF TInv, NextPiece, RangesLeft, ThisLine
  <2>2. CASE dumper' # dumper
    <3>1. dumper' \notin {"write", "data"} /\ (dumper' = "read" => data = <<>>)
      BY <1>2, <1>3, <2>2
    <3>2. RangesLeft => Lines[ThisLine].chunks \in Nat \ {0}
      BY LineTypes, ChunksOf
    <3>3. Len(<<>>) = 0 /\ \A n \in Nat \ {0} : 0 < n
      OBVIOUS
    <3> QED
      BY <3>1, <3>2, <3>3 DEF NextPiece, RangesLeft, ThisLine
  <2> QED
    BY <2>1, <2>2
<1> QED
  BY <1>4, <1>5, <1>6, <1>7, <1>8 DEF TInv

LEMMA TypesStep ==
  ASSUME TInv, Next
  PROVE  TInv'
<1> USE DEF targetVars, threadVars, scriptVars
<1>1. CASE Aside
  BY <1>1, AsideTypes
<1>2. CASE ReadMaps
  <2>1. ranges' \in Seq(DOMAIN Lines)
    <3> DEFINE S == {l \in DOMAIN Lines \ unmapped : ToCopy(l)}
    <3>1. ranges' \in [1 .. Cardinality(S) -> S]
      BY <1>2 DEF ReadMaps, InOrder
    <3>2. Cardinality(S) \in Nat
      <4>1. IsFiniteSet(DOMAIN Lines)
        BY LinesAssumption, FS_Interval
      <4> QED
        BY <4>1, FS_Subset, FS_CardinalityType
    <3> HIDE DEF S
    <3>3. S \subseteq DOMAIN Lines
      BY DEF S
    <3> QED
      BY <3>1, <3>2, <3>3
  <2>2. image' \in [stopped : BOOLEAN, memory : [Chunks -> 0 .. MaxWrites],
                    lines : SUBSET DOMAIN Lines]
    BY <1>2 DEF ReadMaps, TInv, TypeOK
  <2>3. \A t \in Threads : pc[t] = "new"
    BY <1>2 DEF ReadMaps, TInv, Early
  <2>4. dumper' = "open" /\ dumper = "maps"
    BY <1>2 DEF ReadMaps
  <2>5. TypeOK'
    BY <1>2, <2>1, <2>2, <2>3, <2>4 DEF ReadMaps, TInv, TypeOK, Active
  <2>6. Early' /\ Modes' /\ OwnFile' /\ NextPiece'
    BY <1>2, <2>3, <2>4 DEF ReadMaps, TInv, Early, Modes, OwnFile, NextPiece, Script, Busy
  <2> QED
    BY <2>5, <2>6 DEF TInv
<1>3. CASE OpenMem
  <2>1. TypeOK'
    BY <1>3 DEF OpenMem, TInv, TypeOK, Active
  <2>2. Early' /\ Modes' /\ OwnFile' /\ NextPiece'
    BY <1>3 DEF OpenMem, TInv, Early, Modes, OwnFile, NextPiece, Script, Busy
  <2> QED
    BY <2>1, <2>2 DEF TInv
<1>4. CASE \E t \in Threads : Claim(t) \/ OpenFile(t) \/ CopyChunk(t) \/ CopyFails(t)
  <2> PICK t \in Threads : Claim(t) \/ OpenFile(t) \/ CopyChunk(t) \/ CopyFails(t)
    BY <1>4
  <2>1. dumper = "copy" /\ dumper' = dumper
    BY DEF Claim, OpenFile, CopyChunk, CopyFails
  <2>2. Early' /\ Modes' /\ NextPiece'
    <3>1. program' = program /\ stream' = stream /\ torn' = torn
      BY DEF Claim, OpenFile, CopyChunk, CopyFails
    <3> QED
      BY <2>1, <3>1 DEF TInv, Early, Modes, NextPiece, Script
  <2>3. CASE Claim(t)
    <3>1. next_range \in Nat \ {0} /\ next_range + 1 \in Nat \ {0}
      BY DEF TInv, TypeOK
    <3>2. RangesLeft => next_range \in DOMAIN ranges
      BY LineTypes
    <3> USE DEF Claim, TInv, TypeOK
    <3>3. /\ pc' \in [Threads -> {"new", "claim", "fopen", "copy", "done"}]
          /\ range_index' \in [Threads -> Nat]
      BY <2>3, <3>1
    <3>5. ASSUME NEW u \in Threads, pc'[u] \in {"fopen", "copy"}
          PROVE  /\ range_index'[u] \in DOMAIN ranges
                 /\ pc'[u] = "copy" =>
                      read_addr[u] \in 0 .. (Lines[ranges[range_index'[u]]].chunks - 1)
      <4>1. CASE u = t
        BY <2>3, <3>2, <3>5, <4>1
      <4>2. CASE u # t
        BY <2>3, <3>5, <4>2 DEF Line
      <4> QED
        BY <4>1, <4>2
    <3>6. /\ UNCHANGED <<targetVars, dumper, dir_exists, ranges, read_addr, files, failed,
                         scriptVars, image>>
          /\ next_range' = next_range + 1
      BY <2>3
    <3>7. TypeOK'
      BY <2>1, <3>1, <3>3, <3>5, <3>6 DEF Line, Active
    <3> USE <3>7
    <3>4. OwnFile'
      BY <2>3 DEF Claim, TInv, TypeOK, OwnFile, Line
    <3> QED
      BY <2>2, <3>4
  <2>4. CASE OpenFile(t)
    <3>1. Line(t) \in DOMAIN Lines /\ range_index[t] \in DOMAIN ranges
      BY <2>4, LineTypes DEF OpenFile, Busy, TInv, TypeOK
    <3>2. Lines[Line(t)].chunks \in Nat \ {0}
      BY <3>1, ChunksOf
    <3>3. 0 \in 0 .. (Lines[Line(t)].chunks - 1)
      BY <3>2
    <3>4. TypeOK'
      BY <2>1, <2>4, <3>1, <3>3 DEF OpenFile, TInv, TypeOK, Line, Active
    <3>5. OwnFile'
      <4>1. <<>> # NoFile
        <5>1. <<>> \in Seq(Nat)
          OBVIOUS
        <5> QED
          BY <5>1, NoFileAssumption
      <4> QED
        BY <2>4, <3>1, <4>1 DEF OpenFile, TInv, TypeOK, OwnFile, Line
    <3> QED
      BY <2>2, <3>4, <3>5 DEF TInv
  <2>5. CASE CopyChunk(t)
    <3>1. Line(t) \in DOMAIN Lines /\ range_index[t] \in DOMAIN ranges
      BY <2>5, LineTypes DEF CopyChunk, Busy, TInv, TypeOK
    <3>2. Lines[Line(t)].chunks \in Nat \ {0}
      BY <3>1, ChunksOf
    <3>3. read_addr[t] \in 0 .. (Lines[Line(t)].chunks - 1)
      BY <2>5 DEF CopyChunk, TInv, TypeOK
    <3>4. /\ read_addr[t] + 1 \in 1 .. Lines[Line(t)].chunks
          /\ MoreToCopy(t) => read_addr[t] + 1 \in 0 .. (Lines[Line(t)].chunks - 1)
          /\ read_addr[t] + 1 \in Nat
      BY <3>2, <3>3 DEF MoreToCopy
    <3>5. memory[<<Line(t), read_addr[t] + 1>>] \in 0 .. MaxWrites
      BY <3>1, <3>4, ChunksOf DEF TInv, TypeOK
    <3>6. files[Line(t)] \in Seq(0 .. MaxWrites)
      BY <2>5, <3>1 DEF CopyChunk, TInv, TypeOK, OwnFile
    <3> DEFINE copied == Append(files[Line(t)], memory[<<Line(t), read_addr[t] + 1>>])
    <3>7. copied \in Seq(0 .. MaxWrites)
      BY <3>5, <3>6
    <3> HIDE DEF copied
    <3>8. /\ files' = [files EXCEPT ![Line(t)] = copied]
          /\ read_addr' = [read_addr EXCEPT ![t] = read_addr[t] + 1]
          /\ pc' = [pc EXCEPT ![t] = IF MoreToCopy(t) THEN "copy" ELSE "claim"]
          /\ UNCHANGED <<targetVars, dumper, dir_exists, ranges, next_range,
                         range_index, failed, scriptVars, image>>
      BY <2>5 DEF CopyChunk, copied
    <3>9. files' \in [DOMAIN Lines -> Seq(0 .. MaxWrites) \cup {NoFile}]
      BY <3>1, <3>7, <3>8 DEF TInv, TypeOK
    <3>10. read_addr' \in [Threads -> Nat]
      BY <3>4, <3>8 DEF TInv, TypeOK
    <3>11. pc' \in [Threads -> {"new", "claim", "fopen", "copy", "done"}]
      BY <3>8 DEF TInv, TypeOK
    <3>12. ASSUME NEW u \in Threads, pc'[u] \in {"fopen", "copy"}
           PROVE  /\ range_index[u] \in DOMAIN ranges
                  /\ pc'[u] = "copy" => read_addr'[u] \in 0 .. (Lines[Line(u)].chunks - 1)
      <4>1. CASE u = t
        BY <3>1, <3>4, <3>8, <3>12, <4>1 DEF TInv, TypeOK
      <4>2. CASE u # t
        BY <3>8, <3>12, <4>2 DEF TInv, TypeOK
      <4> QED
        BY <4>1, <4>2
    <3>13. TypeOK'
      BY <2>1, <3>8, <3>9, <3>10, <3>11, <3>12 DEF TInv, TypeOK, Line, Active
    <3>14. OwnFile'
      <4>1. copied # NoFile
        BY <3>7, NoFileAssumption, MaxWritesAssumption
      <4>2. \A u \in Threads : pc'[u] = "copy" => pc[u] = "copy"
        BY <2>5, <3>8 DEF CopyChunk, TInv, TypeOK
      <4>3. \A l \in DOMAIN Lines : files[l] # NoFile => files'[l] # NoFile
        BY <3>1, <3>8, <4>1 DEF TInv, TypeOK
      <4>4. \A u \in Threads : pc[u] = "copy" => Line(u) \in DOMAIN Lines
        BY LineTypes DEF Busy
      <4> QED
        BY <3>8, <4>2, <4>3, <4>4 DEF TInv, OwnFile, Line
    <3> QED
      BY <2>2, <3>13, <3>14 DEF TInv
  <2>6. CASE CopyFails(t)
    <3>1. Line(t) \in DOMAIN Lines
      BY <2>6, LineTypes DEF CopyFails, Busy
    <3>2. TypeOK'
      BY <2>1, <2>6, <3>1 DEF CopyFails, TInv, TypeOK, Line, Active
    <3>3. OwnFile'
      BY <2>6 DEF CopyFails, TInv, TypeOK, OwnFile, Line
    <3> QED
      BY <2>2, <3>2, <3>3 DEF TInv
  <2> QED
    BY <2>3, <2>4, <2>5, <2>6
<1>5. CASE ReadPiece
  <2>1. ThisLine \in DOMAIN Lines
    BY <1>5, LineTypes DEF ReadPiece
  <2>2. Lines[ThisLine].chunks \in Nat \ {0}
    BY <2>1, ChunksOf
  <2>3. data \in Seq(0 .. MaxWrites) /\ Len(data) < Lines[ThisLine].chunks
    BY <1>5 DEF ReadPiece, TInv, TypeOK, NextPiece
  <2>4. Len(data) + 1 \in 1 .. Lines[ThisLine].chunks
    BY <2>2, <2>3
  <2>5. memory[<<ThisLine, Len(data) + 1>>] \in 0 .. MaxWrites
    BY <2>1, <2>4, ChunksOf DEF TInv, TypeOK
  <2>6. data' \in Seq(0 .. MaxWrites) /\ Len(data') = Len(data) + 1
    BY <1>5, <2>3, <2>5 DEF ReadPiece
  <2>7. /\ dumper' \in {"read", "write"} /\ RangesLeft /\ dumper = "read"
        /\ dumper' = "read" => Len(data') # Lines[ThisLine].chunks
        /\ UNCHANGED <<targetVars, dir_exists, ranges, threadVars, program, stream, tail, torn, image>>
    BY <1>5 DEF ReadPiece
  <2>8. /\ Len(data') <= Lines[ThisLine].chunks
        /\ dumper' = "read" => Len(data') < Lines[ThisLine].chunks
    BY <2>2, <2>3, <2>4, <2>6, <2>7
  <2>9. TypeOK'
    BY <2>6, <2>7, <2>8 DEF TInv, TypeOK, Line, ThisLine, RangesLeft, Active
  <2>10. Early' /\ Modes' /\ OwnFile' /\ NextPiece'
    BY <2>7, <2>8
       DEF TInv, Early, Modes, OwnFile, NextPiece, Line, ThisLine, RangesLeft, Script, Busy
  <2> QED
    BY <2>9, <2>10 DEF TInv
<1>6. CASE ReadEnds
  <2>1. ThisLine \in DOMAIN Lines
    BY <1>6, LineTypes DEF ReadEnds
  <2>2. TypeOK'
    BY <1>6, <2>1 DEF ReadEnds, TInv, TypeOK, Line, ThisLine, RangesLeft, Active
  <2>3. Early' /\ Modes' /\ OwnFile' /\ NextPiece'
    BY <1>6 DEF ReadEnds, TInv, Early, Modes, OwnFile, NextPiece, Line, RangesLeft, Script, Busy
  <2> QED
    BY <2>2, <2>3 DEF TInv
<1>7. CASE ReadRaises \/ ScriptWrites \/ ScriptWriteFails
  <2>1. /\ RangesLeft /\ dumper \in {"read", "write", "data"} /\ dumper' = "read"
        /\ next_range' = next_range + 1 /\ data' = <<>>
        /\ failed' \in {failed, failed \cup {ThisLine}} /\ tail' \in {tail, <<>>}
        /\ UNCHANGED <<targetVars, dir_exists, ranges, pc, range_index, read_addr,
                       program, image>>
    BY <1>7 DEF ReadRaises, ScriptWrites, ScriptWriteFails, TInv, NextPiece
  <2>2. ThisLine \in DOMAIN Lines
    BY <2>1, LineTypes
  <2>3. data \in Seq(0 .. MaxWrites) /\ Len(data) \in Nat
    BY DEF TInv, TypeOK
  <2>4. /\ files' \in [DOMAIN Lines -> Seq(0 .. MaxWrites) \cup {NoFile}]
        /\ Script /\ (program # "stream" => UNCHANGED <<stream, torn>>)
        /\ torn' \in BOOLEAN
    <3>1. \A n \in 0 .. Len(data) : SubSeq(data, 1, n) \in Seq(0 .. MaxWrites)
      BY <2>1, RecordTypes
    <3>2. Script
      BY <2>1 DEF TInv, Modes
    <3>3. CASE ReadRaises
      BY <3>2, <3>3 DEF ReadRaises, TInv, TypeOK
    <3>4. CASE ScriptWrites
      BY <2>2, <2>3, <3>2, <3>4 DEF ScriptWrites, TInv, TypeOK
    <3>5. CASE ScriptWriteFails
      <4>1. CASE program = "stream"
        BY <3>2, <3>5, <4>1 DEF ScriptWriteFails, TInv, TypeOK
      <4>2. CASE program # "stream"
        <5>1. /\ files' \in {files} \cup {[files EXCEPT ![ThisLine] = SubSeq(data, 1, n)] :
                                         n \in 0 .. Len(data)}
              /\ UNCHANGED <<stream, torn>>
          BY <3>5, <4>2 DEF ScriptWriteFails, FilesCut
        <5>2. \A d \in Seq(0 .. MaxWrites) : [files EXCEPT ![ThisLine] = d] \in
                [DOMAIN Lines -> Seq(0 .. MaxWrites) \cup {NoFile}]
          BY <2>2 DEF TInv, TypeOK
        <5>3. files \in [DOMAIN Lines -> Seq(0 .. MaxWrites) \cup {NoFile}] /\ torn \in BOOLEAN
          BY DEF TInv, TypeOK
        <5>4. files' \in [DOMAIN Lines -> Seq(0 .. MaxWrites) \cup {NoFile}]
          <6>1. CASE files' = files
            BY <5>3, <6>1
          <6>2. CASE files' # files
            <7>1. PICK n \in 0 .. Len(data) : files' = [files EXCEPT ![ThisLine] = SubSeq(data, 1, n)]
              BY <5>1, <6>2
            <7> QED
              BY <3>1, <5>2, <7>1
          <6> QED
            BY <6>1, <6>2
        <5> QED
          BY <3>2, <5>1, <5>3, <5>4
      <4> QED
        BY <4>1, <4>2
    <3> QED
      BY <1>7, <3>3, <3>4, <3>5
  <2>5. stream' \in Seq(Nat)
    <3>1. stream \in Seq(Nat) /\ Len(tail) \in Nat
      BY DEF TInv, TypeOK
    <3>3. Record(ThisLine, data) \in Seq(Nat)
      BY <2>1, RecordTypes
    <3>4. ASSUME NEW n \in Len(tail) .. (Len(data) + 1)
          PROVE  SubSeq(Record(ThisLine, data), 1, n) \in Seq(Nat)
      <4>1. n \in 0 .. (2 + Len(data))
        BY <2>3, <3>1
      <4> QED
        BY <2>1, <4>1, RecordTypes
    <3> HIDE DEF Record
    <3>5. CASE ReadRaises
      BY <3>1, <3>5 DEF ReadRaises
    <3>6. CASE ScriptWrites
      <4>1. stream' \in {stream, stream \o Record(ThisLine, data)}
        BY <3>6 DEF ScriptWrites
      <4> QED
        BY <3>1, <3>3, <4>1, ConcatFacts
    <3>7. CASE ScriptWriteFails
      <4>1. CASE program = "stream"
        <5>1. PICK n \in Len(tail) .. (Len(data) + 1) :
                stream' = stream \o SubSeq(Record(ThisLine, data), 1, n)
          BY <3>7, <4>1 DEF ScriptWriteFails, Beginnings
        <5> QED
          BY <3>1, <3>4, <5>1, ConcatFacts
      <4>2. CASE program # "stream"
        BY <3>1, <3>7, <4>2 DEF ScriptWriteFails
      <4> QED
        BY <4>1, <4>2
    <3> QED
      BY <1>7, <3>5, <3>6, <3>7
  <2>6. next_range + 1 \in Nat \ {0} /\ tail' \in Seq(Nat)
    <3>1. <<>> \in Seq(Nat) /\ tail \in Seq(Nat) /\ next_range \in Nat \ {0}
      BY DEF TInv, TypeOK
    <3>2. tail' \in Seq(Nat)
      BY <2>1, <3>1
    <3> QED
      BY <3>1, <3>2
  <2>7. TypeOK'
    BY <2>1, <2>2, <2>4, <2>5, <2>6 DEF TInv, TypeOK, Line, Active
  <2>8. Early' /\ Modes' /\ OwnFile'
    BY <2>1, <2>4 DEF TInv, Early, Modes, OwnFile, Line, Script, Busy
  <2>9. NextPiece'
    <3>1. RangesLeft' => Lines[ThisLine'].chunks \in Nat \ {0}
      <4>1. RangesLeft' => next_range' \in DOMAIN ranges
        BY <2>1, <2>6, LineTypes DEF RangesLeft
      <4>2. RangesLeft' => ThisLine' \in DOMAIN Lines
        BY <2>1, <4>1, LineTypes DEF ThisLine
      <4> QED
        BY <4>2, ChunksOf
    <3>2. Len(<<>>) = 0 /\ \A n \in Nat \ {0} : 0 < n
      OBVIOUS
    <3> QED
      BY <2>1, <3>1, <3>2 DEF NextPiece
  <2> QED
    BY <2>7, <2>8, <2>9 DEF TInv
<1>8. CASE Half
  <2>1. /\ RangesLeft /\ dumper \in {"write", "data"} /\ Script
        /\ dumper' \in {"data", "finally", "interrupted"}
        /\ UNCHANGED <<targetVars, dir_exists, ranges, next_range, pc, range_index,
                       read_addr, failed, program, data, stream, torn, image>>
    BY <1>8 DEF Half, TInv, NextPiece, Modes
  <2>2. ThisLine \in DOMAIN Lines
    BY <2>1, LineTypes
  <2>3. files' \in [DOMAIN Lines -> Seq(0 .. MaxWrites) \cup {NoFile}]
    <3>1. \A d \in Seq(0 .. MaxWrites) : [files EXCEPT ![ThisLine] = d] \in
            [DOMAIN Lines -> Seq(0 .. MaxWrites) \cup {NoFile}]
      BY <2>2 DEF TInv, TypeOK
    <3>2. CASE files' = files
      BY <3>2 DEF TInv, TypeOK
    <3>3. CASE files' # files
      <4>1. PICK n \in 0 .. Len(data) : files' = [files EXCEPT ![ThisLine] = SubSeq(data, 1, n)]
        BY <1>8, <3>3 DEF Half
      <4>2. SubSeq(data, 1, n) \in Seq(0 .. MaxWrites)
        BY <2>1, RecordTypes
      <4> QED
        BY <3>1, <4>1, <4>2
    <3> QED
      BY <3>2, <3>3
  <2>4. tail' \in Seq(Nat)
    <3>1. CASE tail' = tail
      BY <3>1 DEF TInv, TypeOK
    <3>2. CASE tail' # tail
      <4>1. PICK n \in 0 .. (2 + Len(data)) : tail' = SubSeq(Record(ThisLine, data), 1, n)
        BY <1>8, <3>2 DEF Half
      <4> QED
        BY <2>1, <4>1, RecordTypes
    <3> QED
      BY <3>1, <3>2
  <2>5. TypeOK'
    BY <2>1, <2>3, <2>4 DEF TInv, TypeOK, Line, ThisLine, RangesLeft, Active
  <2>6. Early' /\ Modes' /\ OwnFile' /\ NextPiece'
    BY <2>1 DEF TInv, Early, Modes, OwnFile, NextPiece, RangesLeft, Script, Busy
  <2> QED
    BY <2>5, <2>6 DEF TInv
<1> QED
  BY <1>1, <1>2, <1>3, <1>4, <1>5, <1>6, <1>7, <1>8, StepCases DEF TInv

LEMMA TypesInvariant == Spec => []TInv
<1>1. TInv /\ UNCHANGED vars => TInv'
  BY DEF vars, targetVars, threadVars, scriptVars, TInv, TypeOK, Early, Modes, OwnFile,
         NextPiece, Line, ThisLine, RangesLeft, Script, Busy
<1> QED
  BY <1>1, InitTypes, TypesStep, PTL DEF Spec

\* Every variable stays within its type: the threads' ranges are ranges, what they
\* have copied is less than the range while they copy, and what the script has read
\* never exceeds its range.
THEOREM TypeCorrect == Spec => []TypeOK
<1>1. TInv => TypeOK
  BY DEF TInv
<1> QED
  BY <1>1, TypesInvariant, PTL

----------------------------------------------------------------------------
(* The target runs again. *)

LEMMA StopStep ==
  ASSUME TInv, SInv, Next
  PROVE  SInv'
<1> USE DEF targetVars
<1>1. CASE Aside
  <2>1. ASSUME dumper' \in {"start", "pause", "returned", "raised"}
        PROVE  target' # "stopped" /\ ~stop_pending'
    <3>1. CASE dumper' = dumper
      BY <1>1, <2>1, <3>1 DEF Aside, SInv, TInv, TypeOK
    <3>2. CASE dumper \in {"start", "pause"} /\ dumper' # dumper
      BY <1>1, <2>1, <3>2 DEF Aside, Move, SInv, TInv, TypeOK, TargetTypes
    <3>3. CASE dumper \notin {"start", "pause"} /\ dumper' # dumper
      BY <1>1, <2>1, <3>3 DEF Aside, Move
    <3> QED
      BY <3>1, <3>2, <3>3
  <2> QED
    BY <2>1 DEF SInv
<1>2. CASE ReadMaps \/ OpenMem
  BY <1>2 DEF ReadMaps, OpenMem, SInv
<1>3. CASE \E t \in Threads : Claim(t) \/ OpenFile(t) \/ CopyChunk(t) \/ CopyFails(t)
  BY <1>3 DEF Claim, OpenFile, CopyChunk, CopyFails, SInv
<1>4. CASE ReadPiece \/ ReadEnds \/ ReadRaises \/ Half \/ ScriptWrites \/ ScriptWriteFails
  BY <1>4 DEF ReadPiece, ReadEnds, ReadRaises, Half, ScriptWrites, ScriptWriteFails, SInv
<1> QED
  BY <1>1, <1>2, <1>3, <1>4, StepCases DEF TInv

\* A dump that returns, or a script that an exception ends before the stop or out of
\* its try block, leaves the target neither stopped nor about to be, however late the
\* stop came.
THEOREM NeverLeftStopped == Spec => []NotLeftStopped
<1>1. Init => SInv
  BY DEF Init, SInv
<1>2. TInv /\ SInv /\ [Next]_vars => SInv'
  <2>1. SInv /\ UNCHANGED vars => SInv'
    BY DEF SInv, vars, targetVars
  <2> QED
    BY <2>1, StopStep
<1>3. SInv => NotLeftStopped
  BY DEF SInv, NotLeftStopped
<1> QED
  BY <1>1, <1>2, <1>3, TypesInvariant, PTL DEF Spec

----------------------------------------------------------------------------
(* The ranges and the threads that copy them. *)

LEMMA RangesStep ==
  ASSUME TInv, RangesInv, Next
  PROVE  RangesInv'
<1>1. CASE ReadMaps
  <2> DEFINE S == {l \in DOMAIN Lines \ unmapped : ToCopy(l)}
             N == 1 .. Cardinality(S)
  <2>1. ranges' \in [N -> S] /\ \A i, j \in N : i < j => ranges'[i] < ranges'[j]
    BY <1>1 DEF ReadMaps, InOrder
  <2>2. IsFiniteSet(S) /\ Cardinality(S) \in Nat /\ S \subseteq Nat
    <3>1. \A R, s : s \in Seq(R) => IsFiniteSet(DOMAIN s) /\ DOMAIN s \subseteq Nat
      BY FS_Interval
    <3>2. IsFiniteSet(DOMAIN Lines) /\ DOMAIN Lines \subseteq Nat
      BY <3>1, LinesAssumption
    <3>3. S \subseteq DOMAIN Lines
      OBVIOUS
    <3> HIDE DEF S
    <3> QED
      BY <3>2, <3>3, FS_Subset, FS_CardinalityType
  <2>3. image'.lines = S
    BY <1>1 DEF ReadMaps, ToCopy
  <2> HIDE DEF S
  <2>4. ASSUME NEW i \in N, NEW j \in N, ranges'[i] = ranges'[j] PROVE i = j
    <3>0. i \in Nat /\ j \in Nat
      OBVIOUS
    <3> HIDE DEF N
    <3>1. i \in Nat /\ j \in Nat /\ ranges'[i] \in Nat /\ ranges'[j] \in Nat
      BY <2>1, <2>2, <3>0
    <3>2. ~(i < j) /\ ~(j < i)
      BY <2>1, <2>4, <3>1
    <3> QED
      BY <3>1, <3>2
  <2>5. ranges' \in Injection(N, S)
    BY <2>1, <2>4 DEF Injection, IsInjective
  <2>6. IsFiniteSet(N) /\ Cardinality(N) = Cardinality(S)
    <3>1. \A n \in Nat : IsFiniteSet(1 .. n) /\ Cardinality(1 .. n) = n
      <4> SUFFICES ASSUME NEW n \in Nat
                   PROVE  IsFiniteSet(1 .. n) /\ Cardinality(1 .. n) = n
        OBVIOUS
      <4>1. IsFiniteSet(1 .. n) /\ Cardinality(1 .. n) = IF 1 > n THEN 0 ELSE n - 1 + 1
        BY FS_Interval
      <4> QED
        BY <4>1
    <3> QED
      BY <2>2, <3>1
  <2>7. ranges' \in Surjection(N, S)
    BY <2>2, <2>5, <2>6, FS_Injection
  <2>8. {ranges'[i] : i \in N} = S /\ DOMAIN ranges' = N
    BY <2>1, <2>7 DEF Surjection
  <2> QED
    BY <2>3, <2>4, <2>8 DEF RangesInv
<1>2. CASE UNCHANGED <<ranges, image>>
  BY <1>2 DEF RangesInv
<1>3. ReadMaps \/ UNCHANGED <<ranges, image>>
  BY StepCases
     DEF TInv, Aside, CopyVars, OpenMem, Claim, OpenFile, CopyChunk, CopyFails, ReadPiece,
         ReadEnds, ReadRaises, Half, ScriptWrites, ScriptWriteFails
<1> QED
  BY <1>1, <1>2, <1>3

LEMMA ClaimsStep ==
  ASSUME TInv, ClaimsInv, Next
  PROVE  ClaimsInv'
<1> USE DEF threadVars, scriptVars, CopyVars
<1>1. CASE UNCHANGED <<ranges, pc, range_index, next_range>>
  BY <1>1 DEF ClaimsInv, Busy
<1>2. CASE ReadMaps
  <2>1. \A t \in Threads : pc[t] = "new" /\ pc'[t] = "new"
    BY <1>2 DEF ReadMaps, TInv, Early
  <2> QED
    BY <2>1 DEF ClaimsInv, Busy
<1>3. CASE OpenMem
  BY <1>3 DEF OpenMem, ClaimsInv, Busy
<1>4. ASSUME NEW t \in Threads, Claim(t) PROVE ClaimsInv'
  <2>1. /\ next_range \in Nat /\ next_range < next_range + 1
        /\ \A i \in Nat : i < next_range => i < next_range + 1
    BY DEF TInv, TypeOK
  <2>2. \A u \in Threads : range_index[u] \in Nat
    BY DEF TInv, TypeOK
  <2>3. Len(ranges) \in Nat
    BY LineTypes
  <2>4. next_range' = next_range + 1 /\ ranges' = ranges
    BY <1>4 DEF Claim
  <2>5. CASE RangesLeft
    <3>1. /\ range_index' = [range_index EXCEPT ![t] = next_range]
          /\ pc' = [pc EXCEPT ![t] = "fopen"]
      BY <1>4, <2>5 DEF Claim
    <3>2. \A u \in Threads : range_index'[u] = IF u = t THEN next_range ELSE range_index[u]
      BY <3>1 DEF TInv, TypeOK
    <3>3. \A u \in Threads : pc'[u] = IF u = t THEN "fopen" ELSE pc[u]
      BY <3>1 DEF TInv, TypeOK
    <3>4. \A u \in Threads : Busy(u)' => range_index'[u] < next_range'
      BY <2>1, <2>2, <2>4, <3>2, <3>3 DEF ClaimsInv, Busy
    <3>5. \A u, v \in Threads :
            u # v /\ Busy(u)' /\ Busy(v)' => range_index'[u] # range_index'[v]
      BY <2>1, <2>2, <3>2, <3>3 DEF ClaimsInv, Busy
    <3>6. \A u \in Threads : pc'[u] = "done" => next_range' > Len(ranges)
      BY <2>1, <2>3, <2>4, <3>3 DEF ClaimsInv
    <3> QED
      BY <2>4, <3>4, <3>5, <3>6 DEF ClaimsInv
  <2>6. CASE ~RangesLeft
    <3>1. range_index' = range_index /\ pc' = [pc EXCEPT ![t] = "done"]
      BY <1>4, <2>6 DEF Claim
    <3>2. \A u \in Threads : pc'[u] = IF u = t THEN "done" ELSE pc[u]
      BY <3>1 DEF TInv, TypeOK
    <3>3. next_range' > Len(ranges)
      BY <2>1, <2>3, <2>4, <2>6 DEF RangesLeft
    <3> QED
      BY <2>1, <2>2, <2>4, <3>1, <3>2, <3>3 DEF ClaimsInv, Busy
  <2> QED
    BY <2>5, <2>6
<1>5. ASSUME NEW t \in Threads, OpenFile(t) \/ CopyChunk(t) \/ CopyFails(t) PROVE ClaimsInv'
  <2>1. UNCHANGED <<ranges, range_index, next_range>>
    BY <1>5 DEF OpenFile, CopyChunk, CopyFails
  <2>2. \A u \in Threads : pc'[u] # "done" \/ pc'[u] = pc[u]
    BY <1>5 DEF OpenFile, CopyChunk, CopyFails, TInv, TypeOK
  <2>3. \A u \in Threads : Busy(u)' => Busy(u)
    BY <1>5 DEF OpenFile, CopyChunk, CopyFails, TInv, TypeOK, Busy
  <2> QED
    BY <2>1, <2>2, <2>3 DEF ClaimsInv
<1>6. CASE ReadRaises \/ ScriptWrites \/ ScriptWriteFails
  <2>1. /\ next_range' = next_range + 1
        /\ UNCHANGED <<ranges, pc, range_index>>
    BY <1>6 DEF ReadRaises, ScriptWrites, ScriptWriteFails
  <2>2. /\ next_range \in Nat /\ Len(ranges) \in Nat
        /\ \A u \in Threads : range_index[u] \in Nat
    BY LineTypes DEF TInv, TypeOK
  <2>3. /\ \A i \in Nat : i < next_range => i < next_range + 1
        /\ next_range > Len(ranges) => next_range + 1 > Len(ranges)
    BY <2>2
  <2> QED
    BY <2>1, <2>2, <2>3 DEF ClaimsInv, Busy
<1> QED
  BY <1>1, <1>2, <1>3, <1>4, <1>5, <1>6, StepCases DEF TInv, Aside, ReadPiece, ReadEnds, Half

LEMMA DistinctLines ==
  ASSUME TInv, RangesInv, ClaimsInv, NEW s \in Threads, NEW t \in Threads,
         s # t, Busy(s), Busy(t)
  PROVE  Line(s) # Line(t)
BY DEF TInv, TypeOK, RangesInv, ClaimsInv, Busy, Line

LEMMA CopiedStep ==
  ASSUME TInv, RangesInv, ClaimsInv, CopiedInv, Next
  PROVE  CopiedInv'
<1> USE DEF threadVars, scriptVars, CopyVars
<1>1. CASE UNCHANGED <<ranges, pc, range_index, files, read_addr>>
  BY <1>1 DEF CopiedInv, Line
<1>2. CASE ReadMaps \/ OpenMem
  BY <1>2 DEF ReadMaps, OpenMem, TInv, Early, CopiedInv
<1>3. ASSUME NEW t \in Threads, Claim(t) \/ CopyFails(t) PROVE CopiedInv'
  <2>1. \A u \in Threads : pc'[u] = "copy" =>
          pc[u] = "copy" /\ range_index'[u] = range_index[u]
    BY <1>3 DEF Claim, CopyFails, TInv, TypeOK
  <2>2. UNCHANGED <<ranges, files, read_addr>>
    BY <1>3 DEF Claim, CopyFails
  <2> QED
    BY <2>1, <2>2 DEF CopiedInv, Line
<1>4. ASSUME NEW t \in Threads, OpenFile(t) \/ CopyChunk(t) PROVE CopiedInv'
  <2>1. UNCHANGED <<ranges, range_index>> /\ Busy(t)
    BY <1>4 DEF OpenFile, CopyChunk, Busy
  <2>2. Line(t) \in DOMAIN Lines
    BY <2>1, LineTypes
  <2>3. ASSUME NEW u \in Threads, u # t, pc'[u] = "copy"
        PROVE  Len(files'[Line(u)]) = read_addr'[u]
    <3>1. pc[u] = "copy" /\ read_addr'[u] = read_addr[u]
      BY <1>4, <2>3 DEF OpenFile, CopyChunk, TInv, TypeOK
    <3>2. Line(u) # Line(t)
      BY <2>1, <2>3, <3>1, DistinctLines DEF Busy
    <3>3. files'[Line(u)] = files[Line(u)]
      <4>1. \E d : files' = [files EXCEPT ![Line(t)] = d]
        BY <1>4 DEF OpenFile, CopyChunk
      <4>2. Line(u) \in DOMAIN Lines /\ DOMAIN files = DOMAIN Lines
        BY <3>1, LineTypes DEF Busy, TInv, TypeOK
      <4> QED
        BY <3>2, <4>1, <4>2
    <3> QED
      BY <3>1, <3>3 DEF CopiedInv
  <2>4. ASSUME pc'[t] = "copy" PROVE Len(files'[Line(t)]) = read_addr'[t]
    <3>1. CASE OpenFile(t)
      BY <2>2, <3>1 DEF OpenFile, TInv, TypeOK
    <3>2. CASE CopyChunk(t)
      <4>1. /\ files'[Line(t)] = Append(files[Line(t)], memory[<<Line(t), read_addr[t] + 1>>])
            /\ read_addr'[t] = read_addr[t] + 1
        BY <2>2, <3>2 DEF CopyChunk, TInv, TypeOK
      <4>2. Len(files[Line(t)]) = read_addr[t] /\ files[Line(t)] \in Seq(0 .. MaxWrites)
        BY <2>2, <3>2 DEF CopyChunk, CopiedInv, TInv, TypeOK, OwnFile
      <4>3. \A S, x : \A d \in Seq(S) : Len(Append(d, x)) = Len(d) + 1
        OBVIOUS
      <4> QED
        BY <4>1, <4>2, <4>3
    <3> QED
      BY <1>4, <3>1, <3>2
  <2> QED
    BY <2>1, <2>3, <2>4 DEF CopiedInv, Line
<1>5. CASE ReadRaises \/ Half \/ ScriptWrites \/ ScriptWriteFails
  <2>1. \A u \in Threads : pc'[u] # "copy"
    BY <1>5 DEF ReadRaises, Half, ScriptWrites, ScriptWriteFails, TInv, Modes, Busy
  <2> QED
    BY <2>1 DEF CopiedInv
<1> QED
  BY <1>1, <1>2, <1>3, <1>4, <1>5, StepCases DEF TInv, Aside, ReadPiece, ReadEnds

LEMMA FrozenStep ==
  ASSUME TInv, FrozenInv, Next
  PROVE  FrozenInv'
<1> USE DEF targetVars
<1>1. CASE Aside
  <2>1. image' = image
    BY <1>1 DEF Aside, CopyVars
  <2>2. dumper' \in {"open", "copy", "read", "write", "data", "resume"} =>
          dumper \in {"open", "copy", "read", "write", "data", "resume"}
    BY <1>1 DEF Aside, Move
  <2>3. /\ target # "running" => memory' = memory
        /\ target # "running" /\ target' = "running" => dumper' \in {"returned", "raised"}
    BY <1>1 DEF Aside
  <2> QED
    BY <2>1, <2>2, <2>3 DEF FrozenInv
<1>2. CASE ReadMaps
  BY <1>2 DEF ReadMaps, FrozenInv
<1>3. CASE UNCHANGED <<targetVars, image>> /\
           dumper \in {"open", "copy", "read", "write", "data", "resume"}
  BY <1>3 DEF FrozenInv
<1>4. CASE OpenMem
  BY <1>3, <1>4 DEF OpenMem
<1>5. ASSUME NEW t \in Threads, Claim(t) \/ OpenFile(t) \/ CopyChunk(t) \/ CopyFails(t)
      PROVE  FrozenInv'
  BY <1>3, <1>5 DEF Claim, OpenFile, CopyChunk, CopyFails
<1>6. CASE ReadPiece \/ ReadEnds \/ ReadRaises \/ Half \/ ScriptWrites \/ ScriptWriteFails
  BY <1>3, <1>6 DEF ReadPiece, ReadEnds, ReadRaises, Half, ScriptWrites, ScriptWriteFails
<1> QED
  BY <1>1, <1>2, <1>4, <1>5, <1>6, StepCases DEF TInv

LEMMA EndStep ==
  ASSUME TInv, ClaimsInv, EndInv, Next
  PROVE  EndInv'
<1>1. CASE Aside
  <2> SUFFICES ASSUME dumper' \in {"resume", "returned"}
               PROVE  (~RangesLeft)' /\ \A t \in Threads : ~Busy(t)'
    BY DEF EndInv
  <2>1. UNCHANGED <<next_range, ranges, pc>>
    BY <1>1 DEF Aside, CopyVars, threadVars
  <2>2. ~RangesLeft /\ \A t \in Threads : ~Busy(t)
    <3>1. CASE dumper \in {"resume", "returned"}
      BY <3>1 DEF EndInv
    <3>2. CASE dumper = "copy" /\ \A t \in Threads : pc[t] = "done"
      <4>1. PICK t \in Threads : pc[t] = "done"
        BY <3>2, ThreadsAssumption
      <4>2. next_range > Len(ranges)
        BY <4>1 DEF ClaimsInv
      <4>3. ~RangesLeft
        BY <4>2, LineTypes DEF RangesLeft, TInv, TypeOK
      <4> QED
        BY <3>2, <4>3 DEF Busy
    <3>3. CASE dumper = "read" /\ ~RangesLeft
      BY <3>3 DEF TInv, Modes
    <3> QED
      BY <1>1, <3>1, <3>2, <3>3 DEF Aside, Move
  <2> QED
    BY <2>1, <2>2 DEF RangesLeft, Busy
<1>2. CASE dumper' \notin {"resume", "returned"}
  BY <1>2 DEF EndInv
<1> QED
  BY <1>1, <1>2, StepCases
     DEF TInv, ReadMaps, OpenMem, Claim, OpenFile, CopyChunk, CopyFails, ReadPiece,
         ReadEnds, ReadRaises, Half, ScriptWrites, ScriptWriteFails

----------------------------------------------------------------------------
(* What the script has read. *)

\* A picture with one chunk more, or with some chunks less, is one.
LEMMA PictureAppend ==
  ASSUME NEW S, NEW d \in Seq(S), NEW l, IsPicture(d, l), NEW x \in S,
         image.stopped => x = image.memory[<<l, Len(d) + 1>>]
  PROVE  IsPicture(Append(d, x), l)
<1> SUFFICES ASSUME image.stopped, NEW i \in DOMAIN Append(d, x)
             PROVE  Append(d, x)[i] = image.memory[<<l, i>>]
  BY DEF IsPicture
<1>1. /\ Len(d) \in Nat /\ DOMAIN d = 1 .. Len(d)
      /\ DOMAIN Append(d, x) = 1 .. (Len(d) + 1)
      /\ \A k \in 1 .. Len(d) : Append(d, x)[k] = d[k]
      /\ Append(d, x)[Len(d) + 1] = x
  BY AppendFacts
<1>2. i \in 1 .. Len(d) \/ i = Len(d) + 1
  BY <1>1
<1>3. CASE i = Len(d) + 1
  BY <1>1, <1>3
<1>4. CASE i \in 1 .. Len(d)
  BY <1>1, <1>4 DEF IsPicture
<1> QED
  BY <1>2, <1>3, <1>4

LEMMA PicturePart ==
  ASSUME NEW S, NEW d \in Seq(S), NEW l, IsPicture(d, l), NEW n \in 0 .. Len(d)
  PROVE  IsPicture(SubSeq(d, 1, n), l)
<1>1. n \in Nat /\ n <= Len(d) /\ Len(d) \in Nat
  OBVIOUS
<1>2. 1 \in Nat \ {0} /\ 1 <= n + 1 /\ n + 1 - 1 = n /\ \A i \in 1 .. n : 1 + i - 1 = i
  BY <1>1
<1>3. /\ SubSeq(d, 1, n) \in Seq(S) /\ Len(SubSeq(d, 1, n)) = n + 1 - 1
      /\ \A i \in 1 .. (n + 1 - 1) : SubSeq(d, 1, n)[i] = d[1 + i - 1]
  BY <1>1, <1>2, SubSeqFacts
<1> DEFINE p == SubSeq(d, 1, n)
<1> HIDE DEF p
<1>4. p \in Seq(S) /\ Len(p) = n /\ \A i \in 1 .. n : p[i] = d[i]
  BY <1>2, <1>3 DEF p
<1>5. DOMAIN p = 1 .. n /\ DOMAIN d = 1 .. Len(d)
  BY <1>4
<1>6. 1 .. n \subseteq 1 .. Len(d)
  BY <1>1
<1> QED
  BY <1>4, <1>5, <1>6 DEF IsPicture, p

LEMMA EmptyPicture ==
  ASSUME NEW l
  PROVE  IsPicture(<<>>, l)
BY DEF IsPicture

LEMMA DataStep ==
  ASSUME TInv, FrozenInv, DataInv, Next
  PROVE  DataInv'
<1> USE DEF targetVars, threadVars, scriptVars, CopyVars
<1>1. CASE Aside
  <2>1. UNCHANGED <<data, ranges, next_range, failed, image>>
    BY <1>1 DEF Aside
  <2>2. CASE dumper' = dumper
    BY <2>1, <2>2 DEF DataInv, RangesLeft, ThisLine, IsPicture, Whole
  <2>3. CASE dumper' # dumper
    <3>1. dumper' \notin {"write", "data"} /\ (dumper' = "read" => dumper = "open")
      BY <1>1, <2>3 DEF Aside, Move
    <3>2. dumper = "open" => data = <<>>
      BY DEF TInv, Early
    <3>3. dumper' = "read" => IsPicture(data, ThisLine)
      BY <3>1, <3>2, EmptyPicture
    <3> QED
      BY <2>1, <3>1, <3>3 DEF DataInv, RangesLeft, ThisLine, IsPicture
  <2> QED
    BY <2>2, <2>3
<1>2. CASE dumper' \notin {"read", "write", "data"}
  BY <1>2 DEF DataInv
<1>6. CASE Half
  <2>1. dumper \in {"write", "data"} /\ UNCHANGED <<data, ranges, next_range, failed, image>>
    BY <1>6 DEF Half
  <2> QED
    BY <2>1 DEF DataInv, RangesLeft, ThisLine, IsPicture, Whole
<1>3. CASE ReadPiece
  <2>1. /\ dumper = "read" /\ RangesLeft
        /\ data' = Append(data, memory[<<ThisLine, Len(data) + 1>>])
        /\ dumper' \in {"read", "write"}
        /\ dumper' = "write" => Len(data') = Lines[ThisLine].chunks
        /\ UNCHANGED <<ranges, next_range, failed, image>>
    BY <1>3 DEF ReadPiece
  <2>2. IsPicture(data, ThisLine) /\ data \in Seq(0 .. MaxWrites)
    BY <2>1 DEF DataInv, TInv, TypeOK
  <2>3. image.stopped => memory = image.memory
    BY <2>1 DEF FrozenInv
  <2>4. memory[<<ThisLine, Len(data) + 1>>] \in 0 .. MaxWrites
    <3>1. ThisLine \in DOMAIN Lines
      BY <2>1, LineTypes
    <3>2. Lines[ThisLine].chunks \in Nat \ {0}
      BY <3>1, ChunksOf
    <3>3. Len(data) < Lines[ThisLine].chunks /\ Len(data) \in Nat
      BY <2>1, <2>2 DEF TInv, NextPiece
    <3>4. Len(data) + 1 \in 1 .. Lines[ThisLine].chunks
      BY <3>2, <3>3
    <3> QED
      BY <3>1, <3>4, ChunksOf DEF TInv, TypeOK
  <2>5. IsPicture(data', ThisLine)
    BY <2>1, <2>2, <2>3, <2>4, PictureAppend
  <2> QED
    BY <2>1, <2>5 DEF DataInv, RangesLeft, ThisLine, IsPicture, Whole
<1>4. CASE ReadEnds
  <2>1. /\ dumper = "read" /\ RangesLeft /\ failed' = failed \cup {ThisLine}
        /\ dumper' = "write" /\ UNCHANGED <<data, ranges, next_range, image>>
    BY <1>4 DEF ReadEnds
  <2> QED
    BY <2>1 DEF DataInv, RangesLeft, ThisLine, IsPicture, Whole
<1>5. CASE ReadRaises \/ ScriptWrites \/ ScriptWriteFails
  <2>1. data' = <<>> /\ dumper' = "read"
    BY <1>5 DEF ReadRaises, ScriptWrites, ScriptWriteFails
  <2> QED
    BY <2>1 DEF DataInv, IsPicture
<1> QED
  BY <1>1, <1>2, <1>3, <1>4, <1>5, <1>6, StepCases
     DEF TInv, ReadMaps, OpenMem, Claim, OpenFile, CopyChunk, CopyFails

----------------------------------------------------------------------------
(* The files. *)

\* Handing out a range takes its line.
LEMMA TakenNext ==
  ASSUME TInv, ranges' = ranges, next_range' = next_range + 1
  PROVE  /\ RangesLeft => Taken' = Taken \cup {ThisLine}
         /\ ~RangesLeft => Taken' = Taken
<1>1. /\ Len(ranges) \in Nat /\ DOMAIN ranges = 1 .. Len(ranges)
      /\ next_range \in Nat \ {0}
  BY LineTypes DEF TInv, TypeOK
<1>2. \A i \in Nat : i < next_range + 1 <=> i < next_range \/ i = next_range
  BY <1>1
<1>3. \A i \in DOMAIN ranges : i \in Nat /\ i <= Len(ranges)
  BY <1>1
<1>4. RangesLeft <=> next_range \in DOMAIN ranges
  BY <1>1 DEF RangesLeft
<1>5. {i \in DOMAIN ranges : i < next_range + 1} =
        {i \in DOMAIN ranges : i < next_range} \cup
          (IF RangesLeft THEN {next_range} ELSE {})
  BY <1>2, <1>3, <1>4
<1>6. Taken' = {ranges[j] : j \in {i \in DOMAIN ranges : i < next_range + 1}}
  BY DEF Taken
<1>7. RangesLeft => Taken' = Taken \cup {ranges[next_range]}
  BY <1>5, <1>6 DEF Taken
<1>8. ~RangesLeft => Taken' = Taken
  BY <1>5, <1>6 DEF Taken
<1> QED
  BY <1>7, <1>8 DEF ThisLine

\* What is taken, or will be next, is a line of the map.
LEMMA TakenImage ==
  ASSUME TInv, RangesInv
  PROVE  /\ Taken \subseteq image.lines
         /\ RangesLeft => ThisLine \in image.lines
BY LineTypes DEF Taken, RangesInv, ThisLine

LEMMA BusyTaken ==
  ASSUME TInv, ClaimsInv, NEW t \in Threads, Busy(t)
  PROVE  Line(t) \in Taken
<1>1. range_index[t] \in DOMAIN ranges /\ range_index[t] < next_range
  BY DEF TInv, TypeOK, ClaimsInv, Busy
<1> QED
  BY <1>1 DEF Taken, Line

\* Before the copying starts nothing is taken.
LEMMA NoneTaken ==
  ASSUME TInv, next_range = 1
  PROVE  Taken = {}
<1>1. DOMAIN ranges = 1 .. Len(ranges) /\ Len(ranges) \in Nat
  BY LineTypes
<1>2. \A i \in DOMAIN ranges : ~(i < 1)
  BY <1>1
<1> QED
  BY <1>2 DEF Taken

\* FilesInv, of one line.
FileOK(l) ==
  /\ files[l] # NoFile => l \in image.lines /\ IsPicture(files[l], l)
  /\ l \in Taken /\ program = "dump" =>
       \/ \E t \in Threads : Busy(t) /\ Line(t) = l
       \/ files[l] # NoFile /\ Whole(files[l], l)
  /\ l \in Taken /\ program = "script" =>
       l \in failed \/ (files[l] # NoFile /\ Len(files[l]) = Lines[l].chunks)

LEMMA ThreadFilesStep ==
  ASSUME TInv, TInv', RangesInv, ClaimsInv, CopiedInv, FrozenInv, FilesInv,
         NEW t \in Threads, Claim(t) \/ OpenFile(t) \/ CopyChunk(t) \/ CopyFails(t),
         NEW l \in DOMAIN Lines
  PROVE  FileOK(l)'
<1>0. /\ dumper = "copy" /\ program' = program /\ image' = image /\ ranges' = ranges
      /\ program = "dump"
  BY DEF Claim, OpenFile, CopyChunk, CopyFails, scriptVars, TInv, TypeOK, Modes, Script
<1>1. FileOK(l)
  BY DEF FilesInv, FileOK
<1>2. CASE Claim(t)
  <2>1. /\ files' = files /\ failed' = failed /\ next_range' = next_range + 1
        /\ ~Busy(t)
    BY <1>2 DEF Claim, Busy
  <2>2. \A u \in Threads : Busy(u) => Busy(u)' /\ Line(u)' = Line(u)
    <3>1. \A u \in Threads : Busy(u) =>
            pc'[u] = pc[u] /\ range_index'[u] = range_index[u]
      BY <1>2, <2>1 DEF Claim, TInv, TypeOK
    <3> QED
      BY <1>0, <3>1 DEF Busy, Line
  <2>3. CASE ~RangesLeft
    <3>1. Taken' = Taken
      BY <1>0, <2>1, <2>3, TakenNext
    <3> QED
      BY <1>0, <1>1, <2>1, <2>2, <3>1 DEF FileOK, IsPicture, Whole
  <2>4. CASE RangesLeft
    <3>1. Taken' = Taken \cup {ThisLine}
      BY <1>0, <2>1, <2>4, TakenNext
    <3>2. Busy(t)' /\ Line(t)' = ThisLine
      BY <1>0, <1>2, <2>4 DEF Claim, Busy, Line, ThisLine, TInv, TypeOK
    <3> QED
      BY <1>0, <1>1, <2>1, <2>2, <3>1, <3>2 DEF FileOK, IsPicture, Whole
  <2> QED
    BY <2>3, <2>4
<1>3. ASSUME ~Claim(t)
      PROVE  /\ Busy(t) /\ Line(t) \in image.lines /\ Line(t) \in DOMAIN Lines /\ Taken' = Taken
             /\ \A u \in Threads : Line(u)' = Line(u)
             /\ \A u \in Threads : u # t => (Busy(u)' <=> Busy(u))
  <2>1. UNCHANGED <<range_index, next_range>> /\ Busy(t)
    BY <1>3 DEF OpenFile, CopyChunk, CopyFails, Busy
  <2>2. \A u \in Threads : u # t => pc'[u] = pc[u]
    BY <1>3 DEF OpenFile, CopyChunk, CopyFails, TInv, TypeOK
  <2> QED
    BY <1>0, <2>1, <2>2, BusyTaken, TakenImage, LineTypes DEF Busy, Line, Taken
<1>4. CASE OpenFile(t)
  <2>1. /\ files' = [files EXCEPT ![Line(t)] = <<>>] /\ failed' = failed
        /\ pc' = [pc EXCEPT ![t] = "copy"]
    BY <1>4 DEF OpenFile
  <2>2. ~Claim(t)
    BY <1>4 DEF OpenFile, Claim
  <2>3. Busy(t)'
    BY <2>1 DEF Busy, TInv, TypeOK
  <2>4. CASE l = Line(t)
    <3>1. files'[l] = <<>>
      BY <1>3, <2>1, <2>2, <2>4 DEF TInv, TypeOK
    <3>2. IsPicture(files[l], l)'
      BY <3>1 DEF IsPicture
    <3> QED
      BY <1>0, <1>3, <2>2, <2>3, <2>4, <3>2 DEF FileOK
  <2>5. CASE l # Line(t)
    <3>1. files'[l] = files[l]
      BY <2>1, <2>5 DEF TInv, TypeOK
    <3> QED
      BY <1>0, <1>1, <1>3, <2>1, <2>2, <2>3, <2>5, <3>1 DEF FileOK, IsPicture, Whole
  <2> QED
    BY <2>4, <2>5
<1>5. CASE CopyChunk(t)
  <2> DEFINE x == memory[<<Line(t), read_addr[t] + 1>>]
  <2>1. /\ files' = [files EXCEPT ![Line(t)] = Append(files[Line(t)], x)] /\ failed' = failed
        /\ pc' = [pc EXCEPT ![t] = IF MoreToCopy(t) THEN "copy" ELSE "claim"]
        /\ pc[t] = "copy"
    BY <1>5 DEF CopyChunk
  <2>2. ~Claim(t)
    BY <1>5 DEF CopyChunk, Claim
  <2>3. CASE l = Line(t)
    <3>1. files'[l] = Append(files[l], x)
      BY <1>3, <2>1, <2>2, <2>3 DEF TInv, TypeOK
    <3>2. /\ files[l] # NoFile /\ files[l] \in Seq(0 .. MaxWrites)
          /\ Len(files[l]) = read_addr[t]
      BY <2>1, <2>3 DEF TInv, TypeOK, OwnFile, CopiedInv
    <3>3. read_addr[t] \in 0 .. (Lines[l].chunks - 1) /\ Lines[l].chunks \in Nat \ {0}
      BY <2>1, <2>3, ChunksOf DEF TInv, TypeOK
    <3>4. read_addr[t] + 1 \in 1 .. Lines[l].chunks
      BY <3>3
    <3>5. x \in 0 .. MaxWrites
      BY <2>3, <3>4, ChunksOf DEF TInv, TypeOK
    <3>6. image.stopped => x = image.memory[<<l, Len(files[l]) + 1>>]
      BY <1>0, <2>3, <3>2 DEF FrozenInv
    <3>7. IsPicture(files[l], l)
      BY <1>1, <3>2 DEF FileOK
    <3> HIDE DEF x
    <3>8. IsPicture(files'[l], l)
      BY <3>1, <3>2, <3>5, <3>6, <3>7, PictureAppend
    <3>9. IsPicture(files[l], l)'
      BY <1>0, <3>8 DEF IsPicture
    <3>10. files'[l] # NoFile /\ Len(files'[l]) = read_addr[t] + 1
      <4>1. files'[l] \in Seq(0 .. MaxWrites) /\ Len(files'[l]) = Len(files[l]) + 1
        <5>1. ASSUME NEW d \in Seq(0 .. MaxWrites), NEW y \in 0 .. MaxWrites
              PROVE  Append(d, y) \in Seq(0 .. MaxWrites) /\ Len(Append(d, y)) = Len(d) + 1
          BY AppendFacts
        <5> QED
          BY <3>1, <3>2, <3>5, <5>1
      <4>2. files'[l] \in Seq(Nat)
        BY <4>1, MaxWritesAssumption
      <4> QED
        BY <3>2, <4>1, <4>2, NoFileAssumption
    <3>11. Busy(t)' \/ Len(files'[l]) = Lines[l].chunks
      <4>1. CASE MoreToCopy(t)
        BY <2>1, <4>1 DEF Busy, TInv, TypeOK
      <4>2. CASE ~MoreToCopy(t)
        <5>1. ~(read_addr[t] + 1 < Lines[l].chunks)
          BY <2>3, <4>2 DEF MoreToCopy
        <5> QED
          BY <3>3, <3>10, <5>1
      <4> QED
        BY <4>1, <4>2
    <3> QED
      BY <1>0, <1>3, <2>2, <2>3, <3>9, <3>10, <3>11 DEF FileOK, Whole
  <2>4. CASE l # Line(t)
    <3>1. files'[l] = files[l]
      BY <2>1, <2>4 DEF TInv, TypeOK
    <3> HIDE DEF x
    <3> QED
      BY <1>0, <1>1, <1>3, <2>1, <2>2, <2>4, <3>1 DEF FileOK, IsPicture, Whole
  <2> QED
    BY <2>3, <2>4
<1>6. CASE CopyFails(t)
  <2>1. files' = files /\ failed' = failed \cup {Line(t)} /\ ~Claim(t)
    BY <1>6 DEF CopyFails, Claim
  <2>2. files[Line(t)] # NoFile
    BY <1>6 DEF CopyFails, TInv, OwnFile
  <2>3. CASE l = Line(t)
    BY <1>0, <1>1, <1>3, <2>1, <2>2, <2>3 DEF FileOK, IsPicture, Whole
  <2>4. CASE l # Line(t)
    BY <1>0, <1>1, <1>3, <2>1, <2>4 DEF FileOK, IsPicture, Whole
  <2> QED
    BY <2>3, <2>4
<1> QED
  BY <1>2, <1>4, <1>5, <1>6

LEMMA ScriptFilesStep ==
  ASSUME TInv, TInv', RangesInv, FilesInv, DataInv,
         ReadRaises \/ ScriptWrites \/ ScriptWriteFails,
         NEW l \in DOMAIN Lines
  PROVE  FileOK(l)'
<1>1. /\ RangesLeft /\ ranges' = ranges /\ next_range' = next_range + 1
      /\ program' = program /\ image' = image /\ program # "dump"
  BY DEF ReadRaises, ScriptWrites, ScriptWriteFails, TInv, NextPiece, Modes, Script
<1>2. Taken' = Taken \cup {ThisLine}
  BY <1>1, TakenNext
<1>3. FileOK(l) /\ ThisLine \in DOMAIN Lines /\ ThisLine \in image.lines
  BY <1>1, LineTypes, TakenImage DEF FilesInv, FileOK
<1>4. data \in Seq(0 .. MaxWrites)
  BY DEF TInv, TypeOK
<1>5. CASE ReadRaises
  <2>1. files' = files /\ failed' = failed \cup {ThisLine}
    BY <1>5 DEF ReadRaises
  <2> QED
    BY <1>1, <1>2, <1>3, <2>1 DEF FileOK, IsPicture
<1>6. CASE ScriptWrites
  <2>1. failed' = failed /\ dumper = "data"
    BY <1>6 DEF ScriptWrites
  <2>2. CASE program = "stream"
    <3>1. files' = files
      BY <1>6, <2>2 DEF ScriptWrites
    <3> QED
      BY <1>1, <1>2, <1>3, <2>2, <3>1 DEF FileOK, IsPicture
  <2>3. CASE program # "stream"
    <3>1. files' = [files EXCEPT ![ThisLine] = data]
      BY <1>6, <2>3 DEF ScriptWrites
    <3>2. CASE l = ThisLine
      <4>1. files'[l] = data
        BY <3>1, <3>2 DEF TInv, TypeOK
      <4>2. IsPicture(data, l) /\ Whole(data, l)
        BY <1>1, <2>1, <3>2 DEF DataInv
      <4>3. data # NoFile
        BY <1>4, NoFileAssumption, MaxWritesAssumption
      <4> QED
        BY <1>1, <1>2, <1>3, <2>1, <3>2, <4>1, <4>2, <4>3 DEF FileOK, IsPicture, Whole
    <3>3. CASE l # ThisLine
      <4>1. files'[l] = files[l]
        BY <3>1, <3>3 DEF TInv, TypeOK
      <4> QED
        BY <1>1, <1>2, <1>3, <2>1, <3>3, <4>1 DEF FileOK, IsPicture
    <3> QED
      BY <3>2, <3>3
  <2> QED
    BY <2>2, <2>3
<1>7. CASE ScriptWriteFails
  <2>1. failed' = failed \cup {ThisLine} /\ dumper \in {"write", "data"}
    BY <1>7 DEF ScriptWriteFails
  <2>2. CASE files' = files
    BY <1>1, <1>2, <1>3, <2>1, <2>2 DEF FileOK, IsPicture
  <2>3. CASE files' # files
    <3>1. PICK n \in 0 .. Len(data) : files' = [files EXCEPT ![ThisLine] = SubSeq(data, 1, n)]
      BY <1>7, <2>3 DEF ScriptWriteFails, FilesCut
    <3>2. CASE l = ThisLine
      <4>1. files'[l] = SubSeq(data, 1, n)
        BY <3>1, <3>2 DEF TInv, TypeOK
      <4>2. IsPicture(data, l)
        BY <1>1, <2>1, <3>2 DEF DataInv
      <4>3. IsPicture(files'[l], l)
        BY <1>4, <4>1, <4>2, PicturePart
      <4> QED
        BY <1>1, <1>2, <1>3, <2>1, <3>2, <4>3 DEF FileOK, IsPicture
    <3>3. CASE l # ThisLine
      <4>1. files'[l] = files[l]
        BY <3>1, <3>3 DEF TInv, TypeOK
      <4> QED
        BY <1>1, <1>2, <1>3, <2>1, <3>3, <4>1 DEF FileOK, IsPicture
    <3> QED
      BY <3>2, <3>3
  <2> QED
    BY <2>2, <2>3
<1> QED
  BY <1>5, <1>6, <1>7

\* A part of a file is written, or none.
LEMMA HalfFilesStep ==
  ASSUME TInv, RangesInv, FilesInv, DataInv, Half, NEW l \in DOMAIN Lines
  PROVE  FileOK(l)'
<1>1. /\ RangesLeft /\ dumper \in {"write", "data"} /\ program # "dump"
      /\ UNCHANGED <<ranges, next_range, pc, range_index, failed, program, image>>
  BY DEF Half, TInv, NextPiece, Modes, Script
<1>2. Taken' = Taken
  BY <1>1 DEF Taken
<1>3. FileOK(l) /\ ThisLine \in image.lines /\ ThisLine \notin Taken
  <2>1. next_range \in DOMAIN ranges /\ next_range \in Nat
    BY <1>1, LineTypes DEF TInv, TypeOK
  <2>2. ~(next_range < next_range)
    BY <2>1
  <2>3. ThisLine \notin Taken
    BY <2>1, <2>2 DEF Taken, ThisLine, RangesInv
  <2> QED
    BY <1>1, <2>3, TakenImage DEF FilesInv, FileOK
<1>4. CASE files' = files
  BY <1>1, <1>2, <1>3, <1>4 DEF FileOK, IsPicture
<1>5. CASE files' # files
  <2>1. PICK n \in 0 .. Len(data) : files' = [files EXCEPT ![ThisLine] = SubSeq(data, 1, n)]
    BY <1>5 DEF Half
  <2>2. CASE l = ThisLine
    <3>1. files'[l] = SubSeq(data, 1, n)
      BY <2>1, <2>2 DEF TInv, TypeOK
    <3>2. IsPicture(data, l) /\ data \in Seq(0 .. MaxWrites)
      BY <1>1, <2>2 DEF DataInv, TInv, TypeOK
    <3>3. IsPicture(files'[l], l)
      BY <3>1, <3>2, PicturePart
    <3> QED
      BY <1>1, <1>2, <1>3, <2>2, <3>3 DEF FileOK, IsPicture
  <2>3. CASE l # ThisLine
    <3>1. files'[l] = files[l]
      BY <2>1, <2>3 DEF TInv, TypeOK
    <3> QED
      BY <1>1, <1>2, <1>3, <3>1 DEF FileOK, IsPicture
  <2> QED
    BY <2>2, <2>3
<1> QED
  BY <1>4, <1>5

LEMMA FilesStep ==
  ASSUME TInv, TInv', RangesInv, ClaimsInv, CopiedInv, FrozenInv, FilesInv, DataInv, Next
  PROVE  FilesInv'
<1> SUFFICES ASSUME NEW l \in DOMAIN Lines PROVE FileOK(l)'
  BY DEF FilesInv, FileOK
<1> USE DEF threadVars, scriptVars, CopyVars
<1>1. FileOK(l)
  BY DEF FilesInv, FileOK
<1>2. CASE UNCHANGED <<files, ranges, next_range, program, pc, range_index, failed, image>>
  BY <1>1, <1>2 DEF FileOK, Taken, Busy, Line, IsPicture, Whole
<1>3. CASE ReadMaps \/ OpenMem
  <2>1. next_range' = 1 /\ files'[l] = NoFile
    BY <1>3 DEF ReadMaps, OpenMem, TInv, Early
  <2>2. DOMAIN ranges' = 1 .. Len(ranges') /\ Len(ranges') \in Nat
    BY DEF TInv, TypeOK
  <2>3. \A i \in DOMAIN ranges' : ~(i < 1)
    BY <2>2
  <2>4. Taken' = {}
    BY <2>1, <2>3 DEF Taken
  <2> QED
    BY <2>1, <2>4 DEF FileOK
<1>4. CASE ReadEnds
  <2>1. /\ program # "dump" /\ failed \subseteq failed'
        /\ UNCHANGED <<files, ranges, next_range, program, image>>
    BY <1>4 DEF ReadEnds, TInv, Modes, Script
  <2> QED
    BY <1>1, <2>1 DEF FileOK, Taken, IsPicture
<1> QED
  BY <1>2, <1>3, <1>4, StepCases, ThreadFilesStep, ScriptFilesStep, HalfFilesStep
     DEF TInv, Aside, ReadPiece

----------------------------------------------------------------------------
(* The stream. *)

\* The regions stay right when ranges are taken that fail.
LEMMA RegionsKept ==
  ASSUME NEW regs, RegsOK(regs), image' = image, program' = program,
         Taken \subseteq Taken', failed \subseteq failed',
         program = "stream" => Taken' \subseteq Taken \cup failed'
  PROVE  RegsOK(regs)'
BY DEF RegsOK, IsPicture

LEMMA StreamKept ==
  ASSUME StreamInv, image' = image, program' = program, stream' = stream, torn' = torn,
         Taken \subseteq Taken', failed \subseteq failed',
         program = "stream" => Taken' \subseteq Taken \cup failed'
  PROVE  StreamInv'
<1> SUFFICES ASSUME ~torn PROVE \E regs, pos : Streams(stream, regs, pos)' /\ RegsOK(regs)'
  BY DEF StreamInv
<1>1. PICK regs, pos : Streams(stream, regs, pos) /\ RegsOK(regs)
  BY DEF StreamInv
<1>2. RegsOK(regs)'
  BY <1>1, RegionsKept
<1>3. Streams(stream, regs, pos)'
  BY <1>1 DEF Streams
<1> QED
  BY <1>2, <1>3

LEMMA StreamStep ==
  ASSUME TInv, TInv', RangesInv, StreamInv, DataInv, Next
  PROVE  StreamInv'
<1> USE DEF threadVars, scriptVars, CopyVars
<1>1. CASE UNCHANGED <<ranges, next_range, image, program, stream, torn>> /\ failed \subseteq failed'
  <2>1. Taken' = Taken
    BY <1>1 DEF Taken
  <2> QED
    BY <1>1, <2>1, StreamKept
<1>2. CASE ReadMaps
  <2>1. next_range' = 1 /\ stream' = <<>>
    BY <1>2 DEF ReadMaps, TInv, Early
  <2>2. DOMAIN ranges' = 1 .. Len(ranges') /\ Len(ranges') \in Nat
    BY DEF TInv, TypeOK
  <2>3. \A i \in DOMAIN ranges' : ~(i < 1)
    BY <2>2
  <2>4. Taken' = {}
    BY <2>1, <2>3 DEF Taken
  <2>5. DOMAIN <<>> = {}
    OBVIOUS
  <2>6. RegsOK(<<>>)'
    BY <2>4, <2>5 DEF RegsOK
  <2>7. Streams(stream', <<>>, [i \in 1 .. 1 |-> 1])
    BY <2>1, NoStream
  <2> QED
    BY <2>6, <2>7 DEF StreamInv
<1>3. ASSUME NEW t \in Threads, Claim(t) PROVE StreamInv'
  <2>1. /\ program # "stream" /\ failed' = failed /\ ranges' = ranges
        /\ next_range' = next_range + 1
        /\ UNCHANGED <<image, program, stream, torn>>
    BY <1>3 DEF Claim, TInv, Modes, Script
  <2>2. Taken \subseteq Taken'
    BY <2>1, TakenNext
  <2> QED
    BY <2>1, <2>2, StreamKept
<1>4. CASE ReadRaises
  <2>1. /\ RangesLeft /\ failed' = failed \cup {ThisLine} /\ ranges' = ranges
        /\ next_range' = next_range + 1
        /\ UNCHANGED <<image, program, stream, torn>>
    BY <1>4 DEF ReadRaises
  <2>2. Taken' = Taken \cup {ThisLine}
    BY <2>1, TakenNext
  <2> QED
    BY <2>1, <2>2, StreamKept
<1>5. CASE ScriptWriteFails
  <2>1. /\ RangesLeft /\ failed' = failed \cup {ThisLine} /\ ranges' = ranges
        /\ next_range' = next_range + 1
        /\ UNCHANGED <<image, program>>
    BY <1>5 DEF ScriptWriteFails, TInv, NextPiece
  <2>2. Taken' = Taken \cup {ThisLine}
    BY <2>1, TakenNext
  <2>3. CASE program = "stream"
    BY <1>5, <2>3 DEF ScriptWriteFails, StreamInv
  <2>4. CASE program # "stream"
    <3>1. stream' = stream /\ torn' = torn
      BY <1>5, <2>4 DEF ScriptWriteFails
    <3> QED
      BY <2>1, <2>2, <3>1, StreamKept
  <2> QED
    BY <2>3, <2>4
<1>6. CASE ScriptWrites
  <2>1. /\ RangesLeft /\ failed' = failed /\ ranges' = ranges /\ dumper = "data"
        /\ next_range' = next_range + 1
        /\ UNCHANGED <<image, program, torn>>
    BY <1>6 DEF ScriptWrites, TInv, NextPiece
  <2>2. Taken' = Taken \cup {ThisLine}
    BY <2>1, TakenNext
  <2>3. CASE program # "stream"
    <3>1. stream' = stream
      BY <1>6, <2>3 DEF ScriptWrites
    <3> QED
      BY <2>1, <2>2, <2>3, <3>1, StreamKept
  <2>4. CASE program = "stream" /\ ~torn
    <3>1. stream' = stream \o Record(ThisLine, data)
      BY <1>6, <2>4 DEF ScriptWrites
    <3>2. PICK regs, pos : Streams(stream, regs, pos) /\ RegsOK(regs)
      BY <2>4 DEF StreamInv
    <3>3. ThisLine \in Nat /\ ThisLine \in DOMAIN Lines
      BY <2>1, LineTypes, ChunksOf
    <3>4. data \in Seq(Nat)
      BY MaxWritesAssumption DEF TInv, TypeOK
    <3>19. PICK r : r = [line |-> ThisLine, data |-> data]
      OBVIOUS
    <3>20. PICK regs2 : regs2 = Append(regs, r)
      OBVIOUS
    <3>5. PICK pos2 : Streams(stream', regs2, pos2)
      BY <3>1, <3>2, <3>3, <3>4, <3>19, <3>20, StreamGrows
    <3>6. /\ regs \in Seq(Regions) /\ r \in Regions
      BY <3>2, <3>3, <3>4, <3>19 DEF Streams, Regions
    <3>7. r.line = ThisLine /\ r.data = data
      BY <3>19
    <3>8. /\ Len(regs) \in Nat /\ DOMAIN regs = 1 .. Len(regs)
          /\ DOMAIN regs2 = 1 .. (Len(regs) + 1)
          /\ \A k \in 1 .. Len(regs) : regs2[k] = regs[k]
          /\ regs2[Len(regs) + 1] = r
      BY <3>6, <3>20, AppendFacts
    <3>9. \A k \in DOMAIN regs2 : k \in DOMAIN regs \/ k = Len(regs) + 1
      BY <3>8
    <3>10. /\ \A k \in DOMAIN regs : k \in DOMAIN regs2 /\ regs2[k] = regs[k]
           /\ Len(regs) + 1 \in DOMAIN regs2
      BY <3>8
    <3>11. ThisLine \notin Taken
      <4>1. next_range \in DOMAIN ranges /\ next_range \in Nat
        BY <2>1, LineTypes DEF TInv, TypeOK
      <4>2. ~(next_range < next_range)
        BY <4>1
      <4> QED
        BY <4>1, <4>2 DEF Taken, ThisLine, RangesInv
    <3>12. IsPicture(data, ThisLine) /\ Whole(data, ThisLine)
      BY <2>1 DEF DataInv
    <3>13. \A k \in DOMAIN regs : regs[k].line \in Taken /\ IsPicture(regs[k].data, regs[k].line)
      BY <3>2 DEF RegsOK
    <3>14. \A k \in DOMAIN regs2 :
             regs2[k].line \in Taken' /\ IsPicture(regs2[k].data, regs2[k].line)'
      <4> SUFFICES ASSUME NEW k \in DOMAIN regs2
                   PROVE  regs2[k].line \in Taken' /\ IsPicture(regs2[k].data, regs2[k].line)'
        OBVIOUS
      <4>1. regs2[k].line \in Taken' /\ IsPicture(regs2[k].data, regs2[k].line)
        BY <2>2, <3>7, <3>8, <3>9, <3>10, <3>12, <3>13
      <4> QED
        BY <2>1, <4>1 DEF IsPicture
    <3>15. \A k, m \in DOMAIN regs2 : regs2[k].line = regs2[m].line => k = m
      BY <3>2, <3>7, <3>8, <3>9, <3>10, <3>11, <3>13 DEF RegsOK
    <3>16. \A l \in Taken' : l \in failed' \/
             \E k \in DOMAIN regs2 : regs2[k].line = l /\ Len(regs2[k].data) = Lines[l].chunks
      <4> SUFFICES ASSUME NEW l \in Taken', l \notin failed
                   PROVE  \E k \in DOMAIN regs2 :
                            regs2[k].line = l /\ Len(regs2[k].data) = Lines[l].chunks
        BY <2>1
      <4>1. CASE l \in Taken
        <5>1. PICK k \in DOMAIN regs : regs[k].line = l /\ Len(regs[k].data) = Lines[l].chunks
          BY <2>4, <3>2, <4>1 DEF RegsOK
        <5> QED
          BY <3>10, <5>1
      <4>2. CASE l = ThisLine
        BY <3>7, <3>8, <3>10, <3>12, <4>2 DEF Whole
      <4> QED
        BY <2>2, <4>1, <4>2
    <3>17. RegsOK(regs2)'
      BY <3>14, <3>15, <3>16 DEF RegsOK
    <3>18. Streams(stream, regs2, pos2)'
      BY <3>5 DEF Streams
    <3> QED
      BY <3>17, <3>18 DEF StreamInv
  <2>5. CASE torn
    BY <2>1, <2>5 DEF StreamInv
  <2> QED
    BY <2>3, <2>4, <2>5
<1> QED
  BY <1>1, <1>2, <1>3, <1>4, <1>5, <1>6, StepCases
     DEF TInv, Aside, OpenMem, OpenFile, CopyChunk, CopyFails, ReadPiece, ReadEnds, Half

LEMMA TailStep ==
  ASSUME TInv, TailInv, Next
  PROVE  TailInv'
<1> DEFINE Late == {"data", "finally", "raised", "abandoned", "interrupted"}
<1> USE DEF threadVars, scriptVars, CopyVars
<1>1. CASE Aside
  <2>1. UNCHANGED <<tail, data, ranges, next_range>>
    BY <1>1 DEF Aside
  <2>2. dumper \in Late => dumper' \in Late
    BY <1>1 DEF Aside, Move
  <2> QED
    BY <2>1, <2>2 DEF TailInv, RangesLeft, ThisLine
<1>2. CASE Half
  <2>1. /\ RangesLeft /\ dumper' \in Late
        /\ UNCHANGED <<data, ranges, next_range>>
    BY <1>2 DEF Half, TInv, NextPiece
  <2>2. \/ tail' = tail
        \/ \E n \in 0 .. (2 + Len(data)) : tail' = SubSeq(Record(ThisLine, data), 1, n)
    BY <1>2 DEF Half
  <2>3. RangesLeft' = RangesLeft /\ ThisLine' = ThisLine
    BY <2>1 DEF RangesLeft, ThisLine
  <2> HIDE DEF Record
  <2> QED
    BY <2>1, <2>2, <2>3 DEF TailInv, Record
<1>3. CASE dumper \notin Late /\ tail' = tail
  BY <1>3 DEF TailInv
<1>4. CASE tail' = <<>>
  BY <1>4 DEF TailInv
<1> QED
  BY <1>1, <1>2, <1>3, <1>4, StepCases
     DEF TInv, ReadMaps, OpenMem, Claim, OpenFile, CopyChunk, CopyFails,
         ReadPiece, ReadEnds, ReadRaises, ScriptWrites, ScriptWriteFails

----------------------------------------------------------------------------
(* The theorems. *)

LEMMA InitDump == Init => DInv
<1> SUFFICES ASSUME Init PROVE DInv
  OBVIOUS
<1>1. TInv
  BY InitTypes
<1>2. SInv /\ CopiedInv /\ FrozenInv /\ DataInv /\ TailInv /\ EndInv
  BY DEF Init, SInv, CopiedInv, FrozenInv, DataInv, TailInv, EndInv
<1>3. RangesInv
  <2>1. DOMAIN ranges = {} /\ image.lines = {}
    BY DEF Init
  <2> QED
    BY <2>1 DEF RangesInv
<1>4. ClaimsInv
  BY DEF Init, ClaimsInv, Busy
<1>5. Taken = {}
  BY <1>1, NoneTaken DEF Init
<1>6. FilesInv
  BY <1>5 DEF Init, FilesInv
<1>7. StreamInv
  <2>1. DOMAIN <<>> = {}
    OBVIOUS
  <2>2. RegsOK(<<>>)
    BY <1>5, <2>1 DEF RegsOK
  <2>3. Streams(stream, <<>>, [i \in 1 .. 1 |-> 1])
    BY NoStream DEF Init
  <2> QED
    BY <2>2, <2>3 DEF StreamInv
<1> QED
  BY <1>1, <1>2, <1>3, <1>4, <1>6, <1>7 DEF DInv

LEMMA StutterDump ==
  ASSUME DInv, UNCHANGED vars
  PROVE  DInv'
<1> USE DEF DInv, vars, targetVars, threadVars, scriptVars
<1>1. Taken' = Taken
  BY DEF Taken
<1>2. TInv'
  BY DEF TInv, TypeOK, Early, Modes, OwnFile, NextPiece, Line, ThisLine, RangesLeft, Script, Busy
<1>3. SInv' /\ RangesInv' /\ ClaimsInv' /\ CopiedInv' /\ FrozenInv' /\ EndInv'
  BY DEF SInv, RangesInv, ClaimsInv, CopiedInv, FrozenInv, EndInv, Line, RangesLeft, Busy
<1>4. FilesInv' /\ DataInv'
  BY <1>1 DEF FilesInv, DataInv, IsPicture, Whole, Busy, Line, ThisLine, RangesLeft
<1>5. StreamInv' /\ TailInv'
  BY <1>1, StreamKept DEF TailInv, RangesLeft, ThisLine
<1> QED
  BY <1>2, <1>3, <1>4, <1>5

LEMMA DumpInvariant == Spec => []DInv
<1>1. DInv /\ Next => DInv'
  <2> SUFFICES ASSUME DInv, Next PROVE DInv'
    OBVIOUS
  <2>1. /\ TInv /\ SInv /\ RangesInv /\ ClaimsInv /\ CopiedInv /\ FrozenInv
        /\ FilesInv /\ DataInv /\ StreamInv /\ TailInv /\ EndInv
    BY DEF DInv
  <2>2. TInv' /\ SInv'
    BY <2>1, TypesStep, StopStep
  <2>3. RangesInv' /\ ClaimsInv' /\ CopiedInv'
    BY <2>1, RangesStep, ClaimsStep, CopiedStep
  <2>4. FrozenInv' /\ EndInv' /\ DataInv'
    BY <2>1, FrozenStep, EndStep, DataStep
  <2>5. FilesInv'
    BY <2>1, <2>2, FilesStep
  <2>6. StreamInv' /\ TailInv'
    BY <2>1, <2>2, StreamStep, TailStep
  <2> QED
    BY <2>2, <2>3, <2>4, <2>5, <2>6 DEF DInv
<1>2. DInv /\ [Next]_vars => DInv'
  BY <1>1, StutterDump
<1> QED
  BY <1>2, InitDump, PTL DEF Spec

\* What the snapshot has of a line is the data of the line's region, or nothing.
LEMMA SnapshotIs ==
  ASSUME TInv, NEW regs, NEW pos, Streams(stream, regs, pos), program = "stream", NEW l
  PROVE  \/ Snapshot(l) = NoFile /\ \A k \in DOMAIN regs : regs[k].line # l
         \/ \E k \in DOMAIN regs : regs[k].line = l /\ Snapshot(l) = regs[k].data
<1> DEFINE found == {r \in UNION {ToSet(s) : s \in LoadStream(stream)} : r.line = l}
<1>1. LoadStream(stream) = {regs}
  BY LoadWhole
<1>2. \A r : r \in found <=> r.line = l /\ \E k \in DOMAIN regs : r = regs[k]
  BY <1>1 DEF ToSet
<1> HIDE DEF found
<1>3. Snapshot(l) = IF found = {} THEN NoFile ELSE (CHOOSE r \in found : TRUE).data
  BY DEF Snapshot, found
<1>4. CASE found = {}
  BY <1>2, <1>3, <1>4
<1>5. CASE found # {}
  <2>1. PICK r : r = CHOOSE x \in found : TRUE
    OBVIOUS
  <2>2. r \in found
    BY <1>5, <2>1
  <2>3. Snapshot(l) = r.data
    BY <1>3, <1>5, <2>1
  <2> QED
    BY <1>2, <2>2, <2>3
<1> QED
  BY <1>4, <1>5

\* When nothing is left to copy, every line of the map has been taken.
LEMMA AllTaken ==
  ASSUME TInv, RangesInv, ~RangesLeft
  PROVE  Taken = image.lines
<1>1. /\ DOMAIN ranges = 1 .. Len(ranges) /\ Len(ranges) \in Nat /\ next_range \in Nat
  BY LineTypes DEF TInv, TypeOK
<1>2. next_range > Len(ranges)
  BY <1>1 DEF RangesLeft
<1>3. \A i \in DOMAIN ranges : i < next_range
  BY <1>1, <1>2
<1> QED
  BY <1>3 DEF Taken, RangesInv

\* The snapshot of a process that had stopped when its map was read is a picture of
\* one moment, whatever threads copied which range in which order.
THEOREM SnapshotOfOneMoment == Spec => []PictureOfOneMoment
<1>1. ASSUME DInv, image.stopped, ~torn, NEW l \in image.lines, Snapshot(l) # NoFile,
             NEW i \in DOMAIN Snapshot(l)
      PROVE  Snapshot(l)[i] = image.memory[<<l, i>>]
  <2> USE DEF DInv
  <2>1. l \in DOMAIN Lines
    BY <1>1 DEF TInv, TypeOK
  <2>2. CASE program # "stream"
    <3>1. Snapshot(l) = files[l]
      BY <2>2 DEF Snapshot
    <3> QED
      BY <1>1, <2>1, <3>1 DEF FilesInv, IsPicture
  <2>3. CASE program = "stream"
    <3>1. PICK regs, pos : Streams(stream, regs, pos) /\ RegsOK(regs)
      BY <1>1 DEF StreamInv
    <3>2. PICK k \in DOMAIN regs : regs[k].line = l /\ Snapshot(l) = regs[k].data
      BY <1>1, <2>3, <3>1, SnapshotIs
    <3>3. IsPicture(regs[k].data, l)
      BY <3>1, <3>2 DEF RegsOK
    <3> QED
      BY <1>1, <3>2, <3>3 DEF IsPicture
  <2> QED
    BY <2>2, <2>3
<1>2. DInv => PictureOfOneMoment
  BY <1>1 DEF PictureOfOneMoment
<1> QED
  BY <1>2, DumpInvariant, PTL

\* A dump that returns has every line of the map that may be read and is private,
\* and the whole of it unless reading or writing it failed.
THEOREM NoRangeLost == Spec => []NothingLost
<1>1. ASSUME DInv, dumper = "returned", ~torn, NEW l \in image.lines
      PROVE  /\ l \in failed \/ (Snapshot(l) # NoFile /\ Len(Snapshot(l)) = Lines[l].chunks)
             /\ program = "dump" => files[l] # NoFile
  <2> USE DEF DInv
  <2>1. l \in DOMAIN Lines /\ program \in {"dump", "script", "stream"}
    BY <1>1 DEF TInv, TypeOK
  <2>2. ~RangesLeft /\ \A t \in Threads : ~Busy(t)
    BY <1>1 DEF EndInv
  <2>3. l \in Taken
    BY <1>1, <2>2, AllTaken
  <2>4. CASE program # "stream"
    <3>1. Snapshot(l) = files[l]
      BY <2>4 DEF Snapshot
    <3>2. FileOK(l)
      BY <1>1, <2>1 DEF FilesInv, FileOK
    <3>3. CASE program = "dump"
      BY <2>2, <2>3, <3>1, <3>2, <3>3 DEF FileOK, Whole
    <3>4. CASE program = "script"
      BY <2>3, <3>1, <3>2, <3>4 DEF FileOK
    <3> QED
      BY <2>1, <2>4, <3>3, <3>4
  <2>5. CASE program = "stream"
    <3>1. PICK regs, pos : Streams(stream, regs, pos) /\ RegsOK(regs)
      BY <1>1 DEF StreamInv
    <3>2. CASE l \in failed
      BY <2>5, <3>2
    <3>3. CASE l \notin failed
      <4>1. PICK k \in DOMAIN regs : regs[k].line = l /\ Len(regs[k].data) = Lines[l].chunks
        BY <2>3, <2>5, <3>1, <3>3 DEF RegsOK
      <4>2. PICK m \in DOMAIN regs : regs[m].line = l /\ Snapshot(l) = regs[m].data
        BY <1>1, <2>5, <3>1, <4>1, SnapshotIs
      <4>3. m = k
        BY <3>1, <4>1, <4>2 DEF RegsOK
      <4>4. regs[k].data \in Seq(Nat)
        <5>1. regs \in Seq(Regions)
          BY <3>1 DEF Streams
        <5>2. regs[k] \in Regions
          BY <5>1
        <5> QED
          BY <5>2 DEF Regions
      <4> QED
        BY <2>5, <4>1, <4>2, <4>3, <4>4, NoFileAssumption
    <3> QED
      BY <3>2, <3>3
  <2> QED
    BY <2>4, <2>5
<1>2. DInv => NothingLost
  BY <1>1 DEF NothingLost
<1> QED
  BY <1>2, DumpInvariant, PTL

\* Only readable private lines are copied, none twice to the stream, and no two
\* threads write to the same file.
THEOREM OnlyItsOwnCopied == Spec => []CopiesOnlyItsOwn
<1>1. ASSUME DInv PROVE CopiesOnlyItsOwn
  <2> USE <1>1 DEF DInv
  <2>1. Taken \subseteq image.lines
    BY TakenImage
  <2>2. ASSUME ~torn, NEW l \in DOMAIN Lines, Snapshot(l) # NoFile PROVE l \in image.lines
    <3>1. CASE program # "stream"
      BY <2>1, <2>2, <3>1 DEF Snapshot, FilesInv
    <3>2. CASE program = "stream"
      <4>1. PICK regs, pos : Streams(stream, regs, pos) /\ RegsOK(regs)
        BY <2>2 DEF StreamInv
      <4>2. PICK k \in DOMAIN regs : regs[k].line = l
        BY <2>2, <3>2, <4>1, SnapshotIs
      <4> QED
        BY <2>1, <4>1, <4>2 DEF RegsOK
    <3> QED
      BY <3>1, <3>2
  <2>3. ASSUME ~torn, NEW s \in LoadStream(stream)
        PROVE  IsInjective([i \in DOMAIN s |-> s[i].line])
    <3>1. PICK regs, pos : Streams(stream, regs, pos) /\ RegsOK(regs)
      BY <2>3 DEF StreamInv
    <3>2. s = regs
      BY <2>3, <3>1, LoadWhole
    <3> QED
      BY <3>1, <3>2 DEF IsInjective, RegsOK
  <2>4. ASSUME NEW s \in Threads, NEW t \in Threads, s # t,
               {pc[s], pc[t]} \subseteq {"fopen", "copy"}
        PROVE  Line(s) # Line(t)
    <3>1. Busy(s) /\ Busy(t)
      BY <2>4 DEF Busy
    <3> QED
      BY <2>4, <3>1, DistinctLines
  <2> QED
    BY <2>2, <2>3, <2>4 DEF CopiesOnlyItsOwn
<1> QED
  BY <1>1, DumpInvariant, PTL

\* What has been written of one more record is a beginning of the stream with the
\* whole of it.
LEMMA OutputIs ==
  ASSUME TInv, TailInv, stream \in Seq(Nat), tail # <<>>
  PROVE  \E n \in 0 .. Len(stream \o Record(ThisLine, data)) :
           Output = SubSeq(stream \o Record(ThisLine, data), 1, n)
<1>1. PICK n \in 0 .. (2 + Len(data)) : tail = SubSeq(Record(ThisLine, data), 1, n)
  BY DEF TailInv
<1> DEFINE rec == Record(ThisLine, data)
<1>2. rec \in Seq(Nat) /\ Len(rec) = 2 + Len(data) /\ Len(data) \in Nat /\ RangesLeft
  BY RecordTypes DEF TailInv
<1> HIDE DEF rec
<1>3. n \in Nat /\ n <= Len(rec) /\ Len(rec) \in Nat
  BY <1>2
<1>4. stream \o SubSeq(rec, 1, n) = SubSeq(stream \o rec, 1, Len(stream) + n)
  BY <1>2, <1>3, ConcatSubSeq
<1>5. Len(stream) + n \in 0 .. Len(stream \o rec)
  <2>1. Len(stream \o rec) = Len(stream) + Len(rec) /\ Len(stream) \in Nat
    BY <1>2, ConcatFacts
  <2> QED
    BY <1>3, <2>1
<1> QED
  BY <1>1, <1>4, <1>5 DEF Output, rec

\* Until a write fails, a stream that is cut anywhere, also in the middle of a record
\* by an interrupt, loads as the first of the regions that were read or not at all.
THEOREM StreamAlwaysLoads == Spec => []StreamLoads
<1>1. ASSUME DInv, ~torn
      PROVE  /\ LoadStream(stream) # {}
             /\ dumper = "returned" => LoadStream(Output) # {}
             /\ \A n \in 0 .. Len(Output) : \A s \in LoadStream(SubSeq(Output, 1, n)) :
                  \A whole \in LoadStream(stream) : IsPrefix(s, whole \o Unfinished)
  <2>1. PICK regs, pos : Streams(stream, regs, pos)
    BY <1>1 DEF DInv, StreamInv
  <2>2. LoadStream(stream) = {regs}
    BY <2>1, LoadWhole
  <2>3. stream \in Seq(Nat) /\ regs \in Seq(Regions)
    BY <2>1 DEF Streams
  <2>4. CASE tail = <<>>
    <3>1. Output = stream /\ regs \o Unfinished = regs
      BY <2>3, <2>4 DEF Output, Unfinished
    <3>2. \A n \in 0 .. Len(stream) : \A s \in LoadStream(SubSeq(stream, 1, n)) :
            IsPrefix(s, regs)
      BY <2>1, LoadBeginning
    <3> QED
      BY <2>2, <3>1, <3>2
  <2>5. CASE tail # <<>>
    <3>1. TInv /\ TailInv /\ RangesLeft /\ dumper # "returned"
      BY <1>1, <2>5 DEF DInv, TailInv
    <3>2. ThisLine \in Nat /\ data \in Seq(Nat)
      BY <3>1, RecordTypes
    <3> DEFINE r == [line |-> ThisLine, data |-> data]
               all == stream \o Record(ThisLine, data)
    <3>3. r \in Regions
      BY <3>2 DEF Regions
    <3>4. PICK pos2 : Streams(all, Append(regs, r), pos2)
      BY <2>1, <3>2, StreamGrows
    <3>5. PICK m \in 0 .. Len(all) : Output = SubSeq(all, 1, m)
      BY <2>3, <2>5, <3>1, OutputIs
    <3>6. Append(regs, r) = regs \o Unfinished
      <4>1. Unfinished = <<r>>
        BY <2>5 DEF Unfinished
      <4> HIDE DEF r
      <4> QED
        BY <2>3, <3>3, <4>1
    <3>7. all \in Seq(Nat)
      BY <3>4 DEF Streams
    <3> HIDE DEF r, all
    <3>8. ASSUME NEW n \in 0 .. Len(Output), NEW s \in LoadStream(SubSeq(Output, 1, n))
          PROVE  IsPrefix(s, regs \o Unfinished)
      <4>1. n \in 0 .. Len(all) /\ SubSeq(Output, 1, n) = SubSeq(all, 1, n)
        BY <3>5, <3>7, SubSeqTwice
      <4>2. s \in LoadStream(SubSeq(all, 1, n))
        BY <4>1
      <4>3. IsPrefix(s, Append(regs, r))
        BY <3>4, <4>1, <4>2, LoadBeginning
      <4> QED
        BY <3>6, <4>3
    <3> QED
      BY <2>2, <3>1, <3>8
  <2> QED
    BY <2>4, <2>5
<1>2. DInv => StreamLoads
  BY <1>1 DEF StreamLoads
<1> QED
  BY <1>2, DumpInvariant, PTL
=============================================================================
