---------------------------- MODULE CollectProofs ----------------------------
(***************************************************************************)
(* Proofs about Collect, for any number of threads and any memory.         *)
(*                                                                         *)
(* What the results have in all is the sum of what the objects add whose   *)
(* callbacks have added to them.  The sum does not say which thread added  *)
(* what, nor in which order.                                               *)
(***************************************************************************)
EXTENDS Collect, FiniteSetTheorems, TLAPS

(* The parts of the inductive invariant. *)

StepNames == {"count", "lock", "unlock", "print", "read", "write"}

\* What is left of a callback, without the order.
Left(s) == {s[i] : i \in DOMAIN s}

Shared == request.command # "count-by-type"

\* What may come after a step.
Follows(step, A) ==
  /\ step \notin A
  /\ step = "read" => "write" \in A
  /\ step = "write" => "read" \notin A
  /\ "lock" \in A => step = "count"
  /\ step = "unlock" => A = {}
  /\ step = "lock" => "unlock" \in A /\ ("write" \in A => "read" \in A)
  /\ step \in {"print", "read", "write"} /\ (step = "print" \/ Shared) => "unlock" \in A

Ordered(s) ==
  /\ s \in Seq(StepNames)
  /\ \A i \in DOMAIN s : Follows(s[i], {s[j] : j \in (i + 1) .. Len(s)})

\* The step that object o's callback takes, o being taken, has been taken.
Did(o, step) ==
  /\ o \in visited
  /\ Taken(o) /\ step \in Left(Steps(o))
  /\ \A w \in Workers : ~(obj[w] = o /\ step \in Left(steps[w]))

WellTyped ==
  /\ heap \in Heaps
  /\ request \in Requests
  /\ status \in {"running", "returned", "done", "terminated"}
  /\ visited \subseteq Objects
  /\ obj \in [Workers -> Objects \cup {NoOne}]
  /\ steps \in [Workers -> Seq(StepNames)]
  /\ register \in [Workers -> [Keys -> Int]]
  /\ output_lock \in Workers \cup {NoOne}
  /\ results \in [Workers \cup {NoOne} -> [Keys -> Int]]
  /\ printed \in Seq(Objects)
  /\ report \in [Keys -> Int]

\* Each callback is about an object of its own, and has only such steps left.
Callbacks ==
  /\ \A w \in Workers : steps[w] # <<>> =>
       /\ obj[w] \in visited /\ Taken(obj[w])
       /\ Ordered(steps[w])
       /\ Left(steps[w]) \subseteq Left(Steps(obj[w]))
  /\ \A v, w \in Workers : v # w /\ steps[v] # <<>> /\ steps[w] # <<>> => obj[v] # obj[w]

Holding(w) == "unlock" \in Left(steps[w]) /\ "lock" \notin Left(steps[w])

LockHeld == \A w \in Workers : Holding(w) <=> output_lock = w

\* What a thread has read is what it will add to.
Registers ==
  \A w \in Workers :
    "write" \in Left(steps[w]) /\ "read" \notin Left(steps[w]) => register[w] = results[Slot(w)]

\* What one object adds, in the end.
Share(o) ==
  IF "count" \in Left(Steps(o)) THEN [k \in Keys |-> IF k = <<"objects", 0>> THEN 1 ELSE 0]
                                ELSE Added(o)

HasAdded(o) == Did(o, "count") \/ Did(o, "write")

Total(k) == SumOf([s \in Workers \cup {NoOne} |-> results[s][k]])

SumsRight ==
  \A k \in Keys : Total(k) = SumOf([o \in Objects |-> IF HasAdded(o) THEN Share(o)[k] ELSE 0])

PrintedRight ==
  /\ \A i, j \in DOMAIN printed : printed[i] = printed[j] => i = j
  /\ \A o \in Objects : (\E i \in DOMAIN printed : printed[i] = o) <=> Did(o, "print")

Ending ==
  /\ \A o \in visited : o \in Scanned /\ ~Throws(o)
  /\ status \in {"returned", "done"} => visited = Scanned /\ \A w \in Workers : steps[w] = <<>>
  /\ status = "done" => \A k \in Keys : report[k] = Total(k)

CInv == WellTyped /\ Callbacks /\ LockHeld /\ Registers /\ SumsRight /\ PrintedRight /\ Ending
----------------------------------------------------------------------------
(* Induction: a set of natural numbers that is not empty has a least one. *)

LEMMA LeastNat ==
  ASSUME NEW T \in SUBSET Nat, T # {}
  PROVE  \E n \in T : \A m \in T : n <= m
<1> DEFINE R == OpToRel(<, Nat)
<1>1. IsWellFoundedOn(R, Nat)
  BY NatLessThanWellFounded
<1>2. \A m, n \in Nat : <<m, n>> \in R <=> m < n
  BY DEF OpToRel
<1> HIDE DEF R
<1>3. PICK n \in T : \A m \in T : ~(<<m, n>> \in R)
  BY <1>1, WFMin
<1>4. ASSUME NEW m \in T PROVE n <= m
  <2>1. m \in Nat /\ n \in Nat /\ ~(m < n)
    BY <1>2, <1>3
  <2> QED
    BY <2>1
<1> QED
  BY <1>4

\* A set of subsets of a finite set D that has every subset of D of which it has
\* all those with one element less, has them all.
LEMMA SetInduction ==
  ASSUME NEW D, IsFiniteSet(D), NEW P,
         \A s \in SUBSET D : (\A x \in s : s \ {x} \in P) => s \in P
  PROVE  \A s \in SUBSET D : s \in P
<1> DEFINE T == {n \in Nat : \E s \in SUBSET D : Cardinality(s) = n /\ s \notin P}
<1>1. \A s \in SUBSET D : IsFiniteSet(s) /\ Cardinality(s) \in Nat
  BY FS_Subset, FS_CardinalityType
<1>2. SUFFICES ASSUME T # {} PROVE FALSE
  BY <1>1
<1>3. PICK n \in T : \A m \in T : n <= m
  <2>1. T \in SUBSET Nat
    OBVIOUS
  <2> HIDE DEF T
  <2> QED
    BY <1>2, <2>1, LeastNat
<1>4. PICK s \in SUBSET D : Cardinality(s) = n /\ s \notin P
  OBVIOUS
<1>5. PICK x \in s : s \ {x} \notin P
  BY <1>4
<1>6. Cardinality(s \ {x}) = n - 1
  BY <1>1, <1>4, <1>5, FS_RemoveElement
<1>7. s \ {x} \in SUBSET D /\ Cardinality(s \ {x}) \in Nat
  BY <1>1
<1>8. n - 1 \in T
  BY <1>5, <1>6, <1>7
<1>9. n \in Nat
  OBVIOUS
<1> QED
  BY <1>3, <1>8, <1>9

----------------------------------------------------------------------------
(* Sums.  SumOf is a recursion over sets, which is the same whichever element *)
(* is taken first.                                                            *)

\* One step of the recursion.
AddUp(f, g, s) ==
  IF s = {} THEN 0
  ELSE f[CHOOSE x \in s : TRUE] + g[s \ {CHOOSE x \in s : TRUE}]

Solves(f, g) == g = [s \in SUBSET DOMAIN f |-> AddUp(f, g, s)]

LEMMA SumIsASolution ==
  ASSUME NEW f, \E g : Solves(f, g)
  PROVE  \E g : Solves(f, g) /\ SumOf(f) = g[DOMAIN f]
<1> DEFINE it == CHOOSE g : Solves(f, g)
<1>1. SumOf(f) = (CHOOSE g : g = [s \in SUBSET DOMAIN f |->
                    IF s = {} THEN 0
                    ELSE f[CHOOSE x \in s : TRUE] + g[s \ {CHOOSE x \in s : TRUE}]])[DOMAIN f]
  BY Zenon DEF SumOf, MapThenSumSet, MapThenFoldSet
<1>2. SumOf(f) = it[DOMAIN f]
  BY <1>1, Zenon DEF Solves, AddUp
<1>3. Solves(f, it)
  OBVIOUS
<1> QED
  BY <1>2, <1>3

\* g sums f over the subsets of D.
Sums(g, f, D) ==
  /\ \A s \in SUBSET D : g[s] \in Int
  /\ g[{}] = 0
  /\ \A s \in SUBSET D : \A x \in s : g[s] = f[x] + g[s \ {x}]

\* There is a solution as far as sets of n elements, for every n.
SolvesUpTo(f, g, D, n) == \A s \in SUBSET D : Cardinality(s) < n => g[s] = AddUp(f, g, s)

LEMMA SolutionUpTo ==
  ASSUME NEW D, IsFiniteSet(D), NEW f \in [D -> Int], NEW n \in Nat
  PROVE  \E g \in [SUBSET D -> Int] : SolvesUpTo(f, g, D, n)
<1> USE DEF SolvesUpTo
<1> DEFINE Upto(m, g) == SolvesUpTo(f, g, D, m)
           T == {m \in Nat : ~\E g \in [SUBSET D -> Int] : Upto(m, g)}
<1>1. \A s \in SUBSET D : IsFiniteSet(s) /\ Cardinality(s) \in Nat
  BY FS_Subset, FS_CardinalityType
<1>2. SUFFICES ASSUME T # {} PROVE FALSE
  OBVIOUS
<1>3. PICK m \in T : \A k \in T : m <= k
  <2>1. T \in SUBSET Nat
    OBVIOUS
  <2> HIDE DEF T
  <2> QED
    BY <1>2, <2>1, LeastNat
<1>4. m # 0
  <2>1. Upto(0, [s \in SUBSET D |-> 0])
    BY <1>1
  <2>2. [s \in SUBSET D |-> 0] \in [SUBSET D -> Int]
    OBVIOUS
  <2> QED
    BY <2>1, <2>2
<1>5. PICK g \in [SUBSET D -> Int] : Upto(m - 1, g)
  <2>1. m \in Nat /\ m - 1 \in Nat /\ ~(m <= m - 1)
    BY <1>4
  <2> QED
    BY <1>3, <2>1
<1> DEFINE h == [s \in SUBSET D |-> AddUp(f, g, s)]
<1>6. ASSUME NEW s \in SUBSET D, s # {}
      PROVE  /\ (CHOOSE x \in s : TRUE) \in s
             /\ (CHOOSE x \in s : TRUE) \in D
             /\ s \ {CHOOSE x \in s : TRUE} \in SUBSET D
             /\ Cardinality(s \ {CHOOSE x \in s : TRUE}) = Cardinality(s) - 1
  <2>1. (CHOOSE x \in s : TRUE) \in s
    BY <1>6
  <2> QED
    BY <1>1, <1>6, <2>1, FS_RemoveElement
<1>7. h \in [SUBSET D -> Int]
  <2> SUFFICES ASSUME NEW s \in SUBSET D PROVE AddUp(f, g, s) \in Int
    OBVIOUS
  <2> QED
    BY <1>6 DEF AddUp
<1>8. ASSUME NEW s \in SUBSET D, Cardinality(s) < m PROVE h[s] = AddUp(f, h, s)
  <2>1. CASE s = {}
    BY <2>1 DEF AddUp
  <2>2. CASE s # {}
    <3> DEFINE x == CHOOSE x \in s : TRUE
    <3>1. x \in D /\ s \ {x} \in SUBSET D /\ Cardinality(s \ {x}) = Cardinality(s) - 1
      BY <1>6, <2>2
    <3>2. Cardinality(s \ {x}) < m - 1
      BY <1>1, <1>8, <3>1
    <3>3. g[s \ {x}] = AddUp(f, g, s \ {x})
      BY <1>5, <3>1, <3>2
    <3>4. g[s \ {x}] = h[s \ {x}]
      BY <3>1, <3>3
    <3>5. AddUp(f, g, s) = f[x] + g[s \ {x}] /\ AddUp(f, h, s) = f[x] + h[s \ {x}]
      BY <2>2 DEF AddUp
    <3> HIDE DEF x
    <3> QED
      BY <3>4, <3>5
  <2> QED
    BY <2>1, <2>2
<1> HIDE DEF h
<1>9. Upto(m, h)
  BY <1>8
<1> QED
  BY <1>7, <1>9

LEMMA SumExists ==
  ASSUME NEW D, IsFiniteSet(D), NEW f \in [D -> Int]
  PROVE  \E g : Sums(g, f, D) /\ SumOf(f) = g[D]
<1>1. \A s \in SUBSET D : IsFiniteSet(s) /\ Cardinality(s) \in Nat
  BY FS_Subset, FS_CardinalityType
<1>2. PICK n \in Nat : \A s \in SUBSET D : Cardinality(s) < n
  <2>1. Cardinality(D) \in Nat /\ Cardinality(D) + 1 \in Nat
    BY <1>1
  <2>2. \A s \in SUBSET D : Cardinality(s) <= Cardinality(D)
    BY FS_Subset
  <2>3. \A s \in SUBSET D : Cardinality(s) < Cardinality(D) + 1
    BY <1>1, <2>1, <2>2
  <2> QED
    BY <2>1, <2>3
<1>3. PICK h \in [SUBSET D -> Int] : \A s \in SUBSET D : h[s] = AddUp(f, h, s)
  <2>1. PICK h \in [SUBSET D -> Int] : SolvesUpTo(f, h, D, n)
    BY <1>2, SolutionUpTo
  <2> QED
    BY <1>2, <2>1 DEF SolvesUpTo
<1>4. Solves(f, h)
  BY <1>3 DEF Solves
<1>5. PICK g : Solves(f, g) /\ SumOf(f) = g[D]
  BY <1>4, SumIsASolution
<1>6. DOMAIN f = D /\ g = [s \in SUBSET D |-> AddUp(f, g, s)]
  BY <1>5 DEF Solves
<1>7. \A s \in SUBSET D : g[s] = AddUp(f, g, s)
  BY <1>6
<1>8. g[{}] = 0
  BY <1>7 DEF AddUp
<1>9. \A s \in SUBSET D : g[s] \in Int
  <2> DEFINE P == {s \in SUBSET D : g[s] \in Int}
  <2>1. ASSUME NEW s \in SUBSET D, \A x \in s : s \ {x} \in P PROVE s \in P
    <3>1. CASE s = {}
      BY <1>8, <3>1
    <3>2. CASE s # {}
      <4>1. PICK y \in s : g[s] = f[y] + g[s \ {y}]
        BY <1>7, <3>2 DEF AddUp
      <4>2. f[y] \in Int /\ g[s \ {y}] \in Int
        BY <2>1
      <4>3. g[s] \in Int
        BY <4>1, <4>2
      <4> QED
        BY <4>3
    <3> QED
      BY <3>1, <3>2
  <2> HIDE DEF P
  <2>2. \A s \in SUBSET D : s \in P
    BY <2>1, SetInduction
  <2> QED
    BY <2>2 DEF P
<1> DEFINE P == {s \in SUBSET D : \A x \in s : g[s] = f[x] + g[s \ {x}]}
<1>10. ASSUME NEW s \in SUBSET D, \A x \in s : s \ {x} \in P PROVE s \in P
  <2> SUFFICES ASSUME NEW x \in s PROVE g[s] = f[x] + g[s \ {x}]
    OBVIOUS
  <2>1. PICK y \in s : g[s] = f[y] + g[s \ {y}]
    BY <1>7 DEF AddUp
  <2>2. CASE x # y
    <3> DEFINE rest == (s \ {y}) \ {x}
    <3>1. x \in s \ {y} /\ y \in s \ {x} /\ rest = (s \ {x}) \ {y}
      BY <2>2
    <3>2. g[s \ {y}] = f[x] + g[rest]
      BY <1>10, <3>1
    <3>3. g[s \ {x}] = f[y] + g[rest]
      BY <1>10, <3>1
    <3>4. f[x] \in Int /\ f[y] \in Int /\ g[rest] \in Int
      BY <1>9
    <3> HIDE DEF rest
    <3> QED
      BY <2>1, <3>2, <3>3, <3>4
  <2> QED
    BY <2>1, <2>2
<1>12. \A s \in SUBSET D : s \in P
  <2> HIDE DEF P
  <2> QED
    BY <1>10, SetInduction
<1>13. Sums(g, f, D)
  BY <1>8, <1>9, <1>12 DEF Sums
<1> QED
  BY <1>5, <1>13

\* Where two functions agree, they add up to the same.
LEMMA SameSums ==
  ASSUME NEW D, IsFiniteSet(D), NEW g, NEW f, NEW k, NEW h, NEW E,
         Sums(g, f, D), Sums(k, h, E), NEW S \in SUBSET (D \cap E),
         \A x \in S : f[x] = h[x]
  PROVE  g[S] = k[S]
<1> DEFINE P == {s \in SUBSET S : g[s] = k[s]}
<1>1. IsFiniteSet(S)
  BY FS_Subset
<1>2. ASSUME NEW s \in SUBSET S, \A x \in s : s \ {x} \in P PROVE s \in P
  <2>1. CASE s = {}
    BY <2>1 DEF Sums
  <2>2. CASE s # {}
    <3>1. PICK x \in s : TRUE
      BY <2>2
    <3>2. g[s] = f[x] + g[s \ {x}] /\ k[s] = h[x] + k[s \ {x}]
      BY <3>1 DEF Sums
    <3>3. g[s \ {x}] = k[s \ {x}] /\ f[x] = h[x]
      BY <1>2, <3>1
    <3> QED
      BY <3>2, <3>3
  <2> QED
    BY <2>1, <2>2
<1> HIDE DEF P
<1>3. \A s \in SUBSET S : s \in P
  BY <1>1, <1>2, SetInduction
<1> QED
  BY <1>3 DEF P

\* A function that is changed at one place has its sum changed by as much.
LEMMA SumUpdate ==
  ASSUME NEW D, IsFiniteSet(D), NEW f \in [D -> Int], NEW h \in [D -> Int], NEW x \in D,
         \A y \in D \ {x} : h[y] = f[y]
  PROVE  SumOf(h) = SumOf(f) + (h[x] - f[x])
<1>1. PICK g : Sums(g, f, D) /\ SumOf(f) = g[D]
  BY SumExists
<1>2. PICK k : Sums(k, h, D) /\ SumOf(h) = k[D]
  BY SumExists
<1>3. g[D] = f[x] + g[D \ {x}] /\ k[D] = h[x] + k[D \ {x}] /\ g[D \ {x}] \in Int
  BY <1>1, <1>2 DEF Sums
<1>4. g[D \ {x}] = k[D \ {x}]
  <2>1. D \ {x} \in SUBSET (D \cap D) /\ \A y \in D \ {x} : f[y] = h[y]
    OBVIOUS
  <2> QED
    BY <1>1, <1>2, <2>1, SameSums
<1>5. f[x] \in Int /\ h[x] \in Int
  OBVIOUS
<1> QED
  BY <1>1, <1>2, <1>3, <1>4, <1>5

\* Zeros add nothing.
LEMMA SumPart ==
  ASSUME NEW D, IsFiniteSet(D), NEW f \in [D -> Int], NEW C \in SUBSET D, NEW h \in [C -> Int],
         \A x \in C : f[x] = h[x], \A x \in D \ C : f[x] = 0
  PROVE  SumOf(f) = SumOf(h)
<1>1. PICK g : Sums(g, f, D) /\ SumOf(f) = g[D]
  BY SumExists
<1>2. PICK k : Sums(k, h, C) /\ SumOf(h) = k[C]
  <2>1. IsFiniteSet(C)
    BY FS_Subset
  <2> QED
    BY <2>1, SumExists
<1>3. g[C] = k[C]
  <2>1. C \in SUBSET (D \cap C)
    OBVIOUS
  <2> QED
    BY <1>1, <1>2, <2>1, SameSums
<1> DEFINE P == {s \in SUBSET D : g[s] = g[s \cap C]}
<1>4. ASSUME NEW s \in SUBSET D, \A x \in s : s \ {x} \in P PROVE s \in P
  <2>1. CASE s \subseteq C
    <3>1. s \cap C = s
      BY <2>1
    <3> QED
      BY <3>1
  <2>2. CASE ~(s \subseteq C)
    <3>1. PICK x \in s : x \notin C
      BY <2>2
    <3>2. g[s] = f[x] + g[s \ {x}] /\ g[s \ {x}] \in Int
      BY <1>1, <3>1 DEF Sums
    <3>3. f[x] = 0
      BY <3>1
    <3>4. g[s \ {x}] = g[(s \ {x}) \cap C]
      BY <1>4
    <3>5. (s \ {x}) \cap C = s \cap C
      BY <3>1
    <3> QED
      BY <3>2, <3>3, <3>4, <3>5
  <2> QED
    BY <2>1, <2>2
<1>5. \A s \in SUBSET D : s \in P
  <2> HIDE DEF P
  <2> QED
    BY <1>4, SetInduction
<1>6. g[D] = g[D \cap C] /\ D \cap C = C
  BY <1>5
<1> QED
  BY <1>1, <1>2, <1>3, <1>6

\* Counting is adding ones.
LEMMA SumCounts ==
  ASSUME NEW D, IsFiniteSet(D), NEW C \in SUBSET D, NEW f \in [D -> Int],
         \A x \in C : f[x] = 1, \A x \in D \ C : f[x] = 0
  PROVE  SumOf(f) = Cardinality(C)
<1> DEFINE h == [c \in C |-> 1]
<1>1. IsFiniteSet(C)
  BY FS_Subset
<1>2. SumOf(f) = SumOf(h)
  <2>1. h \in [C -> Int] /\ \A x \in C : f[x] = h[x]
    OBVIOUS
  <2> HIDE DEF h
  <2> QED
    BY <2>1, SumPart
<1>3. PICK k : Sums(k, h, C) /\ SumOf(h) = k[C]
  <2>1. h \in [C -> Int]
    OBVIOUS
  <2> HIDE DEF h
  <2> QED
    BY <1>1, <2>1, SumExists
<1> DEFINE P == {s \in SUBSET C : k[s] = Cardinality(s)}
<1>4. ASSUME NEW s \in SUBSET C, \A x \in s : s \ {x} \in P PROVE s \in P
  <2>1. CASE s = {}
    BY <1>3, <2>1, FS_EmptySet DEF Sums
  <2>2. CASE s # {}
    <3>1. PICK x \in s : TRUE
      BY <2>2
    <3>2. k[s] = h[x] + k[s \ {x}] /\ h[x] = 1
      BY <1>3, <3>1 DEF Sums
    <3>3. IsFiniteSet(s)
      BY <1>1, FS_Subset
    <3>4. Cardinality(s) \in Nat /\ Cardinality(s \ {x}) = Cardinality(s) - 1
      BY <3>1, <3>3, FS_RemoveElement, FS_CardinalityType
    <3>5. k[s \ {x}] = Cardinality(s \ {x})
      BY <1>4, <3>1
    <3> QED
      BY <3>2, <3>4, <3>5
  <2> QED
    BY <2>1, <2>2
<1>5. \A s \in SUBSET C : s \in P
  <2> HIDE DEF P, h
  <2> QED
    BY <1>1, <1>4, SetInduction
<1>6. k[C] = Cardinality(C)
  BY <1>5
<1> QED
  BY <1>2, <1>3, <1>6

----------------------------------------------------------------------------
(* What is left of a callback. *)

LEMMA NothingLeft == Left(<<>>) = {} /\ Ordered(<<>>)
  BY DEF Left, Ordered

LEMMA TailFacts ==
  ASSUME NEW s, Ordered(s), s # <<>>
  PROVE  /\ Head(s) \in StepNames /\ Tail(s) \in Seq(StepNames)
         /\ Left(s) = {Head(s)} \cup Left(Tail(s))
         /\ Ordered(Tail(s))
         /\ Follows(Head(s), Left(Tail(s)))
<1>1. s \in Seq(StepNames) /\ Len(s) \in Nat \ {0}
  BY DEF Ordered
<1>2. /\ Head(s) \in StepNames /\ Head(s) = s[1]
      /\ Tail(s) \in Seq(StepNames) /\ Len(Tail(s)) = Len(s) - 1
      /\ \A i \in 1 .. (Len(s) - 1) : Tail(s)[i] = s[i + 1]
  BY <1>1
<1>3. DOMAIN s = 1 .. Len(s) /\ DOMAIN Tail(s) = 1 .. (Len(s) - 1)
  BY <1>1, <1>2
<1>4. Left(Tail(s)) = {s[j] : j \in 2 .. Len(s)}
  <2>1. ASSUME NEW j \in 2 .. Len(s) PROVE s[j] \in Left(Tail(s))
    <3>1. j - 1 \in 1 .. (Len(s) - 1) /\ (j - 1) + 1 = j
      BY <1>1
    <3> QED
      BY <1>2, <1>3, <3>1 DEF Left
  <2>2. ASSUME NEW i \in 1 .. (Len(s) - 1) PROVE Tail(s)[i] \in {s[j] : j \in 2 .. Len(s)}
    <3>1. i + 1 \in 2 .. Len(s)
      BY <1>1
    <3> QED
      BY <1>2, <3>1
  <2> QED
    BY <1>3, <2>1, <2>2 DEF Left
<1>5. Left(s) = {Head(s)} \cup Left(Tail(s))
  <2>1. 1 .. Len(s) = {1} \cup 2 .. Len(s)
    BY <1>1
  <2> QED
    BY <1>2, <1>3, <1>4, <2>1 DEF Left
<1>6. Follows(Head(s), Left(Tail(s)))
  <2>1. 1 \in DOMAIN s /\ 1 + 1 = 2
    BY <1>1, <1>3
  <2>2. Follows(s[1], {s[j] : j \in (1 + 1) .. Len(s)})
    BY <2>1 DEF Ordered
  <2> QED
    BY <1>2, <1>4, <2>1, <2>2
<1>7. ASSUME NEW i \in DOMAIN Tail(s)
      PROVE  Follows(Tail(s)[i], {Tail(s)[j] : j \in (i + 1) .. Len(Tail(s))})
  <2>1. i \in 1 .. (Len(s) - 1) /\ i + 1 \in DOMAIN s
    BY <1>1, <1>3
  <2>2. {Tail(s)[j] : j \in (i + 1) .. Len(Tail(s))} = {s[j] : j \in (i + 1 + 1) .. Len(s)}
    <3>1. ASSUME NEW j \in (i + 1) .. (Len(s) - 1)
          PROVE  j + 1 \in (i + 1 + 1) .. Len(s) /\ Tail(s)[j] = s[j + 1]
      BY <1>1, <1>2, <2>1
    <3>2. ASSUME NEW j \in (i + 1 + 1) .. Len(s)
          PROVE  j - 1 \in (i + 1) .. (Len(s) - 1) /\ Tail(s)[j - 1] = s[j]
      <4>1. j - 1 \in (i + 1) .. (Len(s) - 1) /\ (j - 1) + 1 = j
        BY <1>1, <2>1
      <4> QED
        BY <3>1, <4>1
    <3> QED
      BY <1>2, <3>1, <3>2
  <2>3. Follows(s[i + 1], {s[j] : j \in (i + 1 + 1) .. Len(s)})
    BY <2>1 DEF Ordered
  <2> QED
    BY <1>2, <2>1, <2>2, <2>3
<1> QED
  BY <1>2, <1>5, <1>6, <1>7 DEF Ordered

\* A callback that has read holds the lock, if others write to the same.
LEMMA LeftFacts ==
  ASSUME NEW s, Ordered(s), "write" \in Left(s)
  PROVE  /\ Shared => "unlock" \in Left(s)
         /\ "read" \notin Left(s) => "lock" \notin Left(s)
<1>1. s \in Seq(StepNames) /\ Len(s) \in Nat /\ DOMAIN s = 1 .. Len(s)
  BY DEF Ordered
<1> DEFINE After(i) == {s[j] : j \in (i + 1) .. Len(s)}
<1>2. \A i \in DOMAIN s : Follows(s[i], After(i)) /\ After(i) \subseteq Left(s)
  BY <1>1 DEF Ordered, Left
<1>3. PICK i \in DOMAIN s : s[i] = "write"
  BY DEF Left
<1>4. Follows("write", After(i)) /\ After(i) \subseteq Left(s)
  BY <1>2, <1>3
<1>5. Shared => "unlock" \in Left(s)
  BY <1>4 DEF Follows
<1>6. ASSUME "read" \notin Left(s), "lock" \in Left(s) PROVE FALSE
  <2>1. PICK j \in DOMAIN s : s[j] = "lock"
    BY <1>6 DEF Left
  <2>2. Follows("lock", After(j)) /\ After(j) \subseteq Left(s)
    BY <1>2, <2>1
  <2>3. "write" \notin After(j)
    BY <1>6, <2>2 DEF Follows
  <2>4. "lock" \notin After(i)
    BY <1>4 DEF Follows
  <2>5. i # j
    BY <1>3, <2>1
  <2>6. CASE i < j
    BY <1>1, <2>1, <2>4, <2>6
  <2>7. CASE j < i
    BY <1>1, <1>3, <2>3, <2>7
  <2> QED
    BY <1>1, <2>5, <2>6, <2>7
<1> QED
  BY <1>5, <1>6

\* Each step of each callback, in its order.
LEMMA OneStep ==
  ASSUME NEW a \in StepNames,
         Follows(a, {})
  PROVE  Ordered(<<a>>) /\ Left(<<a>>) = {a}
<1> DEFINE s == <<a>>
<1>1. /\ s \in Seq(StepNames) /\ Len(s) = 1 /\ DOMAIN s = 1 .. 1
      /\ s[1] = a
  OBVIOUS
<1> HIDE DEF s
<1>2. /\ {s[j] : j \in (1 + 1) .. Len(s)} = {}
  BY <1>1
<1>3. ASSUME NEW i \in DOMAIN s PROVE Follows(s[i], {s[j] : j \in (i + 1) .. Len(s)})
  <2>1. CASE i = 1
    BY <1>1, <1>2, <2>1
  <2> QED
    BY <1>1, <2>1
<1>4. Left(s) = {a}
  BY <1>1 DEF Left
<1> QED
  BY <1>1, <1>3, <1>4 DEF s, Ordered

LEMMA TwoSteps ==
  ASSUME NEW a \in StepNames, NEW b \in StepNames,
         Follows(a, {b}), Follows(b, {})
  PROVE  Ordered(<<a, b>>) /\ Left(<<a, b>>) = {a, b}
<1> DEFINE s == <<a, b>>
<1>1. /\ s \in Seq(StepNames) /\ Len(s) = 2 /\ DOMAIN s = 1 .. 2
      /\ s[1] = a /\ s[2] = b
  OBVIOUS
<1> HIDE DEF s
<1>2. /\ {s[j] : j \in (1 + 1) .. Len(s)} = {b}
      /\ {s[j] : j \in (2 + 1) .. Len(s)} = {}
  BY <1>1
<1>3. ASSUME NEW i \in DOMAIN s PROVE Follows(s[i], {s[j] : j \in (i + 1) .. Len(s)})
  <2>1. CASE i = 1
    BY <1>1, <1>2, <2>1
  <2>2. CASE i = 2
    BY <1>1, <1>2, <2>2
  <2> QED
    BY <1>1, <2>1, <2>2
<1>4. Left(s) = {a, b}
  BY <1>1 DEF Left
<1> QED
  BY <1>1, <1>3, <1>4 DEF s, Ordered

LEMMA ThreeSteps ==
  ASSUME NEW a \in StepNames, NEW b \in StepNames, NEW c \in StepNames,
         Follows(a, {b, c}), Follows(b, {c}), Follows(c, {})
  PROVE  Ordered(<<a, b, c>>) /\ Left(<<a, b, c>>) = {a, b, c}
<1> DEFINE s == <<a, b, c>>
<1>1. /\ s \in Seq(StepNames) /\ Len(s) = 3 /\ DOMAIN s = 1 .. 3
      /\ s[1] = a /\ s[2] = b /\ s[3] = c
  OBVIOUS
<1> HIDE DEF s
<1>2. /\ {s[j] : j \in (1 + 1) .. Len(s)} = {b, c}
      /\ {s[j] : j \in (2 + 1) .. Len(s)} = {c}
      /\ {s[j] : j \in (3 + 1) .. Len(s)} = {}
  BY <1>1
<1>3. ASSUME NEW i \in DOMAIN s PROVE Follows(s[i], {s[j] : j \in (i + 1) .. Len(s)})
  <2>1. CASE i = 1
    BY <1>1, <1>2, <2>1
  <2>2. CASE i = 2
    BY <1>1, <1>2, <2>2
  <2>3. CASE i = 3
    BY <1>1, <1>2, <2>3
  <2> QED
    BY <1>1, <2>1, <2>2, <2>3
<1>4. Left(s) = {a, b, c}
  BY <1>1 DEF Left
<1> QED
  BY <1>1, <1>3, <1>4 DEF s, Ordered

LEMMA FourSteps ==
  ASSUME NEW a \in StepNames, NEW b \in StepNames, NEW c \in StepNames, NEW d \in StepNames,
         Follows(a, {b, c, d}), Follows(b, {c, d}), Follows(c, {d}),
         Follows(d, {})
  PROVE  Ordered(<<a, b, c, d>>) /\ Left(<<a, b, c, d>>) = {a, b, c, d}
<1> DEFINE s == <<a, b, c, d>>
<1>1. /\ s \in Seq(StepNames) /\ Len(s) = 4 /\ DOMAIN s = 1 .. 4
      /\ s[1] = a /\ s[2] = b /\ s[3] = c /\ s[4] = d
  OBVIOUS
<1> HIDE DEF s
<1>2. /\ {s[j] : j \in (1 + 1) .. Len(s)} = {b, c, d}
      /\ {s[j] : j \in (2 + 1) .. Len(s)} = {c, d}
      /\ {s[j] : j \in (3 + 1) .. Len(s)} = {d}
      /\ {s[j] : j \in (4 + 1) .. Len(s)} = {}
  BY <1>1
<1>3. ASSUME NEW i \in DOMAIN s PROVE Follows(s[i], {s[j] : j \in (i + 1) .. Len(s)})
  <2>1. CASE i = 1
    BY <1>1, <1>2, <2>1
  <2>2. CASE i = 2
    BY <1>1, <1>2, <2>2
  <2>3. CASE i = 3
    BY <1>1, <1>2, <2>3
  <2>4. CASE i = 4
    BY <1>1, <1>2, <2>4
  <2> QED
    BY <1>1, <2>1, <2>2, <2>3, <2>4
<1>4. Left(s) = {a, b, c, d}
  BY <1>1 DEF Left
<1> QED
  BY <1>1, <1>3, <1>4 DEF s, Ordered

LEMMA FiveSteps ==
  ASSUME NEW a \in StepNames, NEW b \in StepNames, NEW c \in StepNames, NEW d \in StepNames,
         NEW e \in StepNames,
         Follows(a, {b, c, d, e}), Follows(b, {c, d, e}), Follows(c, {d, e}),
         Follows(d, {e}), Follows(e, {})
  PROVE  Ordered(<<a, b, c, d, e>>) /\ Left(<<a, b, c, d, e>>) = {a, b, c, d, e}
<1> DEFINE s == <<a, b, c, d, e>>
<1>1. /\ s \in Seq(StepNames) /\ Len(s) = 5 /\ DOMAIN s = 1 .. 5
      /\ s[1] = a /\ s[2] = b /\ s[3] = c /\ s[4] = d /\ s[5] = e
  OBVIOUS
<1> HIDE DEF s
<1>2. /\ {s[j] : j \in (1 + 1) .. Len(s)} = {b, c, d, e}
      /\ {s[j] : j \in (2 + 1) .. Len(s)} = {c, d, e}
      /\ {s[j] : j \in (3 + 1) .. Len(s)} = {d, e}
      /\ {s[j] : j \in (4 + 1) .. Len(s)} = {e}
      /\ {s[j] : j \in (5 + 1) .. Len(s)} = {}
  BY <1>1
<1>3. ASSUME NEW i \in DOMAIN s PROVE Follows(s[i], {s[j] : j \in (i + 1) .. Len(s)})
  <2>1. CASE i = 1
    BY <1>1, <1>2, <2>1
  <2>2. CASE i = 2
    BY <1>1, <1>2, <2>2
  <2>3. CASE i = 3
    BY <1>1, <1>2, <2>3
  <2>4. CASE i = 4
    BY <1>1, <1>2, <2>4
  <2>5. CASE i = 5
    BY <1>1, <1>2, <2>5
  <2> QED
    BY <1>1, <2>1, <2>2, <2>3, <2>4, <2>5
<1>4. Left(s) = {a, b, c, d, e}
  BY <1>1 DEF Left
<1> QED
  BY <1>1, <1>3, <1>4 DEF s, Ordered

LEMMA SameElements ==
  ASSUME NEW S, NEW s \in Seq(S), NEW t \in Seq(S), Len(s) = Len(t),
         \A i \in 1 .. Len(s) : s[i] = t[i]
  PROVE  s = t
OBVIOUS

LEMMA JoinFive ==
  ASSUME NEW a \in StepNames, NEW b \in StepNames, NEW c \in StepNames, NEW d \in StepNames,
         NEW e \in StepNames
  PROVE  <<a, b, c>> \o <<d>> \o <<e>> = <<a, b, c, d, e>>
<1> DEFINE s == <<a, b, c>> \o <<d>> \o <<e>>
           t == <<a, b, c, d, e>>
<1>1. s \in Seq(StepNames) /\ Len(s) = 5 /\ s[1] = a /\ s[2] = b /\ s[3] = c /\ s[4] = d /\ s[5] = e
  OBVIOUS
<1>2. t \in Seq(StepNames) /\ Len(t) = 5 /\ t[1] = a /\ t[2] = b /\ t[3] = c /\ t[4] = d /\ t[5] = e
  OBVIOUS
<1> HIDE DEF s, t
<1>3. \A i \in 1 .. Len(s) : s[i] = t[i]
  BY <1>1, <1>2
<1>4. s = t
  BY <1>1, <1>2, <1>3, SameElements
<1> QED
  BY <1>4 DEF s, t

LEMMA JoinFour ==
  ASSUME NEW a \in StepNames, NEW b \in StepNames, NEW c \in StepNames, NEW d \in StepNames
  PROVE  <<a, b, c>> \o <<>> \o <<d>> = <<a, b, c, d>>
<1> DEFINE s == <<a, b, c>> \o <<>> \o <<d>>
           t == <<a, b, c, d>>
<1>1. s \in Seq(StepNames) /\ Len(s) = 4 /\ s[1] = a /\ s[2] = b /\ s[3] = c /\ s[4] = d
  OBVIOUS
<1>2. t \in Seq(StepNames) /\ Len(t) = 4 /\ t[1] = a /\ t[2] = b /\ t[3] = c /\ t[4] = d
  OBVIOUS
<1> HIDE DEF s, t
<1>3. \A i \in 1 .. Len(s) : s[i] = t[i]
  BY <1>1, <1>2
<1>4. s = t
  BY <1>1, <1>2, <1>3, SameElements
<1> QED
  BY <1>4 DEF s, t

\* The steps of a callback that takes o.
StepSet(o) ==
  CASE request.command = "count-by-type"     -> {"read", "write"}
    [] request.command = "find-references"   -> {"lock", "print", "read", "write", "unlock"}
    [] request.command = "find-all-threads"  -> {"lock", "print", "unlock"}
    [] request.command = "aggregate-strings" ->
         {"lock", "read", "write", "unlock"} \cup (IF InPrintRange(o) THEN {"print"} ELSE {})
    [] request.count_only -> {"count"}
    [] OTHER -> {"count", "lock", "print", "unlock"}

LEMMA ByCommand ==
  ASSUME request \in Requests
  PROVE  /\ \/ request.command = "count-by-type"
            \/ request.command = "find-references"
            \/ request.command = "find-all-threads"
            \/ request.command = "aggregate-strings"
            \/ request.command \in {"find", "find-all-objects", "find-module"}
         /\ request.count_only \in BOOLEAN
         /\ request.count_only => request.command \in {"find", "find-all-objects"}
<1>1. request.command \in {"find", "count-by-type", "find-all-objects", "find-references",
                           "find-module", "find-all-threads", "aggregate-strings"}
  BY RequestsAssumption
<1>2. request.count_only \in BOOLEAN
  BY RequestsAssumption
<1>3. request.count_only => request.command \in {"find", "find-all-objects"}
  BY RequestsAssumption
<1> QED
  BY <1>1, <1>2, <1>3

LEMMA StepsFacts ==
  ASSUME request \in Requests, NEW o
  PROVE  /\ Ordered(Steps(o)) /\ Steps(o) # <<>>
         /\ Left(Steps(o)) = StepSet(o)
<1>1. CASE request.command = "count-by-type"
  <2>1. Steps(o) = <<"read", "write">> /\ StepSet(o) = {"read", "write"}
    BY <1>1, ByCommand DEF Steps, StepSet
  <2>2. Follows("read", {"write"}) /\ Follows("write", {})
    BY <1>1 DEF Follows, Shared
  <2>3. "read" \in StepNames /\ "write" \in StepNames
    BY DEF StepNames
  <2>4. Ordered(<<"read", "write">>) /\ Left(<<"read", "write">>) = {"read", "write"}
    BY <2>2, <2>3, TwoSteps
  <2> QED
    BY <2>1, <2>4
<1>2. CASE request.command = "find-references"
  <2>1. /\ Steps(o) = <<"lock", "print", "read", "write", "unlock">>
        /\ StepSet(o) = {"lock", "print", "read", "write", "unlock"}
    BY <1>2, ByCommand DEF Steps, StepSet
  <2>2. /\ Follows("lock", {"print", "read", "write", "unlock"})
        /\ Follows("print", {"read", "write", "unlock"})
        /\ Follows("read", {"write", "unlock"})
        /\ Follows("write", {"unlock"})
        /\ Follows("unlock", {})
    BY DEF Follows
  <2>3. /\ "lock" \in StepNames /\ "print" \in StepNames /\ "read" \in StepNames
        /\ "write" \in StepNames /\ "unlock" \in StepNames
    BY DEF StepNames
  <2>4. /\ Ordered(<<"lock", "print", "read", "write", "unlock">>)
        /\ Left(<<"lock", "print", "read", "write", "unlock">>)
             = {"lock", "print", "read", "write", "unlock"}
    BY <2>2, <2>3, FiveSteps
  <2> QED
    BY <2>1, <2>4
<1>3. CASE request.command = "find-all-threads"
  <2>1. Steps(o) = <<"lock", "print", "unlock">> /\ StepSet(o) = {"lock", "print", "unlock"}
    BY <1>3, ByCommand DEF Steps, StepSet
  <2>2. Follows("lock", {"print", "unlock"}) /\ Follows("print", {"unlock"}) /\ Follows("unlock", {})
    BY DEF Follows
  <2>3. "lock" \in StepNames /\ "print" \in StepNames /\ "unlock" \in StepNames
    BY DEF StepNames
  <2>4. /\ Ordered(<<"lock", "print", "unlock">>)
        /\ Left(<<"lock", "print", "unlock">>) = {"lock", "print", "unlock"}
    BY <2>2, <2>3, ThreeSteps
  <2> QED
    BY <2>1, <2>4
<1>4. CASE request.command = "aggregate-strings" /\ InPrintRange(o)
  <2>1. /\ Steps(o) = <<"lock", "read", "write", "print", "unlock">>
        /\ StepSet(o) = {"lock", "read", "write", "print", "unlock"}
    <3>1. Steps(o) = <<"lock", "read", "write">> \o <<"print">> \o <<"unlock">>
      BY <1>4, ByCommand DEF Steps
    <3>2. <<"lock", "read", "write">> \o <<"print">> \o <<"unlock">>
            = <<"lock", "read", "write", "print", "unlock">>
      <4>1. /\ "lock" \in StepNames
            /\ "read" \in StepNames
            /\ "write" \in StepNames
            /\ "print" \in StepNames
            /\ "unlock" \in StepNames
        BY DEF StepNames
      <4> QED
        BY <4>1, JoinFive
    <3> QED
      BY <1>4, <3>1, <3>2, ByCommand DEF StepSet
  <2>2. /\ Follows("lock", {"read", "write", "print", "unlock"})
        /\ Follows("read", {"write", "print", "unlock"})
        /\ Follows("write", {"print", "unlock"})
        /\ Follows("print", {"unlock"})
        /\ Follows("unlock", {})
    BY DEF Follows
  <2>3. /\ "lock" \in StepNames /\ "print" \in StepNames /\ "read" \in StepNames
        /\ "write" \in StepNames /\ "unlock" \in StepNames
    BY DEF StepNames
  <2>4. /\ Ordered(<<"lock", "read", "write", "print", "unlock">>)
        /\ Left(<<"lock", "read", "write", "print", "unlock">>)
             = {"lock", "read", "write", "print", "unlock"}
    BY <2>2, <2>3, FiveSteps
  <2> QED
    BY <2>1, <2>4
<1>5. CASE request.command = "aggregate-strings" /\ ~InPrintRange(o)
  <2>1. /\ Steps(o) = <<"lock", "read", "write", "unlock">>
        /\ StepSet(o) = {"lock", "read", "write", "unlock"}
    <3>1. Steps(o) = <<"lock", "read", "write">> \o <<>> \o <<"unlock">>
      BY <1>5, ByCommand DEF Steps
    <3>2. <<"lock", "read", "write">> \o <<>> \o <<"unlock">> = <<"lock", "read", "write", "unlock">>
      <4>1. /\ "lock" \in StepNames
            /\ "read" \in StepNames
            /\ "write" \in StepNames
            /\ "unlock" \in StepNames
        BY DEF StepNames
      <4> QED
        BY <4>1, JoinFour
    <3> QED
      BY <1>5, <3>1, <3>2, ByCommand DEF StepSet
  <2>2. /\ Follows("lock", {"read", "write", "unlock"})
        /\ Follows("read", {"write", "unlock"})
        /\ Follows("write", {"unlock"})
        /\ Follows("unlock", {})
    BY DEF Follows
  <2>3. /\ "lock" \in StepNames /\ "read" \in StepNames
        /\ "write" \in StepNames /\ "unlock" \in StepNames
    BY DEF StepNames
  <2>4. /\ Ordered(<<"lock", "read", "write", "unlock">>)
        /\ Left(<<"lock", "read", "write", "unlock">>) = {"lock", "read", "write", "unlock"}
    BY <2>2, <2>3, FourSteps
  <2> QED
    BY <2>1, <2>4
<1>6. CASE /\ request.command \in {"find", "find-all-objects", "find-module"}
           /\ request.count_only
  <2>1. Steps(o) = <<"count">> /\ StepSet(o) = {"count"}
    BY <1>6, ByCommand DEF Steps, StepSet
  <2>2. Follows("count", {}) /\ "count" \in StepNames
    BY DEF Follows, StepNames
  <2>3. Ordered(<<"count">>) /\ Left(<<"count">>) = {"count"}
    BY <2>2, OneStep
  <2> QED
    BY <2>1, <2>3
<1>7. CASE /\ request.command \in {"find", "find-all-objects", "find-module"}
           /\ ~request.count_only
  <2>1. /\ Steps(o) = <<"count", "lock", "print", "unlock">>
        /\ StepSet(o) = {"count", "lock", "print", "unlock"}
    BY <1>7, ByCommand DEF Steps, StepSet
  <2>2. /\ Follows("count", {"lock", "print", "unlock"})
        /\ Follows("lock", {"print", "unlock"})
        /\ Follows("print", {"unlock"})
        /\ Follows("unlock", {})
    BY DEF Follows
  <2>3. /\ "lock" \in StepNames /\ "print" \in StepNames
        /\ "count" \in StepNames /\ "unlock" \in StepNames
    BY DEF StepNames
  <2>4. /\ Ordered(<<"count", "lock", "print", "unlock">>)
        /\ Left(<<"count", "lock", "print", "unlock">>) = {"count", "lock", "print", "unlock"}
    BY <2>2, <2>3, FourSteps
  <2> QED
    BY <2>1, <2>4
<1> QED
  BY <1>1, <1>2, <1>3, <1>4, <1>5, <1>6, <1>7, ByCommand

\* Who unlocks has locked, who writes has read; a command either counts or writes.
LEMMA StepSetFacts ==
  ASSUME request \in Requests, NEW o
  PROVE  /\ "unlock" \in StepSet(o) => "lock" \in StepSet(o)
         /\ "write" \in StepSet(o) => "read" \in StepSet(o)
         /\ \A p : "write" \in StepSet(o) => "count" \notin StepSet(p)
         /\ "print" \in StepSet(o) => Shared
<1> QED
  BY ByCommand DEF StepSet, Shared

----------------------------------------------------------------------------
(* The steps. *)

\* Neither the memory nor the command changes.
SameCommand == heap' = heap /\ request' = request

LEMMA SameDecisions ==
  ASSUME SameCommand
  PROVE  /\ Shared' = Shared
         /\ \A o : /\ Taken(o)' = Taken(o)
                   /\ Throws(o)' = Throws(o)
                   /\ Steps(o)' = Steps(o)
                   /\ Added(o)' = Added(o)
                   /\ Share(o)' = Share(o)
<1>1. Shared' = Shared
  BY DEF SameCommand, Shared
<1>2. ASSUME NEW o PROVE Selected(o)' = Selected(o) /\ PrintedIfValid' = PrintedIfValid
                         /\ RightType(o)' = RightType(o) /\ Checks' = Checks
                         /\ InPrintRange(o)' = InPrintRange(o)
  BY DEF SameCommand, Selected, PrintedIfValid, RightType, Checks, InPrintRange
<1>3. ASSUME NEW o PROVE Taken(o)' = Taken(o) /\ Throws(o)' = Throws(o)
  BY <1>2 DEF SameCommand, Taken, Throws
<1>4. ASSUME NEW o PROVE Steps(o)' = Steps(o)
  BY <1>2 DEF SameCommand, Steps
<1>5. ASSUME NEW o PROVE Added(o)' = Added(o)
  BY DEF SameCommand, Added
<1>6. ASSUME NEW o PROVE Share(o)' = Share(o)
  BY <1>4, <1>5 DEF Share
<1> QED
  BY <1>1, <1>3, <1>4, <1>5, <1>6

\* Steps in which no callback takes part.
Quiet ==
  /\ SameCommand
  /\ UNCHANGED <<visited, obj, steps, register, output_lock, results, printed>>

\* PrintRepr, when the repr does not throw.
PrintsIt(w) ==
  /\ At(w, "print")
  /\ Advance(w)
  /\ printed' = Append(printed, obj[w])
  /\ UNCHANGED <<status, register, output_lock, results>>

CallbackStep(w) ==
  \/ Count(w) \/ Lock(w) \/ Unlock(w) \/ PrintsIt(w) \/ ReadResult(w) \/ WriteResult(w)

LEMMA StepCases ==
  ASSUME [Next]_vars
  PROVE  \/ Quiet
         \/ \E w \in Workers : Call(w) \/ CallbackStep(w)
<1>1. CASE UNCHANGED vars
  BY <1>1 DEF vars, callbackVars, Quiet, SameCommand
<1>2. CASE Over
  BY <1>2 DEF Over, vars, callbackVars, Quiet, SameCommand
<1>3. CASE ScanReturns
  BY <1>3 DEF ScanReturns, Scan!AReturn, callbackVars, Quiet, SameCommand
<1>4. CASE Report
  BY <1>4 DEF Report, callbackVars, Quiet, SameCommand
<1>5. ASSUME NEW w \in Workers, Worker(w)
      PROVE  Quiet \/ Call(w) \/ CallbackStep(w)
  <2>1. CASE CallThrows(w)
    BY <2>1 DEF CallThrows, callbackVars, Quiet, SameCommand
  <2>2. CASE PrintRepr(w)
    BY <2>2 DEF PrintRepr, At, PrintsIt, CallbackStep, Quiet, SameCommand
  <2> QED
    BY <1>5, <2>1, <2>2 DEF Worker, CallbackStep
<1> QED
  BY <1>1, <1>2, <1>3, <1>4, <1>5 DEF Next

\* The object of a call, and what its callback is to do.
LEMMA CallCases ==
  ASSUME WellTyped, NEW w \in Workers, Call(w)
  PROVE  /\ SameCommand /\ status = "running" /\ status' = status
         /\ UNCHANGED <<register, output_lock, results, printed, report>>
         /\ steps[w] = <<>>
         /\ \E o \in Objects \ visited :
              /\ visited' = visited \cup {o}
              /\ o \in Scanned /\ ~Throws(o)
              /\ obj' = [obj EXCEPT ![w] = o]
              /\ \/ Taken(o) /\ steps' = [steps EXCEPT ![w] = Steps(o)]
                 \/ ~Taken(o) /\ steps' = [steps EXCEPT ![w] = <<>>]
<1>1. /\ status = "running" /\ status' = status
      /\ \E o \in Scanned \ visited : visited' = visited \cup {o}
  BY DEF Call, Scan!AVisit
<1>2. PICK o \in visited' \ visited :
        /\ ~Throws(o)
        /\ obj' = [obj EXCEPT ![w] = o]
        /\ steps' = [steps EXCEPT ![w] = IF Taken(o) THEN Steps(o) ELSE <<>>]
  BY DEF Call
<1>3. o \in Scanned \ visited /\ o \in Objects /\ visited' = visited \cup {o}
  BY <1>1 DEF Scanned
<1>4. \/ Taken(o) /\ steps' = [steps EXCEPT ![w] = Steps(o)]
      \/ ~Taken(o) /\ steps' = [steps EXCEPT ![w] = <<>>]
  BY <1>2
<1> QED
  BY <1>1, <1>2, <1>3, <1>4 DEF Call, SameCommand

\* What every step of a callback does to what is left.
LEMMA StepLeft ==
  ASSUME WellTyped, Callbacks, NEW w \in Workers, NEW step, At(w, step), Advance(w)
  PROVE  /\ SameCommand /\ visited' = visited /\ obj' = obj
         /\ steps[w] # <<>> /\ step \in StepNames
         /\ steps' \in [Workers -> Seq(StepNames)]
         /\ step \in Left(steps[w])
         /\ Left(steps'[w]) = Left(steps[w]) \ {step}
         /\ Ordered(steps'[w])
         /\ Follows(step, Left(steps'[w]))
         /\ \A v \in Workers \ {w} : steps'[v] = steps[v]
         /\ obj[w] \in Objects /\ obj[w] \in visited /\ Taken(obj[w])
         /\ step \in Left(Steps(obj[w]))
<1>1. steps[w] # <<>> /\ Head(steps[w]) = step /\ steps \in [Workers -> Seq(StepNames)]
  BY DEF At, WellTyped
<1>2. /\ obj[w] \in visited /\ Taken(obj[w]) /\ Ordered(steps[w])
      /\ Left(steps[w]) \subseteq Left(Steps(obj[w]))
  BY <1>1 DEF Callbacks
<1>3. /\ step \in StepNames /\ Tail(steps[w]) \in Seq(StepNames)
      /\ Left(steps[w]) = {step} \cup Left(Tail(steps[w]))
      /\ Ordered(Tail(steps[w]))
      /\ Follows(step, Left(Tail(steps[w])))
  BY <1>1, <1>2, TailFacts
<1>4. /\ steps'[w] = Tail(steps[w])
      /\ \A v \in Workers \ {w} : steps'[v] = steps[v]
      /\ steps' \in [Workers -> Seq(StepNames)]
  BY <1>1, <1>3 DEF Advance
<1>5. step \notin Left(Tail(steps[w]))
  BY <1>3 DEF Follows
<1>6. obj[w] \in Objects
  BY <1>2 DEF WellTyped
<1> QED
  BY <1>1, <1>2, <1>3, <1>4, <1>5, <1>6 DEF At, SameCommand

----------------------------------------------------------------------------
(* What the objects' callbacks have done. *)

LEMMA DidStep ==
  ASSUME WellTyped, Callbacks, NEW w \in Workers, NEW step, At(w, step), Advance(w),
         NEW o, NEW y
  PROVE  Did(o, y)' <=> Did(o, y) \/ (o = obj[w] /\ y = step)
<1>1. /\ SameCommand /\ visited' = visited /\ obj' = obj
      /\ steps[w] # <<>> /\ step \in Left(steps[w])
      /\ Left(steps'[w]) = Left(steps[w]) \ {step}
      /\ \A v \in Workers \ {w} : steps'[v] = steps[v]
      /\ obj[w] \in visited /\ Taken(obj[w]) /\ step \in Left(Steps(obj[w]))
  BY StepLeft
<1>2. Taken(o)' = Taken(o) /\ Steps(o)' = Steps(o) /\ Left(Steps(o)') = Left(Steps(o))
  BY <1>1, SameDecisions
<1>3. Did(o, y)' <=> /\ o \in visited
                     /\ Taken(o) /\ y \in Left(Steps(o))
                     /\ \A v \in Workers : ~(obj[v] = o /\ y \in Left(steps'[v]))
  BY <1>1, <1>2 DEF Did, Left
<1>4. ASSUME Did(o, y)', ~Did(o, y) PROVE o = obj[w] /\ y = step
  <2>1. PICK v \in Workers : obj[v] = o /\ y \in Left(steps[v]) /\ y \notin Left(steps'[v])
    BY <1>3, <1>4 DEF Did
  <2>2. v = w
    BY <1>1, <2>1
  <2> QED
    BY <1>1, <2>1, <2>2
<1>5. ASSUME Did(o, y) PROVE Did(o, y)'
  <2>1. \A v \in Workers : Left(steps'[v]) \subseteq Left(steps[v])
    BY <1>1
  <2> QED
    BY <1>3, <1>5, <2>1 DEF Did
<1>6. ASSUME o = obj[w], y = step PROVE Did(o, y)'
  <2>1. ASSUME NEW v \in Workers, obj[v] = o, y \in Left(steps'[v]) PROVE FALSE
    <3>1. v # w
      BY <1>1, <1>6, <2>1
    <3>2. y \in Left(steps[v])
      BY <1>1, <2>1, <3>1
    <3>3. steps[v] # <<>>
      BY <3>2, NothingLeft
    <3> QED
      BY <1>1, <1>6, <2>1, <3>1, <3>3 DEF Callbacks
  <2> QED
    BY <1>1, <1>3, <1>6, <2>1
<1> QED
  BY <1>4, <1>5, <1>6

LEMMA DidCall ==
  ASSUME WellTyped, Callbacks, NEW w \in Workers, Call(w), NEW o, NEW y
  PROVE  Did(o, y)' <=> Did(o, y)
<1>1. PICK p \in Objects \ visited :
        /\ visited' = visited \cup {p}
        /\ obj' = [obj EXCEPT ![w] = p]
        /\ \/ Taken(p) /\ steps' = [steps EXCEPT ![w] = Steps(p)]
           \/ ~Taken(p) /\ steps' = [steps EXCEPT ![w] = <<>>]
  BY CallCases
<1>2. SameCommand /\ steps[w] = <<>>
  BY CallCases
<1>3. Taken(o)' = Taken(o) /\ Steps(o)' = Steps(o)
  BY <1>2, SameDecisions
<1>4. /\ obj'[w] = p /\ \A v \in Workers \ {w} : obj'[v] = obj[v] /\ steps'[v] = steps[v]
      /\ Taken(p) => steps'[w] = Steps(p)
  BY <1>1 DEF WellTyped
<1>5. Did(o, y)' <=> /\ o \in visited \cup {p}
                     /\ Taken(o) /\ y \in Left(Steps(o))
                     /\ \A v \in Workers : ~(obj'[v] = o /\ y \in Left(steps'[v]))
  BY <1>1, <1>3 DEF Did, Left
<1>6. ASSUME Did(o, y)' PROVE Did(o, y)
  <2>1. o # p
    BY <1>4, <1>5, <1>6
  <2>2. Left(steps[w]) = {}
    BY <1>2, NothingLeft
  <2>3. \A v \in Workers : ~(obj[v] = o /\ y \in Left(steps[v]))
    BY <1>4, <1>5, <1>6, <2>2
  <2> QED
    BY <1>5, <1>6, <2>1, <2>3 DEF Did
<1>7. ASSUME Did(o, y) PROVE Did(o, y)'
  <2>1. o \in visited /\ o # p
    BY <1>1, <1>7 DEF Did
  <2> QED
    BY <1>4, <1>5, <1>7, <2>1 DEF Did
<1> QED
  BY <1>6, <1>7

LEMMA DidQuiet ==
  ASSUME Quiet, NEW o, NEW y
  PROVE  Did(o, y)' <=> Did(o, y)
<1>1. Taken(o)' = Taken(o) /\ Steps(o)' = Steps(o) /\ visited' = visited
      /\ obj' = obj /\ steps' = steps
  BY SameDecisions DEF Quiet
<1> QED
  BY <1>1 DEF Did, Left

----------------------------------------------------------------------------
(* Types. *)

LEMMA HeapFacts ==
  ASSUME heap \in Heaps
  PROVE  \A o \in Objects :
           /\ heap[o].type \in {"sought", "known", "other"}
           /\ heap[o].check \in {"ok", "invalid", "throws"}
           /\ heap[o].repr \in {"ok", "invalid", "throws"}
           /\ heap[o].size \in Int
<1> SUFFICES ASSUME NEW o \in Objects
             PROVE  /\ heap[o].type \in {"sought", "known", "other"}
                    /\ heap[o].check \in {"ok", "invalid", "throws"}
                    /\ heap[o].repr \in {"ok", "invalid", "throws"}
                    /\ heap[o].size \in Int
  OBVIOUS
<1>1. heap[o] \in [type : {"sought", "known", "other"}, check : {"ok", "invalid", "throws"},
                   repr : {"ok", "invalid", "throws"}, refers : BOOLEAN,
                   module : {"named", "other", "no_dict", "no_string"}, size : Int,
                   room : BOOLEAN]
  BY HeapsAssumption
<1> QED
  BY <1>1

\* What an object adds to each number.
LEMMA AddedFacts ==
  ASSUME heap \in Heaps, request \in Requests, NEW o \in Objects
  PROVE  /\ Added(o) \in [Keys -> Int]
         /\ \A k \in Keys :
              /\ request.command = "count-by-type" =>
                   Added(o)[k] = IF k = <<heap[o].type, 0>> THEN 1 ELSE 0
              /\ request.command = "find-references" =>
                   Added(o)[k] = IF k = <<"objects", 0>> THEN 1 ELSE 0
              /\ ~(request.command \in {"count-by-type", "find-references"}) =>
                   Added(o)[k] = IF k = <<"bytes", 0>> THEN heap[o].size
                                 ELSE IF k = <<"objects", 0>> \/ k = <<"length", BucketOf(heap[o].size)>>
                                 THEN 1 ELSE 0
<1>1. heap[o].size \in Int
  BY HeapFacts
<1> DEFINE one(S) == [k \in Keys |-> IF k \in S THEN 1 ELSE 0]
<1>2. CASE request.command = "count-by-type"
  <2>1. Added(o) = one({<<heap[o].type, 0>>})
    BY <1>2 DEF Added
  <2> QED
    BY <1>2, <2>1
<1>3. CASE request.command = "find-references"
  <2>1. Added(o) = one({<<"objects", 0>>})
    BY <1>3 DEF Added
  <2> QED
    BY <1>3, <2>1
<1>4. CASE ~(request.command \in {"count-by-type", "find-references"})
  <2> DEFINE S == {<<"objects", 0>>, <<"length", BucketOf(heap[o].size)>>}
  <2>1. Added(o) = [one(S) EXCEPT ![<<"bytes", 0>>] = heap[o].size]
    BY <1>4 DEF Added
  <2>2. \A k \in Keys : Added(o)[k] = IF k = <<"bytes", 0>> THEN heap[o].size
                                      ELSE IF k \in S THEN 1 ELSE 0
    BY <2>1
  <2>3. Added(o) \in [Keys -> Int]
    <3>1. one(S) \in [Keys -> Int]
      OBVIOUS
    <3> HIDE DEF one
    <3> QED
      BY <1>1, <2>1, <3>1
  <2> HIDE DEF one
  <2> QED
    BY <1>4, <2>2, <2>3
<1> QED
  BY <1>2, <1>3, <1>4

LEMMA ShareType ==
  ASSUME heap \in Heaps, request \in Requests, NEW o \in Objects
  PROVE  Share(o) \in [Keys -> Int]
  BY AddedFacts DEF Share

LEMMA TypesInit == Init => WellTyped
<1> SUFFICES ASSUME Init PROVE WellTyped
  OBVIOUS
<1>1. Nil \in [Keys -> Int]
  BY DEF Nil
<1>2. <<>> \in Seq(StepNames) /\ <<>> \in Seq(Objects)
  OBVIOUS
<1> QED
  BY <1>1, <1>2 DEF Init, WellTyped

LEMMA TotalType ==
  ASSUME WellTyped, NEW k \in Keys
  PROVE  SumOf([s \in DOMAIN results |-> results[s][k]]) \in Int
<1> DEFINE f == [s \in Workers \cup {NoOne} |-> results[s][k]]
<1>1. DOMAIN results = Workers \cup {NoOne} /\ f \in [Workers \cup {NoOne} -> Int]
  BY DEF WellTyped
<1>2. IsFiniteSet(Workers \cup {NoOne})
  BY WorkersAssumption, FS_AddElement
<1> HIDE DEF f
<1>3. PICK g : Sums(g, f, Workers \cup {NoOne}) /\ SumOf(f) = g[Workers \cup {NoOne}]
  BY <1>1, <1>2, SumExists
<1>4. SumOf(f) \in Int
  BY <1>3 DEF Sums
<1> QED
  BY <1>1, <1>4 DEF f

LEMMA TypesNext ==
  ASSUME WellTyped, Callbacks, [Next]_vars
  PROVE  WellTyped'
<1>1. CASE UNCHANGED vars
  BY <1>1 DEF vars, callbackVars, WellTyped
<1>2. CASE Over
  BY <1>2 DEF Over, vars, callbackVars, WellTyped
<1>3. CASE ScanReturns
  BY <1>3 DEF ScanReturns, Scan!AReturn, callbackVars, WellTyped
<1>4. CASE Report
  <2>1. report' \in [Keys -> Int]
    BY <1>4, TotalType DEF Report
  <2> QED
    BY <1>4, <2>1 DEF Report, callbackVars, WellTyped
<1>5. ASSUME NEW w \in Workers, Worker(w) PROVE WellTyped'
  <2>1. CASE Call(w)
    <3>1. PICK o \in Objects \ visited :
            /\ visited' = visited \cup {o}
            /\ obj' = [obj EXCEPT ![w] = o]
            /\ \/ Taken(o) /\ steps' = [steps EXCEPT ![w] = Steps(o)]
               \/ ~Taken(o) /\ steps' = [steps EXCEPT ![w] = <<>>]
      BY <2>1, CallCases
    <3>2. /\ SameCommand /\ status' = status
          /\ UNCHANGED <<register, output_lock, results, printed, report>>
      BY <2>1, CallCases
    <3>3. Steps(o) \in Seq(StepNames) /\ <<>> \in Seq(StepNames)
      BY StepsFacts DEF Ordered, WellTyped
    <3>4. steps' \in [Workers -> Seq(StepNames)] /\ obj' \in [Workers -> Objects \cup {NoOne}]
      BY <3>1, <3>3 DEF WellTyped
    <3>5. visited' \subseteq Objects
      BY <3>1 DEF WellTyped
    <3> QED
      BY <3>2, <3>4, <3>5 DEF WellTyped, SameCommand
  <2>2. CASE CallThrows(w)
    BY <2>2 DEF CallThrows, callbackVars, WellTyped
  <2>3. CASE Count(w)
    <3>1. steps' \in [Workers -> Seq(StepNames)]
      BY <2>3, StepLeft DEF Count
    <3>2. results' \in [Workers \cup {NoOne} -> [Keys -> Int]]
      <4> DEFINE k == <<"objects", 0>>
      <4>1. results[NoOne] \in [Keys -> Int] /\ k \in Keys
        BY DEF WellTyped, Keys
      <4>2. results' = [results EXCEPT ![NoOne] = [results[NoOne] EXCEPT ![k] = results[NoOne][k] + 1]]
        BY <2>3 DEF Count, WellTyped
      <4> HIDE DEF k
      <4>3. [results[NoOne] EXCEPT ![k] = results[NoOne][k] + 1] \in [Keys -> Int]
        BY <4>1
      <4> QED
        BY <4>2, <4>3 DEF WellTyped
    <3> QED
      BY <2>3, <3>1, <3>2 DEF Count, At, WellTyped
  <2>4. CASE Lock(w)
    <3>1. steps' \in [Workers -> Seq(StepNames)]
      BY <2>4, StepLeft DEF Lock
    <3> QED
      BY <2>4, <3>1 DEF Lock, At, WellTyped
  <2>5. CASE Unlock(w)
    <3>1. steps' \in [Workers -> Seq(StepNames)]
      BY <2>5, StepLeft DEF Unlock
    <3> QED
      BY <2>5, <3>1 DEF Unlock, At, WellTyped
  <2>6. CASE PrintRepr(w)
    <3>1. CASE status' = "terminated" /\ UNCHANGED <<steps, printed>>
      BY <2>6, <3>1 DEF PrintRepr, At, WellTyped
    <3>2. CASE Advance(w) /\ printed' = Append(printed, obj[w]) /\ UNCHANGED status
      <4>1. steps' \in [Workers -> Seq(StepNames)] /\ obj[w] \in Objects
        BY <2>6, <3>2, StepLeft DEF PrintRepr
      <4>2. printed' \in Seq(Objects)
        BY <3>2, <4>1 DEF WellTyped
      <4> QED
        BY <2>6, <3>2, <4>1, <4>2 DEF PrintRepr, At, WellTyped
    <3> QED
      BY <2>6, <3>1, <3>2 DEF PrintRepr
  <2>7. CASE ReadResult(w)
    <3>1. steps' \in [Workers -> Seq(StepNames)]
      BY <2>7, StepLeft DEF ReadResult
    <3>2. results[Slot(w)] \in [Keys -> Int]
      BY DEF WellTyped, Slot
    <3>3. register' \in [Workers -> [Keys -> Int]]
      BY <2>7, <3>2 DEF ReadResult, WellTyped
    <3> QED
      BY <2>7, <3>1, <3>3 DEF ReadResult, At, WellTyped
  <2>8. CASE WriteResult(w)
    <3>1. steps' \in [Workers -> Seq(StepNames)] /\ obj[w] \in Objects
      BY <2>8, StepLeft DEF WriteResult
    <3>2. Added(obj[w]) \in [Keys -> Int] /\ register[w] \in [Keys -> Int]
      BY <3>1, AddedFacts DEF WellTyped
    <3>3. Sum(register[w], Added(obj[w])) \in [Keys -> Int]
      BY <3>2 DEF Sum
    <3>4. results' \in [Workers \cup {NoOne} -> [Keys -> Int]]
      BY <2>8, <3>3 DEF WriteResult, WellTyped
    <3> QED
      BY <2>8, <3>1, <3>4 DEF WriteResult, At, WellTyped
  <2> QED
    BY <1>5, <2>1, <2>2, <2>3, <2>4, <2>5, <2>6, <2>7, <2>8 DEF Worker
<1> QED
  BY <1>1, <1>2, <1>3, <1>4, <1>5 DEF Next

----------------------------------------------------------------------------
(* The callbacks, the lock and what has been read. *)

LEMMA CallbacksCall ==
  ASSUME WellTyped, Callbacks, NEW w \in Workers, Call(w)
  PROVE  Callbacks'
<1>1. PICK p \in Objects \ visited :
        /\ visited' = visited \cup {p}
        /\ obj' = [obj EXCEPT ![w] = p]
        /\ \/ Taken(p) /\ steps' = [steps EXCEPT ![w] = Steps(p)]
           \/ ~Taken(p) /\ steps' = [steps EXCEPT ![w] = <<>>]
  BY CallCases
<1>2. \A o : Taken(o)' = Taken(o) /\ Steps(o)' = Steps(o)
  BY CallCases, SameDecisions
<1>3. \A s : Ordered(s)' = Ordered(s) /\ Left(s)' = Left(s)
  <2>1. Shared' = Shared
    BY CallCases, SameDecisions
  <2> QED
    BY <2>1 DEF Ordered, Follows, Left
<1>4. /\ obj'[w] = p
      /\ \A v \in Workers \ {w} : obj'[v] = obj[v] /\ steps'[v] = steps[v]
      /\ Taken(p) => steps'[w] = Steps(p)
      /\ ~Taken(p) => steps'[w] = <<>>
  BY <1>1 DEF WellTyped
<1>5. ASSUME NEW v \in Workers, steps'[v] # <<>>
      PROVE  /\ obj'[v] \in visited' /\ Taken(obj'[v])
             /\ Ordered(steps'[v])
             /\ Left(steps'[v]) \subseteq Left(Steps(obj'[v]))
             /\ v # w => obj'[v] \in visited
  <2>1. CASE v = w
    <3>1. Ordered(Steps(p))
      BY StepsFacts DEF WellTyped
    <3> QED
      BY <1>1, <1>4, <1>5, <2>1, <3>1
  <2>2. CASE v # w
    BY <1>1, <1>4, <1>5, <2>2 DEF Callbacks
  <2> QED
    BY <2>1, <2>2
<1>6. ASSUME NEW u \in Workers, NEW v \in Workers, u # v, steps'[u] # <<>>, steps'[v] # <<>>
      PROVE  obj'[u] # obj'[v]
  <2>1. CASE u # w /\ v # w
    BY <1>4, <1>6, <2>1 DEF Callbacks
  <2>2. CASE u = w \/ v = w
    BY <1>1, <1>4, <1>5, <1>6, <2>2
  <2> QED
    BY <2>1, <2>2
<1> QED
  BY <1>2, <1>3, <1>5, <1>6 DEF Callbacks

\* What is said of what is left does not change with the state.
LEMMA SameOrder ==
  ASSUME SameCommand
  PROVE  \A s : Ordered(s)' = Ordered(s) /\ Left(s)' = Left(s)
<1>1. Shared' = Shared
  BY SameDecisions
<1> QED
  BY <1>1 DEF Ordered, Follows, Left

LEMMA CallbacksStep ==
  ASSUME WellTyped, Callbacks, NEW w \in Workers, NEW step, At(w, step), Advance(w)
  PROVE  Callbacks'
<1>1. /\ SameCommand /\ visited' = visited /\ obj' = obj
      /\ steps[w] # <<>>
      /\ Left(steps'[w]) \subseteq Left(steps[w])
      /\ Ordered(steps'[w])
      /\ \A v \in Workers \ {w} : steps'[v] = steps[v]
  BY StepLeft
<1>2. \A o : Taken(o)' = Taken(o) /\ Steps(o)' = Steps(o)
  BY <1>1, SameDecisions
<1>3. \A s : Ordered(s)' = Ordered(s) /\ Left(s)' = Left(s)
  BY <1>1, SameOrder
<1>4. ASSUME NEW v \in Workers, steps'[v] # <<>>
      PROVE  /\ steps[v] # <<>>
             /\ obj'[v] \in visited' /\ Taken(obj'[v])
             /\ Ordered(steps'[v])
             /\ Left(steps'[v]) \subseteq Left(Steps(obj'[v]))
  <2>1. CASE v = w
    BY <1>1, <2>1 DEF Callbacks
  <2>2. CASE v # w
    BY <1>1, <1>4, <2>2 DEF Callbacks
  <2> QED
    BY <2>1, <2>2
<1>5. \A u, v \in Workers : u # v /\ steps'[u] # <<>> /\ steps'[v] # <<>> => obj'[u] # obj'[v]
  BY <1>1, <1>4 DEF Callbacks
<1> QED
  BY <1>2, <1>3, <1>4, <1>5 DEF Callbacks

LEMMA CallbacksQuiet ==
  ASSUME Callbacks, Quiet
  PROVE  Callbacks'
<1>1. \A o : Taken(o)' = Taken(o) /\ Steps(o)' = Steps(o)
  BY SameDecisions DEF Quiet
<1>2. \A s : Ordered(s)' = Ordered(s) /\ Left(s)' = Left(s)
  BY SameOrder DEF Quiet
<1> QED
  BY <1>1, <1>2 DEF Callbacks, Quiet

\* What step of a callback a step is.
LEMMA WhichStep ==
  ASSUME NEW w \in Workers, CallbackStep(w)
  PROVE  \E step \in StepNames : At(w, step) /\ Advance(w)
<1>1. /\ "count" \in StepNames /\ "lock" \in StepNames /\ "unlock" \in StepNames
      /\ "print" \in StepNames /\ "read" \in StepNames /\ "write" \in StepNames
  BY DEF StepNames
<1> QED
  BY <1>1 DEF CallbackStep, Count, Lock, Unlock, PrintsIt, ReadResult, WriteResult

LEMMA CallbacksNext ==
  ASSUME WellTyped, Callbacks, [Next]_vars
  PROVE  Callbacks'
<1>1. CASE Quiet
  BY <1>1, CallbacksQuiet
<1>2. ASSUME NEW w \in Workers, Call(w) PROVE Callbacks'
  BY <1>2, CallbacksCall
<1>3. ASSUME NEW w \in Workers, CallbackStep(w) PROVE Callbacks'
  <2>1. PICK step \in StepNames : At(w, step) /\ Advance(w)
    BY <1>3, WhichStep
  <2> QED
    BY <2>1, CallbacksStep
<1> QED
  BY <1>1, <1>2, <1>3, StepCases

\* A thread holds the lock from its locking to its unlocking.
LEMMA LockNext ==
  ASSUME WellTyped, Callbacks, LockHeld, [Next]_vars
  PROVE  LockHeld'
<1> DEFINE Holds(v) == "unlock" \in Left(steps'[v]) /\ "lock" \notin Left(steps'[v])
<1>1. SUFFICES \A v \in Workers : Holds(v) <=> output_lock' = v
  BY DEF LockHeld, Holding, Left
<1>2. CASE Quiet
  BY <1>2 DEF Quiet, LockHeld, Holding
<1>3. ASSUME NEW w \in Workers, Call(w) PROVE \A v \in Workers : Holds(v) <=> output_lock' = v
  <2>1. PICK p \in Objects \ visited :
          \/ Taken(p) /\ steps' = [steps EXCEPT ![w] = Steps(p)]
          \/ ~Taken(p) /\ steps' = [steps EXCEPT ![w] = <<>>]
    BY <1>3, CallCases
  <2>2. output_lock' = output_lock /\ steps[w] = <<>>
    BY <1>3, CallCases
  <2>3. Left(Steps(p)) = StepSet(p) /\ ("unlock" \in StepSet(p) => "lock" \in StepSet(p))
    BY StepsFacts, StepSetFacts DEF WellTyped
  <2>4. steps'[w] = Steps(p) \/ steps'[w] = <<>>
    BY <2>1 DEF WellTyped
  <2>5. ~Holds(w) /\ ~Holding(w)
    BY <2>2, <2>3, <2>4, NothingLeft DEF Holding
  <2>6. \A v \in Workers \ {w} : steps'[v] = steps[v]
    BY <2>1 DEF WellTyped
  <2> QED
    BY <2>2, <2>5, <2>6 DEF LockHeld, Holding
<1>4. ASSUME NEW w \in Workers, CallbackStep(w)
      PROVE  \A v \in Workers : Holds(v) <=> output_lock' = v
  <2>1. PICK step \in StepNames : At(w, step) /\ Advance(w)
    BY <1>4, WhichStep
  <2>2. /\ Left(steps'[w]) = Left(steps[w]) \ {step}
        /\ step \in Left(steps[w])
        /\ Follows(step, Left(steps'[w]))
        /\ \A v \in Workers \ {w} : steps'[v] = steps[v]
    BY <2>1, StepLeft
  <2>3. CASE Lock(w)
    <3>1. step = "lock" /\ output_lock = NoOne /\ output_lock' = w
      BY <2>1, <2>3 DEF Lock, At
    <3>2. Holds(w)
      BY <2>2, <3>1 DEF Follows
    <3>3. ASSUME NEW v \in Workers \ {w} PROVE ~Holds(v)
      BY <2>2, <3>1, WorkersAssumption DEF LockHeld, Holding
    <3> QED
      BY <3>1, <3>2, <3>3
  <2>4. CASE Unlock(w)
    <3>1. step = "unlock" /\ output_lock' = NoOne
      BY <2>1, <2>4 DEF Unlock, At
    <3>2. Left(steps'[w]) = {}
      BY <2>2, <3>1 DEF Follows
    <3>3. output_lock = w
      BY <2>2, <3>1, <3>2 DEF LockHeld, Holding
    <3>4. ASSUME NEW v \in Workers \ {w} PROVE ~Holds(v)
      BY <2>2, <3>3 DEF LockHeld, Holding
    <3> QED
      BY <3>1, <3>2, <3>4, WorkersAssumption
  <2>5. CASE Count(w) \/ PrintsIt(w) \/ ReadResult(w) \/ WriteResult(w)
    <3>1. step \in {"count", "print", "read", "write"} /\ output_lock' = output_lock
      BY <2>1, <2>5 DEF Count, PrintsIt, ReadResult, WriteResult, At
    <3>2. \A v \in Workers : Holds(v) <=> Holding(v)
      BY <2>2, <3>1 DEF Holding
    <3> QED
      BY <3>1, <3>2 DEF LockHeld
  <2> QED
    BY <1>4, <2>3, <2>4, <2>5 DEF CallbackStep
<1> QED
  BY <1>2, <1>3, <1>4, StepCases

LEMMA HasWritten ==
  ASSUME WellTyped, Callbacks, NEW w \in Workers,
         "write" \in Left(steps[w]), "read" \notin Left(steps[w])
  PROVE  /\ obj[w] \in Objects /\ "write" \in StepSet(obj[w])
         /\ Shared => Holding(w)
<1>1. steps[w] # <<>>
  BY NothingLeft
<1>2. /\ Ordered(steps[w]) /\ obj[w] \in Objects
      /\ "write" \in Left(Steps(obj[w]))
  BY <1>1 DEF Callbacks, WellTyped
<1>3. "write" \in StepSet(obj[w])
  BY <1>2, StepsFacts DEF WellTyped
<1>4. Shared => Holding(w)
  BY <1>2, LeftFacts DEF Holding
<1> QED
  BY <1>2, <1>3, <1>4

LEMMA RegistersNext ==
  ASSUME WellTyped, Callbacks, LockHeld, Registers, [Next]_vars
  PROVE  Registers'
<1>1. SameCommand
  BY StepCases, CallCases, WhichStep, StepLeft DEF Quiet
<1>2. SUFFICES ASSUME NEW v \in Workers,
                      "write" \in Left(steps'[v]), "read" \notin Left(steps'[v])
               PROVE  register'[v] = results'[Slot(v)]
  <2>1. \A v \in Workers : Slot(v)' = Slot(v)
    BY <1>1 DEF Slot, SameCommand
  <2> QED
    BY <2>1 DEF Registers, Left
<1> DEFINE Unwritten == "write" \in Left(steps[v]) /\ "read" \notin Left(steps[v])
<1>3. CASE Quiet
  BY <1>2, <1>3 DEF Quiet, Registers
<1>4. ASSUME NEW w \in Workers, Call(w) PROVE register'[v] = results'[Slot(v)]
  <2>1. PICK p \in Objects \ visited :
          \/ Taken(p) /\ steps' = [steps EXCEPT ![w] = Steps(p)]
          \/ ~Taken(p) /\ steps' = [steps EXCEPT ![w] = <<>>]
    BY <1>4, CallCases
  <2>2. register' = register /\ results' = results
    BY <1>4, CallCases
  <2>3. Left(Steps(p)) = StepSet(p) /\ ("write" \in StepSet(p) => "read" \in StepSet(p))
    BY StepsFacts, StepSetFacts DEF WellTyped
  <2>4. steps'[w] = Steps(p) \/ steps'[w] = <<>>
    BY <2>1 DEF WellTyped
  <2>5. v # w
    BY <1>2, <2>3, <2>4, NothingLeft
  <2>6. steps'[v] = steps[v]
    BY <2>1, <2>5 DEF WellTyped
  <2> QED
    BY <1>2, <2>2, <2>6 DEF Registers
<1>5. ASSUME NEW w \in Workers, CallbackStep(w) PROVE register'[v] = results'[Slot(v)]
  <2>1. PICK step \in StepNames : At(w, step) /\ Advance(w)
    BY <1>5, WhichStep
  <2>2. /\ steps[w] # <<>> /\ step \in Left(steps[w])
        /\ Left(steps'[w]) = Left(steps[w]) \ {step}
        /\ Follows(step, Left(steps'[w]))
        /\ \A u \in Workers \ {w} : steps'[u] = steps[u]
        /\ step \in Left(Steps(obj[w])) /\ obj[w] \in Objects
    BY <2>1, StepLeft
  <2>3. v # w => Unwritten
    BY <1>2, <2>2
  <2>4. CASE Count(w)
    <3>1. step = "count"
      BY <2>1, <2>4 DEF Count, At
    <3>2. "count" \in StepSet(obj[w])
      BY <2>2, <3>1, StepsFacts DEF WellTyped
    <3>3. Unwritten
      BY <1>2, <2>2, <2>3, <3>1
    <3>4. "write" \in StepSet(obj[v])
      BY <3>3, HasWritten
    <3> QED
      BY <3>2, <3>4, StepSetFacts DEF WellTyped
  <2>5. CASE Lock(w) \/ Unlock(w) \/ PrintsIt(w)
    <3>1. step \in {"lock", "unlock", "print"} /\ register' = register /\ results' = results
      BY <2>1, <2>5 DEF Lock, Unlock, PrintsIt, At
    <3>2. Unwritten
      BY <1>2, <2>2, <2>3, <3>1
    <3> QED
      BY <3>1, <3>2 DEF Registers
  <2>6. CASE ReadResult(w)
    <3>1. register' = [register EXCEPT ![w] = results[Slot(w)]] /\ results' = results
      BY <2>6 DEF ReadResult
    <3>2. CASE v = w
      BY <3>1, <3>2 DEF WellTyped
    <3>3. CASE v # w
      BY <2>3, <3>1, <3>3 DEF WellTyped, Registers
    <3> QED
      BY <3>2, <3>3
  <2>7. CASE WriteResult(w)
    <3>1. /\ step = "write" /\ register' = register
          /\ results' = [results EXCEPT ![Slot(w)] = Sum(register[w], Added(obj[w]))]
      BY <2>1, <2>7 DEF WriteResult, At
    <3>2. v # w
      BY <1>2, <2>2, <3>1
    <3>3. "read" \notin Left(steps[w])
      BY <2>2, <3>1 DEF Follows
    <3>4. Slot(v) # Slot(w)
      <4>1. CASE Shared
        <5>1. Holding(v) /\ Holding(w)
          BY <2>2, <2>3, <3>1, <3>2, <3>3, <4>1, HasWritten
        <5> QED
          BY <3>2, <5>1 DEF LockHeld
      <4>2. CASE ~Shared
        BY <3>2, <4>2 DEF Slot, Shared
      <4> QED
        BY <4>1, <4>2
    <3> QED
      BY <2>3, <3>1, <3>2, <3>4 DEF Registers, WellTyped, Slot
  <2> QED
    BY <1>5, <2>4, <2>5, <2>6, <2>7 DEF CallbackStep
<1> QED
  BY <1>3, <1>4, <1>5, StepCases

----------------------------------------------------------------------------
(* The sums. *)

SlotOf(k) == [s \in Workers \cup {NoOne} |-> results[s][k]]
ShareOf(k) == [o \in Objects |-> IF HasAdded(o) THEN Share(o)[k] ELSE 0]

LEMMA FunctionsAdded ==
  ASSUME WellTyped, NEW k \in Keys
  PROVE  /\ SlotOf(k) \in [Workers \cup {NoOne} -> Int]
         /\ ShareOf(k) \in [Objects -> Int]
         /\ IsFiniteSet(Workers \cup {NoOne}) /\ IsFiniteSet(Objects)
<1>1. SlotOf(k) \in [Workers \cup {NoOne} -> Int]
  BY DEF WellTyped, SlotOf
<1>2. \A o \in Objects : Share(o)[k] \in Int
  BY ShareType DEF WellTyped
<1>3. ShareOf(k) \in [Objects -> Int]
  BY <1>2 DEF ShareOf
<1>4. IsFiniteSet(Workers \cup {NoOne}) /\ IsFiniteSet(Objects)
  BY WorkersAssumption, FS_AddElement
<1> QED
  BY <1>1, <1>3, <1>4

\* What one object adds to one slot is added to the sum of all slots.
LEMMA AddsOne ==
  ASSUME WellTyped, WellTyped', SameCommand, SumsRight,
         NEW p \in Objects, ~HasAdded(p), \A o : HasAdded(o)' <=> HasAdded(o) \/ o = p,
         NEW slot \in Workers \cup {NoOne},
         \A s \in (Workers \cup {NoOne}) \ {slot} : results'[s] = results[s],
         \A k \in Keys : results'[slot][k] = results[slot][k] + Share(p)[k]
  PROVE  SumsRight'
<1> SUFFICES ASSUME NEW k \in Keys PROVE (Total(k) = SumOf(ShareOf(k)))'
  BY DEF SumsRight, ShareOf
<1>1. /\ SlotOf(k) \in [Workers \cup {NoOne} -> Int] /\ SlotOf(k)' \in [Workers \cup {NoOne} -> Int]
      /\ ShareOf(k) \in [Objects -> Int] /\ ShareOf(k)' \in [Objects -> Int]
      /\ IsFiniteSet(Workers \cup {NoOne}) /\ IsFiniteSet(Objects)
  <2>1. /\ SlotOf(k) \in [Workers \cup {NoOne} -> Int]
        /\ ShareOf(k) \in [Objects -> Int]
        /\ IsFiniteSet(Workers \cup {NoOne}) /\ IsFiniteSet(Objects)
    BY FunctionsAdded
  <2>2. SlotOf(k)' \in [Workers \cup {NoOne} -> Int]
    <3>1. results' \in [Workers \cup {NoOne} -> [Keys -> Int]]
      BY DEF WellTyped
    <3>2. SlotOf(k)' = [s \in Workers \cup {NoOne} |-> results'[s][k]]
      BY DEF SlotOf
    <3>3. \A s \in Workers \cup {NoOne} : results'[s][k] \in Int
      BY <3>1
    <3> QED
      BY <3>2, <3>3
  <2>3. \A o \in Objects : Share(o) \in [Keys -> Int] /\ Share(o)' = Share(o)
    BY ShareType, SameDecisions DEF WellTyped
  <2>4. ShareOf(k)' \in [Objects -> Int]
    BY <2>3 DEF ShareOf
  <2> QED
    BY <2>1, <2>2, <2>4
<1>2. /\ SlotOf(k)'[slot] - SlotOf(k)[slot] = Share(p)[k]
      /\ \A s \in (Workers \cup {NoOne}) \ {slot} : SlotOf(k)'[s] = SlotOf(k)[s]
  <2>1. Share(p)[k] \in Int /\ results[slot][k] \in Int
    BY ShareType DEF WellTyped
  <2>2. SlotOf(k)'[slot] = results'[slot][k] /\ SlotOf(k)[slot] = results[slot][k]
    BY DEF SlotOf
  <2>3. \A s \in (Workers \cup {NoOne}) \ {slot} : SlotOf(k)'[s] = SlotOf(k)[s]
    BY DEF SlotOf
  <2> QED
    BY <2>1, <2>2, <2>3
<1>3. /\ ShareOf(k)'[p] - ShareOf(k)[p] = Share(p)[k]
      /\ \A o \in Objects \ {p} : ShareOf(k)'[o] = ShareOf(k)[o]
  <2>1. \A o \in Objects : Share(o)' = Share(o)
    BY SameDecisions
  <2>2. ShareOf(k)'[p] = Share(p)[k] /\ ShareOf(k)[p] = 0
    BY <2>1 DEF ShareOf
  <2>3. Share(p)[k] \in Int
    BY ShareType DEF WellTyped
  <2>4. \A o \in Objects \ {p} : ShareOf(k)'[o] = ShareOf(k)[o]
    BY <2>1 DEF ShareOf
  <2> QED
    BY <2>2, <2>3, <2>4
<1>4. SumOf(SlotOf(k)') = SumOf(SlotOf(k)) + Share(p)[k]
  BY <1>1, <1>2, SumUpdate
<1>5. SumOf(ShareOf(k)') = SumOf(ShareOf(k)) + Share(p)[k]
  BY <1>1, <1>3, SumUpdate
<1>6. SumOf(SlotOf(k)) = SumOf(ShareOf(k))
  BY DEF SumsRight, Total, SlotOf, ShareOf
<1>7. SumOf(SlotOf(k)') = SumOf(ShareOf(k)')
  BY <1>4, <1>5, <1>6
<1>8. SumOf(SlotOf(k))' = SumOf(SlotOf(k)') /\ SumOf(ShareOf(k))' = SumOf(ShareOf(k)')
  BY DEF SumOf, MapThenSumSet, MapThenFoldSet
<1>9. Total(k) = SumOf(SlotOf(k))
  BY DEF Total, SlotOf
<1> QED
  BY <1>7, <1>8 DEF Total, SlotOf

\* Nothing is added where the results and what has been done stay the same.
LEMMA AddsNothing ==
  ASSUME SameCommand, SumsRight, results' = results, \A o : HasAdded(o)' <=> HasAdded(o)
  PROVE  SumsRight'
<1> SUFFICES ASSUME NEW k \in Keys PROVE (Total(k) = SumOf(ShareOf(k)))'
  BY DEF SumsRight, ShareOf
<1>1. \A o : Share(o)' = Share(o)
  BY SameDecisions
<1>2. ShareOf(k)' = ShareOf(k) /\ SlotOf(k)' = SlotOf(k)
  BY <1>1 DEF ShareOf, SlotOf
<1>3. SumOf(SlotOf(k)) = SumOf(ShareOf(k))
  BY DEF SumsRight, Total, SlotOf, ShareOf
<1>4. SumOf(SlotOf(k)') = SumOf(ShareOf(k)')
  BY <1>2, <1>3
<1>5. SumOf(SlotOf(k))' = SumOf(SlotOf(k)') /\ SumOf(ShareOf(k))' = SumOf(ShareOf(k)')
  BY DEF SumOf, MapThenSumSet, MapThenFoldSet
<1> QED
  BY <1>4, <1>5 DEF Total, SlotOf

LEMMA SumsNext ==
  ASSUME WellTyped, WellTyped', Callbacks, Registers, SumsRight, [Next]_vars
  PROVE  SumsRight'
<1>1. CASE Quiet
  <2>1. \A o : HasAdded(o)' <=> HasAdded(o)
    BY <1>1, DidQuiet DEF HasAdded
  <2> QED
    BY <1>1, <2>1, AddsNothing DEF Quiet
<1>2. ASSUME NEW w \in Workers, Call(w) PROVE SumsRight'
  <2>1. \A o : HasAdded(o)' <=> HasAdded(o)
    BY <1>2, DidCall DEF HasAdded
  <2>2. SameCommand /\ results' = results
    BY <1>2, CallCases
  <2> QED
    BY <2>1, <2>2, AddsNothing
<1>3. ASSUME NEW w \in Workers, CallbackStep(w) PROVE SumsRight'
  <2>1. PICK step \in StepNames : At(w, step) /\ Advance(w)
    BY <1>3, WhichStep
  <2>2. PICK p : p = obj[w]
    OBVIOUS
  <2>3. \A o, y : Did(o, y)' <=> Did(o, y) \/ (o = p /\ y = step)
    BY <2>1, <2>2, DidStep
  <2>4. /\ SameCommand /\ p \in Objects /\ step \in StepSet(p)
        /\ step \in Left(steps[w])
        /\ Follows(step, Left(steps'[w]))
        /\ Left(steps'[w]) = Left(steps[w]) \ {step}
    BY <2>1, <2>2, StepLeft, StepsFacts DEF WellTyped
  <2>5. CASE step \notin {"count", "write"}
    <3>1. results' = results
      BY <1>3, <2>1, <2>5 DEF CallbackStep, Count, WriteResult, Lock, Unlock, PrintsIt, ReadResult, At
    <3>2. \A o : HasAdded(o)' <=> HasAdded(o)
      BY <2>3, <2>5 DEF HasAdded
    <3> QED
      BY <2>4, <3>1, <3>2, AddsNothing
  <2>6. ASSUME step \in {"count", "write"}
        PROVE  ~HasAdded(p) /\ \A o : HasAdded(o)' <=> HasAdded(o) \/ o = p
    <3>1. ~Did(p, step)
      BY <2>2, <2>4 DEF Did
    <3>2. ~("write" \in StepSet(p) /\ "count" \in StepSet(p))
      BY StepSetFacts DEF WellTyped
    <3>3. ASSUME NEW y, Did(p, y) PROVE y \in StepSet(p)
      BY <3>3, StepsFacts DEF Did, WellTyped
    <3>4. ~HasAdded(p)
      BY <2>4, <2>6, <3>1, <3>2, <3>3 DEF HasAdded
    <3>5. \A o : HasAdded(o)' <=> HasAdded(o) \/ o = p
      BY <2>3, <2>6 DEF HasAdded
    <3> QED
      BY <3>4, <3>5
  <2>7. CASE step = "count"
    <3>1. results' = [results EXCEPT ![NoOne][<<"objects", 0>>] = @ + 1]
      BY <1>3, <2>1, <2>7 DEF CallbackStep, Count, WriteResult, Lock, Unlock, PrintsIt, ReadResult, At
    <3>2. results[NoOne] \in [Keys -> Int] /\ <<"objects", 0>> \in Keys
      BY DEF WellTyped, Keys
    <3>3. Share(p) = [k \in Keys |-> IF k = <<"objects", 0>> THEN 1 ELSE 0]
      BY <2>4, <2>7, StepsFacts DEF Share, WellTyped
    <3>4. /\ \A s \in (Workers \cup {NoOne}) \ {NoOne} : results'[s] = results[s]
          /\ results'[NoOne] = [results[NoOne] EXCEPT ![<<"objects", 0>>] = @ + 1]
      BY <3>1 DEF WellTyped
    <3>5. \A k \in Keys : results'[NoOne][k] = results[NoOne][k] + Share(p)[k]
      BY <3>2, <3>3, <3>4
    <3>6. NoOne \in Workers \cup {NoOne}
      OBVIOUS
    <3> QED
      BY <2>4, <2>6, <2>7, <3>4, <3>5, <3>6, AddsOne
  <2>8. CASE step = "write"
    <3>1. results' = [results EXCEPT ![Slot(w)] = Sum(register[w], Added(p))]
      BY <1>3, <2>1, <2>2, <2>8
         DEF CallbackStep, Count, WriteResult, Lock, Unlock, PrintsIt, ReadResult, At
    <3>2. Slot(w) \in Workers \cup {NoOne}
      BY DEF Slot
    <3>3. register[w] = results[Slot(w)]
      <4>1. "read" \notin Left(steps[w])
        BY <2>4, <2>8 DEF Follows
      <4> QED
        BY <2>4, <2>8, <4>1 DEF Registers
    <3>4. Share(p) = Added(p)
      <4>1. "count" \notin StepSet(p)
        BY <2>4, <2>8, StepSetFacts DEF WellTyped
      <4> QED
        BY <4>1, StepsFacts DEF Share, WellTyped
    <3>5. /\ \A s \in (Workers \cup {NoOne}) \ {Slot(w)} : results'[s] = results[s]
          /\ results'[Slot(w)] = Sum(register[w], Added(p))
      BY <3>1, <3>2 DEF WellTyped
    <3>6. \A k \in Keys : results'[Slot(w)][k] = results[Slot(w)][k] + Share(p)[k]
      BY <3>3, <3>4, <3>5 DEF Sum
    <3> QED
      BY <2>4, <2>6, <2>8, <3>2, <3>5, <3>6, AddsOne
  <2> QED
    BY <2>5, <2>7, <2>8
<1> QED
  BY <1>1, <1>2, <1>3, StepCases

----------------------------------------------------------------------------
(* What is printed, and the end. *)

LEMMA AppendFacts ==
  ASSUME NEW S, NEW s \in Seq(S), NEW x \in S
  PROVE  /\ Len(s) \in Nat /\ DOMAIN s = 1 .. Len(s)
         /\ DOMAIN Append(s, x) = 1 .. (Len(s) + 1)
         /\ \A i \in 1 .. Len(s) : Append(s, x)[i] = s[i]
         /\ Append(s, x)[Len(s) + 1] = x
OBVIOUS

LEMMA PrintedNext ==
  ASSUME WellTyped, Callbacks, PrintedRight, [Next]_vars
  PROVE  PrintedRight'
<1>1. CASE Quiet
  BY <1>1, DidQuiet DEF Quiet, PrintedRight
<1>2. ASSUME NEW w \in Workers, Call(w) PROVE PrintedRight'
  BY <1>2, DidCall, CallCases DEF PrintedRight
<1>3. ASSUME NEW w \in Workers, CallbackStep(w) PROVE PrintedRight'
  <2>1. PICK step \in StepNames : At(w, step) /\ Advance(w)
    BY <1>3, WhichStep
  <2>2. PICK p : p = obj[w]
    OBVIOUS
  <2>3. \A o, y : Did(o, y)' <=> Did(o, y) \/ (o = p /\ y = step)
    BY <2>1, <2>2, DidStep
  <2>4. p \in Objects /\ step \in Left(steps[w])
    BY <2>1, <2>2, StepLeft
  <2>5. CASE step # "print"
    <3>1. printed' = printed
      BY <1>3, <2>1, <2>5 DEF CallbackStep, Count, WriteResult, Lock, Unlock, PrintsIt, ReadResult, At
    <3>2. \A o : Did(o, "print")' <=> Did(o, "print")
      BY <2>3, <2>5
    <3> QED
      BY <3>1, <3>2 DEF PrintedRight
  <2>6. CASE step = "print"
    <3>1. printed' = Append(printed, p)
      BY <1>3, <2>1, <2>2, <2>6
         DEF CallbackStep, Count, WriteResult, Lock, Unlock, PrintsIt, ReadResult, At
    <3>2. \A o : Did(o, "print")' <=> Did(o, "print") \/ o = p
      BY <2>3, <2>6
    <3>3. ~Did(p, "print")
      BY <2>2, <2>4, <2>6 DEF Did
    <3>4. /\ Len(printed) \in Nat /\ DOMAIN printed = 1 .. Len(printed)
          /\ DOMAIN printed' = 1 .. (Len(printed) + 1)
          /\ \A i \in 1 .. Len(printed) : printed'[i] = printed[i]
          /\ printed'[Len(printed) + 1] = p
      BY <2>4, <3>1, AppendFacts DEF WellTyped
    <3>5. \A i \in 1 .. Len(printed) : printed[i] # p
      BY <2>4, <3>3, <3>4 DEF PrintedRight
    <3>6. \A i \in 1 .. (Len(printed) + 1) : i \in 1 .. Len(printed) \/ i = Len(printed) + 1
      BY <3>4
    <3>7. \A i, j \in DOMAIN printed' : printed'[i] = printed'[j] => i = j
      BY <3>4, <3>5, <3>6 DEF PrintedRight
    <3>8. ASSUME NEW o \in Objects
          PROVE  (\E i \in DOMAIN printed' : printed'[i] = o) <=> Did(o, "print")'
      <4>1. (\E i \in DOMAIN printed' : printed'[i] = o)
              <=> (\E i \in DOMAIN printed : printed[i] = o) \/ o = p
        <5>1. \A i \in 1 .. Len(printed) : i \in 1 .. (Len(printed) + 1)
          BY <3>4
        <5>2. Len(printed) + 1 \in 1 .. (Len(printed) + 1)
          BY <3>4
        <5> QED
          BY <3>4, <3>6, <5>1, <5>2
      <4> QED
        BY <3>2, <4>1 DEF PrintedRight
    <3> QED
      BY <3>7, <3>8 DEF PrintedRight
  <2> QED
    BY <2>5, <2>6
<1> QED
  BY <1>1, <1>2, <1>3, StepCases

LEMMA EndingNext ==
  ASSUME WellTyped, Callbacks, Ending, [Next]_vars
  PROVE  Ending'
<1>1. SameCommand /\ Scanned' = Scanned /\ \A o : Throws(o)' = Throws(o)
  <2>1. SameCommand
    BY StepCases, CallCases, WhichStep, StepLeft DEF Quiet
  <2>2. Scanned' = Scanned
    BY <2>1 DEF SameCommand, Scanned
  <2> QED
    BY <2>1, <2>2, SameDecisions
<1>2. \A o \in visited' : o \in Scanned /\ ~Throws(o)
  <2>1. CASE visited' = visited
    BY <2>1 DEF Ending
  <2>2. ASSUME NEW w \in Workers, Call(w) PROVE \A o \in visited' : o \in Scanned /\ ~Throws(o)
    BY <2>2, CallCases DEF Ending
  <2> QED
    BY <2>1, <2>2, StepCases, WhichStep, StepLeft DEF Quiet
<1>3. SUFFICES /\ status' \in {"returned", "done"} =>
                    visited' = Scanned /\ \A w \in Workers : steps'[w] = <<>>
               /\ status' = "done" => \A k \in Keys : report'[k] = Total(k)'
  BY <1>1, <1>2 DEF Ending
<1>4. CASE UNCHANGED vars \/ Over
  <2>1. status' = status /\ visited' = visited /\ steps' = steps /\ report' = report /\ results' = results
    BY <1>4 DEF Over, vars, callbackVars
  <2>2. \A k \in Keys : Total(k)' = Total(k)
    BY <2>1 DEF Total
  <2> QED
    BY <2>1, <2>2 DEF Ending
<1>5. CASE ScanReturns
  BY <1>5 DEF ScanReturns, Scan!AReturn, callbackVars
<1>6. CASE Report
  <2>1. /\ status = "returned" /\ visited' = visited /\ steps' = steps /\ results' = results
        /\ report' = [k \in Keys |-> SumOf([s \in DOMAIN results |-> results[s][k]])]
    BY <1>6 DEF Report, callbackVars
  <2>2. DOMAIN results = Workers \cup {NoOne}
    BY DEF WellTyped
  <2>3. \A k \in Keys : Total(k)' = Total(k)
    BY <2>1 DEF Total
  <2>4. \A k \in Keys : report'[k] = Total(k)
    BY <2>1, <2>2 DEF Total
  <2> QED
    BY <2>1, <2>3, <2>4 DEF Ending
<1>7. ASSUME NEW w \in Workers, Worker(w) PROVE status' \in {"running", "terminated"}
  BY <1>7 DEF Worker, Call, Scan!AVisit, CallThrows, Count, Lock, Unlock, PrintRepr, ReadResult,
              WriteResult, At
<1> QED
  BY <1>4, <1>5, <1>6, <1>7 DEF Next

LEMMA InitCInv == Init => CInv
<1> SUFFICES ASSUME Init PROVE CInv
  OBVIOUS
<1>1. WellTyped
  BY TypesInit
<1>2. \A w \in Workers : steps[w] = <<>> /\ Left(steps[w]) = {}
  BY NothingLeft DEF Init
<1>3. visited = {} /\ output_lock = NoOne /\ printed = <<>> /\ status = "running"
      /\ results = [s \in Workers \cup {NoOne} |-> Nil]
  BY DEF Init
<1>4. Callbacks /\ Registers /\ Ending
  BY <1>2, <1>3 DEF Callbacks, Registers, Ending
<1>5. LockHeld
  BY <1>2, <1>3, WorkersAssumption DEF LockHeld, Holding
<1>6. \A o, y : ~Did(o, y)
  BY <1>3 DEF Did
<1>7. PrintedRight
  BY <1>3, <1>6 DEF PrintedRight
<1>8. SumsRight
  <2> SUFFICES ASSUME NEW k \in Keys PROVE SumOf(SlotOf(k)) = SumOf(ShareOf(k))
    BY DEF SumsRight, Total, SlotOf, ShareOf
  <2>1. /\ SlotOf(k) \in [Workers \cup {NoOne} -> Int] /\ ShareOf(k) \in [Objects -> Int]
        /\ IsFiniteSet(Workers \cup {NoOne}) /\ IsFiniteSet(Objects)
    BY <1>1, FunctionsAdded
  <2>2. /\ \A s \in Workers \cup {NoOne} : SlotOf(k)[s] = 0
        /\ \A o \in Objects : ShareOf(k)[o] = 0
    BY <1>3, <1>6 DEF SlotOf, ShareOf, HasAdded, Nil
  <2>3. SumOf(SlotOf(k)) = Cardinality({})
    <3>1. {} \in SUBSET (Workers \cup {NoOne})
      OBVIOUS
    <3> QED
      BY <2>1, <2>2, <3>1, SumCounts
  <2>4. SumOf(ShareOf(k)) = Cardinality({})
    <3>1. {} \in SUBSET Objects
      OBVIOUS
    <3> QED
      BY <2>1, <2>2, <3>1, SumCounts
  <2> QED
    BY <2>3, <2>4
<1> QED
  BY <1>1, <1>4, <1>5, <1>7, <1>8 DEF CInv

LEMMA CInvNext == CInv /\ [Next]_vars => CInv'
<1> SUFFICES ASSUME CInv, [Next]_vars PROVE CInv'
  OBVIOUS
<1>1. WellTyped /\ Callbacks /\ LockHeld /\ Registers /\ SumsRight /\ PrintedRight /\ Ending
  BY DEF CInv
<1>2. WellTyped'
  BY <1>1, TypesNext
<1>3. Callbacks' /\ LockHeld' /\ Registers'
  BY <1>1, CallbacksNext, LockNext, RegistersNext
<1>4. SumsRight'
  BY <1>1, <1>2, SumsNext
<1>5. PrintedRight' /\ Ending'
  BY <1>1, PrintedNext, EndingNext
<1> QED
  BY <1>2, <1>3, <1>4, <1>5 DEF CInv

LEMMA Invariance == Spec => []CInv
  BY InitCInv, CInvNext, PTL DEF Spec

----------------------------------------------------------------------------
(* The report. *)

\* What is printed, and what counts, is what the callbacks take that come to the step.
LEMMA ListedTaken ==
  ASSUME WellTyped, NEW o \in Scanned, ~Throws(o)
  PROVE  o \in Listed \ Silenced <=> Taken(o) /\ "print" \in StepSet(o)
<1>1. heap[o].repr \in {"ok", "invalid", "throws"}
  BY HeapFacts DEF WellTyped, Scanned
<1>2. Selected(o) => RightType(o)
  BY DEF Selected
<1>3. PrintedIfValid => Checks
  BY ByCommand DEF PrintedIfValid, Checks
<1>4. Selected(o) /\ PrintedIfValid => heap[o].repr # "throws"
  BY <1>2, <1>3 DEF Throws
<1>5. Taken(o) <=> Selected(o) /\ (PrintedIfValid => heap[o].repr # "invalid")
  BY <1>1, <1>4 DEF Taken
<1>6. o \in Listed \ Silenced <=> o \in Listed /\ (PrintedIfValid => heap[o].repr # "invalid")
  BY DEF Silenced
<1>7. o \in Listed <=> Selected(o) /\ "print" \in StepSet(o)
  <2>1. CASE request.command = "aggregate-strings"
    <3>1. Selected(o) => (LengthAskedFor(o) /\ ~NoUpperLimit <=> InPrintRange(o))
      <4>1. o \in Objects /\ heap[o].size \in Int
        BY HeapFacts DEF WellTyped, Scanned
      <4>2. request.smaller \in Nat /\ request.larger \in Nat
        BY RequestsAssumption DEF WellTyped
      <4>3. Selected(o) => heap[o].size >= 0
        BY <2>1 DEF Selected
      <4> QED
        BY <4>1, <4>2, <4>3 DEF LengthAskedFor, NoUpperLimit, InPrintRange
    <3>2. "print" \in StepSet(o) <=> InPrintRange(o)
      BY <2>1, ByCommand DEF WellTyped, StepSet, InPrintRange
    <3> QED
      BY <2>1, <3>1, <3>2 DEF Listed, Scanned
  <2>2. CASE request.command # "aggregate-strings"
    BY <2>2, ByCommand DEF WellTyped, Listed, StepSet, Scanned
  <2> QED
    BY <2>1, <2>2
<1> QED
  BY <1>5, <1>6, <1>7

LEMMA CountedTaken ==
  ASSUME WellTyped, NEW o \in Scanned, ~Throws(o)
  PROVE  o \in Counted <=> Taken(o) /\ ("count" \in StepSet(o) \/ "write" \in StepSet(o))
<1>1. CASE request.command = "find-all-threads"
  BY <1>1, ByCommand DEF WellTyped, Counted, StepSet
<1>2. CASE request.command \in {"count-by-type", "aggregate-strings"} \/ request.count_only
  <2>1. o \in Counted <=> Selected(o)
    BY <1>2, ByCommand DEF WellTyped, Counted, Overlooked, Scanned
  <2>2. ~PrintedIfValid
    BY <1>2, ByCommand DEF WellTyped, PrintedIfValid
  <2>3. "count" \in StepSet(o) \/ "write" \in StepSet(o)
    BY <1>2, ByCommand DEF WellTyped, StepSet
  <2> QED
    BY <2>1, <2>2, <2>3 DEF Taken
<1>3. CASE /\ request.command \in {"find-references", "find", "find-all-objects", "find-module"}
           /\ ~request.count_only
  <2>1. Counted = Listed \ Silenced
    BY <1>3 DEF Counted
  <2>2. "print" \in StepSet(o) /\ ("count" \in StepSet(o) \/ "write" \in StepSet(o))
    BY <1>3 DEF StepSet
  <2> QED
    BY <2>1, <2>2, ListedTaken
<1> QED
  BY <1>1, <1>2, <1>3, ByCommand DEF WellTyped

\* The buckets increase.
LEMMA Increasing ==
  ASSUME NEW b \in DOMAIN Buckets, NEW c \in 1 .. (b - 1)
  PROVE  Buckets[c] < Buckets[b]
<1>1. /\ Len(Buckets) \in Nat /\ DOMAIN Buckets = 1 .. Len(Buckets)
      /\ \A i \in 1 .. Len(Buckets) : Buckets[i] \in Nat
      /\ \A i \in 2 .. Len(Buckets) : Buckets[i - 1] < Buckets[i]
  BY BucketsAssumption
<1> DEFINE T == {i \in 1 .. Len(Buckets) : \E j \in 1 .. (i - 1) : ~(Buckets[j] < Buckets[i])}
<1>2. SUFFICES ASSUME T # {} PROVE FALSE
  BY <1>1
<1>3. PICK i \in T : \A k \in T : i <= k
  <2>1. T \in SUBSET Nat
    OBVIOUS
  <2> HIDE DEF T
  <2> QED
    BY <1>2, <2>1, LeastNat
<1>4. PICK j \in 1 .. (i - 1) : ~(Buckets[j] < Buckets[i])
  BY <1>3
<1>5. i \in 1 .. Len(Buckets) /\ i - 1 \in 1 .. Len(Buckets) /\ i \in 2 .. Len(Buckets)
      /\ j \in 1 .. Len(Buckets)
  BY <1>1, <1>3, <1>4
<1>6. Buckets[i - 1] < Buckets[i] /\ Buckets[i] \in Nat /\ Buckets[i - 1] \in Nat /\ Buckets[j] \in Nat
  BY <1>1, <1>5
<1>7. j # i - 1
  BY <1>4, <1>6
<1>8. j \in 1 .. ((i - 1) - 1)
  BY <1>4, <1>5, <1>7
<1>9. i - 1 \notin T
  <2>1. ~(i <= i - 1)
    BY <1>5
  <2> QED
    BY <1>3, <2>1
<1>10. Buckets[j] < Buckets[i - 1]
  BY <1>5, <1>8, <1>9
<1> QED
  BY <1>4, <1>6, <1>10

\* lower_bound finds the bucket whose bound is the first that is large enough.
LEMMA BucketRight ==
  ASSUME NEW size \in Int, NEW b \in DOMAIN Buckets
  PROVE  BucketOf(size) = b <=> size <= Buckets[b] /\ (b > 1 => size > Buckets[b - 1])
<1>1. /\ Len(Buckets) \in Nat /\ DOMAIN Buckets = 1 .. Len(Buckets)
      /\ \A i \in 1 .. Len(Buckets) : Buckets[i] \in Nat
  BY BucketsAssumption
<1> DEFINE First(i) == Buckets[i] >= size /\ \A c \in 1 .. (i - 1) : Buckets[c] < size
<1>2. ASSUME NEW i \in DOMAIN Buckets, NEW j \in DOMAIN Buckets, First(i), First(j) PROVE i = j
  <2>1. /\ i \in Nat /\ j \in Nat /\ i >= 1 /\ j >= 1
        /\ Buckets[i] \in Nat /\ Buckets[j] \in Nat
    BY <1>1
  <2>2. CASE i < j
    <3>1. i \in 1 .. (j - 1)
      BY <2>1, <2>2
    <3> QED
      BY <1>2, <2>1, <3>1
  <2>3. CASE j < i
    <3>1. j \in 1 .. (i - 1)
      BY <2>1, <2>3
    <3> QED
      BY <1>2, <2>1, <3>1
  <2> QED
    BY <2>1, <2>2, <2>3
<1>3. First(b) <=> size <= Buckets[b] /\ (b > 1 => size > Buckets[b - 1])
  <2>1. b \in Nat /\ b >= 1 /\ Buckets[b] \in Nat
    BY <1>1
  <2>2. ASSUME First(b), b > 1 PROVE size > Buckets[b - 1]
    <3>1. b - 1 \in 1 .. (b - 1) /\ b - 1 \in 1 .. Len(Buckets)
      BY <1>1, <2>1, <2>2
    <3>2. Buckets[b - 1] \in Nat /\ Buckets[b - 1] < size
      BY <1>1, <2>2, <3>1
    <3> QED
      BY <3>2
  <2>3. ASSUME b > 1, size > Buckets[b - 1], NEW c \in 1 .. (b - 1) PROVE Buckets[c] < size
    <3>1. b - 1 \in DOMAIN Buckets /\ c \in DOMAIN Buckets /\ (c = b - 1 \/ c \in 1 .. ((b - 1) - 1))
      BY <1>1, <2>1, <2>3
    <3>2. Buckets[c] \in Nat /\ Buckets[b - 1] \in Nat
      BY <1>1, <3>1
    <3>3. Buckets[c] <= Buckets[b - 1]
      BY <3>1, <3>2, Increasing
    <3> QED
      BY <2>3, <3>2, <3>3
  <2>4. ASSUME ~(b > 1) PROVE 1 .. (b - 1) = {}
    BY <2>1, <2>4
  <2> QED
    BY <2>1, <2>2, <2>3, <2>4
<1>4. ASSUME \E i \in DOMAIN Buckets : Buckets[i] >= size
      PROVE  \E i \in DOMAIN Buckets : First(i)
  <2> DEFINE T == {i \in 1 .. Len(Buckets) : Buckets[i] >= size}
  <2>1. PICK i \in T : \A k \in T : i <= k
    <3>1. T \in SUBSET Nat /\ T # {}
      BY <1>1, <1>4
    <3> HIDE DEF T
    <3> QED
      BY <3>1, LeastNat
  <2>2. ASSUME NEW c \in 1 .. (i - 1) PROVE Buckets[c] < size
    <3>1. c \in 1 .. Len(Buckets) /\ ~(i <= c)
      BY <1>1, <2>1
    <3>2. Buckets[c] \in Nat /\ c \notin T
      BY <1>1, <2>1, <3>1
    <3>3. ~(Buckets[c] >= size)
      BY <3>1, <3>2
    <3> QED
      BY <3>2, <3>3
  <2> QED
    BY <1>1, <2>1, <2>2
<1>5. CASE \E i \in DOMAIN Buckets : Buckets[i] >= size
  <2>1. BucketOf(size) = CHOOSE i \in DOMAIN Buckets : First(i)
    BY <1>5 DEF BucketOf
  <2>2. BucketOf(size) \in DOMAIN Buckets /\ First(BucketOf(size))
    BY <1>4, <1>5, <2>1
  <2> HIDE DEF First
  <2> QED
    BY <1>2, <1>3, <2>2
<1>6. CASE ~\E i \in DOMAIN Buckets : Buckets[i] >= size
  <2>1. BucketOf(size) = Len(Buckets) + 1
    BY <1>6 DEF BucketOf
  <2>2. b # Len(Buckets) + 1 /\ Buckets[b] \in Nat /\ ~(Buckets[b] >= size)
    BY <1>1, <1>6
  <2> QED
    BY <2>1, <2>2
<1> QED
  BY <1>5, <1>6

\* A sequence without repetitions is as long as it has elements.
LEMMA LengthIs ==
  ASSUME NEW S, NEW s \in Seq(S), \A i, j \in DOMAIN s : s[i] = s[j] => i = j
  PROVE  Len(s) = Cardinality({s[i] : i \in DOMAIN s})
<1> DEFINE R == {s[i] : i \in DOMAIN s}
<1>1. Len(s) \in Nat /\ DOMAIN s = 1 .. Len(s)
  OBVIOUS
<1>2. s \in [1 .. Len(s) -> R]
  <2>1. s = [i \in 1 .. Len(s) |-> s[i]]
    BY <1>1
  <2>2. \A i \in 1 .. Len(s) : s[i] \in R
    BY <1>1
  <2> HIDE DEF R
  <2> QED
    BY <2>1, <2>2
<1>3. s \in Bijection(1 .. Len(s), R)
  BY <1>1, <1>2 DEF Bijection, Injection, Surjection, IsInjective
<1>4. ExistsBijection(1 .. Len(s), R)
  BY <1>3 DEF ExistsBijection
<1> HIDE DEF R
<1>5. Cardinality(R) = Len(s)
  BY <1>1, <1>4, FS_CountingElements
<1> QED
  BY <1>5 DEF R

\* The report is that of one thread alone, however the threads' callbacks were
\* interleaved (AnalysisShell.cc:206-650).
THEOREM ReportAlwaysExact == Spec => []ReportExact
<1>1. ASSUME CInv PROVE ReportExact
  <2>1. SUFFICES ASSUME status = "done"
                 PROVE  /\ Len(printed) = Cardinality(Listed \ Silenced)
                        /\ {printed[i] : i \in DOMAIN printed} = Listed \ Silenced
                        /\ IF request.command = "count-by-type"
                           THEN \A t \in Types : report[<<t, 0>>] =
                                  Cardinality({o \in Counted : heap[o].type = t})
                           ELSE report[<<"objects", 0>>] = Cardinality(Counted)
                        /\ request.command = "aggregate-strings" =>
                             /\ report[<<"bytes", 0>>] = SumOf([o \in Counted |-> heap[o].size])
                             /\ \A b \in DOMAIN Buckets :
                                  report[<<"length", b>>] =
                                    Cardinality({o \in Counted :
                                                   /\ heap[o].size <= Buckets[b]
                                                   /\ b > 1 => heap[o].size > Buckets[b - 1]})
    BY DEF ReportExact
  <2>2. WellTyped /\ SumsRight /\ PrintedRight /\ Ending
    BY <1>1 DEF CInv
  <2>3. /\ \A o \in Scanned : ~Throws(o)
        /\ visited = Scanned /\ \A w \in Workers : steps[w] = <<>>
        /\ \A k \in Keys : report[k] = Total(k)
    BY <2>1, <2>2 DEF Ending
  <2>4. \A o \in Objects : \A y : Did(o, y) <=> o \in Scanned /\ Taken(o) /\ y \in StepSet(o)
    <3>1. \A w \in Workers : Left(steps[w]) = {}
      BY <2>3, NothingLeft
    <3> QED
      BY <2>2, <2>3, <3>1, StepsFacts DEF Did, WellTyped
  <2>5. {printed[i] : i \in DOMAIN printed} = Listed \ Silenced
    <3>1. Listed \ Silenced \subseteq Scanned /\ Scanned \subseteq Objects
      BY <2>2 DEF Listed, Scanned, WellTyped
    <3>2. {printed[i] : i \in DOMAIN printed} \subseteq Objects
      BY <2>2 DEF WellTyped
    <3>3. \A o \in Objects : (\E i \in DOMAIN printed : printed[i] = o) <=> o \in Listed \ Silenced
      BY <2>2, <2>3, <2>4, <3>1, ListedTaken DEF PrintedRight
    <3> QED
      BY <3>1, <3>2, <3>3
  <2>6. Len(printed) = Cardinality(Listed \ Silenced)
    <3>1. printed \in Seq(Objects) /\ \A i, j \in DOMAIN printed : printed[i] = printed[j] => i = j
      BY <2>2 DEF WellTyped, PrintedRight
    <3>2. Len(printed) = Cardinality({printed[i] : i \in DOMAIN printed})
      BY <3>1, LengthIs
    <3> QED
      BY <2>5, <3>2
  <2>7. Counted \subseteq Scanned /\ Scanned \subseteq Objects
    BY DEF Counted, Listed, Overlooked, Scanned
  <2>8. \A o \in Objects : HasAdded(o) <=> o \in Counted
    BY <2>2, <2>3, <2>4, <2>7, CountedTaken DEF HasAdded
  <2>9. ASSUME NEW k \in Keys
        PROVE  /\ report[k] = SumOf(ShareOf(k))
               /\ ShareOf(k) \in [Objects -> Int] /\ IsFiniteSet(Objects)
               /\ \A o \in Counted : ShareOf(k)[o] = Share(o)[k]
               /\ \A o \in Objects \ Counted : ShareOf(k)[o] = 0
    <3>1. report[k] = SumOf(ShareOf(k))
      BY <2>2, <2>3 DEF SumsRight, ShareOf
    <3>2. ShareOf(k) \in [Objects -> Int] /\ IsFiniteSet(Objects)
      BY <2>2, FunctionsAdded
    <3>3. \A o \in Objects : ShareOf(k)[o] = IF o \in Counted THEN Share(o)[k] ELSE 0
      BY <2>8 DEF ShareOf
    <3> QED
      BY <2>7, <3>1, <3>2, <3>3
  <2>10. ASSUME NEW o \in Counted
         PROVE  IF "count" \in StepSet(o)
                THEN \A k \in Keys : Share(o)[k] = IF k = <<"objects", 0>> THEN 1 ELSE 0
                ELSE Share(o) = Added(o)
    BY <2>2, StepsFacts DEF Share, WellTyped
  <2>11. CASE request.command = "count-by-type"
    <3>1. ASSUME NEW t \in Types
          PROVE  report[<<t, 0>>] = Cardinality({o \in Counted : heap[o].type = t})
      <4> DEFINE k == <<t, 0>>
                 C == {o \in Counted : heap[o].type = t}
      <4>1. k \in Keys
        BY DEF Keys
      <4>2. ASSUME NEW o \in Counted
            PROVE  ShareOf(k)[o] = IF heap[o].type = t THEN 1 ELSE 0
        <5>1. "count" \notin StepSet(o)
          BY <2>2, <2>11, ByCommand DEF StepSet, WellTyped
        <5>2. Added(o)[k] = IF k = <<heap[o].type, 0>> THEN 1 ELSE 0
          BY <2>2, <2>7, <2>11, <4>1, AddedFacts DEF WellTyped
        <5>3. k = <<heap[o].type, 0>> <=> heap[o].type = t
          OBVIOUS
        <5> QED
          BY <2>9, <2>10, <4>1, <5>1, <5>2, <5>3
      <4>3. C \in SUBSET Objects
        BY <2>7
      <4>4. /\ \A o \in C : ShareOf(k)[o] = 1
            /\ \A o \in Objects \ C : ShareOf(k)[o] = 0
        BY <2>9, <4>1, <4>2
      <4> HIDE DEF C, k
      <4>5. report[k] = Cardinality(C)
        BY <2>9, <4>1, <4>3, <4>4, SumCounts
      <4> QED
        BY <4>5 DEF C, k
    <3> QED
      BY <2>5, <2>6, <2>11, <3>1
  <2>12. CASE request.command # "count-by-type"
    <3> DEFINE n == <<"objects", 0>>
    <3>1. n \in Keys
      BY DEF Keys
    <3>2. ASSUME NEW o \in Counted PROVE ShareOf(n)[o] = 1
      <4>1. CASE "count" \in StepSet(o)
        BY <2>9, <2>10, <3>1, <4>1
      <4>2. CASE "count" \notin StepSet(o)
        <5>1. Added(o)[n] = 1
          <6>1. n # <<"bytes", 0>>
            OBVIOUS
          <6> QED
            BY <2>2, <2>7, <2>12, <3>1, <6>1, AddedFacts DEF WellTyped
        <5> QED
          BY <2>9, <2>10, <3>1, <4>2, <5>1
      <4> QED
        BY <4>1, <4>2
    <3> HIDE DEF n
    <3>3. report[n] = Cardinality(Counted)
      BY <2>7, <2>9, <3>1, <3>2, SumCounts
    <3>4. CASE request.command = "aggregate-strings"
      <4>1. \A o \in Counted : Share(o) = Added(o)
        <5>1. \A o : "count" \notin StepSet(o)
          BY <2>2, <3>4, ByCommand DEF StepSet, WellTyped
        <5> QED
          BY <2>10, <5>1
      <4>2. report[<<"bytes", 0>>] = SumOf([o \in Counted |-> heap[o].size])
        <5> DEFINE k == <<"bytes", 0>>
                   h == [o \in Counted |-> heap[o].size]
        <5>1. k \in Keys
          BY DEF Keys
        <5>2. \A o \in Counted : Added(o)[k] = heap[o].size
          BY <2>2, <2>7, <3>4, <5>1, AddedFacts DEF WellTyped
        <5>3. h \in [Counted -> Int]
          BY <2>2, <2>7, HeapFacts DEF WellTyped
        <5>4. \A o \in Counted : ShareOf(k)[o] = h[o]
          BY <2>9, <4>1, <5>1, <5>2
        <5>5. Counted \in SUBSET Objects
          BY <2>7
        <5> HIDE DEF k, h
        <5>6. report[k] = SumOf(h)
          BY <2>9, <5>1, <5>3, <5>4, <5>5, SumPart
        <5> QED
          BY <5>6 DEF k, h
      <4>3. ASSUME NEW b \in DOMAIN Buckets
            PROVE  report[<<"length", b>>] =
                     Cardinality({o \in Counted : /\ heap[o].size <= Buckets[b]
                                                  /\ b > 1 => heap[o].size > Buckets[b - 1]})
        <5> DEFINE k == <<"length", b>>
                   InBucket(o) == heap[o].size <= Buckets[b] /\ (b > 1 => heap[o].size > Buckets[b - 1])
                   C == {o \in Counted : InBucket(o)}
        <5>1. k \in Keys
          <6>1. b \in 1 .. (Len(Buckets) + 1)
            BY BucketsAssumption
          <6> QED
            BY <6>1 DEF Keys
        <5>2. ASSUME NEW o \in Counted PROVE ShareOf(k)[o] = IF InBucket(o) THEN 1 ELSE 0
          <6>1. k # <<"bytes", 0>> /\ k # <<"objects", 0>>
            OBVIOUS
          <6>2. k = <<"length", BucketOf(heap[o].size)>> <=> BucketOf(heap[o].size) = b
            OBVIOUS
          <6>3. BucketOf(heap[o].size) = b <=> InBucket(o)
            BY <2>2, <2>7, HeapFacts, BucketRight DEF WellTyped
          <6>4. Added(o)[k] = IF k = <<"length", BucketOf(heap[o].size)>> THEN 1 ELSE 0
            BY <2>2, <2>7, <3>4, <5>1, <6>1, AddedFacts DEF WellTyped
          <6> QED
            BY <2>9, <4>1, <5>1, <6>2, <6>3, <6>4
        <5>3. C \in SUBSET Objects
          BY <2>7
        <5>4. /\ \A o \in C : ShareOf(k)[o] = 1
              /\ \A o \in Objects \ C : ShareOf(k)[o] = 0
          BY <2>9, <5>1, <5>2
        <5> HIDE DEF C, k
        <5>5. report[k] = Cardinality(C)
          BY <2>9, <5>1, <5>3, <5>4, SumCounts
        <5> QED
          BY <5>5 DEF C, k
      <4> QED
        BY <2>5, <2>6, <2>12, <3>3, <4>2, <4>3 DEF n
    <3> QED
      BY <2>5, <2>6, <2>12, <3>3, <3>4 DEF n
  <2> QED
    BY <2>11, <2>12
<1> QED
  BY <1>1, Invariance, PTL
=============================================================================
