-------------------------- MODULE TraversalProofs --------------------------
(***************************************************************************)
(* What holds of Traversal for every memory and every setting: the guards  *)
(* of repr keep its state exact.                                           *)
(***************************************************************************)
EXTENDS Traversal, FiniteSetTheorems, SequenceTheorems, TLAPS

(* The invariant. *)

Elements(s) == {s[i] : i \in 1 .. Len(s)}

IsSeq(s) == s \in Seq(Elements(s))

IsPart(p) ==
  /\ p = [items |-> p.items, catches |-> p.catches, indent |-> p.indent, limits |-> p.limits]
  /\ IsSeq(p.items)
  /\ p.catches \in BOOLEAN
  /\ p.indent \in {0, 1}
  /\ p.limits \in BOOLEAN

\* The first part of a type's repr has no limit of its own, nor has the last.
IsParts(ps) ==
  /\ IsSeq(ps) /\ Len(ps) > 0
  /\ \A i \in 1 .. Len(ps) : IsPart(ps[i])
  /\ ~ps[Len(ps)].limits

IsActivation(a) ==
  /\ a = [obj |-> a.obj, parts |-> a.parts, guarded |-> a.guarded, indent |-> a.indent]
  /\ a.obj \in DOMAIN heap
  /\ a.guarded \in BOOLEAN /\ (a.guarded <=> Guarded(a.obj))
  /\ a.indent = Indent(a.obj)
  /\ IsParts(a.parts)
  /\ \A i \in 1 .. Len(a.parts) : a.parts[i].limits => heap[a.obj].kind = "type"

\* Types and code objects are printed in another way as roots.
NoRoot(items) ==
  IsSeq(items) /\ \A k \in 1 .. Len(items) :
    items[k] \in DOMAIN heap => heap[items[k]].kind \notin {"type", "code"}

\* What an activation without a guard prints is none of them, if names are what
\* Python lets them be; and it catches nothing where something may be thrown.
BareParts(ps) ==
  /\ NamesOK => \A j \in 1 .. Len(ps) : NoRoot(ps[j].items)
  /\ setting.knows_code \/ \A j \in 1 .. Len(ps) : ~ps[j].catches

Bare(a) == BareParts(a.parts)

\* Types are expanded where nothing is in progress: as roots, or below short
\* coroutines with a stale name.
StackOK(s) ==
  /\ IsSeq(s)
  /\ \A i \in 1 .. Len(s) :
       /\ IsActivation(s[i])
       /\ ~s[i].guarded => Bare(s[i])
       /\ heap[s[i].obj].kind = "type" =>
            (\A j \in 1 .. i - 1 : ~s[j].guarded) /\ (NamesOK => i = 1)

\* The objects that are being printed under a guard, each by one activation.
GuardedIn(s) == {s[i].obj : i \in {i \in 1 .. Len(s) : s[i].guarded}}

Distinct(s) ==
  \A i, j \in 1 .. Len(s) :
    i # j /\ s[i].guarded /\ s[j].guarded => s[i].obj # s[j].obj

\* The depth counts the IndentGuards there are.
Indented(s) == {i \in 1 .. Len(s) : s[i].indent = 1}
InIndentedPart(s) == {i \in 1 .. Len(s) : s[i].parts[1].indent = 1}

Depth(s) ==
  setting.recursion_depth + Cardinality(Indented(s)) + Cardinality(InIndentedPart(s))

\* The limit is the Traversal's own, but in the part that changes it.
Limits(s) == \E i \in 1 .. Len(s) : s[i].parts[1].limits

Limit(s) == IF Limits(s) THEN 2 ELSE setting.max_recursion_depth

\* What a type's limit may make of the Traversal's own.
HasType(s) == \E i \in 1 .. Len(s) : heap[s[i].obj].kind = "type"

NestingLimit(s) ==
  IF HasType(s) /\ setting.max_recursion_depth < 2 THEN 2 ELSE setting.max_recursion_depth

Nesting(s) ==
  setting.max_recursion_depth >= 0 /\ Cardinality(Indented(s)) > 0 =>
    setting.recursion_depth + Cardinality(Indented(s)) <= NestingLimit(s)

NoneCatches(s) == \A i \in 1 .. Len(s) : ~s[i].parts[1].catches

\* An exception that leaves a type's dict leaves its limit behind: nothing is
\* printed after it.
IInv ==
  /\ heap \in Heaps /\ setting \in Settings
  /\ is_valid \in BOOLEAN /\ throwing \in BOOLEAN
  /\ roots \subseteq DOMAIN heap /\ expanded \subseteq DOMAIN heap
  /\ StackOK(stack)
  /\ in_progress = GuardedIn(stack) /\ Distinct(stack)
  /\ recursion_depth = Depth(stack)
  /\ max_recursion_depth \in {2, setting.max_recursion_depth}
  /\ throwing => ~setting.knows_code
  /\ max_recursion_depth = Limit(stack) \/ (throwing /\ NoneCatches(stack))
  /\ Nesting(stack)

----------------------------------------------------------------------------
(* Induction: a set of natural numbers that is not empty has a least one. *)

LEMMA LeastNat ==
  ASSUME NEW T \in SUBSET Nat, T # {}
  PROVE  \E n \in T : \A m \in T : n <= m
<1> DEFINE R == OpToRel(<, Nat)
<1>1. IsWellFoundedOn(R, Nat)
  BY NatLessThanWellFounded
<1>2. \A m, n \in Nat : <<m, n>> \in R <=> m < n
  BY DEF OpToRel
<1> HIDE DEF R
<1>3. PICK n \in T : \A m \in T : ~(<<m, n>> \in R)
  BY <1>1, WFMin
<1>4. ASSUME NEW m \in T PROVE n <= m
  <2>1. m \in Nat /\ n \in Nat /\ ~(m < n)
    BY <1>2, <1>3
  <2>. QED
    BY <2>1
<1>. QED
  BY <1>4

----------------------------------------------------------------------------
(* Sequences. *)

LEMMA SeqIsSeq ==
  ASSUME NEW S, NEW s \in Seq(S)
  PROVE  /\ IsSeq(s)
         /\ Len(s) \in Nat
         /\ s # <<>> <=> Len(s) > 0
         /\ \A i \in 1 .. Len(s) : s[i] \in S
<1>1. Len(s) \in Nat /\ DOMAIN s = 1 .. Len(s) /\ s \in [1 .. Len(s) -> S]  BY LenProperties
<1>2. s \in [1 .. Len(s) -> Elements(s)]  BY <1>1 DEF Elements
<1>3. s \in Seq(Elements(s))  BY <1>1, <1>2, SeqDef
<1>4. s # <<>> <=> Len(s) > 0  BY <1>1, EmptySeq
<1>. QED BY <1>1, <1>3, <1>4 DEF IsSeq

\* A call puts an activation on top of the others.
LEMMA AppendSeq ==
  ASSUME NEW s, IsSeq(s), NEW x
  PROVE  /\ IsSeq(Append(s, x))
         /\ Len(s) \in Nat
         /\ Len(Append(s, x)) = Len(s) + 1
         /\ Append(s, x)[Len(s) + 1] = x
         /\ \A i \in 1 .. Len(s) : Append(s, x)[i] = s[i]
<1> DEFINE S == Elements(s) \cup {x}
<1>1. s \in Seq(S)  BY SeqMonotonic DEF IsSeq
<1>2. Append(s, x) \in Seq(S)  BY <1>1
<1>3. Len(s) \in Nat  BY <1>1, LenProperties
<1>4. IsSeq(Append(s, x))  BY <1>2, SeqIsSeq
<1>. QED BY <1>1, <1>3, <1>4

LEMMA AppendElements ==
  ASSUME NEW s, IsSeq(s), NEW x
  PROVE  IsSeq(Append(s, x)) /\ Elements(Append(s, x)) = Elements(s) \cup {x}
<1> DEFINE t == Append(s, x)
<1>1. /\ IsSeq(t) /\ Len(s) \in Nat /\ Len(t) = Len(s) + 1 /\ t[Len(s) + 1] = x
      /\ \A i \in 1 .. Len(s) : t[i] = s[i]
  BY AppendSeq
<1>. HIDE DEF t
<1>2. 1 .. Len(t) = 1 .. Len(s) \cup {Len(s) + 1}  BY <1>1
<1>3. Elements(t) = Elements(s) \cup {x}  BY <1>1, <1>2 DEF Elements
<1>. QED BY <1>1, <1>3 DEF t

\* A return takes the top activation away.
LEMMA FrontSeq ==
  ASSUME NEW s, IsSeq(s), s # <<>>
  PROVE  LET f == SubSeq(s, 1, Len(s) - 1)
         IN /\ Len(s) \in Nat \ {0}
            /\ IsSeq(f)
            /\ Len(f) = Len(s) - 1
            /\ \A i \in 1 .. Len(s) - 1 : f[i] = s[i]
<1> DEFINE S == Elements(s)
           f == SubSeq(s, 1, Len(s) - 1)
<1>1. s \in Seq(S)  BY DEF IsSeq
<1>2. Len(s) \in Nat /\ Len(s) > 0  BY <1>1, EmptySeq, LenProperties
<1>3. \A i \in 1 .. Len(s) - 1 : s[i] \in S  BY <1>1, <1>2, ElementOfSeq
<1>4. ASSUME NEW n \in Nat, n = Len(s) - 1
      PROVE  f \in Seq(S) /\ Len(f) = n /\ \A i \in 1 .. n : f[i] = s[i]
  <2>1. f = SubSeq(s, 1, n)  BY <1>4
  <2>2. \A i \in 1 .. n : s[i] \in S  BY <1>3, <1>4
  <2>3. /\ SubSeq(s, 1, n) \in Seq(S)
        /\ Len(SubSeq(s, 1, n)) = IF 1 <= n THEN n - 1 + 1 ELSE 0
        /\ \A i \in 1 .. n - 1 + 1 : SubSeq(s, 1, n)[i] = s[1 + i - 1]
    BY <2>2, SubSeqProperties
  <2>. QED BY <2>1, <2>3
<1>5. Len(s) - 1 \in Nat  BY <1>2
<1>6. f \in Seq(S) /\ Len(f) = Len(s) - 1 /\ \A i \in 1 .. Len(s) - 1 : f[i] = s[i]
  BY <1>4, <1>5
<1>7. IsSeq(f)  BY <1>6, SeqIsSeq
<1>. QED BY <1>2, <1>6, <1>7

\* The parts that are left when one is over.
LEMMA TailSeq ==
  ASSUME NEW s, IsSeq(s), s # <<>>
  PROVE  /\ Len(s) \in Nat \ {0}
         /\ Head(s) = s[1]
         /\ IsSeq(Tail(s))
         /\ Len(Tail(s)) = Len(s) - 1
         /\ \A i \in 1 .. Len(s) - 1 : Tail(s)[i] = s[i + 1]
<1>1. s \in Seq(Elements(s))  BY DEF IsSeq
<1>2. Len(s) \in Nat \ {0}  BY <1>1, EmptySeq, LenProperties
<1>3. Tail(s) \in Seq(Elements(s))  BY <1>1, HeadTailProperties
<1>4. IsSeq(Tail(s))  BY <1>3, SeqIsSeq
<1>. QED BY <1>1, <1>2, <1>4, HeadTailProperties

\* The parts when an item of the first is taken.
LEMMA HeadReplaced ==
  ASSUME NEW s, IsSeq(s), s # <<>>, NEW x
  PROVE  LET r == <<x>> \o Tail(s)
         IN /\ IsSeq(r)
            /\ Len(r) = Len(s)
            /\ r[1] = x
            /\ \A i \in 2 .. Len(s) : r[i] = s[i]
<1> DEFINE S == Elements(s) \cup {x}
           r == <<x>> \o Tail(s)
<1>1. s \in Seq(S)  BY SeqMonotonic DEF IsSeq
<1>2. <<x>> \in Seq(S) /\ Len(<<x>>) = 1 /\ <<x>>[1] = x  OBVIOUS
<1>3. Tail(s) \in Seq(S)  BY <1>1, HeadTailProperties
<1>4. /\ Len(s) \in Nat \ {0} /\ Len(Tail(s)) = Len(s) - 1
      /\ \A i \in 1 .. Len(s) - 1 : Tail(s)[i] = s[i + 1]
  BY TailSeq
<1>5. /\ r \in Seq(S)
      /\ Len(r) = Len(<<x>>) + Len(Tail(s))
      /\ \A i \in 1 .. Len(<<x>>) + Len(Tail(s)) :
           r[i] = IF i <= Len(<<x>>) THEN <<x>>[i] ELSE Tail(s)[i - Len(<<x>>)]
  BY <1>2, <1>3, ConcatProperties
<1>6. IsSeq(r)  BY <1>5, SeqIsSeq
<1>7. Len(r) = Len(s) /\ r[1] = x  BY <1>2, <1>4, <1>5
<1>8. \A i \in 2 .. Len(s) : r[i] = s[i]  BY <1>2, <1>4, <1>5
<1>. QED BY <1>6, <1>7, <1>8

----------------------------------------------------------------------------
(* Stacks. *)

\* A sequence is what is below its last element, and that element.
LEMMA FrontAndLast ==
  ASSUME NEW s, IsSeq(s), s # <<>>
  PROVE  s = Append(SubSeq(s, 1, Len(s) - 1), s[Len(s)])
<1> DEFINE f == SubSeq(s, 1, Len(s) - 1)
           t == Append(f, s[Len(s)])
<1>1. /\ Len(s) \in Nat \ {0} /\ IsSeq(f) /\ Len(f) = Len(s) - 1
      /\ \A i \in 1 .. Len(s) - 1 : f[i] = s[i]
  BY FrontSeq
<1>. HIDE DEF f
<1>2. /\ IsSeq(t) /\ Len(t) = Len(s)
      /\ t[Len(s)] = s[Len(s)] /\ \A i \in 1 .. Len(s) - 1 : t[i] = s[i]
  BY <1>1, AppendSeq
<1>3. \A i \in 1 .. Len(s) : t[i] = s[i]  BY <1>1, <1>2
<1>4. s \in Seq(Elements(s)) /\ t \in Seq(Elements(t))  BY <1>2 DEF IsSeq
<1>5. Elements(t) = Elements(s)  BY <1>2, <1>3 DEF Elements
<1>6. s = t
  <2>. HIDE DEF t
  <2>. QED BY <1>2, <1>3, <1>4, <1>5, SeqEqual
<1>. QED BY <1>6 DEF f

\* One more index, if it has the property.
LEMMA OneMore ==
  ASSUME NEW n \in Nat, NEW A, A \subseteq 1 .. n, NEW B, NEW b \in {0, 1},
         B = IF b = 1 THEN A \cup {n + 1} ELSE A
  PROVE  Cardinality(A) \in Nat /\ Cardinality(B) = Cardinality(A) + b
<1>1. IsFiniteSet(1 .. n)  BY FS_Interval
<1>2. IsFiniteSet(A)  BY <1>1, FS_Subset
<1>3. n + 1 \notin A  OBVIOUS
<1>4. Cardinality(A) \in Nat  BY <1>2, FS_CardinalityType
<1>5. Cardinality(A \cup {n + 1}) = Cardinality(A) + 1  BY <1>2, <1>3, FS_AddElement
<1>. QED BY <1>4, <1>5

\* What an activation adds to the stack below it.
LEMMA AppendStack ==
  ASSUME NEW s, StackOK(s), NEW a, IsActivation(a), ~a.guarded => Bare(a),
         heap[a.obj].kind = "type" => GuardedIn(s) = {} /\ (NamesOK => s = <<>>)
  PROVE  LET t == Append(s, a)
         IN /\ StackOK(t) /\ t # <<>>
            /\ GuardedIn(t) = GuardedIn(s) \cup (IF a.guarded THEN {a.obj} ELSE {})
            /\ Cardinality(Indented(s)) \in Nat
            /\ Cardinality(InIndentedPart(s)) \in Nat
            /\ Cardinality(Indented(t)) = Cardinality(Indented(s)) + a.indent
            /\ Cardinality(InIndentedPart(t)) =
                 Cardinality(InIndentedPart(s)) + a.parts[1].indent
            /\ Limits(t) <=> Limits(s) \/ a.parts[1].limits
            /\ HasType(t) <=> HasType(s) \/ heap[a.obj].kind = "type"
<1> DEFINE t == Append(s, a)
           n == Len(s)
<1>1. IsSeq(s)  BY DEF StackOK
<1>2. /\ IsSeq(t) /\ n \in Nat /\ Len(t) = n + 1 /\ t[n + 1] = a
      /\ \A i \in 1 .. n : t[i] = s[i]
  BY <1>1, AppendSeq
<1>3. t # <<>> /\ (s # <<>> <=> n > 0)
  <2>1. s # <<>> <=> n > 0  BY <1>1, SeqIsSeq DEF IsSeq
  <2>2. t # <<>> <=> Len(t) > 0
    <3>. HIDE DEF t
    <3>. QED BY <1>2, SeqIsSeq DEF IsSeq
  <2>3. Len(t) > 0
    <3>. HIDE DEF t
    <3>. QED BY <1>2
  <2>. QED BY <2>1, <2>2, <2>3
<1>. HIDE DEF t
<1>4. StackOK(t)
  <2>. SUFFICES ASSUME NEW i \in 1 .. Len(t)
                PROVE  /\ IsActivation(t[i])
                       /\ ~t[i].guarded => Bare(t[i])
                       /\ heap[t[i].obj].kind = "type" =>
                            (\A j \in 1 .. i - 1 : ~t[j].guarded) /\ (NamesOK => i = 1)
    BY <1>2 DEF StackOK
  <2>1. CASE i \in 1 .. n
    <3>1. t[i] = s[i] /\ \A j \in 1 .. i - 1 : t[j] = s[j]  BY <1>2, <2>1
    <3>. QED BY <2>1, <3>1 DEF StackOK
  <2>2. CASE i = n + 1
    <3>1. t[i] = a /\ \A j \in 1 .. i - 1 : j \in 1 .. n /\ t[j] = s[j]  BY <1>2, <2>2
    <3>2. heap[a.obj].kind = "type" => \A j \in 1 .. n : ~s[j].guarded  BY DEF GuardedIn
    <3>3. heap[a.obj].kind = "type" /\ NamesOK => i = 1  BY <1>2, <1>3, <2>2
    <3>. QED BY <3>1, <3>2, <3>3
  <2>. QED BY <2>1, <2>2, <1>2
<1>5. GuardedIn(t) = GuardedIn(s) \cup (IF a.guarded THEN {a.obj} ELSE {})
  <2>1. 1 .. Len(t) = 1 .. n \cup {n + 1}  BY <1>2
  <2>. QED BY <2>1, <1>2 DEF GuardedIn
<1>6. /\ Indented(s) \subseteq 1 .. n /\ a.indent \in {0, 1}
      /\ Indented(t) = IF a.indent = 1 THEN Indented(s) \cup {n + 1} ELSE Indented(s)
  <2>1. 1 .. Len(t) = 1 .. n \cup {n + 1}  BY <1>2
  <2>2. a.indent \in {0, 1}  BY DEF IsActivation, Indent
  <2>. QED BY <2>1, <2>2, <1>2 DEF Indented
<1>7. /\ InIndentedPart(s) \subseteq 1 .. n /\ a.parts[1].indent \in {0, 1}
      /\ InIndentedPart(t) = IF a.parts[1].indent = 1 THEN InIndentedPart(s) \cup {n + 1}
                             ELSE InIndentedPart(s)
  <2>1. 1 .. Len(t) = 1 .. n \cup {n + 1}  BY <1>2
  <2>2. 1 \in 1 .. Len(a.parts)  BY SeqIsSeq DEF IsActivation, IsParts, IsSeq
  <2>3. a.parts[1].indent \in {0, 1}  BY <2>2 DEF IsActivation, IsParts, IsPart
  <2>. QED BY <2>1, <2>3, <1>2 DEF InIndentedPart
<1>8. /\ Cardinality(Indented(s)) \in Nat
      /\ Cardinality(Indented(t)) = Cardinality(Indented(s)) + a.indent
  BY <1>2, <1>6, OneMore
<1>9. /\ Cardinality(InIndentedPart(s)) \in Nat
      /\ Cardinality(InIndentedPart(t)) = Cardinality(InIndentedPart(s)) + a.parts[1].indent
  <2>1. n \in Nat  BY <1>2
  <2>. QED BY <2>1, <1>7, OneMore
<1>10. /\ Limits(t) <=> Limits(s) \/ a.parts[1].limits
       /\ HasType(t) <=> HasType(s) \/ heap[a.obj].kind = "type"
  <2>1. 1 .. Len(t) = 1 .. n \cup {n + 1}  BY <1>2
  <2>. QED BY <2>1, <1>2 DEF Limits, HasType
<1>. QED BY <1>3, <1>4, <1>5, <1>8, <1>9, <1>10 DEF t

\* Types and what indents have a guard.
LEMMA NoneGuarded ==
  ASSUME NEW s, StackOK(s), GuardedIn(s) = {}
  PROVE  ~Limits(s) /\ ~HasType(s) /\ Indented(s) = {}
<1>1. ASSUME NEW i \in 1 .. Len(s)
      PROVE  ~s[i].parts[1].limits /\ heap[s[i].obj].kind # "type" /\ s[i].indent # 1
  <2>1. IsActivation(s[i]) /\ ~s[i].guarded  BY <1>1 DEF StackOK, GuardedIn
  <2>2. 1 \in 1 .. Len(s[i].parts)  BY <2>1, SeqIsSeq DEF IsActivation, IsParts, IsSeq
  <2>3. ~Guarded(s[i].obj) /\ s[i].indent = Indent(s[i].obj)  BY <2>1 DEF IsActivation
  <2>4. heap[s[i].obj].kind # "type" /\ s[i].indent # 1  BY <2>3 DEF Guarded, Indent
  <2>5. ~s[i].parts[1].limits  BY <2>1, <2>2, <2>4 DEF IsActivation
  <2>. QED BY <2>4, <2>5
<1>. QED BY <1>1 DEF Limits, HasType, Indented

\* A guarded activation of an object that is not in progress keeps it so.
LEMMA AppendDistinct ==
  ASSUME NEW s, IsSeq(s), Distinct(s), NEW a, a.guarded => a.obj \notin GuardedIn(s)
  PROVE  Distinct(Append(s, a))
<1> DEFINE t == Append(s, a)
           n == Len(s)
<1>1. /\ n \in Nat /\ Len(t) = n + 1 /\ t[n + 1] = a
      /\ \A i \in 1 .. n : t[i] = s[i]
  BY AppendSeq
<1>. HIDE DEF t
<1>2. SUFFICES ASSUME NEW i \in 1 .. n + 1, NEW j \in 1 .. n + 1,
                      i # j, t[i].guarded, t[j].guarded
               PROVE  t[i].obj # t[j].obj
  BY <1>1 DEF Distinct, t
<1>3. CASE i \in 1 .. n /\ j \in 1 .. n  BY <1>1, <1>2, <1>3 DEF Distinct
<1>4. CASE i = n + 1 /\ j \in 1 .. n  BY <1>1, <1>2, <1>4 DEF GuardedIn
<1>5. CASE i \in 1 .. n /\ j = n + 1  BY <1>1, <1>2, <1>5 DEF GuardedIn
<1>. QED BY <1>1, <1>2, <1>3, <1>4, <1>5

\* The stack below its top.
LEMMA PopStack ==
  ASSUME NEW s, StackOK(s), Distinct(s), s # <<>>
  PROVE  LET f == SubSeq(s, 1, Len(s) - 1)
             a == s[Len(s)]
         IN /\ s = Append(f, a)
            /\ StackOK(f) /\ Distinct(f)
            /\ IsActivation(a)
            /\ ~a.guarded => Bare(a)
            /\ heap[a.obj].kind = "type" => GuardedIn(f) = {} /\ (NamesOK => f = <<>>)
            /\ a.guarded => a.obj \notin GuardedIn(f)
<1> DEFINE f == SubSeq(s, 1, Len(s) - 1)
           a == s[Len(s)]
<1>1. IsSeq(s)  BY DEF StackOK
<1>2. s = Append(f, a)  BY <1>1, FrontAndLast
<1>3. /\ Len(s) \in Nat \ {0} /\ IsSeq(f) /\ Len(f) = Len(s) - 1
      /\ \A i \in 1 .. Len(s) - 1 : f[i] = s[i]
  BY <1>1, FrontSeq
<1>. HIDE DEF f
<1>4. StackOK(f)
  <2>1. \A i \in 1 .. Len(f) : /\ i \in 1 .. Len(s) /\ f[i] = s[i]
                               /\ \A j \in 1 .. i - 1 : f[j] = s[j]
    BY <1>3
  <2>. QED BY <1>3, <2>1 DEF StackOK
<1>5. Distinct(f)  BY <1>3 DEF Distinct
<1>6. /\ IsActivation(a) /\ (~a.guarded => Bare(a))
      /\ heap[a.obj].kind = "type" =>
           (\A j \in 1 .. Len(s) - 1 : ~s[j].guarded) /\ (NamesOK => Len(s) = 1)
  BY <1>3 DEF StackOK
<1>61. (\A j \in 1 .. Len(s) - 1 : ~s[j].guarded) => GuardedIn(f) = {}
  BY <1>3 DEF GuardedIn
<1>7. ASSUME Len(s) = 1 PROVE f = <<>>
  <2>1. f \in Seq(Elements(f)) /\ Len(f) = 0  BY <1>3, <1>7 DEF IsSeq
  <2>. QED BY <2>1, SeqIsSeq
<1>8. ASSUME a.guarded, a.obj \in GuardedIn(f) PROVE FALSE
  <2>1. PICK i \in 1 .. Len(f) : f[i].guarded /\ f[i].obj = a.obj  BY <1>8 DEF GuardedIn
  <2>2. i \in 1 .. Len(s) /\ i # Len(s) /\ Len(s) \in 1 .. Len(s) /\ s[i] = f[i]  BY <1>3, <2>1
  <2>. QED BY <1>8, <2>1, <2>2 DEF Distinct
<1>. QED BY <1>2, <1>4, <1>5, <1>6, <1>61, <1>7, <1>8 DEF f

----------------------------------------------------------------------------
(* What repr prints. *)

\* Items: the fields and the entries that repr prints are sequences.
LEMMA ShortSeq ==
  /\ IsSeq(<<>>)
  /\ \A x : IsSeq(<<x>>)
<1>1. <<>> \in Seq({})  OBVIOUS
<1>2. ASSUME NEW x PROVE IsSeq(<<x>>)
  <2>1. <<x>> \in Seq({x})  OBVIOUS
  <2>. QED BY <2>1, SeqIsSeq
<1>. QED BY <1>1, <1>2, SeqIsSeq

LEMMA JoinSeq ==
  ASSUME NEW s, IsSeq(s), NEW t, IsSeq(t)
  PROVE  IsSeq(s \o t)
<1> DEFINE S == Elements(s) \cup Elements(t)
<1>1. s \in Seq(S) /\ t \in Seq(S)  BY SeqMonotonic DEF IsSeq
<1>2. s \o t \in Seq(S)  BY <1>1, ConcatProperties
<1>. QED BY <1>2, SeqIsSeq

LEMMA FieldsSeq ==
  ASSUME NEW o, NEW names, Len(names) \in Nat, DOMAIN names = 1 .. Len(names)
  PROVE  IsSeq(Fields(o, names))
<1> DEFINE S == {Ref(o, names[i]) : i \in 1 .. Len(names)}
<1>2. Fields(o, names) = [i \in 1 .. Len(names) |-> Ref(o, names[i])]  BY DEF Fields
<1>3. Fields(o, names) \in [1 .. Len(names) -> S]  BY <1>2
<1>4. Fields(o, names) \in Seq(S)  BY <1>3, SeqDef
<1>. QED BY <1>4, SeqIsSeq

LEMMA ItemsSeq ==
  ASSUME heap \in Heaps, NEW o \in DOMAIN heap
  PROVE  IsSeq(heap[o].items)
<1>1. heap[o].items \in Seq(Nat)  BY HeapsAssumption
<1>. QED BY <1>1, SeqIsSeq

LEMMA FirstSeq ==
  ASSUME NEW s, IsSeq(s), NEW n \in Int
  PROVE  IsSeq(FirstEntries(s, n))
<1>1. s \in Seq(Elements(s)) /\ Len(s) \in Nat  BY LenProperties DEF IsSeq
<1>2. CASE n >= 0 /\ n < Len(s)
  <2>1. \A i \in 1 .. n : s[i] \in Elements(s)  BY <1>1, <1>2 DEF Elements
  <2>2. SubSeq(s, 1, n) \in Seq(Elements(s))  BY <1>2, <2>1, SubSeqProperties
  <2>. QED BY <1>2, <2>2, SeqIsSeq DEF FirstEntries
<1>3. CASE ~(n >= 0 /\ n < Len(s))  BY <1>3 DEF FirstEntries
<1>. QED BY <1>2, <1>3

LEMMA GeneratorSeq ==
  ASSUME NEW o
  PROVE  IsSeq(GeneratorItems(o))
BY FieldsSeq DEF GeneratorItems

LEMMA FutureSeq ==
  ASSUME NEW o
  PROVE  IsSeq(FutureItems(o))
<1>1. CASE setting.is_short  BY <1>1, FieldsSeq DEF FutureItems
<1>2. CASE ~setting.is_short  BY <1>2, FieldsSeq DEF FutureItems
<1>. QED BY <1>1, <1>2

\* The table of names of a valid frame's code is one.
LEMMA LocalsSeq ==
  ASSUME heap \in Heaps, NEW f \in DOMAIN heap, FrameCheck(f) = "ok"
  PROVE  IsSeq(LocalItems(f))
<1>1. CASE Ref(f, "f_code") = Null  BY <1>1, ShortSeq DEF LocalItems
<1>2. CASE Ref(f, "f_code") # Null
  <2> DEFINE names == Ref(Ref(f, "f_code"), "co_varnames")
  <2>1. IsA(names, "tuple")  BY <1>2 DEF FrameCheck
  <2>2. names \in DOMAIN heap  BY <2>1 DEF IsA, HeaderOK, Readable
  <2>3. Varnames(f) \in Seq(Nat)  BY <2>2, HeapsAssumption DEF Varnames
  <2>4. Len(Varnames(f)) \in Nat  BY <2>3, LenProperties
  <2> DEFINE n == 2 * Len(Varnames(f))
             x(i) == IF i % 2 = 1 THEN Varnames(f)[(i + 1) \div 2] ELSE heap[f].items[i \div 2]
             s == [i \in 1 .. n |-> x(i)]
             S == {x(i) : i \in 1 .. n}
  <2>5. n \in Nat  BY <2>4
  <2>6. LocalItems(f) = s  BY <1>2 DEF LocalItems
  <2>. HIDE DEF n, x
  <2>7. s \in [1 .. n -> S]  OBVIOUS
  <2>8. s \in Seq(S)  BY <2>5, <2>7, SeqDef
  <2>. QED BY <2>6, <2>8, SeqIsSeq
<1>. QED BY <1>1, <1>2

\* Leaving out the null entries leaves the others.
WithoutNulls(s, f, i) ==
  IF i = 0 THEN <<>> ELSE IF s[i] = Null THEN f[i - 1] ELSE Append(f[i - 1], s[i])

LEMMA NonNullSolution ==
  ASSUME NEW s \in Seq(Nat)
  PROVE  \E f : f = [i \in 0 .. Len(s) |-> WithoutNulls(s, f, i)]
<1> DEFINE n == Len(s)
           Solves(f, m) == f = [i \in 0 .. m |-> WithoutNulls(s, f, i)]
           Bad == {m \in 0 .. n : ~ \E f : Solves(f, m)}
<1>1. n \in Nat  BY LenProperties
<1>2. SUFFICES ASSUME Bad # {} PROVE FALSE
  <2>1. n \notin Bad /\ n \in 0 .. n  BY <1>1, <1>2
  <2>. QED BY <2>1
<1>3. PICK m \in Bad : \A k \in Bad : m <= k
  <2>1. Bad \in SUBSET Nat  BY <1>1
  <2>. HIDE DEF Bad
  <2>. QED BY <1>2, <2>1, LeastNat
<1>4. m \in 0 .. n /\ ~ \E f : Solves(f, m)  OBVIOUS
<1>5. CASE m = 0
  <2> DEFINE f == [i \in 0 .. m |-> <<>>]
  <2>1. \A i \in 0 .. m : WithoutNulls(s, f, i) = <<>>  BY <1>5 DEF WithoutNulls
  <2>. HIDE DEF f
  <2>2. Solves(f, m)  BY <2>1 DEF f
  <2>. QED BY <1>4, <2>2
<1>6. CASE m # 0
  <2>1. m - 1 \in 0 .. n /\ m \in Nat /\ ~(m <= m - 1)  BY <1>1, <1>4, <1>6
  <2>2. m - 1 \notin Bad  BY <1>3, <2>1
  <2>3. PICK g : Solves(g, m - 1)  BY <2>1, <2>2
  <2> DEFINE h == [i \in 0 .. m |-> WithoutNulls(s, g, i)]
  <2>4. \A i \in 0 .. (m - 1) : h[i] = g[i]
    <3>1. \A i \in 0 .. (m - 1) : i \in 0 .. m  BY <2>1
    <3>2. \A i \in 0 .. (m - 1) : g[i] = WithoutNulls(s, g, i)  BY <2>3
    <3>. QED BY <3>1, <3>2
  <2>. HIDE DEF h
  <2>5. ASSUME NEW i \in 0 .. m PROVE WithoutNulls(s, h, i) = WithoutNulls(s, g, i)
    <3>1. i = 0 \/ i - 1 \in 0 .. (m - 1)  BY <2>1
    <3>2. i = 0 \/ h[i - 1] = g[i - 1]  BY <2>4, <3>1
    <3>. QED BY <3>2 DEF WithoutNulls
  <2>6. Solves(h, m)  BY <2>5 DEF h
  <2>. QED BY <1>4, <2>6
<1>. QED BY <1>5, <1>6

LEMMA NonNullItems ==
  ASSUME NEW s \in Seq(Nat)
  PROVE  IsSeq(NonNull(s)) /\ Elements(NonNull(s)) = Elements(s) \ {Null}
<1> DEFINE n == Len(s)
           f == CHOOSE f : f = [i \in 0 .. n |-> WithoutNulls(s, f, i)]
           Among(i) == {s[j] : j \in 1 .. i} \ {Null}
           Right(i) == IsSeq(f[i]) /\ Elements(f[i]) = Among(i)
           Wrong == {i \in 0 .. n : ~Right(i)}
<1>1. n \in Nat  BY LenProperties
<1>2. NonNull(s) = f[n]  BY Zenon DEF NonNull, WithoutNulls
<1>3. f = [i \in 0 .. n |-> WithoutNulls(s, f, i)]  BY NonNullSolution
<1>. HIDE DEF f
<1>4. \A i \in 0 .. n : f[i] = WithoutNulls(s, f, i)  BY <1>3
<1>5. Wrong = {}
  <2>1. SUFFICES ASSUME Wrong # {} PROVE FALSE  OBVIOUS
  <2>2. PICK i \in Wrong : \A k \in Wrong : i <= k
    <3>1. Wrong \in SUBSET Nat  BY <1>1
    <3>. HIDE DEF Wrong
    <3>. QED BY <2>1, <3>1, LeastNat
  <2>3. i \in 0 .. n /\ ~Right(i) /\ i \in Nat  BY <1>1
  <2>4. CASE i = 0
    <3>1. f[i] = <<>>  BY <1>4, <2>3, <2>4 DEF WithoutNulls
    <3>2. 1 .. i = {}  BY <2>4
    <3>3. 1 .. Len(<<>>) = {}  OBVIOUS
    <3>4. Right(i)  BY <3>1, <3>2, <3>3, ShortSeq DEF Elements
    <3>. QED BY <2>3, <3>4
  <2>5. CASE i # 0
    <3>1. i - 1 \in 0 .. n /\ ~(i <= i - 1)  BY <1>1, <2>3, <2>5
    <3>2. Right(i - 1)
      <4>1. i - 1 \notin Wrong  BY <2>2, <3>1
      <4>. QED BY <3>1, <4>1
    <3>3. 1 .. i = 1 .. (i - 1) \cup {i}  BY <2>3, <2>5
    <3>4. Among(i) = Among(i - 1) \cup ({s[i]} \ {Null})  BY <3>3
    <3> DEFINE g == f[i - 1]
    <3>5. IsSeq(g) /\ Elements(g) = Among(i - 1)  BY <3>2
    <3>6. f[i] = IF s[i] = Null THEN g ELSE Append(g, s[i])
      BY <1>4, <2>3, <2>5 DEF WithoutNulls
    <3>. HIDE DEF g, Among
    <3>7. Right(i)
      <4>1. CASE s[i] = Null  BY <3>4, <3>5, <3>6, <4>1
      <4>2. CASE s[i] # Null
        <5>1. IsSeq(Append(g, s[i])) /\ Elements(Append(g, s[i])) = Elements(g) \cup {s[i]}
          BY <3>5, AppendElements
        <5>. QED BY <3>4, <3>5, <3>6, <4>2, <5>1
      <4>. QED BY <4>1, <4>2
    <3>. QED BY <2>3, <3>7
  <2>. QED BY <2>4, <2>5
<1>6. Right(n)
  <2>1. n \in 0 .. n  BY <1>1
  <2>2. n \notin Wrong
    <3>. HIDE DEF Wrong
    <3>. QED BY <1>5
  <2>. QED BY <2>1, <2>2
<1>. QED BY <1>2, <1>6 DEF Elements

LEMMA PlainSeqs ==
  ASSUME heap \in Heaps, setting \in Settings, NEW o \in DOMAIN heap, NEW r
  PROVE  /\ IsSeq(TupleItems(o)) /\ IsSeq(ListItems(o)) /\ IsSeq(SetItems(o)) /\ IsSeq(DictItems(o))
         /\ IsSeq(Fields(o, <<"ob_ref">>)) /\ IsSeq(CodeItems(o, r))
         /\ IsSeq(GeneratorItems(o)) /\ IsSeq(GeneratorItems(o) \o Fields(o, <<"ag_finalizer">>))
         /\ IsSeq(FutureItems(o)) /\ IsSeq(TaskItems(o)) /\ IsSeq(ThreadItems(o))
<1>1. setting.max_entries \in Int /\ 2 * setting.max_entries \in Int
  BY SettingsAssumption
<1>2. IsSeq(TupleItems(o)) /\ IsSeq(ListItems(o)) /\ IsSeq(DictItems(o))
  BY <1>1, ItemsSeq, FirstSeq DEF TupleItems, ListItems, DictItems
<1>3. IsSeq(SetItems(o))
  <2>1. heap[o].items \in Seq(Nat)  BY HeapsAssumption
  <2>2. IsSeq(NonNull(heap[o].items))  BY <2>1, NonNullItems
  <2>. QED BY <1>1, <2>2, FirstSeq DEF SetItems
<1>4. IsSeq(Fields(o, <<"ob_ref">>))  BY FieldsSeq
<1>5. IsSeq(CodeItems(o, r))
  <2> DEFINE first == <<"co_name", "co_filename">>
             others == <<"co_code", "co_consts", "co_names", "co_varnames", "co_linetable",
                         "co_weakreflist">>
             N == {"co_name", "co_filename", "co_code", "co_consts", "co_names", "co_varnames",
                   "co_linetable", "co_weakreflist"}
  <2>1. first \in Seq(N) /\ others \in Seq(N) /\ <<>> \in Seq(N)  OBVIOUS
  <2>2. CodeItems(o, r) = Fields(o, first \o (IF r THEN others ELSE <<>>))  BY DEF CodeItems
  <2>. HIDE DEF first, others, N
  <2>3. first \o (IF r THEN others ELSE <<>>) \in Seq(N)  BY <2>1, ConcatProperties
  <2>. QED BY <2>2, <2>3, LenProperties, FieldsSeq
<1>6. IsSeq(GeneratorItems(o)) /\ IsSeq(GeneratorItems(o) \o Fields(o, <<"ag_finalizer">>))
  <2>1. IsSeq(Fields(o, <<"ag_finalizer">>))  BY FieldsSeq
  <2>. QED BY <2>1, GeneratorSeq, JoinSeq
<1>7. IsSeq(FutureItems(o)) /\ IsSeq(TaskItems(o))
  <2> DEFINE names == IF setting.is_short THEN <<"task_coro">>
                      ELSE <<"task_coro", "task_fut_waiter", "task_name", "task_context">>
  <2>1. Len(names) \in Nat /\ DOMAIN names = 1 .. Len(names)
    <3>1. CASE setting.is_short  BY <3>1
    <3>2. CASE ~setting.is_short  BY <3>2
    <3>. QED BY <3>1, <3>2
  <2>. HIDE DEF names
  <2>2. IsSeq(Fields(o, names))  BY <2>1, FieldsSeq
  <2>3. IsSeq(FutureItems(o) \o Fields(o, names))  BY <2>2, FutureSeq, JoinSeq
  <2>. QED BY <2>3, FutureSeq DEF TaskItems, names
<1>8. IsSeq(ThreadItems(o))
  <2> DEFINE curexc == Fields(o, <<"curexc_type", "curexc_value", "curexc_traceback">>)
             x == Fields(o, <<"frame", "c_profileobj", "c_traceobj">>)
             y == IF Null \in ToSet(curexc) THEN <<>> ELSE curexc
             z == Fields(o, <<"async_exc", "dict", "context">>)
  <2>1. IsSeq(curexc) /\ IsSeq(x) /\ IsSeq(z)  BY FieldsSeq
  <2>2. ThreadItems(o) = x \o y \o z  BY DEF ThreadItems
  <2>. HIDE DEF curexc, x, z
  <2>3. IsSeq(y)  BY <2>1, ShortSeq
  <2>. HIDE DEF y
  <2>. QED BY <2>1, <2>2, <2>3, JoinSeq
<1>. QED BY <1>2, <1>3, <1>4, <1>5, <1>6, <1>7, <1>8

LEMMA PlainIsPart ==
  ASSUME NEW items, IsSeq(items)
  PROVE  /\ IsPart(Plain(items)) /\ Plain(items).indent = 0 /\ ~Plain(items).limits
         /\ IsPart(Caught(items)) /\ Caught(items).indent = 0 /\ ~Caught(items).limits
         /\ IsPart(Limited(items))
BY DEF Plain, Caught, Limited, IsPart

\* What a new activation has to print: it starts without an indent or a limit.
Fresh(o, ps) ==
  /\ IsParts(ps)
  /\ ps[1].indent = 0 /\ ~ps[1].limits
  /\ \A i \in 1 .. Len(ps) : ps[i].limits => heap[o].kind = "type"

LEMMA FreshParts ==
  ASSUME NEW o, NEW S, NEW ps \in Seq(S), ps # <<>>, ps[1].indent = 0, ~ps[1].limits,
         \A p \in S : IsPart(p) /\ (p.limits => heap[o].kind = "type"),
         ~ps[Len(ps)].limits
  PROVE  Fresh(o, ps)
<1>1. IsSeq(ps) /\ Len(ps) > 0 /\ \A i \in 1 .. Len(ps) : ps[i] \in S  BY SeqIsSeq
<1>. QED BY <1>1 DEF Fresh, IsParts

LEMMA FreshPlain ==
  ASSUME NEW o, NEW items, IsSeq(items)
  PROVE  Fresh(o, <<Plain(items)>>)
<1> DEFINE ps == <<Plain(items)>>
<1>1. ps \in Seq({Plain(items)}) /\ ps # <<>> /\ Len(ps) = 1 /\ ps[1] = Plain(items)  OBVIOUS
<1>. HIDE DEF ps
<1>2. Fresh(o, ps)  BY <1>1, PlainIsPart, FreshParts
<1>. QED BY <1>2 DEF ps

LEMMA FreshCoroutine ==
  ASSUME NEW o
  PROVE  Fresh(o, CoroutineParts(o))
<1>1. CASE ~setting.is_short
  <2>1. IsSeq(GeneratorItems(o) \o Fields(o, <<"cr_origin">>))
    BY GeneratorSeq, FieldsSeq, JoinSeq
  <2>. QED BY <1>1, <2>1, FreshPlain DEF CoroutineParts
<1>2. CASE setting.is_short
  <2> DEFINE x == Fields(o, <<"gi_qualname">>)
             y == WherePart(Ref(o, "gi_frame"))
             ps == <<Plain(x), y>>
  <2>1. CoroutineParts(o) = ps  BY <1>2 DEF CoroutineParts
  <2>2. IsSeq(x)  BY FieldsSeq
  <2>3. IsPart(y) /\ ~y.limits
    <3>1. \A f : IsSeq(WhereItems(f))  BY ShortSeq DEF WhereItems
    <3>2. PICK z : IsSeq(z) /\ (y = Plain(z) \/ y = Caught(z))  BY <3>1, ShortSeq DEF WherePart
    <3>. HIDE DEF y
    <3>. QED BY <3>2, PlainIsPart
  <2>. HIDE DEF x, y
  <2>4. /\ ps \in Seq({Plain(x), y}) /\ ps # <<>> /\ Len(ps) = 2
        /\ ps[1] = Plain(x) /\ ps[2] = y
    OBVIOUS
  <2>. HIDE DEF ps
  <2>5. Fresh(o, ps)  BY <2>2, <2>3, <2>4, PlainIsPart, FreshParts
  <2>. QED BY <2>1, <2>5
<1>. QED BY <1>1, <1>2

\* A part like Caught(items), but for its indent.
LEMMA IndentedIsPart ==
  ASSUME NEW p, IsPart(p), ~p.limits
  PROVE  IsPart([p EXCEPT !.indent = 1]) /\ ~[p EXCEPT !.indent = 1].limits
<1>1. [p EXCEPT !.indent = 1] =
        [items |-> p.items, catches |-> p.catches, indent |-> 1, limits |-> p.limits]
  BY DEF IsPart
<1>. QED BY <1>1 DEF IsPart

LEMMA FreshConcat ==
  ASSUME NEW o, NEW S, \A p \in S : IsPart(p) /\ ~p.limits,
         NEW a \in S, a.indent = 0, NEW rest \in Seq(S)
  PROVE  Fresh(o, <<a>> \o rest)
<1> DEFINE ps == <<a>> \o rest
<1>1. <<a>> \in Seq(S) /\ Len(<<a>>) = 1 /\ <<a>>[1] = a  OBVIOUS
<1>2. Len(rest) \in Nat  BY LenProperties
<1>3. /\ ps \in Seq(S) /\ Len(ps) = Len(<<a>>) + Len(rest)
      /\ \A i \in 1 .. Len(<<a>>) + Len(rest) :
           ps[i] = IF i <= Len(<<a>>) THEN <<a>>[i] ELSE rest[i - Len(<<a>>)]
  BY <1>1, ConcatProperties
<1>. HIDE DEF ps
<1>4. Len(ps) > 0 /\ ps[1] = a  BY <1>1, <1>2, <1>3
<1>5. ps # <<>> /\ ps[Len(ps)] \in S  BY <1>3, <1>4, SeqIsSeq, ElementOfSeq
<1>6. Fresh(o, ps)  BY <1>3, <1>4, <1>5, FreshParts
<1>. QED BY <1>6 DEF ps

LEMMA FreshFrame ==
  ASSUME heap \in Heaps, NEW o \in DOMAIN heap, FrameCheck(o) = "ok"
  PROVE  Fresh(o, FrameParts(o))
<1> DEFINE a == Caught(WhereItems(o))
           b == Plain((IF setting.frame_omit_back THEN <<>> ELSE Fields(o, <<"f_back">>)) \o
                      Fields(o, <<"f_code", "f_locals", "f_trace", "f_gen">>))
           c == [Caught(LocalItems(o)) EXCEPT !.indent = 1]
           S == {a, b, c}
<1>10. IsSeq(WhereItems(o)) /\ IsSeq(LocalItems(o))  BY ShortSeq, LocalsSeq DEF WhereItems
<1>11. IsSeq((IF setting.frame_omit_back THEN <<>> ELSE Fields(o, <<"f_back">>)) \o
             Fields(o, <<"f_code", "f_locals", "f_trace", "f_gen">>))
  <2>1. /\ IsSeq(Fields(o, <<"f_back">>))
      /\ IsSeq(Fields(o, <<"f_code", "f_locals", "f_trace", "f_gen">>))
    BY FieldsSeq
  <2>. QED BY <2>1, ShortSeq, JoinSeq
<1>1. \A p \in S : IsPart(p) /\ ~p.limits  BY <1>10, <1>11, PlainIsPart, IndentedIsPart
<1>2. a.indent = 0  BY <1>10, PlainIsPart
<1>3. FrameParts(o) = <<a>> \o (IF setting.is_short THEN <<>>
                      ELSE <<b>> \o (IF setting.frame_omit_locals THEN <<>> ELSE <<c>>))
  BY DEF FrameParts
<1>. HIDE DEF a, b, c
<1>4. a \in S /\ b \in S /\ c \in S  OBVIOUS
<1>. HIDE DEF S
<1>5. <<b>> \in Seq(S) /\ <<c>> \in Seq(S) /\ <<>> \in Seq(S)  BY <1>4
<1>6. (<<b>> \o (IF setting.frame_omit_locals THEN <<>> ELSE <<c>>)) \in Seq(S)
  BY <1>5, ConcatProperties
<1>7. (IF setting.is_short THEN <<>>
       ELSE <<b>> \o (IF setting.frame_omit_locals THEN <<>> ELSE <<c>>)) \in Seq(S)
  BY <1>5, <1>6
<1>. QED BY <1>1, <1>2, <1>3, <1>4, <1>7, FreshConcat

LEMMA FreshGather ==
  ASSUME heap \in Heaps, NEW o \in DOMAIN heap
  PROVE  Fresh(o, GatherParts(o))
<1> DEFINE a == Plain(FutureItems(o))
           b == Caught(heap[o].items)
           S == {a, b}
<1>10. IsSeq(FutureItems(o)) /\ IsSeq(heap[o].items)  BY FutureSeq, ItemsSeq
<1>1. \A p \in S : IsPart(p) /\ ~p.limits  BY <1>10, PlainIsPart
<1>2. a.indent = 0  BY <1>10, PlainIsPart
<1>3. GatherParts(o) = <<a>> \o (IF setting.is_short THEN <<>> ELSE <<b>>)  BY DEF GatherParts
<1>. HIDE DEF a, b
<1>4. a \in S /\ b \in S  OBVIOUS
<1>. HIDE DEF S
<1>5. (IF setting.is_short THEN <<>> ELSE <<b>>) \in Seq(S)  BY <1>4
<1>. QED BY <1>1, <1>2, <1>3, <1>4, <1>5, FreshConcat

LEMMA FreshUser ==
  ASSUME heap \in Heaps, NEW o \in DOMAIN heap
  PROVE  Fresh(o, UserParts(o))
<1>10. IsSeq(Fields(o, <<"dict">>)) /\ IsSeq(heap[o].items)  BY FieldsSeq, ItemsSeq
<1>1. CASE heap[o].items = <<>>  BY <1>1, <1>10, FreshPlain DEF UserParts
<1>2. CASE heap[o].items # <<>>
  <2> DEFINE a == Plain(heap[o].items)
             b == [Plain(Fields(o, <<"dict">>)) EXCEPT !.indent = 1]
             S == {a, b}
  <2>1. \A p \in S : IsPart(p) /\ ~p.limits  BY <1>10, PlainIsPart, IndentedIsPart
  <2>2. a.indent = 0  BY <1>10, PlainIsPart
  <2>3. UserParts(o) = <<a, b>>  BY <1>2 DEF UserParts
  <2>. HIDE DEF a, b
  <2>4. <<a, b>> \in Seq(S) /\ <<a, b>> # <<>> /\ <<a, b>>[1] = a /\ <<a, b>>[Len(<<a, b>>)] = b
    OBVIOUS
  <2>5. a \in S /\ b \in S  OBVIOUS
  <2>. HIDE DEF S
  <2>. QED BY <2>1, <2>2, <2>3, <2>4, <2>5, FreshParts
<1>. QED BY <1>1, <1>2

\* Only a type prints a part with a limit of its own.
LEMMA FreshType ==
  ASSUME NEW o, heap[o].kind = "type"
  PROVE  Fresh(o, TypeParts(o))
<1> DEFINE a == Plain(Fields(o, <<"tp_base">>))
           b == Limited(Fields(o, <<"tp_dict">>))
           c == Plain(Fields(o, <<"tp_bases", "tp_mro", "tp_cache", "tp_subclasses",
                                  "tp_weaklist">>))
           S == {a, b, c}
<1>10. /\ IsSeq(Fields(o, <<"tp_base">>)) /\ IsSeq(Fields(o, <<"tp_dict">>))
       /\ IsSeq(Fields(o, <<"tp_bases", "tp_mro", "tp_cache", "tp_subclasses", "tp_weaklist">>))
  BY FieldsSeq
<1>1. IsPart(a) /\ ~a.limits /\ a.indent = 0 /\ IsPart(b) /\ IsPart(c) /\ ~c.limits
  BY <1>10, PlainIsPart
<1>2. TypeParts(o) = <<a, b, c>>  BY DEF TypeParts
<1>. HIDE DEF a, b, c
<1>3. /\ <<a, b, c>> \in Seq(S) /\ <<a, b, c>> # <<>> /\ <<a, b, c>>[1] = a
      /\ <<a, b, c>>[Len(<<a, b, c>>)] = c
  OBVIOUS
<1>4. \A p \in S : IsPart(p)  BY <1>1
<1>. HIDE DEF S
<1>. QED BY <1>1, <1>2, <1>3, <1>4, FreshParts

LEMMA PartsFresh ==
  ASSUME heap \in Heaps, setting \in Settings, NEW o \in DOMAIN heap,
         heap[o].kind # "scalar", InvalidReason(o) = "ok", NEW r
  PROVE  Fresh(o, Parts(o, r))
<1>1. heap[o].kind \in Kinds  BY HeapsAssumption
<1>2. CASE heap[o].kind \in {"tuple", "list", "set", "dict", "cell", "code"}
  BY <1>2, PlainSeqs, FreshPlain DEF Parts
<1>3. CASE heap[o].kind \in {"generator", "asyncgen", "future", "task", "thread"}
  BY <1>3, PlainSeqs, FreshPlain DEF Parts
<1>4. CASE heap[o].kind = "frame"
  <2>1. FrameCheck(o) = "ok"  BY <1>4 DEF InvalidReason, ObjectCheck
  <2>. QED BY <1>4, <2>1, FreshFrame DEF Parts
<1>5. CASE heap[o].kind = "coroutine"  BY <1>5, FreshCoroutine DEF Parts
<1>6. CASE heap[o].kind = "gather"  BY <1>6, FreshGather DEF Parts
<1>7. CASE heap[o].kind = "type"  BY <1>7, FreshType DEF Parts
<1>8. CASE heap[o].kind = "user"  BY <1>8, FreshUser DEF Parts
<1>. QED BY <1>1, <1>2, <1>3, <1>4, <1>5, <1>6, <1>7, <1>8 DEF Kinds

\* What is not refused.
LEMMA NotRefused ==
  ASSUME heap \in Heaps, NEW o \in DOMAIN heap, ~Refused(o)
  PROVE  /\ heap[o].kind # "scalar"
         /\ heap[o].kind = "type" => in_progress = {}
         /\ Guarded(o) => o \notin in_progress
         /\ Indent(o) = 1 => RecursionAllowed
<1>1. CASE heap[o].kind = "scalar"  BY <1>1 DEF Refused
<1>2. CASE heap[o].kind = "user"  BY <1>2 DEF Refused, Indent
<1>3. CASE heap[o].kind = "type"  BY <1>3 DEF Refused
<1>4. CASE heap[o].kind = "coroutine" /\ setting.is_short  BY <1>4 DEF Guarded, Indent
<1>5. CASE /\ heap[o].kind \notin {"scalar", "user", "type"}
           /\ ~(heap[o].kind = "coroutine" /\ setting.is_short)
  BY <1>5 DEF Refused
<1>. QED BY <1>1, <1>2, <1>3, <1>4, <1>5

\* A name is neither.
LEMMA NoRootSingle ==
  ASSUME NEW x, x \in DOMAIN heap => heap[x].kind \notin {"type", "code"}
  PROVE  NoRoot(<<x>>) /\ NoRoot(<<>>)
<1>1. <<x>> \in Seq({x}) /\ Len(<<x>>) = 1 /\ <<x>>[1] = x  OBVIOUS
<1>2. <<>> \in Seq({x}) /\ Len(<<>>) = 0  OBVIOUS
<1>3. IsSeq(<<x>>) /\ IsSeq(<<>>)  BY <1>1, <1>2, SeqIsSeq
<1>4. \A k \in 1 .. Len(<<>>) : FALSE  BY <1>2
<1>. QED BY <1>1, <1>3, <1>4 DEF NoRoot

LEMMA WhereBare ==
  ASSUME heap \in Heaps, NEW f
  PROVE  /\ NamesOK => NoRoot(WherePart(f).items)
         /\ setting.knows_code \/ ~WherePart(f).catches
<1> DEFINE code == Ref(f, "f_code")
<1>0. NoRoot(<<>>)
  <2>1. Null \notin DOMAIN heap  BY HeapsAssumption
  <2>. QED BY <2>1, NoRootSingle
<1>1. CASE WherePart(f) = Plain(<<>>)  BY <1>0, <1>1 DEF Plain
<1>2. CASE WherePart(f) = Plain(<<f>>) /\ (f \in DOMAIN heap => heap[f].kind = "frame")
  <2>1. NoRoot(<<f>>)  BY <1>2, NoRootSingle
  <2>. QED BY <1>2, <2>1 DEF Plain
<1>3. CASE WherePart(f) = Caught(WhereItems(f)) /\ FrameCheck(f) = "ok" /\ code # Null
  <2>1. IsA(code, "code") /\ setting.knows_code  BY <1>3 DEF FrameCheck
  <2>2. code \in DOMAIN heap  BY <2>1 DEF IsA, HeaderOK, Readable
  <2>3. WhereItems(f) = <<Ref(code, "co_filename")>>  BY <1>3 DEF WhereItems
  <2>4. ASSUME NamesOK PROVE NoRoot(WhereItems(f))
    <3>1. Ref(code, "co_filename") \in DOMAIN heap =>
            heap[Ref(code, "co_filename")].kind \notin {"type", "code"}
      BY <2>2, <2>4 DEF NamesOK, Readable
    <3>. QED BY <2>3, <3>1, NoRootSingle
  <2>. QED BY <1>3, <2>1, <2>4 DEF Caught
<1>. QED BY <1>1, <1>2, <1>3 DEF WherePart, Readable

LEMMA UnguardedParts ==
  ASSUME heap \in Heaps, NEW o \in DOMAIN heap, InvalidReason(o) = "ok", ~Refused(o),
         ~Guarded(o), NEW r
  PROVE  BareParts(Parts(o, r))
<1>1. CASE heap[o].kind = "coroutine" /\ setting.is_short
  <2> DEFINE x == Fields(o, <<"gi_qualname">>)
             y == WherePart(Ref(o, "gi_frame"))
             ps == <<Plain(x), y>>
  <2>1. Parts(o, r) = ps  BY <1>1 DEF Parts, CoroutineParts
  <2>2. (NamesOK => NoRoot(y.items)) /\ (setting.knows_code \/ ~y.catches)  BY WhereBare
  <2>3. x = <<Ref(o, "gi_qualname")>>  BY DEF Fields
  <2>4. NamesOK => NoRoot(x)  BY <2>3, NoRootSingle DEF NamesOK, Readable
  <2>. HIDE DEF x, y
  <2>5. Plain(x).items = x /\ ~Plain(x).catches  BY DEF Plain
  <2>6. ps[1] = Plain(x) /\ ps[2] = y /\ 1 .. Len(ps) = {1, 2}  OBVIOUS
  <2>. HIDE DEF ps
  <2>7. BareParts(ps)  BY <2>2, <2>4, <2>5, <2>6 DEF BareParts
  <2>. QED BY <2>1, <2>7
<1>2. CASE heap[o].kind = "user" /\ heap[o].items = <<>>
  <2> DEFINE x == Fields(o, <<"dict">>)
             ps == <<Plain(x)>>
  <2>1. Parts(o, r) = ps  BY <1>2 DEF Parts, UserParts
  <2>2. x = <<Ref(o, "dict")>>  BY DEF Fields
  <2>3. Null \notin DOMAIN heap  BY HeapsAssumption
  <2>4. Ref(o, "dict") \in DOMAIN heap => heap[Ref(o, "dict")].kind = "dict"
    BY <1>2, <2>3 DEF Ref, Refused
  <2>5. NoRoot(x)  BY <2>2, <2>4, NoRootSingle
  <2>. HIDE DEF x
  <2>6. Plain(x).items = x /\ ~Plain(x).catches  BY DEF Plain
  <2>7. ps[1] = Plain(x) /\ 1 .. Len(ps) = {1}  OBVIOUS
  <2>. HIDE DEF ps
  <2>8. BareParts(ps)  BY <2>5, <2>6, <2>7 DEF BareParts
  <2>. QED BY <2>1, <2>8
<1>. QED BY <1>1, <1>2 DEF Guarded

\* A new activation.
LEMMA NewActivation ==
  ASSUME heap \in Heaps, setting \in Settings, NEW o \in DOMAIN heap,
         InvalidReason(o) = "ok", ~Refused(o)
  PROVE  LET a == Activation(o)
         IN /\ IsActivation(a)
            /\ a.obj = o /\ (a.guarded <=> Guarded(o)) /\ a.indent = Indent(o)
            /\ a.parts[1].indent = 0 /\ ~a.parts[1].limits
            /\ ~a.guarded => Bare(a)
<1> DEFINE a == Activation(o)
           ps == Parts(o, in_progress = {})
<1>1. Fresh(o, ps)  BY NotRefused, PartsFresh
<1>2. ~Guarded(o) => BareParts(ps)  BY UnguardedParts
<1>. HIDE DEF ps
<1>3. a = [obj |-> o, parts |-> ps, guarded |-> Guarded(o), indent |-> Indent(o)]
  BY DEF Activation, ps
<1>4. a.obj = o /\ a.parts = ps /\ (a.guarded <=> Guarded(o)) /\ a.indent = Indent(o)
  BY <1>3
<1>5. a = [obj |-> a.obj, parts |-> a.parts, guarded |-> a.guarded, indent |-> a.indent]
  BY <1>3
<1>6. a.guarded \in BOOLEAN
  <2>1. Guarded(o) \in BOOLEAN  BY DEF Guarded
  <2>. HIDE DEF a
  <2>. QED BY <1>3, <2>1
<1>. HIDE DEF a
<1>7. IsActivation(a)  BY <1>1, <1>4, <1>5, <1>6 DEF IsActivation, Fresh
<1>8. ~a.guarded => Bare(a)  BY <1>2, <1>4 DEF Bare
<1>. QED BY <1>1, <1>4, <1>7, <1>8 DEF Fresh, a

\* The heap and the settings do not change, and the invariant of the stack
\* depends on nothing else.
LEMMA Primed ==
  ASSUME heap' = heap, setting' = setting
  PROVE  /\ StackOK(stack)' <=> StackOK(stack')
         /\ GuardedIn(stack)' = GuardedIn(stack')
         /\ Distinct(stack)' <=> Distinct(stack')
         /\ Depth(stack)' = Depth(stack')
         /\ Limit(stack)' = Limit(stack')
         /\ Nesting(stack)' <=> Nesting(stack')
         /\ NoneCatches(stack)' <=> NoneCatches(stack')
         /\ NamesOK' <=> NamesOK
<1>0. NamesOK' <=> NamesOK  BY DEF NamesOK, Readable, Ref
<1>1. StackOK(stack)' <=> StackOK(stack')
  BY <1>0 DEF StackOK, IsActivation, Guarded, Indent, Bare, BareParts, NoRoot
<1>. QED BY <1>0, <1>1 DEF GuardedIn, Distinct, Depth, Indented, InIndentedPart, Limit, Limits,
                           Nesting, NestingLimit, HasType, NoneCatches

----------------------------------------------------------------------------
(* What a check may say. *)

LEMMA FirstProblemIs ==
  ASSUME NEW S, NEW checks \in Seq(S)
  PROVE  FirstProblem(checks) \in S \cup {"ok"}
<1> DEFINE I == {i \in 1 .. Len(checks) : checks[i] # "ok"}
<1>1. Len(checks) \in Nat  BY LenProperties
<1>2. FirstProblem(checks) =
        LET i == IF I # {} THEN CHOOSE x \in I : \A y \in I : x =< y ELSE 0
        IN IF i = 0 THEN "ok" ELSE checks[i]
  BY Zenon DEF FirstProblem, SelectInSeq, Min
<1>3. CASE I = {}
  <2>. HIDE DEF I
  <2>. QED BY <1>2, <1>3
<1>4. CASE I # {}
  <2> DEFINE m == CHOOSE x \in I : \A y \in I : x =< y
  <2>1. PICK n \in I : \A k \in I : n <= k
    <3>1. I \in SUBSET Nat  BY <1>1
    <3>. HIDE DEF I
    <3>. QED BY <1>4, <3>1, LeastNat
  <2>2. m \in I  BY <2>1
  <2>. HIDE DEF m
  <2>3. m # 0 /\ checks[m] \in S  BY <1>1, <2>2, ElementOfSeq
  <2>. HIDE DEF I
  <2>4. FirstProblem(checks) = IF m = 0 THEN "ok" ELSE checks[m]  BY <1>2, <1>4 DEF m
  <2>. QED BY <2>3, <2>4
<1>. QED BY <1>3, <1>4

\* A frame's check throws only if the type of code objects is not known.
Quiet == {"ok", "reason", "out_of_range"}

LEMMA ItemsQuiet ==
  ASSUME NEW items \in Seq(Nat)
  PROVE  ItemsCheck(items) \in Quiet
<1> DEFINE checks == [i \in DOMAIN items |-> ItemCheck(items[i])]
<1>1. Len(items) \in Nat /\ DOMAIN items = 1 .. Len(items)  BY LenProperties
<1>2. checks \in [1 .. Len(items) -> Quiet]  BY <1>1 DEF ItemCheck, Quiet
<1>3. checks \in Seq(Quiet)  BY <1>1, <1>2, SeqDef
<1>. HIDE DEF checks
<1>4. FirstProblem(checks) \in Quiet  BY <1>3, FirstProblemIs DEF Quiet
<1>. QED BY <1>4 DEF ItemsCheck, checks

LEMMA FrameQuiet ==
  ASSUME heap \in Heaps, setting.knows_code, NEW f \in DOMAIN heap
  PROVE  FrameCheck(f) \in Quiet
<1> DEFINE code == Ref(f, "f_code")
           checks == [z \in DOMAIN Varnames(f) |-> LocalCheck(Varnames(f)[z], heap[f].items[z])]
<1>1. CASE /\ Intact(f) /\ code # Null
           /\ IsA(code, "code") /\ IsA(Ref(code, "co_varnames"), "tuple")
  <2>1. Ref(code, "co_varnames") \in DOMAIN heap  BY <1>1 DEF IsA, HeaderOK, Readable
  <2>2. Varnames(f) \in Seq(Nat)  BY <2>1, HeapsAssumption DEF Varnames
  <2>3. Len(Varnames(f)) \in Nat /\ DOMAIN Varnames(f) = 1 .. Len(Varnames(f))
    BY <2>2, LenProperties
  <2>4. \A name, value : LocalCheck(name, value) \in Quiet  BY DEF LocalCheck, ItemCheck, Quiet
  <2>5. checks \in [1 .. Len(Varnames(f)) -> Quiet]  BY <2>3, <2>4
  <2>6. checks \in Seq(Quiet)  BY <2>3, <2>5, SeqDef
  <2>. HIDE DEF checks
  <2>7. FirstProblem(checks) \in Quiet  BY <2>6, FirstProblemIs DEF Quiet
  <2>8. FrameCheck(f) = FirstProblem(checks)  BY <1>1 DEF FrameCheck, checks
  <2>. QED BY <2>7, <2>8
<1>2. CASE ~(/\ Intact(f) /\ code # Null
             /\ IsA(code, "code") /\ IsA(Ref(code, "co_varnames"), "tuple"))
  BY <1>2 DEF FrameCheck, Quiet
<1>. QED BY <1>1, <1>2

LEMMA ObjectQuiet ==
  ASSUME heap \in Heaps, setting.knows_code, NEW o \in DOMAIN heap
  PROVE  ObjectCheck(o) \in Quiet
<1>1. heap[o].items \in Seq(Nat)  BY HeapsAssumption
<1>2. TableCheck(o) \in Quiet  BY DEF TableCheck, Quiet
<1>3. ListCheck(o) \in Quiet  BY <1>1, <1>2, ItemsQuiet DEF ListCheck
<1>4. DictCheck(o) \in Quiet /\ SetCheck(o) \in Quiet
  BY <1>2 DEF DictCheck, SetCheck, Quiet
<1>5. /\ TupleCheck(o) \in Quiet /\ FutureCheck(o) \in Quiet
      /\ TypeCheck(o) \in Quiet /\ TaskCheck(o) \in Quiet
  BY DEF TupleCheck, FutureCheck, TypeCheck, TaskCheck, Quiet
<1>6. FrameCheck(o) \in Quiet  BY FrameQuiet
<1>7. (IF Intact(o) THEN "ok" ELSE "reason") \in Quiet  BY DEF Quiet
<1>. QED BY <1>3, <1>4, <1>5, <1>6, <1>7 DEF ObjectCheck

LEMMA NothingThrows ==
  ASSUME heap \in Heaps, setting.knows_code, NEW o \in DOMAIN heap
  PROVE  InvalidReason(o) # "throws"
<1>1. CASE heap[o].kind = "thread"
  <2> DEFINE kinds(f) == CASE f = "frame" -> {"frame"} [] f = "dict" -> {"dict"} [] OTHER -> Kinds
             check(f) == IF Ref(o, f) = Null THEN "ok" ELSE EnvironmentCheck(Ref(o, f), kinds(f))
             checks == [i \in DOMAIN ThreadFields |-> check(ThreadFields[i])]
  <2>1. Len(ThreadFields) \in Nat /\ DOMAIN ThreadFields = 1 .. Len(ThreadFields)
    BY DEF ThreadFields
  <2>2. \A x, k : EnvironmentCheck(x, k) \in Quiet
    <3>1. \A x : HeaderOK(x) => ObjectCheck(x) \in Quiet  BY ObjectQuiet DEF HeaderOK, Readable
    <3>. QED BY <3>1 DEF EnvironmentCheck, UserCheck, Quiet
  <2>3. \A f : check(f) \in Quiet  BY <2>2 DEF Quiet
  <2>4. ThreadCheck(o) = IF ~Intact(o) THEN "reason" ELSE FirstProblem(checks)
    BY Zenon DEF ThreadCheck
  <2>. HIDE DEF check
  <2>5. checks \in [1 .. Len(ThreadFields) -> Quiet]  BY <2>1, <2>3
  <2>6. checks \in Seq(Quiet)  BY <2>1, <2>5, SeqDef
  <2>. HIDE DEF checks
  <2>7. FirstProblem(checks) \in Quiet  BY <2>6, FirstProblemIs DEF Quiet
  <2>. QED BY <1>1, <2>4, <2>7 DEF InvalidReason, Quiet
<1>2. CASE heap[o].kind # "thread"  BY <1>2, ObjectQuiet DEF InvalidReason, Quiet
<1>. QED BY <1>1, <1>2

----------------------------------------------------------------------------
(* The steps. *)

\* What holds of the state but the stack.
Rest ==
  /\ heap \in Heaps /\ setting \in Settings
  /\ is_valid \in BOOLEAN /\ throwing \in BOOLEAN
  /\ roots \subseteq DOMAIN heap /\ expanded \subseteq DOMAIN heap
  /\ max_recursion_depth \in {2, setting.max_recursion_depth}

\* What holds of a stack that is what in_progress and recursion_depth say.
Exact(s) ==
  /\ StackOK(s)
  /\ in_progress = GuardedIn(s) /\ Distinct(s)
  /\ recursion_depth = Depth(s)
  /\ Nesting(s)

LEMMA SettingTypes ==
  ASSUME setting \in Settings
  PROVE  setting.max_recursion_depth \in Nat \cup {-1} /\ setting.recursion_depth \in Nat
BY SettingsAssumption

\* A call of an object that is expanded.
LEMMA Expand ==
  ASSUME Rest, NEW c, Exact(c), max_recursion_depth = Limit(c),
         NEW o \in DOMAIN heap, InvalidReason(o) = "ok", ~Refused(o),
         heap[o].kind = "type" /\ NamesOK => c = <<>>
  PROVE  LET t == Append(c, Activation(o))
         IN /\ StackOK(t) /\ Distinct(t) /\ Nesting(t) /\ Limit(t) = Limit(c)
            /\ GuardedIn(t) = IF Guarded(o) THEN in_progress \cup {o} ELSE in_progress
            /\ Depth(t) = recursion_depth + Indent(o)
<1> DEFINE a == Activation(o)
           t == Append(c, a)
           N(s) == Cardinality(Indented(s))
<1>1. /\ IsActivation(a) /\ a.obj = o /\ (a.guarded <=> Guarded(o)) /\ a.indent = Indent(o)
      /\ a.parts[1].indent = 0 /\ ~a.parts[1].limits
      /\ ~a.guarded => Bare(a)
  BY NewActivation DEF Rest
<1>2. /\ Guarded(o) => o \notin in_progress
      /\ Indent(o) = 1 => RecursionAllowed
      /\ heap[o].kind = "type" => GuardedIn(c) = {}
  BY NotRefused DEF Rest, Exact
<1>. HIDE DEF a
<1>3. /\ StackOK(t) /\ t # <<>>
      /\ GuardedIn(t) = GuardedIn(c) \cup (IF a.guarded THEN {a.obj} ELSE {})
      /\ N(c) \in Nat /\ Cardinality(InIndentedPart(c)) \in Nat
      /\ N(t) = N(c) + a.indent
      /\ Cardinality(InIndentedPart(t)) = Cardinality(InIndentedPart(c)) + a.parts[1].indent
      /\ Limits(t) <=> Limits(c) \/ a.parts[1].limits
      /\ HasType(t) <=> HasType(c) \/ heap[a.obj].kind = "type"
  BY <1>1, <1>2, AppendStack DEF Exact
<1>4. Distinct(t)  BY <1>1, <1>2, AppendDistinct DEF Exact, StackOK
<1>5. GuardedIn(t) = IF Guarded(o) THEN in_progress \cup {o} ELSE in_progress
  BY <1>1, <1>3 DEF Exact
<1>. HIDE DEF t
<1>6. setting.max_recursion_depth \in Nat \cup {-1} /\ setting.recursion_depth \in Nat
  BY SettingTypes DEF Rest
<1>7. Indent(o) \in {0, 1}  BY DEF Indent
<1>8. Depth(t) = recursion_depth + Indent(o)
  BY <1>1, <1>3, <1>6, <1>7 DEF Depth, Exact
<1>9. Limit(t) = Limit(c)  BY <1>1, <1>3 DEF Limit
<1>10. Nesting(t)
  <2>1. SUFFICES ASSUME setting.max_recursion_depth >= 0, N(t) > 0
                 PROVE  setting.recursion_depth + N(t) <= NestingLimit(t)
    BY DEF Nesting
  <2>2. CASE Indent(o) = 0
    <3>1. N(t) = N(c) /\ N(c) > 0  BY <1>1, <1>3, <2>1, <2>2
    <3>2. setting.recursion_depth + N(c) <= NestingLimit(c)  BY <2>1, <3>1 DEF Exact, Nesting
    <3>3. heap[o].kind # "type"  BY <2>2 DEF Indent, Guarded
    <3>4. NestingLimit(t) = NestingLimit(c)  BY <1>1, <1>3, <3>3 DEF NestingLimit
    <3>. QED BY <3>1, <3>2, <3>4
  <2>3. CASE Indent(o) = 1
    <3>1. N(t) = N(c) + 1  BY <1>1, <1>3, <2>3
    <3>2. recursion_depth >= setting.recursion_depth + N(c) /\ recursion_depth \in Nat
      BY <1>3, <1>6 DEF Depth, Exact
    <3>3. max_recursion_depth \in Nat  BY <1>6, <2>1 DEF Rest
    <3>4. recursion_depth < max_recursion_depth  BY <1>2, <2>3, <3>3 DEF RecursionAllowed
    <3>5. max_recursion_depth <= NestingLimit(t)
      <4>1. max_recursion_depth = Limit(t)  BY <1>9
      <4>2. CASE Limits(t)
        <5>1. PICK i \in 1 .. Len(t) : t[i].parts[1].limits  BY <4>2 DEF Limits
        <5>2. IsActivation(t[i])  BY <1>3 DEF StackOK
        <5>3. 1 \in 1 .. Len(t[i].parts)
          BY <5>2, SeqIsSeq DEF IsActivation, IsParts, IsSeq
        <5>4. HasType(t)  BY <5>1, <5>2, <5>3 DEF IsActivation, HasType
        <5>. QED BY <1>6, <2>1, <4>1, <4>2, <5>4 DEF Limit, NestingLimit
      <4>3. CASE ~Limits(t)
        BY <1>6, <2>1, <4>1, <4>3 DEF Limit, NestingLimit
      <4>. QED BY <4>2, <4>3
    <3>6. NestingLimit(t) \in Nat  BY <1>6, <2>1 DEF NestingLimit
    <3>. QED BY <1>3, <1>6, <3>1, <3>2, <3>3, <3>4, <3>5, <3>6
  <2>. QED BY <1>7, <2>2, <2>3
<1>. QED BY <1>3, <1>4, <1>5, <1>8, <1>9, <1>10 DEF t, a

\* A call of repr, from a command or from an activation.
LEMMA CallKeeps ==
  ASSUME Rest, NEW c, Exact(c), max_recursion_depth = Limit(c),
         NEW o, Call(o, c), roots' \subseteq DOMAIN heap,
         o \in DOMAIN heap /\ heap[o].kind = "type" /\ in_progress = {} /\ NamesOK => c = <<>>
  PROVE  IInv'
<1>1. heap' = heap /\ setting' = setting /\ max_recursion_depth' = max_recursion_depth
  BY DEF Call
<1>2. is_valid' \in BOOLEAN /\ throwing' \in BOOLEAN
  BY DEF Call, StillValid, Rest
<1>3. /\ StackOK(stack') /\ Distinct(stack') /\ Nesting(stack')
      /\ in_progress' = GuardedIn(stack') /\ recursion_depth' = Depth(stack')
      /\ max_recursion_depth' = Limit(stack')
      /\ expanded' \subseteq DOMAIN heap
  <2>1. CASE /\ o \in DOMAIN heap /\ InvalidReason(o) = "ok" /\ ~Refused(o)
             /\ stack' = Append(c, Activation(o))
             /\ in_progress' = IF Guarded(o) THEN in_progress \cup {o} ELSE in_progress
             /\ recursion_depth' = recursion_depth + Indent(o)
             /\ expanded' = expanded \cup {o}
    <3>1. heap[o].kind = "type" /\ NamesOK => c = <<>>  BY <2>1, NotRefused DEF Rest
    <3>. QED BY <1>1, <2>1, <3>1, Expand DEF Rest
  <2>2. CASE /\ stack' = c /\ in_progress' = in_progress
             /\ recursion_depth' = recursion_depth /\ expanded' = expanded
    BY <1>1, <2>2 DEF Exact, Rest
  <2>. QED BY <2>1, <2>2 DEF Call, Readable
<1>4. throwing' => ~setting.knows_code
  <2>1. setting.knows_code /\ Readable(o) => InvalidReason(o) # "throws"
    BY NothingThrows DEF Rest, Readable
  <2>2. CASE o = Null \/ ~Readable(o) \/ heap[o].state = "bad_type"  BY <2>2 DEF Call
  <2>3. CASE Readable(o) /\ o # Null /\ heap[o].state # "bad_type"  BY <2>1, <2>3 DEF Call
  <2>. QED BY <2>2, <2>3
<1>. QED BY <1>1, <1>2, <1>3, <1>4, Primed DEF IInv, Rest

\* The depth of a stack and that of the stack below its top.
LEMMA DepthSum ==
  ASSUME setting \in Settings, NEW s, NEW t, NEW i \in {0, 1}, NEW j \in {0, 1},
         Cardinality(Indented(s)) \in Nat, Cardinality(InIndentedPart(s)) \in Nat,
         Cardinality(Indented(t)) = Cardinality(Indented(s)) + i,
         Cardinality(InIndentedPart(t)) = Cardinality(InIndentedPart(s)) + j
  PROVE  Depth(s) \in Nat /\ Depth(t) = Depth(s) + i + j
BY SettingTypes DEF Depth

LEMMA DepthIsNat ==
  ASSUME setting \in Settings, NEW s, StackOK(s)
  PROVE  Depth(s) \in Nat
<1>1. Len(s) \in Nat  BY LenProperties DEF StackOK, IsSeq
<1>2. IsFiniteSet(1 .. Len(s))  BY <1>1, FS_Interval
<1>3. IsFiniteSet(Indented(s)) /\ IsFiniteSet(InIndentedPart(s))
  BY <1>2, FS_Subset DEF Indented, InIndentedPart
<1>4. Cardinality(Indented(s)) \in Nat /\ Cardinality(InIndentedPart(s)) \in Nat
  BY <1>3, FS_CardinalityType
<1>. QED BY <1>4, SettingTypes DEF Depth

\* A stack without its top.
LEMMA Pop ==
  ASSUME Rest, NEW s, Exact(s), s # <<>>
  PROVE  LET f == SubSeq(s, 1, Len(s) - 1)
             a == s[Len(s)]
         IN /\ StackOK(f) /\ Distinct(f) /\ Nesting(f)
            /\ GuardedIn(f) = IF a.guarded THEN in_progress \ {a.obj} ELSE in_progress
            /\ Depth(f) = recursion_depth - a.parts[1].indent - a.indent
            /\ Limits(s) <=> Limits(f) \/ a.parts[1].limits
            /\ heap[a.obj].kind = "type" => GuardedIn(f) = {}
<1> DEFINE f == SubSeq(s, 1, Len(s) - 1)
           a == s[Len(s)]
           N(q) == Cardinality(Indented(q))
<1>1. /\ s = Append(f, a) /\ StackOK(f) /\ Distinct(f) /\ IsActivation(a)
      /\ ~a.guarded => Bare(a)
      /\ heap[a.obj].kind = "type" => GuardedIn(f) = {} /\ (NamesOK => f = <<>>)
      /\ a.guarded => a.obj \notin GuardedIn(f)
  BY PopStack DEF Exact
<1>. HIDE DEF f, a
<1>2. /\ GuardedIn(s) = GuardedIn(f) \cup (IF a.guarded THEN {a.obj} ELSE {})
      /\ N(f) \in Nat /\ Cardinality(InIndentedPart(f)) \in Nat
      /\ N(s) = N(f) + a.indent
      /\ Cardinality(InIndentedPart(s)) = Cardinality(InIndentedPart(f)) + a.parts[1].indent
      /\ Limits(s) <=> Limits(f) \/ a.parts[1].limits
      /\ HasType(s) <=> HasType(f) \/ heap[a.obj].kind = "type"
  BY <1>1, AppendStack
<1>3. GuardedIn(f) = IF a.guarded THEN in_progress \ {a.obj} ELSE in_progress
  BY <1>1, <1>2 DEF Exact
<1>4. setting.max_recursion_depth \in Nat \cup {-1} /\ setting.recursion_depth \in Nat
  BY SettingTypes DEF Rest
<1>5. a.indent \in {0, 1} /\ a.parts[1].indent \in {0, 1}
  <2>1. 1 \in 1 .. Len(a.parts)  BY <1>1, SeqIsSeq DEF IsActivation, IsParts, IsSeq
  <2>. QED BY <1>1, <2>1 DEF IsActivation, Indent, IsParts, IsPart
<1>6. Depth(f) = recursion_depth - a.parts[1].indent - a.indent
  <2>1. Depth(s) = Depth(f) + a.indent + a.parts[1].indent /\ Depth(f) \in Nat
    BY <1>2, <1>5, DepthSum DEF Rest
  <2>. QED BY <1>5, <2>1 DEF Exact
<1>8. Nesting(f)
  <2>1. SUFFICES ASSUME setting.max_recursion_depth >= 0, N(f) > 0
                 PROVE  setting.recursion_depth + N(f) <= NestingLimit(f)
    BY DEF Nesting
  <2>2. N(s) > 0 /\ N(f) <= N(s)  BY <1>2, <1>5, <2>1
  <2>3. setting.recursion_depth + N(s) <= NestingLimit(s)
    BY <2>1, <2>2 DEF Nesting, Exact
  <2>4. heap[a.obj].kind # "type"
    <3>1. GuardedIn(f) = {} => Indented(f) = {}  BY <1>1, NoneGuarded
    <3>2. Cardinality({}) = 0  BY FS_EmptySet
    <3>3. N(f) > 0 /\ N(f) = Cardinality(Indented(f))  BY <2>1
    <3>. HIDE DEF N
    <3>4. Indented(f) = {} => N(f) = 0  BY <3>2, <3>3
    <3>5. Indented(f) # {}  BY <3>3, <3>4
    <3>. QED BY <1>1, <3>1, <3>5
  <2>5. NestingLimit(f) = NestingLimit(s) /\ NestingLimit(s) \in Nat
    BY <1>2, <1>4, <2>1, <2>4 DEF NestingLimit
  <2>. QED BY <1>2, <1>4, <1>5, <2>2, <2>3, <2>5
<1>. QED BY <1>1, <1>2, <1>3, <1>6, <1>8 DEF f, a

\* A stack whose top has other parts left.
LEMMA Replace ==
  ASSUME Rest, NEW s, Exact(s), s # <<>>, NEW ps, IsParts(ps),
         \A i \in 1 .. Len(ps) : ps[i].limits => heap[s[Len(s)].obj].kind = "type",
         ~s[Len(s)].guarded => BareParts(ps)
  PROVE  LET a == s[Len(s)]
             t == Append(SubSeq(s, 1, Len(s) - 1), [a EXCEPT !.parts = ps])
         IN /\ StackOK(t) /\ Distinct(t) /\ Nesting(t) /\ GuardedIn(t) = in_progress
            /\ Depth(t) = recursion_depth - a.parts[1].indent + ps[1].indent
            /\ t # <<>>
            /\ Limits(s) <=> Limits(SubSeq(s, 1, Len(s) - 1)) \/ a.parts[1].limits
            /\ Limits(t) <=> Limits(SubSeq(s, 1, Len(s) - 1)) \/ ps[1].limits
            /\ heap[a.obj].kind = "type" => ~Limits(SubSeq(s, 1, Len(s) - 1))
<1> DEFINE f == SubSeq(s, 1, Len(s) - 1)
           a == s[Len(s)]
           b == [a EXCEPT !.parts = ps]
           t == Append(f, b)
           N(q) == Cardinality(Indented(q))
           M(q) == Cardinality(InIndentedPart(q))
<1>1. /\ s = Append(f, a) /\ StackOK(f) /\ Distinct(f) /\ IsActivation(a)
      /\ ~a.guarded => Bare(a)
      /\ heap[a.obj].kind = "type" => GuardedIn(f) = {} /\ (NamesOK => f = <<>>)
      /\ a.guarded => a.obj \notin GuardedIn(f)
  BY PopStack DEF Exact
<1>. HIDE DEF f
<1>2. b = [obj |-> a.obj, parts |-> ps, guarded |-> a.guarded, indent |-> a.indent]
  <2>1. a = [obj |-> a.obj, parts |-> a.parts, guarded |-> a.guarded, indent |-> a.indent]
    BY <1>1 DEF IsActivation
  <2>. HIDE DEF a
  <2>. QED BY <2>1
<1>. HIDE DEF b
<1>3. /\ b.obj = a.obj /\ b.parts = ps /\ (b.guarded <=> a.guarded) /\ b.indent = a.indent
      /\ b = [obj |-> b.obj, parts |-> b.parts, guarded |-> b.guarded, indent |-> b.indent]
  BY <1>2
<1>4. IsActivation(b) /\ (~b.guarded => Bare(b))
  <2>1. a.guarded \in BOOLEAN  BY <1>1 DEF IsActivation
  <2>. HIDE DEF a
  <2>2. b.guarded \in BOOLEAN  BY <1>2, <2>1
  <2>. USE DEF a
  <2>. QED BY <1>1, <1>3, <2>2 DEF IsActivation, Bare
<1>41. /\ heap[b.obj].kind = "type" => GuardedIn(f) = {} /\ (NamesOK => f = <<>>)
       /\ StackOK(f)
  BY <1>1, <1>3
<1>. HIDE DEF a
<1>5. /\ GuardedIn(s) = GuardedIn(f) \cup (IF a.guarded THEN {a.obj} ELSE {})
      /\ N(f) \in Nat /\ M(f) \in Nat
      /\ N(s) = N(f) + a.indent /\ M(s) = M(f) + a.parts[1].indent
      /\ Limits(s) <=> Limits(f) \/ a.parts[1].limits
      /\ HasType(s) <=> HasType(f) \/ heap[a.obj].kind = "type"
  BY <1>1, AppendStack
<1>6. /\ StackOK(t) /\ t # <<>>
      /\ GuardedIn(t) = GuardedIn(f) \cup (IF b.guarded THEN {b.obj} ELSE {})
      /\ N(t) = N(f) + b.indent /\ M(t) = M(f) + b.parts[1].indent
      /\ Limits(t) <=> Limits(f) \/ b.parts[1].limits
      /\ HasType(t) <=> HasType(f) \/ heap[b.obj].kind = "type"
  BY <1>4, <1>41, AppendStack
<1>7. Distinct(t)  BY <1>1, <1>3, AppendDistinct DEF StackOK
<1>. HIDE DEF t
<1>8. GuardedIn(t) = in_progress  BY <1>3, <1>5, <1>6 DEF Exact
<1>9. setting.max_recursion_depth \in Nat \cup {-1} /\ setting.recursion_depth \in Nat
  BY SettingTypes DEF Rest
<1>10. a.parts[1].indent \in {0, 1} /\ ps[1].indent \in {0, 1}
  <2>1. 1 \in 1 .. Len(a.parts) /\ 1 \in 1 .. Len(ps)
    BY <1>1, SeqIsSeq DEF IsActivation, IsParts, IsSeq
  <2>. QED BY <1>1, <2>1 DEF IsActivation, IsParts, IsPart
<1>11. N(t) = N(s)  BY <1>3, <1>5, <1>6
<1>12. a.indent \in {0, 1}  BY <1>1 DEF IsActivation, Indent
<1>13. Depth(t) = recursion_depth - a.parts[1].indent + ps[1].indent
  <2>1. recursion_depth = Depth(f) + a.indent + a.parts[1].indent /\ Depth(f) \in Nat
    BY <1>5, <1>10, <1>12, DepthSum DEF Rest, Exact
  <2>2. Depth(t) = Depth(f) + a.indent + ps[1].indent
    BY <1>3, <1>5, <1>6, <1>10, <1>12, DepthSum DEF Rest
  <2>. QED BY <1>10, <1>12, <2>1, <2>2
<1>14. Nesting(t)
  <2>1. NestingLimit(t) = NestingLimit(s)  BY <1>3, <1>5, <1>6 DEF NestingLimit, Exact
  <2>. QED BY <1>11, <2>1 DEF Nesting, Exact
<1>15. /\ Limits(s) <=> Limits(f) \/ a.parts[1].limits
       /\ Limits(t) <=> Limits(f) \/ ps[1].limits
       /\ heap[a.obj].kind = "type" => ~Limits(f)
  BY <1>1, <1>3, <1>5, <1>6, NoneGuarded
<1>. QED BY <1>6, <1>7, <1>8, <1>13, <1>14, <1>15 DEF t, b, a, f

\* The top activation, with other items left in the part it prints.
LEMMA ItemsLeft ==
  ASSUME NEW a, IsActivation(a), ~a.guarded => Bare(a),
         NEW items, IsSeq(items), NamesOK /\ NoRoot(a.parts[1].items) => NoRoot(items)
  PROVE  LET ps == <<[a.parts[1] EXCEPT !.items = items]>> \o Tail(a.parts)
         IN /\ IsParts(ps)
            /\ ps[1].indent = a.parts[1].indent /\ ps[1].limits = a.parts[1].limits
            /\ \A i \in 1 .. Len(ps) : ps[i].limits => heap[a.obj].kind = "type"
            /\ ~a.guarded => BareParts(ps)
<1> DEFINE q == a.parts
           x == [q[1] EXCEPT !.items = items]
           ps == <<x>> \o Tail(q)
<1>1. IsSeq(q) /\ q # <<>> /\ Len(q) \in Nat \ {0} /\ 1 \in 1 .. Len(q)
  BY SeqIsSeq DEF IsActivation, IsParts, IsSeq
<1>2. IsPart(q[1])  BY <1>1 DEF IsActivation, IsParts
<1>3. x = [items |-> items, catches |-> q[1].catches, indent |-> q[1].indent,
           limits |-> q[1].limits]
  <2> DEFINE p == q[1]
  <2>1. p = [items |-> p.items, catches |-> p.catches, indent |-> p.indent, limits |-> p.limits]
    BY <1>2 DEF IsPart
  <2>. HIDE DEF p
  <2>2. [p EXCEPT !.items = items] =
          [items |-> items, catches |-> p.catches, indent |-> p.indent, limits |-> p.limits]
    BY <2>1
  <2>. QED BY <2>2 DEF p
<1>. HIDE DEF x
<1>4. /\ IsPart(x) /\ x.items = items /\ x.indent = q[1].indent /\ x.limits = q[1].limits
      /\ x.catches = q[1].catches
  BY <1>2, <1>3 DEF IsPart
<1>5. /\ IsSeq(ps) /\ Len(ps) = Len(q) /\ ps[1] = x
      /\ \A i \in 2 .. Len(q) : ps[i] = q[i]
  BY <1>1, HeadReplaced
<1>. HIDE DEF ps
<1>6. \A i \in 1 .. Len(ps) : /\ IsPart(ps[i]) /\ ps[i].limits = q[i].limits
                              /\ i = 1 \/ ps[i] = q[i]
  <2>1. SUFFICES ASSUME NEW i \in 1 .. Len(ps)
                 PROVE  /\ IsPart(ps[i]) /\ ps[i].limits = q[i].limits
                        /\ i = 1 \/ ps[i] = q[i]
    OBVIOUS
  <2>2. CASE i = 1  BY <1>4, <1>5, <2>2
  <2>3. CASE i # 1
    <3>1. i \in 2 .. Len(q) /\ i \in 1 .. Len(q)  BY <1>1, <1>5, <2>3
    <3>. QED BY <1>5, <3>1 DEF IsActivation, IsParts
  <2>. QED BY <2>2, <2>3
<1>7. IsParts(ps)
  <2>1. Len(ps) \in 1 .. Len(ps)  BY <1>1, <1>5
  <2>2. ~ps[Len(ps)].limits  BY <1>5, <1>6, <2>1 DEF IsActivation, IsParts
  <2>. QED BY <1>1, <1>5, <1>6, <2>2 DEF IsParts
<1>8. \A i \in 1 .. Len(ps) : ps[i].limits => heap[a.obj].kind = "type"
  BY <1>5, <1>6 DEF IsActivation
<1>9. ASSUME ~a.guarded PROVE BareParts(ps)
  <2>1. BareParts(q)  BY <1>9 DEF Bare
  <2>2. ASSUME NamesOK, NEW j \in 1 .. Len(ps) PROVE NoRoot(ps[j].items)
    <3>1. NoRoot(q[j].items) /\ NoRoot(q[1].items)  BY <1>1, <1>5, <2>1, <2>2 DEF BareParts
    <3>2. CASE j = 1  BY <1>4, <1>5, <2>2, <3>1, <3>2
    <3>3. CASE j # 1  BY <1>6, <3>1, <3>3
    <3>. QED BY <3>2, <3>3
  <2>3. \A j \in 1 .. Len(ps) : j \in 1 .. Len(q) /\ ps[j].catches = q[j].catches
    <3>1. SUFFICES ASSUME NEW j \in 1 .. Len(ps)
                   PROVE  j \in 1 .. Len(q) /\ ps[j].catches = q[j].catches
      OBVIOUS
    <3>2. CASE j = 1  BY <1>1, <1>4, <1>5, <3>2
    <3>3. CASE j # 1  BY <1>5, <1>6, <3>3
    <3>. QED BY <3>2, <3>3
  <2>. QED BY <2>1, <2>2, <2>3 DEF BareParts
<1>. QED BY <1>4, <1>5, <1>7, <1>8, <1>9 DEF ps, x

\* The top activation, with one part less.
LEMMA PartsLeft ==
  ASSUME NEW a, IsActivation(a), ~a.guarded => Bare(a), Len(a.parts) > 1
  PROVE  LET ps == Tail(a.parts)
         IN /\ IsParts(ps) /\ ps[1] = a.parts[2]
            /\ \A i \in 1 .. Len(ps) : ps[i].limits => heap[a.obj].kind = "type"
            /\ ~a.guarded => BareParts(ps)
<1> DEFINE q == a.parts
           ps == Tail(q)
<1>1. IsSeq(q) /\ q # <<>>  BY SeqIsSeq DEF IsActivation, IsParts, IsSeq
<1>2. /\ Len(q) \in Nat \ {0} /\ IsSeq(ps) /\ Len(ps) = Len(q) - 1
      /\ \A i \in 1 .. Len(q) - 1 : ps[i] = q[i + 1]
  BY <1>1, TailSeq
<1>. HIDE DEF ps
<1>3. \A i \in 1 .. Len(ps) : ps[i] = q[i + 1] /\ i + 1 \in 1 .. Len(q)  BY <1>2
<1>4. 1 \in 1 .. Len(ps) /\ Len(ps) \in 1 .. Len(ps) /\ Len(ps) > 0  BY <1>2
<1>5. ps[1] = q[2] /\ ps[Len(ps)] = q[Len(q)]  BY <1>2, <1>3, <1>4
<1>6. IsParts(ps)  BY <1>2, <1>3, <1>4, <1>5 DEF IsActivation, IsParts
<1>7. ~a.guarded => BareParts(ps)  BY <1>3 DEF Bare, BareParts
<1>. QED BY <1>3, <1>5, <1>6, <1>7 DEF IsActivation, ps

\* The activation on top.
LEMMA TopOK ==
  ASSUME IInv, stack # <<>>
  PROVE  /\ Rest /\ Exact(stack)
         /\ ~throwing \/ Part.catches => max_recursion_depth = Limit(stack)
         /\ IsActivation(Top) /\ (~Top.guarded => Bare(Top))
         /\ Part = Top.parts[1] /\ 1 \in 1 .. Len(Top.parts)
<1>1. Rest /\ Exact(stack)  BY DEF IInv, Rest, Exact
<1>2. IsActivation(Top) /\ (~Top.guarded => Bare(Top))
  BY <1>1, PopStack DEF Exact, Top, Callers
<1>3. IsSeq(Top.parts) /\ Top.parts # <<>> /\ 1 \in 1 .. Len(Top.parts)
  BY <1>2, SeqIsSeq DEF IsActivation, IsParts, IsSeq
<1>4. Part = Top.parts[1]  BY <1>3, TailSeq DEF Part
<1>5. Len(stack) \in 1 .. Len(stack)  BY <1>1, FrontSeq DEF Exact, StackOK
<1>6. ~throwing \/ Part.catches => max_recursion_depth = Limit(stack)
  BY <1>4, <1>5 DEF IInv, NoneCatches, Top
<1>. QED BY <1>1, <1>2, <1>3, <1>4, <1>6

LEMMA InitInv == Init => IInv
<1>. SUFFICES ASSUME Init PROVE IInv  OBVIOUS
<1>1. stack = <<>> /\ Len(stack) = 0 /\ 1 .. Len(stack) = {}  BY DEF Init
<1>2. <<>> \in Seq({})  OBVIOUS
<1>3. IsSeq(stack)  BY <1>1, <1>2, SeqIsSeq
<1>4. StackOK(stack) /\ Distinct(stack) /\ GuardedIn(stack) = {}
  BY <1>1, <1>3 DEF StackOK, Distinct, GuardedIn
<1>5. Cardinality(Indented(stack)) = 0 /\ Cardinality(InIndentedPart(stack)) = 0
  BY <1>1, FS_EmptySet DEF Indented, InIndentedPart
<1>6. setting.recursion_depth \in Nat  BY SettingTypes DEF Init
<1>7. Depth(stack) = recursion_depth  BY <1>5, <1>6 DEF Depth, Init
<1>8. Limit(stack) = max_recursion_depth  BY <1>1 DEF Limit, Limits, Init
<1>9. Nesting(stack)  BY <1>5 DEF Nesting
<1>. QED BY <1>4, <1>7, <1>8, <1>9 DEF IInv, Init

LEMMA ReprKeeps ==
  ASSUME IInv, NEW o \in DOMAIN heap, Repr(o)
  PROVE  IInv'
<1>1. Rest /\ Exact(<<>>) /\ max_recursion_depth = Limit(<<>>)
  BY DEF IInv, Repr, Rest, Exact
<1>2. Call(o, <<>>) /\ roots' \subseteq DOMAIN heap  BY DEF Repr, IInv
<1>. QED BY <1>1, <1>2, CallKeeps

LEMMA ReprItemKeeps ==
  ASSUME IInv, ReprItem
  PROVE  IInv'
<1> DEFINE items == Part.items
           o == Head(items)
           ps == <<[Part EXCEPT !.items = Tail(items)]>> \o Tail(Top.parts)
           c == PartLeft(Tail(items))
<1>1. stack # <<>> /\ ~throwing /\ items # <<>> /\ Call(o, c) /\ roots' = roots
  BY DEF ReprItem
<1>2. /\ Rest /\ Exact(stack) /\ max_recursion_depth = Limit(stack)
      /\ IsActivation(Top) /\ (~Top.guarded => Bare(Top))
      /\ Part = Top.parts[1] /\ 1 \in 1 .. Len(Top.parts)
  BY <1>1, TopOK
<1>30. IsSeq(items)  BY <1>2 DEF IsActivation, IsParts, IsPart
<1>31. IsSeq(Tail(items))  BY <1>1, <1>30, TailSeq
<1>3. NoRoot(items) => NoRoot(Tail(items)) /\ (o \in DOMAIN heap => heap[o].kind # "type")
  <2>1. /\ IsSeq(Tail(items)) /\ Len(Tail(items)) = Len(items) - 1 /\ o = items[1]
        /\ Len(items) \in Nat \ {0}
        /\ \A i \in 1 .. Len(items) - 1 : Tail(items)[i] = items[i + 1]
    BY <1>1, <1>30, TailSeq
  <2>. QED BY <2>1 DEF NoRoot
<1>4. /\ IsParts(ps)
      /\ ps[1].indent = Part.indent /\ ps[1].limits = Part.limits
      /\ \A i \in 1 .. Len(ps) : ps[i].limits => heap[Top.obj].kind = "type"
      /\ ~Top.guarded => BareParts(ps)
  BY <1>2, <1>3, <1>31, ItemsLeft
<1>5. c = Append(Callers, [Top EXCEPT !.parts = ps])  BY DEF PartLeft
<1>. HIDE DEF ps
<1>6. /\ StackOK(c) /\ Distinct(c) /\ Nesting(c) /\ GuardedIn(c) = in_progress
      /\ Depth(c) = recursion_depth - Part.indent + ps[1].indent
      /\ Limits(c) <=> Limits(stack)
  <2>1. /\ StackOK(c) /\ Distinct(c) /\ Nesting(c) /\ GuardedIn(c) = in_progress
        /\ Depth(c) = recursion_depth - Part.indent + ps[1].indent
        /\ Limits(stack) <=> Limits(Callers) \/ Part.limits
        /\ Limits(c) <=> Limits(Callers) \/ ps[1].limits
    <3>1. /\ Rest /\ Exact(stack) /\ stack # <<>> /\ IsParts(ps)
          /\ \A i \in 1 .. Len(ps) : ps[i].limits => heap[stack[Len(stack)].obj].kind = "type"
          /\ ~stack[Len(stack)].guarded => BareParts(ps)
      BY <1>1, <1>2, <1>4 DEF Top
    <3>2. /\ c = Append(SubSeq(stack, 1, Len(stack) - 1), [stack[Len(stack)] EXCEPT !.parts = ps])
          /\ Callers = SubSeq(stack, 1, Len(stack) - 1)
          /\ Part = stack[Len(stack)].parts[1]
      BY <1>2, <1>5 DEF Top, Callers
    <3>. HIDE DEF c
    <3>. QED BY <3>1, <3>2, Replace
  <2>. QED BY <1>4, <2>1
<1>7. Limit(c) = max_recursion_depth  BY <1>2, <1>6 DEF Limit
<1>8. recursion_depth = Depth(c)
  <2>1. Part.indent \in {0, 1}  BY <1>2 DEF IsActivation, IsParts, IsPart
  <2>2. recursion_depth \in Nat  BY <1>2, DepthIsNat DEF Exact, Rest
  <2>. QED BY <1>4, <1>6, <2>1, <2>2
<1>9. Exact(c)  BY <1>6, <1>8 DEF Exact
<1>10. o \in DOMAIN heap /\ heap[o].kind = "type" /\ NamesOK => in_progress # {}
  <2>1. SUFFICES ASSUME in_progress = {}, NamesOK
                 PROVE  o \in DOMAIN heap => heap[o].kind # "type"
    OBVIOUS
  <2>2. ~Top.guarded
    <3>1. IsSeq(stack)  BY <1>2 DEF Exact, StackOK
    <3>2. Len(stack) \in 1 .. Len(stack)  BY <1>1, <3>1, FrontSeq
    <3>. QED BY <1>2, <2>1, <3>2 DEF Exact, GuardedIn, Top
  <2>3. NoRoot(items)  BY <1>2, <2>1, <2>2 DEF Bare, BareParts
  <2>. QED BY <1>3, <2>3
<1>11. roots' \subseteq DOMAIN heap  BY <1>1, <1>2 DEF Rest
<1>. HIDE DEF c, o
<1>. QED BY <1>1, <1>2, <1>7, <1>9, <1>10, <1>11, CallKeeps

LEMMA NextPartKeeps ==
  ASSUME IInv, NextPart
  PROVE  IInv'
<1> DEFINE ps == Tail(Top.parts)
           t == Append(Callers, [Top EXCEPT !.parts = ps])
<1>1. /\ stack # <<>> /\ ~throwing /\ Len(Top.parts) > 1 /\ stack' = t
      /\ recursion_depth' = recursion_depth - Part.indent + Top.parts[2].indent
      /\ max_recursion_depth' = IF Top.parts[2].limits THEN 2
                                ELSE IF Part.limits THEN setting.max_recursion_depth
                                ELSE max_recursion_depth
      /\ UNCHANGED <<heap, setting, in_progress, is_valid, throwing, roots, expanded>>
  BY DEF NextPart
<1>2. /\ Rest /\ Exact(stack) /\ max_recursion_depth = Limit(stack)
      /\ IsActivation(Top) /\ (~Top.guarded => Bare(Top))
      /\ Part = Top.parts[1] /\ 1 \in 1 .. Len(Top.parts)
  BY <1>1, TopOK
<1>3. /\ IsParts(ps) /\ ps[1] = Top.parts[2]
      /\ \A i \in 1 .. Len(ps) : ps[i].limits => heap[Top.obj].kind = "type"
      /\ ~Top.guarded => BareParts(ps)
  BY <1>1, <1>2, PartsLeft
<1>. HIDE DEF ps
<1>4. /\ StackOK(t) /\ Distinct(t) /\ Nesting(t) /\ GuardedIn(t) = in_progress
      /\ Depth(t) = recursion_depth - Part.indent + ps[1].indent
      /\ Limits(stack) <=> Limits(Callers) \/ Part.limits
      /\ Limits(t) <=> Limits(Callers) \/ ps[1].limits
      /\ heap[Top.obj].kind = "type" => ~Limits(Callers)
  BY <1>1, <1>2, <1>3, Replace DEF Top, Callers
<1>. HIDE DEF t
<1>5. Limit(t) = max_recursion_depth'
  <2>1. Part.limits => heap[Top.obj].kind = "type"  BY <1>2 DEF IsActivation
  <2>. QED BY <1>1, <1>2, <1>3, <1>4, <2>1 DEF Limit
<1>6. max_recursion_depth' \in {2, setting.max_recursion_depth}  BY <1>1, <1>2 DEF Rest
<1>. QED BY <1>1, <1>2, <1>3, <1>4, <1>5, <1>6, Primed DEF IInv, Rest

\* A return, or an exception that nothing catches here.
LEMMA LeaveKeeps ==
  ASSUME IInv, stack # <<>>, Leave, throwing' = throwing,
         ~throwing => Len(Top.parts) = 1
  PROVE  IInv'
<1>1. /\ stack' = Callers /\ recursion_depth' = recursion_depth - Part.indent - Top.indent
      /\ in_progress' = IF Top.guarded THEN in_progress \ {Top.obj} ELSE in_progress
      /\ UNCHANGED <<heap, setting, max_recursion_depth, is_valid, roots, expanded>>
  BY DEF Leave
<1>2. /\ Rest /\ Exact(stack) /\ IsActivation(Top)
      /\ Part = Top.parts[1] /\ 1 \in 1 .. Len(Top.parts)
  BY TopOK
<1>3. /\ StackOK(Callers) /\ Distinct(Callers) /\ Nesting(Callers)
      /\ GuardedIn(Callers) = IF Top.guarded THEN in_progress \ {Top.obj} ELSE in_progress
      /\ Depth(Callers) = recursion_depth - Part.indent - Top.indent
      /\ Limits(stack) <=> Limits(Callers) \/ Part.limits
      /\ heap[Top.obj].kind = "type" => GuardedIn(Callers) = {}
  BY <1>2, Pop DEF Top, Callers
<1>4. max_recursion_depth = Limit(Callers) \/ (throwing /\ NoneCatches(Callers))
  <2>1. CASE max_recursion_depth = Limit(stack) /\ ~Part.limits
    BY <1>3, <2>1 DEF Limit
  <2>2. CASE Part.limits
    <3>1. throwing /\ ~setting.knows_code  BY <1>2, <2>2 DEF IsActivation, IsParts, IInv
    <3>2. GuardedIn(Callers) = {}  BY <1>2, <1>3, <2>2 DEF IsActivation
    <3>3. ASSUME NEW i \in 1 .. Len(Callers) PROVE ~Callers[i].parts[1].catches
      <4>1. IsActivation(Callers[i]) /\ ~Callers[i].guarded /\ Bare(Callers[i])
        BY <1>3, <3>2 DEF StackOK, GuardedIn
      <4>2. 1 \in 1 .. Len(Callers[i].parts)
        BY <4>1, SeqIsSeq DEF IsActivation, IsParts, IsSeq
      <4>. QED BY <3>1, <4>1, <4>2 DEF Bare, BareParts
    <3>. QED BY <3>1, <3>3 DEF NoneCatches
  <2>3. CASE throwing /\ NoneCatches(stack)
    <3>1. \A i \in 1 .. Len(Callers) : i \in 1 .. Len(stack) /\ Callers[i] = stack[i]
      BY FrontSeq DEF Callers, IInv, StackOK
    <3>. QED BY <2>3, <3>1 DEF NoneCatches
  <2>. QED BY <2>1, <2>2, <2>3 DEF IInv
<1>. QED BY <1>1, <1>2, <1>3, <1>4, Primed DEF IInv, Rest

LEMMA CatchKeeps ==
  ASSUME IInv, stack # <<>>, Part.catches, stack' = PartLeft(<<>>), throwing' = FALSE,
         UNCHANGED <<heap, setting, guards, is_valid, roots, expanded>>
  PROVE  IInv'
<1> DEFINE ps == <<[Part EXCEPT !.items = <<>>]>> \o Tail(Top.parts)
           t == PartLeft(<<>>)
<1>1. /\ Rest /\ Exact(stack) /\ max_recursion_depth = Limit(stack)
      /\ IsActivation(Top) /\ (~Top.guarded => Bare(Top))
      /\ Part = Top.parts[1] /\ 1 \in 1 .. Len(Top.parts)
  BY TopOK
<1>2. NoRoot(<<>>)
  <2>1. Null \notin DOMAIN heap  BY <1>1, HeapsAssumption DEF Rest
  <2>. QED BY <2>1, NoRootSingle
<1>3. /\ IsParts(ps)
      /\ ps[1].indent = Part.indent /\ ps[1].limits = Part.limits
      /\ \A i \in 1 .. Len(ps) : ps[i].limits => heap[Top.obj].kind = "type"
      /\ ~Top.guarded => BareParts(ps)
  BY <1>1, <1>2, ItemsLeft DEF NoRoot
<1>4. t = Append(Callers, [Top EXCEPT !.parts = ps])  BY DEF PartLeft
<1>. HIDE DEF ps
<1>5. /\ StackOK(t) /\ Distinct(t) /\ Nesting(t) /\ GuardedIn(t) = in_progress
      /\ Depth(t) = recursion_depth - Part.indent + ps[1].indent
      /\ Limits(t) <=> Limits(stack)
  <2>1. /\ StackOK(t) /\ Distinct(t) /\ Nesting(t) /\ GuardedIn(t) = in_progress
        /\ Depth(t) = recursion_depth - Part.indent + ps[1].indent
        /\ Limits(stack) <=> Limits(Callers) \/ Part.limits
        /\ Limits(t) <=> Limits(Callers) \/ ps[1].limits
    <3>1. /\ Rest /\ Exact(stack) /\ stack # <<>> /\ IsParts(ps)
          /\ \A i \in 1 .. Len(ps) : ps[i].limits => heap[stack[Len(stack)].obj].kind = "type"
          /\ ~stack[Len(stack)].guarded => BareParts(ps)
      BY <1>1, <1>3 DEF Top
    <3>2. /\ t = Append(SubSeq(stack, 1, Len(stack) - 1), [stack[Len(stack)] EXCEPT !.parts = ps])
          /\ Callers = SubSeq(stack, 1, Len(stack) - 1)
          /\ Part = stack[Len(stack)].parts[1]
      BY <1>1, <1>4 DEF Top, Callers
    <3>. HIDE DEF t
    <3>. QED BY <3>1, <3>2, Replace
  <2>. QED BY <1>3, <2>1
<1>. HIDE DEF t
<1>6. Limit(t) = max_recursion_depth  BY <1>1, <1>5 DEF Limit
<1>7. Depth(t) = recursion_depth
  <2>1. Part.indent \in {0, 1}  BY <1>1 DEF IsActivation, IsParts, IsPart
  <2>2. recursion_depth \in Nat  BY <1>1, DepthIsNat DEF Exact, Rest
  <2>. QED BY <1>3, <1>5, <2>1, <2>2
<1>8. stack' = t  BY DEF t
<1>. QED BY <1>1, <1>5, <1>6, <1>7, <1>8, Primed DEF IInv, Rest, guards

LEMMA UnwindKeeps ==
  ASSUME IInv, Unwind
  PROVE  IInv'
<1>1. stack # <<>> /\ throwing  BY DEF Unwind
<1>2. CASE Part.catches
  <2>1. /\ stack' = PartLeft(<<>>) /\ throwing' = FALSE
        /\ UNCHANGED <<heap, setting, guards, is_valid, roots, expanded>>
    BY <1>2 DEF Unwind
  <2>. QED BY <1>1, <1>2, <2>1, CatchKeeps
<1>3. CASE ~Part.catches
  <2>1. Leave /\ throwing' = throwing  BY <1>3 DEF Unwind
  <2>. QED BY <1>1, <2>1, LeaveKeeps
<1>. QED BY <1>2, <1>3

LEMMA Unchanged ==
  ASSUME IInv, UNCHANGED vars
  PROVE  IInv'
<1>1. /\ heap' = heap /\ setting' = setting /\ stack' = stack
      /\ UNCHANGED <<is_valid, throwing, roots, expanded, max_recursion_depth,
                     recursion_depth, in_progress>>
  BY DEF vars, guards
<1>. QED BY <1>1, Primed DEF IInv

LEMMA StepInv == IInv /\ [Next]_vars => IInv'
<1>. SUFFICES ASSUME IInv, [Next]_vars PROVE IInv'  OBVIOUS
<1>1. CASE \E o \in DOMAIN heap : Repr(o)  BY <1>1, ReprKeeps
<1>2. CASE ReprItem  BY <1>2, ReprItemKeeps
<1>3. CASE NextPart  BY <1>3, NextPartKeeps
<1>4. CASE Return
  <2>1. stack # <<>> /\ Leave /\ throwing' = throwing /\ Len(Top.parts) = 1
    BY <1>4 DEF Return
  <2>. QED BY <2>1, LeaveKeeps
<1>5. CASE Unwind  BY <1>5, UnwindKeeps
<1>6. CASE Over
  <2>1. UNCHANGED vars  BY <1>6 DEF Over
  <2>. QED BY <2>1, Unchanged
<1>7. CASE UNCHANGED vars  BY <1>7, Unchanged
<1>. QED BY <1>1, <1>2, <1>3, <1>4, <1>5, <1>6, <1>7 DEF Next, Step

----------------------------------------------------------------------------
(* What has been printed: without limits, all that can be reached. *)

\* What some parts print.
ItemsIn(ps) == UNION {Elements(ps[j].items) : j \in 1 .. Len(ps)}

\* What activations of o have still to print.
ToCome(s, o) == UNION {ItemsIn(s[i].parts) : i \in {i \in 1 .. Len(s) : s[i].obj = o}}

\* What is left of an object once repr has been called for it.
Handled(c) == (Expandable(c) => c \in expanded) /\ (is_valid => Sound(c))

Broken ==
  \/ \E o \in roots : ~Sound(o)
  \/ \E o \in expanded : \E c \in Children(o) : ~Sound(c)

Exploring(s) ==
  /\ \A o \in roots : Handled(o)
  /\ \A o \in expanded : /\ \A c \in Children(o) : Handled(c) \/ c \in ToCome(s, o)
                         /\ ToCome(s, o) \subseteq Children(o)
  /\ is_valid \/ Broken

\* What is expanded is intact, and the first activation is that of a root.
Expansions ==
  /\ \A o \in expanded : heap[o].state # "bad_type" /\ InvalidReason(o) = "ok"
  /\ \A i \in 1 .. Len(stack) : stack[i].obj \in expanded
  /\ stack # <<>> => stack[1].obj \in roots

XInv == Expansions /\ (Unlimited => Exploring(stack))

----------------------------------------------------------------------------
(* What an object contains. *)

LEMMA ToSetIs ==
  ASSUME NEW s, IsSeq(s)
  PROVE  ToSet(s) = Elements(s)
<1>1. DOMAIN s = 1 .. Len(s)  BY LenProperties DEF IsSeq
<1>. QED BY <1>1 DEF ToSet, Elements

Container(o) == heap[o].kind \in {"tuple", "list", "set", "dict"}

\* The children of an object that is printed as a root, and of one that is not.
ChildrenAs(o, r) ==
  IF Container(o) THEN ToSet(heap[o].items)
  ELSE UNION {ToSet(p.items) : p \in ToSet(Parts(o, r))}

LEMMA ChildrenRoots ==
  ASSUME NEW o
  PROVE  /\ Children(o) = IF o \in roots THEN ChildrenAs(o, TRUE) ELSE ChildrenAs(o, FALSE)
         /\ Children(o)' = IF o \in roots' THEN ChildrenAs(o, TRUE)' ELSE ChildrenAs(o, FALSE)'
<1>1. Children(o) = IF o \in roots THEN ChildrenAs(o, TRUE) ELSE ChildrenAs(o, FALSE)
  <2>1. CASE o \in roots
    <3>1. (o \in roots) = TRUE  BY <2>1
    <3>. QED BY <2>1, <3>1 DEF Children, ChildrenAs, Container
  <2>2. CASE o \notin roots
    <3>1. (o \in roots) = FALSE  BY <2>2
    <3>. QED BY <2>2, <3>1 DEF Children, ChildrenAs, Container
  <2>. QED BY <2>1, <2>2
<1>2. Children(o)' = IF o \in roots' THEN ChildrenAs(o, TRUE)' ELSE ChildrenAs(o, FALSE)'
  <2>1. CASE o \in roots'
    <3>1. (o \in roots') = TRUE  BY <2>1
    <3>. QED BY <2>1, <3>1 DEF Children, ChildrenAs, Container
  <2>2. CASE o \notin roots'
    <3>1. (o \in roots') = FALSE  BY <2>2
    <3>. QED BY <2>2, <3>1 DEF Children, ChildrenAs, Container
  <2>. QED BY <2>1, <2>2
<1>. QED BY <1>1, <1>2

\* Checks and contents depend on the memory and the settings only.
LEMMA SameHeap ==
  ASSUME heap' = heap, setting' = setting
  PROVE  \A o : /\ InvalidReason(o)' = InvalidReason(o)
                /\ Sound(o)' = Sound(o)
                /\ Expandable(o)' = Expandable(o)
                /\ ChildrenAs(o, TRUE)' = ChildrenAs(o, TRUE)
                /\ ChildrenAs(o, FALSE)' = ChildrenAs(o, FALSE)
<1>. SUFFICES ASSUME NEW o
              PROVE  /\ InvalidReason(o)' = InvalidReason(o)
                     /\ Sound(o)' = Sound(o)
                     /\ Expandable(o)' = Expandable(o)
                     /\ ChildrenAs(o, TRUE)' = ChildrenAs(o, TRUE)
                     /\ ChildrenAs(o, FALSE)' = ChildrenAs(o, FALSE)
  OBVIOUS
<1>1. \A x : /\ Readable(x)' = Readable(x) /\ HeaderOK(x)' = HeaderOK(x)
             /\ Intact(x)' = Intact(x) /\ ItemCheck(x)' = ItemCheck(x)
  BY DEF Readable, HeaderOK, Intact, ItemCheck
<1>2. \A x, f : Ref(x, f)' = Ref(x, f)  BY DEF Ref
<1>20. \A x : TableCheck(x)' = TableCheck(x)  BY <1>1 DEF TableCheck
<1>3. \A x : /\ ListCheck(x)' = ListCheck(x) /\ TupleCheck(x)' = TupleCheck(x)
             /\ DictCheck(x)' = DictCheck(x)
  BY <1>1, <1>20 DEF ListCheck, TupleCheck, DictCheck, ItemsCheck
<1>4. \A x : /\ SetCheck(x)' = SetCheck(x) /\ FutureCheck(x)' = FutureCheck(x)
             /\ TypeCheck(x)' = TypeCheck(x)
  BY <1>1, <1>20 DEF SetCheck, FutureCheck, TypeCheck
<1>5. \A x : TaskCheck(x)' = TaskCheck(x)
  BY DEF TaskCheck, FutureCheck, HeaderOK, Readable, Intact, Ref
<1>6. \A x : FrameCheck(x)' = FrameCheck(x)
  BY DEF FrameCheck, IsA, LocalCheck, Varnames, Ref, TupleCheck, ItemsCheck, ItemCheck, HeaderOK,
         Readable, Intact
<1>7. \A x : UserCheck(x)' = UserCheck(x)
  <2>. SUFFICES ASSUME NEW x PROVE UserCheck(x)' = UserCheck(x)  OBVIOUS
  <2>1. PICK d : d = Ref(x, "dict")  OBVIOUS
  <2>2. Ref(x, "dict")' = d  BY <1>2, <2>1
  <2>3. DictCheck(d)' = DictCheck(d) /\ Readable(d)' = Readable(d)  BY <1>1, <1>3
  <2>4. ItemsCheck(heap[x].items)' = ItemsCheck(heap[x].items)  BY <1>1 DEF ItemsCheck
  <2>. QED BY <2>1, <2>2, <2>3, <2>4 DEF UserCheck
<1>8. \A x : ObjectCheck(x)' = ObjectCheck(x)
  BY <1>1, <1>3, <1>4, <1>5, <1>6 DEF ObjectCheck, Intact
<1>9. \A x, k : EnvironmentCheck(x, k)' = EnvironmentCheck(x, k)
  BY <1>1, <1>7, <1>8 DEF EnvironmentCheck
<1>10. \A x : ThreadCheck(x)' = ThreadCheck(x)
  BY <1>1, <1>2, <1>9 DEF ThreadCheck
<1>11. \A x : InvalidReason(x)' = InvalidReason(x)
  BY <1>8, <1>10 DEF InvalidReason
<1>12. Sound(o)' = Sound(o) /\ Expandable(o)' = Expandable(o)
  BY <1>1, <1>11 DEF Sound, Expandable
<1>13. Parts(o, TRUE)' = Parts(o, TRUE) /\ Parts(o, FALSE)' = Parts(o, FALSE)
  <2>1. \A x, names : Fields(x, names)' = Fields(x, names)  BY DEF Fields, Ref
  <2>2. /\ TupleItems(o)' = TupleItems(o) /\ ListItems(o)' = ListItems(o)
        /\ SetItems(o)' = SetItems(o) /\ DictItems(o)' = DictItems(o)
    BY DEF TupleItems, ListItems, SetItems, DictItems
  <2>3. GeneratorItems(o)' = GeneratorItems(o)  BY <2>1 DEF GeneratorItems
  <2>4. \A x : WhereItems(x)' = WhereItems(x)  BY DEF WhereItems, Ref
  <2>5. CoroutineParts(o)' = CoroutineParts(o)
    <3>1. PICK f : f = Ref(o, "gi_frame")  OBVIOUS
    <3>2. Ref(o, "gi_frame")' = f  BY <1>2, <3>1
    <3>3. WherePart(f)' = WherePart(f)  BY <1>1, <1>2, <1>6, <2>4 DEF WherePart
    <3>. QED BY <2>1, <2>3, <3>1, <3>2, <3>3 DEF CoroutineParts
  <2>6. LocalItems(o)' = LocalItems(o)  BY DEF LocalItems, Varnames, Ref
  <2>7. FrameParts(o)' = FrameParts(o)  BY <2>1, <2>4, <2>6 DEF FrameParts
  <2>8. FutureItems(o)' = FutureItems(o)  BY <2>1 DEF FutureItems, Fields, Ref
  <2>9. TaskItems(o)' = TaskItems(o)  BY <2>8 DEF TaskItems, Fields, Ref
  <2>10. GatherParts(o)' = GatherParts(o)  BY <2>8 DEF GatherParts
  <2>11. ThreadItems(o)' = ThreadItems(o)  BY <2>1 DEF ThreadItems
  <2>12. CodeItems(o, TRUE)' = CodeItems(o, TRUE) /\ CodeItems(o, FALSE)' = CodeItems(o, FALSE)
    BY DEF CodeItems, Fields, Ref
  <2>13. TypeParts(o)' = TypeParts(o) /\ UserParts(o)' = UserParts(o)
    BY <2>1 DEF TypeParts, UserParts
  <2>. QED BY <2>1, <2>2, <2>3, <2>5, <2>7, <2>8, <2>9, <2>10, <2>11, <2>12, <2>13 DEF Parts
<1>14. ChildrenAs(o, TRUE)' = ChildrenAs(o, TRUE) /\ ChildrenAs(o, FALSE)' = ChildrenAs(o, FALSE)
  BY <1>13 DEF ChildrenAs, Container
<1>. QED BY <1>11, <1>12, <1>14

LEMMA ItemsOfPlain ==
  ASSUME NEW items
  PROVE  ItemsIn(<<Plain(items)>>) = Elements(items)
<1> DEFINE ps == <<Plain(items)>>
<1>1. Len(ps) = 1 /\ ps[1].items = items /\ 1 .. 1 = {1}  BY DEF Plain
<1>. HIDE DEF ps
<1>2. ItemsIn(ps) = Elements(items)  BY <1>1 DEF ItemsIn
<1>. QED BY <1>2 DEF ps

\* Without limits repr prints the children of an object, or, of a set, those that are
\* not null.
LEMMA PartsAreChildren ==
  ASSUME heap \in Heaps, setting \in Settings, setting.max_entries = -1,
         NEW o \in DOMAIN heap, heap[o].kind # "scalar", InvalidReason(o) = "ok",
         NEW r \in BOOLEAN
  PROVE  /\ ItemsIn(Parts(o, r)) \subseteq ChildrenAs(o, r)
         /\ ChildrenAs(o, r) \subseteq ItemsIn(Parts(o, r)) \cup {Null}
<1> DEFINE items == heap[o].items
<1>1. CASE Container(o)
  <2>1. items \in Seq(Nat) /\ IsSeq(items)  BY ItemsSeq, HeapsAssumption
  <2>2. ChildrenAs(o, r) = Elements(items)  BY <1>1, <2>1, ToSetIs DEF ChildrenAs
  <2>3. \A s : FirstEntries(s, -1) = s /\ FirstEntries(s, 2 * (-1)) = s  BY DEF FirstEntries
  <2>4. PICK x : Parts(o, r) = <<Plain(x)>> /\ x \in {items, NonNull(items)}
    BY <1>1, <2>3 DEF Parts, Container, TupleItems, ListItems, SetItems, DictItems
  <2>5. Elements(x) \subseteq Elements(items) /\ Elements(items) \subseteq Elements(x) \cup {Null}
    BY <2>1, <2>4, NonNullItems
  <2>6. ItemsIn(Parts(o, r)) = Elements(x)  BY <2>4, ItemsOfPlain
  <2>. QED BY <2>2, <2>5, <2>6
<1>2. CASE ~Container(o)
  <2> DEFINE ps == Parts(o, r)
  <2>1. IsParts(ps)  BY PartsFresh DEF Fresh
  <2>2. ChildrenAs(o, r) = UNION {ToSet(p.items) : p \in ToSet(ps)}  BY <1>2 DEF ChildrenAs
  <2>. HIDE DEF ps
  <2>3. ToSet(ps) = {ps[j] : j \in 1 .. Len(ps)}  BY <2>1, ToSetIs DEF IsParts, Elements
  <2>4. \A j \in 1 .. Len(ps) : ToSet(ps[j].items) = Elements(ps[j].items)
    BY <2>1, ToSetIs DEF IsParts, IsPart
  <2>5. ChildrenAs(o, r) = ItemsIn(ps)  BY <2>2, <2>3, <2>4 DEF ItemsIn
  <2>. QED BY <2>5 DEF ps
<1>. QED BY <1>1, <1>2

\* Only a code object has more children as a root.
LEMMA RootsChildren ==
  ASSUME heap \in Heaps, NEW o \in DOMAIN heap
  PROVE  /\ ChildrenAs(o, FALSE) \subseteq ChildrenAs(o, TRUE)
         /\ heap[o].kind # "code" => ChildrenAs(o, FALSE) = ChildrenAs(o, TRUE)
<1>1. CASE heap[o].kind # "code"
  <2>1. Parts(o, FALSE) = Parts(o, TRUE)  BY <1>1 DEF Parts
  <2>. QED BY <2>1 DEF ChildrenAs
<1>2. CASE heap[o].kind = "code"
  <2> DEFINE names(r) == <<"co_name", "co_filename">> \o
               (IF r THEN <<"co_code", "co_consts", "co_names", "co_varnames", "co_linetable",
                            "co_weakreflist">> ELSE <<>>)
             all(r) == {Ref(o, names(r)[i]) : i \in DOMAIN names(r)}
  <2>1. ASSUME NEW r \in BOOLEAN PROVE ChildrenAs(o, r) = all(r)
    <3>1. Parts(o, r) = <<Plain(CodeItems(o, r))>> /\ ~Container(o)  BY <1>2 DEF Parts, Container
    <3>2. ToSet(<<Plain(CodeItems(o, r))>>) = {Plain(CodeItems(o, r))}
      <4> DEFINE p == Plain(CodeItems(o, r))
      <4>1. DOMAIN <<p>> = {1} /\ <<p>>[1] = p  OBVIOUS
      <4>. HIDE DEF p
      <4>2. ToSet(<<p>>) = {p}  BY <4>1 DEF ToSet
      <4>. QED BY <4>2 DEF p
    <3>3. Plain(CodeItems(o, r)).items = CodeItems(o, r)  BY DEF Plain
    <3>4. ChildrenAs(o, r) = ToSet(CodeItems(o, r))  BY <3>1, <3>2, <3>3 DEF ChildrenAs
    <3>5. CodeItems(o, r) = Fields(o, names(r))  BY DEF CodeItems
    <3>. HIDE DEF names
    <3>6. ToSet(Fields(o, names(r))) = all(r)  BY DEF ToSet, Fields
    <3>. QED BY <3>4, <3>5, <3>6
  <2>2. \A i \in DOMAIN names(FALSE) : i \in DOMAIN names(TRUE) /\ names(TRUE)[i] = names(FALSE)[i]
    <3> DEFINE N == {"co_name", "co_filename", "co_code", "co_consts", "co_names", "co_varnames",
                     "co_linetable", "co_weakreflist"}
               x == <<"co_name", "co_filename">>
               y == <<"co_code", "co_consts", "co_names", "co_varnames", "co_linetable",
                      "co_weakreflist">>
    <3>1. x \in Seq(N) /\ Len(x) = 2 /\ <<>> \in Seq(N) /\ Len(<<>>) = 0  OBVIOUS
    <3>2. y \in Seq(N) /\ Len(y) = 6  OBVIOUS
    <3>3. names(FALSE) = x \o <<>> /\ names(TRUE) = x \o y  OBVIOUS
    <3>. HIDE DEF N, x, y, names
    <3>4. ASSUME NEW z \in Seq(N), Len(z) \in {0, 6}
          PROVE  DOMAIN (x \o z) = 1 .. 2 + Len(z) /\ \A i \in 1 .. 2 : (x \o z)[i] = x[i]
      <4>1. /\ x \o z \in Seq(N) /\ Len(x \o z) = Len(x) + Len(z)
            /\ \A i \in 1 .. Len(x) + Len(z) :
                 (x \o z)[i] = IF i <= Len(x) THEN x[i] ELSE z[i - Len(x)]
        BY <3>1, ConcatProperties
      <4>2. DOMAIN (x \o z) = 1 .. 2 + Len(z)  BY <3>1, <4>1, LenProperties
      <4>3. \A i \in 1 .. 2 : i \in 1 .. 2 + Len(z) /\ i <= 2  BY <3>4
      <4>4. \A i \in 1 .. 2 : (x \o z)[i] = x[i]  BY <3>1, <4>1, <4>3
      <4>. QED BY <4>2, <4>4
    <3>5. DOMAIN names(FALSE) = 1 .. 2 + 0 /\ \A i \in 1 .. 2 : names(FALSE)[i] = x[i]
      BY <3>1, <3>3, <3>4
    <3>6. DOMAIN names(TRUE) = 1 .. 2 + 6 /\ \A i \in 1 .. 2 : names(TRUE)[i] = x[i]
      BY <3>2, <3>3, <3>4
    <3>7. 1 .. 2 + 0 = 1 .. 2 /\ 1 .. 2 \subseteq 1 .. 2 + 6  OBVIOUS
    <3>. QED BY <3>5, <3>6, <3>7
  <2>. HIDE DEF names
  <2>4. all(FALSE) \subseteq all(TRUE)  BY <2>2
  <2>. QED BY <1>2, <2>1, <2>4
<1>. QED BY <1>1, <1>2

\* The null pointer is printed, and is no child to look at.
LEMMA NullHandled ==
  ASSUME heap \in Heaps
  PROVE  Handled(Null)
<1>1. Null \notin DOMAIN heap  BY HeapsAssumption
<1>. QED BY <1>1 DEF Handled, Expandable, Readable, Sound

----------------------------------------------------------------------------
(* What is still to be printed. *)

LEMMA ToComeAppend ==
  ASSUME NEW c, IsSeq(c), NEW a, NEW p
  PROVE  ToCome(Append(c, a), p) =
           ToCome(c, p) \cup (IF a.obj = p THEN ItemsIn(a.parts) ELSE {})
<1> DEFINE t == Append(c, a)
           n == Len(c)
<1>1. /\ n \in Nat /\ Len(t) = n + 1 /\ t[n + 1] = a
      /\ \A i \in 1 .. n : t[i] = c[i]
  BY AppendSeq
<1>. HIDE DEF t
<1>2. 1 .. Len(t) = 1 .. n \cup {n + 1}  BY <1>1
<1>3. {i \in 1 .. Len(t) : t[i].obj = p} =
        {i \in 1 .. n : c[i].obj = p} \cup (IF a.obj = p THEN {n + 1} ELSE {})
  BY <1>1, <1>2
<1>4. ToCome(t, p) = ToCome(c, p) \cup (IF a.obj = p THEN ItemsIn(a.parts) ELSE {})
  <2>1. \A x : x \in ToCome(t, p) <=>
          x \in ToCome(c, p) \cup (IF a.obj = p THEN ItemsIn(a.parts) ELSE {})
    BY <1>1, <1>3 DEF ToCome
  <2>. QED BY <2>1
<1>. QED BY <1>4 DEF t

LEMMA HeadAndTail ==
  ASSUME NEW s, IsSeq(s), s # <<>>
  PROVE  Elements(s) = {Head(s)} \cup Elements(Tail(s))
<1> DEFINE t == Tail(s)
<1>1. /\ Len(s) \in Nat \ {0} /\ Head(s) = s[1] /\ Len(t) = Len(s) - 1
      /\ \A i \in 1 .. Len(s) - 1 : t[i] = s[i + 1]
  BY TailSeq
<1>. HIDE DEF t
<1>2. \A i \in 1 .. Len(t) : t[i] = s[i + 1] /\ i + 1 \in 1 .. Len(s)  BY <1>1
<1>3. ASSUME NEW j \in 1 .. Len(s) PROVE j = 1 \/ (t[j - 1] = s[j] /\ j - 1 \in 1 .. Len(t))
  <2>1. CASE j = 1  BY <2>1
  <2>2. CASE j # 1
    <3>1. j - 1 \in 1 .. Len(s) - 1 /\ (j - 1) + 1 = j  BY <1>1, <2>2
    <3>2. t[j - 1] = s[(j - 1) + 1]  BY <1>1, <3>1
    <3>. QED BY <1>1, <3>1, <3>2
  <2>. QED BY <2>1, <2>2
<1>4. 1 \in 1 .. Len(s)  BY <1>1
<1>5. Elements(s) = {s[1]} \cup Elements(t)  BY <1>2, <1>3, <1>4 DEF Elements
<1>. QED BY <1>1, <1>5 DEF t

\* The items of the first part, and of the others.
OtherItems(ps) == UNION {Elements(ps[j].items) : j \in 2 .. Len(ps)}

LEMMA ItemsSplit ==
  ASSUME NEW ps, Len(ps) \in Nat \ {0}
  PROVE  ItemsIn(ps) = Elements(ps[1].items) \cup OtherItems(ps)
<1>1. 1 .. Len(ps) = {1} \cup 2 .. Len(ps)  OBVIOUS
<1>. QED BY <1>1 DEF ItemsIn, OtherItems

LEMMA ItemsReplaced ==
  ASSUME NEW ps, IsSeq(ps), ps # <<>>, NEW x
  PROVE  /\ ItemsIn(ps) = Elements(ps[1].items) \cup OtherItems(ps)
         /\ ItemsIn(<<x>> \o Tail(ps)) = Elements(x.items) \cup OtherItems(ps)
         /\ ItemsIn(Tail(ps)) = OtherItems(ps)
<1> DEFINE r == <<x>> \o Tail(ps)
           t == Tail(ps)
<1>1. /\ Len(ps) \in Nat \ {0} /\ Len(t) = Len(ps) - 1
      /\ \A i \in 1 .. Len(ps) - 1 : t[i] = ps[i + 1]
  BY TailSeq
<1>2. /\ Len(r) = Len(ps) /\ r[1] = x
      /\ \A i \in 2 .. Len(ps) : r[i] = ps[i]
  BY HeadReplaced
<1>. HIDE DEF r, t
<1>3. OtherItems(r) = OtherItems(ps)  BY <1>2 DEF OtherItems
<1>4. ItemsIn(r) = Elements(x.items) \cup OtherItems(ps)  BY <1>1, <1>2, <1>3, ItemsSplit
<1>5. ItemsIn(t) = OtherItems(ps)
  <2>1. \A y : y \in ItemsIn(t) => y \in OtherItems(ps)
    <3>1. \A i \in 1 .. Len(t) : t[i] = ps[i + 1] /\ i + 1 \in 2 .. Len(ps)  BY <1>1
    <3>. QED BY <3>1 DEF ItemsIn, OtherItems
  <2>2. \A y : y \in OtherItems(ps) => y \in ItemsIn(t)
    <3>1. \A j \in 2 .. Len(ps) : t[j - 1] = ps[j] /\ j - 1 \in 1 .. Len(t)
      <4>1. SUFFICES ASSUME NEW j \in 2 .. Len(ps)
                     PROVE  t[j - 1] = ps[j] /\ j - 1 \in 1 .. Len(t)
        OBVIOUS
      <4>2. j - 1 \in 1 .. Len(ps) - 1 /\ (j - 1) + 1 = j  BY <1>1
      <4>3. t[j - 1] = ps[(j - 1) + 1]  BY <1>1, <4>2
      <4>. QED BY <1>1, <4>2, <4>3
    <3>. QED BY <3>1 DEF ItemsIn, OtherItems
  <2>. QED BY <2>1, <2>2
<1>. QED BY <1>1, <1>4, <1>5, ItemsSplit DEF r, t

LEMMA NothingToCome == \A p : ToCome(<<>>, p) = {}
<1>1. 1 .. Len(<<>>) = {}  OBVIOUS
<1>. QED BY <1>1 DEF ToCome

\* A root more has no child less.
LEMMA ChildrenKept ==
  ASSUME heap \in Heaps, heap' = heap, setting' = setting, roots \subseteq roots',
         NEW p \in DOMAIN heap
  PROVE  /\ Children(p) \subseteq Children(p)'
         /\ ChildrenAs(p, FALSE) \subseteq Children(p)'
         /\ Children(p)' \subseteq ChildrenAs(p, TRUE)
         /\ p \notin roots' => Children(p)' = ChildrenAs(p, FALSE)
         /\ p \in roots' => Children(p)' = ChildrenAs(p, TRUE)
         /\ (p \in roots <=> p \in roots') \/ heap[p].kind # "code" => Children(p)' = Children(p)
<1>1. /\ ChildrenAs(p, FALSE) \subseteq ChildrenAs(p, TRUE)
      /\ heap[p].kind # "code" => ChildrenAs(p, FALSE) = ChildrenAs(p, TRUE)
  BY RootsChildren
<1>2. ChildrenAs(p, TRUE)' = ChildrenAs(p, TRUE) /\ ChildrenAs(p, FALSE)' = ChildrenAs(p, FALSE)
  BY SameHeap
<1>3. /\ Children(p) = IF p \in roots THEN ChildrenAs(p, TRUE) ELSE ChildrenAs(p, FALSE)
      /\ Children(p)' = IF p \in roots' THEN ChildrenAs(p, TRUE) ELSE ChildrenAs(p, FALSE)
  BY <1>2, ChildrenRoots
<1>4. CASE p \in roots'  BY <1>1, <1>3, <1>4
<1>5. CASE p \notin roots'  BY <1>1, <1>3, <1>5
<1>. QED BY <1>4, <1>5

\* Without limits nothing is cut short.
LEMMA Unbounded ==
  ASSUME IInv, XInv, Unlimited, ~throwing
  PROVE  RecursionAllowed /\ in_progress \subseteq expanded
<1>1. max_recursion_depth = Limit(stack) /\ StackOK(stack)  BY DEF IInv
<1>2. max_recursion_depth = -1
  <2>1. SUFFICES ASSUME NEW i \in 1 .. Len(stack) PROVE ~stack[i].parts[1].limits
    BY <1>1 DEF Limit, Limits, Unlimited
  <2>2. IsActivation(stack[i])  BY <1>1 DEF StackOK
  <2>3. 1 \in 1 .. Len(stack[i].parts)  BY <2>2, SeqIsSeq DEF IsActivation, IsParts, IsSeq
  <2>4. heap[stack[i].obj].kind = "type" => i = 1  BY <1>1 DEF StackOK, Unlimited
  <2>5. stack # <<>>
    <3>1. IsSeq(stack) /\ Len(<<>>) = 0 /\ 1 .. 0 = {}  BY <1>1 DEF StackOK
    <3>. QED BY <3>1
  <2>6. i = 1 => heap[stack[i].obj].kind # "type"  BY <2>5 DEF XInv, Expansions, Unlimited
  <2>. QED BY <2>2, <2>3, <2>4, <2>6 DEF IsActivation
<1>3. in_progress \subseteq expanded  BY DEF IInv, GuardedIn, XInv, Expansions
<1>. QED BY <1>2, <1>3 DEF RecursionAllowed

\* What repr expands, without limits.
LEMMA CallExpands ==
  ASSUME heap \in Heaps, RecursionAllowed, NEW o, NEW c, Call(o, c)
  PROVE  /\ \/ /\ o \in DOMAIN heap /\ heap[o].state # "bad_type"
               /\ InvalidReason(o) = "ok" /\ ~Refused(o)
               /\ stack' = Append(c, Activation(o)) /\ expanded' = expanded \cup {o}
            \/ stack' = c /\ expanded' = expanded
         /\ Expandable(o) /\ o \notin in_progress => o \in expanded' /\ ~Refused(o)
         /\ is_valid' = (is_valid /\ Sound(o))
         /\ heap' = heap /\ setting' = setting
<1>1. Null \notin DOMAIN heap  BY HeapsAssumption
<1>2. Expandable(o) /\ o \notin in_progress => ~Refused(o)  BY DEF Expandable, Refused
<1>3. is_valid' = (is_valid /\ Sound(o)) /\ heap' = heap /\ setting' = setting
  BY DEF Call, StillValid
<1>4. CASE o = Null \/ ~Readable(o) \/ heap[o].state = "bad_type"
  BY <1>1, <1>3, <1>4 DEF Call, Expandable, Readable
<1>5. CASE Readable(o) /\ o # Null /\ heap[o].state # "bad_type"
  BY <1>2, <1>3, <1>5 DEF Call, Expandable, Readable
<1>. QED BY <1>4, <1>5

LEMMA CallPushes ==
  ASSUME heap \in Heaps, NEW o \in DOMAIN heap, NEW c, Call(o, c),
         heap[o].state # "bad_type", InvalidReason(o) = "ok", ~Refused(o)
  PROVE  stack' = Append(c, Activation(o))
<1>1. Null \notin DOMAIN heap  BY HeapsAssumption
<1>. QED BY <1>1 DEF Call, Readable

\* What is to come is in the stack only.
LEMMA ToComePrimed == \A p : ToCome(stack, p)' = ToCome(stack', p)
BY DEF ToCome, ItemsIn

\* A call leaves nothing out, if what it leaves of its caller's items is all but
\* the object.
LEMMA CallExplores ==
  ASSUME heap \in Heaps, setting \in Settings, setting.max_entries = -1,
         RecursionAllowed, in_progress \subseteq expanded,
         \A p \in expanded : heap[p].state # "bad_type" /\ InvalidReason(p) = "ok",
         NEW o, NEW c, IsSeq(c), Call(o, c),
         roots \subseteq roots', roots' \subseteq DOMAIN heap, expanded \subseteq DOMAIN heap,
         \A p \in roots' : heap[p].kind # "type",
         \A p \in roots' : Handled(p) \/ p = o,
         \A p \in expanded : \A x \in Children(p)' :
            \/ Handled(x) \/ x = o \/ x \in ToCome(c, p)
            \/ p = o /\ in_progress = {} /\ ~Refused(o),
         \A p \in expanded \cup {o} : ToCome(c, p) \subseteq Children(p)',
         o \in roots' /\ in_progress # {} /\ Expandable(o) => o \in expanded,
         o \in DOMAIN heap /\ heap[o].kind = "code" /\ in_progress = {} => o \in roots',
         o \in roots' \/ (\E p \in expanded : o \in Children(p)'),
         is_valid \/ Broken
  PROVE  Exploring(stack)'
<1> DEFINE r == in_progress = {}
           a == Activation(o)
<1>1. /\ \/ /\ o \in DOMAIN heap /\ heap[o].state # "bad_type"
            /\ InvalidReason(o) = "ok" /\ ~Refused(o)
            /\ stack' = Append(c, a) /\ expanded' = expanded \cup {o}
         \/ stack' = c /\ expanded' = expanded
      /\ Expandable(o) /\ o \notin in_progress => o \in expanded' /\ ~Refused(o)
      /\ is_valid' = (is_valid /\ Sound(o))
      /\ heap' = heap /\ setting' = setting
  BY CallExpands
<1>2. expanded \subseteq expanded' /\ expanded' \subseteq DOMAIN heap  BY <1>1
<1>3. \A x : Sound(x)' = Sound(x) /\ Expandable(x)' = Expandable(x)  BY <1>1, SameHeap
<1>4. \A x : Handled(x) \/ x = o => Handled(x)'
  <2>1. Expandable(o) => o \in expanded'  BY <1>1, <1>2
  <2>. QED BY <1>1, <1>2, <1>3, <2>1 DEF Handled
<1>5. \A p \in DOMAIN heap :
        /\ Children(p) \subseteq Children(p)'
        /\ ChildrenAs(p, FALSE) \subseteq Children(p)'
        /\ Children(p)' \subseteq ChildrenAs(p, TRUE)
        /\ p \notin roots' => Children(p)' = ChildrenAs(p, FALSE)
        /\ p \in roots' => Children(p)' = ChildrenAs(p, TRUE)
  BY <1>1, ChildrenKept
<1>6. a.obj = o /\ a.parts = Parts(o, r)  BY DEF Activation
<1>. HIDE DEF a
<1>7. ASSUME NEW p, NEW x, x \in ToCome(c, p) PROVE x \in ToCome(stack', p)
  <2>1. x \in ToCome(Append(c, a), p)  BY <1>7, ToComeAppend
  <2>. QED BY <1>1, <1>7, <2>1
<1>8. ASSUME stack' = Append(c, a), o \in DOMAIN heap, InvalidReason(o) = "ok", ~Refused(o)
      PROVE  /\ ItemsIn(a.parts) \subseteq ToCome(stack', o)
             /\ ItemsIn(a.parts) \subseteq ChildrenAs(o, r)
             /\ ChildrenAs(o, r) \subseteq ItemsIn(a.parts) \cup {Null}
  <2>1. ItemsIn(a.parts) \subseteq ToCome(stack', o)  BY <1>6, <1>8, ToComeAppend
  <2>2. heap[o].kind # "scalar"  BY <1>8, NotRefused
  <2>. QED BY <1>6, <1>8, <2>1, <2>2, PartsAreChildren
<1>9. Handled(Null)' /\ \A x \in {Null} : Handled(x)'
  BY <1>4, NullHandled
<1>10. ASSUME NEW p \in roots' PROVE Handled(p)'  BY <1>4
<1>11. ASSUME NEW p \in expanded', NEW x \in Children(p)'
       PROVE  Handled(x)' \/ x \in ToCome(stack', p)
  <2>1. CASE p \in expanded /\ ~(p = o /\ in_progress = {} /\ ~Refused(o))
    BY <1>4, <1>7, <2>1
  <2>2. CASE p = o /\ in_progress = {} /\ ~Refused(o)
    <3>1. o \in DOMAIN heap /\ InvalidReason(o) = "ok" /\ stack' = Append(c, a)
      <4>1. CASE o \in expanded
        <5>1. o \in DOMAIN heap /\ InvalidReason(o) = "ok" /\ heap[o].state # "bad_type"
          BY <4>1
        <5>. QED BY <1>1, <2>2, <5>1, CallPushes DEF a
      <4>2. CASE o \notin expanded  BY <1>1, <2>2, <4>2
      <4>. QED BY <4>1, <4>2
    <3>2. r = TRUE  BY <2>2
    <3>3. x \in ChildrenAs(o, r)  BY <1>5, <2>2, <3>1, <3>2
    <3>4. x \in ItemsIn(a.parts) \cup {Null}  BY <1>8, <2>2, <3>1, <3>3
    <3>. QED BY <1>8, <1>9, <2>2, <3>1, <3>4
  <2>3. CASE p \notin expanded /\ ~(in_progress = {})
    <3>1. /\ p = o /\ o \in DOMAIN heap /\ InvalidReason(o) = "ok" /\ ~Refused(o)
          /\ heap[o].state # "bad_type" /\ stack' = Append(c, a)
      BY <1>1, <2>3
    <3>2. Expandable(o)  BY <2>3, <3>1 DEF Expandable, Refused, Readable
    <3>3. o \notin roots'  BY <2>3, <3>1, <3>2
    <3>4. r = FALSE  BY <2>3
    <3>5. x \in ChildrenAs(o, r)  BY <1>5, <3>1, <3>3, <3>4
    <3>6. x \in ItemsIn(a.parts) \cup {Null}  BY <1>8, <3>1, <3>5
    <3>. QED BY <1>8, <1>9, <3>1, <3>6
  <2>4. CASE p \notin expanded /\ in_progress = {}
    <3>1. p = o /\ ~Refused(o)  BY <1>1, <2>4
    <3>. QED BY <2>2, <2>4, <3>1
  <2>. QED BY <2>1, <2>2, <2>3, <2>4
<1>12. ASSUME NEW p \in expanded'
       PROVE  ToCome(stack', p) \subseteq Children(p)'
  <2>1. ToCome(c, p) \subseteq Children(p)'  BY <1>1, <1>12
  <2>2. CASE stack' = c  BY <2>1, <2>2
  <2>3. CASE stack' = Append(c, a) /\ stack' # c
    <3>1. o \in DOMAIN heap /\ InvalidReason(o) = "ok" /\ ~Refused(o)  BY <1>1, <2>3
    <3>2. ItemsIn(a.parts) \subseteq ChildrenAs(o, r)  BY <1>8, <2>3, <3>1
    <3>3. ChildrenAs(o, r) \subseteq Children(o)'
      <4>1. CASE r
        <5>1. r = TRUE  BY <4>1
        <5>2. CASE heap[o].kind = "code"  BY <1>5, <3>1, <4>1, <5>1, <5>2
        <5>3. CASE heap[o].kind # "code"
          <6>1. ChildrenAs(o, FALSE) = ChildrenAs(o, TRUE)  BY <3>1, <5>3, RootsChildren
          <6>. QED BY <1>5, <3>1, <5>1, <6>1
        <5>. QED BY <5>2, <5>3
      <4>2. CASE ~r
        <5>1. r = FALSE  BY <4>2
        <5>. QED BY <1>5, <3>1, <5>1
      <4>. QED BY <4>1, <4>2
    <3>4. ToCome(Append(c, a), p) = ToCome(c, p) \cup (IF o = p THEN ItemsIn(a.parts) ELSE {})
      BY <1>6, ToComeAppend
    <3>. QED BY <2>1, <2>3, <3>2, <3>3, <3>4
  <2>. QED BY <1>1, <2>2, <2>3
<1>13. is_valid' \/ Broken'
  <2>1. SUFFICES ASSUME ~is_valid' PROVE Broken'  OBVIOUS
  <2>2. CASE ~is_valid  BY <1>2, <1>3, <1>5, <2>2 DEF Broken
  <2>3. CASE ~Sound(o)  BY <1>2, <1>3, <2>3 DEF Broken
  <2>. QED BY <1>1, <2>1, <2>2, <2>3
<1>. QED BY <1>10, <1>11, <1>12, <1>13, ToComePrimed DEF Exploring

\* What a call expands, from a stack of objects that are expanded.
LEMMA CallKeepsExpansions ==
  ASSUME IInv, Expansions, NEW o, NEW c, IsSeq(c), Call(o, c), roots \subseteq roots',
         \A i \in 1 .. Len(c) : c[i].obj \in expanded,
         IF c = <<>> THEN o \in roots' ELSE c[1].obj \in roots
  PROVE  Expansions'
<1> DEFINE a == Activation(o)
<1>1. heap' = heap /\ setting' = setting /\ expanded \subseteq expanded'  BY DEF Call
<1>2. \/ /\ o \in DOMAIN heap /\ heap[o].state # "bad_type" /\ InvalidReason(o) = "ok"
         /\ stack' = Append(c, a) /\ expanded' = expanded \cup {o}
      \/ stack' = c /\ expanded' = expanded
  <2>1. CASE o = Null \/ ~Readable(o) \/ heap[o].state = "bad_type"  BY <2>1 DEF Call
  <2>2. CASE Readable(o) /\ o # Null /\ heap[o].state # "bad_type"
    BY <2>2 DEF Call, Readable
  <2>. QED BY <2>1, <2>2
<1>3. a.obj = o  BY DEF Activation
<1>. HIDE DEF a
<1>4. ASSUME NEW p \in expanded' PROVE heap[p].state # "bad_type" /\ InvalidReason(p)' = "ok"
  <2>1. InvalidReason(p)' = InvalidReason(p)  BY <1>1, SameHeap
  <2>. QED BY <1>2, <1>4, <2>1 DEF Expansions
<1>5. Len(c) \in Nat /\ (c # <<>> <=> Len(c) > 0)  BY SeqIsSeq DEF IsSeq
<1>6. /\ \A i \in 1 .. Len(stack') : stack'[i].obj \in expanded'
      /\ stack' # <<>> => stack'[1].obj \in roots'
  <2>1. CASE stack' = c  BY <1>1, <2>1
  <2>2. CASE stack' = Append(c, a) /\ expanded' = expanded \cup {o}
    <3> DEFINE t == Append(c, a)
    <3>1. /\ Len(t) = Len(c) + 1 /\ t[Len(c) + 1] = a
          /\ \A j \in 1 .. Len(c) : t[j] = c[j]
      BY AppendSeq
    <3>. HIDE DEF t
    <3>2. \A i \in 1 .. Len(t) : i \in 1 .. Len(c) \/ i = Len(c) + 1  BY <1>5, <3>1
    <3>3. \A i \in 1 .. Len(t) : t[i].obj \in expanded'  BY <1>3, <2>2, <3>1, <3>2
    <3>4. t[1].obj \in roots'
      <4>1. CASE c = <<>>
        <5>1. Len(c) + 1 = 1  BY <1>5, <4>1
        <5>2. t[1] = a  BY <3>1, <5>1
        <5>. QED BY <1>3, <4>1, <5>2
      <4>2. CASE c # <<>>
        <5>1. 1 \in 1 .. Len(c)  BY <1>5, <4>2
        <5>. QED BY <3>1, <4>2, <5>1
      <4>. QED BY <4>1, <4>2
    <3>5. stack' = t  BY <2>2 DEF t
    <3>. QED BY <3>3, <3>4, <3>5
  <2>. QED BY <1>2, <2>1, <2>2
<1>. QED BY <1>1, <1>4, <1>6 DEF Expansions

\* The stack, and one whose top has other parts to print.
LEMMA TopReplaced ==
  ASSUME IInv, stack # <<>>, NEW ps
  PROVE  LET t == Append(Callers, [Top EXCEPT !.parts = ps])
         IN /\ IsSeq(t) /\ Len(t) = Len(stack) /\ t # <<>>
            /\ \A i \in 1 .. Len(t) : t[i].obj = stack[i].obj
            /\ \A p : ToCome(t, p) =
                         ToCome(Callers, p) \cup (IF Top.obj = p THEN ItemsIn(ps) ELSE {})
            /\ \A p : ToCome(stack, p) =
                         ToCome(Callers, p) \cup (IF Top.obj = p THEN ItemsIn(Top.parts) ELSE {})
<1> DEFINE a == Top
           b == [a EXCEPT !.parts = ps]
           t == Append(Callers, b)
<1>1. StackOK(stack) /\ IsSeq(stack) /\ Distinct(stack)  BY DEF IInv, StackOK
<1>2. /\ Len(stack) \in Nat \ {0} /\ IsSeq(Callers) /\ Len(Callers) = Len(stack) - 1
      /\ \A i \in 1 .. Len(stack) - 1 : Callers[i] = stack[i]
  BY <1>1, FrontSeq DEF Callers
<1>3. stack = Append(Callers, Top)  BY <1>1, FrontAndLast DEF Callers, Top
<1>4. IsActivation(a)  BY TopOK
<1>5. b = [obj |-> a.obj, parts |-> ps, guarded |-> a.guarded, indent |-> a.indent]
  <2>1. a = [obj |-> a.obj, parts |-> a.parts, guarded |-> a.guarded, indent |-> a.indent]
    BY <1>4 DEF IsActivation
  <2>. HIDE DEF a
  <2>. QED BY <2>1
<1>. HIDE DEF b
<1>6. b.obj = a.obj /\ b.parts = ps  BY <1>5
<1>7. /\ IsSeq(t) /\ Len(t) = Len(Callers) + 1 /\ t[Len(Callers) + 1] = b
      /\ \A i \in 1 .. Len(Callers) : t[i] = Callers[i]
  BY <1>2, AppendSeq
<1>8. \A p : ToCome(t, p) = ToCome(Callers, p) \cup (IF b.obj = p THEN ItemsIn(b.parts) ELSE {})
  BY <1>2, ToComeAppend
<1>9. \A p : ToCome(stack, p) =
               ToCome(Callers, p) \cup (IF Top.obj = p THEN ItemsIn(Top.parts) ELSE {})
  BY <1>2, <1>3, ToComeAppend
<1>. HIDE DEF t
<1>10. Len(t) = Len(stack) /\ t # <<>>
  <2>1. Len(t) = Len(stack) /\ Len(t) > 0  BY <1>2, <1>7
  <2>. QED BY <1>7, <2>1, SeqIsSeq DEF IsSeq
<1>11. ASSUME NEW i \in 1 .. Len(t) PROVE t[i].obj = stack[i].obj
  <2>1. CASE i \in 1 .. Len(Callers)
    <3>1. i \in 1 .. Len(stack) - 1  BY <1>2, <2>1
    <3>. QED BY <1>2, <1>7, <2>1, <3>1
  <2>2. CASE i = Len(Callers) + 1
    <3>1. i = Len(stack)  BY <1>2, <2>2
    <3>. QED BY <1>6, <1>7, <2>2, <3>1 DEF Top
  <2>. QED BY <1>2, <1>7, <1>11, <2>1, <2>2
<1>. QED BY <1>6, <1>7, <1>8, <1>9, <1>10, <1>11 DEF t, b

\* A step in which nothing is printed, and from which the same is to come.
LEMMA SameExploring ==
  ASSUME heap \in Heaps, heap' = heap, setting' = setting, is_valid' = is_valid,
         roots' = roots, expanded' = expanded, expanded \subseteq DOMAIN heap,
         Exploring(stack), NEW t, stack' = t,
         \A p : ToCome(t, p) = ToCome(stack, p)
  PROVE  Exploring(stack)'
<1>1. \A x : Handled(x)' = Handled(x)  BY SameHeap DEF Handled
<1>2. \A p \in DOMAIN heap : Children(p)' = Children(p)  BY ChildrenKept
<1>3. Broken' = Broken
  <2>1. \A x : Sound(x)' = Sound(x)  BY SameHeap
  <2>. QED BY <1>2, <2>1, ChildrenRoots, SameHeap DEF Broken
<1>. QED BY <1>1, <1>2, <1>3, ToComePrimed DEF Exploring

----------------------------------------------------------------------------
(* The steps, again. *)

LEMMA InitExplores == Init => XInv
<1>. SUFFICES ASSUME Init PROVE XInv  OBVIOUS
<1>1. /\ stack = <<>> /\ roots = {} /\ expanded = {} /\ is_valid = TRUE /\ throwing = FALSE
      /\ 1 .. Len(stack) = {}
  BY DEF Init
<1>2. Expansions  BY <1>1 DEF Expansions
<1>3. Exploring(stack)  BY <1>1 DEF Exploring
<1>. QED BY <1>2, <1>3 DEF XInv

LEMMA ReprExplores ==
  ASSUME IInv, XInv, NEW o \in DOMAIN heap, Repr(o)
  PROVE  XInv'
<1>1. /\ stack = <<>> /\ ~throwing /\ Call(o, <<>>) /\ roots' = roots \cup {o}
      /\ heap' = heap /\ setting' = setting
  BY DEF Repr, Call
<1>2. /\ heap \in Heaps /\ setting \in Settings
      /\ roots \subseteq DOMAIN heap /\ expanded \subseteq DOMAIN heap
  BY DEF IInv
<1>3. IsSeq(<<>>) /\ Len(<<>>) = 0 /\ 1 .. Len(<<>>) = {}  BY NoRootSingle, SeqIsSeq DEF IsSeq
<1>4. Expansions'  BY <1>1, <1>3, CallKeepsExpansions DEF XInv
<1>5. ASSUME Unlimited' PROVE Exploring(stack)'
  <2>1. Unlimited /\ \A p \in roots' : heap[p].kind # "type"
    BY <1>1, <1>5 DEF Unlimited, NamesOK, Readable, Ref
  <2>2. Exploring(stack) /\ RecursionAllowed /\ in_progress \subseteq expanded
    BY <1>1, <2>1, Unbounded DEF XInv
  <2>3. in_progress = {}  BY <1>1, <1>3 DEF IInv, GuardedIn
  <2>4. \A p : ToCome(<<>>, p) = {}  BY NothingToCome
  <2>5. ASSUME NEW p \in expanded, NEW x \in Children(p)'
        PROVE  Handled(x) \/ (p = o /\ in_progress = {} /\ ~Refused(o))
    <3>1. CASE p = o /\ heap[o].kind = "code"
      <4>1. ~Refused(o)  BY <2>2, <2>3, <3>1 DEF Refused
      <4>. QED BY <2>3, <3>1, <4>1
    <3>2. CASE p # o \/ heap[o].kind # "code"
      <4>1. Children(p)' = Children(p)  BY <1>1, <1>2, <3>2, ChildrenKept
      <4>. QED BY <1>1, <2>2, <2>4, <2>5, <4>1 DEF Exploring
    <3>. QED BY <3>1, <3>2
  <2>6. \A p \in roots' : Handled(p) \/ p = o  BY <1>1, <2>2 DEF Exploring
  <2>7. is_valid \/ Broken  BY <2>2 DEF Exploring
  <2>8. setting.max_entries = -1  BY <2>1 DEF Unlimited
  <2>9. \A p \in expanded : heap[p].state # "bad_type" /\ InvalidReason(p) = "ok"
    BY DEF XInv, Expansions
  <2>. QED BY <1>1, <1>2, <1>3, <2>1, <2>2, <2>3, <2>4, <2>5, <2>6, <2>7, <2>8, <2>9, CallExplores
<1>. QED BY <1>4, <1>5 DEF XInv

LEMMA ReprItemExplores ==
  ASSUME IInv, XInv, ReprItem
  PROVE  XInv'
<1>1. stack # <<>> /\ ~throwing /\ Part.items # <<>> /\ roots' = roots  BY DEF ReprItem
<1>2. PICK o : o = Head(Part.items)  OBVIOUS
<1>3. PICK ps : ps = <<[Part EXCEPT !.items = Tail(Part.items)]>> \o Tail(Top.parts)  OBVIOUS
<1>4. PICK c : c = Append(Callers, [Top EXCEPT !.parts = ps])  OBVIOUS
<1>5. Call(o, c)  BY <1>2, <1>3, <1>4 DEF ReprItem, PartLeft
<1>6. heap' = heap /\ setting' = setting  BY <1>5 DEF Call
<1>7. /\ heap \in Heaps /\ setting \in Settings /\ StackOK(stack) /\ in_progress = GuardedIn(stack)
      /\ roots \subseteq DOMAIN heap /\ expanded \subseteq DOMAIN heap
  BY DEF IInv
<1>8. /\ IsActivation(Top) /\ (~Top.guarded => Bare(Top))
      /\ Part = Top.parts[1] /\ 1 \in 1 .. Len(Top.parts)
  BY <1>1, TopOK
<1>9. IsPart(Part) /\ IsSeq(Part.items) /\ IsSeq(Top.parts) /\ Top.parts # <<>>
  BY <1>8, SeqIsSeq DEF IsActivation, IsParts, IsPart, IsSeq
<1>10. /\ IsSeq(c) /\ Len(c) = Len(stack) /\ c # <<>>
       /\ \A i \in 1 .. Len(c) : c[i].obj = stack[i].obj
       /\ \A p : ToCome(c, p) = ToCome(Callers, p) \cup (IF Top.obj = p THEN ItemsIn(ps) ELSE {})
       /\ \A p : ToCome(stack, p) =
                    ToCome(Callers, p) \cup (IF Top.obj = p THEN ItemsIn(Top.parts) ELSE {})
  BY <1>1, <1>4, TopReplaced
<1>11. ItemsIn(Top.parts) = {o} \cup ItemsIn(ps)
  <2> DEFINE x == [Part EXCEPT !.items = Tail(Part.items)]
  <2>1. Elements(Part.items) = {o} \cup Elements(Tail(Part.items))
    BY <1>1, <1>2, <1>9, HeadAndTail
  <2>2. x.items = Tail(Part.items)
    <3> DEFINE p == Part
    <3>1. p = [items |-> p.items, catches |-> p.catches, indent |-> p.indent, limits |-> p.limits]
      BY <1>9 DEF IsPart
    <3>. HIDE DEF p
    <3>2. [p EXCEPT !.items = Tail(p.items)].items = Tail(p.items)  BY <3>1
    <3>. QED BY <3>2 DEF p
  <2>. HIDE DEF x
  <2>3. ps = <<x>> \o Tail(Top.parts)  BY <1>3 DEF x
  <2>4. /\ ItemsIn(Top.parts) = Elements(Top.parts[1].items) \cup OtherItems(Top.parts)
        /\ ItemsIn(ps) = Elements(x.items) \cup OtherItems(Top.parts)
    BY <1>9, <2>3, ItemsReplaced
  <2>. QED BY <1>8, <2>1, <2>2, <2>4
<1>12. Len(stack) \in 1 .. Len(stack) /\ 1 \in 1 .. Len(stack)
  BY <1>1, <1>7, SeqIsSeq DEF StackOK, IsSeq
<1>13. Top.obj \in expanded  BY <1>12 DEF Top, XInv, Expansions
<1>14. Expansions'
  <2>1. \A i \in 1 .. Len(c) : c[i].obj \in expanded  BY <1>10 DEF XInv, Expansions
  <2>2. c[1].obj \in roots  BY <1>1, <1>10, <1>12 DEF XInv, Expansions
  <2>. QED BY <1>1, <1>5, <1>10, <2>1, <2>2, CallKeepsExpansions DEF XInv
<1>15. ASSUME Unlimited' PROVE Exploring(stack)'
  <2>1. Unlimited /\ \A p \in roots' : heap[p].kind # "type"
    BY <1>1, <1>6, <1>15 DEF Unlimited, NamesOK, Readable, Ref
  <2>2. Exploring(stack) /\ RecursionAllowed /\ in_progress \subseteq expanded
    BY <1>1, <2>1, Unbounded DEF XInv
  <2>3. \A p \in DOMAIN heap : Children(p)' = Children(p)  BY <1>1, <1>6, <1>7, ChildrenKept
  <2>4. \A p : /\ ToCome(c, p) \subseteq ToCome(stack, p)
               /\ ToCome(stack, p) \subseteq ToCome(c, p) \cup {o}
    BY <1>10, <1>11
  <2>5. \A p \in expanded : \A x \in Children(p)' : Handled(x) \/ x = o \/ x \in ToCome(c, p)
    BY <1>7, <2>2, <2>3, <2>4 DEF Exploring
  <2>6. ASSUME NEW p \in expanded \cup {o} PROVE ToCome(c, p) \subseteq Children(p)'
    <3>1. CASE p \in expanded  BY <1>7, <2>2, <2>3, <2>4, <3>1 DEF Exploring
    <3>2. CASE p \notin expanded
      <4>1. \A i \in 1 .. Len(c) : c[i].obj # p  BY <1>10, <3>2 DEF XInv, Expansions
      <4>2. ToCome(c, p) = {}  BY <4>1 DEF ToCome
      <4>. QED BY <4>2
    <3>. QED BY <3>1, <3>2
  <2>7. \A p \in roots' : Handled(p)  BY <1>1, <2>2 DEF Exploring
  <2>8. o \in roots' /\ Expandable(o) => o \in expanded  BY <2>7 DEF Handled
  <2>9. ASSUME o \in DOMAIN heap, heap[o].kind = "code", in_progress = {} PROVE FALSE
    <3>1. ~Top.guarded  BY <1>7, <1>12, <2>9 DEF GuardedIn, Top
    <3>2. NoRoot(Part.items)  BY <1>8, <2>1, <3>1 DEF Bare, BareParts, Unlimited
    <3>3. o = Part.items[1] /\ 1 \in 1 .. Len(Part.items)  BY <1>1, <1>2, <1>9, TailSeq
    <3>. QED BY <2>9, <3>2, <3>3 DEF NoRoot
  <2>10. \E p \in expanded : o \in Children(p)'
    <3>1. PICK p : p = Top.obj  OBVIOUS
    <3>2. o \in Children(p)'
      <4>1. o \in ToCome(stack, p)  BY <1>10, <1>11, <3>1
      <4>. QED BY <1>7, <1>13, <2>2, <2>3, <3>1, <4>1 DEF Exploring
    <3>. QED BY <1>13, <3>1, <3>2
  <2>11. is_valid \/ Broken  BY <2>2 DEF Exploring
  <2>12. setting.max_entries = -1  BY <2>1 DEF Unlimited
  <2>13. \A p \in expanded : heap[p].state # "bad_type" /\ InvalidReason(p) = "ok"
    BY DEF XInv, Expansions
  <2>. QED BY <1>1, <1>5, <1>7, <1>10, <2>1, <2>2, <2>5, <2>6, <2>7, <2>8, <2>9, <2>10, <2>11,
              <2>12, <2>13, CallExplores
<1>. QED BY <1>14, <1>15 DEF XInv

\* A step that prints nothing.
LEMMA QuietStep ==
  ASSUME IInv, XInv, ~throwing, throwing' = throwing,
         UNCHANGED <<heap, setting, is_valid, roots, expanded>>,
         NEW t, stack' = t,
         \A i \in 1 .. Len(t) : t[i].obj \in expanded,
         t # <<>> => t[1].obj \in roots,
         \A p : ToCome(t, p) = ToCome(stack, p)
  PROVE  XInv'
<1>1. heap \in Heaps /\ expanded \subseteq DOMAIN heap  BY DEF IInv
<1>2. Expansions'
  <2>1. \A p : InvalidReason(p)' = InvalidReason(p)  BY SameHeap
  <2>. QED BY <2>1 DEF XInv, Expansions
<1>3. Unlimited' => Unlimited  BY DEF Unlimited, NamesOK, Readable, Ref
<1>4. Unlimited => Exploring(stack)'  BY <1>1, SameExploring DEF XInv
<1>. QED BY <1>2, <1>3, <1>4 DEF XInv

LEMMA NextPartExplores ==
  ASSUME IInv, XInv, NextPart
  PROVE  XInv'
<1>1. /\ stack # <<>> /\ ~throwing /\ throwing' = throwing
      /\ Part.items = <<>> /\ Len(Top.parts) > 1
      /\ UNCHANGED <<heap, setting, is_valid, roots, expanded>>
  BY DEF NextPart
<1>2. PICK ps : ps = Tail(Top.parts)  OBVIOUS
<1>3. PICK t : t = Append(Callers, [Top EXCEPT !.parts = ps])  OBVIOUS
<1>4. stack' = t  BY <1>2, <1>3 DEF NextPart
<1>5. /\ IsActivation(Top) /\ Part = Top.parts[1] /\ 1 \in 1 .. Len(Top.parts)
      /\ StackOK(stack)
  BY <1>1, TopOK DEF Exact
<1>6. IsSeq(Top.parts) /\ Top.parts # <<>>  BY <1>5, SeqIsSeq DEF IsActivation, IsParts, IsSeq
<1>7. /\ Len(t) = Len(stack)
      /\ \A i \in 1 .. Len(t) : t[i].obj = stack[i].obj
      /\ \A p : ToCome(t, p) = ToCome(Callers, p) \cup (IF Top.obj = p THEN ItemsIn(ps) ELSE {})
      /\ \A p : ToCome(stack, p) =
                   ToCome(Callers, p) \cup (IF Top.obj = p THEN ItemsIn(Top.parts) ELSE {})
  BY <1>1, <1>3, TopReplaced
<1>8. ItemsIn(ps) = ItemsIn(Top.parts)
  <2>1. Len(<<>>) = 0 /\ 1 .. Len(<<>>) = {}  OBVIOUS
  <2>2. Elements(Part.items) = {}  BY <1>1, <2>1 DEF Elements
  <2>. QED BY <1>2, <1>5, <1>6, <2>2, ItemsReplaced
<1>9. 1 \in 1 .. Len(stack)  BY <1>1, <1>5, SeqIsSeq DEF StackOK, IsSeq
<1>10. \A i \in 1 .. Len(t) : t[i].obj \in expanded  BY <1>7 DEF XInv, Expansions
<1>11. t[1].obj \in roots  BY <1>1, <1>7, <1>9 DEF XInv, Expansions
<1>12. \A p : ToCome(t, p) = ToCome(stack, p)  BY <1>7, <1>8
<1>. QED BY <1>1, <1>4, <1>10, <1>11, <1>12, QuietStep

\* The stack without its top.
LEMMA TopLeft ==
  ASSUME IInv, Expansions, stack # <<>>
  PROVE  /\ \A i \in 1 .. Len(Callers) : Callers[i].obj \in expanded
         /\ Callers # <<>> => Callers[1].obj \in roots
<1>1. IsSeq(stack)  BY DEF IInv, StackOK
<1>2. /\ Len(stack) \in Nat \ {0} /\ IsSeq(Callers) /\ Len(Callers) = Len(stack) - 1
      /\ \A i \in 1 .. Len(stack) - 1 : Callers[i] = stack[i]
  BY <1>1, FrontSeq DEF Callers
<1>3. \A i \in 1 .. Len(Callers) : i \in 1 .. Len(stack) /\ Callers[i] = stack[i]  BY <1>2
<1>4. Callers # <<>> => 1 \in 1 .. Len(Callers)  BY <1>2, SeqIsSeq DEF IsSeq
<1>. QED BY <1>3, <1>4 DEF Expansions

LEMMA ReturnExplores ==
  ASSUME IInv, XInv, Return
  PROVE  XInv'
<1>1. /\ stack # <<>> /\ ~throwing /\ throwing' = throwing
      /\ Part.items = <<>> /\ Len(Top.parts) = 1
      /\ UNCHANGED <<heap, setting, is_valid, roots, expanded>>
  BY DEF Return, Leave
<1>2. PICK t : t = Callers  OBVIOUS
<1>3. stack' = t  BY <1>2 DEF Return, Leave
<1>4. /\ \A i \in 1 .. Len(t) : t[i].obj \in expanded
      /\ t # <<>> => t[1].obj \in roots
  BY <1>1, <1>2, TopLeft DEF XInv
<1>5. Part = Top.parts[1]  BY <1>1, TopOK
<1>6. ItemsIn(Top.parts) = {}
  <2>1. Len(<<>>) = 0 /\ 1 .. Len(<<>>) = {} /\ 1 .. 1 = {1}  OBVIOUS
  <2>2. Elements(Part.items) = {}  BY <1>1, <2>1 DEF Elements
  <2>. QED BY <1>1, <1>5, <2>1, <2>2 DEF ItemsIn
<1>7. \A p : ToCome(stack, p) =
               ToCome(Callers, p) \cup (IF Top.obj = p THEN ItemsIn(Top.parts) ELSE {})
  BY <1>1, TopReplaced
<1>. QED BY <1>1, <1>2, <1>3, <1>4, <1>6, <1>7, QuietStep

\* An exception is thrown only where Unlimited does not hold.
LEMMA UnwindExplores ==
  ASSUME IInv, XInv, Unwind
  PROVE  XInv'
<1>1. /\ stack # <<>> /\ throwing
      /\ UNCHANGED <<heap, setting, is_valid, roots, expanded>>
  BY DEF Unwind, Leave
<1>2. ~setting'.knows_code  BY <1>1 DEF IInv
<1>3. /\ \A i \in 1 .. Len(stack') : stack'[i].obj \in expanded
      /\ stack' # <<>> => stack'[1].obj \in roots
  <2>1. CASE Part.catches
    <3>1. PICK ps : ps = <<[Part EXCEPT !.items = <<>>]>> \o Tail(Top.parts)  OBVIOUS
    <3>2. PICK t : t = Append(Callers, [Top EXCEPT !.parts = ps])  OBVIOUS
    <3>3. stack' = t  BY <2>1, <3>1, <3>2 DEF Unwind, PartLeft
    <3>4. Len(t) = Len(stack) /\ \A i \in 1 .. Len(t) : t[i].obj = stack[i].obj
      BY <1>1, <3>2, TopReplaced
    <3>5. 1 \in 1 .. Len(stack)  BY <1>1, SeqIsSeq DEF IInv, StackOK, IsSeq
    <3>. QED BY <1>1, <3>3, <3>4, <3>5 DEF XInv, Expansions
  <2>2. CASE ~Part.catches
    <3>1. stack' = Callers  BY <2>2 DEF Unwind, Leave
    <3>. QED BY <1>1, <3>1, TopLeft DEF XInv
  <2>. QED BY <2>1, <2>2
<1>4. \A p : InvalidReason(p)' = InvalidReason(p)  BY <1>1, SameHeap
<1>5. Expansions'  BY <1>1, <1>2, <1>3, <1>4 DEF XInv, Expansions
<1>6. ~Unlimited'  BY <1>2 DEF Unlimited
<1>. QED BY <1>5, <1>6 DEF XInv

LEMMA UnchangedExplores ==
  ASSUME IInv, XInv, UNCHANGED vars
  PROVE  XInv'
<1>1. UNCHANGED <<heap, setting, is_valid, throwing, stack, roots, expanded>>  BY DEF vars
<1>2. CASE throwing
  <2>1. \A p : InvalidReason(p)' = InvalidReason(p)  BY <1>1, SameHeap
  <2>2. Expansions'  BY <1>1, <2>1 DEF XInv, Expansions
  <2>3. ~setting'.knows_code  BY <1>1, <1>2 DEF IInv
  <2>. QED BY <2>2, <2>3 DEF XInv, Unlimited
<1>3. CASE ~throwing
  <2>1. PICK t : t = stack  OBVIOUS
  <2>. QED BY <1>1, <1>3, <2>1, QuietStep DEF XInv, Expansions
<1>. QED BY <1>2, <1>3

LEMMA StepExplores == IInv /\ XInv /\ [Next]_vars => XInv'
<1>. SUFFICES ASSUME IInv, XInv, [Next]_vars PROVE XInv'  OBVIOUS
<1>1. CASE \E o \in DOMAIN heap : Repr(o)  BY <1>1, ReprExplores
<1>2. CASE ReprItem  BY <1>2, ReprItemExplores
<1>3. CASE NextPart  BY <1>3, NextPartExplores
<1>4. CASE Return  BY <1>4, ReturnExplores
<1>5. CASE Unwind  BY <1>5, UnwindExplores
<1>6. CASE Over
  <2>1. UNCHANGED vars  BY <1>6 DEF Over
  <2>. QED BY <2>1, UnchangedExplores
<1>7. CASE UNCHANGED vars  BY <1>7, UnchangedExplores
<1>. QED BY <1>1, <1>2, <1>3, <1>4, <1>5, <1>6, <1>7 DEF Next, Step

----------------------------------------------------------------------------
(* The theorems. *)

\* The state of the guards that repr keeps is an invariant, for every snapshot
\* and whatever happens in it (Base.hh:95-122, Base.cc:273-405).
THEOREM Invariance == Spec => []IInv
<1>. QED BY InitInv, StepInv, PTL DEF Spec

LEMMA InvTypes == IInv => TypeOK
<1>. SUFFICES ASSUME IInv PROVE TypeOK  OBVIOUS
<1>1. IsSeq(stack)  BY DEF IInv, StackOK
<1>2. DOMAIN stack = 1 .. Len(stack) /\ Len(stack) \in Nat  BY <1>1, LenProperties DEF IsSeq
<1>3. max_recursion_depth \in Nat \cup {-1}  BY SettingTypes DEF IInv
<1>4. recursion_depth \in Nat  BY DepthIsNat DEF IInv
<1>5. in_progress \subseteq DOMAIN heap
  <2>1. \A i \in 1 .. Len(stack) : stack[i].obj \in DOMAIN heap
    BY DEF IInv, StackOK, IsActivation
  <2>. QED BY <2>1 DEF IInv, GuardedIn
<1>6. ASSUME NEW i \in DOMAIN stack
      PROVE  /\ stack[i].obj \in DOMAIN heap /\ stack[i].parts # <<>>
             /\ stack[i].guarded \in BOOLEAN /\ stack[i].indent \in {0, 1}
  <2>1. IsActivation(stack[i])  BY <1>2, <1>6 DEF IInv, StackOK
  <2>2. IsSeq(stack[i].parts) /\ Len(stack[i].parts) > 0  BY <2>1 DEF IsActivation, IsParts
  <2>3. stack[i].parts # <<>>  BY <2>2, SeqIsSeq DEF IsSeq
  <2>4. stack[i].indent \in {0, 1}  BY <2>1 DEF IsActivation, Indent
  <2>. QED BY <2>1, <2>3, <2>4 DEF IsActivation
<1>. QED BY <1>3, <1>4, <1>5, <1>6 DEF IInv, TypeOK

\* Every variable keeps its type: the depth is never negative, although
\* exceptions leave activations halfway (Base.hh:112-122).
THEOREM TypesKept == Spec => []TypeOK
<1>. QED BY Invariance, InvTypes, PTL

\* An object is refused as recursive if and only if it is being printed further
\* out, and no two activations print the same one (Base.hh:95-110).
THEOREM CyclesExact == Spec => []InProgressExact
<1>1. IInv => InProgressExact
  <2>. SUFFICES ASSUME IInv PROVE InProgressExact  OBVIOUS
  <2>1. DOMAIN stack = 1 .. Len(stack)  BY LenProperties DEF IInv, StackOK, IsSeq
  <2>. QED BY <2>1 DEF IInv, GuardedIn, Distinct, InProgressExact
<1>. QED BY <1>1, Invariance, PTL

\* Whatever way the last object ended, the depth and the objects in progress are as
\* they were before it; and so is the limit, unless an exception has left the object,
\* which is the end of the command: a type's repr puts the limit back only when it
\* gets past its dict (Base.hh:95-122, PyTypeObject.cc:258-262).
THEOREM Restored == Spec => []StateRestored
<1>1. IInv => StateRestored
  <2>. SUFFICES ASSUME IInv, stack = <<>>
                PROVE  /\ in_progress = {}
                       /\ recursion_depth = setting.recursion_depth
                       /\ ~throwing => max_recursion_depth = setting.max_recursion_depth
    BY DEF StateRestored
  <2>1. 1 .. Len(stack) = {} /\ stack = <<>>  OBVIOUS
  <2>2. in_progress = {}  BY <2>1 DEF IInv, GuardedIn
  <2>3. Cardinality(Indented(stack)) = 0 /\ Cardinality(InIndentedPart(stack)) = 0
    BY <2>1, FS_EmptySet DEF Indented, InIndentedPart
  <2>4. recursion_depth = setting.recursion_depth  BY <2>3, SettingTypes DEF IInv, Depth
  <2>5. ~throwing => max_recursion_depth = setting.max_recursion_depth
    BY <2>1 DEF IInv, Limit, Limits
  <2>. QED BY <2>2, <2>4, <2>5
<1>. QED BY <1>1, Invariance, PTL

\* Nothing nests deeper than the limit, or than 2 for what a type contains
\* (Base.hh:76-78).
THEOREM NestingLimited == Spec => []LimitedNesting
<1>1. IInv => LimitedNesting
  <2>. SUFFICES ASSUME IInv PROVE LimitedNesting  OBVIOUS
  <2>1. DOMAIN stack = 1 .. Len(stack)  BY LenProperties DEF IInv, StackOK, IsSeq
  <2>2. {i \in DOMAIN stack : stack[i].indent = 1} = Indented(stack)  BY <2>1 DEF Indented
  <2> DEFINE nested == Cardinality({i \in DOMAIN stack : stack[i].indent = 1})
  <2>3. nested = Cardinality(Indented(stack))  BY <2>2
  <2>. HIDE DEF nested
  <2>4. /\ setting.max_recursion_depth >= 0 /\ nested > 0 =>
             setting.recursion_depth + nested <= NestingLimit(stack)
    BY <2>3 DEF IInv, Nesting
  <2>. QED BY <2>1, <2>4 DEF LimitedNesting, NestingLimit, HasType, nested
<1>. QED BY <1>1, Invariance, PTL

\* What has been printed, and what is still to come, are together all there is
\* (Base.cc:273-405).
THEOREM ExplorationInvariant == Spec => []XInv
<1>. QED BY Invariance, InitExplores, StepExplores, PTL DEF Spec

\* Without limits everything that can be reached through valid objects is
\* printed, whatever contains itself or occurs twice (Base.cc:273-405).
THEOREM AllAlwaysShown == Spec => []AllShown
<1>1. XInv => AllShown
  <2>. SUFFICES ASSUME XInv, stack = <<>>, Unlimited
                PROVE  /\ \A o \in roots : Expandable(o) => o \in expanded
                       /\ \A o \in expanded : \A c \in Children(o) : Expandable(c) => c \in expanded
    BY DEF AllShown
  <2>1. Exploring(stack) /\ \A o : ToCome(stack, o) = {}  BY NothingToCome DEF XInv
  <2>. QED BY <2>1 DEF Exploring, Handled
<1>. QED BY <1>1, ExplorationInvariant, PTL

\* The Traversal is invalid if and only if something that it came to, at any
\* depth, could not be read (Base.cc:273-405, AnalysisShell.cc:360).
THEOREM InvalidExactlyIfBroken == Spec => []InvalidIfBroken
<1>1. XInv => InvalidIfBroken
  <2>. SUFFICES ASSUME XInv, stack = <<>>, Unlimited
                PROVE  is_valid <=> /\ \A o \in roots : Sound(o)
                                    /\ \A o \in expanded : \A c \in Children(o) : Sound(c)
    BY DEF InvalidIfBroken
  <2>1. Exploring(stack) /\ \A o : ToCome(stack, o) = {}  BY NothingToCome DEF XInv
  <2>2. ASSUME is_valid
        PROVE  /\ \A o \in roots : Sound(o)
               /\ \A o \in expanded : \A c \in Children(o) : Sound(c)
    BY <2>1, <2>2 DEF Exploring, Handled
  <2>3. ASSUME ~is_valid PROVE Broken  BY <2>1, <2>3 DEF Exploring
  <2>. QED BY <2>2, <2>3 DEF Broken
<1>. QED BY <1>1, ExplorationInvariant, PTL
=============================================================================
