--------------------------- MODULE AnalysisProofs ---------------------------
(***************************************************************************)
(* Proofs about Analysis, for any number of shells and any snapshots.      *)
(***************************************************************************)
EXTENDS Analysis, FiniteSetTheorems, TLAPS

(* The parts of the inductive invariant. *)

\* As long as no clash has happened, one shell at a time saves, and the file is
\* torn exactly while it does.
Clashes ==
  \/ clash
  \/ /\ \A s, o \in Shells : pc[s] \in Saving /\ pc[o] \in Saving => s = o
     /\ file.state = "torn" <=> \E s \in Shells : pc[s] \in Saving

\* What a shell that looks for the types has found so far: the types among
\* what it has visited, each under its name or its name and its address.
Partly(s) ==
  LET types == type_objects[s]
      found == visited[s] \cap TypesOf(base_type_object[s])
  IN /\ Range(types) = found
     /\ \A t \in found : Bare(heap[t].name) \in DOMAIN types
     /\ \A k \in DOMAIN types : /\ heap[types[k]].name = k[1]
                                /\ k[2] # Null => types[k] = k[2]

\* What a shell knows of the snapshot, wherever it is.
Knows(s) ==
  LET base == base_type_object[s]
      types == type_objects[s]
  IN /\ pc[s] = "new" => visited[s] = {} /\ candidates[s] = {}
     /\ pc[s] = "find_base" =>
          /\ base = Null /\ types = NoTypes
          /\ visited[s] \subseteq DOMAIN heap
          /\ candidates[s] = {t \in visited[s] : IsBase(t)}
     /\ pc[s] \in {"tear_base", "save_base"} => Bases = {base} /\ types = NoTypes
     /\ pc[s] = "prepare_types" => Bases = {base} /\ Sound(base, types)
     /\ pc[s] = "find_types" =>
          Bases = {base} /\ visited[s] \subseteq DOMAIN heap /\ Partly(s)
     /\ pc[s] \in {"tear_types", "save_types"} =>
          Bases = {base} /\ types # NoTypes /\ Sound(base, types)
     /\ pc[s] = "ready" =>
          /\ Sound(base, types)
          /\ base = Null <=> Cardinality(Bases) # 1
          /\ base # Null => types # NoTypes

AInv ==
  /\ TypeOK
  /\ file.state = "absent" => file = Absent
  /\ Clashes
  /\ ~redumped => FileIsSound /\ \A s \in Shells : Knows(s)

----------------------------------------------------------------------------
(* The heap and the collection of types. *)

LEMMA HeapFacts ==
  ASSUME heap \in Heaps
  PROVE  /\ DOMAIN heap \subseteq Addrs
         /\ \A t \in DOMAIN heap : heap[t].ob_type \in Addrs /\ heap[t].name \in Names
         /\ Null \notin Addrs
         /\ IsFiniteSet(DOMAIN heap)
<1>1. /\ DOMAIN heap \subseteq Addrs
      /\ heap \in [DOMAIN heap -> [ob_type : Addrs, name : Names]]
  BY HeapsAssumption
<1>2. IsFiniteSet(DOMAIN heap)
  BY <1>1, AddrsAssumption, FS_Subset
<1>3. Null \notin Addrs
  BY AddrsAssumption
<1>4. \A t \in DOMAIN heap : heap[t] \in [ob_type : Addrs, name : Names]
  BY <1>1
<1> QED
  BY <1>1, <1>2, <1>3, <1>4

\* There are types exactly if there is a key.
LEMMA SomeTypes ==
  ASSUME NEW types, NEW S, types \in [DOMAIN types -> S]
  PROVE  types # NoTypes <=> DOMAIN types # {}
<1>1. DOMAIN NoTypes = {} /\ NoTypes = [k \in {} |-> Null]
  BY DEF NoTypes
<1>2. ASSUME DOMAIN types = {} PROVE types = NoTypes
  <2>1. types = [k \in DOMAIN types |-> types[k]]
    OBVIOUS
  <2> QED
    BY <1>1, <1>2, <2>1
<1> QED
  BY <1>1, <1>2

LEMMA WithTypeIsTyped ==
  ASSUME heap \in Heaps, NEW t \in DOMAIN heap, NEW types,
         types \in [DOMAIN types -> Addrs], DOMAIN types \subseteq Keys
  PROVE  /\ WithType(types, t) \in [DOMAIN WithType(types, t) -> Addrs]
         /\ DOMAIN WithType(types, t) \subseteq Keys
<1> DEFINE bare == Bare(heap[t].name)
           key  == IF bare \in DOMAIN types THEN <<heap[t].name, t>> ELSE bare
<1>1. t \in Addrs /\ heap[t].name \in Names
  BY HeapFacts
<1>2. key \in Keys
  BY <1>1 DEF Keys, Bare
<1>3. CASE bare \in DOMAIN types /\ types[bare] = t
  BY <1>3 DEF WithType
<1>4. CASE ~(bare \in DOMAIN types /\ types[bare] = t)
  <2>1. WithType(types, t)
          = [k \in DOMAIN types \cup {key} |-> IF k \in DOMAIN types THEN types[k] ELSE t]
    BY <1>4 DEF WithType
  <2> HIDE DEF key
  <2> QED
    BY <1>1, <1>2, <2>1
<1> QED
  BY <1>3, <1>4

\* What emplace does to a collection that has not got the type yet: one key is
\* added, the type's name or its name and its address.
LEMMA WithTypeCases ==
  ASSUME heap \in Heaps, NEW t \in DOMAIN heap, NEW types,
         t \notin Range(types),
         \A k \in DOMAIN types : k[2] # Null => types[k] = k[2]
  PROVE  \E key : /\ key \notin DOMAIN types
                  /\ key[1] = heap[t].name
                  /\ key[2] # Null => key[2] = t
                  /\ DOMAIN WithType(types, t) = DOMAIN types \cup {key}
                  /\ WithType(types, t)[key] = t
                  /\ \A k \in DOMAIN types : WithType(types, t)[k] = types[k]
                  /\ Bare(heap[t].name) \in DOMAIN WithType(types, t)
<1> DEFINE bare == Bare(heap[t].name)
           long == <<heap[t].name, t>>
           key  == IF bare \in DOMAIN types THEN long ELSE bare
<1>1. t # Null
  BY HeapFacts
<1>2. \A k \in DOMAIN types : types[k] # t
  BY DEF Range
<1>3. WithType(types, t)
        = [k \in DOMAIN types \cup {key} |-> IF k \in DOMAIN types THEN types[k] ELSE t]
  BY <1>2 DEF WithType
<1>4. key \notin DOMAIN types
  <2>1. long \in DOMAIN types => types[long] = t
    BY <1>1
  <2> QED
    BY <1>2, <2>1
<1>5. key[1] = heap[t].name /\ (key[2] # Null => key[2] = t)
  BY DEF Bare
<1>6. bare \in DOMAIN types \cup {key}
  OBVIOUS
<1> HIDE DEF key, bare
<1>7. DOMAIN WithType(types, t) = DOMAIN types \cup {key}
  BY <1>3
<1>8. /\ WithType(types, t)[key] = t
      /\ \A k \in DOMAIN types : WithType(types, t)[k] = types[k]
  BY <1>3, <1>4
<1> QED
  BY <1>4, <1>5, <1>6, <1>7, <1>8 DEF bare

----------------------------------------------------------------------------
(* Types. *)

LEMMA TypeInit == Init => TypeOK
<1> SUFFICES ASSUME Init PROVE TypeOK
  OBVIOUS
<1>1. \A s \in Shells : /\ pc[s] = "new" /\ type_objects[s] = NoTypes
  BY DEF Init
<1>2. DOMAIN NoTypes = {} /\ NoTypes \in [{} -> Addrs]
  BY DEF NoTypes
<1> QED
  BY <1>1, <1>2 DEF Init, TypeOK, Absent, Running

LEMMA TypeNext == TypeOK /\ [Next]_vars => TypeOK'
<1> SUFFICES ASSUME TypeOK, [Next]_vars PROVE TypeOK'
  OBVIOUS
<1>h. heap \in Heaps
  BY DEF TypeOK
<1>n. DOMAIN NoTypes = {} /\ NoTypes \in [{} -> Addrs]
  BY DEF NoTypes
<1>1. ASSUME NEW s \in Shells, Load(s) PROVE TypeOK'
  <2>1. /\ UNCHANGED <<heap, file, redumped, clash, visited, candidates>>
        /\ base_type_object' = [base_type_object EXCEPT ![s] = file.base]
        /\ type_objects' = [type_objects EXCEPT ![s] = file.types]
        /\ pc' = [pc EXCEPT ![s] = IF file.base = Null THEN "find_base" ELSE "prepare_types"]
    BY <1>1 DEF Load, scanVars
  <2>2. pc'[s] \in Running \ {"find_base"} => base_type_object'[s] # Null
    BY <2>1 DEF TypeOK
  <2>3. \A o \in Shells : pc'[o] \in Running \ {"find_base"} => base_type_object'[o] # Null
    BY <2>1, <2>2 DEF TypeOK
  <2>4. pc' \in [Shells -> Running \cup {"new", "ready", "threw", "killed"}]
    BY <2>1 DEF TypeOK, Running
  <2> QED
    BY <2>1, <2>3, <2>4 DEF TypeOK
<1>2. ASSUME NEW s \in Shells, LoadThrows(s) PROVE TypeOK'
  BY <1>2 DEF LoadThrows, scanVars, TypeOK, Running
<1>3. ASSUME NEW s \in Shells, VisitForBase(s) PROVE TypeOK'
  <2>1. PICK t \in DOMAIN heap \ visited[s] :
          /\ visited' = [visited EXCEPT ![s] = @ \cup {t}]
          /\ candidates' = IF IsBase(t) THEN [candidates EXCEPT ![s] = @ \cup {t}]
                                        ELSE candidates
    BY <1>3 DEF VisitForBase
  <2>2. t \in Addrs
    BY <1>h, HeapFacts
  <2>3. UNCHANGED <<heap, file, redumped, clash, pc, base_type_object, type_objects>>
    BY <1>3 DEF VisitForBase
  <2>4. visited' \in [Shells -> SUBSET Addrs] /\ candidates' \in [Shells -> SUBSET Addrs]
    BY <2>1, <2>2 DEF TypeOK
  <2> QED
    BY <2>3, <2>4 DEF TypeOK
<1>4. ASSUME NEW s \in Shells, FoundBase(s) PROVE TypeOK'
  <2>1. UNCHANGED <<heap, file, redumped, clash, type_objects, visited, candidates>>
    BY <1>4 DEF FoundBase, scanVars
  <2>2. CASE TakesBase(s)
    <3>1. PICK b \in candidates[s] : base_type_object' = [base_type_object EXCEPT ![s] = b]
      BY <1>4, <2>2 DEF FoundBase
    <3>2. b \in Addrs /\ b # Null
      BY <1>h, HeapFacts DEF TypeOK
    <3>3. pc' = [pc EXCEPT ![s] = "tear_base"]
      BY <1>4, <2>2 DEF FoundBase
    <3> QED
      BY <2>1, <3>1, <3>2, <3>3 DEF TypeOK, Running
  <2>3. CASE ~TakesBase(s)
    <3>1. pc' = [pc EXCEPT ![s] = "ready"] /\ UNCHANGED base_type_object
      BY <1>4, <2>3 DEF FoundBase
    <3> QED
      BY <2>1, <3>1 DEF TypeOK, Running
  <2> QED
    BY <2>2, <2>3
<1>5. ASSUME NEW s \in Shells, PrepareTypes(s) PROVE TypeOK'
  <2>1. /\ pc[s] = "prepare_types"
        /\ visited' = [visited EXCEPT ![s] = {}]
        /\ pc' \in [Shells -> Running \cup {"new", "ready", "threw", "killed"}]
        /\ \A o \in Shells \ {s} : pc'[o] = pc[o]
        /\ UNCHANGED <<heap, file, redumped, clash, base_type_object, type_objects, candidates>>
    BY <1>5 DEF PrepareTypes, TypeOK, Running
  <2>2. base_type_object[s] # Null
    BY <2>1 DEF TypeOK, Running
  <2> QED
    BY <2>1, <2>2 DEF TypeOK
<1>6. ASSUME NEW s \in Shells, VisitForTypes(s) PROVE TypeOK'
  <2>1. PICK t \in DOMAIN heap \ visited[s] :
          /\ visited' = [visited EXCEPT ![s] = @ \cup {t}]
          /\ type_objects' = IF heap[t].ob_type = base_type_object[s]
                             THEN [type_objects EXCEPT ![s] = WithType(@, t)]
                             ELSE type_objects
    BY <1>6 DEF VisitForTypes
  <2>2. UNCHANGED <<heap, file, redumped, clash, pc, base_type_object, candidates>>
    BY <1>6 DEF VisitForTypes
  <2>3. visited' \in [Shells -> SUBSET Addrs]
    BY <1>h, <2>1, HeapFacts DEF TypeOK
  <2>4. \/ type_objects' = type_objects
        \/ type_objects' = [type_objects EXCEPT ![s] = WithType(type_objects[s], t)]
    BY <2>1
  <2> DEFINE W == WithType(type_objects[s], t)
  <2>5. W \in [DOMAIN W -> Addrs] /\ DOMAIN W \subseteq Keys
    BY <1>h, WithTypeIsTyped DEF TypeOK
  <2> HIDE DEF W
  <2>6. /\ DOMAIN type_objects' = Shells
        /\ \A o \in Shells : /\ type_objects'[o] \in [DOMAIN type_objects'[o] -> Addrs]
                             /\ DOMAIN type_objects'[o] \subseteq Keys
    BY <2>4, <2>5 DEF TypeOK, W
  <2> QED
    BY <2>2, <2>3, <2>6 DEF TypeOK
<1>7. ASSUME NEW s \in Shells, FoundTypes(s) PROVE TypeOK'
  <2>1. /\ pc[s] = "find_types"
        /\ pc' \in [Shells -> Running \cup {"new", "ready", "threw", "killed"}]
        /\ \A o \in Shells \ {s} : pc'[o] = pc[o]
        /\ UNCHANGED <<heap, file, redumped, clash, base_type_object, type_objects, visited,
                       candidates>>
    BY <1>7 DEF FoundTypes, TypeOK, Running, scanVars
  <2>2. base_type_object[s] # Null
    BY <2>1 DEF TypeOK, Running
  <2> QED
    BY <2>1, <2>2 DEF TypeOK
<1>8. ASSUME NEW s \in Shells, Tear(s) PROVE TypeOK'
  <2>1. /\ pc[s] \in {"tear_base", "tear_types"} /\ file' = Torn
        /\ pc' \in [Shells -> Running \cup {"new", "ready", "threw", "killed"}]
        /\ \A o \in Shells \ {s} : pc'[o] = pc[o]
        /\ clash' \in BOOLEAN
        /\ UNCHANGED <<heap, redumped, base_type_object, type_objects, visited, candidates>>
    BY <1>8 DEF Tear, TypeOK, Running, scanVars
  <2>2. base_type_object[s] # Null
    BY <2>1 DEF TypeOK, Running
  <2> QED
    BY <1>n, <2>1, <2>2 DEF TypeOK, Torn
<1>9. ASSUME NEW s \in Shells, Save(s) PROVE TypeOK'
  <2>1. /\ pc[s] \in {"save_base", "save_types"}
        /\ file' = Torn \/ file' = Saved(s)
        /\ pc' \in [Shells -> Running \cup {"new", "ready", "threw", "killed"}]
        /\ \A o \in Shells \ {s} : pc'[o] = pc[o]
        /\ UNCHANGED <<heap, redumped, clash, base_type_object, type_objects, visited,
                       candidates>>
    BY <1>9 DEF Save, TypeOK, Running, Saving, scanVars
  <2>2. base_type_object[s] # Null
    BY <2>1 DEF TypeOK, Running
  <2>3. /\ file'.state \in {"torn", "whole"}
        /\ file'.base \in Addrs \cup {Null}
        /\ file'.types \in [DOMAIN file'.types -> Addrs] /\ DOMAIN file'.types \subseteq Keys
    <3>1. CASE file' = Torn
      BY <1>n, <3>1 DEF Torn
    <3>2. CASE file' = Saved(s)
      <4>1. /\ file'.state = "whole"
            /\ file'.base = base_type_object[s]
            /\ file'.types = type_objects[s]
        BY <3>2 DEF Saved
      <4> QED
        BY <4>1 DEF TypeOK
    <3> QED
      BY <2>1, <3>1, <3>2
  <2> QED
    BY <2>1, <2>2, <2>3 DEF TypeOK
<1>10. ASSUME NEW s \in Shells, Kill(s) PROVE TypeOK'
  BY <1>10 DEF Kill, scanVars, TypeOK, Running
<1>11. CASE Redump
  BY <1>11 DEF Redump, scanVars, TypeOK
<1>12. CASE UNCHANGED vars
  BY <1>12 DEF vars, scanVars, TypeOK
<1> QED
  BY <1>1, <1>2, <1>3, <1>4, <1>5, <1>6, <1>7, <1>8, <1>9, <1>10, <1>11, <1>12
     DEF Next, Shell, Over

----------------------------------------------------------------------------
(* What the file is while shells save. *)

LEMMA ClashesNext ==
  TypeOK /\ (file.state = "absent" => file = Absent) /\ Clashes /\ [Next]_vars
    => Clashes' /\ (file.state = "absent" => file = Absent)'
<1> SUFFICES ASSUME TypeOK, file.state = "absent" => file = Absent, Clashes, [Next]_vars
             PROVE  Clashes' /\ (file'.state = "absent" => file' = Absent)
  OBVIOUS
<1>t. pc \in [Shells -> Running \cup {"new", "ready", "threw", "killed"}]
  BY DEF TypeOK
<1>1. ASSUME UNCHANGED <<file, clash>>,
             \A s \in Shells : pc'[s] \in Saving <=> pc[s] \in Saving
      PROVE  Clashes' /\ (file'.state = "absent" => file' = Absent)
  BY <1>1 DEF Clashes
<1>2. ASSUME NEW s \in Shells, Tear(s)
      PROVE  Clashes' /\ (file'.state = "absent" => file' = Absent)
  <2>1. /\ pc'[s] \in Saving
        /\ \A o \in Shells \ {s} : pc'[o] = pc[o]
        /\ file'.state = "torn"
        /\ clash' = (clash \/ \E o \in Shells : pc[o] \in Saving)
    BY <1>2, <1>t DEF Tear, Saving, Torn
  <2> QED
    BY <2>1 DEF Clashes
<1>3. ASSUME NEW s \in Shells, Save(s)
      PROVE  Clashes' /\ (file'.state = "absent" => file' = Absent)
  <2>1. /\ pc[s] \in Saving /\ pc'[s] \notin Saving
        /\ \A o \in Shells \ {s} : pc'[o] = pc[o]
        /\ clash' = clash
        /\ file' = IF Longer(s) THEN Torn ELSE Saved(s)
    BY <1>3, <1>t DEF Save, Saving
  <2>2. file'.state # "absent"
    BY <2>1 DEF Torn, Saved
  <2>3. CASE clash
    BY <2>1, <2>2, <2>3 DEF Clashes
  <2>4. CASE ~clash
    <3>1. file.state = "torn" /\ \A o \in Shells : pc[o] \in Saving => o = s
      BY <2>1, <2>4 DEF Clashes
    <3>2. file'.state = "whole"
      BY <2>1, <3>1 DEF Longer, Saved
    <3>3. \A o \in Shells : pc'[o] \notin Saving
      BY <2>1, <3>1
    <3> QED
      BY <2>2, <3>2, <3>3 DEF Clashes
  <2> QED
    BY <2>3, <2>4
<1>4. ASSUME NEW s \in Shells, Kill(s)
      PROVE  Clashes' /\ (file'.state = "absent" => file' = Absent)
  <2>1. /\ pc'[s] = "killed" /\ UNCHANGED file
        /\ \A o \in Shells \ {s} : pc'[o] = pc[o]
        /\ clash' = (clash \/ pc[s] \in Saving)
    BY <1>4, <1>t DEF Kill
  <2>2. CASE pc[s] \in Saving
    BY <2>1, <2>2 DEF Clashes
  <2>3. CASE pc[s] \notin Saving
    BY <2>1, <2>3 DEF Clashes, Saving
  <2> QED
    BY <2>2, <2>3
<1>5. ASSUME NEW s \in Shells,
             Load(s) \/ LoadThrows(s) \/ VisitForBase(s) \/ FoundBase(s)
               \/ PrepareTypes(s) \/ VisitForTypes(s) \/ FoundTypes(s)
      PROVE  Clashes' /\ (file'.state = "absent" => file' = Absent)
  <2>1. UNCHANGED <<file, clash>>
    BY <1>5 DEF Load, LoadThrows, VisitForBase, FoundBase, PrepareTypes, VisitForTypes,
                FoundTypes
  <2>2. \A o \in Shells : pc'[o] \in Saving <=> pc[o] \in Saving
    BY <1>5, <1>t DEF Load, LoadThrows, VisitForBase, FoundBase, PrepareTypes, VisitForTypes,
                      FoundTypes, Saving
  <2> QED
    BY <1>1, <2>1, <2>2
<1>6. CASE Redump \/ UNCHANGED vars
  <2>1. UNCHANGED <<file, clash, pc>>
    BY <1>6 DEF Redump, vars
  <2> QED
    BY <1>1, <2>1
<1> QED
  BY <1>2, <1>3, <1>4, <1>5, <1>6 DEF Next, Shell, Over

----------------------------------------------------------------------------
(* What a shell knows. *)

\* A shell's knowledge is about nothing but the heap and its own variables.
LEMMA KnowsKept ==
  ASSUME NEW s \in Shells, Knows(s), heap' = heap, pc'[s] = pc[s],
         base_type_object'[s] = base_type_object[s], type_objects'[s] = type_objects[s],
         visited'[s] = visited[s], candidates'[s] = candidates[s]
  PROVE  Knows(s)'
<1>1. Bases' = Bases /\ \A t : IsBase(t)' = IsBase(t)
  BY DEF Bases, IsBase
<1>2. \A b : TypesOf(b)' = TypesOf(b)
  BY DEF TypesOf
<1>3. \A b, types : Sound(b, types)' = Sound(b, types)
  BY <1>1, <1>2 DEF Sound
<1>4. Partly(s)' = Partly(s)
  BY <1>2 DEF Partly
<1> QED
  BY <1>1, <1>3, <1>4 DEF Knows

LEMMA BasesAreFinite ==
  ASSUME heap \in Heaps
  PROVE  /\ Cardinality(Bases) = 1 <=> \E b : Bases = {b}
         /\ \A b : Bases = {b} => b # Null /\ b \in TypesOf(b)
<1>1. Bases \subseteq DOMAIN heap /\ IsFiniteSet(DOMAIN heap) /\ Null \notin DOMAIN heap
  BY HeapFacts DEF Bases
<1>2. IsFiniteSet(Bases)
  BY <1>1, FS_Subset
<1>3. \A b : Bases = {b} => b # Null /\ b \in TypesOf(b)
  BY <1>1 DEF Bases, IsBase, TypesOf
<1> QED
  BY <1>2, <1>3, FS_Singleton

\* What the next type visited adds.
LEMMA PartlyNext ==
  ASSUME heap \in Heaps, NEW s \in Shells, Partly(s), NEW t \in DOMAIN heap \ visited[s],
         type_objects[s] \in [DOMAIN type_objects[s] -> Addrs],
         heap' = heap, base_type_object'[s] = base_type_object[s],
         visited'[s] = visited[s] \cup {t},
         type_objects'[s] = IF heap[t].ob_type = base_type_object[s]
                            THEN WithType(type_objects[s], t) ELSE type_objects[s]
  PROVE  Partly(s)'
<1> DEFINE types == type_objects[s]
           base  == base_type_object[s]
           found == visited[s] \cap TypesOf(base)
<1>1. /\ Range(types) = found
      /\ \A u \in found : Bare(heap[u].name) \in DOMAIN types
      /\ \A k \in DOMAIN types : /\ heap[types[k]].name = k[1]
                                 /\ k[2] # Null => types[k] = k[2]
  BY DEF Partly
<1>2. TypesOf(base)' = TypesOf(base)
  BY DEF TypesOf
<1>3. CASE heap[t].ob_type # base
  <2>1. t \notin TypesOf(base)
    BY <1>3 DEF TypesOf
  <2>2. visited'[s] \cap TypesOf(base)' = found
    BY <1>2, <2>1
  <2>3. type_objects'[s] = types
    BY <1>3
  <2> QED
    BY <1>1, <2>2, <2>3 DEF Partly
<1>4. CASE heap[t].ob_type = base
  <2> DEFINE W == WithType(types, t)
  <2>1. t \in TypesOf(base)
    BY <1>4 DEF TypesOf
  <2>2. visited'[s] \cap TypesOf(base)' = found \cup {t}
    BY <1>2, <2>1
  <2>3. t \notin Range(types)
    BY <1>1
  <2>4. PICK key : /\ key \notin DOMAIN types
                   /\ key[1] = heap[t].name
                   /\ key[2] # Null => key[2] = t
                   /\ DOMAIN W = DOMAIN types \cup {key}
                   /\ W[key] = t
                   /\ \A k \in DOMAIN types : W[k] = types[k]
                   /\ Bare(heap[t].name) \in DOMAIN W
    BY <1>1, <2>3, WithTypeCases
  <2>5. type_objects'[s] = W
    BY <1>4
  <2> HIDE DEF W, types, found
  <2>6. Range(W) = found \cup {t}
    <3>1. ASSUME NEW u \in Range(W) PROVE u \in found \cup {t}
      BY <1>1, <2>4, <3>1 DEF Range
    <3>2. ASSUME NEW u \in found \cup {t} PROVE u \in Range(W)
      BY <1>1, <2>4, <3>2 DEF Range
    <3> QED
      BY <3>1, <3>2
  <2>7. \A u \in found \cup {t} : Bare(heap[u].name) \in DOMAIN W
    BY <1>1, <2>4
  <2>8. \A k \in DOMAIN W : heap[W[k]].name = k[1] /\ (k[2] # Null => W[k] = k[2])
    BY <1>1, <2>4
  <2> QED
    BY <2>2, <2>5, <2>6, <2>7, <2>8 DEF Partly
<1> QED
  BY <1>3, <1>4

\* When the scan has visited everything, what was found is all there is.
LEMMA PartlyAll ==
  ASSUME heap \in Heaps, NEW s \in Shells, Partly(s), visited[s] = DOMAIN heap,
         Bases = {base_type_object[s]},
         type_objects[s] \in [DOMAIN type_objects[s] -> Addrs]
  PROVE  /\ Sound(base_type_object[s], type_objects[s])
         /\ type_objects[s] # NoTypes
<1>1. visited[s] \cap TypesOf(base_type_object[s]) = TypesOf(base_type_object[s])
  BY DEF TypesOf
<1>2. Sound(base_type_object[s], type_objects[s])
  BY <1>1 DEF Partly, Sound
<1>3. base_type_object[s] \in Range(type_objects[s])
  BY <1>1, BasesAreFinite DEF Partly
<1>4. DOMAIN type_objects[s] # {}
  BY <1>3 DEF Range
<1> QED
  BY <1>2, <1>4, SomeTypes

\* What a step that is not Redump leaves of the other shells.
LEMMA OtherShells ==
  ASSUME TypeOK, NEW s \in Shells, Shell(s) \/ Kill(s), NEW o \in Shells \ {s}, Knows(o)
  PROVE  Knows(o)'
<1>1. /\ heap' = heap /\ pc'[o] = pc[o]
      /\ base_type_object'[o] = base_type_object[o] /\ type_objects'[o] = type_objects[o]
  BY DEF TypeOK, Shell, Load, LoadThrows, VisitForBase, FoundBase, PrepareTypes,
         VisitForTypes, FoundTypes, Tear, Save, Kill
<1>2. visited'[o] = visited[o] /\ candidates'[o] = candidates[o]
  BY DEF TypeOK, scanVars, Shell, Load, LoadThrows, VisitForBase, FoundBase, PrepareTypes,
         VisitForTypes, FoundTypes, Tear, Save, Kill
<1> QED
  BY <1>1, <1>2, KnowsKept

\* Every step of a shell keeps what it knows right.
LEMMA KnowsNext ==
  ASSUME TypeOK, FileIsSound, ~redumped, file.state = "absent" => file = Absent,
         NEW s \in Shells, Knows(s), Shell(s) \/ Kill(s)
  PROVE  Knows(s)'
<1>h. heap \in Heaps /\ heap' = heap /\ Bases' = Bases
  BY DEF TypeOK, Bases, IsBase, Shell, Load, LoadThrows, VisitForBase, FoundBase,
         PrepareTypes, VisitForTypes, FoundTypes, Tear, Save, Kill
<1>b. \A t : IsBase(t)' = IsBase(t)
  BY <1>h DEF IsBase
<1>c. \A base, types : Sound(base, types)' = Sound(base, types)
  BY <1>h DEF Sound, Bases, IsBase, TypesOf
<1>t. /\ pc \in [Shells -> Running \cup {"new", "ready", "threw", "killed"}]
      /\ type_objects[s] \in [DOMAIN type_objects[s] -> Addrs]
  BY DEF TypeOK
<1>1. CASE Load(s)
  <2>1. /\ file.state # "torn" /\ pc[s] = "new"
        /\ base_type_object'[s] = file.base
        /\ type_objects'[s] = file.types
        /\ pc'[s] = IF file.base = Null THEN "find_base" ELSE "prepare_types"
        /\ visited'[s] = visited[s] /\ candidates'[s] = candidates[s]
    BY <1>1 DEF Load, TypeOK, scanVars
  <2>2. visited[s] = {} /\ candidates[s] = {}
    BY <2>1 DEF Knows
  <2>3. CASE file.state = "absent"
    <3>1. file.base = Null /\ file.types = NoTypes
      BY <2>3 DEF Absent
    <3> QED
      BY <2>1, <2>2, <3>1 DEF Knows
  <2>4. CASE file.state = "whole"
    <3>1. file.base # Null /\ Sound(file.base, file.types)
      BY <2>4 DEF FileIsSound
    <3>2. Bases = {file.base}
      BY <3>1 DEF Sound
    <3>3. pc'[s] = "prepare_types"
      BY <2>1, <3>1
    <3> QED
      BY <1>c, <1>h, <2>1, <3>1, <3>2, <3>3 DEF Knows
  <2> QED
    BY <2>1, <2>3, <2>4 DEF TypeOK
<1>2. CASE LoadThrows(s) \/ Kill(s)
  <2>1. pc'[s] \in {"threw", "killed"}
    BY <1>2, <1>t DEF LoadThrows, Kill
  <2> QED
    BY <2>1 DEF Knows
<1>3. CASE VisitForBase(s)
  <2>1. PICK t \in DOMAIN heap \ visited[s] :
          /\ visited' = [visited EXCEPT ![s] = @ \cup {t}]
          /\ candidates' = IF IsBase(t) THEN [candidates EXCEPT ![s] = @ \cup {t}]
                                        ELSE candidates
    BY <1>3 DEF VisitForBase
  <2>2. /\ pc[s] = "find_base" /\ pc' = pc
        /\ UNCHANGED <<base_type_object, type_objects>>
    BY <1>3 DEF VisitForBase
  <2>3. /\ base_type_object[s] = Null /\ type_objects[s] = NoTypes
        /\ visited[s] \subseteq DOMAIN heap
        /\ candidates[s] = {u \in visited[s] : IsBase(u)}
    BY <2>2 DEF Knows
  <2>4. visited'[s] = visited[s] \cup {t}
    BY <2>1 DEF TypeOK
  <2>5. candidates'[s] = {u \in visited[s] \cup {t} : IsBase(u)}
    BY <2>1, <2>3 DEF TypeOK
  <2>6. candidates'[s] = {u \in visited'[s] : IsBase(u)'}
    BY <1>b, <2>4, <2>5
  <2>7. visited'[s] \subseteq DOMAIN heap'
    BY <1>h, <2>3, <2>4
  <2> QED
    BY <2>2, <2>3, <2>6, <2>7 DEF Knows
<1>4. CASE FoundBase(s)
  <2>1. /\ pc[s] = "find_base" /\ visited[s] = DOMAIN heap
        /\ type_objects' = type_objects
    BY <1>4 DEF FoundBase
  <2>2. /\ base_type_object[s] = Null /\ type_objects[s] = NoTypes
        /\ candidates[s] = Bases
    BY <2>1 DEF Knows, Bases
  <2>3. CASE TakesBase(s)
    <3>1. PICK b \in candidates[s] : base_type_object' = [base_type_object EXCEPT ![s] = b]
      BY <1>4, <2>3 DEF FoundBase
    <3>2. pc'[s] = "tear_base" /\ base_type_object'[s] = b
      BY <1>4, <2>3, <3>1 DEF FoundBase, TypeOK
    <3>3. Bases = {b}
      BY <1>h, <2>2, <2>3, <3>1, BasesAreFinite DEF TakesBase
    <3> QED
      BY <1>h, <2>1, <2>2, <3>2, <3>3 DEF Knows
  <2>4. CASE ~TakesBase(s)
    <3>1. pc'[s] = "ready" /\ base_type_object' = base_type_object
      BY <1>4, <2>4 DEF FoundBase, TypeOK
    <3>2. Cardinality(Bases) # 1
      BY <2>2, <2>4 DEF TakesBase
    <3>3. Cardinality(Bases)' # 1
      BY <1>h, <3>2
    <3>4. Sound(Null, NoTypes)
      BY DEF Sound
    <3> QED
      BY <1>c, <2>1, <2>2, <3>1, <3>3, <3>4 DEF Knows
  <2> QED
    BY <2>3, <2>4
<1>5. CASE PrepareTypes(s)
  <2>1. /\ pc[s] = "prepare_types"
        /\ visited'[s] = {}
        /\ pc'[s] = IF type_objects[s] = NoTypes THEN "find_types" ELSE "ready"
        /\ UNCHANGED <<base_type_object, type_objects>>
    BY <1>5 DEF PrepareTypes, TypeOK
  <2>2. Bases = {base_type_object[s]} /\ Sound(base_type_object[s], type_objects[s])
    BY <2>1 DEF Knows
  <2>3. CASE type_objects[s] = NoTypes
    <3>1. DOMAIN type_objects'[s] = {} /\ Range(type_objects'[s]) = {}
      BY <2>1, <2>3 DEF NoTypes, Range
    <3>2. Partly(s)'
      BY <2>1, <3>1 DEF Partly
    <3> QED
      BY <1>h, <2>1, <2>2, <2>3, <3>2 DEF Knows
  <2>4. CASE type_objects[s] # NoTypes
    <3>1. Cardinality(Bases)' = 1
      <4>1. Cardinality(Bases) = 1
        BY <1>h, <2>2, BasesAreFinite
      <4> QED
        BY <1>h, <4>1
    <3>2. base_type_object[s] # Null
      BY <1>h, <2>2, BasesAreFinite
    <3> QED
      BY <1>c, <2>1, <2>2, <2>4, <3>1, <3>2 DEF Knows
  <2> QED
    BY <2>3, <2>4
<1>6. CASE VisitForTypes(s)
  <2>1. PICK t \in DOMAIN heap \ visited[s] :
          /\ visited' = [visited EXCEPT ![s] = @ \cup {t}]
          /\ type_objects' = IF heap[t].ob_type = base_type_object[s]
                             THEN [type_objects EXCEPT ![s] = WithType(@, t)]
                             ELSE type_objects
    BY <1>6 DEF VisitForTypes
  <2>2. pc[s] = "find_types" /\ pc' = pc /\ UNCHANGED base_type_object
    BY <1>6 DEF VisitForTypes
  <2>3. Bases = {base_type_object[s]} /\ visited[s] \subseteq DOMAIN heap /\ Partly(s)
    BY <2>2 DEF Knows
  <2>4. visited'[s] = visited[s] \cup {t}
    BY <2>1 DEF TypeOK
  <2>5. type_objects'[s] = IF heap[t].ob_type = base_type_object[s]
                           THEN WithType(type_objects[s], t) ELSE type_objects[s]
    BY <2>1 DEF TypeOK
  <2>6. Partly(s)'
    BY <1>h, <1>t, <2>2, <2>3, <2>4, <2>5, PartlyNext
  <2>7. visited'[s] \subseteq DOMAIN heap'
    BY <1>h, <2>3, <2>4
  <2> QED
    BY <1>h, <2>2, <2>3, <2>6, <2>7 DEF Knows
<1>7. CASE FoundTypes(s)
  <2>1. /\ pc[s] = "find_types" /\ visited[s] = DOMAIN heap
        /\ pc'[s] = IF type_objects[s] = NoTypes THEN "ready" ELSE "tear_types"
        /\ UNCHANGED <<base_type_object, type_objects>>
    BY <1>7 DEF FoundTypes, TypeOK
  <2>2. Bases = {base_type_object[s]} /\ Partly(s)
    BY <2>1 DEF Knows
  <2>3. /\ Sound(base_type_object[s], type_objects[s])
        /\ type_objects[s] # NoTypes
    BY <1>h, <1>t, <2>1, <2>2, PartlyAll
  <2> QED
    BY <1>c, <1>h, <2>1, <2>2, <2>3 DEF Knows
<1>8. CASE Tear(s)
  <2>1. /\ pc[s] \in {"tear_base", "tear_types"}
        /\ pc'[s] = IF pc[s] = "tear_base" THEN "save_base" ELSE "save_types"
        /\ UNCHANGED <<base_type_object, type_objects>>
    BY <1>8 DEF Tear, TypeOK
  <2> QED
    BY <1>c, <1>h, <2>1 DEF Knows
<1>9. CASE Save(s)
  <2>1. /\ pc[s] \in {"save_base", "save_types"}
        /\ pc'[s] = IF pc[s] = "save_base" THEN "prepare_types" ELSE "ready"
        /\ UNCHANGED <<base_type_object, type_objects>>
    BY <1>9 DEF Save, Saving, TypeOK
  <2>2. CASE pc[s] = "save_base"
    <3>1. Bases = {base_type_object[s]} /\ type_objects[s] = NoTypes
      BY <2>2 DEF Knows
    <3>2. Sound(base_type_object[s], type_objects[s])
      BY <3>1 DEF Sound
    <3> QED
      BY <1>c, <1>h, <2>1, <2>2, <3>1, <3>2 DEF Knows
  <2>3. CASE pc[s] = "save_types"
    <3>1. /\ Bases = {base_type_object[s]} /\ type_objects[s] # NoTypes
          /\ Sound(base_type_object[s], type_objects[s])
      BY <2>3 DEF Knows
    <3>2. Cardinality(Bases)' = 1 /\ base_type_object[s] # Null
      <4>1. Cardinality(Bases) = 1 /\ base_type_object[s] # Null
        BY <1>h, <3>1, BasesAreFinite
      <4> QED
        BY <1>h, <4>1
    <3> QED
      BY <1>c, <2>1, <2>3, <3>1, <3>2 DEF Knows
  <2> QED
    BY <2>1, <2>2, <2>3
<1> QED
  BY <1>1, <1>2, <1>3, <1>4, <1>5, <1>6, <1>7, <1>8, <1>9 DEF Shell

\* What a shell saves is sound, because what it knows is.
LEMMA FileNext ==
  ASSUME TypeOK, FileIsSound, ~redumped, \A s \in Shells : Knows(s),
         NEW s \in Shells, Shell(s) \/ Kill(s)
  PROVE  FileIsSound'
<1>h. heap \in Heaps /\ heap' = heap
  BY DEF TypeOK, Shell, Load, LoadThrows, VisitForBase, FoundBase, PrepareTypes,
         VisitForTypes, FoundTypes, Tear, Save, Kill
<1>c. \A base, types : Sound(base, types)' = Sound(base, types)
  BY <1>h DEF Sound, Bases, IsBase, TypesOf
<1>1. CASE file' = file
  BY <1>1, <1>c DEF FileIsSound
<1>2. CASE Tear(s)
  BY <1>2 DEF Tear, Torn, FileIsSound
<1>3. CASE Save(s)
  <2>1. /\ pc[s] \in {"save_base", "save_types"}
        /\ file' = Torn \/ file' = Saved(s)
    BY <1>3 DEF Save, Saving
  <2>2. /\ Bases = {base_type_object[s]}
        /\ Sound(base_type_object[s], type_objects[s])
    BY <2>1 DEF Knows, Sound
  <2>3. base_type_object[s] # Null
    BY <1>h, <2>2, BasesAreFinite
  <2>4. CASE file' = Torn
    BY <2>4 DEF Torn, FileIsSound
  <2>5. CASE file' = Saved(s)
    <3>1. file'.base = base_type_object[s] /\ file'.types = type_objects[s]
      BY <2>5 DEF Saved
    <3> QED
      BY <1>c, <2>2, <2>3, <3>1 DEF FileIsSound
  <2> QED
    BY <2>1, <2>4, <2>5
<1> QED
  BY <1>1, <1>2, <1>3
     DEF Shell, Load, LoadThrows, VisitForBase, FoundBase, PrepareTypes, VisitForTypes,
         FoundTypes, Kill

----------------------------------------------------------------------------
LEMMA AInvInit == Init => AInv
<1> SUFFICES ASSUME Init PROVE AInv
  OBVIOUS
<1>1. /\ file = Absent /\ file.state = "absent"
      /\ \A s \in Shells : pc[s] = "new" /\ visited[s] = {} /\ candidates[s] = {}
  BY DEF Init, Absent
<1>2. Clashes
  BY <1>1 DEF Clashes, Saving
<1>3. FileIsSound /\ \A s \in Shells : Knows(s)
  BY <1>1 DEF FileIsSound, Knows
<1> QED
  BY <1>1, <1>2, <1>3, TypeInit DEF AInv

LEMMA AInvNext == AInv /\ [Next]_vars => AInv'
<1> SUFFICES ASSUME AInv, [Next]_vars PROVE AInv'
  OBVIOUS
<1>1. TypeOK' /\ Clashes' /\ (file.state = "absent" => file = Absent)'
  BY TypeNext, ClashesNext DEF AInv
<1>2. ASSUME ~redumped' PROVE FileIsSound' /\ \A s \in Shells : Knows(s)'
  <2>1. ASSUME NEW s \in Shells, Shell(s) \/ Kill(s)
        PROVE  FileIsSound' /\ \A o \in Shells : Knows(o)'
    <3>1. ~redumped
      BY <1>2, <2>1 DEF Shell, Load, LoadThrows, VisitForBase, FoundBase, PrepareTypes,
                        VisitForTypes, FoundTypes, Tear, Save, Kill
    <3> QED
      BY <2>1, <3>1, OtherShells, KnowsNext, FileNext DEF AInv
  <2>2. CASE Redump
    BY <1>2, <2>2 DEF Redump
  <2>3. CASE UNCHANGED vars
    <3>1. FileIsSound' /\ ~redumped /\ heap' = heap
      BY <1>2, <2>3 DEF AInv, vars, FileIsSound, Sound, Bases, IsBase, TypesOf
    <3>2. \A s \in Shells : Knows(s)'
      BY <2>3, <3>1, KnowsKept DEF AInv, vars, scanVars
    <3> QED
      BY <3>1, <3>2
  <2> QED
    BY <2>1, <2>2, <2>3 DEF Next, Over
<1> QED
  BY <1>1, <1>2 DEF AInv

LEMMA Invariance == Spec => []AInv
  BY AInvInit, AInvNext, PTL DEF Spec

\* Every state is of its type; find_all_type_objects is never called without a
\* base type (AnalysisShell.cc:74-76).
THEOREM TypeCorrect == Spec => []TypeOK
<1>1. AInv => TypeOK
  BY DEF AInv
<1> QED
  BY <1>1, Invariance, PTL

\* However many shells are started, interrupted and save over each other, a
\* file that can be parsed says nothing wrong of the snapshot (Base.cc:17-50).
THEOREM FileAlwaysSound == Spec => []FileIsSound
<1>1. AInv => FileIsSound
  BY DEF AInv, FileIsSound
<1> QED
  BY <1>1, Invariance, PTL

\* A shell that is ready knows the only base type and all types, whatever the
\* order of the callbacks and whatever was loaded (AnalysisShell.cc:49-123).
THEOREM ReadyAlwaysSound == Spec => []ReadyIsSound
<1>1. AInv => ReadyIsSound
  BY DEF AInv, ReadyIsSound, Knows
<1> QED
  BY <1>1, Invariance, PTL

\* A shell is refused only while another one saves, or after a clash
\* (Base.cc:23-27): without one, no shell leaves a torn file behind.
THEOREM RefusedOnlyByAClash == Spec => RefusedOnlyByClash
<1>1. AInv => \A s \in Shells : LoadThrows(s) => clash \/ \E o \in Shells : pc[o] \in Saving
  BY DEF AInv, Clashes, LoadThrows
<1> QED
  BY <1>1, Invariance, PTL DEF RefusedOnlyByClash
=============================================================================
