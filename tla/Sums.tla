-------------------------------- MODULE Sums ---------------------------------
(***************************************************************************)
(* Facts about SumFunctionOnSet, by which the models add up money and      *)
(* stock, for every function and every finite set, about FlattenSeq, about *)
(* what the members of a sequence weigh together, about the shares of an   *)
(* amount into which Proration splits it, and about the splits of an       *)
(* Allocation and the items that lines take of them.                       *)
(*                                                                         *)
(* The community modules define a sum by recursion over subsets.  Proofs   *)
(* go by induction on finite sets, in a first-order form: the property is  *)
(* the set of its instances.                                               *)
(***************************************************************************)
EXTENDS Proration, Allocation, Integers, Functions, SequencesExt, SequenceTheorems, FiniteSetTheorems,
        WellFoundedInduction, TLAPS

(* What holds of a finite set whenever it holds of its proper subsets.     *)
LEMMA FiniteSubsetInduction ==
    ASSUME NEW S, IsFiniteSet(S), NEW G,
           \A T \in SUBSET S : (\A U \in SUBSET T : U # T => U \in G) => T \in G
    PROVE  \A T \in SUBSET S : T \in G
<1>1. PICK B : B = {T \in SUBSET S : T \notin G}
  OBVIOUS
<1>2. IsWellFoundedOn(StrictSubsetOrdering(S), FiniteSubsetsOf(S))
  BY FS_StrictSubsetOrderingWellFounded
<1>3. B \subseteq FiniteSubsetsOf(S)
  BY <1>1, FS_FiniteSubsetsOfFinite
<1>4. SUFFICES ASSUME B # {} PROVE FALSE
  BY <1>1
<1>5. PICK T \in B : \A U \in B : ~(<<U, T>> \in StrictSubsetOrdering(S))
  BY <1>2, <1>3, <1>4, WFMin
<1>6. T \in SUBSET S /\ \A U \in SUBSET T : U # T => U \in G
  BY <1>1, <1>5 DEF StrictSubsetOrdering
<1> QED
  BY <1>1, <1>5, <1>6

-----------------------------------------------------------------------------
(* The recursion.                                                          *)

Some(s) == CHOOSE x \in s : TRUE

Follows(h, f, T) ==
    h = [s \in SUBSET T |-> IF s = {} THEN 0 ELSE f[Some(s)] + h[s \ {Some(s)}]]

LEMMA SumIsChosen ==
    ASSUME NEW f, NEW S
    PROVE  SumFunctionOnSet(f, S) = (CHOOSE h : Follows(h, f, S))[S]
BY DEF SumFunctionOnSet, FoldFunctionOnSet, MapThenFoldSet, Some, Follows

Unfolds(f, T) ==
    SumFunctionOnSet(f, T) =
        IF T = {} THEN 0 ELSE f[Some(T)] + SumFunctionOnSet(f, T \ {Some(T)})

LEMMA SumUnfolds ==
    ASSUME NEW f, NEW S, IsFiniteSet(S)
    PROVE  Unfolds(f, S)
<1>1. PICK G : G = {T \in SUBSET S : Unfolds(f, T)}
  OBVIOUS
<1>2. ASSUME NEW T \in SUBSET S, \A U \in SUBSET T : U # T => U \in G
      PROVE  T \in G
  <2>1. PICK h : h = [s \in SUBSET T |->
                        IF s = {} THEN 0
                        ELSE f[Some(s)] + SumFunctionOnSet(f, s \ {Some(s)})]
    OBVIOUS
  <2>2. ASSUME NEW s \in SUBSET T, s # {}
        PROVE  s \ {Some(s)} \in SUBSET T /\ s \ {Some(s)} # T /\ Some(s) \in s
    BY <2>2 DEF Some
  <2>3. ASSUME NEW s \in SUBSET T, s # T PROVE h[s] = SumFunctionOnSet(f, s)
    BY <1>1, <1>2, <2>1, <2>3 DEF Unfolds
  <2>4. Follows(h, f, T)
    <3>1. ASSUME NEW s \in SUBSET T
          PROVE  h[s] = IF s = {} THEN 0 ELSE f[Some(s)] + h[s \ {Some(s)}]
      BY <2>1, <2>2, <2>3
    <3> QED
      BY <2>1, <3>1 DEF Follows
  <2>5. PICK g : g = CHOOSE h2 : Follows(h2, f, T)
    OBVIOUS
  <2>6. Follows(g, f, T)
    BY <2>4, <2>5
  <2>7. SumFunctionOnSet(f, T) = g[T]
    BY <2>5, SumIsChosen
  <2>8. \A s \in SUBSET T : s # T => g[s] = SumFunctionOnSet(f, s)
    <3>1. PICK H : H = {s \in SUBSET T : s # T => g[s] = SumFunctionOnSet(f, s)}
      OBVIOUS
    <3>2. ASSUME NEW s \in SUBSET T, \A u \in SUBSET s : u # s => u \in H
          PROVE  s \in H
      <4>1. SUFFICES ASSUME s # T PROVE g[s] = SumFunctionOnSet(f, s)
        BY <3>1
      <4>2. g[s] = IF s = {} THEN 0 ELSE f[Some(s)] + g[s \ {Some(s)}]
        BY <2>6 DEF Follows
      <4>3. Unfolds(f, s)
        BY <1>1, <1>2, <4>1
      <4>4. CASE s = {}
        BY <4>2, <4>3, <4>4 DEF Unfolds
      <4>5. CASE s # {}
        <5>1. s \ {Some(s)} \in H /\ s \ {Some(s)} # T
          BY <2>2, <3>2, <4>5
        <5> QED
          BY <3>1, <4>2, <4>3, <4>5, <5>1 DEF Unfolds
      <4> QED
        BY <4>4, <4>5
    <3>3. IsFiniteSet(T)
      BY FS_Subset
    <3>4. \A s \in SUBSET T : s \in H
      BY <3>2, <3>3, FiniteSubsetInduction
    <3> QED
      BY <3>1, <3>4
  <2>9. g[T] = IF T = {} THEN 0 ELSE f[Some(T)] + g[T \ {Some(T)}]
    BY <2>6 DEF Follows
  <2>10. CASE T = {}
    BY <1>1, <2>7, <2>9, <2>10 DEF Unfolds
  <2>11. CASE T # {}
    <3>1. T \ {Some(T)} \in SUBSET T /\ T \ {Some(T)} # T
      BY <2>2, <2>11
    <3> QED
      BY <1>1, <2>7, <2>8, <2>9, <2>11, <3>1 DEF Unfolds
  <2> QED
    BY <2>10, <2>11
<1>3. \A T \in SUBSET S : T \in G
  BY <1>2, FiniteSubsetInduction
<1> QED
  BY <1>1, <1>3

-----------------------------------------------------------------------------
(* What the models need of it.                                             *)

LEMMA SumOfNone == ASSUME NEW f PROVE SumFunctionOnSet(f, {}) = 0
<1>1. Unfolds(f, {})
  BY SumUnfolds, FS_EmptySet
<1> QED
  BY <1>1 DEF Unfolds

LEMMA SomeIsIn == ASSUME NEW S, S # {} PROVE Some(S) \in S
BY DEF Some

LEMMA SumType ==
    ASSUME NEW S, IsFiniteSet(S), NEW f
    PROVE  /\ (\A x \in S : f[x] \in Int) => SumFunctionOnSet(f, S) \in Int
           /\ (\A x \in S : f[x] \in Nat) => SumFunctionOnSet(f, S) \in Nat
<1>1. PICK G : G = {T \in SUBSET S :
          /\ (\A x \in S : f[x] \in Int) => SumFunctionOnSet(f, T) \in Int
          /\ (\A x \in S : f[x] \in Nat) => SumFunctionOnSet(f, T) \in Nat}
  OBVIOUS
<1>2. ASSUME NEW T \in SUBSET S, \A U \in SUBSET T : U # T => U \in G
      PROVE  T \in G
  <2>1. CASE T = {}
    BY <1>1, <2>1, SumOfNone
  <2>2. CASE T # {}
    <3>1. Some(T) \in T /\ T \ {Some(T)} \in G
      BY <1>2, <2>2, SomeIsIn
    <3>2. Unfolds(f, T)
      BY FS_Subset, SumUnfolds
    <3> QED
      BY <1>1, <2>2, <3>1, <3>2 DEF Unfolds
  <2> QED
    BY <2>1, <2>2
<1>3. S \in G
  BY <1>2, FiniteSubsetInduction
<1> QED
  BY <1>1, <1>3

(* Elements may be added up in any order.                                  *)
LEMMA SumRemove ==
    ASSUME NEW S, IsFiniteSet(S), NEW f, \A x \in S : f[x] \in Int
    PROVE  \A x \in S : SumFunctionOnSet(f, S) = f[x] + SumFunctionOnSet(f, S \ {x})
<1>1. PICK G : G = {T \in SUBSET S : \A x \in T :
                      SumFunctionOnSet(f, T) = f[x] + SumFunctionOnSet(f, T \ {x})}
  OBVIOUS
<1>2. ASSUME NEW T \in SUBSET S, \A U \in SUBSET T : U # T => U \in G
      PROVE  T \in G
  <2>1. SUFFICES ASSUME NEW x \in T
                 PROVE  SumFunctionOnSet(f, T) = f[x] + SumFunctionOnSet(f, T \ {x})
    BY <1>1
  <2>2. PICK y \in T : y = Some(T)
    BY SomeIsIn
  <2>3. SumFunctionOnSet(f, T) = f[y] + SumFunctionOnSet(f, T \ {y})
    <3>1. Unfolds(f, T)
      BY FS_Subset, SumUnfolds
    <3> QED
      BY <2>2, <3>1 DEF Unfolds
  <2>4. CASE x = y
    BY <2>3, <2>4
  <2>5. CASE x # y
    <3>1. T \ {y} \in G /\ T \ {x} \in G
      BY <1>2
    <3>2. SumFunctionOnSet(f, T \ {y}) = f[x] + SumFunctionOnSet(f, (T \ {y}) \ {x})
      BY <1>1, <2>5, <3>1
    <3>3. SumFunctionOnSet(f, T \ {x}) = f[y] + SumFunctionOnSet(f, (T \ {x}) \ {y})
      BY <1>1, <2>5, <3>1
    <3>4. (T \ {y}) \ {x} = (T \ {x}) \ {y}
      OBVIOUS
    <3>5. SumFunctionOnSet(f, (T \ {x}) \ {y}) \in Int
      <4>1. IsFiniteSet((T \ {x}) \ {y})
        BY FS_Subset
      <4> QED
        BY <4>1, SumType
    <3>6. PICK a \in Int, b \in Int, rest \in Int :
             a = f[x] /\ b = f[y] /\ rest = SumFunctionOnSet(f, (T \ {x}) \ {y})
      BY <3>5
    <3>7. SumFunctionOnSet(f, T) = b + (a + rest)
      BY <2>3, <3>2, <3>4, <3>6
    <3>8. f[x] + SumFunctionOnSet(f, T \ {x}) = a + (b + rest)
      BY <3>3, <3>6
    <3> QED
      BY <3>7, <3>8
  <2> QED
    BY <2>4, <2>5
<1>3. S \in G
  BY <1>2, FiniteSubsetInduction
<1> QED
  BY <1>1, <1>3

LEMMA SumAdd ==
    ASSUME NEW S, IsFiniteSet(S), NEW x, x \notin S,
           NEW f, \A y \in S \union {x} : f[y] \in Int
    PROVE  SumFunctionOnSet(f, S \union {x}) = f[x] + SumFunctionOnSet(f, S)
<1>1. IsFiniteSet(S \union {x}) /\ (S \union {x}) \ {x} = S
  BY FS_AddElement
<1> QED
  BY <1>1, SumRemove

(* Only the values on the set count.                                       *)
LEMMA SumSame ==
    ASSUME NEW S, IsFiniteSet(S), NEW f, NEW g, \A x \in S : f[x] = g[x]
    PROVE  SumFunctionOnSet(f, S) = SumFunctionOnSet(g, S)
<1>1. PICK G : G = {T \in SUBSET S : SumFunctionOnSet(f, T) = SumFunctionOnSet(g, T)}
  OBVIOUS
<1>2. ASSUME NEW T \in SUBSET S, \A U \in SUBSET T : U # T => U \in G
      PROVE  T \in G
  <2>1. CASE T = {}
    BY <1>1, <2>1, SumOfNone
  <2>2. CASE T # {}
    <3>1. Some(T) \in T /\ T \ {Some(T)} \in G
      BY <1>2, <2>2, SomeIsIn
    <3>2. Unfolds(f, T) /\ Unfolds(g, T)
      BY FS_Subset, SumUnfolds
    <3> QED
      BY <1>1, <2>2, <3>1, <3>2 DEF Unfolds
  <2> QED
    BY <2>1, <2>2
<1>3. S \in G
  BY <1>2, FiniteSubsetInduction
<1> QED
  BY <1>1, <1>3

LEMMA SumOfZeros ==
    ASSUME NEW S, IsFiniteSet(S), NEW f, \A x \in S : f[x] = 0
    PROVE  SumFunctionOnSet(f, S) = 0
<1>1. PICK G : G = {T \in SUBSET S : SumFunctionOnSet(f, T) = 0}
  OBVIOUS
<1>2. ASSUME NEW T \in SUBSET S, \A U \in SUBSET T : U # T => U \in G
      PROVE  T \in G
  <2>1. CASE T = {}
    BY <1>1, <2>1, SumOfNone
  <2>2. CASE T # {}
    <3>1. Some(T) \in T /\ T \ {Some(T)} \in G
      BY <1>2, <2>2, SomeIsIn
    <3>2. Unfolds(f, T)
      BY FS_Subset, SumUnfolds
    <3> QED
      BY <1>1, <2>2, <3>1, <3>2 DEF Unfolds
  <2> QED
    BY <2>1, <2>2
<1>3. S \in G
  BY <1>2, FiniteSubsetInduction
<1> QED
  BY <1>1, <1>3

(* One value changes, and the sum with it.                                 *)
LEMMA SumUpdate ==
    ASSUME NEW S, IsFiniteSet(S), NEW x \in S, NEW f, NEW g,
           \A y \in S : f[y] \in Int /\ g[y] \in Int,
           \A y \in S \ {x} : f[y] = g[y]
    PROVE  SumFunctionOnSet(g, S) = SumFunctionOnSet(f, S) - f[x] + g[x]
<1>1. IsFiniteSet(S \ {x})
  BY FS_Subset
<1>2. SumFunctionOnSet(f, S \ {x}) = SumFunctionOnSet(g, S \ {x})
  BY <1>1, SumSame
<1>3. SumFunctionOnSet(f, S \ {x}) \in Int
  BY <1>1, SumType
<1>4. /\ SumFunctionOnSet(f, S) = f[x] + SumFunctionOnSet(f, S \ {x})
      /\ SumFunctionOnSet(g, S) = g[x] + SumFunctionOnSet(g, S \ {x})
  BY SumRemove
<1> QED
  BY <1>2, <1>3, <1>4

(* A single value that counts.                                             *)
LEMMA SumOfOne ==
    ASSUME NEW S, IsFiniteSet(S), NEW x \in S, NEW f, f[x] \in Int,
           \A y \in S \ {x} : f[y] = 0
    PROVE  SumFunctionOnSet(f, S) = f[x]
<1>1. IsFiniteSet(S \ {x})
  BY FS_Subset
<1>2. SumFunctionOnSet(f, S \ {x}) = 0
  BY <1>1, SumOfZeros
<1>3. \A y \in S : f[y] \in Int
  OBVIOUS
<1>4. SumFunctionOnSet(f, S) = f[x] + SumFunctionOnSet(f, S \ {x})
  BY <1>3, SumRemove
<1> QED
  BY <1>2, <1>4

(* Larger values and larger sets have larger sums.                         *)
LEMMA SumGrows ==
    ASSUME NEW S, IsFiniteSet(S), NEW T \in SUBSET S, NEW f, NEW g,
           \A x \in S : f[x] \in Nat /\ g[x] \in Nat,
           \A x \in T : f[x] <= g[x]
    PROVE  SumFunctionOnSet(f, T) <= SumFunctionOnSet(g, S)
<1>1. PICK G : G = {U \in SUBSET S : SumFunctionOnSet(f, T \intersect U) <= SumFunctionOnSet(g, U)}
  OBVIOUS
<1>2. ASSUME NEW U \in SUBSET S, \A V \in SUBSET U : V # U => V \in G
      PROVE  U \in G
  <2>1. CASE U = {}
    BY <1>1, <2>1, SumOfNone
  <2>2. CASE U # {}
    <3>1. PICK x \in U : TRUE
      BY <2>2
    <3>2. /\ U \ {x} \in G /\ IsFiniteSet(U) /\ IsFiniteSet(T \intersect U)
          /\ IsFiniteSet(U \ {x}) /\ IsFiniteSet(T \intersect (U \ {x}))
      BY <1>2, FS_Subset
    <3>3. /\ SumFunctionOnSet(f, T \intersect (U \ {x})) \in Nat
          /\ SumFunctionOnSet(g, U \ {x}) \in Nat
          /\ SumFunctionOnSet(f, T \intersect (U \ {x})) <= SumFunctionOnSet(g, U \ {x})
      BY <1>1, <3>2, SumType
    <3>4. SumFunctionOnSet(g, U) = g[x] + SumFunctionOnSet(g, U \ {x})
      BY <3>2, SumRemove
    <3>5. CASE x \in T
      <4>1. (T \intersect U) \ {x} = T \intersect (U \ {x})
        OBVIOUS
      <4>2. SumFunctionOnSet(f, T \intersect U)
              = f[x] + SumFunctionOnSet(f, (T \intersect U) \ {x})
        BY <3>2, <3>5, SumRemove
      <4>3. PICK a \in Nat, b \in Nat : a = f[x] /\ b = g[x] /\ a <= b
        BY <3>5
      <4>4. PICK c \in Nat, d \in Nat :
               /\ c = SumFunctionOnSet(f, T \intersect (U \ {x}))
               /\ d = SumFunctionOnSet(g, U \ {x})
        BY <3>3
      <4>5. c <= d /\ a + c <= b + d
        BY <3>3, <4>3, <4>4
      <4>6. SumFunctionOnSet(f, T \intersect U) = a + c
        BY <4>1, <4>2, <4>3, <4>4
      <4>7. SumFunctionOnSet(g, U) = b + d
        BY <3>4, <4>3, <4>4
      <4> QED
        BY <1>1, <4>5, <4>6, <4>7
    <3>6. CASE x \notin T
      <4>1. T \intersect U = T \intersect (U \ {x})
        BY <3>6
      <4> QED
        BY <1>1, <3>3, <3>4, <4>1
    <3> QED
      BY <3>5, <3>6
  <2> QED
    BY <2>1, <2>2
<1>3. S \in G
  BY <1>2, FiniteSubsetInduction
<1>4. T \intersect S = T
  OBVIOUS
<1> QED
  BY <1>1, <1>3, <1>4

-----------------------------------------------------------------------------
(* Sequences joined end to end, and the largest and smallest of a set.      *)
LEMMA NatSetInduction ==
    ASSUME NEW G, 0 \in G, \A n \in Nat : n \in G => n + 1 \in G
    PROVE  \A n \in Nat : n \in G
<1>1. PICK B : B = {n \in Nat : n \notin G}
  OBVIOUS
<1>2. SUFFICES ASSUME B # {} PROVE FALSE
  BY <1>1
<1>3. PICK n \in B : \A m \in B : ~(<<m, n>> \in OpToRel(<, Nat))
  BY <1>1, <1>2, NatLessThanWellFounded, WFMin
<1>4. \A m \in B : ~(m < n)
  BY <1>1, <1>3 DEF OpToRel
<1>5. n # 0 /\ n - 1 \in Nat
  BY <1>1
<1>6. n - 1 \in G
  BY <1>1, <1>4, <1>5
<1> QED
  BY <1>1, <1>5, <1>6

(* The sequences of a sequence, one after the other.                       *)
Joins(f, seqs, n) ==
    f = [i \in 1 .. n |-> IF i = 1 THEN seqs[i] ELSE f[i - 1] \o seqs[i]]

LEMMA JoinsExist ==
    ASSUME NEW seqs PROVE \A n \in Nat : \E f : Joins(f, seqs, n)
<1>1. PICK G : G = {n \in Nat : \E f : Joins(f, seqs, n)}
  OBVIOUS
<1>2. 0 \in G
  <2>1. PICK f : f = [i \in 1 .. 0 |-> 0]
    OBVIOUS
  <2>2. Joins(f, seqs, 0)
    BY <2>1 DEF Joins
  <2> QED
    BY <1>1, <2>2
<1>3. ASSUME NEW n \in Nat, n \in G PROVE n + 1 \in G
  <2>1. PICK f : Joins(f, seqs, n)
    BY <1>1, <1>3
  <2>2. PICK g : g = [i \in 1 .. n + 1 |->
                        IF i = n + 1
                        THEN IF i = 1 THEN seqs[i] ELSE f[i - 1] \o seqs[i]
                        ELSE f[i]]
    OBVIOUS
  <2>3. ASSUME NEW i \in 1 .. n + 1
        PROVE  g[i] = IF i = 1 THEN seqs[i] ELSE g[i - 1] \o seqs[i]
    <3>1. CASE i = n + 1
      <4>1. i # 1 => g[i - 1] = f[i - 1]
        BY <2>2, <3>1
      <4> QED
        BY <2>2, <3>1, <4>1
    <3>2. CASE i # n + 1
      <4>1. i \in 1 .. n /\ (i # 1 => i - 1 \in 1 .. n /\ g[i - 1] = f[i - 1])
        BY <2>2, <3>2
      <4>2. f[i] = IF i = 1 THEN seqs[i] ELSE f[i - 1] \o seqs[i]
        BY <2>1, <4>1 DEF Joins
      <4> QED
        BY <2>2, <3>2, <4>1, <4>2
    <3> QED
      BY <3>1, <3>2
  <2>4. Joins(g, seqs, n + 1)
    BY <2>2, <2>3 DEF Joins
  <2> QED
    BY <1>1, <2>4
<1> QED
  BY <1>1, <1>2, <1>3, NatSetInduction

LEMMA FlattenType ==
    ASSUME NEW S, NEW seqs \in Seq(Seq(S)) PROVE FlattenSeq(seqs) \in Seq(S)
<1>1. CASE Len(seqs) = 0
  <2>1. FlattenSeq(seqs) = seqs /\ seqs = << >>
    BY <1>1 DEF FlattenSeq
  <2> QED
    BY <2>1
<1>2. CASE Len(seqs) # 0
  <2>1. PICK n \in Nat : n = Len(seqs) /\ n # 0 /\ DOMAIN seqs = 1 .. n
    BY <1>2
  <2>2. PICK f : f = CHOOSE g : Joins(g, seqs, n)
    OBVIOUS
  <2>3. Joins(f, seqs, n)
    BY <2>2, JoinsExist
  <2>4. FlattenSeq(seqs) = f[n]
    BY <1>2, <2>1, <2>2 DEF FlattenSeq, Joins
  <2>5. PICK G : G = {i \in Nat : i \in 1 .. n => f[i] \in Seq(S)}
    OBVIOUS
  <2>6. 0 \in G
    BY <2>5
  <2>7. ASSUME NEW i \in Nat, i \in G PROVE i + 1 \in G
    <3>1. SUFFICES ASSUME i + 1 \in 1 .. n PROVE f[i + 1] \in Seq(S)
      BY <2>5
    <3>2. PICK j \in 1 .. n : j = i + 1
      BY <3>1
    <3>3. f[j] = IF j = 1 THEN seqs[j] ELSE f[j - 1] \o seqs[j]
      BY <2>3 DEF Joins
    <3>4. seqs[j] \in Seq(S)
      BY <2>1
    <3>5. CASE j = 1
      BY <3>2, <3>3, <3>4, <3>5
    <3>6. CASE j # 1
      <4>1. j - 1 = i /\ i \in 1 .. n
        BY <3>2, <3>6
      <4>2. f[i] \in Seq(S)
        BY <2>5, <2>7, <4>1
      <4>3. f[j] = f[i] \o seqs[j]
        BY <3>3, <3>6, <4>1
      <4> QED
        BY <3>2, <3>4, <4>2, <4>3
    <3> QED
      BY <3>5, <3>6
  <2>8. n \in G
    BY <2>6, <2>7, NatSetInduction
  <2> QED
    BY <2>1, <2>4, <2>5, <2>8
<1> QED
  BY <1>1, <1>2

(* A finite set of integers has a largest and a smallest member.           *)
LEMMA MaxMinIsIn ==
    ASSUME NEW S, IsFiniteSet(S), S # {}, S \subseteq Int
    PROVE  /\ Max(S) \in S /\ \A y \in S : Max(S) >= y
           /\ Min(S) \in S /\ \A y \in S : Min(S) <= y
<1>1. PICK G : G = {T \in SUBSET S : T # {} => /\ \E x \in T : \A y \in T : x >= y
                                               /\ \E x \in T : \A y \in T : x <= y}
  OBVIOUS
<1>2. ASSUME NEW T \in SUBSET S, \A U \in SUBSET T : U # T => U \in G
      PROVE  T \in G
  <2>1. SUFFICES ASSUME T # {}
                 PROVE  /\ \E x \in T : \A y \in T : x >= y
                        /\ \E x \in T : \A y \in T : x <= y
    BY <1>1
  <2>2. PICK z \in T : TRUE
    BY <2>1
  <2>3. T \ {z} \in G
    BY <1>2
  <2>4. CASE T \ {z} = {}
    BY <2>2, <2>4
  <2>5. CASE T \ {z} # {}
    <3>1. PICK x \in T \ {z} : \A y \in T \ {z} : x >= y
      BY <1>1, <2>3, <2>5
    <3>2. PICK w \in T \ {z} : \A y \in T \ {z} : w <= y
      BY <1>1, <2>3, <2>5
    <3>3. x \in Int /\ z \in Int /\ w \in Int /\ T \subseteq Int
      OBVIOUS
    <3>4. \E b \in T : \A y \in T : b >= y
      <4>1. CASE x >= z
        BY <3>1, <4>1
      <4>2. CASE z > x
        <5>1. \A y \in T : z >= y
          BY <3>1, <3>3, <4>2
        <5> QED
          BY <5>1
      <4> QED
        BY <3>3, <4>1, <4>2
    <3>5. \E b \in T : \A y \in T : b <= y
      <4>1. CASE w <= z
        BY <3>2, <4>1
      <4>2. CASE z < w
        <5>1. \A y \in T : z <= y
          BY <3>2, <3>3, <4>2
        <5> QED
          BY <5>1
      <4> QED
        BY <3>3, <4>1, <4>2
    <3> QED
      BY <3>4, <3>5
  <2> QED
    BY <2>4, <2>5
<1>3. S \in G
  BY <1>2, FiniteSubsetInduction
<1>4. /\ \E x \in S : \A y \in S : x >= y
      /\ \E x \in S : \A y \in S : x <= y
  BY <1>1, <1>3
<1> QED
  BY <1>4 DEF Max, Min

LEMMA OfTwo ==
    ASSUME NEW a \in Int, NEW b \in Int
    PROVE  Max({a, b}) \in Int /\ Min({a, b}) \in Int /\ Max({0, a}) \in Nat
<1>1. IsFiniteSet({a, b}) /\ IsFiniteSet({0, a})
  <2>1. IsFiniteSet({a})
    BY FS_Singleton
  <2>2. IsFiniteSet({a} \union {b}) /\ IsFiniteSet({a} \union {0})
    BY <2>1, FS_AddElement
  <2>3. {a} \union {b} = {a, b} /\ {a} \union {0} = {0, a}
    OBVIOUS
  <2> QED
    BY <2>2, <2>3
<1>2. Max({a, b}) \in {a, b} /\ Min({a, b}) \in {a, b}
  BY <1>1, MaxMinIsIn
<1>3. Max({0, a}) \in {0, a} /\ Max({0, a}) >= 0
  BY <1>1, MaxMinIsIn
<1> QED
  BY <1>2, <1>3

LEMMA PrefixOf ==
    ASSUME NEW S, NEW s \in Seq(S), NEW n \in 0 .. Len(s)
    PROVE  SubSeq(s, 1, n) \in Seq(S)
<1>1. CASE n = 0
  <2>1. SubSeq(s, 1, n) = << >>
    BY <1>1, SubSeqEmpty
  <2> QED
    BY <2>1
<1>2. CASE n # 0
  <2>1. n \in 1 .. Len(s)
    BY <1>2
  <2>2. \A i \in 1 .. n : s[i] \in S
    BY <2>1
  <2> QED
    BY <2>1, <2>2, SubSeqProperties
<1> QED
  BY <1>1, <1>2

-----------------------------------------------------------------------------
(* What the members of a sequence weigh together, and its first n members. *)
Running(s, w, n) == SumFunctionOnSet([i \in DOMAIN s |-> w[s[i]]], 1 .. n)

Weighs(s, w) == SumFunctionOnSet([i \in DOMAIN s |-> w[s[i]]], DOMAIN s)

LEMMA RunningType ==
    ASSUME NEW S, NEW s \in Seq(S), NEW w \in [S -> Int], NEW n \in 0 .. Len(s)
    PROVE  Running(s, w, n) \in Int
<1>1. PICK f : f = [i \in DOMAIN s |-> w[s[i]]]
  OBVIOUS
<1>2. \A i \in 1 .. n : f[i] \in Int
  BY <1>1
<1>3. IsFiniteSet(1 .. n)
  BY FS_Interval
<1>4. SumFunctionOnSet(f, 1 .. n) \in Int
  BY <1>2, <1>3, SumType
<1> QED
  BY <1>1, <1>4 DEF Running

LEMMA RunningNone == ASSUME NEW s, NEW w PROVE Running(s, w, 0) = 0
<1>1. 1 .. 0 = {}
  OBVIOUS
<1> QED
  BY <1>1, SumOfNone DEF Running

LEMMA RunningNext ==
    ASSUME NEW S, NEW s \in Seq(S), NEW w \in [S -> Int], NEW n \in Nat, n + 1 <= Len(s)
    PROVE  Running(s, w, n + 1) = Running(s, w, n) + w[s[n + 1]]
<1>1. PICK f : f = [i \in DOMAIN s |-> w[s[i]]]
  OBVIOUS
<1>2. \A i \in 1 .. n + 1 : f[i] \in Int
  BY <1>1
<1>3. IsFiniteSet(1 .. n) /\ n + 1 \notin 1 .. n /\ 1 .. n + 1 = (1 .. n) \union {n + 1}
  <2>1. IsFiniteSet(1 .. n)
    BY FS_Interval
  <2>2. n + 1 \notin 1 .. n /\ 1 .. n + 1 = (1 .. n) \union {n + 1}
    OBVIOUS
  <2> QED
    BY <2>1, <2>2
<1>4. SumFunctionOnSet(f, 1 .. n + 1) = f[n + 1] + SumFunctionOnSet(f, 1 .. n)
  BY <1>2, <1>3, SumAdd
<1>5. f[n + 1] = w[s[n + 1]] /\ w[s[n + 1]] \in Int
  BY <1>1
<1>6. SumFunctionOnSet(f, 1 .. n) \in Int
  BY <1>2, <1>3, SumType
<1> QED
  BY <1>1, <1>4, <1>5, <1>6 DEF Running

LEMMA WeighsRunning ==
    ASSUME NEW S, NEW s \in Seq(S), NEW w PROVE Weighs(s, w) = Running(s, w, Len(s))
<1>1. DOMAIN s = 1 .. Len(s)
  OBVIOUS
<1> QED
  BY <1>1 DEF Weighs, Running

LEMMA WeighsType ==
    ASSUME NEW S, NEW s \in Seq(S), NEW w \in [S -> Int] PROVE Weighs(s, w) \in Int
BY WeighsRunning, RunningType

LEMMA WeighsEmpty == ASSUME NEW w PROVE Weighs(<< >>, w) = 0
<1>1. DOMAIN << >> = {}
  OBVIOUS
<1> QED
  BY <1>1, SumOfNone DEF Weighs

LEMMA WeighsOne ==
    ASSUME NEW S, NEW x \in S, NEW w \in [S -> Int] PROVE Weighs(<<x>>, w) = w[x]
<1>0. <<x>> \in Seq(S)
  OBVIOUS
<1>1. PICK s \in Seq(S) : s = <<x>>
  BY <1>0
<1>2. Running(s, w, 0 + 1) = Running(s, w, 0) + w[s[0 + 1]]
  <2>1. 0 + 1 <= Len(s) /\ 0 \in Nat
    BY <1>1
  <2> QED
    BY <2>1, RunningNext
<1>3. Len(s) = 1 /\ s[1] = x /\ w[x] \in Int
  BY <1>1
<1>4. Running(s, w, 1) = w[x]
  BY <1>2, <1>3, RunningNone
<1>5. Weighs(s, w) = Running(s, w, 1)
  BY <1>3, WeighsRunning
<1> QED
  BY <1>1, <1>4, <1>5

LEMMA WeighsConcat ==
    ASSUME NEW S, NEW s \in Seq(S), NEW t \in Seq(S), NEW w \in [S -> Int]
    PROVE  Weighs(s \o t, w) = Weighs(s, w) + Weighs(t, w)
<1>0. s \o t \in Seq(S)
  BY ConcatProperties
<1>1. PICK u \in Seq(S) : u = s \o t
  BY <1>0
<1>2. /\ Len(u) = Len(s) + Len(t) /\ Len(s) \in Nat /\ Len(t) \in Nat
      /\ \A i \in 1 .. Len(s) : u[i] = s[i]
      /\ \A i \in 1 .. Len(t) : u[Len(s) + i] = t[i]
  BY <1>1, ConcatProperties
<1>3. Running(u, w, Len(s)) = Running(s, w, Len(s))
  <2>1. PICK f, g : f = [i \in DOMAIN u |-> w[u[i]]] /\ g = [i \in DOMAIN s |-> w[s[i]]]
    OBVIOUS
  <2>2. \A i \in 1 .. Len(s) : f[i] = g[i]
    BY <1>2, <2>1
  <2>3. SumFunctionOnSet(f, 1 .. Len(s)) = SumFunctionOnSet(g, 1 .. Len(s))
    <3>1. IsFiniteSet(1 .. Len(s))
      BY FS_Interval
    <3> QED
      BY <2>2, <3>1, SumSame
  <2> QED
    BY <2>1, <2>3 DEF Running
<1>4. PICK G : G = {n \in Nat : n <= Len(t) =>
                      Running(u, w, Len(s) + n) = Running(s, w, Len(s)) + Running(t, w, n)}
  OBVIOUS
<1>5. 0 \in G
  <2>1. Running(s, w, Len(s)) \in Int
    <3>1. Len(s) \in 0 .. Len(s)
      BY <1>2
    <3> QED
      BY <3>1, RunningType
  <2> QED
    BY <1>2, <1>3, <1>4, <2>1, RunningNone
<1>6. ASSUME NEW n \in Nat, n \in G PROVE n + 1 \in G
  <2>1. SUFFICES ASSUME n + 1 <= Len(t)
                 PROVE  Running(u, w, Len(s) + (n + 1)) = Running(s, w, Len(s)) + Running(t, w, n + 1)
    BY <1>4
  <2>2. Running(u, w, Len(s) + n) = Running(s, w, Len(s)) + Running(t, w, n)
    BY <1>2, <1>4, <1>6, <2>1
  <2>3. PICK m \in Nat : m = Len(s) + n
    BY <1>2
  <2>4. m + 1 = Len(s) + (n + 1) /\ m + 1 <= Len(u) /\ n + 1 \in 1 .. Len(t)
    BY <1>2, <2>1, <2>3
  <2>5. Running(u, w, m + 1) = Running(u, w, m) + w[u[m + 1]]
    BY <2>4, RunningNext
  <2>6. u[m + 1] = t[n + 1]
    BY <1>2, <2>4
  <2>7. Running(t, w, n + 1) = Running(t, w, n) + w[t[n + 1]]
    BY <2>1, RunningNext
  <2>8. /\ Running(s, w, Len(s)) \in Int /\ Running(t, w, n) \in Int
        /\ w[t[n + 1]] \in Int
    <3>1. n \in 0 .. Len(t) /\ Len(s) \in 0 .. Len(s) /\ t[n + 1] \in S
      BY <1>2, <2>1, <2>4
    <3> QED
      BY <3>1, RunningType
  <2>9. Running(u, w, m + 1) = Running(s, w, Len(s)) + Running(t, w, n + 1)
    <3>1. Running(u, w, m) = Running(s, w, Len(s)) + Running(t, w, n)
      BY <2>2, <2>3
    <3> QED
      BY <2>5, <2>6, <2>7, <2>8, <3>1
  <2> QED
    BY <2>4, <2>9
<1>7. Len(t) \in G
  BY <1>2, <1>5, <1>6, NatSetInduction
<1>8. Running(u, w, Len(u)) = Running(s, w, Len(s)) + Running(t, w, Len(t))
  BY <1>2, <1>4, <1>7
<1> QED
  BY <1>1, <1>8, WeighsRunning

(* The parts of a sequence weigh together what it weighs.                  *)
LEMMA WeighsFlatten ==
    ASSUME NEW S, NEW seqs \in Seq(Seq(S)), NEW w \in [S -> Int]
    PROVE  Weighs(FlattenSeq(seqs), w) =
              SumFunctionOnSet([i \in DOMAIN seqs |-> Weighs(seqs[i], w)], DOMAIN seqs)
<1>0. PICK g : g = [i \in DOMAIN seqs |-> Weighs(seqs[i], w)]
  OBVIOUS
<1>1. CASE Len(seqs) = 0
  <2>1. FlattenSeq(seqs) = seqs /\ seqs = << >> /\ DOMAIN seqs = {}
    BY <1>1 DEF FlattenSeq
  <2> QED
    BY <2>1, WeighsEmpty, SumOfNone
<1>2. CASE Len(seqs) # 0
  <2>1. PICK n \in Nat : n = Len(seqs) /\ n # 0 /\ DOMAIN seqs = 1 .. n
    BY <1>2
  <2>2. PICK f : f = CHOOSE h : Joins(h, seqs, n)
    OBVIOUS
  <2>3. Joins(f, seqs, n)
    BY <2>2, JoinsExist
  <2>4. FlattenSeq(seqs) = f[n]
    BY <1>2, <2>1, <2>2 DEF FlattenSeq, Joins
  <2>5. PICK G : G = {i \in Nat : i \in 1 .. n =>
                        f[i] \in Seq(S) /\ Weighs(f[i], w) = SumFunctionOnSet(g, 1 .. i)}
    OBVIOUS
  <2>6. 0 \in G
    BY <2>5
  <2>7. ASSUME NEW i \in Nat, i \in G PROVE i + 1 \in G
    <3>1. SUFFICES ASSUME i + 1 \in 1 .. n
                   PROVE  /\ f[i + 1] \in Seq(S)
                          /\ Weighs(f[i + 1], w) = SumFunctionOnSet(g, 1 .. i + 1)
      BY <2>5
    <3>2. PICK j \in 1 .. n : j = i + 1
      BY <3>1
    <3>3. f[j] = IF j = 1 THEN seqs[j] ELSE f[j - 1] \o seqs[j]
      BY <2>3 DEF Joins
    <3>4. seqs[j] \in Seq(S)
      BY <2>1
    <3>5. \A k \in 1 .. n : g[k] = Weighs(seqs[k], w) /\ g[k] \in Int
      <4>1. SUFFICES ASSUME NEW k \in 1 .. n PROVE g[k] = Weighs(seqs[k], w) /\ g[k] \in Int
        OBVIOUS
      <4>2. seqs[k] \in Seq(S)
        BY <2>1
      <4> QED
        BY <1>0, <2>1, <4>2, WeighsType
    <3>6. SumFunctionOnSet(g, 1 .. j) = g[j] + SumFunctionOnSet(g, 1 .. i)
      <4>1. /\ IsFiniteSet(1 .. i) /\ j \notin 1 .. i /\ 1 .. j = (1 .. i) \union {j}
            /\ \A y \in (1 .. i) \union {j} : g[y] \in Int
        <5>1. IsFiniteSet(1 .. i)
          BY FS_Interval
        <5>2. j \notin 1 .. i /\ 1 .. j = (1 .. i) \union {j} /\ (1 .. i) \union {j} \subseteq 1 .. n
          BY <3>2
        <5> QED
          BY <3>5, <5>1, <5>2
      <4> QED
        BY <4>1, SumAdd
    <3>7. CASE j = 1
      <4>1. 1 .. i = {} /\ f[j] = seqs[j]
        BY <3>2, <3>3, <3>7
      <4>2. SumFunctionOnSet(g, 1 .. i) = 0
        BY <4>1, SumOfNone
      <4> QED
        BY <3>2, <3>4, <3>5, <3>6, <4>1, <4>2
    <3>8. CASE j # 1
      <4>1. j - 1 = i /\ i \in 1 .. n
        BY <3>2, <3>8
      <4>2. f[i] \in Seq(S) /\ Weighs(f[i], w) = SumFunctionOnSet(g, 1 .. i)
        BY <2>5, <2>7, <4>1
      <4>3. f[j] = f[i] \o seqs[j]
        BY <3>3, <3>8, <4>1
      <4>4. Weighs(f[j], w) = Weighs(f[i], w) + Weighs(seqs[j], w) /\ f[j] \in Seq(S)
        BY <3>4, <4>2, <4>3, WeighsConcat
      <4>5. Weighs(f[i], w) \in Int
        BY <4>2, WeighsType
      <4> QED
        BY <3>2, <3>5, <3>6, <4>2, <4>4, <4>5
    <3> QED
      BY <3>7, <3>8
  <2>8. n \in G
    BY <2>6, <2>7, NatSetInduction
  <2>9. n \in 1 .. n
    BY <2>1
  <2>10. Weighs(f[n], w) = SumFunctionOnSet(g, 1 .. n)
    BY <2>5, <2>8, <2>9
  <2> QED
    BY <1>0, <2>1, <2>4, <2>10
<1> QED
  BY <1>1, <1>2

-----------------------------------------------------------------------------
(* A sum over a part is a sum over the whole with zeros elsewhere.         *)
PartOf(g, f, T, S) ==
    T \subseteq S /\ \A x \in S : f[x] \in Int /\ g[x] = IF x \in T THEN f[x] ELSE 0

LEMMA SumOfPart ==
    ASSUME NEW S, IsFiniteSet(S), NEW T, NEW f, NEW g, PartOf(g, f, T, S)
    PROVE  SumFunctionOnSet(f, T) = SumFunctionOnSet(g, S)
<1>0. /\ T \subseteq S
      /\ \A x \in S : f[x] \in Int
      /\ \A x \in S : g[x] = IF x \in T THEN f[x] ELSE 0
  BY DEF PartOf
<1>1. IsFiniteSet(T) /\ IsFiniteSet(S \ T)
  BY <1>0, FS_Subset
<1>2. PICK G : G = {U \in SUBSET S : SumFunctionOnSet(f, T \intersect U) = SumFunctionOnSet(g, U)}
  OBVIOUS
<1>3. ASSUME NEW U \in SUBSET S, \A V \in SUBSET U : V # U => V \in G
      PROVE  U \in G
  <2>1. CASE U = {}
    <3>1. T \intersect U = {}
      BY <2>1
    <3>2. SumFunctionOnSet(f, T \intersect U) = 0 /\ SumFunctionOnSet(g, U) = 0
      BY <2>1, <3>1, SumOfNone
    <3>3. SumFunctionOnSet(f, T \intersect U) = SumFunctionOnSet(g, U)
      BY <3>2
    <3> QED
      BY <1>2, <3>3
  <2>2. CASE U # {}
    <3>1. PICK x \in U : TRUE
      BY <2>2
    <3>2. PICK V : V = U \ {x}
      OBVIOUS
    <3>3. V \in G /\ x \notin V /\ U = V \union {x} /\ V \in SUBSET S /\ x \in S
      BY <1>3, <3>1, <3>2
    <3>4. SumFunctionOnSet(f, T \intersect V) = SumFunctionOnSet(g, V)
      BY <1>2, <3>3
    <3>5. IsFiniteSet(V) /\ IsFiniteSet(T \intersect V)
      BY <3>3, FS_Subset
    <3>6. SumFunctionOnSet(g, U) = g[x] + SumFunctionOnSet(g, V)
      <4>1. \A y \in V \union {x} : g[y] \in Int
        BY <1>0, <3>3
      <4> QED
        BY <3>3, <3>5, <4>1, SumAdd
    <3>7. SumFunctionOnSet(g, V) \in Int
      <4>1. \A y \in V : g[y] \in Int
        BY <1>0, <3>3
      <4> QED
        BY <3>5, <4>1, SumType
    <3>8. CASE x \in T
      <4>1. PICK Q : Q = T \intersect V
        OBVIOUS
      <4>2. /\ T \intersect U = Q \union {x} /\ x \notin Q /\ IsFiniteSet(Q)
            /\ \A y \in Q \union {x} : f[y] \in Int
        BY <1>0, <3>3, <3>5, <3>8, <4>1
      <4>3. SumFunctionOnSet(f, Q \union {x}) = f[x] + SumFunctionOnSet(f, Q)
        BY <4>2, SumAdd
      <4>4. g[x] = f[x]
        BY <1>0, <3>3, <3>8
      <4>5. SumFunctionOnSet(f, T \intersect U) = SumFunctionOnSet(g, U)
        BY <3>4, <3>6, <4>1, <4>2, <4>3, <4>4
      <4> QED
        BY <1>2, <4>5
    <3>9. CASE x \notin T
      <4>1. T \intersect U = T \intersect V /\ g[x] = 0
        BY <1>0, <3>3, <3>9
      <4>2. SumFunctionOnSet(g, U) = SumFunctionOnSet(g, V)
        BY <3>6, <3>7, <4>1
      <4>3. SumFunctionOnSet(f, T \intersect U) = SumFunctionOnSet(g, U)
        BY <3>4, <4>1, <4>2
      <4> QED
        BY <1>2, <4>3
    <3> QED
      BY <3>8, <3>9
  <2> QED
    BY <2>1, <2>2
<1>4. S \in G
  BY <1>3, FiniteSubsetInduction
<1>5. T \intersect S = T
  BY <1>0
<1> QED
  BY <1>2, <1>4, <1>5

(* What rises by each of the summands rises by their sum.                  *)
Climbs(c, f, n) == /\ \A i \in 0 .. n : c[i] \in Int
                   /\ \A i \in 1 .. n : f[i] = c[i] - c[i - 1]

LEMMA Telescopes ==
    ASSUME NEW n \in Nat, NEW f, NEW c, Climbs(c, f, n)
    PROVE  SumFunctionOnSet(f, 1 .. n) = c[n] - c[0]
<1>0. /\ \A i \in 0 .. n : c[i] \in Int
      /\ \A i \in 1 .. n : f[i] = c[i] - c[i - 1]
  BY DEF Climbs
<1>1. PICK G : G = {i \in Nat : i <= n => SumFunctionOnSet(f, 1 .. i) = c[i] - c[0]}
  OBVIOUS
<1>2. 0 \in G
  <2>1. 1 .. 0 = {} /\ c[0] \in Int
    BY <1>0
  <2> QED
    BY <1>1, <2>1, SumOfNone
<1>3. ASSUME NEW i \in Nat, i \in G PROVE i + 1 \in G
  <2>1. SUFFICES ASSUME i + 1 <= n PROVE SumFunctionOnSet(f, 1 .. i + 1) = c[i + 1] - c[0]
    BY <1>1
  <2>2. SumFunctionOnSet(f, 1 .. i) = c[i] - c[0]
    BY <1>1, <1>3, <2>1
  <2>3. IsFiniteSet(1 .. i)
    BY FS_Interval
  <2>4. i + 1 \notin 1 .. i /\ 1 .. i + 1 = (1 .. i) \union {i + 1}
    OBVIOUS
  <2>5. \A y \in (1 .. i) \union {i + 1} : f[y] \in Int
    <3>1. SUFFICES ASSUME NEW y \in 1 .. n PROVE f[y] \in Int
      BY <2>1
    <3>2. y \in 0 .. n /\ y - 1 \in 0 .. n
      OBVIOUS
    <3> QED
      BY <1>0, <3>2
  <2>6. SumFunctionOnSet(f, (1 .. i) \union {i + 1}) = f[i + 1] + SumFunctionOnSet(f, 1 .. i)
    BY <2>3, <2>4, <2>5, SumAdd
  <2>7. /\ f[i + 1] = c[i + 1] - c[i]
        /\ c[i] \in Int /\ c[i + 1] \in Int /\ c[0] \in Int
    <3>1. i + 1 \in 1 .. n /\ (i + 1) - 1 = i /\ i \in 0 .. n /\ i + 1 \in 0 .. n /\ 0 \in 0 .. n
      BY <2>1
    <3> QED
      BY <1>0, <3>1
  <2>8. SumFunctionOnSet(f, 1 .. i + 1) = f[i + 1] + SumFunctionOnSet(f, 1 .. i)
    BY <2>4, <2>6
  <2> QED
    BY <2>2, <2>7, <2>8
<1>4. n \in G
  BY <1>2, <1>3, NatSetInduction
<1> QED
  BY <1>1, <1>4

LEMMA MaxOfTwo ==
    ASSUME NEW a \in Int, NEW b \in Int
    PROVE  /\ Max({a, b}) = IF a >= b THEN a ELSE b
           /\ Min({a, b}) = IF a <= b THEN a ELSE b
<1>1. IsFiniteSet({a, b})
  <2>1. IsFiniteSet({a})
    BY FS_Singleton
  <2>2. IsFiniteSet({a} \union {b})
    BY <2>1, FS_AddElement
  <2>3. {a} \union {b} = {a, b}
    OBVIOUS
  <2> QED
    BY <2>2, <2>3
<1>2. PICK S : S = {a, b}
  OBVIOUS
<1>3. /\ Max(S) \in S /\ \A y \in S : Max(S) >= y
      /\ Min(S) \in S /\ \A y \in S : Min(S) <= y
  BY <1>1, <1>2, MaxMinIsIn
<1>4. /\ Max(S) \in {a, b} /\ Max(S) >= a /\ Max(S) >= b
      /\ Min(S) \in {a, b} /\ Min(S) <= a /\ Min(S) <= b
  BY <1>2, <1>3
<1>5. Max(S) = (IF a >= b THEN a ELSE b) /\ Min(S) = (IF a <= b THEN a ELSE b)
  BY <1>4
<1> QED
  BY <1>2, <1>5

-----------------------------------------------------------------------------
(* Shares of an amount, as Proration rounds them.                          *)

(* Part of an amount is between nothing and the amount.                    *)
LEMMA ShareBounds ==
    ASSUME NEW a \in Nat, NEW total \in Nat \ {0}, NEW days \in 0 .. total
    PROVE  Share(a, days, total) \in 0 .. a
<1>1. PICK x \in Nat, y \in Nat : x = a * days /\ y = a * total
  OBVIOUS
<1>2. x <= y
  <2>1. PICK rest \in Nat : total = days + rest
    <3>1. total - days \in Nat /\ total = days + (total - days)
      OBVIOUS
    <3> QED
      BY <3>1
  <2> QED
    BY <1>1, <2>1
<1> QED
  BY <1>1, <1>2 DEF Share

(* The days used and those remaining make up the cycle.                    *)
LEMMA DaysBounds ==
    ASSUME NEW s, s.start \in Int, s.end \in Int, NEW day \in Int
    PROVE  /\ TotalCycleDays(s) \in Nat \ {0}
           /\ DaysElapsed(s, day) \in 0 .. TotalCycleDays(s)
           /\ DaysRemaining(s, day) \in 0 .. TotalCycleDays(s)
BY DEF TotalCycleDays, DaysElapsed, DaysRemaining, AtLeast, AtMost

(* Whatever the date of a cancellation and the rule of the plan, the       *)
(* credit note is for no more than the cycle was invoiced at               *)
(* (calculateRefund), and what was used of a cycle costs no more than it.  *)
LEMMA RefundIsWithin ==
    ASSUME NEW s, s.start \in Int, s.end \in Int, s.amount \in Nat, NEW day \in Int, NEW rule
    PROVE  /\ Credit(s, day, rule) \in 0 .. s.amount
           /\ UsedAmount(s, day) \in 0 .. s.amount
           /\ UnusedCredit(s, day) \in 0 .. s.amount
<1>1. s.start \in Int /\ s.end \in Int /\ s.amount \in Nat
  OBVIOUS
<1>2. /\ TotalCycleDays(s) \in Nat \ {0}
      /\ DaysElapsed(s, day) \in 0 .. TotalCycleDays(s)
      /\ DaysRemaining(s, day) \in 0 .. TotalCycleDays(s)
  BY <1>1, DaysBounds
<1>3. /\ Share(s.amount, DaysElapsed(s, day), TotalCycleDays(s)) \in 0 .. s.amount
      /\ Share(s.amount, DaysRemaining(s, day), TotalCycleDays(s)) \in 0 .. s.amount
  BY <1>1, <1>2, ShareBounds
<1>4. Credit(s, day, rule) \in 0 .. s.amount
  BY <1>1, <1>3 DEF Credit, RefundAmount
<1> QED
  BY <1>1, <1>3, <1>4 DEF UsedAmount, UnusedCredit

(* A quotient is known by its remainder.                                   *)
LEMMA Quotient ==
    ASSUME NEW x \in Nat, NEW d \in Nat \ {0}
    PROVE  /\ x \div d \in Nat
           /\ \E r \in 0 .. d - 1 : x = d * (x \div d) + r
<1>1. PICK k \in Nat : k = x \div d
  OBVIOUS
<1>2. d * k <= x /\ x < d * k + d /\ d * k \in Nat
  BY <1>1
<1>3. x - d * k \in 0 .. d - 1 /\ x = d * k + (x - d * k)
  BY <1>2
<1> QED
  BY <1>1, <1>3

LEMMA BoundedMultiple ==
    ASSUME NEW d \in Nat \ {0}, NEW k \in Int, NEW n \in Int, n = d * k
    PROVE  /\ n >= 0 => k >= 0
           /\ n < 2 * d => k <= 1
<1>1. ASSUME n >= 0, k < 0 PROVE FALSE
  <2>1. PICK m \in Nat : k = -(m + 1)
    <3>1. -k - 1 \in Nat /\ k = -((-k - 1) + 1)
      BY <1>1
    <3> QED
      BY <3>1
  <2>2. d * (m + 1) = d * m + d /\ d * m >= 0 /\ d * k = -(d * (m + 1))
    BY <2>1
  <2> QED
    BY <1>1, <2>2
<1>2. ASSUME n < 2 * d, k > 1 PROVE FALSE
  <2>1. PICK m \in Nat : k = m + 2
    <3>1. k - 2 \in Nat /\ k = (k - 2) + 2
      BY <1>2
    <3> QED
      BY <3>1
  <2>2. d * k = d * m + 2 * d /\ d * m >= 0
    BY <2>1
  <2> QED
    BY <1>2, <2>2
<1> QED
  BY <1>1, <1>2

(* The larger the number, the larger its quotient.                         *)
LEMMA QuotientGrows ==
    ASSUME NEW x \in Nat, NEW y \in Nat, NEW d \in Nat \ {0}, x <= y
    PROVE  x \div d <= y \div d
<1>1. PICK p \in Nat, r \in 0 .. d - 1 : p = x \div d /\ x = d * p + r
  BY Quotient
<1>2. PICK q \in Nat, s \in 0 .. d - 1 : q = y \div d /\ y = d * q + s
  BY Quotient
<1>3. SUFFICES ASSUME p > q PROVE FALSE
  BY <1>1, <1>2
<1>4. PICK m \in Nat : p = q + m + 1
  <2>1. p - q - 1 \in Nat /\ p = q + (p - q - 1) + 1
    BY <1>3
  <2> QED
    BY <2>1
<1>5. d * p = d * q + d * m + d /\ d * m >= 0 /\ d * q \in Nat /\ d * m \in Nat
  BY <1>4
<1> QED
  BY <1>1, <1>2, <1>5

(* A larger part of a larger amount is no less; nothing and all of it are  *)
(* what they should be, and the two parts make up the amount, but for a    *)
(* cent.                                                                   *)
LEMMA ShareGrows ==
    ASSUME NEW a \in Nat, NEW b \in Nat, a <= b, NEW total \in Nat \ {0},
           NEW p \in Nat, NEW q \in Nat, p <= q
    PROVE  Share(a, p, total) <= Share(b, q, total)
<1>1. PICK c \in Nat, m \in Nat : b = a + c /\ q = p + m
  <2>1. b - a \in Nat /\ b = a + (b - a) /\ q - p \in Nat /\ q = p + (q - p)
    OBVIOUS
  <2> QED
    BY <2>1
<1>2. b * q = a * p + a * m + c * p + c * m
  BY <1>1
<1>3. a * p \in Nat /\ a * m \in Nat /\ c * p \in Nat /\ c * m \in Nat /\ b * q \in Nat
  OBVIOUS
<1>4. a * p <= b * q
  BY <1>2, <1>3
<1>5. PICK u \in Nat, v \in Nat : u = a * p /\ v = b * q /\ u <= v
  BY <1>3, <1>4
<1>6. 2 * a * p = 2 * u /\ 2 * b * q = 2 * v
  BY <1>5
<1>7. (2 * u + total) \div (2 * total) <= (2 * v + total) \div (2 * total)
  BY <1>5, QuotientGrows
<1> QED
  BY <1>6, <1>7 DEF Share

LEMMA ShareEnds ==
    ASSUME NEW a \in Nat, NEW total \in Nat \ {0}
    PROVE  Share(a, 0, total) = 0 /\ Share(a, total, total) = a
<1>1. Share(a, 0, total) = 0
  <2>1. 2 * a * 0 + total = total
    OBVIOUS
  <2>0. PICK d \in Nat \ {0} : d = 2 * total
    OBVIOUS
  <2>2. PICK k \in Nat, r \in 0 .. d - 1 : k = total \div d /\ total = d * k + r
    BY Quotient
  <2>3. k = 0
    <3>1. SUFFICES ASSUME k >= 1 PROVE FALSE
      BY <2>2
    <3>2. PICK m \in Nat : k = m + 1
      <4>1. k - 1 \in Nat /\ k = (k - 1) + 1
        BY <3>1
      <4> QED
        BY <4>1
    <3>3. d * k = d * m + d /\ d * m \in Nat
      BY <3>2
    <3> QED
      BY <2>0, <2>2, <3>3
  <2> QED
    BY <2>0, <2>1, <2>2, <2>3 DEF Share
<1>2. Share(a, total, total) = a
  <2>1. PICK x \in Nat : x = a * total
    OBVIOUS
  <2>2. PICK d \in Nat \ {0} : d = 2 * total
    OBVIOUS
  <2>3. PICK k \in Nat, r \in 0 .. d - 1 : k = (2 * x + total) \div d /\ 2 * x + total = d * k + r
    BY Quotient
  <2>4. d * (a - k) = d * a - d * k /\ d * a = 2 * x
    BY <2>1, <2>2
  <2>5. PICK n \in Int : n = d * (a - k) /\ n = r - total
    BY <2>3, <2>4
  <2>6. a - k <= 1 /\ k - a <= 1 /\ (a - k = 1 => n = d) /\ (k - a = 1 => n = -d)
    <3>1. a - k <= 1
      BY <2>2, <2>5, BoundedMultiple
    <3>2. -n = d * (k - a) /\ -n < 2 * d
      BY <2>2, <2>5
    <3>3. k - a <= 1
      BY <3>2, BoundedMultiple
    <3> QED
      BY <2>5, <3>1, <3>3
  <2>7. 2 * a * total = 2 * x
    BY <2>1
  <2>8. k = a
    BY <2>2, <2>5, <2>6
  <2> QED
    BY <2>2, <2>3, <2>7, <2>8 DEF Share
<1> QED
  BY <1>1, <1>2

LEMMA SharesMakeUp ==
    ASSUME NEW a \in Nat, NEW total \in Nat \ {0}, NEW p \in 0 .. total
    PROVE  Share(a, p, total) + Share(a, total - p, total) \in {a, a + 1}
<1>1. PICK u \in Nat, v \in Nat : u = a * p /\ v = a * (total - p)
  OBVIOUS
<1>2. u + v = a * total
  BY <1>1
<1>3. PICK d \in Nat \ {0} : d = 2 * total
  OBVIOUS
<1>4. PICK j \in Nat, r \in 0 .. d - 1 :
         j = (2 * u + total) \div d /\ 2 * u + total = d * j + r
  BY Quotient
<1>5. PICK k \in Nat, s \in 0 .. d - 1 :
         k = (2 * v + total) \div d /\ 2 * v + total = d * k + s
  BY Quotient
<1>6. d * (a + 1 - j - k) = r + s
  <2>1. d * (a + 1 - j - k) = d * a + d - d * j - d * k
    OBVIOUS
  <2>2. d * a = 2 * (u + v)
    BY <1>2, <1>3
  <2> QED
    BY <1>3, <1>4, <1>5, <2>1, <2>2
<1>7. r + s >= 0 /\ r + s < 2 * d
  OBVIOUS
<1>8. a + 1 - j - k \in Int /\ a + 1 - j - k >= 0 /\ a + 1 - j - k <= 1
  BY <1>6, <1>7, BoundedMultiple
<1>9. Share(a, p, total) = j /\ Share(a, total - p, total) = k
  <2>1. 2 * a * p = 2 * u /\ 2 * a * (total - p) = 2 * v
    BY <1>1
  <2> QED
    BY <1>3, <1>4, <1>5, <2>1 DEF Share
<1>10. j + k = a \/ j + k = a + 1
  BY <1>8
<1> QED
  BY <1>9, <1>10

(* As days pass, more of a cycle is used, and all of it at its end.        *)
LEMMA DaysPass ==
    ASSUME NEW s, s.start \in Int, s.end \in Int, NEW day \in Int
    PROVE  /\ DaysElapsed(s, day) <= DaysElapsed(s, day + 1)
           /\ day <= s.start => DaysElapsed(s, day) = 0
           /\ day >= s.end /\ s.end > s.start => DaysElapsed(s, day) = TotalCycleDays(s)
BY DEF TotalCycleDays, DaysElapsed, AtLeast, AtMost

(* A refund never grows from a day to the next, it is the whole amount     *)
(* before the cycle if the plan refunds such cycles at all, and nothing    *)
(* after it.                                                               *)
LEMMA RefundShrinks ==
    ASSUME NEW s, s.start \in Int, s.end \in Int, s.amount \in Nat, NEW day \in Int, NEW rule, rule.minimumDays \in Int
    PROVE  /\ Credit(s, day + 1, rule) <= Credit(s, day, rule)
           /\ day <= s.start /\ rule.creditNote /\ rule.refundEligible
                 /\ rule.minimumDays <= TotalCycleDays(s) => Credit(s, day, rule) = s.amount
           /\ day >= s.end /\ s.end > s.start => Credit(s, day, rule) = 0
<1>1. s.start \in Int /\ s.end \in Int /\ s.amount \in Nat
  OBVIOUS
<1>2. PICK t \in Nat \ {0} : t = TotalCycleDays(s)
  BY <1>1, DaysBounds
<1>3. PICK p \in 0 .. t, q \in 0 .. t : p = DaysRemaining(s, day) /\ q = DaysRemaining(s, day + 1)
  BY <1>1, <1>2, DaysBounds
<1>4. q <= p
  <2>1. day + 1 \in Int
    OBVIOUS
  <2>2. PICK e \in 0 .. t : e = DaysElapsed(s, day)
    BY <1>1, <1>2, DaysBounds
  <2>3. PICK f \in 0 .. t : f = DaysElapsed(s, day + 1)
    BY <1>1, <1>2, <2>1, DaysBounds
  <2>4. DaysElapsed(s, day) <= DaysElapsed(s, day + 1)
    BY <1>1, DaysPass
  <2> QED
    BY <1>2, <1>3, <2>2, <2>3, <2>4 DEF DaysRemaining
<1>5. /\ Share(s.amount, q, t) <= Share(s.amount, p, t)
      /\ Share(s.amount, p, t) \in 0 .. s.amount
  BY <1>1, <1>4, ShareGrows, ShareBounds
<1>6. Share(s.amount, 0, t) = 0 /\ Share(s.amount, t, t) = s.amount
  BY <1>1, ShareEnds
<1>7. Credit(s, day + 1, rule) <= Credit(s, day, rule)
  <2>1. RefundEligible(s, day + 1, rule) => RefundEligible(s, day, rule)
    BY <1>3, <1>4 DEF RefundEligible
  <2>2. /\ Credit(s, day, rule) = IF rule.creditNote
              THEN (IF RefundEligible(s, day, rule) THEN Share(s.amount, p, t) ELSE 0) ELSE 0
        /\ Credit(s, day + 1, rule) = IF rule.creditNote
              THEN (IF RefundEligible(s, day + 1, rule) THEN Share(s.amount, q, t) ELSE 0) ELSE 0
    BY <1>2, <1>3 DEF Credit, RefundAmount
  <2>3. Share(s.amount, q, t) \in Int
    BY <1>1, ShareBounds
  <2>4. CASE rule.creditNote /\ RefundEligible(s, day + 1, rule)
    BY <1>5, <2>1, <2>2, <2>4
  <2>5. CASE ~(rule.creditNote /\ RefundEligible(s, day + 1, rule))
    <3>1. Credit(s, day + 1, rule) = 0
      BY <2>2, <2>5
    <3>2. Credit(s, day, rule) = 0 \/ Credit(s, day, rule) = Share(s.amount, p, t)
      BY <2>2
    <3> QED
      BY <1>5, <3>1, <3>2
  <2> QED
    BY <2>4, <2>5
<1>8. ASSUME day <= s.start, rule.creditNote, rule.refundEligible,
             rule.minimumDays <= TotalCycleDays(s)
      PROVE  Credit(s, day, rule) = s.amount
  <2>1. p = t
    BY <1>1, <1>2, <1>3, <1>8, DaysPass DEF DaysRemaining
  <2> QED
    BY <1>2, <1>3, <1>6, <1>8, <2>1 DEF Credit, RefundAmount, RefundEligible
<1>9. ASSUME day >= s.end, s.end > s.start PROVE Credit(s, day, rule) = 0
  <2>1. p = 0
    BY <1>1, <1>2, <1>3, <1>9, DaysPass DEF DaysRemaining
  <2> QED
    BY <1>2, <1>3, <1>6, <2>1 DEF Credit, RefundAmount
<1> QED
  BY <1>7, <1>8, <1>9

(* A plan that costs no less is never called a downgrade, whatever the     *)
(* date, and one that costs no more is charged for by a cent of rounding   *)
(* at most (calculateProration).                                           *)
LEMMA DearerIsNoDowngrade ==
    ASSUME NEW s, s.start \in Int, s.end \in Int, s.amount \in Nat, NEW day \in Int, NEW newAmount \in Nat
    PROVE  /\ newAmount >= s.amount => NetAdjustment(s, day, newAmount) >= 0
           /\ newAmount <= s.amount => NetAdjustment(s, day, newAmount) <= 1
<1>1. s.start \in Int /\ s.end \in Int /\ s.amount \in Nat
  OBVIOUS
<1>2a. PICK t \in Nat \ {0} : t = TotalCycleDays(s)
  BY <1>1, DaysBounds
<1>2. PICK e \in 0 .. t : t = TotalCycleDays(s) /\ e = DaysElapsed(s, day)
  BY <1>1, <1>2a, DaysBounds
<1>3. PICK used \in Int, rest \in Int, new \in Int :
         /\ used = Share(s.amount, e, t) /\ rest = Share(s.amount, t - e, t)
         /\ new = Share(newAmount, t - e, t)
  <2>1. t - e \in 0 .. t
    OBVIOUS
  <2>2. Share(s.amount, e, t) \in 0 .. s.amount /\ Share(s.amount, t - e, t) \in 0 .. s.amount
    BY <1>1, <2>1, ShareBounds
  <2>3. Share(newAmount, t - e, t) \in 0 .. newAmount
    BY <2>1, ShareBounds
  <2> QED
    BY <2>2, <2>3
<1>4. used + rest \in {s.amount, s.amount + 1}
  BY <1>1, <1>3, SharesMakeUp
<1>5. NetAdjustment(s, day, newAmount) = new - (s.amount - used)
  BY <1>2, <1>3 DEF NetAdjustment, NewProratedCharge, UnusedCredit, UsedAmount, DaysRemaining
<1>6. newAmount >= s.amount => new >= rest
  BY <1>1, <1>3, ShareGrows
<1>7. newAmount <= s.amount => new <= rest
  BY <1>1, <1>3, ShareGrows
<1>8. used + rest = s.amount \/ used + rest = s.amount + 1
  BY <1>4
<1> QED
  BY <1>1, <1>5, <1>6, <1>7, <1>8

-----------------------------------------------------------------------------
(* What the allocation's operators return.                                 *)

Splitting(W) == [warehouse : W, qty : Nat]
OrderLine(P) == [product : P, qty : Nat]
ItemOf(W, P) == [line : Nat, row : W \X P, qty : Nat]

LEMMA PositiveType == ASSUME NEW S, NEW seq \in Seq(S) PROVE Positive(seq) \in Seq(S)
<1>1. PICK parts : parts = [i \in DOMAIN seq |-> IF seq[i].qty > 0 THEN <<seq[i]>> ELSE << >>]
  OBVIOUS
<1>2. \A i \in DOMAIN seq : parts[i] \in Seq(S)
  BY <1>1
<1>3. parts \in [1 .. Len(seq) -> Seq(S)]
  BY <1>1, <1>2
<1>4. parts \in Seq(Seq(S))
  BY <1>3, SeqDef
<1>5. FlattenSeq(parts) \in Seq(S)
  BY <1>4, FlattenType
<1> QED
  BY <1>1, <1>5 DEF Positive

LEMMA TotalType ==
    ASSUME NEW W, NEW splits \in Seq(Splitting(W)) PROVE Total(splits) \in Nat
<1>1. PICK f : f = [i \in DOMAIN splits |-> splits[i].qty]
  OBVIOUS
<1>2. \A i \in DOMAIN splits : splits[i] \in Splitting(W)
  OBVIOUS
<1>3. \A i \in DOMAIN splits : f[i] \in Nat
  BY <1>1, <1>2 DEF Splitting
<1>4. IsFiniteSet(DOMAIN splits)
  BY FS_Interval
<1>5. SumFunctionOnSet(f, DOMAIN splits) \in Nat
  BY <1>3, <1>4, SumType
<1> QED
  BY <1>1, <1>5 DEF Total, SumFunction

LEMMA TakeType ==
    ASSUME NEW W, IsFiniteSet(W), NEW ws \in Seq(W),
           NEW free, \A w \in W : free[w] \in Int, NEW want \in Int
    PROVE  Take(want, free, ws) \in Seq(Splitting(W))
<1> DEFINE before(i) == SumFunctionOnSet(free, ToSet(SubSeq(ws, 1, i - 1)))
           q(i) == Max({0, Min({free[ws[i]], want - before(i)})})
<1>1. ASSUME NEW i \in DOMAIN ws PROVE q(i) \in Nat /\ ws[i] \in W
  <2>1. i - 1 \in 0 .. Len(ws)
    OBVIOUS
  <2>2. PICK s : s = SubSeq(ws, 1, i - 1)
    OBVIOUS
  <2>3. s \in Seq(W)
    BY <2>1, <2>2, PrefixOf
  <2>4. PICK T : T = ToSet(s)
    OBVIOUS
  <2>5. T \subseteq W
    BY <2>3, <2>4 DEF ToSet
  <2>6. IsFiniteSet(T) /\ \A w \in T : free[w] \in Int
    BY <2>5, FS_Subset
  <2>7. PICK b \in Int : b = before(i)
    BY <2>2, <2>4, <2>6, SumType
  <2>8. free[ws[i]] \in Int /\ want - b \in Int
    OBVIOUS
  <2>9. PICK m \in Int : m = Min({free[ws[i]], want - b})
    BY <2>8, OfTwo
  <2>10. Max({0, m}) \in Nat
    BY OfTwo
  <2> QED
    BY <2>7, <2>9, <2>10
<1> HIDE DEF q
<1>2. PICK taken : taken = [i \in DOMAIN ws |-> [warehouse |-> ws[i], qty |-> q(i)]]
  OBVIOUS
<1>3. \A i \in DOMAIN ws : taken[i] \in Splitting(W)
  BY <1>1, <1>2 DEF Splitting
<1>4. taken \in Seq(Splitting(W))
  BY <1>2, <1>3
<1>5. Positive(taken) \in Seq(Splitting(W))
  BY <1>4, PositiveType
<1> QED
  BY <1>2, <1>5 DEF Take, q

LEMMA SplitsType ==
    ASSUME NEW W, IsFiniteSet(W), NEW free \in [W -> Int], NEW want \in Int,
           NEW splits \in Splits(want, free)
    PROVE  splits \in Seq(Splitting(W))
<1>1. PICK ws \in LargestFirst(free) : splits = Take(want, free, ws)
  BY DEF Splits
<1>2. PICK C : C = {w \in DOMAIN free : free[w] > 0}
  OBVIOUS
<1>3. ws \in [1 .. Cardinality(C) -> C]
  BY <1>1, <1>2 DEF LargestFirst, SetToSeqs
<1>4. IsFiniteSet(C) /\ C \subseteq W
  BY <1>2, FS_Subset
<1>5. Cardinality(C) \in Nat
  BY <1>4, FS_CardinalityType
<1>6. ws \in Seq(W)
  BY <1>3, <1>4, <1>5
<1>7. \A w \in W : free[w] \in Int
  OBVIOUS
<1> QED
  BY <1>1, <1>6, <1>7, TakeType

LEMMA EffectiveType ==
    ASSUME NEW W, NEW splits \in Seq(Splitting(W))
    PROVE  Effective(splits) \in Seq(Splitting(W))
<1> DEFINE named(i) == {j \in DOMAIN splits : splits[j].warehouse = splits[i].warehouse}
           kept(i)  == IF i = Min(named(i)) THEN splits[Max(named(i))].qty ELSE 0
<1>1. ASSUME NEW i \in DOMAIN splits PROVE splits[i] \in Splitting(W) /\ kept(i) \in Nat
  <2>1. PICK N : N = named(i)
    OBVIOUS
  <2>2. N \subseteq DOMAIN splits /\ i \in N /\ DOMAIN splits = 1 .. Len(splits)
    BY <2>1
  <2>3. IsFiniteSet(N) /\ N # {} /\ N \subseteq Int
    <3>1. IsFiniteSet(1 .. Len(splits)) /\ Len(splits) \in Nat
      BY FS_Interval
    <3>2. IsFiniteSet(N)
      BY <2>2, <3>1, FS_Subset
    <3> QED
      BY <2>2, <3>1, <3>2
  <2>4. Max(N) \in DOMAIN splits
    BY <2>2, <2>3, MaxMinIsIn
  <2>5. splits[Max(N)] \in Splitting(W)
    BY <2>4
  <2>6. splits[Max(N)].qty \in Nat
    BY <2>5 DEF Splitting
  <2>7. splits[i] \in Splitting(W)
    OBVIOUS
  <2>8. kept(i) = IF i = Min(N) THEN splits[Max(N)].qty ELSE 0
    BY <2>1
  <2> QED
    BY <2>6, <2>7, <2>8
<1> HIDE DEF kept
<1>2. PICK s : s = [i \in DOMAIN splits |-> [splits[i] EXCEPT !.qty = kept(i)]]
  OBVIOUS
<1>3. \A i \in DOMAIN splits : s[i] \in Splitting(W)
  BY <1>1, <1>2 DEF Splitting
<1>4. s \in Seq(Splitting(W))
  <2>1. s = [i \in 1 .. Len(splits) |-> s[i]]
    BY <1>2
  <2>2. \A i \in 1 .. Len(splits) : s[i] \in Splitting(W)
    BY <1>3
  <2>3. s \in [1 .. Len(splits) -> Splitting(W)]
    BY <2>1, <2>2
  <2> QED
    BY <2>3, SeqDef
<1> QED
  BY <1>2, <1>4 DEF Effective, kept

LEMMA QtyOfType ==
    ASSUME NEW P, NEW lines \in Seq(OrderLine(P)), NEW p, NEW n \in 0 .. Len(lines)
    PROVE  QtyOf(lines, p, n) \in Nat
<1>1. PICK f : f = [i \in DOMAIN lines |-> lines[i].qty]
  OBVIOUS
<1>2. PICK T : T = {i \in 1 .. n : lines[i].product = p}
  OBVIOUS
<1>3. T \subseteq DOMAIN lines /\ IsFiniteSet(DOMAIN lines)
  BY <1>2, FS_Interval
<1>4. IsFiniteSet(T)
  BY <1>3, FS_Subset
<1>5. \A i \in DOMAIN lines : lines[i] \in OrderLine(P)
  OBVIOUS
<1>6. \A i \in T : f[i] \in Nat
  BY <1>1, <1>3, <1>5 DEF OrderLine
<1> QED
  BY <1>1, <1>2, <1>4, <1>6, SumType DEF QtyOf

LEMMA OverlapType ==
    ASSUME NEW W, NEW P, NEW lines \in Seq(OrderLine(P)), NEW splits \in Seq(Splitting(W)),
           NEW i \in DOMAIN lines, NEW j \in DOMAIN splits
    PROVE  Overlap(lines, i, splits, j) \in Nat
<1>1. PICK p : p = lines[i].product
  OBVIOUS
<1>2. i \in 0 .. Len(lines) /\ i - 1 \in 0 .. Len(lines)
  OBVIOUS
<1>3. j \in 0 .. Len(splits) /\ j - 1 \in 0 .. Len(splits)
  OBVIOUS
<1>4. PICK a \in Int : a = QtyOf(lines, p, i)
  BY <1>2, QtyOfType
<1>5. PICK b \in Int : b = QtyOf(lines, p, i - 1)
  BY <1>2, QtyOfType
<1>6. PICK s : s = SubSeq(splits, 1, j)
  OBVIOUS
<1>7. s \in Seq(Splitting(W))
  BY <1>3, <1>6, PrefixOf
<1>8. PICK c \in Int : c = Total(s)
  BY <1>7, TotalType
<1>9. PICK z : z = SubSeq(splits, 1, j - 1)
  OBVIOUS
<1>10. z \in Seq(Splitting(W))
  BY <1>3, <1>9, PrefixOf
<1>11. PICK d \in Int : d = Total(z)
  BY <1>10, TotalType
<1>12. PICK u \in Int : u = Min({a, c})
  BY OfTwo
<1>13. PICK v \in Int : v = Max({b, d})
  BY OfTwo
<1>14. PICK x \in Int : x = u - v
  OBVIOUS
<1>15. Max({0, x}) \in Nat
  BY OfTwo
<1> QED
  BY <1>1, <1>4, <1>5, <1>6, <1>8, <1>9, <1>11, <1>12, <1>13, <1>14, <1>15 DEF Overlap

LEMMA ItemsType ==
    ASSUME NEW W, NEW P, NEW lines \in Seq(OrderLine(P)), NEW p \in P,
           NEW asked \in Seq(Splitting(W))
    PROVE  Items(lines, p, asked) \in Seq(ItemOf(W, P))
<1>1. PICK splits : splits = Effective(asked)
  OBVIOUS
<1>2. splits \in Seq(Splitting(W))
  BY <1>1, EffectiveType
<1> DEFINE item(i, j) == [line |-> i, row |-> <<splits[j].warehouse, p>>,
                          qty |-> Overlap(lines, i, splits, j)]
           ofLine(i)  == IF lines[i].product = p
                         THEN [j \in DOMAIN splits |-> item(i, j)] ELSE << >>
<1>3. ASSUME NEW i \in DOMAIN lines PROVE ofLine(i) \in Seq(ItemOf(W, P))
  <2>1. ASSUME NEW j \in DOMAIN splits PROVE item(i, j) \in ItemOf(W, P)
    <3>1. splits[j] \in Splitting(W)
      BY <1>2
    <3>2. splits[j].warehouse \in W
      BY <3>1 DEF Splitting
    <3>3. PICK n \in Nat : n = Overlap(lines, i, splits, j)
      BY <1>2, OverlapType
    <3> QED
      BY <3>2, <3>3 DEF ItemOf
  <2> HIDE DEF item
  <2>2. [j \in DOMAIN splits |-> item(i, j)] \in Seq(ItemOf(W, P))
    BY <1>2, <2>1
  <2> QED
    BY <2>2
<1> HIDE DEF ofLine
<1>4. PICK parts : parts = [i \in DOMAIN lines |-> ofLine(i)]
  OBVIOUS
<1>5. \A i \in DOMAIN lines : parts[i] \in Seq(ItemOf(W, P))
  BY <1>3, <1>4
<1>6. parts \in Seq(Seq(ItemOf(W, P)))
  BY <1>4, <1>5
<1>7. PICK s : s = FlattenSeq(parts)
  OBVIOUS
<1>8. s \in Seq(ItemOf(W, P))
  BY <1>6, <1>7, FlattenType
<1>9. Positive(s) \in Seq(ItemOf(W, P))
  BY <1>8, PositiveType
<1>10. Items(lines, p, asked) = Positive(FlattenSeq([i \in DOMAIN lines |-> ofLine(i)]))
  BY <1>1 DEF Items, ofLine
<1> QED
  BY <1>4, <1>7, <1>9, <1>10

LEMMA AllItemsType ==
    ASSUME NEW W, NEW P, NEW lines \in Seq(OrderLine(P)), NEW decided,
           \A p \in ProductsOf(lines) : decided[p] \in Seq(Splitting(W))
    PROVE  AllItems(lines, decided) \in Seq(ItemOf(W, P))
<1> DEFINE prod(i)  == lines[i].product
           first(i) == \A j \in 1 .. i - 1 : prod(j) # prod(i)
           ofLine(i) == IF first(i) THEN Items(lines, prod(i), decided[prod(i)]) ELSE << >>
<1>1. ASSUME NEW i \in DOMAIN lines PROVE ofLine(i) \in Seq(ItemOf(W, P))
  <2>1. lines[i] \in OrderLine(P)
    OBVIOUS
  <2>2. PICK p \in P : p = prod(i)
    BY <2>1 DEF OrderLine
  <2>3. p \in ProductsOf(lines)
    BY <2>2 DEF ProductsOf
  <2>4. PICK asked : asked = decided[p]
    OBVIOUS
  <2>5. Items(lines, p, asked) \in Seq(ItemOf(W, P))
    BY <2>3, <2>4, ItemsType
  <2> QED
    BY <2>2, <2>4, <2>5
<1> HIDE DEF ofLine
<1>2. PICK parts : parts = [i \in DOMAIN lines |-> ofLine(i)]
  OBVIOUS
<1>3. \A i \in DOMAIN lines : parts[i] \in Seq(ItemOf(W, P))
  BY <1>1, <1>2
<1>4. parts \in Seq(Seq(ItemOf(W, P)))
  BY <1>2, <1>3
<1>5. FlattenSeq(parts) \in Seq(ItemOf(W, P))
  BY <1>4, FlattenType
<1>6. AllItems(lines, decided) = FlattenSeq([i \in DOMAIN lines |-> ofLine(i)])
  BY DEF AllItems, ofLine
<1> QED
  BY <1>2, <1>5, <1>6

LEMMA CoveredByType ==
    ASSUME NEW W, NEW P, NEW items \in Seq(ItemOf(W, P)), NEW k
    PROVE  CoveredBy(items, k) \in Nat
<1>1. PICK f : f = [n \in DOMAIN items |-> items[n].qty]
  OBVIOUS
<1>2. PICK T : T = {n \in DOMAIN items : items[n].line = k}
  OBVIOUS
<1>3. IsFiniteSet(T)
  BY <1>2, FS_Interval, FS_Subset
<1>4. \A n \in DOMAIN items : items[n] \in ItemOf(W, P)
  OBVIOUS
<1>5. \A n \in T : f[n] \in Nat
  BY <1>1, <1>2, <1>4 DEF ItemOf
<1> QED
  BY <1>1, <1>2, <1>3, <1>5, SumType DEF CoveredBy

LEMMA BackordersType ==
    ASSUME NEW W, NEW P, NEW lines \in Seq(OrderLine(P)), NEW decided,
           \A p \in ProductsOf(lines) : decided[p] \in Seq(Splitting(W)),
           NEW short, \A p \in ProductsOf(lines) : short[p] \in Int
    PROVE  Backorders(lines, decided, short) \in Seq(Nat)
<1>1. PICK items : items = AllItems(lines, decided)
  OBVIOUS
<1>2. items \in Seq(ItemOf(W, P))
  BY <1>1, AllItemsType
<1>3. PICK open : open = [k \in DOMAIN lines |-> lines[k].qty - CoveredBy(items, k)]
  OBVIOUS
<1>4. ASSUME NEW k \in DOMAIN lines PROVE open[k] \in Int
  <2>1. lines[k] \in OrderLine(P)
    OBVIOUS
  <2>2. PICK n \in Nat : n = CoveredBy(items, k)
    BY <1>2, CoveredByType
  <2> QED
    BY <1>3, <2>1, <2>2 DEF OrderLine
<1> DEFINE earlier(i) == {k \in 1 .. i - 1 : lines[k].product = lines[i].product}
           rest(i) == Max({0, Min({open[i], short[lines[i].product]
                                              - SumFunctionOnSet(open, earlier(i))})})
<1>5. ASSUME NEW i \in DOMAIN lines PROVE rest(i) \in Nat
  <2>1. PICK T : T = earlier(i)
    OBVIOUS
  <2>2. T \subseteq 1 .. i - 1 /\ T \subseteq DOMAIN lines
    BY <2>1
  <2>3. IsFiniteSet(T) /\ \A k \in T : open[k] \in Int
    BY <1>4, <2>2, FS_Interval, FS_Subset
  <2>4. PICK a \in Int : a = SumFunctionOnSet(open, T)
    BY <2>3, SumType
  <2>5. short[lines[i].product] \in Int
    BY DEF ProductsOf
  <2>6. PICK b \in Int : b = short[lines[i].product] - a
    BY <2>5
  <2>7. PICK c \in Int : c = Min({open[i], b})
    BY <1>4, OfTwo
  <2>8. Max({0, c}) \in Nat
    BY OfTwo
  <2> QED
    BY <2>1, <2>4, <2>6, <2>7, <2>8
<1> HIDE DEF rest
<1>6. [i \in DOMAIN lines |-> rest(i)] \in Seq(Nat)
  BY <1>5
<1>7. Backorders(lines, decided, short) = [i \in DOMAIN lines |-> rest(i)]
  BY <1>1, <1>3 DEF Backorders, rest
<1> QED
  BY <1>6, <1>7

-----------------------------------------------------------------------------
(* Quantities of splits and items.                                         *)

Size(W) == [x \in Splitting(W) |-> x.qty]
ForLine(W, P, k) == [x \in ItemOf(W, P) |-> IF x.line = k THEN x.qty ELSE 0]

LEMMA SizeType ==
    ASSUME NEW W
    PROVE  Size(W) \in [Splitting(W) -> Int] /\ \A x \in Splitting(W) : Size(W)[x] = x.qty
BY DEF Size, Splitting

LEMMA ForLineType ==
    ASSUME NEW W, NEW P, NEW k
    PROVE  /\ ForLine(W, P, k) \in [ItemOf(W, P) -> Int]
           /\ \A x \in ItemOf(W, P) : ForLine(W, P, k)[x] = IF x.line = k THEN x.qty ELSE 0
BY DEF ForLine, ItemOf

LEMMA TotalWeighs ==
    ASSUME NEW W, NEW splits \in Seq(Splitting(W)) PROVE Total(splits) = Weighs(splits, Size(W))
<1>1. PICK f : f = [i \in DOMAIN splits |-> splits[i].qty]
  OBVIOUS
<1>2. ASSUME NEW i \in DOMAIN splits PROVE Size(W)[splits[i]] = splits[i].qty
  <2>1. splits[i] \in Splitting(W)
    OBVIOUS
  <2> QED
    BY <2>1, SizeType
<1>3. f = [i \in DOMAIN splits |-> Size(W)[splits[i]]]
  BY <1>1, <1>2
<1>4. DOMAIN f = DOMAIN splits
  BY <1>1
<1> QED
  BY <1>1, <1>3, <1>4 DEF Total, SumFunction, Weighs

LEMMA CoveredWeighs ==
    ASSUME NEW W, NEW P, NEW items \in Seq(ItemOf(W, P)), NEW k
    PROVE  CoveredBy(items, k) = Weighs(items, ForLine(W, P, k))
<1>1. PICK f : f = [n \in DOMAIN items |-> items[n].qty]
  OBVIOUS
<1>2. PICK g : g = [n \in DOMAIN items |-> ForLine(W, P, k)[items[n]]]
  OBVIOUS
<1>3. PICK T : T = {n \in DOMAIN items : items[n].line = k}
  OBVIOUS
<1>4. ASSUME NEW n \in DOMAIN items
      PROVE  f[n] \in Int /\ g[n] = IF n \in T THEN f[n] ELSE 0
  <2>1. items[n] \in ItemOf(W, P)
    OBVIOUS
  <2>2. items[n].qty \in Nat
    BY <2>1 DEF ItemOf
  <2>3. g[n] = IF items[n].line = k THEN items[n].qty ELSE 0
    BY <1>2, <2>1, ForLineType
  <2> QED
    BY <1>1, <1>3, <2>2, <2>3
<1>5. IsFiniteSet(DOMAIN items)
  BY FS_Interval
<1>6. T \subseteq DOMAIN items
  BY <1>3
<1>7. SumFunctionOnSet(f, T) = SumFunctionOnSet(g, DOMAIN items)
  <2>1. PartOf(g, f, T, DOMAIN items)
    BY <1>4, <1>6 DEF PartOf
  <2> QED
    BY <1>5, <2>1, SumOfPart
<1> QED
  BY <1>1, <1>2, <1>3, <1>7 DEF CoveredBy, Weighs

LEMMA PositiveWeighs ==
    ASSUME NEW S, NEW seq \in Seq(S), NEW w \in [S -> Int],
           \A x \in S : x.qty \in Nat /\ (x.qty = 0 => w[x] = 0)
    PROVE  Weighs(Positive(seq), w) = Weighs(seq, w)
<1>1. PICK parts : parts = [i \in DOMAIN seq |-> IF seq[i].qty > 0 THEN <<seq[i]>> ELSE << >>]
  OBVIOUS
<1>2. \A i \in DOMAIN seq : parts[i] \in Seq(S)
  BY <1>1
<1>3. parts \in [1 .. Len(seq) -> Seq(S)]
  BY <1>1, <1>2
<1>4. parts \in Seq(Seq(S)) /\ DOMAIN parts = DOMAIN seq
  BY <1>1, <1>3, SeqDef
<1>5. PICK f, g : f = [i \in DOMAIN parts |-> Weighs(parts[i], w)] /\ g = [i \in DOMAIN seq |-> w[seq[i]]]
  OBVIOUS
<1>6. Weighs(FlattenSeq(parts), w) = SumFunctionOnSet(f, DOMAIN parts)
  BY <1>4, <1>5, WeighsFlatten
<1>7. ASSUME NEW i \in DOMAIN seq PROVE f[i] = g[i]
  <2>1. seq[i] \in S /\ f[i] = Weighs(parts[i], w) /\ g[i] = w[seq[i]]
    BY <1>4, <1>5
  <2>2. CASE seq[i].qty > 0
    <3>1. parts[i] = <<seq[i]>>
      BY <1>1, <2>2
    <3> QED
      BY <2>1, <3>1, WeighsOne
  <2>3. CASE ~(seq[i].qty > 0)
    <3>1. parts[i] = << >>
      BY <1>1, <2>3
    <3>2. w[seq[i]] = 0
      BY <2>1, <2>3
    <3> QED
      BY <2>1, <3>1, <3>2, WeighsEmpty
  <2> QED
    BY <2>2, <2>3
<1>8. IsFiniteSet(DOMAIN seq)
  BY FS_Interval
<1>9. SumFunctionOnSet(f, DOMAIN seq) = SumFunctionOnSet(g, DOMAIN seq)
  BY <1>7, <1>8, SumSame
<1>10. Positive(seq) = FlattenSeq(parts)
  BY <1>1 DEF Positive
<1> QED
  BY <1>4, <1>5, <1>6, <1>9, <1>10 DEF Weighs

LEMMA PositiveTotal ==
    ASSUME NEW W, NEW splits \in Seq(Splitting(W))
    PROVE  Total(Positive(splits)) = Total(splits)
<1>1. \A x \in Splitting(W) : x.qty \in Nat /\ (x.qty = 0 => Size(W)[x] = 0)
  BY SizeType DEF Splitting
<1>2. Weighs(Positive(splits), Size(W)) = Weighs(splits, Size(W))
  BY <1>1, SizeType, PositiveWeighs
<1> QED
  BY <1>2, PositiveType, TotalWeighs

(* Totals of the first splits.                                             *)
LEMMA FirstSplits ==
    ASSUME NEW W, NEW splits \in Seq(Splitting(W)), NEW n \in 0 .. Len(splits)
    PROVE  Total(SubSeq(splits, 1, n)) = Running(splits, Size(W), n)
<1>1. PICK s \in Seq(Splitting(W)) : s = SubSeq(splits, 1, n)
  BY PrefixOf
<1>2. Len(s) = n /\ \A i \in 1 .. n : s[i] = splits[i]
  <2>1. CASE n = 0
    <3>1. s = << >>
      BY <1>1, <2>1, SubSeqEmpty
    <3> QED
      BY <2>1, <3>1
  <2>2. CASE n # 0
    <3>1. n \in 1 .. Len(splits)
      BY <2>2
    <3>2. \A i \in 1 .. n : splits[i] \in Splitting(W)
      BY <3>1
    <3> QED
      BY <1>1, <3>1, <3>2, SubSeqProperties
  <2> QED
    BY <2>1, <2>2
<1>3. PICK f, g : f = [i \in DOMAIN s |-> Size(W)[s[i]]] /\ g = [i \in DOMAIN splits |-> Size(W)[splits[i]]]
  OBVIOUS
<1>4. \A i \in 1 .. n : f[i] = g[i]
  BY <1>2, <1>3
<1>5. IsFiniteSet(1 .. n)
  BY FS_Interval
<1>6. SumFunctionOnSet(f, 1 .. n) = SumFunctionOnSet(g, 1 .. n)
  BY <1>4, <1>5, SumSame
<1>7. Weighs(s, Size(W)) = SumFunctionOnSet(f, 1 .. n)
  <2>1. DOMAIN s = 1 .. n
    BY <1>2
  <2> QED
    BY <1>3, <2>1 DEF Weighs
<1> QED
  BY <1>1, <1>3, <1>6, <1>7, TotalWeighs DEF Running

LEMMA TotalsRise ==
    ASSUME NEW W, NEW splits \in Seq(Splitting(W))
    PROVE  /\ Total(SubSeq(splits, 1, 0)) = 0
           /\ Total(SubSeq(splits, 1, Len(splits))) = Total(splits)
           /\ \A n \in 0 .. Len(splits) : Total(SubSeq(splits, 1, n)) \in Nat
           /\ \A n \in 1 .. Len(splits) :
                 Total(SubSeq(splits, 1, n)) = Total(SubSeq(splits, 1, n - 1)) + splits[n].qty
<1>1. Total(SubSeq(splits, 1, 0)) = 0
  <2>1. 0 \in 0 .. Len(splits)
    OBVIOUS
  <2> QED
    BY <2>1, FirstSplits, RunningNone
<1>2. Total(SubSeq(splits, 1, Len(splits))) = Total(splits)
  <2>1. Len(splits) \in 0 .. Len(splits)
    OBVIOUS
  <2> QED
    BY <2>1, FirstSplits, TotalWeighs, WeighsRunning
<1>3. ASSUME NEW n \in 0 .. Len(splits) PROVE Total(SubSeq(splits, 1, n)) \in Nat
  BY PrefixOf, TotalType
<1>4. ASSUME NEW n \in 1 .. Len(splits)
      PROVE  Total(SubSeq(splits, 1, n)) = Total(SubSeq(splits, 1, n - 1)) + splits[n].qty
  <2>1. PICK m \in Nat : m + 1 = n /\ m = n - 1
    <3>1. n - 1 \in Nat /\ (n - 1) + 1 = n
      OBVIOUS
    <3> QED
      BY <3>1
  <2>2. m + 1 <= Len(splits) /\ m \in 0 .. Len(splits) /\ n \in 0 .. Len(splits)
    BY <2>1
  <2>3. Running(splits, Size(W), m + 1) = Running(splits, Size(W), m) + Size(W)[splits[m + 1]]
    BY <2>2, SizeType, RunningNext
  <2>4. Size(W)[splits[n]] = splits[n].qty
    <3>1. splits[n] \in Splitting(W)
      OBVIOUS
    <3> QED
      BY <3>1, SizeType
  <2> QED
    BY <2>1, <2>2, <2>3, <2>4, FirstSplits
<1> QED
  BY <1>1, <1>2, <1>3, <1>4

LEMMA QuantitiesRise ==
    ASSUME NEW P, NEW lines \in Seq(OrderLine(P)), NEW p
    PROVE  /\ QtyOf(lines, p, 0) = 0
           /\ \A n \in 0 .. Len(lines) : QtyOf(lines, p, n) \in Nat
           /\ \A n \in 1 .. Len(lines) :
                 QtyOf(lines, p, n) = QtyOf(lines, p, n - 1)
                                      + IF lines[n].product = p THEN lines[n].qty ELSE 0
<1>1. PICK f : f = [i \in DOMAIN lines |-> lines[i].qty]
  OBVIOUS
<1>2. ASSUME NEW i \in DOMAIN lines PROVE f[i] \in Int /\ f[i] = lines[i].qty
  <2>1. lines[i] \in OrderLine(P)
    OBVIOUS
  <2> QED
    BY <1>1, <2>1 DEF OrderLine
<1>3. QtyOf(lines, p, 0) = 0
  <2>1. {i \in 1 .. 0 : lines[i].product = p} = {}
    OBVIOUS
  <2> QED
    BY <1>1, <2>1, SumOfNone DEF QtyOf
<1>4. ASSUME NEW n \in 1 .. Len(lines)
      PROVE  QtyOf(lines, p, n) = QtyOf(lines, p, n - 1)
                                   + IF lines[n].product = p THEN lines[n].qty ELSE 0
  <2>1. PICK S, T : /\ S = {i \in 1 .. n - 1 : lines[i].product = p}
                    /\ T = {i \in 1 .. n : lines[i].product = p}
    OBVIOUS
  <2>2. IsFiniteSet(S) /\ n \notin S /\ S \subseteq DOMAIN lines /\ n \in DOMAIN lines
    <3>1. IsFiniteSet(1 .. n - 1) /\ S \subseteq 1 .. n - 1 /\ n - 1 \in Nat
      BY <2>1, FS_Interval
    <3>2. IsFiniteSet(S)
      BY <3>1, FS_Subset
    <3> QED
      BY <3>1, <3>2
  <2>3. CASE lines[n].product = p
    <3>1. T = S \union {n}
      BY <2>1, <2>3
    <3>2. SumFunctionOnSet(f, S \union {n}) = f[n] + SumFunctionOnSet(f, S)
      <4>1. \A y \in S \union {n} : f[y] \in Int
        BY <1>2, <2>2
      <4> QED
        BY <2>2, <4>1, SumAdd
    <3>3. SumFunctionOnSet(f, S) \in Int /\ f[n] = lines[n].qty /\ f[n] \in Int
      <4>1. \A y \in S : f[y] \in Int
        BY <1>2, <2>2
      <4> QED
        BY <1>2, <2>2, <4>1, SumType
    <3>4. QtyOf(lines, p, n) = SumFunctionOnSet(f, T) /\ QtyOf(lines, p, n - 1) = SumFunctionOnSet(f, S)
      BY <1>1, <2>1 DEF QtyOf
    <3> QED
      BY <2>3, <3>1, <3>2, <3>3, <3>4
  <2>4. CASE lines[n].product # p
    <3>1. T = S
      BY <2>1, <2>4
    <3>2. SumFunctionOnSet(f, S) \in Int
      <4>1. \A y \in S : f[y] \in Int
        BY <1>2, <2>2
      <4> QED
        BY <2>2, <4>1, SumType
    <3>3. QtyOf(lines, p, n) = SumFunctionOnSet(f, T) /\ QtyOf(lines, p, n - 1) = SumFunctionOnSet(f, S)
      BY <1>1, <2>1 DEF QtyOf
    <3> QED
      BY <2>4, <3>1, <3>2, <3>3
  <2> QED
    BY <2>3, <2>4
<1> QED
  BY <1>3, <1>4, QtyOfType

-----------------------------------------------------------------------------
(* How far units handed out in order come into the interval from a to b.   *)
Reach(a, b, x) == IF x >= b THEN b ELSE IF x <= a THEN a ELSE x

LEMMA OverlapIsReach ==
    ASSUME NEW W, NEW P, NEW lines \in Seq(OrderLine(P)), NEW splits \in Seq(Splitting(W)),
           NEW i \in DOMAIN lines, NEW j \in DOMAIN splits,
           NEW a \in Nat, a = QtyOf(lines, lines[i].product, i - 1),
           NEW b \in Nat, b = QtyOf(lines, lines[i].product, i), a <= b
    PROVE  Overlap(lines, i, splits, j) = Reach(a, b, Total(SubSeq(splits, 1, j)))
                                             - Reach(a, b, Total(SubSeq(splits, 1, j - 1)))
<1>1. j \in 1 .. Len(splits) /\ j \in 0 .. Len(splits) /\ j - 1 \in 0 .. Len(splits)
  OBVIOUS
<1>2. PICK y \in Nat : y = Total(SubSeq(splits, 1, j))
  BY <1>1, TotalsRise
<1>3. PICK x \in Nat : x = Total(SubSeq(splits, 1, j - 1))
  BY <1>1, TotalsRise
<1>4. x <= y
  <2>1. splits[j] \in Splitting(W)
    OBVIOUS
  <2>2. splits[j].qty \in Nat
    BY <2>1 DEF Splitting
  <2>3. y = x + splits[j].qty
    BY <1>1, <1>2, <1>3, TotalsRise
  <2> QED
    BY <2>2, <2>3
<1>5. PICK u \in Int : u = Min({b, y}) /\ u = IF b <= y THEN b ELSE y
  <2>1. b \in Int /\ y \in Int
    OBVIOUS
  <2>2. Min({b, y}) = IF b <= y THEN b ELSE y
    BY <2>1, MaxOfTwo
  <2> QED
    BY <2>2
<1>6. PICK v \in Int : v = Max({a, x}) /\ v = IF a >= x THEN a ELSE x
  BY MaxOfTwo
<1>7. PICK d \in Int : d = u - v
  OBVIOUS
<1>8. Max({0, d}) = IF 0 >= d THEN 0 ELSE d
  BY MaxOfTwo
<1>9. Overlap(lines, i, splits, j) = Max({0, d})
  BY <1>2, <1>3, <1>5, <1>6, <1>7 DEF Overlap
<1>10. Max({0, d}) = Reach(a, b, y) - Reach(a, b, x)
  <2>1. /\ Reach(a, b, y) = IF y >= b THEN b ELSE IF y <= a THEN a ELSE y
        /\ Reach(a, b, x) = IF x >= b THEN b ELSE IF x <= a THEN a ELSE x
    BY DEF Reach
  <2>2. PICK r \in Int, q \in Int : r = Reach(a, b, y) /\ q = Reach(a, b, x)
    BY <2>1
  <2>3. d = (IF b <= y THEN b ELSE y) - (IF a >= x THEN a ELSE x)
    BY <1>5, <1>6, <1>7
  <2>4. (IF 0 >= d THEN 0 ELSE d) = r - q
    <3>1. CASE y <= a
      BY <1>4, <2>1, <2>2, <2>3, <3>1
    <3>2. CASE x >= b
      BY <1>4, <2>1, <2>2, <2>3, <3>2
    <3>3. CASE y > a /\ x < b
      BY <1>4, <2>1, <2>2, <2>3, <3>3
    <3> QED
      BY <3>1, <3>2, <3>3
  <2> QED
    BY <1>8, <2>2, <2>4
<1> QED
  BY <1>2, <1>3, <1>9, <1>10

(* What the splits of its product hand to a line.                          *)
LEMMA OverlapsAddUp ==
    ASSUME NEW W, NEW P, NEW lines \in Seq(OrderLine(P)), NEW splits \in Seq(Splitting(W)),
           NEW i \in DOMAIN lines,
           NEW a \in Nat, a = QtyOf(lines, lines[i].product, i - 1),
           NEW b \in Nat, b = QtyOf(lines, lines[i].product, i), a <= b
    PROVE  SumFunctionOnSet([j \in DOMAIN splits |-> Overlap(lines, i, splits, j)], DOMAIN splits)
              = Reach(a, b, Total(splits)) - a
<1>1. PICK n \in Nat : n = Len(splits) /\ DOMAIN splits = 1 .. n
  OBVIOUS
<1>2. PICK f : f = [j \in DOMAIN splits |-> Overlap(lines, i, splits, j)]
  OBVIOUS
<1>3. PICK c : c = [j \in 0 .. n |-> Reach(a, b, Total(SubSeq(splits, 1, j)))]
  OBVIOUS
<1>4. ASSUME NEW j \in 0 .. n PROVE c[j] \in Int
  <2>1. PICK x \in Nat : x = Total(SubSeq(splits, 1, j))
    BY <1>1, TotalsRise
  <2> QED
    BY <1>3, <2>1 DEF Reach
<1>5. ASSUME NEW j \in 1 .. n PROVE f[j] = c[j] - c[j - 1]
  <2>1. j \in DOMAIN splits /\ j \in 0 .. n /\ j - 1 \in 0 .. n
    BY <1>1
  <2> QED
    BY <1>2, <1>3, <2>1, OverlapIsReach
<1>6. SumFunctionOnSet(f, 1 .. n) = c[n] - c[0]
  <2>1. \A j \in 0 .. n : c[j] \in Int
    BY <1>4
  <2>2. \A j \in 1 .. n : f[j] = c[j] - c[j - 1]
    BY <1>5
  <2>3. Climbs(c, f, n)
    BY <2>1, <2>2 DEF Climbs
  <2> QED
    BY <2>3, Telescopes
<1>7. c[n] = Reach(a, b, Total(splits)) /\ c[0] = Reach(a, b, 0)
  <2>1. n \in 0 .. n /\ 0 \in 0 .. n
    OBVIOUS
  <2> QED
    BY <1>1, <1>3, <2>1, TotalsRise
<1>8. Reach(a, b, 0) = a
  BY DEF Reach
<1> QED
  BY <1>1, <1>2, <1>6, <1>7, <1>8

LEMMA QtyRises ==
    ASSUME NEW P, NEW lines \in Seq(OrderLine(P)), NEW i \in DOMAIN lines, NEW p
    PROVE  /\ QtyOf(lines, p, i - 1) \in Nat /\ QtyOf(lines, p, i) \in Nat
           /\ QtyOf(lines, p, i - 1) <= QtyOf(lines, p, i)
           /\ lines[i].qty \in Nat
           /\ QtyOf(lines, p, i) = QtyOf(lines, p, i - 1)
                                    + IF lines[i].product = p THEN lines[i].qty ELSE 0
<1>1. i \in 0 .. Len(lines) /\ i - 1 \in 0 .. Len(lines) /\ i \in 1 .. Len(lines)
  OBVIOUS
<1>2. lines[i].qty \in Nat
  <2>1. lines[i] \in OrderLine(P)
    OBVIOUS
  <2> QED
    BY <2>1 DEF OrderLine
<1>3. QtyOf(lines, p, i - 1) \in Nat /\ QtyOf(lines, p, i) \in Nat
  BY <1>1, QuantitiesRise
<1>4. QtyOf(lines, p, i) = QtyOf(lines, p, i - 1) + IF lines[i].product = p THEN lines[i].qty ELSE 0
  BY <1>1, QuantitiesRise
<1> QED
  BY <1>2, <1>3, <1>4

(* What an allocation hands to line k out of the splits of its product.    *)
Handed(lines, splits, k) ==
    Reach(QtyOf(lines, lines[k].product, k - 1), QtyOf(lines, lines[k].product, k), Total(splits))
      - QtyOf(lines, lines[k].product, k - 1)

LEMMA ItemsCover ==
    ASSUME NEW W, NEW P, NEW lines \in Seq(OrderLine(P)), NEW p \in P,
           NEW asked \in Seq(Splitting(W)), NEW k \in DOMAIN lines
    PROVE  Weighs(Items(lines, p, asked), ForLine(W, P, k)) =
              IF lines[k].product = p THEN Handed(lines, Effective(asked), k) ELSE 0
<1>1. PICK splits : splits = Effective(asked)
  OBVIOUS
<1>2. splits \in Seq(Splitting(W))
  BY <1>1, EffectiveType
<1>3. PICK S, w : S = ItemOf(W, P) /\ w = ForLine(W, P, k)
  OBVIOUS
<1>4. /\ w \in [S -> Int]
      /\ \A x \in S : w[x] = IF x.line = k THEN x.qty ELSE 0
      /\ \A x \in S : x.qty \in Nat /\ (x.qty = 0 => w[x] = 0)
  <2>1. w \in [S -> Int] /\ \A x \in S : w[x] = IF x.line = k THEN x.qty ELSE 0
    BY <1>3, ForLineType
  <2>2. \A x \in S : x.qty \in Nat
    BY <1>3 DEF ItemOf
  <2> QED
    BY <2>1, <2>2
<1> DEFINE item(i, j) == [line |-> i, row |-> <<splits[j].warehouse, p>>,
                          qty |-> Overlap(lines, i, splits, j)]
           ofLine(i)  == IF lines[i].product = p
                         THEN [j \in DOMAIN splits |-> item(i, j)] ELSE << >>
<1>5. ASSUME NEW i \in DOMAIN lines, NEW j \in DOMAIN splits
      PROVE  item(i, j) \in S /\ item(i, j).line = i /\ item(i, j).qty = Overlap(lines, i, splits, j)
  <2>1. splits[j] \in Splitting(W)
    BY <1>2
  <2>2. splits[j].warehouse \in W
    BY <2>1 DEF Splitting
  <2>3. PICK n \in Nat : n = Overlap(lines, i, splits, j)
    BY <1>2, OverlapType
  <2> QED
    BY <1>3, <2>2, <2>3 DEF ItemOf
<1> HIDE DEF item
<1>6. ASSUME NEW i \in DOMAIN lines
      PROVE  /\ ofLine(i) \in Seq(S)
             /\ i # k => Weighs(ofLine(i), w) = 0
             /\ lines[i].product # p => Weighs(ofLine(i), w) = 0
             /\ i = k /\ lines[i].product = p => Weighs(ofLine(i), w) = Handed(lines, splits, k)
  <2>1. CASE lines[i].product # p
    <3>1. ofLine(i) = << >>
      BY <2>1
    <3>2. Weighs(ofLine(i), w) = 0
      BY <3>1, WeighsEmpty
    <3> QED
      BY <2>1, <3>1, <3>2
  <2>2. CASE lines[i].product = p
    <3>1. PICK s : s = [j \in DOMAIN splits |-> item(i, j)]
      OBVIOUS
    <3>2. ofLine(i) = s /\ DOMAIN s = DOMAIN splits /\ \A j \in DOMAIN splits : s[j] = item(i, j)
      BY <2>2, <3>1
    <3>3. s \in Seq(S)
      BY <1>2, <1>5, <3>1
    <3>4. PICK f : f = [j \in DOMAIN s |-> w[s[j]]]
      OBVIOUS
    <3>5. IsFiniteSet(DOMAIN s)
      BY <1>2, <3>2, FS_Interval
    <3>6. Weighs(s, w) = SumFunctionOnSet(f, DOMAIN s)
      BY <3>4 DEF Weighs
    <3>7. \A j \in DOMAIN s : f[j] = IF i = k THEN Overlap(lines, i, splits, j) ELSE 0
      BY <1>4, <1>5, <3>2, <3>4
    <3>8. CASE i # k
      <4>1. \A j \in DOMAIN s : f[j] = 0
        BY <3>7, <3>8
      <4>2. SumFunctionOnSet(f, DOMAIN s) = 0
        BY <3>5, <4>1, SumOfZeros
      <4> QED
        BY <2>2, <3>2, <3>3, <3>6, <3>8, <4>2
    <3>9. CASE i = k
      <4>1. PICK g : g = [j \in DOMAIN splits |-> Overlap(lines, i, splits, j)]
        OBVIOUS
      <4>2. \A j \in DOMAIN s : f[j] = g[j]
        BY <3>2, <3>7, <3>9, <4>1
      <4>3. SumFunctionOnSet(f, DOMAIN s) = SumFunctionOnSet(g, DOMAIN splits)
        BY <3>2, <3>5, <4>2, SumSame
      <4>4. PICK a, b : a = QtyOf(lines, p, i - 1) /\ b = QtyOf(lines, p, i)
        OBVIOUS
      <4>5. a \in Nat /\ b \in Nat /\ a <= b
        BY <4>4, QtyRises
      <4>6. SumFunctionOnSet(g, DOMAIN splits) = Reach(a, b, Total(splits)) - a
        BY <1>2, <2>2, <4>1, <4>4, <4>5, OverlapsAddUp
      <4>7. Handed(lines, splits, k) = Reach(a, b, Total(splits)) - a
        BY <2>2, <3>9, <4>4 DEF Handed
      <4> QED
        BY <2>2, <3>2, <3>3, <3>6, <3>9, <4>3, <4>6, <4>7
    <3> QED
      BY <3>8, <3>9
  <2> QED
    BY <2>1, <2>2
<1> HIDE DEF ofLine
<1>7. PICK parts : parts = [i \in DOMAIN lines |-> ofLine(i)]
  OBVIOUS
<1>8. DOMAIN parts = DOMAIN lines /\ parts \in Seq(Seq(S)) /\ \A i \in DOMAIN lines : parts[i] = ofLine(i)
  <2>1. \A i \in DOMAIN lines : parts[i] = ofLine(i) /\ parts[i] \in Seq(S)
    BY <1>6, <1>7
  <2>2. \A i \in DOMAIN lines : parts[i] \in Seq(S)
    BY <2>1
  <2>3. parts = [i \in 1 .. Len(lines) |-> parts[i]] /\ Len(lines) \in Nat
    BY <1>7
  <2>4. \A i \in 1 .. Len(lines) : parts[i] \in Seq(S)
    BY <2>2
  <2>5. parts \in [1 .. Len(lines) -> Seq(S)]
    BY <2>3, <2>4
  <2>6. parts \in Seq(Seq(S))
    BY <2>3, <2>5, SeqDef
  <2> QED
    BY <1>7, <2>1, <2>6
<1>9. PICK s : s = FlattenSeq(parts)
  OBVIOUS
<1>10. s \in Seq(S)
  BY <1>8, <1>9, FlattenType
<1>11. Items(lines, p, asked) = Positive(s)
  BY <1>1, <1>7, <1>9 DEF Items, ofLine, item
<1>12. Weighs(Positive(s), w) = Weighs(s, w)
  BY <1>4, <1>10, PositiveWeighs
<1>13. PICK f : f = [i \in DOMAIN parts |-> Weighs(parts[i], w)]
  OBVIOUS
<1>14. Weighs(s, w) = SumFunctionOnSet(f, DOMAIN parts)
  BY <1>4, <1>8, <1>9, <1>13, WeighsFlatten
<1>15. f[k] = Weighs(ofLine(k), w) /\ \A y \in DOMAIN parts \ {k} : f[y] = 0
  BY <1>6, <1>8, <1>13
<1>16. f[k] \in Int
  BY <1>4, <1>6, <1>15, WeighsType
<1>17. SumFunctionOnSet(f, DOMAIN parts) = f[k]
  <2>1. IsFiniteSet(DOMAIN parts) /\ k \in DOMAIN parts
    BY <1>8, FS_Interval
  <2> QED
    BY <1>15, <1>16, <2>1, SumOfOne
<1>18. Weighs(ofLine(k), w) = IF lines[k].product = p THEN Handed(lines, splits, k) ELSE 0
  BY <1>6
<1> QED
  BY <1>1, <1>3, <1>11, <1>12, <1>14, <1>15, <1>17, <1>18

-----------------------------------------------------------------------------
(* Some line is the first to name its product.                             *)
NamesFirst(lines, i, p) == /\ lines[i].product = p
                           /\ \A j \in 1 .. i - 1 : lines[j].product # p

LEMMA FirstNamed ==
    ASSUME NEW lines, NEW n \in Nat, NEW k \in 1 .. n
    PROVE  \E i \in 1 .. n : NamesFirst(lines, i, lines[k].product)
<1>1. PICK B : B = {i \in 1 .. n : lines[i].product = lines[k].product}
  OBVIOUS
<1>2. IsFiniteSet(B) /\ B # {} /\ B \subseteq Int
  <2>1. IsFiniteSet(1 .. n) /\ B \subseteq 1 .. n
    BY <1>1, FS_Interval
  <2>2. k \in B /\ B \subseteq Int
    BY <1>1, <2>1
  <2>3. IsFiniteSet(B)
    BY <2>1, FS_Subset
  <2> QED
    BY <2>2, <2>3
<1>3. PICK i : i = Min(B)
  OBVIOUS
<1>4. i \in B /\ \A j \in B : i <= j
  BY <1>2, <1>3, MaxMinIsIn
<1>5. i \in 1 .. n /\ lines[i].product = lines[k].product
  BY <1>1, <1>4
<1>6. ASSUME NEW j \in 1 .. i - 1 PROVE lines[j].product # lines[k].product
  <2>1. j \in 1 .. n /\ ~(i <= j)
    BY <1>5
  <2> QED
    BY <1>1, <1>4, <2>1
<1> QED
  BY <1>5, <1>6 DEF NamesFirst

LEMMA AllItemsCover ==
    ASSUME NEW W, NEW P, NEW lines \in Seq(OrderLine(P)), NEW decided,
           \A p \in ProductsOf(lines) : decided[p] \in Seq(Splitting(W)),
           NEW k \in DOMAIN lines
    PROVE  CoveredBy(AllItems(lines, decided), k) =
              Handed(lines, Effective(decided[lines[k].product]), k)
<1> DEFINE prod(i)  == lines[i].product
           first(i) == \A j \in 1 .. i - 1 : prod(j) # prod(i)
           ofLine(i) == IF first(i) THEN Items(lines, prod(i), decided[prod(i)]) ELSE << >>
<1>1. PICK S, w : S = ItemOf(W, P) /\ w = ForLine(W, P, k)
  OBVIOUS
<1>2. w \in [S -> Int]
  BY <1>1, ForLineType
<1>3. ASSUME NEW i \in DOMAIN lines
      PROVE  /\ ofLine(i) \in Seq(S)
             /\ ~first(i) \/ prod(i) # prod(k) => Weighs(ofLine(i), w) = 0
             /\ first(i) /\ prod(i) = prod(k) =>
                  Weighs(ofLine(i), w) = Handed(lines, Effective(decided[prod(k)]), k)
  <2>1. lines[i] \in OrderLine(P)
    OBVIOUS
  <2>2. PICK p \in P : p = prod(i)
    BY <2>1 DEF OrderLine
  <2>3. p \in ProductsOf(lines)
    BY <2>2 DEF ProductsOf
  <2>4. PICK asked : asked = decided[p]
    OBVIOUS
  <2>5. PICK items : items = Items(lines, p, asked)
    OBVIOUS
  <2>6. items \in Seq(S)
    BY <1>1, <2>3, <2>4, <2>5, ItemsType
  <2>7. Weighs(items, w) = IF prod(k) = p THEN Handed(lines, Effective(asked), k) ELSE 0
    BY <1>1, <2>3, <2>4, <2>5, ItemsCover
  <2>8. CASE first(i)
    <3>1. ofLine(i) = items
      BY <2>2, <2>4, <2>5, <2>8
    <3> QED
      BY <2>2, <2>4, <2>6, <2>7, <2>8, <3>1
  <2>9. CASE ~first(i)
    <3>1. ofLine(i) = << >>
      BY <2>9
    <3>2. << >> \in Seq(S) /\ Weighs(<< >>, w) = 0
      BY WeighsEmpty
    <3> QED
      BY <2>9, <3>1, <3>2
  <2> QED
    BY <2>8, <2>9
<1> HIDE DEF ofLine
<1>4. PICK parts : parts = [i \in DOMAIN lines |-> ofLine(i)]
  OBVIOUS
<1>5. DOMAIN parts = DOMAIN lines /\ parts \in Seq(Seq(S)) /\ \A i \in DOMAIN lines : parts[i] = ofLine(i)
  <2>1. \A i \in DOMAIN lines : parts[i] = ofLine(i)
    BY <1>4
  <2>2. \A i \in 1 .. Len(lines) : parts[i] \in Seq(S)
    BY <1>3, <2>1
  <2>3. parts = [i \in 1 .. Len(lines) |-> parts[i]] /\ Len(lines) \in Nat
    BY <1>4
  <2>4. parts \in [1 .. Len(lines) -> Seq(S)]
    BY <2>2, <2>3
  <2>5. parts \in Seq(Seq(S))
    BY <2>3, <2>4, SeqDef
  <2> QED
    BY <1>4, <2>1, <2>5
<1>6. PICK s : s = FlattenSeq(parts)
  OBVIOUS
<1>7. s \in Seq(S)
  BY <1>5, <1>6, FlattenType
<1>8. AllItems(lines, decided) = s
  BY <1>4, <1>6 DEF AllItems, ofLine
<1>9. CoveredBy(s, k) = Weighs(s, w)
  BY <1>1, <1>7, CoveredWeighs
<1>10. PICK f : f = [i \in DOMAIN parts |-> Weighs(parts[i], w)]
  OBVIOUS
<1>11. Weighs(s, w) = SumFunctionOnSet(f, DOMAIN parts)
  BY <1>2, <1>5, <1>6, <1>10, WeighsFlatten
<1>12. PICK i \in DOMAIN lines : prod(i) = prod(k) /\ first(i)
  <2>1. PICK n \in Nat : n = Len(lines) /\ DOMAIN lines = 1 .. n
    OBVIOUS
  <2>2. k \in 1 .. n
    BY <2>1
  <2>3. PICK i \in 1 .. n : NamesFirst(lines, i, lines[k].product)
    BY <2>2, FirstNamed
  <2>4. prod(i) = prod(k) /\ first(i)
    BY <2>3 DEF NamesFirst
  <2> QED
    BY <2>1, <2>4
<1>13. f[i] = Handed(lines, Effective(decided[prod(k)]), k) /\ f[i] = Weighs(parts[i], w)
  BY <1>3, <1>5, <1>10, <1>12
<1>14. ASSUME NEW y \in DOMAIN parts \ {i} PROVE f[y] = 0
  <2>1. y \in DOMAIN lines /\ f[y] = Weighs(ofLine(y), w)
    BY <1>5, <1>10
  <2>2. ~first(y) \/ prod(y) # prod(k)
    <3>1. SUFFICES ASSUME first(y), prod(y) = prod(k) PROVE FALSE
      OBVIOUS
    <3>2. i \in Int /\ y \in Int /\ i # y /\ i >= 1 /\ y >= 1
      BY <2>1, <1>14
    <3>3. CASE i < y
      <4>1. i \in 1 .. y - 1
        BY <3>2, <3>3
      <4> QED
        BY <1>12, <3>1, <4>1
    <3>4. CASE y < i
      <4>1. y \in 1 .. i - 1
        BY <3>2, <3>4
      <4> QED
        BY <1>12, <3>1, <4>1
    <3> QED
      BY <3>2, <3>3, <3>4
  <2> QED
    BY <1>3, <2>1, <2>2
<1>15. f[i] \in Int
  <2>1. parts[i] \in Seq(S)
    BY <1>3, <1>5
  <2> QED
    BY <1>2, <1>13, <2>1, WeighsType
<1>16. SumFunctionOnSet(f, DOMAIN parts) = f[i]
  <2>1. IsFiniteSet(DOMAIN parts) /\ i \in DOMAIN parts
    BY <1>5, FS_Interval
  <2> QED
    BY <1>14, <1>15, <2>1, SumOfOne
<1> QED
  BY <1>8, <1>9, <1>11, <1>13, <1>16

-----------------------------------------------------------------------------
(* Splits that name a warehouse once.                                      *)

NamesOnce(splits) ==
    \A i, j \in DOMAIN splits : splits[i].warehouse = splits[j].warehouse => i = j

LEMMA EffectiveIsAll ==
    ASSUME NEW W, NEW splits \in Seq(Splitting(W)), NamesOnce(splits)
    PROVE  Total(Effective(splits)) = Total(splits)
<1> DEFINE named(i) == {j \in DOMAIN splits : splits[j].warehouse = splits[i].warehouse}
           kept(i)  == IF i = Min(named(i)) THEN splits[Max(named(i))].qty ELSE 0
<1>1. ASSUME NEW i \in DOMAIN splits PROVE kept(i) = splits[i].qty
  <2>1. PICK N : N = named(i)
    OBVIOUS
  <2>2. N = {i}
    BY <2>1 DEF NamesOnce
  <2>3. IsFiniteSet(N) /\ N # {} /\ N \subseteq Int
    <3>1. IsFiniteSet({i})
      BY FS_Singleton
    <3>2. i \in Int
      OBVIOUS
    <3> QED
      BY <2>2, <3>1, <3>2
  <2>4. Min(N) \in N /\ Max(N) \in N
    BY <2>3, MaxMinIsIn
  <2> QED
    BY <2>1, <2>2, <2>4
<1> HIDE DEF kept
<1>2. PICK s : s = [i \in DOMAIN splits |-> [splits[i] EXCEPT !.qty = kept(i)]]
  OBVIOUS
<1>3. ASSUME NEW i \in DOMAIN splits PROVE s[i] = splits[i]
  <2>1. splits[i] \in Splitting(W)
    OBVIOUS
  <2>2. s[i] = [splits[i] EXCEPT !.qty = splits[i].qty]
    BY <1>1, <1>2
  <2> QED
    BY <2>1, <2>2 DEF Splitting
<1>4. s = splits
  BY <1>2, <1>3
<1>5. Effective(splits) = s
  BY <1>2 DEF Effective, kept
<1> QED
  BY <1>4, <1>5

(* The members that count once in all are different ones.                  *)
LEMMA PositiveNamesOnce ==
    ASSUME NEW W, NEW splits \in Seq(Splitting(W)), NamesOnce(splits)
    PROVE  NamesOnce(Positive(splits))
<1>1. PICK S : S = {x \in Splitting(W) : x.qty > 0}
  OBVIOUS
<1>2. PICK parts : parts = [i \in DOMAIN splits |-> IF splits[i].qty > 0 THEN <<splits[i]>> ELSE << >>]
  OBVIOUS
<1>3. ASSUME NEW i \in DOMAIN splits PROVE parts[i] \in Seq(S)
  <2>1. splits[i] \in Splitting(W)
    OBVIOUS
  <2>2. CASE splits[i].qty > 0
    <3>1. splits[i] \in S /\ parts[i] = <<splits[i]>>
      BY <1>1, <1>2, <2>1, <2>2
    <3> QED
      BY <3>1
  <2>3. CASE ~(splits[i].qty > 0)
    BY <1>2, <2>3
  <2> QED
    BY <2>2, <2>3
<1>4. parts \in Seq(Seq(S))
  <2>1. parts = [i \in 1 .. Len(splits) |-> parts[i]] /\ Len(splits) \in Nat
    BY <1>2
  <2>2. \A i \in 1 .. Len(splits) : parts[i] \in Seq(S)
    BY <1>3
  <2>3. parts \in [1 .. Len(splits) -> Seq(S)]
    BY <2>1, <2>2
  <2> QED
    BY <2>1, <2>3, SeqDef
<1>5. PICK t : t = Positive(splits)
  OBVIOUS
<1>6. t \in Seq(S)
  <2>1. t = FlattenSeq(parts)
    BY <1>2, <1>5 DEF Positive
  <2> QED
    BY <1>4, <2>1, FlattenType
<1>7. SUFFICES ASSUME NEW i \in DOMAIN t, NEW j \in DOMAIN t,
                      t[i].warehouse = t[j].warehouse, i # j
               PROVE  FALSE
  BY <1>5 DEF NamesOnce
<1>8. PICK h : h = t[i].warehouse
  OBVIOUS
<1>9. PICK w : w = [x \in Splitting(W) |-> IF x.qty > 0 /\ x.warehouse = h THEN 1 ELSE 0]
  OBVIOUS
<1>10. /\ w \in [Splitting(W) -> Int]
       /\ \A x \in Splitting(W) : w[x] = IF x.qty > 0 /\ x.warehouse = h THEN 1 ELSE 0
       /\ \A x \in Splitting(W) : x.qty \in Nat /\ (x.qty = 0 => w[x] = 0)
  <2>1. \A x \in Splitting(W) : w[x] = IF x.qty > 0 /\ x.warehouse = h THEN 1 ELSE 0
    BY <1>9
  <2>2. \A x \in Splitting(W) : x.qty \in Nat
    BY DEF Splitting
  <2> QED
    BY <1>9, <2>1, <2>2
<1>11. Weighs(t, w) = Weighs(splits, w)
  BY <1>5, <1>10, PositiveWeighs
<1>12. Weighs(splits, w) \in {0, 1}
  <2>1. PICK f : f = [n \in DOMAIN splits |-> w[splits[n]]]
    OBVIOUS
  <2>2. \A n \in DOMAIN splits : splits[n] \in Splitting(W)
    OBVIOUS
  <2>3. \A n \in DOMAIN splits : f[n] \in {0, 1} /\ (splits[n].warehouse # h => f[n] = 0)
    BY <1>10, <2>1, <2>2
  <2>4. IsFiniteSet(DOMAIN splits)
    BY FS_Interval
  <2>5. SumFunctionOnSet(f, DOMAIN splits) \in {0, 1}
    <3>1. CASE \E n \in DOMAIN splits : splits[n].warehouse = h
      <4>1. PICK n \in DOMAIN splits : splits[n].warehouse = h
        BY <3>1
      <4>2. \A m \in DOMAIN splits \ {n} : f[m] = 0
        BY <2>3, <4>1 DEF NamesOnce
      <4>3. f[n] \in Int
        BY <2>3
      <4>4. SumFunctionOnSet(f, DOMAIN splits) = f[n]
        BY <2>4, <4>2, <4>3, SumOfOne
      <4> QED
        BY <2>3, <4>4
    <3>2. CASE ~\E n \in DOMAIN splits : splits[n].warehouse = h
      <4>1. \A n \in DOMAIN splits : f[n] = 0
        BY <2>3, <3>2
      <4> QED
        BY <2>4, <4>1, SumOfZeros
    <3> QED
      BY <3>1, <3>2
  <2> QED
    BY <2>1, <2>5 DEF Weighs
<1>13. Weighs(t, w) >= 2
  <2>1. PICK f : f = [n \in DOMAIN t |-> w[t[n]]]
    OBVIOUS
  <2>2. \A n \in DOMAIN t : t[n] \in Splitting(W) /\ t[n].qty > 0
    <3>1. \A n \in DOMAIN t : t[n] \in S
      BY <1>6
    <3> QED
      BY <1>1, <3>1
  <2>3. \A n \in DOMAIN t : f[n] \in Nat
    BY <1>10, <2>1, <2>2
  <2>4. f[i] = 1 /\ f[j] = 1
    BY <1>7, <1>8, <1>10, <2>1, <2>2
  <2>5. PICK D : D = DOMAIN t
    OBVIOUS
  <2>6. IsFiniteSet(D) /\ IsFiniteSet(D \ {i}) /\ IsFiniteSet((D \ {i}) \ {j})
    <3>1. IsFiniteSet(D)
      BY <1>6, <2>5, FS_Interval
    <3>2. D \ {i} \subseteq D /\ (D \ {i}) \ {j} \subseteq D
      OBVIOUS
    <3> QED
      BY <3>1, <3>2, FS_Subset
  <2>7. SumFunctionOnSet(f, D) = f[i] + SumFunctionOnSet(f, D \ {i})
    <3>1. i \in D /\ \A x \in D : f[x] \in Int
      BY <2>3, <2>5
    <3> QED
      BY <2>6, <3>1, SumRemove
  <2>8. SumFunctionOnSet(f, D \ {i}) = f[j] + SumFunctionOnSet(f, (D \ {i}) \ {j})
    <3>1. j \in D \ {i} /\ \A x \in D \ {i} : f[x] \in Int
      BY <1>7, <2>3, <2>5
    <3> QED
      BY <2>6, <3>1, SumRemove
  <2>9. SumFunctionOnSet(f, (D \ {i}) \ {j}) \in Nat
    <3>1. \A x \in (D \ {i}) \ {j} : f[x] \in Nat
      BY <2>3, <2>5
    <3> QED
      BY <2>6, <3>1, SumType
  <2>10. SumFunctionOnSet(f, D) >= 2
    BY <2>4, <2>7, <2>8, <2>9
  <2> QED
    BY <2>1, <2>5, <2>10 DEF Weighs
<1> QED
  BY <1>11, <1>12, <1>13

-----------------------------------------------------------------------------
(* The warehouses that come first.                                         *)
FirstOnes(ws, n) == {ws[j] : j \in 1 .. n}

LEMMA FirstOnesAre ==
    ASSUME NEW W, NEW ws \in Seq(W), NEW n \in 0 .. Len(ws)
    PROVE  ToSet(SubSeq(ws, 1, n)) = FirstOnes(ws, n)
<1>1. CASE n = 0
  <2>1. SubSeq(ws, 1, n) = << >>
    BY <1>1, SubSeqEmpty
  <2>2. 1 .. n = {} /\ DOMAIN << >> = {}
    BY <1>1
  <2> QED
    BY <2>1, <2>2 DEF ToSet, FirstOnes
<1>2. CASE n # 0
  <2>1. n \in 1 .. Len(ws)
    BY <1>2
  <2>2. \A i \in 1 .. n : ws[i] \in W
    BY <2>1
  <2>3. PICK s : s = SubSeq(ws, 1, n)
    OBVIOUS
  <2>4. s \in Seq(W) /\ Len(s) = n /\ \A i \in 1 .. n : s[i] = ws[i]
    BY <2>1, <2>2, <2>3, SubSeqProperties
  <2>5. DOMAIN s = 1 .. n
    BY <2>4
  <2> QED
    BY <2>3, <2>4, <2>5 DEF ToSet, FirstOnes
<1> QED
  BY <1>1, <1>2

LEMMA FirstOnesGrow ==
    ASSUME NEW W, IsFiniteSet(W), NEW ws \in Seq(W), NEW free, \A w \in W : free[w] \in Nat,
           \A i, j \in DOMAIN ws : i # j => ws[i] # ws[j], NEW n \in 1 .. Len(ws)
    PROVE  /\ SumFunctionOnSet(free, FirstOnes(ws, n - 1)) \in Nat
           /\ SumFunctionOnSet(free, FirstOnes(ws, n))
                = SumFunctionOnSet(free, FirstOnes(ws, n - 1)) + free[ws[n]]
<1>1. PICK A : A = FirstOnes(ws, n - 1)
  OBVIOUS
<1>2. A \subseteq W /\ ws[n] \in W
  BY <1>1 DEF FirstOnes
<1>3. ws[n] \notin A
  <2>1. \A j \in 1 .. n - 1 : j \in DOMAIN ws /\ j # n
    OBVIOUS
  <2> QED
    BY <1>1, <2>1 DEF FirstOnes
<1>4. FirstOnes(ws, n) = A \union {ws[n]}
  <2>1. 1 .. n = (1 .. n - 1) \union {n}
    OBVIOUS
  <2> QED
    BY <1>1, <2>1 DEF FirstOnes
<1>5. IsFiniteSet(A)
  BY <1>2, FS_Subset
<1>6. \A y \in A \union {ws[n]} : free[y] \in Int /\ free[y] \in Nat
  BY <1>2
<1>7. SumFunctionOnSet(free, A \union {ws[n]}) = free[ws[n]] + SumFunctionOnSet(free, A)
  BY <1>3, <1>5, <1>6, SumAdd
<1>8. SumFunctionOnSet(free, A) \in Nat
  BY <1>5, <1>6, SumType
<1>9. free[ws[n]] \in Nat
  BY <1>2
<1> QED
  BY <1>1, <1>4, <1>7, <1>8, <1>9

(* What the first i warehouses give in all.                                *)
Given(ws, free, want, i) ==
    LET has == SumFunctionOnSet(free, FirstOnes(ws, i))
    IN  IF has <= want THEN has ELSE want

GivesInTurn(taken, ws, free, want) ==
    /\ DOMAIN taken = 1 .. Len(ws)
    /\ \A i \in 1 .. Len(ws) :
          /\ taken[i].warehouse = ws[i]
          /\ taken[i].qty = Given(ws, free, want, i) - Given(ws, free, want, i - 1)

LEMMA GivenFrom ==
    ASSUME NEW W, IsFiniteSet(W), NEW ws \in Seq(W), NEW free, \A w \in W : free[w] \in Nat,
           \A i, j \in DOMAIN ws : i # j => ws[i] # ws[j], NEW want \in Nat
    PROVE  /\ \A i \in 0 .. Len(ws) : /\ SumFunctionOnSet(free, FirstOnes(ws, i)) \in Nat
                                      /\ Given(ws, free, want, i) \in 0 .. want
           /\ Given(ws, free, want, 0) = 0
<1>1. ASSUME NEW i \in 0 .. Len(ws) PROVE SumFunctionOnSet(free, FirstOnes(ws, i)) \in Nat
  <2>1. PICK A : A = FirstOnes(ws, i)
    OBVIOUS
  <2>2. A \subseteq W
    <3>1. \A j \in 1 .. i : j \in DOMAIN ws
      OBVIOUS
    <3>2. \A j \in DOMAIN ws : ws[j] \in W
      OBVIOUS
    <3> QED
      BY <2>1, <3>1, <3>2 DEF FirstOnes
  <2>3. IsFiniteSet(A)
    BY <2>2, FS_Subset
  <2>4. \A w \in A : free[w] \in Nat
    BY <2>2
  <2> QED
    BY <2>1, <2>3, <2>4, SumType
<1>2. FirstOnes(ws, 0) = {}
  BY DEF FirstOnes
<1>3. SumFunctionOnSet(free, FirstOnes(ws, 0)) = 0
  BY <1>2, SumOfNone
<1> QED
  BY <1>1, <1>3 DEF Given

LEMMA TakenInTurn ==
    ASSUME NEW W, IsFiniteSet(W), NEW ws \in Seq(W), NEW free, \A w \in W : free[w] \in Nat,
           \A i, j \in DOMAIN ws : i # j => ws[i] # ws[j], NEW want \in Nat
    PROVE  \E taken \in Seq(Splitting(W)) :
              /\ Take(want, free, ws) = Positive(taken)
              /\ GivesInTurn(taken, ws, free, want)
              /\ \A i \in DOMAIN taken : taken[i].qty <= free[ws[i]]
<1> DEFINE before(i) == SumFunctionOnSet(free, ToSet(SubSeq(ws, 1, i - 1)))
           q(i) == Max({0, Min({free[ws[i]], want - before(i)})})
<1>1. PICK n \in Nat : n = Len(ws) /\ DOMAIN ws = 1 .. n
  OBVIOUS
<1>2. PICK x : x = [i \in 0 .. n |-> SumFunctionOnSet(free, FirstOnes(ws, i))]
  OBVIOUS
<1>3. PICK c : c = [i \in 0 .. n |-> Given(ws, free, want, i)]
  OBVIOUS
<1>4. \A i \in 0 .. n : x[i] \in Nat /\ c[i] = IF x[i] <= want THEN x[i] ELSE want
  BY <1>1, <1>2, <1>3, GivenFrom DEF Given
<1>5. ASSUME NEW i \in 1 .. n
      PROVE  x[i - 1] \in Nat /\ free[ws[i]] \in Nat /\ x[i] = x[i - 1] + free[ws[i]]
  <2>1. i \in 0 .. n /\ i - 1 \in 0 .. n /\ i \in 1 .. Len(ws)
    BY <1>1
  <2>2. ws[i] \in W
    BY <1>1
  <2>3. x[i] = SumFunctionOnSet(free, FirstOnes(ws, i)) /\ x[i - 1] = SumFunctionOnSet(free, FirstOnes(ws, i - 1))
    BY <1>2, <2>1
  <2> QED
    BY <2>1, <2>2, <2>3, FirstOnesGrow
<1>6. ASSUME NEW i \in 1 .. n
      PROVE  q(i) = c[i] - c[i - 1] /\ q(i) \in Nat /\ q(i) <= free[ws[i]]
  <2>1. i \in 0 .. n /\ i - 1 \in 0 .. n /\ i - 1 \in 0 .. Len(ws)
    BY <1>1
  <2>2. PICK b \in Nat : b = x[i - 1]
    BY <1>5
  <2>3. PICK u \in Nat : u = free[ws[i]]
    BY <1>5
  <2>4. before(i) = b
    BY <1>2, <2>1, <2>2, FirstOnesAre
  <2>5. PICK d \in Int : d = want - b
    OBVIOUS
  <2>6. PICK m \in Int : m = Min({u, d}) /\ m = IF u <= d THEN u ELSE d
    <3>1. u \in Int /\ d \in Int
      OBVIOUS
    <3>2. Min({u, d}) = IF u <= d THEN u ELSE d
      BY <3>1, MaxOfTwo
    <3> QED
      BY <3>2
  <2>7. Max({0, m}) = IF 0 >= m THEN 0 ELSE m
    BY MaxOfTwo
  <2>8. q(i) = Max({0, m})
    BY <2>3, <2>4, <2>5, <2>6
  <2>9. x[i] = b + u
    BY <1>5, <2>2, <2>3
  <2>10. /\ c[i] = IF b + u <= want THEN b + u ELSE want
         /\ c[i - 1] = IF b <= want THEN b ELSE want
    BY <1>4, <2>1, <2>2, <2>9
  <2>11. PICK k : k = IF 0 >= m THEN 0 ELSE m
    OBVIOUS
  <2>12. k \in Nat /\ k = (IF b + u <= want THEN b + u ELSE want) - (IF b <= want THEN b ELSE want)
         /\ k <= u
    BY <2>5, <2>6, <2>11
  <2>13. q(i) = k
    BY <2>7, <2>8, <2>11
  <2> HIDE DEF q
  <2> QED
    BY <2>3, <2>10, <2>12, <2>13
<1> HIDE DEF q
<1>7. PICK taken : taken = [i \in DOMAIN ws |-> [warehouse |-> ws[i], qty |-> q(i)]]
  OBVIOUS
<1>8. \A i \in 1 .. n : taken[i] \in Splitting(W) /\ taken[i].warehouse = ws[i] /\ taken[i].qty = q(i)
  BY <1>1, <1>6, <1>7 DEF Splitting
<1>9. DOMAIN taken = 1 .. n /\ taken \in Seq(Splitting(W))
  <2>1. taken = [i \in 1 .. n |-> taken[i]]
    BY <1>1, <1>7
  <2>2. taken \in [1 .. n -> Splitting(W)]
    BY <1>8, <2>1
  <2> QED
    BY <2>1, <2>2, SeqDef
<1>10. Take(want, free, ws) = Positive(taken)
  BY <1>7 DEF Take, q
<1>11. \A i \in 1 .. n : i \in 0 .. n /\ i - 1 \in 0 .. n
  OBVIOUS
<1>12. \A i \in 1 .. n : taken[i].qty = Given(ws, free, want, i) - Given(ws, free, want, i - 1)
  BY <1>3, <1>6, <1>8, <1>11
<1>13. \A i \in 1 .. n : taken[i].qty <= free[ws[i]]
  BY <1>6, <1>8
<1>14. GivesInTurn(taken, ws, free, want)
  BY <1>1, <1>8, <1>9, <1>12 DEF GivesInTurn
<1> QED
  BY <1>9, <1>10, <1>13, <1>14

LEMMA GivenInAll ==
    ASSUME NEW W, IsFiniteSet(W), NEW ws \in Seq(W), NEW free, \A w \in W : free[w] \in Nat,
           \A i, j \in DOMAIN ws : i # j => ws[i] # ws[j], NEW want \in Nat,
           NEW taken \in Seq(Splitting(W)), GivesInTurn(taken, ws, free, want)
    PROVE  /\ NamesOnce(taken)
           /\ Total(taken) = Given(ws, free, want, Len(ws))
<1>1. PICK n \in Nat : n = Len(ws) /\ DOMAIN ws = 1 .. n /\ DOMAIN taken = 1 .. n
  BY DEF GivesInTurn
<1>2. NamesOnce(taken)
  BY <1>1 DEF NamesOnce, GivesInTurn
<1>3. PICK c : c = [i \in 0 .. n |-> Given(ws, free, want, i)]
  OBVIOUS
<1>4. PICK f : f = [i \in DOMAIN taken |-> taken[i].qty]
  OBVIOUS
<1>5. \A i \in 0 .. n : c[i] \in Int
  BY <1>1, <1>3, GivenFrom
<1>6. \A i \in 1 .. n : f[i] = c[i] - c[i - 1]
  <2>1. \A i \in 1 .. n : i \in 0 .. n /\ i - 1 \in 0 .. n
    OBVIOUS
  <2> QED
    BY <1>1, <1>3, <1>4, <2>1 DEF GivesInTurn
<1>7. SumFunctionOnSet(f, 1 .. n) = c[n] - c[0]
  <2>1. Climbs(c, f, n)
    BY <1>5, <1>6 DEF Climbs
  <2> QED
    BY <2>1, Telescopes
<1>8. c[0] = 0 /\ c[n] = Given(ws, free, want, Len(ws)) /\ c[n] \in Int
  <2>1. 0 \in 0 .. n /\ n \in 0 .. n
    OBVIOUS
  <2>2. Given(ws, free, want, 0) = 0
    BY GivenFrom
  <2> QED
    BY <1>1, <1>3, <1>5, <2>1, <2>2
<1>9. Total(taken) = SumFunctionOnSet(f, 1 .. n)
  BY <1>1, <1>4 DEF Total, SumFunction
<1> QED
  BY <1>2, <1>7, <1>8, <1>9

(* A suggested split names each warehouse once and takes no more than is   *)
(* wanted.                                                                 *)
LEMMA TakeFits ==
    ASSUME NEW W, IsFiniteSet(W), NEW ws \in Seq(W), NEW free, \A w \in W : free[w] \in Nat,
           \A i, j \in DOMAIN ws : i # j => ws[i] # ws[j], NEW want \in Nat
    PROVE  /\ NamesOnce(Take(want, free, ws))
           /\ Total(Take(want, free, ws)) = Given(ws, free, want, Len(ws))
           /\ Total(Take(want, free, ws)) <= want
<1>1. PICK taken \in Seq(Splitting(W)) :
         Take(want, free, ws) = Positive(taken) /\ GivesInTurn(taken, ws, free, want)
  BY TakenInTurn
<1>2. NamesOnce(taken) /\ Total(taken) = Given(ws, free, want, Len(ws))
  BY <1>1, GivenInAll
<1>3. Given(ws, free, want, Len(ws)) \in 0 .. want
  <2>1. Len(ws) \in 0 .. Len(ws)
    OBVIOUS
  <2> QED
    BY <2>1, GivenFrom
<1> QED
  BY <1>1, <1>2, <1>3, PositiveTotal, PositiveNamesOnce

LEMMA SplitsFit ==
    ASSUME NEW W, IsFiniteSet(W), NEW free \in [W -> Int], NEW want \in Nat,
           NEW splits \in Splits(want, free)
    PROVE  NamesOnce(splits) /\ Total(splits) <= want
<1>1. PICK ws \in LargestFirst(free) : splits = Take(want, free, ws)
  BY DEF Splits
<1>2. PICK C : C = {w \in DOMAIN free : free[w] > 0}
  OBVIOUS
<1>3. /\ ws \in [1 .. Cardinality(C) -> C]
      /\ \A i, j \in 1 .. Cardinality(C) : i # j => ws[i] # ws[j]
  BY <1>1, <1>2 DEF LargestFirst, SetToSeqs
<1>4. IsFiniteSet(C) /\ C \subseteq W
  BY <1>2, FS_Subset
<1>5. Cardinality(C) \in Nat
  BY <1>4, FS_CardinalityType
<1>6. ws \in Seq(C) /\ DOMAIN ws = 1 .. Cardinality(C)
  BY <1>3, <1>5
<1>7. \A w \in C : free[w] \in Nat
  BY <1>2
<1>8. \A i, j \in DOMAIN ws : i # j => ws[i] # ws[j]
  BY <1>3, <1>6
<1> QED
  BY <1>1, <1>4, <1>6, <1>7, <1>8, TakeFits

-----------------------------------------------------------------------------
(* The best suggestion.                                                    *)

(* The members that count are among those that do.                         *)
LEMMA PositiveAre ==
    ASSUME NEW S, NEW seq \in Seq(S), NEW P,
           \A i \in DOMAIN seq : seq[i].qty > 0 => seq[i] \in P
    PROVE  Positive(seq) \in Seq(P)
<1>1. PICK parts : parts = [i \in DOMAIN seq |-> IF seq[i].qty > 0 THEN <<seq[i]>> ELSE << >>]
  OBVIOUS
<1>2. ASSUME NEW i \in DOMAIN seq PROVE parts[i] \in Seq(P)
  <2>1. CASE seq[i].qty > 0
    <3>1. seq[i] \in P /\ parts[i] = <<seq[i]>>
      BY <1>1, <2>1
    <3> QED
      BY <3>1
  <2>2. CASE ~(seq[i].qty > 0)
    BY <1>1, <2>2
  <2> QED
    BY <2>1, <2>2
<1>3. parts \in Seq(Seq(P))
  <2>1. parts = [i \in 1 .. Len(seq) |-> parts[i]] /\ Len(seq) \in Nat
    BY <1>1
  <2>2. \A i \in 1 .. Len(seq) : parts[i] \in Seq(P)
    BY <1>2
  <2>3. parts \in [1 .. Len(seq) -> Seq(P)]
    BY <2>1, <2>2
  <2> QED
    BY <2>1, <2>3, SeqDef
<1> QED
  BY <1>1, <1>3, FlattenType DEF Positive

(* Counting: all of n, and those up to the k-th at most.                    *)
LEMMA CountsAll ==
    ASSUME NEW n \in Nat, NEW f, \A i \in 1 .. n : f[i] = 1
    PROVE  SumFunctionOnSet(f, 1 .. n) = n
<1>1. PICK c : c = [i \in 0 .. n |-> i]
  OBVIOUS
<1>2. Climbs(c, f, n)
  <2>1. \A i \in 0 .. n : c[i] = i
    BY <1>1
  <2>2. \A i \in 1 .. n : i \in 0 .. n /\ i - 1 \in 0 .. n
    OBVIOUS
  <2> QED
    BY <2>1, <2>2 DEF Climbs
<1>3. c[n] = n /\ c[0] = 0
  BY <1>1
<1> QED
  BY <1>2, <1>3, Telescopes

LEMMA CountsSome ==
    ASSUME NEW n \in Nat, NEW k \in 0 .. n, NEW f,
           \A i \in 1 .. n : f[i] \in {0, 1} /\ (i > k => f[i] = 0)
    PROVE  SumFunctionOnSet(f, 1 .. n) <= k
<1>1. PICK g : g = [i \in 1 .. n |-> IF i <= k THEN 1 ELSE 0]
  OBVIOUS
<1>2. PICK c : c = [i \in 0 .. n |-> IF i <= k THEN i ELSE k]
  OBVIOUS
<1>3. Climbs(c, g, n)
  <2>1. \A i \in 0 .. n : c[i] = IF i <= k THEN i ELSE k
    BY <1>2
  <2>2. \A i \in 1 .. n : i \in 0 .. n /\ i - 1 \in 0 .. n
    OBVIOUS
  <2>3. \A i \in 1 .. n : g[i] = IF i <= k THEN 1 ELSE 0
    BY <1>1
  <2> QED
    BY <2>1, <2>2, <2>3 DEF Climbs
<1>4. c[n] = k /\ c[0] = 0
  BY <1>2
<1>5. SumFunctionOnSet(g, 1 .. n) = k
  BY <1>3, <1>4, Telescopes
<1>6. \A i \in 1 .. n : f[i] \in Nat /\ g[i] \in Nat /\ f[i] <= g[i]
  BY <1>1
<1>7. IsFiniteSet(1 .. n)
  BY FS_Interval
<1> QED
  BY <1>5, <1>6, <1>7, SumGrows

(* A sequence's members that count are as many as there are indices where  *)
(* a positive quantity stands.                                             *)
LEMMA PositiveLength ==
    ASSUME NEW W, NEW splits \in Seq(Splitting(W)), NEW k \in 0 .. Len(splits),
           \A i \in DOMAIN splits : i > k => splits[i].qty = 0
    PROVE  Len(Positive(splits)) <= k
<1>1. PICK w : w = [x \in Splitting(W) |-> IF x.qty > 0 THEN 1 ELSE 0]
  OBVIOUS
<1>2. /\ w \in [Splitting(W) -> Int]
      /\ \A x \in Splitting(W) : w[x] = IF x.qty > 0 THEN 1 ELSE 0
      /\ \A x \in Splitting(W) : x.qty \in Nat /\ (x.qty = 0 => w[x] = 0)
  <2>1. \A x \in Splitting(W) : w[x] = IF x.qty > 0 THEN 1 ELSE 0
    BY <1>1
  <2>2. \A x \in Splitting(W) : x.qty \in Nat
    BY DEF Splitting
  <2> QED
    BY <1>1, <2>1, <2>2
<1>3. PICK P : P = {x \in Splitting(W) : x.qty > 0}
  OBVIOUS
<1>4. PICK t : t = Positive(splits)
  OBVIOUS
<1>5. t \in Seq(P)
  <2>1. \A i \in DOMAIN splits : splits[i] \in Splitting(W)
    OBVIOUS
  <2>2. \A i \in DOMAIN splits : splits[i].qty > 0 => splits[i] \in P
    BY <1>3, <2>1
  <2> QED
    BY <1>4, <2>2, PositiveAre
<1>6. Weighs(t, w) = Weighs(splits, w)
  BY <1>2, <1>4, PositiveWeighs
<1>7. Weighs(t, w) = Len(t)
  <2>1. PICK f : f = [n \in DOMAIN t |-> w[t[n]]]
    OBVIOUS
  <2>2. \A i \in DOMAIN t : t[i] \in P
    BY <1>5
  <2>3. \A i \in DOMAIN t : f[i] = 1
    BY <1>2, <1>3, <2>1, <2>2
  <2>4. DOMAIN t = 1 .. Len(t) /\ Len(t) \in Nat
    BY <1>5
  <2>5. SumFunctionOnSet(f, 1 .. Len(t)) = Len(t)
    BY <2>3, <2>4, CountsAll
  <2> QED
    BY <2>1, <2>4, <2>5 DEF Weighs
<1>8. Weighs(splits, w) <= k
  <2>1. PICK f : f = [n \in DOMAIN splits |-> w[splits[n]]]
    OBVIOUS
  <2>2. DOMAIN splits = 1 .. Len(splits) /\ Len(splits) \in Nat
    OBVIOUS
  <2>3. \A i \in DOMAIN splits : splits[i] \in Splitting(W)
    OBVIOUS
  <2>4. \A i \in 1 .. Len(splits) : f[i] \in {0, 1} /\ (i > k => f[i] = 0)
    BY <1>2, <2>1, <2>2, <2>3
  <2>5. SumFunctionOnSet(f, 1 .. Len(splits)) <= k
    BY <2>2, <2>4, CountsSome
  <2> QED
    BY <2>1, <2>2, <2>5 DEF Weighs
<1> QED
  BY <1>4, <1>6, <1>7, <1>8

-----------------------------------------------------------------------------
(* The largest warehouses first.                                           *)
Ranks(ws, free) ==
    /\ \A i, j \in DOMAIN ws : i # j => ws[i] # ws[j]
    /\ \A i, j \in DOMAIN ws : i < j => free[ws[i]] >= free[ws[j]]

LEMMA LargestRank ==
    ASSUME NEW W, IsFiniteSet(W), NEW free \in [W -> Int], NEW ws \in LargestFirst(free),
           NEW C, C = {w \in W : free[w] > 0}
    PROVE  /\ IsFiniteSet(C) /\ ws \in Seq(C) /\ Ranks(ws, free)
           /\ FirstOnes(ws, Len(ws)) = C
<1>1. /\ ws \in [1 .. Cardinality(C) -> C]
      /\ \A i, j \in 1 .. Cardinality(C) : i # j => ws[i] # ws[j]
      /\ \A i, j \in DOMAIN ws : i < j => free[ws[i]] >= free[ws[j]]
  BY DEF LargestFirst, SetToSeqs
<1>2. IsFiniteSet(C)
  BY FS_Subset
<1>3. PICK n \in Nat : n = Cardinality(C)
  BY <1>2, FS_CardinalityType
<1>4. ws \in Seq(C) /\ DOMAIN ws = 1 .. n /\ Len(ws) = n
  BY <1>1, <1>3
<1>5. Ranks(ws, free)
  BY <1>1, <1>3, <1>4 DEF Ranks
<1>6. ws \in Injection(1 .. n, C)
  BY <1>1, <1>3, <1>4 DEF Injection, IsInjective
<1>7. Cardinality(1 .. n) = Cardinality(C)
  BY <1>3, FS_Interval
<1>8. ws \in Surjection(1 .. n, C)
  BY <1>2, <1>6, <1>7, FS_Injection
<1>9. \A w \in C : \E j \in 1 .. n : ws[j] = w
  BY <1>8 DEF Surjection
<1>10. \A j \in 1 .. n : ws[j] \in C
  BY <1>4
<1> QED
  BY <1>2, <1>4, <1>5, <1>9, <1>10 DEF FirstOnes

LEMMA FirstOnesCount ==
    ASSUME NEW W, NEW ws \in Seq(W), NEW n \in 0 .. Len(ws)
    PROVE  /\ FirstOnes(ws, n) \subseteq W
           /\ IsFiniteSet(FirstOnes(ws, n))
           /\ Cardinality(FirstOnes(ws, n)) \in 0 .. n
<1>1. PICK f : f = [j \in 1 .. n |-> ws[j]]
  OBVIOUS
<1>2. f \in Surjection(1 .. n, FirstOnes(ws, n))
  BY <1>1 DEF Surjection, FirstOnes
<1>3. IsFiniteSet(1 .. n) /\ Cardinality(1 .. n) = n
  BY FS_Interval
<1>4. IsFiniteSet(FirstOnes(ws, n)) /\ Cardinality(FirstOnes(ws, n)) <= n
  BY <1>2, <1>3, FS_Surjection
<1>5. Cardinality(FirstOnes(ws, n)) \in Nat
  BY <1>4, FS_CardinalityType
<1>6. \A j \in 1 .. n : ws[j] \in W
  OBVIOUS
<1> QED
  BY <1>4, <1>5, <1>6 DEF FirstOnes

LEMMA FirstOnesRise ==
    ASSUME NEW W, IsFiniteSet(W), NEW ws \in Seq(W), NEW free, \A w \in W : free[w] \in Nat,
           NEW k \in 0 .. Len(ws), NEW i \in 0 .. Len(ws), k <= i
    PROVE  SumFunctionOnSet(free, FirstOnes(ws, k)) <= SumFunctionOnSet(free, FirstOnes(ws, i))
<1>1. PICK A, B : A = FirstOnes(ws, k) /\ B = FirstOnes(ws, i)
  OBVIOUS
<1>2. 1 .. k \subseteq 1 .. i
  OBVIOUS
<1>3. A \subseteq B /\ B \subseteq W /\ IsFiniteSet(B)
  <2>1. B \subseteq W /\ IsFiniteSet(B)
    BY <1>1, FirstOnesCount
  <2>2. A \subseteq B
    BY <1>1, <1>2 DEF FirstOnes
  <2> QED
    BY <2>1, <2>2
<1>4. \A w \in B : free[w] \in Nat /\ free[w] <= free[w]
  BY <1>3
<1>5. \A w \in A : free[w] <= free[w]
  BY <1>3, <1>4
<1> QED
  BY <1>1, <1>3, <1>4, <1>5, SumGrows

(* No warehouses have more free stock than as many of the largest.         *)
LEMMA LargestLead ==
    ASSUME NEW W, IsFiniteSet(W), NEW ws \in Seq(W), NEW free, \A w \in W : free[w] \in Nat,
           Ranks(ws, free), FirstOnes(ws, Len(ws)) = W,
           NEW S \in SUBSET W, Cardinality(S) <= Len(ws)
    PROVE  SumFunctionOnSet(free, S) <= SumFunctionOnSet(free, FirstOnes(ws, Cardinality(S)))
<1>1. PICK n \in Nat : n = Len(ws) /\ DOMAIN ws = 1 .. n
  OBVIOUS
<1>2. PICK x : x = [i \in 0 .. n |-> SumFunctionOnSet(free, FirstOnes(ws, i))]
  OBVIOUS
<1>3. PICK G : G = {k \in Nat : k <= n =>
                      \A T \in SUBSET W : Cardinality(T) = k => SumFunctionOnSet(free, T) <= x[k]}
  OBVIOUS
<1>4. ASSUME NEW T \in SUBSET W PROVE IsFiniteSet(T) /\ SumFunctionOnSet(free, T) \in Nat
  <2>1. IsFiniteSet(T) /\ \A w \in T : free[w] \in Nat
    BY FS_Subset
  <2> QED
    BY <2>1, SumType
<1>5. 0 \in G
  <2>1. ASSUME NEW T \in SUBSET W, Cardinality(T) = 0 PROVE SumFunctionOnSet(free, T) <= x[0]
    <3>1. T = {} /\ FirstOnes(ws, 0) = {}
      <4>1. IsFiniteSet(T)
        BY <1>4
      <4>2. T = {}
        BY <2>1, <4>1, FS_EmptySet
      <4>3. FirstOnes(ws, 0) = {}
        BY DEF FirstOnes
      <4> QED
        BY <4>2, <4>3
    <3>2. x[0] = 0
      BY <1>2, <3>1, SumOfNone
    <3> QED
      BY <3>1, <3>2, SumOfNone
  <2> QED
    BY <1>3, <2>1
<1>6. ASSUME NEW k \in Nat, k \in G PROVE k + 1 \in G
  <2>1. SUFFICES ASSUME k + 1 <= n, NEW T \in SUBSET W, Cardinality(T) = k + 1
                 PROVE  SumFunctionOnSet(free, T) <= x[k + 1]
    BY <1>3
  <2>2. k \in 0 .. Len(ws) /\ k + 1 \in 1 .. Len(ws) /\ (k + 1) - 1 = k
    BY <1>1, <2>1
  <2>3. PICK A : A = FirstOnes(ws, k)
    OBVIOUS
  <2>4. ~(T \subseteq A)
    <3>1. IsFiniteSet(A) /\ Cardinality(A) \in 0 .. k
      BY <2>2, <2>3, FirstOnesCount
    <3>2. SUFFICES ASSUME T \subseteq A PROVE FALSE
      OBVIOUS
    <3>3. Cardinality(T) <= Cardinality(A)
      BY <3>1, <3>2, FS_Subset
    <3> QED
      BY <2>1, <3>1, <3>3
  <2>5. PICK w \in T : w \notin A
    BY <2>4
  <2>6. w \in W
    OBVIOUS
  <2>7. PICK j \in 1 .. n : ws[j] = w
    BY <1>1, <2>6 DEF FirstOnes
  <2>8. j > k
    BY <2>3, <2>5, <2>7 DEF FirstOnes
  <2>9. free[w] <= free[ws[k + 1]] /\ free[ws[k + 1]] \in Nat /\ free[w] \in Nat
    <3>1. k + 1 \in DOMAIN ws /\ j \in DOMAIN ws /\ (j = k + 1 \/ k + 1 < j)
      BY <1>1, <2>2, <2>7, <2>8
    <3>2. ws[k + 1] \in W
      BY <3>1
    <3>3. j = k + 1 => free[w] = free[ws[k + 1]]
      BY <2>7
    <3>4. k + 1 < j => free[ws[k + 1]] >= free[w]
      BY <2>7, <3>1 DEF Ranks
    <3> QED
      BY <2>6, <3>1, <3>2, <3>3, <3>4
  <2>10. PICK R : R = T \ {w}
    OBVIOUS
  <2>11. R \in SUBSET W /\ Cardinality(R) = k
    <3>1. Cardinality(R) = Cardinality(T) - 1
      BY <1>4, <2>10, FS_RemoveElement
    <3> QED
      BY <2>1, <2>10, <3>1
  <2>12. SumFunctionOnSet(free, R) <= x[k]
    BY <1>3, <1>6, <2>1, <2>11
  <2>13. SumFunctionOnSet(free, T) = free[w] + SumFunctionOnSet(free, R)
    <3>1. IsFiniteSet(T) /\ \A y \in T : free[y] \in Int
      BY <1>4
    <3> QED
      BY <2>10, <3>1, SumRemove
  <2>14. x[k] \in Nat /\ x[k + 1] = x[k] + free[ws[k + 1]]
    <3>1. \A i, m \in DOMAIN ws : i # m => ws[i] # ws[m]
      BY DEF Ranks
    <3>2. /\ SumFunctionOnSet(free, FirstOnes(ws, k)) \in Nat
          /\ SumFunctionOnSet(free, FirstOnes(ws, k + 1))
               = SumFunctionOnSet(free, FirstOnes(ws, k)) + free[ws[k + 1]]
      BY <2>2, <3>1, FirstOnesGrow
    <3>3. k \in 0 .. n /\ k + 1 \in 0 .. n
      BY <2>1
    <3> QED
      BY <1>2, <3>2, <3>3
  <2>15. SumFunctionOnSet(free, R) \in Nat
    BY <1>4, <2>11
  <2> QED
    BY <2>9, <2>12, <2>13, <2>14, <2>15
<1>7. \A k \in Nat : k \in G
  BY <1>5, <1>6, NatSetInduction
<1>8. PICK k \in Nat : k = Cardinality(S) /\ k <= n
  BY <1>1, <1>4, FS_CardinalityType
<1>9. SumFunctionOnSet(free, S) <= x[k]
  BY <1>3, <1>7, <1>8
<1>10. k \in 0 .. n
  BY <1>8
<1> QED
  BY <1>2, <1>8, <1>9, <1>10

IsBest(splits, free, want, C) ==
    /\ NamesOnce(splits)
    /\ \A i \in DOMAIN splits : /\ splits[i].warehouse \in C
                                /\ splits[i].qty \in 1 .. free[splits[i].warehouse]
    /\ Total(splits) = Min({want, SumFunctionOnSet(free, C)})
    /\ \A S \in SUBSET C :
          Cardinality(S) < Len(splits) => SumFunctionOnSet(free, S) < Total(splits)

(* A suggestion names each warehouse once, asks it for no more than it has *)
(* free, and covers the order as far as all stock together allows; no      *)
(* smaller set of warehouses covers as much (allocate-stock.ts, header:    *)
(* minimizes the warehouses involved).                                     *)
THEOREM SuggestedIsBest ==
    ASSUME NEW W, IsFiniteSet(W), NEW free \in [W -> Int], NEW want \in Nat,
           NEW splits \in Splits(want, free), NEW C, C = {w \in W : free[w] > 0}
    PROVE  IsBest(splits, free, want, C)
<1>1. PICK ws \in LargestFirst(free) : splits = Take(want, free, ws)
  BY DEF Splits
<1>2. /\ IsFiniteSet(C) /\ ws \in Seq(C) /\ Ranks(ws, free)
      /\ FirstOnes(ws, Len(ws)) = C
  BY LargestRank
<1>3. /\ \A w \in C : free[w] \in Nat /\ free[w] > 0
      /\ \A i, j \in DOMAIN ws : i # j => ws[i] # ws[j]
  BY <1>2 DEF Ranks
<1>4. PICK taken \in Seq(Splitting(C)) :
         /\ splits = Positive(taken)
         /\ GivesInTurn(taken, ws, free, want)
         /\ \A i \in DOMAIN taken : taken[i].qty <= free[ws[i]]
  BY <1>1, <1>2, <1>3, TakenInTurn
<1>5. PICK n \in Nat : n = Len(ws) /\ DOMAIN ws = 1 .. n /\ DOMAIN taken = 1 .. n /\ Len(taken) = n
  BY <1>2, <1>4 DEF GivesInTurn
<1>6. NamesOnce(splits) /\ Total(splits) = Given(ws, free, want, n)
  BY <1>1, <1>2, <1>3, <1>5, TakeFits
<1>7. PICK all \in Nat : all = SumFunctionOnSet(free, C)
  BY <1>2, <1>3, SumType
<1>8. Total(splits) = IF all <= want THEN all ELSE want
  BY <1>2, <1>5, <1>6, <1>7 DEF Given
<1>9. Total(splits) = Min({want, SumFunctionOnSet(free, C)})
  <2>1. Min({want, all}) = IF want <= all THEN want ELSE all
    <3>1. want \in Int /\ all \in Int
      OBVIOUS
    <3> QED
      BY <3>1, MaxOfTwo
  <2> QED
    BY <1>7, <1>8, <2>1
<1>10. ASSUME NEW i \in DOMAIN splits
       PROVE  splits[i].warehouse \in C /\ splits[i].qty \in 1 .. free[splits[i].warehouse]
  <2>1. PICK P : P = {s \in Splitting(C) : s.qty \in 1 .. free[s.warehouse]}
    OBVIOUS
  <2>2. ASSUME NEW m \in DOMAIN taken, taken[m].qty > 0 PROVE taken[m] \in P
    <3>1. taken[m] \in Splitting(C) /\ taken[m].qty <= free[ws[m]]
      BY <1>4
    <3>2. taken[m].warehouse = ws[m] /\ ws[m] \in C
      BY <1>2, <1>4, <1>5 DEF GivesInTurn
    <3>3. free[ws[m]] \in Nat /\ taken[m].qty \in Nat
      BY <1>3, <3>1, <3>2 DEF Splitting
    <3> QED
      BY <2>1, <2>2, <3>1, <3>2, <3>3
  <2>3. splits \in Seq(P)
    BY <1>4, <2>2, PositiveAre
  <2>4. splits[i] \in P
    BY <2>3
  <2> QED
    BY <2>1, <2>4 DEF Splitting
<1>11. ASSUME NEW S \in SUBSET C, Cardinality(S) < Len(splits)
       PROVE  SumFunctionOnSet(free, S) < Total(splits)
  <2>1. Len(splits) <= n
    <3>1. n \in 0 .. Len(taken) /\ \A i \in DOMAIN taken : ~(i > n)
      BY <1>5
    <3> QED
      BY <1>4, <3>1, PositiveLength
  <2>2. IsFiniteSet(S)
    BY <1>2, FS_Subset
  <2>3. PICK k \in Nat : k = Cardinality(S) /\ k < Len(splits) /\ k < n
    <3>1. Cardinality(S) \in Nat /\ Len(splits) \in Nat
      BY <1>4, <2>2, FS_CardinalityType, PositiveType
    <3> QED
      BY <1>11, <2>1, <3>1
  <2>4. k \in 0 .. Len(ws) /\ k + 1 \in 1 .. Len(ws) /\ (k + 1) - 1 = k
        /\ k + 1 \in 0 .. Len(ws) /\ n \in 0 .. Len(ws)
    BY <1>5, <2>3
  <2>5. PICK some \in Nat, lead \in Nat, next \in Nat :
           /\ some = SumFunctionOnSet(free, S)
           /\ lead = SumFunctionOnSet(free, FirstOnes(ws, k))
           /\ next = SumFunctionOnSet(free, FirstOnes(ws, k + 1))
    <3>1. \A w \in S : free[w] \in Nat
      BY <1>3
    <3>2. SumFunctionOnSet(free, S) \in Nat
      BY <2>2, <3>1, SumType
    <3>3. /\ SumFunctionOnSet(free, FirstOnes(ws, k)) \in Nat
          /\ SumFunctionOnSet(free, FirstOnes(ws, k + 1)) \in Nat
      BY <1>2, <1>3, <2>4, GivenFrom
    <3> QED
      BY <3>2, <3>3
  <2>6. some <= lead
    <3>1. Cardinality(S) <= Len(ws)
      BY <2>3, <2>4
    <3>2. SumFunctionOnSet(free, S) <= SumFunctionOnSet(free, FirstOnes(ws, Cardinality(S)))
      BY <1>2, <1>3, <3>1, LargestLead
    <3> QED
      BY <2>3, <2>5, <3>2
  <2>7. lead < next /\ next <= all
    <3>1. next = lead + free[ws[k + 1]]
      <4>1. SumFunctionOnSet(free, FirstOnes(ws, k + 1))
              = SumFunctionOnSet(free, FirstOnes(ws, k)) + free[ws[k + 1]]
        BY <1>2, <1>3, <2>4, FirstOnesGrow
      <4> QED
        BY <2>5, <4>1
    <3>2. free[ws[k + 1]] \in Nat /\ free[ws[k + 1]] > 0
      <4>1. ws[k + 1] \in C
        BY <1>2, <2>4
      <4> QED
        BY <1>3, <4>1
    <3>3. next <= SumFunctionOnSet(free, FirstOnes(ws, n))
      <4>1. k + 1 <= n
        BY <2>3
      <4> QED
        BY <1>2, <1>3, <2>4, <2>5, <4>1, FirstOnesRise
    <3>4. SumFunctionOnSet(free, FirstOnes(ws, n)) = all
      BY <1>2, <1>5, <1>7
    <3> QED
      BY <3>1, <3>2, <3>3, <3>4
  <2>8. CASE lead < want
    BY <1>8, <2>5, <2>6, <2>7, <2>8
  <2>9. CASE ~(lead < want)
    <3>1. ASSUME NEW i \in k .. n PROVE Given(ws, free, want, i) = want
      <4>1. i \in 0 .. Len(ws) /\ k <= i
        BY <1>5
      <4>2. lead <= SumFunctionOnSet(free, FirstOnes(ws, i))
        BY <1>2, <1>3, <2>4, <2>5, <4>1, FirstOnesRise
      <4>3. PICK y \in Nat : y = SumFunctionOnSet(free, FirstOnes(ws, i))
        BY <1>2, <1>3, <4>1, GivenFrom
      <4> QED
        BY <2>9, <4>2, <4>3 DEF Given
    <3>2. ASSUME NEW i \in DOMAIN taken, i > k PROVE taken[i].qty = 0
      <4>1. i \in k .. n /\ i - 1 \in k .. n /\ i \in 1 .. Len(ws)
        BY <1>5, <3>2
      <4>2. taken[i].qty = Given(ws, free, want, i) - Given(ws, free, want, i - 1)
        BY <1>4, <4>1 DEF GivesInTurn
      <4>3. Given(ws, free, want, i) = want /\ Given(ws, free, want, i - 1) = want
        BY <3>1, <4>1
      <4> QED
        BY <4>2, <4>3
    <3>3. k \in 0 .. Len(taken)
      BY <1>5, <2>3
    <3>4. Len(splits) <= k
      BY <1>4, <3>2, <3>3, PositiveLength
    <3>5. Len(splits) \in Nat
      BY <1>4, PositiveType
    <3> QED
      BY <2>3, <3>4, <3>5
  <2> QED
    BY <2>8, <2>9
<1> QED
  BY <1>6, <1>9, <1>10, <1>11 DEF IsBest
=============================================================================
