-------------------------- MODULE AlgorithmProofs --------------------------
(***************************************************************************)
(* Theorems about the pure algorithms, for inputs of any size: the tax of  *)
(* a bracket table (Brackets), matrices and constants (RateTables) and the *)
(* forms of the rule and constant editor (RuleForm).  SMT cannot read an   *)
(* empty string: NoText is never expanded.                                 *)
(***************************************************************************)
EXTENDS AlgorithmCases, Folds, FiniteSetTheorems, FunctionTheorems,
        SequenceTheorems, WellFoundedInduction, TLAPS

-----------------------------------------------------------------------------
(* Least numbers, finite sets, and sums over them.                         *)

(* A nonempty set of natural numbers has a least one.  What is shown of every
   income or bracket below is shown by a least counterexample. *)
LEMMA LeastNat ==
  ASSUME NEW T \in SUBSET Nat, T # {}
  PROVE  \E x \in T : \A y \in T : x <= y
<1> DEFINE R == OpToRel(<, Nat)
<1>1. IsWellFoundedOn(R, Nat)
  BY NatLessThanWellFounded
<1>2. PICK x \in T : \A y \in T : <<y, x>> \notin R
  <2> HIDE DEF R
  <2> QED
    BY <1>1, WFMin, Zenon
<1>3. \A y \in T : y < x => <<y, x>> \in R
  BY DEF OpToRel
<1> HIDE DEF R
<1>4. \A y \in T : ~ (y < x)
  BY <1>2, <1>3
<1>5. \A y \in T : x <= y
  BY <1>4
<1> QED
  BY <1>5

(* What holds of a finite set whenever it holds of its proper subsets holds of
   every finite set. *)
LEMMA SetInduction ==
  ASSUME NEW S, IsFiniteSet(S), NEW P,
         \A T \in SUBSET S : (\A U \in SUBSET T : U # T => U \in P) => T \in P
  PROVE  \A T \in SUBSET S : T \in P
<1> DEFINE Wrong == {n \in Nat : \E T \in SUBSET S : T \notin P /\ Cardinality(T) = n}
<1>1. \A T \in SUBSET S : IsFiniteSet(T) /\ Cardinality(T) \in Nat
  BY FS_Subset, FS_CardinalityType
<1>2. Wrong = {}
  <2> SUFFICES ASSUME Wrong # {} PROVE FALSE
    OBVIOUS
  <2>1. PICK n \in Wrong : \A k \in Wrong : n <= k
    <3>1. Wrong \in SUBSET Nat
      OBVIOUS
    <3> HIDE DEF Wrong
    <3> QED
      BY <3>1, LeastNat
  <2>2. PICK T \in SUBSET S : T \notin P /\ Cardinality(T) = n
    BY <2>1
  <2>3. PICK U \in SUBSET T : U # T /\ U \notin P
    BY <2>2
  <2>4. Cardinality(U) < n
    <3>1. Cardinality(U) <= Cardinality(T) /\ Cardinality(U) # Cardinality(T)
      BY <1>1, <2>3, FS_Subset
    <3> QED
      BY <1>1, <2>2, <2>3, <3>1
  <2>5. Cardinality(U) \in Wrong
    BY <1>1, <2>3
  <2>6. n \in Nat /\ Cardinality(U) \in Nat
    BY <1>1, <2>3
  <2> HIDE DEF Wrong
  <2> QED
    BY <2>1, <2>4, <2>5, <2>6
<1> QED
  BY <1>1, <1>2

-----------------------------------------------------------------------------
(* SumFunctionOnSet is defined through a recursive function on the subsets of
   S, which takes one element of a set after another. *)
One(s) == CHOOSE x \in s : TRUE

Iterates(f, S, h) ==
  h = [s \in SUBSET S |-> IF s = {} THEN 0 ELSE f[One(s)] + h[s \ {One(s)}]]

(* A sum is the value at S of the function its definition chooses. *)
LEMMA SumIs == \A f, S : SumFunctionOnSet(f, S) = (CHOOSE h : Iterates(f, S, h))[S]
BY DEF SumFunctionOnSet, FoldFunctionOnSet, MapThenFoldSet, Iterates, One

(* A nonempty set has an element, and is more than what is left without it. *)
LEMMA OneIn == \A s : s # {} => One(s) \in s /\ s \ {One(s)} # s
BY DEF One

(* What an iteration is at one set. *)
LEMMA IteratesAt ==
  ASSUME NEW f, NEW S, NEW h, Iterates(f, S, h), NEW s \in SUBSET S
  PROVE  h[s] = IF s = {} THEN 0 ELSE f[One(s)] + h[s \ {One(s)}]
BY DEF Iterates

(* Two iterations agree where both are defined. *)
LEMMA OneIteration ==
  ASSUME NEW f, NEW S, NEW T, IsFiniteSet(S), NEW h, NEW g,
         Iterates(f, S, h), Iterates(f, T, g)
  PROVE  \A U \in SUBSET (S \cap T) : h[U] = g[U]
<1> DEFINE P == {U \in SUBSET (S \cap T) : h[U] = g[U]}
<1>1. IsFiniteSet(S \cap T)
  BY FS_Subset
<1>2. ASSUME NEW U \in SUBSET (S \cap T), \A V \in SUBSET U : V # U => V \in P
      PROVE  U \in P
  <2>1. CASE U = {}
    BY <2>1, IteratesAt
  <2>2. CASE U # {}
    <3>1. U \ {One(U)} \in P
      <4>1. U \ {One(U)} \in SUBSET U /\ U \ {One(U)} # U
        BY <2>2, OneIn
      <4> HIDE DEF P
      <4> QED
        BY <1>2, <4>1
    <3>2. h[U] = f[One(U)] + h[U \ {One(U)}] /\ g[U] = f[One(U)] + g[U \ {One(U)}]
      BY <2>2, IteratesAt
    <3> QED
      BY <3>1, <3>2
  <2> QED
    BY <2>1, <2>2
<1>3. \A U \in SUBSET (S \cap T) : U \in P
  <2> HIDE DEF P
  <2> QED
    BY <1>1, <1>2, SetInduction
<1> QED
  BY <1>3

(* Where there are iterations a sum is one term and the sum of the others. *)
LEMMA SumOfIteration ==
  ASSUME NEW f, NEW S, IsFiniteSet(S), \A T \in SUBSET S : \E h : Iterates(f, T, h)
  PROVE  SumFunctionOnSet(f, S) =
           IF S = {} THEN 0 ELSE f[One(S)] + SumFunctionOnSet(f, S \ {One(S)})
<1> DEFINE H(T) == CHOOSE h : Iterates(f, T, h)
<1>1. \A T \in SUBSET S : Iterates(f, T, H(T)) /\ SumFunctionOnSet(f, T) = H(T)[T]
  BY SumIs
<1> HIDE DEF H
<1>2. SumFunctionOnSet(f, S) = IF S = {} THEN 0 ELSE f[One(S)] + H(S)[S \ {One(S)}]
  BY <1>1, IteratesAt
<1>3. H(S)[S \ {One(S)}] = H(S \ {One(S)})[S \ {One(S)}]
  <2> DEFINE T == S \ {One(S)}
  <2>1. T \in SUBSET (S \cap T) /\ T \in SUBSET S
    OBVIOUS
  <2> HIDE DEF T
  <2>2. Iterates(f, S, H(S)) /\ Iterates(f, T, H(T))
    BY <1>1, <2>1
  <2>3. H(S)[T] = H(T)[T]
    BY <2>1, <2>2, OneIteration
  <2> QED
    BY <2>3 DEF T
<1>4. SumFunctionOnSet(f, S \ {One(S)}) = H(S \ {One(S)})[S \ {One(S)}]
  BY <1>1
<1> QED
  BY <1>2, <1>3, <1>4

(* There are iterations over every finite set. *)
LEMMA SomeIteration ==
  ASSUME NEW f, NEW S, IsFiniteSet(S)
  PROVE  \A T \in SUBSET S : \E h : Iterates(f, T, h)
<1> DEFINE P == {T \in SUBSET S : \E h : Iterates(f, T, h)}
           sum(T) == SumFunctionOnSet(f, T)
<1>1. ASSUME NEW T \in SUBSET S, \A U \in SUBSET T : U # T => U \in P
      PROVE  T \in P
  <2>1. ASSUME NEW U \in SUBSET T, U # T
        PROVE  sum(U) = IF U = {} THEN 0 ELSE f[One(U)] + sum(U \ {One(U)})
    <3>1. IsFiniteSet(U)
      BY FS_Subset
    <3>2. \A V \in SUBSET U : \E h : Iterates(f, V, h)
      <4>1. \A V \in SUBSET U : V \in SUBSET T /\ V # T
        BY <2>1
      <4> QED
        BY <1>1, <4>1
    <3> QED
      BY <3>1, <3>2, SumOfIteration
  <2> HIDE DEF sum
  <2> DEFINE h == [U \in SUBSET T |-> IF U = {} THEN 0 ELSE f[One(U)] + sum(U \ {One(U)})]
             g == [U \in SUBSET T |-> IF U = {} THEN 0 ELSE f[One(U)] + h[U \ {One(U)}]]
  <2>2. \A U \in SUBSET T : U # T => h[U] = sum(U)
    BY <2>1
  <2>3. \A U \in SUBSET T : U # {} => h[U \ {One(U)}] = sum(U \ {One(U)})
    <3>1. \A U \in SUBSET T : U # {} => U \ {One(U)} \in SUBSET T /\ U \ {One(U)} # T
      BY OneIn
    <3> HIDE DEF h
    <3> QED
      BY <2>2, <3>1
  <2>4. h = g
    <3>1. \A U \in SUBSET T : (IF U = {} THEN 0 ELSE f[One(U)] + sum(U \ {One(U)})) =
                              (IF U = {} THEN 0 ELSE f[One(U)] + h[U \ {One(U)}])
      <4> HIDE DEF h
      <4> QED
        BY <2>3
    <3> QED
      BY <3>1, Zenon
  <2>5. Iterates(f, T, h)
    BY <2>4 DEF Iterates
  <2> QED
    BY <2>5
<1>2. \A T \in SUBSET S : T \in P
  <2> HIDE DEF P
  <2> QED
    BY <1>1, SetInduction
<1> QED
  BY <1>2

(* A sum is one term and the sum of the others. *)
LEMMA SumOne ==
  ASSUME NEW f, NEW S, IsFiniteSet(S)
  PROVE  SumFunctionOnSet(f, S) =
           IF S = {} THEN 0 ELSE f[One(S)] + SumFunctionOnSet(f, S \ {One(S)})
BY SomeIteration, SumOfIteration

(* The sum of no terms is 0. *)
LEMMA SumOfNone == \A f : SumFunctionOnSet(f, {}) = 0
BY SumOne, FS_EmptySet

(* A sum of whole numbers is a whole number. *)
LEMMA SumType ==
  ASSUME NEW f, NEW S, IsFiniteSet(S), \A x \in S : f[x] \in Int
  PROVE  SumFunctionOnSet(f, S) \in Int
<1> DEFINE sum(T) == SumFunctionOnSet(f, T)
           P == {T \in SUBSET S : sum(T) \in Int}
<1>1. ASSUME NEW T \in SUBSET S, \A U \in SUBSET T : U # T => U \in P
      PROVE  T \in P
  <2>0. IsFiniteSet(T)
    BY FS_Subset
  <2>1. sum(T) = IF T = {} THEN 0 ELSE f[One(T)] + sum(T \ {One(T)})
    BY <2>0, SumOne
  <2> HIDE DEF sum
  <2>2. T # {} => sum(T \ {One(T)}) \in Int /\ One(T) \in S
    BY <1>1, OneIn
  <2> QED
    BY <2>1, <2>2
<1>2. \A T \in SUBSET S : T \in P
  <2> HIDE DEF P
  <2> QED
    BY <1>1, SetInduction
<1> QED
  BY <1>2

(* A sum may be begun with any of its terms. *)
LEMMA SumRemove ==
  ASSUME NEW f, NEW S, IsFiniteSet(S), \A x \in S : f[x] \in Int, NEW k \in S
  PROVE  SumFunctionOnSet(f, S) = f[k] + SumFunctionOnSet(f, S \ {k})
<1> DEFINE sum(T) == SumFunctionOnSet(f, T)
           P == {T \in SUBSET S : \A x \in T : sum(T) = f[x] + sum(T \ {x})}
<1>0. \A T \in SUBSET S : /\ IsFiniteSet(T) /\ sum(T) \in Int
                          /\ sum(T) = IF T = {} THEN 0 ELSE f[One(T)] + sum(T \ {One(T)})
  BY FS_Subset, SumType, SumOne
<1> HIDE DEF sum
<1>1. ASSUME NEW T \in SUBSET S, \A U \in SUBSET T : U # T => U \in P
      PROVE  T \in P
  <2> SUFFICES ASSUME NEW x \in T PROVE sum(T) = f[x] + sum(T \ {x})
    OBVIOUS
  <2>0. PICK c \in T : c = One(T)
    BY OneIn
  <2>1. sum(T) = f[c] + sum(T \ {c})
    BY <1>0, <2>0
  <2>2. CASE x = c
    BY <2>1, <2>2
  <2>3. CASE x # c
    <3>1. T \ {c} \in P /\ T \ {x} \in P
      BY <1>1
    <3>2. sum(T \ {c}) = f[x] + sum((T \ {c}) \ {x}) /\ sum(T \ {x}) = f[c] + sum((T \ {x}) \ {c})
      BY <2>3, <3>1
    <3>3. (T \ {c}) \ {x} = (T \ {x}) \ {c}
      OBVIOUS
    <3>4. PICK r \in Int : r = sum((T \ {x}) \ {c})
      BY <1>0
    <3>5. PICK a \in Int, b \in Int : a = f[c] /\ b = f[x]
      OBVIOUS
    <3>6. sum(T) = a + (b + r) /\ sum(T \ {x}) = a + r
      BY <2>1, <3>2, <3>3, <3>4, <3>5
    <3>7. a + (b + r) = b + (a + r)
      OBVIOUS
    <3> QED
      BY <3>5, <3>6, <3>7
  <2> QED
    BY <2>2, <2>3
<1>2. \A T \in SUBSET S : T \in P
  <2>1. IsFiniteSet(S)
    OBVIOUS
  <2> HIDE DEF P
  <2> QED
    BY <1>1, <2>1, SetInduction
<1>3. S \in P
  BY <1>2
<1> QED
  BY <1>3 DEF sum

(* Equal terms have equal sums. *)
LEMMA SumEqual ==
  ASSUME NEW f, NEW g, NEW S, IsFiniteSet(S), \A x \in S : f[x] = g[x]
  PROVE  SumFunctionOnSet(f, S) = SumFunctionOnSet(g, S)
<1> DEFINE sum(h, T) == SumFunctionOnSet(h, T)
           P == {T \in SUBSET S : sum(f, T) = sum(g, T)}
<1>0. \A h : \A T \in SUBSET S :
        sum(h, T) = IF T = {} THEN 0 ELSE h[One(T)] + sum(h, T \ {One(T)})
  BY FS_Subset, SumOne
<1> HIDE DEF sum
<1>1. ASSUME NEW T \in SUBSET S, \A U \in SUBSET T : U # T => U \in P
      PROVE  T \in P
  <2>1. T # {} => T \ {One(T)} \in P /\ One(T) \in S
    BY <1>1, OneIn
  <2> QED
    BY <1>0, <2>1
<1>2. \A T \in SUBSET S : T \in P
  <2> HIDE DEF P
  <2> QED
    BY <1>1, SetInduction
<1> QED
  BY <1>2 DEF sum

(* Terms that are 0 may be left out. *)
LEMMA SumZeros ==
  ASSUME NEW f, NEW S, IsFiniteSet(S), \A x \in S : f[x] \in Int,
         NEW R \in SUBSET S, \A x \in S \ R : f[x] = 0
  PROVE  SumFunctionOnSet(f, S) = SumFunctionOnSet(f, R)
<1> DEFINE sum(T) == SumFunctionOnSet(f, T)
           P == {T \in SUBSET S : sum(T) = sum(T \cap R)}
<1>0. \A T \in SUBSET S : /\ IsFiniteSet(T) /\ sum(T) \in Int
                          /\ \A x \in T : sum(T) = f[x] + sum(T \ {x})
  BY FS_Subset, SumType, SumRemove
<1> HIDE DEF sum
<1>1. ASSUME NEW T \in SUBSET S, \A U \in SUBSET T : U # T => U \in P
      PROVE  T \in P
  <2>1. CASE T = {}
    <3>1. T \cap R = T
      BY <2>1
    <3> QED
      BY <3>1
  <2>2. CASE T # {}
    <3>1. PICK x \in T : TRUE
      BY <2>2
    <3>2. T \ {x} \in P
      BY <1>1
    <3>3. sum(T) = f[x] + sum((T \ {x}) \cap R)
      BY <1>0, <3>2
    <3>4. CASE x \in R
      <4>1. (T \ {x}) \cap R = (T \cap R) \ {x} /\ x \in T \cap R /\ T \cap R \in SUBSET S
        BY <3>4
      <4>2. sum(T \cap R) = f[x] + sum((T \cap R) \ {x})
        BY <1>0, <4>1
      <4>3. sum(T) = sum(T \cap R)
        BY <3>3, <4>1, <4>2
      <4> QED
        BY <4>3
    <3>5. CASE x \notin R
      <4>1. (T \ {x}) \cap R = T \cap R /\ f[x] = 0 /\ T \cap R \in SUBSET S
        BY <3>5
      <4>2. PICK r \in Int : r = sum(T \cap R)
        BY <1>0, <4>1
      <4>3. sum(T) = 0 + r
        BY <3>3, <4>1, <4>2
      <4>4. sum(T) = sum(T \cap R)
        BY <4>2, <4>3
      <4> QED
        BY <4>4
    <3> QED
      BY <3>4, <3>5
  <2> QED
    BY <2>1, <2>2
<1>2. \A T \in SUBSET S : T \in P
  <2>1. IsFiniteSet(S)
    OBVIOUS
  <2> HIDE DEF P
  <2> QED
    BY <1>1, <2>1, SetInduction
<1>3. sum(S) = sum(S \cap R) /\ S \cap R = R
  BY <1>2
<1> QED
  BY <1>3 DEF sum

-----------------------------------------------------------------------------
(* Bracket tables.                                                         *)

(* A bracket as the YAML gives it. *)
Bracket == [lower : Nat \cup {NotNumeric}, upper : Nat \cup {NoUpper, NotNumeric}, rate : Int]

(* What _validate_bracket_table_rule asks of the table of one status. *)
Loads(brackets) == /\ brackets \in Seq(Bracket)
                   /\ \A i \in DOMAIN brackets : BracketAccepted(brackets, i)

(* What the walk takes of an income in a bracket it reaches. *)
Part(b, income) == Max({0, InBracket(b, income)})

(* The dollar is in the bracket. *)
Holds(b, dollar) == b.lower <= dollar /\ (b.upper # NoUpper => dollar < b.upper)

(* What the loader has checked of each bracket of a table that loads. *)
LEMMA LoadedTypes ==
  ASSUME NEW brackets, Loads(brackets)
  PROVE  \A i \in DOMAIN brackets :
           /\ brackets[i].lower \in Nat /\ brackets[i].rate \in Int
           /\ \/ brackets[i].upper = NoUpper /\ i = Len(brackets)
              \/ /\ brackets[i].upper \in Nat /\ brackets[i].upper # NoUpper
                 /\ brackets[i].lower < brackets[i].upper
<1>1. \A i \in DOMAIN brackets : BracketAccepted(brackets, i)
  BY DEF Loads
<1>2. \A i \in DOMAIN brackets : brackets[i] \in Bracket
  BY DEF Loads
<1> QED
  BY <1>1, <1>2 DEF BracketAccepted, Bracket, NoUpper, NotNumeric

(* Of two brackets of a table that loads the earlier one ends before the later
   one begins: the loader compares neighbours only (rule_loader.py:379). *)
LEMMA Separate ==
  ASSUME NEW brackets, Loads(brackets)
  PROVE  \A i, j \in DOMAIN brackets :
           i < j => /\ brackets[i].upper \in Nat
                    /\ brackets[i].upper <= brackets[j].lower
<1>0. brackets \in Seq(Bracket) /\ Len(brackets) \in Nat /\ DOMAIN brackets = 1..Len(brackets)
  BY DEF Loads
<1> SUFFICES ASSUME NEW i \in DOMAIN brackets, NEW m \in DOMAIN brackets, i < m
             PROVE  brackets[i].upper \in Nat /\ brackets[i].upper <= brackets[m].lower
  OBVIOUS
<1>1. PICK u : u = brackets[i].upper
  OBVIOUS
<1>2. u \in Nat
  <2>1. i # Len(brackets)
    BY <1>0
  <2> QED
    BY <1>1, <2>1, LoadedTypes
<1> DEFINE Wrong == {j \in DOMAIN brackets : i < j /\ ~ (u <= brackets[j].lower)}
<1>3. Wrong = {}
  <2> SUFFICES ASSUME Wrong # {} PROVE FALSE
    OBVIOUS
  <2>1. PICK j \in Wrong : \A k \in Wrong : j <= k
    <3>1. Wrong \in SUBSET Nat
      BY <1>0
    <3> HIDE DEF Wrong
    <3> QED
      BY <3>1, LeastNat
  <2>2. /\ j \in Nat /\ j - 1 \in DOMAIN brackets /\ j \in DOMAIN brackets
        /\ j > 1 /\ i <= j - 1 /\ i \in Nat
    BY <1>0
  <2>3. brackets[j].lower \in Nat /\ brackets[j - 1].lower \in Nat
    BY <2>2, LoadedTypes
  <2>4. brackets[j].lower >= brackets[j - 1].upper
    BY <2>2 DEF Loads, BracketAccepted
  <2>5. brackets[j - 1].upper \in Nat /\ brackets[j - 1].lower < brackets[j - 1].upper
    <3>1. j - 1 # Len(brackets)
      BY <1>0, <2>2
    <3> QED
      BY <2>2, <3>1, LoadedTypes
  <2>6. u <= brackets[j - 1].upper
    <3>1. CASE i = j - 1
      BY <1>1, <1>2, <3>1
    <3>2. CASE i < j - 1
      <4>1. j - 1 \notin Wrong
        BY <2>1, <2>2
      <4>2. u <= brackets[j - 1].lower
        BY <2>2, <3>2, <4>1
      <4> QED
        BY <1>2, <2>3, <2>5, <4>2
    <3> QED
      BY <2>2, <3>1, <3>2
  <2>7. u <= brackets[j].lower
    BY <1>2, <2>3, <2>4, <2>5, <2>6
  <2> QED
    BY <2>7
<1> QED
  BY <1>1, <1>2, <1>3

(* The larger of 0 and a number. *)
LEMMA MaxOfTwo == \A a \in Int : Max({0, a}) = IF a < 0 THEN 0 ELSE a
<1> TAKE a \in Int
<1> DEFINE top == IF a < 0 THEN 0 ELSE a
<1>1. top \in {0, a} /\ \A y \in {0, a} : top >= y
  OBVIOUS
<1>2. \A x, z \in {0, a} : (\A y \in {0, a} : x >= y) /\ (\A y \in {0, a} : z >= y) => x = z
  OBVIOUS
<1> QED
  BY <1>1, <1>2 DEF Max

(* One dollar more adds one to the part in the bracket that holds it, and
   nothing to the part in any other. *)
LEMMA OneDollar ==
  ASSUME NEW brackets, Loads(brackets), NEW i \in DOMAIN brackets, NEW income \in Nat
  PROVE  /\ Part(brackets[i], income) \in Int
         /\ Part(brackets[i], income + 1) =
              IF Holds(brackets[i], income) THEN Part(brackets[i], income) + 1
                                            ELSE Part(brackets[i], income)
         /\ Part(brackets[i], 0) = 0
         /\ income <= brackets[i].lower => Part(brackets[i], income) = 0
<1> DEFINE b == brackets[i]
<1>1. /\ b.lower \in Nat
      /\ \/ b.upper = NoUpper
         \/ b.upper \in Nat /\ b.upper # NoUpper /\ b.lower < b.upper
  BY LoadedTypes
<1> HIDE DEF b
<1>2. \A x \in Nat : InBracket(b, x) \in Int
  BY <1>1 DEF InBracket
<1>3. \A x \in Nat : Part(b, x) = IF InBracket(b, x) < 0 THEN 0 ELSE InBracket(b, x)
  BY <1>2, MaxOfTwo DEF Part
<1>4. CASE b.upper = NoUpper
  BY <1>1, <1>3, <1>4 DEF InBracket, Holds, b
<1>5. CASE b.upper \in Nat /\ b.upper # NoUpper /\ b.lower < b.upper
  BY <1>1, <1>3, <1>5 DEF InBracket, Holds, b
<1> QED
  BY <1>1, <1>4, <1>5

(* No dollar is in two brackets. *)
LEMMA OneHolder ==
  ASSUME NEW brackets, Loads(brackets), NEW dollar \in Nat,
         NEW i \in DOMAIN brackets, NEW j \in DOMAIN brackets,
         Holds(brackets[i], dollar), Holds(brackets[j], dollar)
  PROVE  i = j
<1>1. i \in Nat /\ j \in Nat
  BY DEF Loads
<1>2. \A k, l \in DOMAIN brackets :
        k < l /\ Holds(brackets[k], dollar) /\ Holds(brackets[l], dollar) => FALSE
  BY Separate, LoadedTypes DEF Holds, NoUpper
<1> QED
  BY <1>1, <1>2

-----------------------------------------------------------------------------
(* What each bracket contributes to the tax, whether the walk reaches it or not. *)
Terms(brackets, income) ==
  [i \in DOMAIN brackets |-> Part(brackets[i], income) * brackets[i].rate]

(* The terms of the tax are whole numbers. *)
LEMMA TermsType ==
  ASSUME NEW brackets, Loads(brackets), NEW income \in Nat
  PROVE  /\ IsFiniteSet(DOMAIN brackets)
         /\ \A i \in DOMAIN brackets : Terms(brackets, income)[i] \in Int
<1>1. IsFiniteSet(DOMAIN brackets)
  <2>1. Len(brackets) \in Nat /\ DOMAIN brackets = 1..Len(brackets)
    BY DEF Loads
  <2> QED
    BY <2>1, FS_Interval
<1>2. ASSUME NEW i \in DOMAIN brackets PROVE Terms(brackets, income)[i] \in Int
  <2>1. PICK p \in Int : p = Part(brackets[i], income)
    BY OneDollar
  <2>2. PICK r \in Int : r = brackets[i].rate
    BY LoadedTypes
  <2>3. p * r \in Int
    OBVIOUS
  <2> QED
    BY <2>1, <2>2, <2>3 DEF Terms
<1> QED
  BY <1>1, <1>2

(* The brackets at which the walk stops would add nothing: the tax is the sum
   over all brackets (calculator.py:732-742). *)
LEMMA WalkIsSum ==
  ASSUME NEW tables, NEW status \in DOMAIN tables, NEW income \in Nat, Loads(tables[status])
  PROVE  _eval_bracket_table(tables, status, income) =
           Got(SumFunctionOnSet(Terms(tables[status], income), DOMAIN tables[status]))
<1> DEFINE brackets == tables[status]
           R == Reached(brackets, income)
           walked == [i \in R |-> Max({0, InBracket(brackets[i], income)}) * brackets[i].rate]
<1>1. _eval_bracket_table(tables, status, income) = Got(SumFunctionOnSet(walked, R))
  BY DEF _eval_bracket_table, SumFunction
<1>2. R \in SUBSET DOMAIN brackets /\ IsFiniteSet(R)
  <2>1. R \in SUBSET DOMAIN brackets
    BY DEF Reached
  <2> QED
    BY <2>1, TermsType, FS_Subset
<1>3. \A i \in R : walked[i] = Terms(brackets, income)[i]
  BY <1>2 DEF Terms, Part
<1>4. SumFunctionOnSet(walked, R) = SumFunctionOnSet(Terms(brackets, income), R)
  <2> HIDE DEF walked, R
  <2> QED
    BY <1>2, <1>3, SumEqual
<1>5. \A i \in DOMAIN brackets \ R : Terms(brackets, income)[i] = 0
  <2> SUFFICES ASSUME NEW i \in DOMAIN brackets \ R PROVE Terms(brackets, income)[i] = 0
    OBVIOUS
  <2>0. Len(brackets) \in Nat /\ DOMAIN brackets = 1..Len(brackets)
    BY DEF Loads
  <2>1. PICK j \in 1..i : ~ (income > brackets[j].lower)
    BY DEF Reached
  <2>2. i \in Nat /\ j \in DOMAIN brackets /\ j <= i
    BY <2>0
  <2>3. brackets[j].lower \in Nat /\ brackets[i].lower \in Nat
    BY <2>2, LoadedTypes
  <2>4. brackets[j].lower <= brackets[i].lower
    <3>1. CASE j = i
      BY <2>3, <3>1
    <3>2. CASE j < i
      <4>1. brackets[j].upper \in Nat /\ brackets[j].upper <= brackets[i].lower
        BY <2>2, <3>2, Separate
      <4>2. brackets[j].lower < brackets[j].upper
        BY <2>2, <4>1, LoadedTypes DEF NoUpper
      <4> QED
        BY <2>3, <4>1, <4>2
    <3> QED
      BY <2>2, <3>1, <3>2
  <2>5. income <= brackets[i].lower
    BY <2>1, <2>3, <2>4
  <2>6. Part(brackets[i], income) = 0
    BY <2>5, OneDollar
  <2>7. PICK r \in Int : r = brackets[i].rate
    BY LoadedTypes
  <2>8. 0 * r = 0
    OBVIOUS
  <2> QED
    BY <2>6, <2>7, <2>8 DEF Terms
<1>6. SumFunctionOnSet(Terms(brackets, income), DOMAIN brackets) =
        SumFunctionOnSet(Terms(brackets, income), R)
  <2> HIDE DEF R
  <2> QED
    BY <1>2, <1>5, TermsType, SumZeros
<1> QED
  BY <1>1, <1>4, <1>6

(* One dollar more is taxed at the rate of its bracket. *)
LEMMA NextDollar ==
  ASSUME NEW brackets, Loads(brackets), NEW income \in Nat
  PROVE  SumFunctionOnSet(Terms(brackets, income + 1), DOMAIN brackets) =
           SumFunctionOnSet(Terms(brackets, income), DOMAIN brackets) + RateOf(brackets, income)
<1> DEFINE S == DOMAIN brackets
           before == Terms(brackets, income)
           after  == Terms(brackets, income + 1)
           held == {i \in S : Holds(brackets[i], income)}
<1>1. IsFiniteSet(S) /\ \A i \in S : before[i] \in Int /\ after[i] \in Int
  BY TermsType
<1>2. RateOf(brackets, income) = IF held = {} THEN 0 ELSE brackets[CHOOSE i \in held : TRUE].rate
  BY DEF RateOf, Holds
<1>3. \A i \in S \ held : after[i] = before[i]
  BY OneDollar DEF Terms
<1>4. SumFunctionOnSet(before, S) \in Int
  <2> HIDE DEF before, S
  <2> QED
    BY <1>1, SumType
<1>5. CASE held = {}
  <2>1. \A i \in S : after[i] = before[i]
    BY <1>3, <1>5
  <2>2. SumFunctionOnSet(after, S) = SumFunctionOnSet(before, S)
    <3> HIDE DEF before, after, S
    <3> QED
      BY <1>1, <2>1, SumEqual
  <2>3. RateOf(brackets, income) = 0
    BY <1>2, <1>5
  <2> HIDE DEF before, after, S
  <2>4. SumFunctionOnSet(before, S) = SumFunctionOnSet(before, S) + 0
    BY <1>4
  <2> QED
    BY <2>2, <2>3, <2>4 DEF before, after, S
<1>6. CASE held # {}
  <2>1. PICK k \in held : k = CHOOSE i \in held : TRUE
    BY <1>6
  <2>2. RateOf(brackets, income) = brackets[k].rate
    BY <1>2, <1>6, <2>1
  <2>3. \A i \in S \ {k} : after[i] = before[i]
    BY <1>3, OneHolder
  <2>4. after[k] = before[k] + brackets[k].rate
    <3>1. PICK p \in Int : p = Part(brackets[k], income)
      BY OneDollar
    <3>2. Part(brackets[k], income + 1) = p + 1
      BY <3>1, OneDollar
    <3>3. PICK r \in Int : r = brackets[k].rate
      BY LoadedTypes
    <3>4. (p + 1) * r = p * r + r
      BY SMT
    <3> QED
      BY <3>1, <3>2, <3>3, <3>4 DEF Terms
  <2>5. k \in S /\ IsFiniteSet(S \ {k})
    BY <1>1, FS_Subset
  <2> HIDE DEF before, after, S, held
  <2>6. SumFunctionOnSet(after, S) = after[k] + SumFunctionOnSet(after, S \ {k})
    BY <1>1, <2>5, SumRemove
  <2>7. SumFunctionOnSet(before, S) = before[k] + SumFunctionOnSet(before, S \ {k})
    BY <1>1, <2>5, SumRemove
  <2>8. SumFunctionOnSet(after, S \ {k}) = SumFunctionOnSet(before, S \ {k})
    BY <2>3, <2>5, SumEqual
  <2>9. PICK rest \in Int : rest = SumFunctionOnSet(before, S \ {k})
    <3>1. \A i \in S \ {k} : before[i] \in Int
      BY <1>1
    <3> QED
      BY <2>5, <3>1, SumType
  <2>10. PICK a \in Int : a = before[k]
    BY <1>1, <2>5
  <2>11. PICK r \in Int : r = brackets[k].rate
    BY <2>5, LoadedTypes DEF S
  <2>12. (a + r) + rest = (a + rest) + r
    OBVIOUS
  <2>13. SumFunctionOnSet(after, S) = SumFunctionOnSet(before, S) + RateOf(brackets, income)
    BY <2>2, <2>4, <2>6, <2>7, <2>8, <2>9, <2>10, <2>11, <2>12
  <2> QED
    BY <2>13 DEF before, after, S
<1> QED
  BY <1>5, <1>6

(* The rate of a dollar is a whole number. *)
LEMMA RateType ==
  ASSUME NEW brackets, Loads(brackets), NEW dollar
  PROVE  RateOf(brackets, dollar) \in Int
<1> DEFINE held == {i \in DOMAIN brackets : Holds(brackets[i], dollar)}
<1>1. RateOf(brackets, dollar) = IF held = {} THEN 0 ELSE brackets[CHOOSE i \in held : TRUE].rate
  BY DEF RateOf, Holds
<1>2. held # {} => (CHOOSE i \in held : TRUE) \in DOMAIN brackets
  OBVIOUS
<1> HIDE DEF held
<1> QED
  BY <1>1, <1>2, LoadedTypes

(* One dollar more, counted dollar by dollar. *)
LEMMA NextCount ==
  ASSUME NEW brackets, Loads(brackets), NEW income \in Nat
  PROVE  DollarByDollar(brackets, income + 1) =
           DollarByDollar(brackets, income) + RateOf(brackets, income)
<1> DEFINE few  == [d \in 0..(income - 1) |-> RateOf(brackets, d)]
           many == [d \in 0..income |-> RateOf(brackets, d)]
           S == 0..(income - 1)
           T == 0..income
<1>1. DollarByDollar(brackets, income) = SumFunctionOnSet(few, S)
  BY DEF DollarByDollar, SumFunction
<1>2. DollarByDollar(brackets, income + 1) = SumFunctionOnSet(many, T)
  <2>1. (income + 1) - 1 = income
    OBVIOUS
  <2>2. DollarByDollar(brackets, income + 1) =
          SumFunction([d \in 0..((income + 1) - 1) |-> RateOf(brackets, d)])
    BY DEF DollarByDollar
  <2>3. DollarByDollar(brackets, income + 1) = SumFunction(many)
    BY <2>1, <2>2
  <2> QED
    BY <2>3 DEF SumFunction
<1>3. S = T \ {income} /\ income \in T
  OBVIOUS
<1>4. IsFiniteSet(T) /\ IsFiniteSet(S)
  BY FS_Interval
<1>5. \A d \in T : many[d] \in Int
  BY RateType
<1>6. many[income] = RateOf(brackets, income)
  OBVIOUS
<1>7. \A d \in S : many[d] = few[d]
  BY <1>3
<1> HIDE DEF S, T, many, few
<1>8. SumFunctionOnSet(many, T) = many[income] + SumFunctionOnSet(many, S)
  <2>1. \A k \in T : SumFunctionOnSet(many, T) = many[k] + SumFunctionOnSet(many, T \ {k})
    BY <1>4, <1>5, SumRemove
  <2> QED
    BY <1>3, <2>1
<1>9. SumFunctionOnSet(many, S) = SumFunctionOnSet(few, S)
  BY <1>4, <1>7, SumEqual
<1>10. PICK a \in Int : a = SumFunctionOnSet(few, S)
  <2>1. \A d \in S : few[d] \in Int
    BY <1>3, <1>5, <1>7
  <2> QED
    BY <1>4, <2>1, SumType
<1>11. PICK r \in Int : r = RateOf(brackets, income)
  BY RateType
<1>12. r + a = a + r
  OBVIOUS
<1> QED
  BY <1>1, <1>2, <1>6, <1>8, <1>9, <1>10, <1>11, <1>12

(* The sum over the brackets is the sum over the dollars. *)
LEMMA TaxOfDollars ==
  ASSUME NEW brackets, Loads(brackets), NEW income \in Nat
  PROVE  SumFunctionOnSet(Terms(brackets, income), DOMAIN brackets) =
           DollarByDollar(brackets, income)
<1> DEFINE sum(x) == SumFunctionOnSet(Terms(brackets, x), DOMAIN brackets)
           count(x) == DollarByDollar(brackets, x)
<1>1. sum(0) = count(0)
  <2>1. \A i \in DOMAIN brackets : Terms(brackets, 0)[i] = 0
    <3> SUFFICES ASSUME NEW i \in DOMAIN brackets PROVE Terms(brackets, 0)[i] = 0
      OBVIOUS
    <3>1. Part(brackets[i], 0) = 0
      BY OneDollar
    <3>2. PICK r \in Int : r = brackets[i].rate
      BY LoadedTypes
    <3>3. 0 * r = 0
      OBVIOUS
    <3> QED
      BY <3>1, <3>2, <3>3 DEF Terms
  <2>2. sum(0) = SumFunctionOnSet(Terms(brackets, 0), {})
    <3>1. IsFiniteSet(DOMAIN brackets) /\ \A i \in DOMAIN brackets : Terms(brackets, 0)[i] \in Int
      BY <2>1, TermsType
    <3> QED
      BY <2>1, <3>1, SumZeros
  <2>3. 0..(0 - 1) = {}
    OBVIOUS
  <2>4. DOMAIN [d \in 0..(0 - 1) |-> RateOf(brackets, d)] = {}
    BY <2>3
  <2>5. count(0) = 0
    <3>1. \A f : DOMAIN f = {} => SumFunction(f) = 0
      BY SumOfNone DEF SumFunction
    <3> QED
      BY <2>4, <3>1 DEF DollarByDollar
  <2> QED
    BY <2>2, <2>5, SumOfNone
<1>2. \A x \in Nat : sum(x + 1) = sum(x) + RateOf(brackets, x)
  BY NextDollar
<1>3. \A x \in Nat : count(x + 1) = count(x) + RateOf(brackets, x)
  BY NextCount
<1> HIDE DEF sum, count
<1> DEFINE Wrong == {x \in Nat : sum(x) # count(x)}
<1>4. Wrong = {}
  <2> SUFFICES ASSUME Wrong # {} PROVE FALSE
    OBVIOUS
  <2>1. PICK x \in Wrong : \A y \in Wrong : x <= y
    <3>1. Wrong \in SUBSET Nat
      OBVIOUS
    <3> HIDE DEF Wrong
    <3> QED
      BY <3>1, LeastNat
  <2>2. x \in Nat /\ x # 0 /\ sum(x) # count(x)
    BY <1>1
  <2>3. PICK y \in Nat : y + 1 = x
    <3>1. x - 1 \in Nat /\ (x - 1) + 1 = x
      BY <2>2
    <3> QED
      BY <3>1
  <2>4. y \notin Wrong
    <3> HIDE DEF Wrong
    <3> QED
      BY <2>1, <2>3
  <2>5. sum(y) = count(y)
    BY <2>4
  <2> QED
    BY <1>2, <1>3, <2>2, <2>3, <2>5
<1>5. sum(income) = count(income)
  BY <1>4
<1> QED
  BY <1>5 DEF sum, count

-----------------------------------------------------------------------------
(* A table whose brackets are apart and in order loads. *)
LEMMA ApartLoads ==
  ASSUME NEW brackets \in Seq(Bracket), Apart(brackets)
  PROVE  \A i \in DOMAIN brackets : BracketAccepted(brackets, i)
<1>1. DOMAIN brackets = 1..Len(brackets) /\ Len(brackets) \in Nat
  OBVIOUS
<1> SUFFICES ASSUME NEW i \in DOMAIN brackets PROVE BracketAccepted(brackets, i)
  OBVIOUS
<1>2. \A j \in DOMAIN brackets : brackets[j] \in Bracket
  OBVIOUS
<1>3. NotNumeric \notin {brackets[i].lower, brackets[i].upper, brackets[i].rate}
  BY DEF Apart
<1>4. brackets[i].upper = NoUpper => i = Len(brackets)
  BY <1>2 DEF Apart, Bracket, NoUpper, NotNumeric
<1>5. brackets[i].upper # NoUpper => brackets[i].upper > brackets[i].lower
  BY <1>2 DEF Apart, Bracket, NoUpper, NotNumeric
<1>6. i > 1 => brackets[i].lower >= brackets[i - 1].upper
  <2> SUFFICES ASSUME i > 1 PROVE brackets[i].lower >= brackets[i - 1].upper
    OBVIOUS
  <2>1. i - 1 \in 1..(i - 1) /\ i - 1 \in DOMAIN brackets
    BY <1>1
  <2>2. brackets[i - 1].upper <= brackets[i].lower
    BY <2>1 DEF Apart
  <2> QED
    BY <1>2, <2>1, <2>2 DEF Bracket, NoUpper, NotNumeric
<1> QED
  BY <1>3, <1>4, <1>5, <1>6 DEF BracketAccepted

(* A table whose brackets are apart and in order loads, and the tax on any
   income by a table that loads is the sum over its dollars of the rate of the
   bracket each is in (_validate_bracket_table_rule, _eval_bracket_table).  The
   bounds of brackets are not negative, as incomes are; the rates may be. *)
THEOREM TaxIsMarginal ==
  ASSUME NEW Listed, NEW tables \in [Listed -> Seq(Bracket)], NEW status,
         NEW incomes \in SUBSET Nat
  PROVE  BracketsAreMarginal(tables, status, incomes)
<1>1. (DOMAIN tables # {} /\ \A s \in DOMAIN tables : tables[s] # <<>> /\ Apart(tables[s])) =>
         _validate_bracket_table_rule(tables)
  BY ApartLoads DEF _validate_bracket_table_rule
<1>2. ASSUME _validate_bracket_table_rule(tables), NEW income \in incomes
      PROVE  _eval_bracket_table(tables, status, income) =
               IF status \in DOMAIN tables
               THEN Got(DollarByDollar(tables[status], income)) ELSE Raises
  <2>1. CASE status \notin DOMAIN tables
    BY <2>1 DEF _eval_bracket_table
  <2>2. CASE status \in DOMAIN tables
    <3>1. Loads(tables[status])
      BY <1>2, <2>2 DEF Loads, _validate_bracket_table_rule
    <3>2. income \in Nat
      OBVIOUS
    <3> QED
      BY <2>2, <3>1, <3>2, WalkIsSum, TaxOfDollars
  <2> QED
    BY <2>1, <2>2
<1> QED
  BY <1>1, <1>2 DEF BracketsAreMarginal

-----------------------------------------------------------------------------
(* Matrices and constants: both are walked down key by key.                *)

IsWalk(node, texts, n, at) ==
    at = [i \in 0..n |-> IF i = 0 THEN Got(node) ELSE Step(at[i - 1], texts[i])]

(* The walk down a table is defined for texts of any length: the shortest ones
   for which it was not could be walked to the last but one. *)
LEMMA SomeWalk ==
  ASSUME NEW node, NEW texts, NEW m \in Nat
  PROVE  \E at : IsWalk(node, texts, m, at)
<1> DEFINE Lost == {n \in Nat : ~ \E at : IsWalk(node, texts, n, at)}
<1> SUFFICES ASSUME Lost # {} PROVE FALSE
  OBVIOUS
<1>1. PICK n \in Lost : \A y \in Lost : n <= y
  <2>1. Lost \in SUBSET Nat
    OBVIOUS
  <2> HIDE DEF Lost
  <2> QED
    BY <2>1, LeastNat
<1>2. n \in Nat /\ ~ \E at : IsWalk(node, texts, n, at)
  BY <1>1
<1>3. n # 0
  <2> DEFINE start == [i \in 0..0 |-> Got(node)]
  <2>1. start = [i \in 0..0 |-> IF i = 0 THEN Got(node) ELSE Step(start[i - 1], texts[i])]
    <3>1. \A i \in 0..0 : i = 0
      OBVIOUS
    <3> HIDE DEF Got
    <3> QED
      BY <3>1
  <2> HIDE DEF start
  <2>2. IsWalk(node, texts, 0, start)
    BY <2>1 DEF IsWalk
  <2> QED
    BY <1>2, <2>2
<1>4. PICK b : IsWalk(node, texts, n - 1, b)
  <2>1. n - 1 \in Nat /\ n - 1 \notin Lost
    <3> HIDE DEF Lost
    <3> QED
      BY <1>1, <1>2, <1>3
  <2> QED
    BY <2>1
<1> DEFINE last == Step(b[n - 1], texts[n])
           at == [i \in 0..n |-> IF i = n THEN last ELSE b[i]]
<1>5. \A i \in 0..(n - 1) : b[i] = IF i = 0 THEN Got(node) ELSE Step(b[i - 1], texts[i])
  <2> DEFINE value(i) == IF i = 0 THEN Got(node) ELSE Step(b[i - 1], texts[i])
  <2>1. b = [i \in 0..(n - 1) |-> value(i)]
    BY <1>4 DEF IsWalk
  <2> HIDE DEF value
  <2>2. \A i \in 0..(n - 1) : b[i] = value(i)
    BY <2>1
  <2> QED
    BY <2>2 DEF value
<1>6. ASSUME NEW i \in 0..n
      PROVE  at[i] = IF i = 0 THEN Got(node) ELSE Step(at[i - 1], texts[i])
  <2>1. CASE i = n
    <3>1. at[i] = last /\ n - 1 \in 0..n /\ n - 1 # n
      BY <1>2, <1>3, <2>1
    <3>2. at[i - 1] = b[n - 1]
      <4> HIDE DEF last
      <4> QED
        BY <2>1, <3>1
    <3> HIDE DEF at
    <3> QED
      BY <1>3, <2>1, <3>1, <3>2
  <2>2. CASE i # n
    <3>1. i \in 0..(n - 1) /\ at[i] = b[i]
      BY <1>2, <2>2
    <3>2. i # 0 => at[i - 1] = b[i - 1]
      <4> HIDE DEF last
      <4> QED
        BY <1>2, <2>2
    <3> HIDE DEF at
    <3> QED
      BY <1>5, <3>1, <3>2
  <2> QED
    BY <2>1, <2>2
<1>7. IsWalk(node, texts, n, at)
  <2> DEFINE value(i) == IF i = 0 THEN Got(node) ELSE Step(at[i - 1], texts[i])
  <2>1. \A i \in 0..n : at[i] = value(i)
    BY <1>6
  <2>2. at = [i \in 0..n |-> at[i]]
    <3> HIDE DEF last
    <3> QED
      OBVIOUS
  <2> HIDE DEF at, value
  <2>3. at = [i \in 0..n |-> value(i)]
    BY <2>1, <2>2
  <2> QED
    BY <2>3 DEF IsWalk, value
<1> QED
  BY <1>2, <1>7

(* A walk begins at its node and goes down one text at a time. *)
LEMMA WalkIs ==
  ASSUME NEW node, NEW texts, Len(texts) \in Nat
  PROVE  /\ Walk(node, texts)[0] = Got(node)
         /\ \A i \in 1..Len(texts) :
                Walk(node, texts)[i] = Step(Walk(node, texts)[i - 1], texts[i])
<1> DEFINE w == CHOOSE at : IsWalk(node, texts, Len(texts), at)
<1>1. IsWalk(node, texts, Len(texts), w)
  BY SomeWalk
<1>2. Walk(node, texts) = w
  BY DEF Walk, IsWalk
<1> HIDE DEF w
<1> DEFINE value(i) == IF i = 0 THEN Got(node) ELSE Step(w[i - 1], texts[i])
<1>3. w = [i \in 0..Len(texts) |-> value(i)]
  BY <1>1 DEF IsWalk
<1> HIDE DEF value
<1>4. \A i \in 0..Len(texts) : w[i] = value(i)
  BY <1>3
<1>5. w[0] = Got(node)
  <2>1. 0 \in 0..Len(texts)
    OBVIOUS
  <2> QED
    BY <1>4, <2>1 DEF value
<1>6. ASSUME NEW i \in 1..Len(texts) PROVE w[i] = Step(w[i - 1], texts[i])
  <2>1. i \in 0..Len(texts) /\ i # 0
    OBVIOUS
  <2> QED
    BY <1>4, <2>1 DEF value
<1> QED
  BY <1>2, <1>5, <1>6

(* A list of the values of a function on 1..n has n elements. *)
LEMMA LengthIs ==
  ASSUME NEW n \in Nat, NEW S, NEW f \in [1..n -> S]
  PROVE  Len(f) = n
<1>1. f \in Seq(S)
  BY SeqDef
<1> QED
  BY <1>1

(* What was found is no failure. *)
LEMMA GotIs == \A x : Got(x) \notin {Raises, TooShallow} /\ Got(x)[1] = x
<1>1. \A x : Len(<<x>>) = 1 /\ <<x>>[1] = x
  OBVIOUS
<1>2. Len(<<>>) = 0 /\ Len(<<"too", "shallow">>) = 2
  OBVIOUS
<1> QED
  BY <1>1, <1>2 DEF Got, Raises, TooShallow

(* One step down a mapping, and one after a failure. *)
LEMMA StepsAre ==
  /\ \A node, text : IsDict(node) /\ Key(text) \in DOMAIN node.sub =>
         Step(Got(node), text) = Got(node.sub[Key(text)])
  /\ \A node, text : IsDict(node) /\ Key(text) \notin DOMAIN node.sub =>
         Step(Got(node), text) = Raises
  /\ \A text : Step(Raises, text) = Raises
<1>1. \A text : Step(Raises, text) = Raises
  <2>1. Raises \in {Raises, TooShallow}
    OBVIOUS
  <2> HIDE DEF Raises
  <2> QED
    BY <2>1 DEF Step
<1>2. ASSUME NEW node, NEW text, IsDict(node)
      PROVE  Step(Got(node), text) = IF Key(text) \notin DOMAIN node.sub THEN Raises
                                                        ELSE Got(node.sub[Key(text)])
  <2>1. Got(node)[1] = node /\ Got(node) \notin {Raises, TooShallow}
    BY GotIs
  <2> HIDE DEF Got, Raises, TooShallow, Key, IsDict
  <2> QED
    BY <1>2, <2>1 DEF Step
<1> QED
  BY <1>1, <1>2

(* From a mapping a walk goes on to what is under its next text, or fails. *)
LEMMA WalkOn ==
  ASSUME NEW node, NEW texts, Len(texts) \in Nat, NEW i \in 1..Len(texts),
         NEW inner, IsDict(inner), Walk(node, texts)[i - 1] = Got(inner)
  PROVE  /\ Key(texts[i]) \in DOMAIN inner.sub =>
                Walk(node, texts)[i] = Got(inner.sub[Key(texts[i])])
         /\ Key(texts[i]) \notin DOMAIN inner.sub => Walk(node, texts)[i] = Raises
<1>1. Walk(node, texts)[i] = Step(Got(inner), texts[i])
  BY WalkIs
<1> QED
  BY <1>1, StepsAre

(* The end of a walk: a number, or the failure it met. *)
LEMMA WalkEnds ==
  ASSUME NEW node, NEW texts
  PROVE  /\ \A leaf : Walk(node, texts)[Len(texts)] = Got(leaf) /\ IsAmount(leaf) =>
                Descend(node, texts) = Got(leaf.leaf)
         /\ Walk(node, texts)[Len(texts)] = Raises => Descend(node, texts) = Raises
<1>1. ASSUME NEW leaf, Walk(node, texts)[Len(texts)] = Got(leaf), IsAmount(leaf)
      PROVE  Descend(node, texts) = Got(leaf.leaf)
  <2>1. Got(leaf)[1] = leaf /\ Got(leaf) \notin {Raises, TooShallow}
    BY GotIs
  <2> HIDE DEF Got, Raises, TooShallow, IsAmount
  <2> QED
    BY <1>1, <2>1 DEF Descend
<1>2. ASSUME Walk(node, texts)[Len(texts)] = Raises PROVE Descend(node, texts) = Raises
  <2>1. Raises \in {Raises, TooShallow}
    OBVIOUS
  <2> HIDE DEF Raises, TooShallow, IsAmount
  <2> QED
    BY <1>2, <2>1 DEF Descend
<1> QED
  BY <1>1, <1>2

(* Keys of a file: texts, quoted or not. *)
KeyType == [quoted : BOOLEAN, text : Seq(STRING)]

(* A quoted key is known by its text. *)
LEMMA QuotedKey == \A k \in KeyType : k.quoted => k = Key(k.text)
<1> SUFFICES ASSUME NEW k \in KeyType, k.quoted PROVE k = Key(k.text)
  OBVIOUS
<1>1. k = [quoted |-> k.quoted, text |-> k.text] /\ k.quoted \in BOOLEAN
  BY DEF KeyType
<1>2. k.quoted = TRUE
  BY <1>1
<1> QED
  BY <1>1, <1>2 DEF Key

(* The key of a text is quoted and has the text. *)
LEMMA KeyText == \A t : Key(t).text = t /\ Key(t).quoted
BY DEF Key

(* The nodes of a table at the first three depths. *)
LEMMA NodesAre ==
  ASSUME NEW table
  PROVE  LET below(S) == UNION {Range(node.sub) : node \in {n \in S : IsDict(n)}}
         IN  /\ NodesAt(table, 2)[0] = {table}
             /\ NodesAt(table, 2)[1] = below({table})
             /\ NodesAt(table, 2)[2] = below(below({table}))
<1> DEFINE below(S) == UNION {Range(node.sub) : node \in {n \in S : IsDict(n)}}
           IsNodes(at) == at = [d \in 0..2 |-> IF d = 0 THEN {table} ELSE below(at[d - 1])]
           some == [d \in 0..2 |-> IF d = 0 THEN {table} ELSE IF d = 1 THEN below({table})
                                   ELSE below(below({table}))]
           w == CHOOSE at : IsNodes(at)
<1>1. NodesAt(table, 2) = w
  BY DEF NodesAt
<1> HIDE DEF below
<1>2. IsNodes(some)
  <2>1. /\ some[0] = {table} /\ some[1] = below({table}) /\ some[2] = below(below({table}))
        /\ some = [d \in 0..2 |-> some[d]]
    OBVIOUS
  <2> HIDE DEF some
  <2>2. \A d \in 0..2 : some[d] = IF d = 0 THEN {table} ELSE below(some[d - 1])
    <3>1. \A d \in 0..2 : d = 0 \/ d = 1 \/ d = 2
      OBVIOUS
    <3> QED
      BY <2>1, <3>1
  <2> QED
    BY <2>1, <2>2
<1>3. IsNodes(w)
  <2> HIDE DEF IsNodes, some
  <2> QED
    BY <1>2
<1> HIDE DEF w
<1>4. w[0] = {table} /\ w[1] = below(w[0]) /\ w[2] = below(w[1])
  <2>1. \A d \in 0..2 : w[d] = IF d = 0 THEN {table} ELSE below(w[d - 1])
    BY <1>3
  <2> QED
    BY <2>1
<1> QED
  BY <1>1, <1>4 DEF below

(* What a matrix with two keys is when it loads. *)
LEMMA LoadedMatrix ==
  ASSUME NEW table, _validate_matrix_table(table, 2)
  PROVE  /\ IsDict(table) /\ \A r \in DOMAIN table.sub : r.quoted
         /\ \A r \in DOMAIN table.sub : IsDict(table.sub[r])
         /\ \A r \in DOMAIN table.sub : \A c \in DOMAIN table.sub[r].sub :
                c.quoted /\ IsAmount(table.sub[r].sub[c])
<1> DEFINE below(S) == UNION {Range(node.sub) : node \in {n \in S : IsDict(n)}}
           one == below({table})
<1>1. NodesAt(table, 2)[0] = {table} /\ NodesAt(table, 2)[1] = one /\ NodesAt(table, 2)[2] = below(one)
  BY NodesAre
<1> DEFINE Fine(node) == IsDict(node) /\ \A k \in DOMAIN node.sub : k.quoted
<1> HIDE DEF below
<1>2. /\ \A node \in {table} : Fine(node)
      /\ \A node \in one : Fine(node)
      /\ \A node \in below(one) : IsAmount(node)
  <2>1. 0 \in 0..(2 - 1) /\ 1 \in 0..(2 - 1)
    OBVIOUS
  <2>2. \A d \in 0..(2 - 1) : \A node \in NodesAt(table, 2)[d] : Fine(node)
    BY DEF _validate_matrix_table
  <2>3. \A node \in NodesAt(table, 2)[2] : IsAmount(node)
    BY DEF _validate_matrix_table
  <2> HIDE DEF Fine, one
  <2> QED
    BY <1>1, <2>1, <2>2, <2>3
<1>3. \A S : \A node \in S : IsDict(node) => \A k \in DOMAIN node.sub : node.sub[k] \in below(S)
  BY DEF below, Range
<1>4. IsDict(table) /\ \A r \in DOMAIN table.sub : table.sub[r] \in one
  BY <1>2, <1>3
<1>5. ASSUME NEW r \in DOMAIN table.sub
      PROVE  Fine(table.sub[r]) /\ \A c \in DOMAIN table.sub[r].sub : table.sub[r].sub[c] \in below(one)
  <2> HIDE DEF one
  <2> QED
    BY <1>2, <1>3, <1>4
<1> HIDE DEF one
<1> QED
  BY <1>2, <1>4, <1>5
(* Two lists of one element make a list of two. *)
LEMMA Joined == \A a, b : <<a>> \o <<b>> = <<a, b>>
<1> SUFFICES ASSUME NEW a, NEW b PROVE <<a>> \o <<b>> = <<a, b>>
  OBVIOUS
<1> DEFINE S == {a, b}
<1>1. <<a>> \in Seq(S) /\ <<b>> \in Seq(S) /\ <<a, b>> \in Seq(S)
  OBVIOUS
<1>2. /\ Len(<<a>> \o <<b>>) = 2 /\ (<<a>> \o <<b>>)[1] = a /\ (<<a>> \o <<b>>)[2] = b
      /\ <<a>> \o <<b>> \in Seq(S)
  BY <1>1
<1>3. Len(<<a, b>>) = 2 /\ <<a, b>>[1] = a /\ <<a, b>>[2] = b
  OBVIOUS
<1>4. \A i \in 1..2 : (<<a>> \o <<b>>)[i] = <<a, b>>[i]
  <2>1. \A i \in 1..2 : i = 1 \/ i = 2
    OBVIOUS
  <2> QED
    BY <1>2, <1>3, <2>1
<1> HIDE DEF S
<1> QED
  BY <1>1, <1>2, <1>3, <1>4, SeqEqual

(* A list of one element is known by it. *)
LEMMA OnlyOne == \A S : \A s \in Seq(S) : Len(s) = 1 => s = <<s[1]>>
<1> SUFFICES ASSUME NEW S, NEW s \in Seq(S), Len(s) = 1 PROVE s = <<s[1]>>
  OBVIOUS
<1>1. s[1] \in S /\ <<s[1]>> \in Seq(S) /\ Len(<<s[1]>>) = 1
  OBVIOUS
<1>2. \A i \in 1..1 : s[i] = <<s[1]>>[i]
  <2>1. \A i \in 1..1 : i = 1
    OBVIOUS
  <2> QED
    BY <2>1
<1> QED
  BY <1>1, <1>2, SeqEqual

(* The text a key is looked up by is the one text that it means. *)
LEMMA MeansOne ==
  ASSUME NEW spec, spec.kind \in {"filing_status", "ref"}, spec.value \in Nat,
         NEW status, NEW text
  PROVE  Means(text, spec, status) <=> text = _matrix_key_str(spec, status)
<1>1. CASE spec.kind = "filing_status"
  BY <1>1 DEF Means, _matrix_key_str
<1>2. CASE spec.kind # "filing_status"
  <2> DEFINE v == spec.value
             q == v \div 10
             t == v % 10
             Written(w, d) == <<Numeral(w)>> \o (IF d = 0 THEN <<>> ELSE <<Numeral(d)>>)
  <2>1. v \in Nat
    OBVIOUS
  <2> HIDE DEF v
  <2>2. q \in 0..v /\ t \in 0..9 /\ v = 10 * q + t
    BY <2>1
  <2>3. \A w \in 0..v, d \in 0..9 : v = 10 * w + d => w = q /\ d = t
    BY <2>1
  <2> HIDE DEF q, t
  <2>4. _matrix_key_str(spec, status) = Written(q, t)
    <3>1. CASE t = 0
      <4>1. _matrix_key_str(spec, status) = <<Numeral(q)>>
        BY <1>2, <3>1 DEF _matrix_key_str, v, q, t
      <4>2. Written(q, t) = <<Numeral(q)>>
        BY <3>1
      <4> QED
        BY <4>1, <4>2
    <3>2. CASE t # 0
      <4>1. _matrix_key_str(spec, status) = <<Numeral(q), Numeral(t)>>
        BY <1>2, <3>2 DEF _matrix_key_str, v, q, t
      <4>2. <<Numeral(q)>> \o <<Numeral(t)>> = <<Numeral(q), Numeral(t)>>
        BY Joined
      <4>3. Written(q, t) = <<Numeral(q), Numeral(t)>>
        BY <3>2, <4>2
      <4> QED
        BY <4>1, <4>3
    <3> QED
      BY <3>1, <3>2
  <2>5. Means(text, spec, status) <=>
          \E w \in 0..v, d \in 0..9 : v = 10 * w + d /\ text = Written(w, d)
    BY <1>2 DEF Means, v
  <2> HIDE DEF Written
  <2> QED
    BY <2>2, <2>3, <2>4, <2>5
<1> QED
  BY <1>1, <1>2

(* The keys of a table or constant, down to its second level, are keys of a file. *)
TwoLevels(table) ==
    IsDict(table) =>
        /\ DOMAIN table.sub \subseteq KeyType
        /\ \A r \in DOMAIN table.sub :
               IsDict(table.sub[r]) => DOMAIN table.sub[r].sub \subseteq KeyType

(* A lookup by two keys finds the number under the texts they mean. *)
LEMMA MatrixIsRight ==
  ASSUME NEW k, NEW l, k.value \in Nat, l.value \in Nat,
         NEW table, TwoLevels(table), NEW status
  PROVE  MatrixFindsItsCell(<<k, l>>, table, status)
<1> DEFINE keys == <<k, l>>
           texts == [i \in DOMAIN keys |-> _matrix_key_str(keys[i], status)]
           value == _eval_matrix_lookup(keys, table, status)
           here  == {pair \in UNION {{<<r, c>> : c \in DOMAIN table.sub[r].sub} : r \in DOMAIN table.sub} :
                      Means(pair[1].text, keys[1], status) /\ Means(pair[2].text, keys[2], status)}
           cell(pair) == table.sub[pair[1]].sub[pair[2]]
<1> SUFFICES ASSUME _validate_matrix_lookup_rule(keys, table)
             PROVE  /\ here = {} => value = Raises
                    /\ \A pair \in here : IsAmount(cell(pair)) /\ value = Got(cell(pair).leaf)
  BY DEF MatrixFindsItsCell
<1>1. /\ Len(keys) = 2 /\ DOMAIN keys = {1, 2} /\ keys[1] = k /\ keys[2] = l
      /\ k.kind \in {"filing_status", "ref"} /\ l.kind \in {"filing_status", "ref"}
  <2>1. Len(keys) = 2 /\ DOMAIN keys = {1, 2} /\ keys[1] = k /\ keys[2] = l
    OBVIOUS
  <2> HIDE DEF keys
  <2>2. \A i \in DOMAIN keys : keys[i].kind \in {"filing_status", "ref"}
    BY DEF _validate_matrix_lookup_rule
  <2> QED
    BY <2>1, <2>2
<1> HIDE DEF keys
<1>2. /\ Len(texts) = 2
      /\ texts[1] = _matrix_key_str(k, status) /\ texts[2] = _matrix_key_str(l, status)
  <2> DEFINE str(i) == _matrix_key_str(keys[i], status)
  <2>1. texts = [i \in 1..2 |-> str(i)] /\ texts \in [1..2 -> {str(i) : i \in 1..2}]
    <3>1. DOMAIN keys = 1..2
      BY <1>1
    <3> HIDE DEF str
    <3>2. texts = [i \in 1..2 |-> str(i)]
      BY <3>1 DEF str
    <3> HIDE DEF texts
    <3> QED
      BY <3>2
  <2> HIDE DEF str, texts
  <2>2. Len(texts) = 2
    BY <2>1, LengthIs
  <2>3. texts[1] = str(1) /\ texts[2] = str(2)
    BY <2>1
  <2> QED
    BY <1>1, <2>2, <2>3 DEF str
<1>3. value = Descend(table, texts)
  BY DEF _eval_matrix_lookup
<1> HIDE DEF texts, value
<1>4. _validate_matrix_table(table, 2)
  BY <1>1 DEF _validate_matrix_lookup_rule
<1>5. /\ IsDict(table) /\ \A r \in DOMAIN table.sub : r = Key(r.text) /\ IsDict(table.sub[r])
      /\ \A r \in DOMAIN table.sub : \A c \in DOMAIN table.sub[r].sub :
             c = Key(c.text) /\ IsAmount(table.sub[r].sub[c])
  <2>1. /\ IsDict(table) /\ \A r \in DOMAIN table.sub : r \in KeyType
        /\ \A r \in DOMAIN table.sub : \A c \in DOMAIN table.sub[r].sub : c \in KeyType
    BY <1>4, LoadedMatrix DEF TwoLevels
  <2> QED
    BY <1>4, <2>1, LoadedMatrix, QuotedKey
<1> DEFINE r1 == Key(texts[1])
           c1 == Key(texts[2])
<1>6. ASSUME NEW text PROVE /\ Means(text, k, status) <=> text = texts[1]
                            /\ Means(text, l, status) <=> text = texts[2]
  BY <1>1, <1>2, MeansOne
<1>7. \A pair \in here : /\ pair[1] = r1 /\ pair[2] = c1
                         /\ r1 \in DOMAIN table.sub /\ c1 \in DOMAIN table.sub[r1].sub
  <2> SUFFICES ASSUME NEW pair \in here
               PROVE  /\ pair[1] = r1 /\ pair[2] = c1
                      /\ r1 \in DOMAIN table.sub /\ c1 \in DOMAIN table.sub[r1].sub
    OBVIOUS
  <2>1. PICK r \in DOMAIN table.sub : \E c \in DOMAIN table.sub[r].sub : pair = <<r, c>>
    OBVIOUS
  <2>2. PICK c \in DOMAIN table.sub[r].sub : pair = <<r, c>>
    BY <2>1
  <2>3. pair[1] = r /\ pair[2] = c
    BY <2>2
  <2>4. Means(r.text, k, status) /\ Means(c.text, l, status)
    BY <1>1, <2>3
  <2> HIDE DEF here
  <2>5. r.text = texts[1] /\ c.text = texts[2]
    BY <1>6, <2>4
  <2> QED
    BY <1>5, <2>3, <2>5
<1>8. r1 \in DOMAIN table.sub /\ c1 \in DOMAIN table.sub[r1].sub => <<r1, c1>> \in here
  <2> SUFFICES ASSUME r1 \in DOMAIN table.sub, c1 \in DOMAIN table.sub[r1].sub
               PROVE  <<r1, c1>> \in here
    OBVIOUS
  <2>1. r1.text = texts[1] /\ c1.text = texts[2]
    BY KeyText
  <2>2. Means(r1.text, k, status) /\ Means(c1.text, l, status)
    BY <1>6, <2>1
  <2> HIDE DEF r1, c1
  <2>3. <<r1, c1>>[1] = r1 /\ <<r1, c1>>[2] = c1
    OBVIOUS
  <2>4. <<r1, c1>> \in UNION {{<<r, c>> : c \in DOMAIN table.sub[r].sub} : r \in DOMAIN table.sub}
    OBVIOUS
  <2> QED
    BY <1>1, <2>2, <2>3, <2>4
<1> HIDE DEF here
<1>9. Len(texts) \in Nat /\ 1 \in 1..Len(texts) /\ 2 \in 1..Len(texts) /\ 1 - 1 = 0 /\ 2 - 1 = 1
  BY <1>2
<1> DEFINE w == Walk(table, texts)
<1>10. w[0] = Got(table)
  BY <1>9, WalkIs
<1>11. CASE r1 \notin DOMAIN table.sub
  <2>1. w[1] = Raises
    BY <1>5, <1>9, <1>10, <1>11, WalkOn
  <2>2. w[2] = Step(w[1], texts[2])
    BY <1>9, WalkIs
  <2>3. w[2] = Raises
    BY <2>1, <2>2, StepsAre
  <2>4. value = Raises
    BY <1>2, <1>3, <2>3, WalkEnds
  <2> HIDE DEF r1, c1
  <2> QED
    BY <1>7, <1>11, <2>4
<1>12. CASE r1 \in DOMAIN table.sub
  <2> DEFINE inner == table.sub[r1]
  <2>1. w[1] = Got(inner) /\ IsDict(inner)
    BY <1>5, <1>9, <1>10, <1>12, WalkOn
  <2>2. CASE c1 \notin DOMAIN inner.sub
    <3>1. w[2] = Raises
      BY <1>9, <2>1, <2>2, WalkOn
    <3>2. value = Raises
      BY <1>2, <1>3, <3>1, WalkEnds
    <3> HIDE DEF r1, c1
    <3> QED
      BY <1>7, <2>2, <3>2
  <2>3. CASE c1 \in DOMAIN inner.sub
    <3>1. w[2] = Got(inner.sub[c1])
      BY <1>9, <2>1, <2>3, WalkOn
    <3>2. IsAmount(inner.sub[c1])
      <4> HIDE DEF r1, c1, IsAmount
      <4>1. \A r \in DOMAIN table.sub : \A c \in DOMAIN table.sub[r].sub :
               IsAmount(table.sub[r].sub[c])
        BY <1>5
      <4> QED
        BY <1>12, <2>3, <4>1, Zenon
    <3>3. value = Got(inner.sub[c1].leaf)
      <4> HIDE DEF r1, c1, IsAmount, Got, Raises
      <4>1. w[Len(texts)] = Got(inner.sub[c1])
        BY <1>2, <3>1
      <4> DEFINE leaf == inner.sub[c1]
      <4> HIDE DEF leaf, w
      <4> QED
        BY <1>3, <3>2, <4>1, WalkEnds DEF leaf, w
    <3> HIDE DEF r1, c1
    <3> QED
      BY <1>7, <1>8, <1>12, <2>3, <3>2, <3>3
  <2> QED
    BY <2>2, <2>3
<1> QED
  BY <1>11, <1>12
-----------------------------------------------------------------------------
(* Lookups of constants.                                                   *)

(* The texts a lookup goes down by: the parts of its path, then its key. *)
PartTexts(path) ==
    LET parts == IF path[1] = "constants" THEN Tail(path) ELSE path
    IN  [i \in DOMAIN parts |-> <<parts[i]>>]

(* What a lookup rule finds is at the end of its texts. *)
LEMMA LookupIs ==
  ASSUME NEW constants, NEW path, NEW key
  PROVE  LET found == Descend([sub |-> constants], Append(PartTexts(path), key))
         IN  _eval_lookup(constants, path, key) = IF found = TooShallow THEN Raises ELSE found
BY DEF _eval_lookup, get_constant, PartTexts

(* The parts of a path have as many texts. *)
LEMMA TextsAre ==
  ASSUME NEW parts \in Seq(STRING), NEW key
  PROVE  LET texts == Append([i \in DOMAIN parts |-> <<parts[i]>>], key)
         IN  /\ Len(texts) = Len(parts) + 1
             /\ \A i \in 1..Len(parts) : texts[i] = <<parts[i]>>
             /\ texts[Len(parts) + 1] = key
<1> DEFINE n == Len(parts)
           texts == [i \in DOMAIN parts |-> <<parts[i]>>]
           S == {key} \cup {<<parts[i]>> : i \in 1..n}
<1>1. n \in Nat /\ DOMAIN parts = 1..n
  OBVIOUS
<1>2. texts \in [1..n -> S] /\ key \in S /\ \A i \in 1..n : texts[i] = <<parts[i]>>
  BY <1>1
<1> HIDE DEF n, texts, S
<1>3. texts \in Seq(S) /\ Len(texts) = n
  BY <1>1, <1>2, LengthIs, SeqDef
<1>4. /\ Len(Append(texts, key)) = n + 1 /\ Append(texts, key)[n + 1] = key
      /\ \A i \in 1..n : Append(texts, key)[i] = texts[i]
  BY <1>2, <1>3
<1> QED
  BY <1>2, <1>4 DEF n, texts

(* Walks that agree after one text agree to the end. *)
LEMMA WalksAgree ==
  ASSUME NEW node, NEW other, NEW texts, Len(texts) \in Nat \ {0},
         Walk(node, texts)[1] = Walk(other, texts)[1]
  PROVE  Descend(node, texts) = Descend(other, texts)
<1> DEFINE v == Walk(node, texts)
           w == Walk(other, texts)
           Differ == {i \in 1..Len(texts) : v[i] # w[i]}
<1>1. Differ = {}
  <2> SUFFICES ASSUME Differ # {} PROVE FALSE
    OBVIOUS
  <2>1. PICK i \in Differ : \A y \in Differ : i <= y
    <3>1. Differ \in SUBSET Nat
      OBVIOUS
    <3> HIDE DEF Differ
    <3> QED
      BY <3>1, LeastNat
  <2>2. i \in 1..Len(texts) /\ v[i] # w[i] /\ i \in Nat /\ i # 1
    BY <2>1
  <2>3. i - 1 \in 1..Len(texts) /\ i - 1 \notin Differ
    <3> HIDE DEF Differ
    <3> QED
      BY <2>1, <2>2
  <2>4. v[i - 1] = w[i - 1]
    BY <2>3
  <2>5. v[i] = Step(v[i - 1], texts[i]) /\ w[i] = Step(w[i - 1], texts[i])
    BY <2>2, WalkIs
  <2> HIDE DEF v, w
  <2> QED
    BY <2>2, <2>4, <2>5
<1>2. v[Len(texts)] = w[Len(texts)]
  <2> HIDE DEF v, w
  <2> QED
    BY <1>1
<1> QED
  BY <1>2 DEF Descend

(* Deleting a constant no lookup names leaves every lookup its value. *)
LEMMA DeletionIsSafe ==
  ASSUME NEW constants, NEW path \in Seq(STRING), NEW name, NEW key
  PROVE  LookupsSurviveDeletion(constants, path, name, key)
<1> DEFINE left == _delete_constant(constants, {path}, name)
           gone == Key(<<name>>)
           parts == IF path[1] = "constants" THEN Tail(path) ELSE path
           texts == Append(PartTexts(path), key)
           node == [sub |-> constants]
           other == [sub |-> left]
<1> SUFFICES ASSUME path # <<"constants">>, path # <<>>
             PROVE  _eval_lookup(left, path, key) = _eval_lookup(constants, path, key)
  BY DEF LookupsSurviveDeletion, _validate_lookup_rule
<1>1. CASE left = constants
  BY <1>1
<1>2. CASE left # constants
  <2>1. ~ RefersTo(path, name) /\ left = [k \in DOMAIN constants \ {gone} |-> constants[k]]
    <3>1. ~ RefersTo(path, name) /\ left = Restrict(constants, DOMAIN constants \ {gone})
      BY <1>2 DEF _delete_constant
    <3> QED
      BY <3>1 DEF Restrict
  <2>2. parts \in Seq(STRING) /\ Len(parts) \in Nat \ {0} /\ parts[1] # name
    <3>1. CASE path[1] = "constants"
      <4>1. Len(path) > 1
        <5>1. Len(path) \in Nat /\ Len(path) # 0
          OBVIOUS
        <5>2. Len(path) # 1
          BY <3>1, OnlyOne
        <5> QED
          BY <5>1, <5>2
      <4>2. /\ Tail(path) \in Seq(STRING) /\ Len(Tail(path)) \in Nat \ {0}
            /\ Tail(path)[1] = path[2]
        BY <4>1
      <4>3. path[2] # name
        BY <2>1, <3>1, <4>1 DEF RefersTo
      <4> QED
        BY <3>1, <4>2, <4>3
    <3>2. CASE path[1] # "constants"
      <4>1. path[1] # name
        BY <2>1, <3>2 DEF RefersTo
      <4>2. Len(path) \in Nat \ {0}
        OBVIOUS
      <4> QED
        BY <3>2, <4>1, <4>2
    <3> QED
      BY <3>1, <3>2
  <2>3. PartTexts(path) = [i \in DOMAIN parts |-> <<parts[i]>>]
    BY DEF PartTexts
  <2> HIDE DEF parts
  <2>4. Len(texts) = Len(parts) + 1 /\ texts[1] = <<parts[1]>>
    <3>1. 1 \in 1..Len(parts)
      BY <2>2
    <3> QED
      BY <2>2, <2>3, <3>1, TextsAre
  <2> HIDE DEF texts, left
  <2>5. Key(texts[1]) # gone
    <3>1. <<parts[1]>>[1] = parts[1] /\ <<name>>[1] = name
      OBVIOUS
    <3>2. texts[1] # <<name>>
      BY <2>2, <2>4, <3>1
    <3> QED
      BY <3>2, KeyText
  <2>6. Key(texts[1]) \in DOMAIN left <=> Key(texts[1]) \in DOMAIN constants
    <3> HIDE DEF gone
    <3> QED
      BY <2>1, <2>5
  <2>7. Key(texts[1]) \in DOMAIN constants => left[Key(texts[1])] = constants[Key(texts[1])]
    <3> HIDE DEF gone
    <3> QED
      BY <2>1, <2>5
  <2>8. IsDict(node) /\ node.sub = constants /\ IsDict(other) /\ other.sub = left
    BY DEF IsDict
  <2> HIDE DEF node, other
  <2>9. Len(texts) \in Nat \ {0} /\ 1 \in 1..Len(texts) /\ 1 - 1 = 0
    BY <2>2, <2>4
  <2>10. Walk(node, texts)[0] = Got(node) /\ Walk(other, texts)[0] = Got(other)
    BY <2>9, WalkIs
  <2>11. Walk(node, texts)[1] = Walk(other, texts)[1]
    <3>1. CASE Key(texts[1]) \in DOMAIN constants
      <4>1. Walk(node, texts)[1] = Got(constants[Key(texts[1])])
        BY <2>8, <2>9, <2>10, <3>1, WalkOn
      <4>2. Walk(other, texts)[1] = Got(left[Key(texts[1])])
        BY <2>6, <2>8, <2>9, <2>10, <3>1, WalkOn
      <4> QED
        BY <2>7, <3>1, <4>1, <4>2
    <3>2. CASE Key(texts[1]) \notin DOMAIN constants
      <4>1. Walk(node, texts)[1] = Raises
        BY <2>8, <2>9, <2>10, <3>2, WalkOn
      <4>2. Walk(other, texts)[1] = Raises
        BY <2>6, <2>8, <2>9, <2>10, <3>2, WalkOn
      <4> QED
        BY <4>1, <4>2
    <3> QED
      BY <3>1, <3>2
  <2>12. Descend(node, texts) = Descend(other, texts)
    BY <2>9, <2>11, WalksAgree
  <2> QED
    BY <2>12, LookupIs DEF node, other, texts
<1> QED
  BY <1>1, <1>2

(* The path of a group of a constant, without its head. *)
LEMMA TailOfPath ==
  \A a, b, c : /\ (<<a, b>> \o <<c>>)[1] = a
               /\ Tail(<<a, b>> \o <<c>>) = <<b, c>>
<1> SUFFICES ASSUME NEW a, NEW b, NEW c
             PROVE  /\ (<<a, b>> \o <<c>>)[1] = a
                    /\ Tail(<<a, b>> \o <<c>>) = <<b, c>>
  OBVIOUS
<1> DEFINE S == {a, b, c}
           two == <<a, b>>
           one == <<c>>
           path == two \o one
           rest == <<b, c>>
<1>1. /\ two \in Seq(S) /\ Len(two) = 2 /\ two[1] = a /\ two[2] = b
      /\ one \in Seq(S) /\ Len(one) = 1 /\ one[1] = c
      /\ rest \in Seq(S) /\ Len(rest) = 2 /\ rest[1] = b /\ rest[2] = c
  OBVIOUS
<1> HIDE DEF S, two, one, rest
<1>2. path \in Seq(S) /\ Len(path) = 3 /\ path[1] = a /\ path[2] = b /\ path[3] = c
  <2>1. /\ path \in Seq(S) /\ Len(path) = 2 + 1
        /\ \A i \in 1..(2 + 1) : path[i] = IF i <= 2 THEN two[i] ELSE one[i - 2]
    <3>1. /\ two \o one \in Seq(S) /\ Len(two \o one) = Len(two) + Len(one)
          /\ \A i \in 1..(Len(two) + Len(one)) :
                 (two \o one)[i] = IF i <= Len(two) THEN two[i] ELSE one[i - Len(two)]
      BY <1>1, ConcatProperties
    <3>2. Len(two) = 2 /\ Len(one) = 1
      BY <1>1
    <3> QED
      BY <3>1, <3>2
  <2> HIDE DEF path
  <2>2. /\ 1 \in 1..(2 + 1) /\ 2 \in 1..(2 + 1) /\ 3 \in 1..(2 + 1)
        /\ 1 <= 2 /\ ~ (3 <= 2) /\ 3 - 2 = 1 /\ 2 + 1 = 3
    OBVIOUS
  <2> QED
    BY <1>1, <2>1, <2>2
<1> HIDE DEF path
<1>3. /\ Tail(path) \in Seq(S) /\ Len(Tail(path)) = 2
      /\ Tail(path)[1] = path[2] /\ Tail(path)[2] = path[3]
  BY <1>2
<1>4. \A i \in 1..2 : Tail(path)[i] = rest[i]
  <2>1. \A i \in 1..2 : i = 1 \/ i = 2
    OBVIOUS
  <2> QED
    BY <1>1, <1>2, <1>3, <2>1
<1>5. Tail(path) = rest
  BY <1>1, <1>3, <1>4, SeqEqual
<1> QED
  BY <1>2, <1>5 DEF path, two, one, rest

(* A lookup that names the path of an accepted constant finds its numbers. *)
LEMMA NumbersAreFound ==
  ASSUME NEW constants, NEW name \in STRING, Key(<<name>>) \in DOMAIN constants,
         TwoLevels(constants[Key(<<name>>)])
  PROVE  ConstantIsAddressable(constants, name)
<1> DEFINE value == constants[Key(<<name>>)]
           node == [sub |-> constants]
           finds(path, k, leaf) == _eval_lookup(constants, path, k.text) = Got(leaf)
<1> SUFFICES ASSUME _validate_constant_value(value), NEW k \in DOMAIN value.sub
             PROVE  /\ IsDict(value.sub[k]) => \A c \in DOMAIN value.sub[k].sub :
                          finds(<<"constants", name>> \o k.text, c, value.sub[k].sub[c].leaf)
                    /\ ~ IsDict(value.sub[k]) => finds(<<"constants", name>>, k, value.sub[k].leaf)
  BY DEF ConstantIsAddressable
<1>0. IsDict(node) /\ node.sub = constants
  BY DEF IsDict
<1>1. KeysAccepted(value) /\ IsDict(value) /\ k = Key(k.text) /\ k.text \in Seq(STRING) /\ Len(k.text) = 1
  <2>1. KeysAccepted(value) /\ IsDict(value) /\ k.quoted /\ Len(k.text) = 1
    BY DEF _validate_constant_value, KeysAccepted
  <2>2. k \in KeyType
    BY <2>1 DEF TwoLevels
  <2>3. k.text \in Seq(STRING)
    BY <2>2 DEF KeyType
  <2> QED
    BY <2>1, <2>2, <2>3, QuotedKey
<1>2. \/ IsAmount(value.sub[k])
      \/ KeysAccepted(value.sub[k]) /\ \A c \in Range(value.sub[k].sub) : IsAmount(c)
  <2>1. value.sub[k] \in Range(value.sub)
    BY DEF Range
  <2> QED
    BY <2>1 DEF _validate_constant_value
<1>3. ASSUME IsDict(value.sub[k]), NEW c \in DOMAIN value.sub[k].sub
      PROVE  finds(<<"constants", name>> \o k.text, c, value.sub[k].sub[c].leaf)
  <2> DEFINE parts == <<name, k.text[1]>>
             path == <<"constants", name>> \o k.text
             texts == Append([i \in DOMAIN parts |-> <<parts[i]>>], c.text)
             child == value.sub[k]
  <2>1. k.text = <<k.text[1]>> /\ k.text[1] \in STRING
    BY <1>1, OnlyOne
  <2>2. path[1] = "constants" /\ Tail(path) = parts
    <3>1. path = <<"constants", name>> \o <<k.text[1]>>
      BY <2>1
    <3>2. /\ (<<"constants", name>> \o <<k.text[1]>>)[1] = "constants"
          /\ Tail(<<"constants", name>> \o <<k.text[1]>>) = <<name, k.text[1]>>
      BY TailOfPath
    <3> HIDE DEF path
    <3> QED
      BY <3>1, <3>2, Zenon DEF parts
  <2>3. /\ parts \in Seq(STRING) /\ Len(parts) = 2 /\ parts[1] = name /\ parts[2] = k.text[1]
    BY <2>1
  <2> HIDE DEF parts, path
  <2>4. /\ Len(texts) = 3 /\ texts[1] = <<name>> /\ texts[2] = k.text /\ texts[3] = c.text
    <3>1. /\ Len(texts) = 2 + 1 /\ \A i \in 1..2 : texts[i] = <<parts[i]>>
          /\ texts[2 + 1] = c.text
      BY <2>3, TextsAre
    <3> HIDE DEF texts
    <3>2. 1 \in 1..2 /\ 2 \in 1..2 /\ 2 + 1 = 3
      OBVIOUS
    <3> QED
      BY <2>1, <2>3, <3>1, <3>2
  <2>5. Append(PartTexts(path), c.text) = texts
    BY <2>2 DEF PartTexts
  <2> HIDE DEF texts
  <2>6. IsDict(child) /\ c = Key(c.text) /\ IsAmount(child.sub[c])
    <3>1. KeysAccepted(child) /\ IsAmount(child.sub[c])
      <4>1. child.sub[c] \in Range(child.sub)
        BY DEF Range
      <4>2. ~ IsAmount(child)
        BY <1>3 DEF IsAmount
      <4> HIDE DEF child
      <4> QED
        BY <1>2, <4>1, <4>2 DEF child
    <3>2. c \in KeyType /\ IsDict(child)
      BY <1>1, <1>3 DEF TwoLevels
    <3>3. c.quoted
      BY <3>1 DEF KeysAccepted
    <3> QED
      BY <3>1, <3>2, <3>3, QuotedKey
  <2> HIDE DEF child
  <2> DEFINE w == Walk(node, texts)
  <2>7. /\ Len(texts) \in Nat /\ 1 \in 1..Len(texts) /\ 2 \in 1..Len(texts) /\ 3 \in 1..Len(texts)
        /\ 1 - 1 = 0 /\ 2 - 1 = 1 /\ 3 - 1 = 2
    BY <2>4
  <2> HIDE DEF node, value
  <2>8. w[0] = Got(node)
    BY <2>7, WalkIs
  <2>9. w[1] = Got(value)
    <3>1. Key(texts[1]) \in DOMAIN node.sub /\ node.sub[Key(texts[1])] = value
      BY <1>0, <2>4 DEF value
    <3> QED
      BY <1>0, <2>7, <2>8, <3>1, WalkOn
  <2>10. w[2] = Got(child)
    <3>1. Key(texts[2]) = k
      BY <1>1, <2>4
    <3>2. Key(texts[2]) \in DOMAIN value.sub /\ value.sub[Key(texts[2])] = child
      BY <3>1 DEF child
    <3> QED
      BY <1>1, <2>7, <2>9, <3>2, WalkOn
  <2>11. w[3] = Got(child.sub[c])
    <3>1. Key(texts[3]) = c
      BY <2>4, <2>6
    <3>2. Key(texts[3]) \in DOMAIN child.sub /\ child.sub[Key(texts[3])] = child.sub[c]
      BY <3>1 DEF child
    <3> QED
      BY <2>6, <2>7, <2>10, <3>2, WalkOn
  <2>12. Descend(node, texts) = Got(child.sub[c].leaf)
    <3> DEFINE leaf == child.sub[c]
    <3>1. w[Len(texts)] = Got(leaf) /\ IsAmount(leaf)
      BY <2>4, <2>6, <2>11
    <3> HIDE DEF leaf, w
    <3> QED
      BY <3>1, WalkEnds DEF leaf, w
  <2> QED
    BY <2>5, <2>12, LookupIs, GotIs DEF node, path, child
<1>4. ASSUME ~ IsDict(value.sub[k])
      PROVE  finds(<<"constants", name>>, k, value.sub[k].leaf)
  <2> DEFINE parts == <<name>>
             path == <<"constants", name>>
             texts == Append([i \in DOMAIN parts |-> <<parts[i]>>], k.text)
  <2>1. /\ path[1] = "constants" /\ Tail(path) = parts
        /\ parts \in Seq(STRING) /\ Len(parts) = 1 /\ parts[1] = name
    OBVIOUS
  <2> HIDE DEF parts, path
  <2>2. /\ Len(texts) = 2 /\ texts[1] = <<name>> /\ texts[2] = k.text
    <3>1. /\ Len(texts) = 1 + 1 /\ \A i \in 1..1 : texts[i] = <<parts[i]>>
          /\ texts[1 + 1] = k.text
      BY <2>1, TextsAre
    <3> HIDE DEF texts
    <3> QED
      BY <2>1, <3>1
  <2>3. Append(PartTexts(path), k.text) = texts
    BY <2>1 DEF PartTexts
  <2> HIDE DEF texts
  <2>4. IsAmount(value.sub[k])
    BY <1>2, <1>4 DEF KeysAccepted
  <2> DEFINE w == Walk(node, texts)
  <2>5. /\ Len(texts) \in Nat /\ 1 \in 1..Len(texts) /\ 2 \in 1..Len(texts)
        /\ 1 - 1 = 0 /\ 2 - 1 = 1
    BY <2>2
  <2> HIDE DEF node, value
  <2>6. w[0] = Got(node)
    BY <2>5, WalkIs
  <2>7. w[1] = Got(value)
    BY <1>0, <2>2, <2>5, <2>6, WalkOn DEF value
  <2>8. w[2] = Got(value.sub[k])
    <3>1. Key(texts[2]) = k
      BY <1>1, <2>2
    <3>2. Key(texts[2]) \in DOMAIN value.sub
      BY <3>1
    <3> QED
      BY <1>1, <2>5, <2>7, <3>1, <3>2, WalkOn
  <2>9. Descend(node, texts) = Got(value.sub[k].leaf)
    <3> DEFINE leaf == value.sub[k]
    <3>1. w[Len(texts)] = Got(leaf) /\ IsAmount(leaf)
      BY <2>2, <2>4, <2>8
    <3> HIDE DEF leaf, w
    <3> QED
      BY <3>1, WalkEnds DEF leaf, w
  <2> QED
    BY <2>3, <2>9, LookupIs, GotIs DEF node, path
<1> QED
  BY <1>3, <1>4

-----------------------------------------------------------------------------
(* The inputs: tables of brackets with incomes, a table of two levels with the
   specifications of keys, or constants with paths and names. *)
TablesGiven ==
    /\ topic = "brackets" => /\ case.tables \in [DOMAIN case.tables -> Seq(Bracket)]
                             /\ case.incomes \in SUBSET Nat
    /\ topic = "matrix" => /\ case.specs \in SUBSET [kind : STRING, value : Nat]
                           /\ TwoLevels(case.table)
    /\ topic = "constants" => /\ case.names \in SUBSET STRING
                              /\ case.paths \in SUBSET Seq(STRING)
                              /\ \A k \in DOMAIN case.constants : TwoLevels(case.constants[k])

(* Whatever tables a rule pack holds: those that load give each income, each
   pair of keys and each looked-up constant the rate or amount written there
   (_validate_bracket_table_rule, _validate_matrix_lookup_rule, get_constant), and
   deleting a constant that no rule names changes no lookup (delete_constant). *)
THEOREM TablesAreRight == TablesGiven => TablesGiveTheirRates
<1> SUFFICES ASSUME TablesGiven PROVE TablesGiveTheirRates
  OBVIOUS
<1>1. ASSUME topic = "brackets"
      PROVE  BracketsAreMarginal(case.tables, case.status, case.incomes)
  <2>1. case.tables \in [DOMAIN case.tables -> Seq(Bracket)] /\ case.incomes \in SUBSET Nat
    BY <1>1 DEF TablesGiven
  <2> QED
    BY <2>1, TaxIsMarginal
<1>2. ASSUME topic = "matrix", NEW k \in case.specs, NEW l \in case.specs
      PROVE  MatrixFindsItsCell(<<k, l>>, case.table, case.status)
  <2>1. k.value \in Nat /\ l.value \in Nat /\ TwoLevels(case.table)
    BY <1>2 DEF TablesGiven
  <2> QED
    BY <2>1, MatrixIsRight
<1>3. ASSUME topic = "constants", NEW name \in case.names
      PROVE  /\ \A path \in case.paths :
                    LookupsSurviveDeletion(case.constants, path, name, case.key)
             /\ Key(<<name>>) \in DOMAIN case.constants =>
                    ConstantIsAddressable(case.constants, name)
  <2>1. /\ name \in STRING /\ case.paths \in SUBSET Seq(STRING)
        /\ \A k \in DOMAIN case.constants : TwoLevels(case.constants[k])
    BY <1>3 DEF TablesGiven
  <2>2. ASSUME NEW path \in case.paths
        PROVE  LookupsSurviveDeletion(case.constants, path, name, case.key)
    <3>1. path \in Seq(STRING)
      BY <2>1
    <3> QED
      BY <3>1, DeletionIsSafe
  <2>3. ASSUME Key(<<name>>) \in DOMAIN case.constants
        PROVE  ConstantIsAddressable(case.constants, name)
    <3>1. TwoLevels(case.constants[Key(<<name>>)])
      BY <2>1, <2>3
    <3> QED
      BY <2>1, <2>3, <3>1, NumbersAreFound
  <2> QED
    BY <2>2, <2>3
<1> QED
  BY <1>1, <1>2, <1>3 DEF TablesGiveTheirRates

-----------------------------------------------------------------------------
(* The rows of a form in order, inputs and matrices.                       *)

(* A nonempty finite set of numbers has a greatest one. *)
LEMMA FiniteMax ==
  ASSUME NEW S \in SUBSET Nat, IsFiniteSet(S), S # {}
  PROVE  Max(S) \in S /\ \A y \in S : y <= Max(S)
<1> DEFINE P == {T \in SUBSET S : T = {} \/ \E x \in T : \A y \in T : y <= x}
<1>1. ASSUME NEW T \in SUBSET S, \A U \in SUBSET T : U # T => U \in P
      PROVE  T \in P
  <2>1. CASE T = {}
    BY <2>1
  <2>2. CASE T # {}
    <3>1. PICK c \in T : TRUE
      BY <2>2
    <3>2. T \ {c} \in P
      BY <1>1
    <3>3. CASE T \ {c} = {}
      <4>1. \A y \in T : y = c
        BY <3>3
      <4> QED
        BY <4>1
    <3>4. CASE \E x \in T \ {c} : \A y \in T \ {c} : y <= x
      <4>1. PICK x \in T \ {c} : \A y \in T \ {c} : y <= x
        BY <3>4
      <4>2. x \in Nat /\ c \in Nat /\ \A y \in T : y \in Nat
        OBVIOUS
      <4>3. CASE x <= c
        <5>1. \A y \in T : y <= c
          BY <4>1, <4>2, <4>3
        <5> QED
          BY <5>1
      <4>4. CASE c <= x
        <5>1. \A y \in T : y <= x
          BY <4>1, <4>2, <4>4
        <5> QED
          BY <5>1
      <4> QED
        BY <4>2, <4>3, <4>4
    <3> QED
      BY <3>2, <3>3, <3>4
  <2> QED
    BY <2>1, <2>2
<1>2. S \in P
  <2>1. IsFiniteSet(S)
    OBVIOUS
  <2> HIDE DEF P
  <2> QED
    BY <1>1, <2>1, SetInduction
<1>3. PICK x \in S : \A y \in S : y <= x
  BY <1>2
<1>4. \E m \in S : \A y \in S : m >= y
  BY <1>3
<1>5. Max(S) \in S /\ \A y \in S : Max(S) >= y
  BY <1>4 DEF Max
<1> QED
  BY <1>5

(* The greatest of one number. *)
LEMMA MaxOfOne == \A x : Max({x}) = x
BY DEF Max

(* The ranks of n indices are the numbers from 1 to n, one for each. *)
LEMMA Ranks ==
  ASSUME NEW I \in SUBSET Nat, IsFiniteSet(I)
  PROVE  /\ \A i \in I : Rank(I, i) \in 1..Cardinality(I)
         /\ \A i, j \in I : Rank(I, i) = Rank(I, j) => i = j
         /\ \A k \in 1..Cardinality(I) : \E i \in I : Rank(I, i) = k
<1> DEFINE upto(i) == {j \in I : j <= i}
<1>1. ASSUME NEW i \in I
      PROVE  /\ IsFiniteSet(upto(i)) /\ Rank(I, i) = Cardinality(upto(i))
             /\ Rank(I, i) \in 1..Cardinality(I)
  <2>1. IsFiniteSet(upto(i)) /\ Cardinality(upto(i)) <= Cardinality(I)
    BY FS_Subset
  <2>2. Cardinality(upto(i)) \in Nat /\ Cardinality(I) \in Nat
    BY <2>1, FS_CardinalityType
  <2>3. i \in upto(i)
    OBVIOUS
  <2>4. Cardinality(upto(i)) # 0
    <3> HIDE DEF upto
    <3> QED
      BY <2>1, <2>3, FS_EmptySet
  <2>5. Rank(I, i) = Cardinality(upto(i))
    BY DEF Rank
  <2> HIDE DEF upto
  <2> QED
    BY <2>1, <2>2, <2>4, <2>5
<1>2. \A i, j \in I : i < j => Rank(I, i) # Rank(I, j)
  <2> SUFFICES ASSUME NEW i \in I, NEW j \in I, i < j, Rank(I, i) = Rank(I, j)
               PROVE  FALSE
    OBVIOUS
  <2>1. upto(i) \in SUBSET upto(j) /\ j \in upto(j) /\ j \notin upto(i)
    <3>1. \A k \in I : k <= i => k <= j
      OBVIOUS
    <3>2. j <= j /\ ~ (j <= i)
      OBVIOUS
    <3> QED
      BY <3>1, <3>2
  <2>2. Cardinality(upto(i)) = Cardinality(upto(j)) /\ IsFiniteSet(upto(j))
    BY <1>1
  <2> HIDE DEF upto
  <2> QED
    BY <2>1, <2>2, FS_Subset
<1>3. \A i, j \in I : Rank(I, i) = Rank(I, j) => i = j
  BY <1>2
<1>4. \A k \in 1..Cardinality(I) : \E i \in I : Rank(I, i) = k
  <2> DEFINE f == [i \in I |-> Rank(I, i)]
             n == Cardinality(I)
  <2>1. f \in Injection(I, 1..n)
    BY <1>1, <1>3 DEF Injection, IsInjective
  <2>2. IsFiniteSet(1..n) /\ Cardinality(1..n) = n
    <3>1. n \in Nat
      BY FS_CardinalityType
    <3> HIDE DEF n
    <3> QED
      BY <3>1, FS_Interval
  <2>3. f \in Surjection(I, 1..n)
    <3> HIDE DEF f
    <3> QED
      BY <2>1, <2>2, FS_Injection
  <2> QED
    BY <2>3 DEF Surjection
<1> QED
  BY <1>1, <1>3, <1>4

(* InOrder lists the row of each index at its rank, and nothing else. *)
LEMMA RowsInOrder ==
  ASSUME NEW I \in SUBSET Nat, IsFiniteSet(I), NEW rows
  PROVE  /\ Len(InOrder(rows, I)) = Cardinality(I)
         /\ DOMAIN InOrder(rows, I) = 1..Cardinality(I)
         /\ \A i \in I : InOrder(rows, I)[Rank(I, i)] = rows[i]
         /\ \A k \in 1..Cardinality(I) : \E i \in I : InOrder(rows, I)[k] = rows[i]
<1> DEFINE n == Cardinality(I)
           at(k) == CHOOSE i \in I : Rank(I, i) = k
<1>1. n \in Nat
  BY FS_CardinalityType
<1>2. InOrder(rows, I) = [k \in 1..n |-> rows[at(k)]]
  BY DEF InOrder
<1>3. \A i \in I : Rank(I, i) \in 1..n /\ at(Rank(I, i)) = i
  BY Ranks
<1>4. \A k \in 1..n : at(k) \in I
  BY Ranks
<1> HIDE DEF at, n
<1>5. Len([k \in 1..n |-> rows[at(k)]]) = n
  BY <1>1
<1>6. DOMAIN InOrder(rows, I) = 1..n /\ Len(InOrder(rows, I)) = n
  BY <1>2, <1>5
<1>7. \A i \in I : InOrder(rows, I)[Rank(I, i)] = rows[i]
  BY <1>2, <1>3
<1>8. \A k \in 1..n : \E i \in I : InOrder(rows, I)[k] = rows[i]
  BY <1>2, <1>4
<1> QED
  BY <1>6, <1>7, <1>8 DEF n

(* An index below the limit is one the limit lets through. *)
LEMMA BelowLimit ==
  ASSUME NEW i \in Nat, MaxIndexedEntries \in Nat
  PROVE  i < MaxIndexedEntries <=> ~ TooMany({i})
BY DEF TooMany

(* Below the limit every bracket with a lower bound is kept in its place. *)
LEMMA BracketRowsAreKept ==
  ASSUME NEW Row, NEW D \in SUBSET Nat, IsFiniteSet(D), NEW rows \in [D -> Row],
         MaxIndexedEntries \in Nat
  PROVE  BracketsKeepRows(rows)
<1> DEFINE kept == {i \in D : rows[i].lower # NoText /\ ~ TooMany({i})}
<1>1. {i \in D : i < MaxIndexedEntries /\ rows[i].lower # NoText} = kept
  BY BelowLimit
<1>2. parse_brackets(rows) = InOrder(rows, kept)
  BY <1>1 DEF parse_brackets
<1>3. kept \in SUBSET Nat /\ IsFiniteSet(kept)
  BY FS_Subset
<1>4. Lists(parse_brackets(rows), rows, kept)
  <2> HIDE DEF kept
  <2> QED
    BY <1>2, <1>3, RowsInOrder DEF Lists
<1>5. DOMAIN rows = D
  OBVIOUS
<1>6. {i \in DOMAIN rows : rows[i].lower # NoText /\ ~ TooMany({i})} = kept
  BY <1>5
<1> HIDE DEF kept
<1> QED
  BY <1>4, <1>6 DEF BracketsKeepRows

(* An accepted formula has for every name it uses a row that was typed for it,
   and of several the last before the gap. *)
LEMMA InputsAreKept ==
  ASSUME NEW Row, NEW D \in SUBSET Nat, IsFiniteSet(D), NEW rows \in [D -> Row], NEW used
  PROVE  FormulaKeepsInputs(rows, used)
<1> DEFINE read == {i \in D : \A j \in 0..i : j \in D /\ rows[j].name # NoText}
           called(n) == {i \in read : rows[i].name = n}
<1>1. parse_inputs(rows) =
        [n \in {rows[i].name : i \in read} |->
            [kind |-> IF rows[Max(called(n))].type = "literal" THEN "literal" ELSE "ref",
             text |-> rows[Max(called(n))].text]]
  BY DEF parse_inputs
<1>0. DOMAIN rows = D
  OBVIOUS
<1> SUFFICES ASSUME InputsAccepted(rows, used), NEW n \in used
             PROVE  \E i \in D :
                      /\ rows[i].name = n
                      /\ parse_inputs(rows)[n] = Input(rows[i])
                      /\ \A later \in D : rows[later].name = n /\ later > i =>
                             \E gap \in i..later : gap \notin D \/ rows[gap].name = NoText
  BY <1>0 DEF FormulaKeepsInputs
<1>u. used \subseteq DOMAIN parse_inputs(rows)
  BY DEF InputsAccepted
<1>2. n \in {rows[i].name : i \in read}
  BY <1>1, <1>u
<1>3. called(n) # {} /\ called(n) \in SUBSET Nat /\ called(n) \in SUBSET D /\ IsFiniteSet(called(n))
  BY <1>2, FS_Subset
<1>4. PICK i \in called(n) : i = Max(called(n)) /\ \A j \in called(n) : i >= j
  <2> HIDE DEF called
  <2> QED
    BY <1>3, FiniteMax
<1>5. parse_inputs(rows)[n] = Input(rows[i])
  BY <1>1, <1>2, <1>4 DEF Input
<1>6. i \in read /\ i \in D /\ i \in Nat /\ rows[i].name = n
  BY <1>4
<1>7. ASSUME NEW later \in D, rows[later].name = n, later > i
      PROVE  \E gap \in i..later : gap \notin D \/ rows[gap].name = NoText
  <2>1. later \in Nat /\ later \notin read
    BY <1>3, <1>4, <1>6, <1>7
  <2>2. PICK gap \in 0..later : gap \notin D \/ rows[gap].name = NoText
    BY <2>1
  <2>3. gap \notin 0..i
    BY <1>6, <2>2
  <2>4. gap \in i..later
    BY <1>6, <2>1, <2>3
  <2> QED
    BY <2>2, <2>4
<1> HIDE DEF read, called
<1> QED
  BY <1>5, <1>6, <1>7

(* The parts of parse_matrix, named. *)
Filled(cols, cells, r) == {c \in DOMAIN cols : cols[c] # NoText /\ cells[r, c] # NoText}

Under(cols, cells, r, name) == {c \in Filled(cols, cells, r) : cols[c] = name}

Entry(cols, cells, r) ==
  [name \in {cols[c] : c \in Filled(cols, cells, r)} |->
      cells[r, Max(Under(cols, cells, r, name))]]

Used(cols, keys, cells) == {r \in DOMAIN keys : keys[r] # NoText /\ Filled(cols, cells, r) # {}}

Beside(cols, keys, cells, key) == {r \in Used(cols, keys, cells) : keys[r] = key}

(* What parse_rule_form makes of a matrix within the limit. *)
LEMMA ParsedMatrix ==
  ASSUME NEW cols, NEW keys, NEW cells, ~ TooMany(DOMAIN cols \cup DOMAIN keys)
  PROVE  parse_matrix(cols, keys, cells) =
           Some([key \in {keys[r] : r \in Used(cols, keys, cells)} |->
                   Entry(cols, cells, Max(Beside(cols, keys, cells, key)))])
<1> DEFINE named      == {c \in DOMAIN cols : cols[c] # NoText}
           filled(r)  == {c \in named : cells[r, c] # NoText}
           entry(r)   == [name \in {cols[c] : c \in filled(r)} |->
                             cells[r, Max({c \in filled(r) : cols[c] = name})]]
           used       == {r \in DOMAIN keys : keys[r] # NoText /\ filled(r) # {}}
<1>1. parse_matrix(cols, keys, cells) =
        Some([key \in {keys[r] : r \in used} |-> entry(Max({r \in used : keys[r] = key}))])
  BY Zenon DEF parse_matrix
<1>2. \A r : filled(r) = Filled(cols, cells, r)
  BY DEF Filled
<1>3. used = Used(cols, keys, cells)
  <2> HIDE DEF filled
  <2> QED
    BY <1>2 DEF Used
<1>4. \A r : entry(r) = Entry(cols, cells, r)
  <2>1. \A r, name : {c \in filled(r) : cols[c] = name} = Under(cols, cells, r, name)
    <3> HIDE DEF filled
    <3> QED
      BY <1>2 DEF Under
  <2> HIDE DEF filled
  <2> QED
    BY <1>2, <2>1 DEF Entry
<1>5. \A key : {r \in used : keys[r] = key} = Beside(cols, keys, cells, key)
  <2> HIDE DEF used
  <2> QED
    BY <1>3 DEF Beside
<1> HIDE DEF used, entry
<1> QED
  BY <1>1, <1>3, <1>4, <1>5

(* Of the rows with one key, and of the columns with one name, there is a last. *)
LEMMA FilledRows ==
  ASSUME NEW cols, DOMAIN cols \in SUBSET Nat, IsFiniteSet(DOMAIN cols),
         NEW keys, DOMAIN keys \in SUBSET Nat, IsFiniteSet(DOMAIN keys), NEW cells
  PROVE  /\ \A key : Beside(cols, keys, cells, key) # {} =>
                Max(Beside(cols, keys, cells, key)) \in Beside(cols, keys, cells, key)
         /\ \A r, name : Under(cols, cells, r, name) # {} =>
                Max(Under(cols, cells, r, name)) \in Under(cols, cells, r, name)
<1>1. \A key : Beside(cols, keys, cells, key) \in SUBSET DOMAIN keys
  BY DEF Beside, Used
<1>2. \A r, name : Under(cols, cells, r, name) \in SUBSET DOMAIN cols
  BY DEF Under, Filled
<1>3. \A S \in SUBSET DOMAIN keys : S # {} => Max(S) \in S
  BY FS_Subset, FiniteMax
<1>4. \A S \in SUBSET DOMAIN cols : S # {} => Max(S) \in S
  BY FS_Subset, FiniteMax
<1> QED
  BY <1>1, <1>2, <1>3, <1>4

(* Every cell under a key and a column of its own is in the table, and every
   entry of the table was typed. *)
LEMMA CellsAreKept ==
  ASSUME NEW cols, DOMAIN cols \in SUBSET Nat, IsFiniteSet(DOMAIN cols),
         NEW keys, DOMAIN keys \in SUBSET Nat, IsFiniteSet(DOMAIN keys), NEW cells
  PROVE  MatrixKeepsCells(cols, keys, cells)
<1> DEFINE table == parse_matrix(cols, keys, cells)[1]
           alone(f, i) == f[i] # NoText /\ \A j \in DOMAIN f \ {i} : f[j] # f[i]
           last(key) == Max(Beside(cols, keys, cells, key))
<1> SUFFICES ASSUME parse_matrix(cols, keys, cells) # Rejected
             PROVE  /\ \A r \in DOMAIN keys, c \in DOMAIN cols :
                          alone(keys, r) /\ alone(cols, c) /\ cells[r, c] # NoText =>
                              table[keys[r]][cols[c]] = cells[r, c]
                    /\ \A key \in DOMAIN table : \A name \in DOMAIN table[key] :
                          \E r \in DOMAIN keys, c \in DOMAIN cols :
                              /\ keys[r] = key /\ cols[c] = name
                              /\ cells[r, c] = table[key][name]
  BY DEF MatrixKeepsCells
<1>1. ~ TooMany(DOMAIN cols \cup DOMAIN keys)
  BY DEF parse_matrix
<1>2. table = [key \in {keys[r] : r \in Used(cols, keys, cells)} |-> Entry(cols, cells, last(key))]
  <2>1. \A x : Some(x)[1] = x
    BY DEF Some
  <2> QED
    BY <1>1, <2>1, ParsedMatrix
<1> HIDE DEF table
<1>3. ASSUME NEW r \in DOMAIN keys, NEW c \in DOMAIN cols,
             alone(keys, r), alone(cols, c), cells[r, c] # NoText
      PROVE  table[keys[r]][cols[c]] = cells[r, c]
  <2>1. c \in Filled(cols, cells, r)
    BY <1>3 DEF Filled
  <2>2. r \in Used(cols, keys, cells)
    BY <1>3, <2>1 DEF Used
  <2>3. Beside(cols, keys, cells, keys[r]) = {r}
    BY <1>3, <2>2 DEF Beside, Used
  <2>4. Under(cols, cells, r, cols[c]) = {c}
    BY <1>3, <2>1 DEF Under, Filled
  <2>5. table[keys[r]] = Entry(cols, cells, r)
    BY <1>2, <2>2, <2>3, MaxOfOne
  <2> QED
    BY <2>1, <2>4, <2>5, MaxOfOne, ZenonT(30) DEF Entry
<1>4. ASSUME NEW key \in DOMAIN table, NEW name \in DOMAIN table[key]
      PROVE  \E r \in DOMAIN keys, c \in DOMAIN cols :
                 /\ keys[r] = key /\ cols[c] = name
                 /\ cells[r, c] = table[key][name]
  <2>1. Beside(cols, keys, cells, key) # {}
    BY <1>2 DEF Beside
  <2>2. PICK r \in Beside(cols, keys, cells, key) : r = last(key)
    BY <2>1, FilledRows
  <2>3. r \in DOMAIN keys /\ keys[r] = key
    BY <2>2 DEF Beside, Used
  <2>4. table[key] = Entry(cols, cells, r)
    BY <1>2, <2>2
  <2>5. Under(cols, cells, r, name) # {}
    BY <2>4 DEF Under, Entry
  <2>6. PICK c \in Under(cols, cells, r, name) : c = Max(Under(cols, cells, r, name))
    BY <2>5, FilledRows
  <2>7. c \in DOMAIN cols /\ cols[c] = name
    BY <2>6 DEF Under, Filled
  <2>8. table[key][name] = cells[r, c]
    BY <2>4, <2>6 DEF Entry
  <2> QED
    BY <2>3, <2>7, <2>8
<1> QED
  BY <1>3, <1>4

(* A page that shows a finite set gives its elements one index each, from 0 on. *)
LEMMA ShownSet ==
  ASSUME NEW S, IsFiniteSet(S)
  PROVE  LET f == Shown(SetToSeq(S))
         IN  /\ DOMAIN f \in SUBSET Nat /\ IsFiniteSet(DOMAIN f)
             /\ \A i \in DOMAIN f : f[i] \in S /\ i < Cardinality(S)
             /\ \A i, j \in DOMAIN f : f[i] = f[j] => i = j
             /\ \A x \in S : \E i \in DOMAIN f : f[i] = x
<1> DEFINE n == Cardinality(S)
           seq == SetToSeq(S)
           f == Shown(seq)
<1>1. n \in Nat /\ ExistsBijection(1..n, S)
  BY FS_CardinalityType
<1>2. \E g \in [1..n -> S] : IsInjective(g)
  BY <1>1 DEF ExistsBijection, Bijection, Injection
<1>3. seq \in [1..n -> S] /\ IsInjective(seq)
  BY <1>2 DEF SetToSeq
<1> HIDE DEF n, seq
<1>4. seq \in Surjection(1..n, S)
  <2>1. seq \in Injection(1..n, S)
    BY <1>3 DEF Injection
  <2>2. Cardinality(1..n) = n
    BY <1>1, FS_Interval
  <2> QED
    BY <2>1, <2>2, FS_Injection DEF n
<1>5. f = [i \in 0..(n - 1) |-> seq[i + 1]]
  <2>1. Len(seq) = n
    BY <1>1, <1>3
  <2> QED
    BY <2>1 DEF Shown
<1> HIDE DEF f
<1>6. DOMAIN f \in SUBSET Nat /\ IsFiniteSet(DOMAIN f)
  BY <1>1, <1>5, FS_Interval
<1>7. \A i \in DOMAIN f : f[i] \in S /\ i < n
  <2> SUFFICES ASSUME NEW i \in 0..(n - 1) PROVE f[i] \in S /\ i < n
    BY <1>5
  <2>1. i + 1 \in 1..n /\ i < n
    BY <1>1
  <2> QED
    BY <1>3, <1>5, <2>1
<1>8. \A i, j \in DOMAIN f : f[i] = f[j] => i = j
  <2> SUFFICES ASSUME NEW i \in 0..(n - 1), NEW j \in 0..(n - 1), f[i] = f[j] PROVE i = j
    BY <1>5
  <2>1. i + 1 \in 1..n /\ j + 1 \in 1..n
    BY <1>1
  <2>2. i + 1 = j + 1
    BY <1>3, <1>5, <2>1 DEF IsInjective
  <2> QED
    BY <2>2
<1>9. \A x \in S : \E i \in DOMAIN f : f[i] = x
  <2> SUFFICES ASSUME NEW x \in S PROVE \E i \in DOMAIN f : f[i] = x
    OBVIOUS
  <2>1. PICK k \in 1..n : seq[k] = x
    BY <1>4 DEF Surjection
  <2>2. k - 1 \in 0..(n - 1) /\ (k - 1) + 1 = k
    BY <1>1
  <2> QED
    BY <1>5, <2>1, <2>2
<1> QED
  BY <1>6, <1>7, <1>8, <1>9 DEF f, n, seq

(* The functions on a subset of D with values in S. *)
Partials(D, S) == UNION {[d -> S] : d \in SUBSET D}

(* What a key of a stored table or constant may hold. *)
Children(Keys, Strings) ==
  {Child(t) : t \in Strings} \cup {[cells |-> f] : f \in Partials(Keys, Strings)}

(* A child that is a mapping maps some of the keys to texts. *)
LEMMA CellsOfMapping ==
  ASSUME NEW Keys, NEW Strings, NEW child \in Children(Keys, Strings), IsMapping(child)
  PROVE  child.cells \in Partials(Keys, Strings)
<1>1. CASE \E t \in Strings : child = Child(t)
  BY <1>1 DEF Child, IsMapping
<1>2. CASE \E f \in Partials(Keys, Strings) : child = [cells |-> f]
  BY <1>2
<1> QED
  BY <1>1, <1>2 DEF Children

(* A stored matrix that is shown is saved as it was, without its empty rows. *)
LEMMA MatricesRoundTrip ==
  ASSUME NEW K, IsFiniteSet(K), NoText \notin K, NEW Names, IsFiniteSet(Names), NoText \notin Names,
         NEW Strings, NoText \notin Strings, NEW stored \in [K -> Children(Names, Strings)], NEW keySpecs,
         MaxIndexedEntries \in Nat
  PROVE  MatrixRoundTrips(keySpecs, stored)
<1> DEFINE columns == UNION {DOMAIN stored[r].cells : r \in DOMAIN stored}
           view == matrix_view_from_rule(keySpecs, stored)
           cols == Shown(SetToSeq(columns))
           keys == Shown(SetToSeq(K))
           cell(k, c) == IF c \in DOMAIN stored[k].cells THEN stored[k].cells[c] ELSE NoText
           cells == [p \in (DOMAIN keys) \X (DOMAIN cols) |-> cell(keys[p[1]], cols[p[2]])]
           full == {k \in K : DOMAIN stored[k].cells # {}}
<1>0. SUFFICES ASSUME view # NoView
               PROVE  parse_matrix(cols, keys, cells) = Some([k \in full |-> stored[k].cells])
  <2>1. view # NoView => view[1].columns = SetToSeq(columns) /\ view[1].rows = SetToSeq(K)
    BY DEF matrix_view_from_rule, Some
  <2> QED
    BY <2>1 DEF MatrixRoundTrips
<1>1. /\ \A r \in K : IsMapping(stored[r])
      /\ ~ (Cardinality(K) > MaxIndexedEntries) /\ ~ (Cardinality(columns) > MaxIndexedEntries)
  BY <1>0 DEF matrix_view_from_rule
<1>t. PICK table : table = [r \in K |-> stored[r].cells]
  OBVIOUS
<1>p. table \in [K -> Partials(Names, Strings)]
  BY <1>1, <1>t, CellsOfMapping
<1>c. columns = UNION {DOMAIN table[r] : r \in K}
  BY <1>t
<1>2. columns \in SUBSET Names /\ IsFiniteSet(columns)
  <2>1. columns \in SUBSET Names
    <3>1. \A r \in K : DOMAIN table[r] \in SUBSET Names
      BY <1>p DEF Partials
    <3> HIDE DEF columns
    <3> QED
      BY <1>c, <3>1
  <2> HIDE DEF columns
  <2> QED
    BY <2>1, FS_Subset
<1>3. \A r \in K : /\ table[r] = [c \in DOMAIN table[r] |-> table[r][c]]
                   /\ DOMAIN table[r] \in SUBSET columns
                   /\ \A c \in DOMAIN table[r] : table[r][c] # NoText
  <2>1. \A r \in K : \E d \in SUBSET Names : table[r] \in [d -> Strings]
    BY <1>p DEF Partials
  <2>2. \A r \in K : DOMAIN table[r] \in SUBSET columns
    <3> HIDE DEF columns
    <3> QED
      BY <1>c
  <2> HIDE DEF columns
  <2> QED
    BY <2>1, <2>2
<1>4. \A r \in K : r \in full <=> DOMAIN table[r] # {}
  BY <1>t
<1>f. full \in SUBSET K /\ [k \in full |-> stored[k].cells] = [k \in full |-> table[k]]
  BY <1>t
<1>5. Cardinality(columns) \in Nat /\ Cardinality(K) \in Nat
  BY <1>2, FS_CardinalityType
<1> HIDE DEF columns
<1>6. /\ DOMAIN cols \in SUBSET Nat /\ IsFiniteSet(DOMAIN cols)
      /\ \A i \in DOMAIN cols : cols[i] \in columns /\ i < Cardinality(columns)
      /\ \A i, j \in DOMAIN cols : cols[i] = cols[j] => i = j
      /\ \A x \in columns : \E i \in DOMAIN cols : cols[i] = x
  BY <1>2, ShownSet
<1>7. /\ DOMAIN keys \in SUBSET Nat /\ IsFiniteSet(DOMAIN keys)
      /\ \A i \in DOMAIN keys : keys[i] \in K /\ i < Cardinality(K)
      /\ \A i, j \in DOMAIN keys : keys[i] = keys[j] => i = j
      /\ \A x \in K : \E i \in DOMAIN keys : keys[i] = x
  BY ShownSet
<1>8. \A r \in DOMAIN keys, c \in DOMAIN cols :
        cells[r, c] = IF cols[c] \in DOMAIN table[keys[r]] THEN table[keys[r]][cols[c]] ELSE NoText
  <2> SUFFICES ASSUME NEW r \in DOMAIN keys, NEW c \in DOMAIN cols
               PROVE  cells[r, c] = IF cols[c] \in DOMAIN table[keys[r]]
                                    THEN table[keys[r]][cols[c]] ELSE NoText
    OBVIOUS
  <2>1. cells[r, c] = cell(keys[r], cols[c])
    OBVIOUS
  <2>2. keys[r] \in K
    BY <1>7
  <2>3. table[keys[r]] = stored[keys[r]].cells
    BY <1>t, <2>2
  <2> HIDE DEF cells, keys, cols
  <2> QED
    BY <2>1, <2>3
<1> HIDE DEF cols, keys, cells, full
<1>9. ~ TooMany(DOMAIN cols \cup DOMAIN keys)
  <2>1. \A i \in DOMAIN cols \cup DOMAIN keys : i \in Nat /\ i < MaxIndexedEntries
    BY <1>1, <1>5, <1>6, <1>7
  <2> QED
    BY <2>1 DEF TooMany
<1>10. \A r \in DOMAIN keys :
         Filled(cols, cells, r) = {c \in DOMAIN cols : cols[c] \in DOMAIN table[keys[r]]}
  <2>1. \A c \in DOMAIN cols : cols[c] # NoText
    BY <1>2, <1>6
  <2>2. \A r \in DOMAIN keys, c \in DOMAIN cols :
          cells[r, c] # NoText <=> cols[c] \in DOMAIN table[keys[r]]
    <3> SUFFICES ASSUME NEW r \in DOMAIN keys, NEW c \in DOMAIN cols
                 PROVE  cells[r, c] # NoText <=> cols[c] \in DOMAIN table[keys[r]]
      OBVIOUS
    <3>1. cells[r, c] = IF cols[c] \in DOMAIN table[keys[r]]
                        THEN table[keys[r]][cols[c]] ELSE NoText
      BY <1>8
    <3>2. keys[r] \in K
      BY <1>7
    <3>3. cols[c] \in DOMAIN table[keys[r]] => table[keys[r]][cols[c]] # NoText
      BY <1>3, <3>2
    <3> QED
      BY <3>1, <3>3
  <2> QED
    BY <2>1, <2>2 DEF Filled
<1>11. Used(cols, keys, cells) = {r \in DOMAIN keys : keys[r] \in full}
  <2>1. ASSUME NEW r \in DOMAIN keys
        PROVE  keys[r] # NoText /\ (Filled(cols, cells, r) # {} <=> keys[r] \in full)
    <3>1. ASSUME NEW x \in DOMAIN table[keys[r]]
          PROVE  \E c \in DOMAIN cols : cols[c] = x
      BY <1>3, <1>6, <1>7
    <3>2. Filled(cols, cells, r) # {} <=> DOMAIN table[keys[r]] # {}
      BY <1>10, <3>1
    <3> QED
      BY <1>4, <1>7, <3>2
  <2> QED
    BY <2>1 DEF Used
<1>12. {keys[r] : r \in Used(cols, keys, cells)} = full
  BY <1>f, <1>7, <1>11
<1>13. ASSUME NEW key \in full
       PROVE  Entry(cols, cells, Max(Beside(cols, keys, cells, key))) = table[key]
  <2>1. PICK r \in DOMAIN keys : keys[r] = key /\ key \in K
    BY <1>f, <1>7
  <2>2. Beside(cols, keys, cells, key) = {r}
    BY <1>7, <1>11, <2>1 DEF Beside
  <2>3. {cols[c] : c \in Filled(cols, cells, r)} = DOMAIN table[key]
    <3>1. \A x \in DOMAIN table[key] : \E c \in DOMAIN cols : cols[c] = x
      BY <1>3, <1>6, <2>1
    <3> QED
      BY <1>10, <2>1, <3>1
  <2>4. ASSUME NEW name \in DOMAIN table[key]
        PROVE  cells[r, Max(Under(cols, cells, r, name))] = table[key][name]
    <3>1. PICK c \in Filled(cols, cells, r) : cols[c] = name
      BY <2>3
    <3>2. c \in DOMAIN cols
      BY <1>10
    <3>3. Under(cols, cells, r, name) = {c}
      BY <1>6, <1>10, <3>1 DEF Under
    <3>4. cells[r, c] = table[key][name]
      BY <1>8, <2>1, <3>1, <3>2
    <3> QED
      BY <3>3, <3>4, MaxOfOne
  <2>5. Entry(cols, cells, r) = [name \in DOMAIN table[key] |-> table[key][name]]
    BY <2>3, <2>4 DEF Entry
  <2> QED
    BY <1>3, <2>1, <2>2, <2>5, MaxOfOne
<1>14. parse_matrix(cols, keys, cells) =
         Some([key \in full |-> Entry(cols, cells, Max(Beside(cols, keys, cells, key)))])
  BY <1>9, <1>12, ParsedMatrix
<1>15. [key \in full |-> Entry(cols, cells, Max(Beside(cols, keys, cells, key)))] =
         [key \in full |-> table[key]]
  BY <1>13
<1> QED
  BY <1>f, <1>14, <1>15

(* If there are not fewer names than rows no two rows have one name. *)
LEMMA NamedOnce ==
  ASSUME NEW I, IsFiniteSet(I), NEW f, ~ (Cardinality({f[i] : i \in I}) < Cardinality(I))
  PROVE  \A i, j \in I : f[i] = f[j] => i = j
<1> DEFINE T == {f[i] : i \in I}
           g == [i \in I |-> f[i]]
<1>1. g \in Surjection(I, T)
  BY DEF Surjection
<1>2. IsFiniteSet(T) /\ Cardinality(T) <= Cardinality(I)
  <2> HIDE DEF T, g
  <2> QED
    BY <1>1, FS_Surjection
<1>3. Cardinality(T) \in Nat /\ Cardinality(I) \in Nat
  <2> HIDE DEF T
  <2> QED
    BY <1>2, FS_CardinalityType
<1>4. Cardinality(T) = Cardinality(I)
  BY <1>2, <1>3
<1>5. g \in Injection(I, T)
  <2> HIDE DEF T, g
  <2> QED
    BY <1>1, <1>4, FS_Surjection
<1> QED
  BY <1>5 DEF Injection, IsInjective

(* Rows of the form of a constant. *)
Rows(Names, Strings) == [name : Names, cells : [CONSTANT_STATUSES -> Strings]]

(* What is in a value that is there. *)
LEMMA SomeIs == \A x : Some(x)[1] = x /\ Some(x) # Rejected /\ Some(x) # NoView
BY DEF Some, Rejected, NoView

(* What is in a mapping of a constant. *)
LEMMA MappingIs == \A x : [cells |-> x].cells = x /\ IsMapping([cells |-> x])
BY DEF IsMapping

(* There are at most as many indices below the limit as the limit says. *)
LEMMA FewIndices ==
  ASSUME NEW I \in SUBSET Nat, ~ TooMany(I), MaxIndexedEntries \in Nat
  PROVE  IsFiniteSet(I) /\ Cardinality(I) \in Nat /\ Cardinality(I) <= MaxIndexedEntries
<1>1. PICK m \in Int : m = MaxIndexedEntries - 1
  OBVIOUS
<1>2. IsFiniteSet(0..m) /\ Cardinality(0..m) = IF 0 > m THEN 0 ELSE m - 0 + 1
  BY FS_Interval
<1>3. (IF 0 > m THEN 0 ELSE m - 0 + 1) = MaxIndexedEntries
  BY <1>1
<1>4. I \in SUBSET (0..m)
  <2>1. \A i \in I : i \in Nat /\ ~ (i >= MaxIndexedEntries)
    BY DEF TooMany
  <2>2. \A i \in I : i \in 0..m
    BY <1>1, <2>1
  <2> QED
    BY <2>2
<1>5. IsFiniteSet(I) /\ Cardinality(I) <= MaxIndexedEntries
  BY <1>2, <1>3, <1>4, FS_Subset, ZenonT(30)
<1> QED
  BY <1>5, FS_CardinalityType

(* A constant that is accepted shows the rows that were typed; a refused form
   shows those below the limit again. *)
LEMMA ConstantsAreKept ==
  ASSUME NEW Names, NEW Strings, NEW D \in SUBSET Nat, IsFiniteSet(D),
         NEW rows \in [D -> Rows(Names, Strings)],
         MaxIndexedEntries \in Nat, CONSTANT_STATUSES # {},
         Cardinality(CONSTANT_STATUSES) <= MaxIndexedEntries
  PROVE  ConstantKeepsRows(rows)
<1> DEFINE groups == {i \in DOMAIN rows : ~ Blank(rows[i])}
           names == {rows[i].name : i \in groups}
           typed == {rows[i] : i \in groups}
           of(n) == rows[CHOOSE i \in groups : rows[i].name = n]
<1>1. groups \in SUBSET Nat /\ IsFiniteSet(groups) /\ groups \in SUBSET D
  BY FS_Subset
<1>2. \A i \in D : /\ rows[i] = [name |-> rows[i].name, cells |-> rows[i].cells]
                   /\ rows[i].cells = [s \in CONSTANT_STATUSES |-> rows[i].cells[s]]
  BY DEF Rows
<1>3. parse_constant_form(rows) =
        IF TooMany(DOMAIN rows) \/ groups = {} \/ (\E i \in groups : ~ Complete(rows[i]))
           \/ (NoText \in names /\ Cardinality(groups) > 1)
            \/ Cardinality(names) < Cardinality(groups)
        THEN Rejected
        ELSE IF names = {NoText}
        THEN Some([s \in CONSTANT_STATUSES |-> Child(rows[CHOOSE i \in groups : TRUE].cells[s])])
        ELSE Some([n \in names |-> [cells |-> of(n).cells]])
  BY Zenon DEF parse_constant_form
<1>4. CASE parse_constant_form(rows) = Rejected
  <2> DEFINE near == {i \in groups : ~ TooMany({i})}
  <2> SUFFICES ToSet(constant_groups_from_form(rows)) = {rows[i] : i \in near}
    BY <1>4 DEF ConstantKeepsRows
  <2>1. {i \in D : i < MaxIndexedEntries /\ ~ Blank(rows[i])} = near
    BY BelowLimit
  <2>2. constant_groups_from_form(rows) = InOrder(rows, near)
    BY <2>1 DEF constant_groups_from_form
  <2>n. near \in SUBSET Nat /\ IsFiniteSet(near)
    <3> HIDE DEF groups
    <3> QED
      BY <1>1, FS_Subset
  <2>3. /\ DOMAIN InOrder(rows, near) = 1..Cardinality(near)
        /\ \A i \in near : Rank(near, i) \in 1..Cardinality(near)
        /\ \A i \in near : InOrder(rows, near)[Rank(near, i)] = rows[i]
        /\ \A k \in 1..Cardinality(near) : \E i \in near : InOrder(rows, near)[k] = rows[i]
    <3> HIDE DEF near
    <3> QED
      BY <2>n, Ranks, RowsInOrder
  <2> HIDE DEF near
  <2>4. ToSet(InOrder(rows, near)) = {InOrder(rows, near)[k] : k \in 1..Cardinality(near)}
    BY <2>3 DEF ToSet
  <2> QED
    BY <2>2, <2>3, <2>4
<1>5. CASE parse_constant_form(rows) # Rejected
  <2>1. /\ ~ TooMany(D) /\ groups # {} /\ ~ (NoText \in names /\ Cardinality(groups) > 1)
        /\ ~ (Cardinality(names) < Cardinality(groups))
    BY <1>3, <1>5
  <2>2. \A i, j \in groups : rows[i].name = rows[j].name => i = j
    <3>1. PICK f : f = [i \in groups |-> rows[i].name]
      OBVIOUS
    <3>2. {f[i] : i \in groups} = names
      BY <3>1
    <3>3. \A i, j \in groups : f[i] = f[j] => i = j
      <4> HIDE DEF groups, names
      <4> QED
        BY <1>1, <2>1, <3>2, NamedOnce
    <3> QED
      BY <3>1, <3>3
  <2>3. PICK value : parse_constant_form(rows) = Some(value)
    BY <1>3, <1>5
  <2> SUFFICES constant_view_groups(value) = Some(typed)
    BY <1>5, <2>3, SomeIs DEF ConstantKeepsRows
  <2> DEFINE mappings == {k \in DOMAIN value : IsMapping(value[k])}
  <2>4. CASE names = {NoText}
    <3>1. PICK i \in groups : i = CHOOSE j \in groups : TRUE
      BY <2>1
    <3>2. value = [s \in CONSTANT_STATUSES |-> Child(rows[i].cells[s])]
      BY <1>3, <1>5, <2>3, <2>4, <3>1, SomeIs
    <3>3. rows[i].name = NoText
      BY <2>4
    <3>4. typed = {rows[i]}
      BY <2>2, <2>4, <3>3
    <3>5. DOMAIN value = CONSTANT_STATUSES /\
          \A s \in CONSTANT_STATUSES : value[s].text = rows[i].cells[s] /\ ~ IsMapping(value[s])
      BY <3>2 DEF Child, IsMapping
    <3>6. mappings = {} /\ mappings # DOMAIN value /\ DOMAIN value # {}
      BY <3>5
    <3>7. Cardinality(DOMAIN value) <= MaxIndexedEntries /\ _constant_cells_view(value)
      BY <3>5 DEF _constant_cells_view
    <3>8. [k \in DOMAIN value |-> value[k].text] = rows[i].cells
      BY <1>2, <3>5
    <3>9. rows[i] = [name |-> NoText, cells |-> [k \in DOMAIN value |-> value[k].text]]
      BY <1>2, <3>3, <3>8
    <3>10. constant_view_groups(value) =
             Some({[name |-> NoText, cells |-> [k \in DOMAIN value |-> value[k].text]]})
      BY <3>6, <3>7 DEF constant_view_groups
    <3> QED
      BY <3>4, <3>9, <3>10
  <2>5. CASE names # {NoText}
    <3>1. value = [n \in names |-> [cells |-> of(n).cells]]
      BY <1>3, <1>5, <2>3, <2>5, SomeIs
    <3>2. \A i \in groups : of(rows[i].name) = rows[i]
      BY <2>2
    <3>3. \A i \in groups : value[rows[i].name] = [cells |-> rows[i].cells]
      BY <3>1, <3>2
    <3>4. DOMAIN value = names /\ names # {}
      BY <2>1, <3>1
    <3>n. \A k \in names : \E i \in groups : k = rows[i].name
      OBVIOUS
    <3>g. \A i \in groups : i \in D /\ rows[i].name \in names
      OBVIOUS
    <3> HIDE DEF groups, of, names
    <3>5. mappings = DOMAIN value
      <4>1. \A i \in groups : IsMapping(value[rows[i].name])
        BY <3>3, MappingIs
      <4>2. \A k \in names : IsMapping(value[k])
        BY <3>n, <4>1
      <4> QED
        BY <3>4, <4>2
    <3>6. Cardinality(names) <= MaxIndexedEntries
      <4>1. PICK g : g = [i \in groups |-> rows[i].name]
        OBVIOUS
      <4>2. g \in Surjection(groups, names)
        <5>1. g \in [groups -> names]
          BY <3>g, <4>1
        <5>2. \A n \in names : \E i \in groups : g[i] = n
          BY <3>n, <4>1
        <5> QED
          BY <5>1, <5>2 DEF Surjection
      <4>3. IsFiniteSet(names) /\ Cardinality(names) <= Cardinality(groups)
        <5> HIDE DEF names
        <5> QED
          BY <1>1, <4>2, FS_Surjection
      <4>4. groups \in SUBSET Nat /\ ~ TooMany(groups)
        BY <1>1, <2>1 DEF TooMany
      <4>5. Cardinality(groups) <= MaxIndexedEntries
        BY <4>4, FewIndices
      <4>6. Cardinality(names) \in Nat /\ Cardinality(groups) \in Nat
        <5> HIDE DEF names
        <5> QED
          BY <1>1, <4>3, FS_CardinalityType
      <4> QED
        BY <4>3, <4>5, <4>6
    <3>7. \A k \in mappings : _constant_cells_view(value[k].cells)
      <4>1. \A i \in groups : DOMAIN rows[i].cells = CONSTANT_STATUSES
        BY <1>2, <3>g
      <4>2. \A i \in groups : value[rows[i].name].cells = rows[i].cells
        BY <3>3, MappingIs
      <4>3. \A k \in names : DOMAIN value[k].cells = CONSTANT_STATUSES
        BY <3>n, <4>1, <4>2
      <4> QED
        BY <3>4, <3>5, <4>3 DEF _constant_cells_view
    <3>8. constant_view_groups(value) =
            Some({[name |-> k, cells |-> value[k].cells] : k \in mappings})
      BY <3>4, <3>5, <3>6, <3>7 DEF constant_view_groups
    <3>9. {[name |-> k, cells |-> value[k].cells] : k \in mappings} = typed
      <4>1. \A i \in groups : rows[i] = [name |-> rows[i].name, cells |-> value[rows[i].name].cells]
        <5>1. \A i \in groups : value[rows[i].name].cells = rows[i].cells
          BY <3>3, MappingIs
        <5> QED
          BY <1>2, <3>g, <5>1
      <4>2. \A k \in mappings : \E i \in groups : [name |-> k, cells |-> value[k].cells] = rows[i]
        BY <3>n, <3>4, <4>1
      <4>3. \A i \in groups : rows[i].name \in mappings
        BY <3>g, <3>4, <3>5
      <4>4. \A i \in groups : \E k \in mappings : rows[i] = [name |-> k, cells |-> value[k].cells]
        BY <4>1, <4>3
      <4>5. typed = {rows[i] : i \in groups}
        BY DEF groups
      <4> DEFINE row(k) == [name |-> k, cells |-> value[k].cells]
                 shown == {row(k) : k \in mappings}
      <4>6. \A x \in shown : x \in typed
        BY <4>2, <4>5
      <4>7. \A x \in typed : x \in shown
        <5>1. \A i \in groups : \E k \in mappings : rows[i] = row(k)
          BY <4>4
        <5> HIDE DEF row, mappings
        <5> QED
          BY <4>5, <5>1
      <4> HIDE DEF shown, typed
      <4>8. shown = typed
        BY <4>6, <4>7
      <4> QED
        BY <4>8 DEF shown
    <3> QED
      BY <3>8, <3>9
  <2> QED
    BY <2>4, <2>5
<1> QED
  BY <1>4, <1>5

(* The rows that are not blank, and the one among them with a given name. *)
Groups(rows) == {i \in DOMAIN rows : ~ Blank(rows[i])}

Named(rows, n) == CHOOSE i \in Groups(rows) : rows[i].name = n

(* What parse_constant_form makes of a form it accepts. *)
LEMMA ParsedConstant ==
  ASSUME NEW rows, parse_constant_form(rows) # Rejected
  PROVE  /\ Groups(rows) # {} /\ \A i \in Groups(rows) : Complete(rows[i])
         /\ {rows[i].name : i \in Groups(rows)} = {NoText} =>
              parse_constant_form(rows) =
                Some([s \in CONSTANT_STATUSES |->
                        Child(rows[CHOOSE i \in Groups(rows) : TRUE].cells[s])])
         /\ {rows[i].name : i \in Groups(rows)} # {NoText} =>
              parse_constant_form(rows) =
                Some([n \in {rows[i].name : i \in Groups(rows)} |->
                        [cells |-> rows[Named(rows, n)].cells]])
BY Zenon DEF parse_constant_form, Groups, Named

(* The cells of a row as the form shows them. *)
Padded(f) == [s \in CONSTANT_STATUSES |-> IF s \in DOMAIN f THEN f[s] ELSE NoText]

(* A child of a constant is a mapping or a text. *)
LEMMA ChildrenAre ==
  ASSUME NEW Keys, NEW Strings, NEW child \in Children(Keys, Strings)
  PROVE  IF IsMapping(child)
         THEN /\ child = [cells |-> child.cells]
              /\ child.cells = [k \in DOMAIN child.cells |-> child.cells[k]]
         ELSE child = Child(child.text)
<1>1. CASE \E t \in Strings : child = Child(t)
  BY <1>1 DEF Child, IsMapping
<1>2. CASE \E f \in Partials(Keys, Strings) : child = [cells |-> f]
  <2>1. PICK f \in Partials(Keys, Strings) : child = [cells |-> f]
    BY <1>2
  <2>2. PICK d \in SUBSET Keys : f \in [d -> Strings]
    BY DEF Partials
  <2>3. f = [k \in DOMAIN f |-> f[k]]
    BY <2>2
  <2> QED
    BY <2>1, <2>3, MappingIs
<1> QED
  BY <1>1, <1>2 DEF Children

PaddedRow(name, cells) == [name |-> name, cells |-> Padded(cells)]

(* Cells shown with no blank among them are the cells that were stored. *)
LEMMA PaddedIs ==
  ASSUME NEW f, f = [s \in DOMAIN f |-> f[s]], DOMAIN f \subseteq CONSTANT_STATUSES,
         \A s \in CONSTANT_STATUSES : Padded(f)[s] # NoText
  PROVE  Padded(f) = f /\ DOMAIN f = CONSTANT_STATUSES
<1>1. DOMAIN f = CONSTANT_STATUSES
  BY DEF Padded
<1> QED
  BY <1>1 DEF Padded

(* A constant of mappings, shown and accepted again, is the one it was. *)
LEMMA MappingsBack ==
  ASSUME NEW K, NoText \notin K, NEW value, value = [k \in K |-> [cells |-> value[k].cells]],
         \A k \in K : /\ value[k].cells = [s \in DOMAIN value[k].cells |-> value[k].cells[s]]
                      /\ DOMAIN value[k].cells \subseteq CONSTANT_STATUSES,
         NEW form, parse_constant_form(form) # Rejected,
         \A i \in DOMAIN form : \E k \in K : form[i] = PaddedRow(k, value[k].cells),
         \A k \in K : \E i \in DOMAIN form : form[i] = PaddedRow(k, value[k].cells)
  PROVE  parse_constant_form(form) = Some(value)
<1> DEFINE at(k) == Named(form, k)
<1>0. \A name, cells : PaddedRow(name, cells).name = name /\ PaddedRow(name, cells).cells = Padded(cells)
  BY DEF PaddedRow
<1>n. \A i \in DOMAIN form : form[i].name \in K
  <2> SUFFICES ASSUME NEW i \in DOMAIN form PROVE form[i].name \in K
    OBVIOUS
  <2>1. PICK k \in K : form[i] = PaddedRow(k, value[k].cells)
    OBVIOUS
  <2>2. form[i].name = k
    BY <1>0, <2>1
  <2> QED
    BY <2>2
<1>1. Groups(form) = DOMAIN form
  <2>1. \A i \in DOMAIN form : form[i].name # NoText
    BY <1>n
  <2> QED
    BY <2>1 DEF Groups, Blank
<1>r. \A k \in K : \E i \in DOMAIN form : form[i].name = k
  <2> SUFFICES ASSUME NEW k \in K PROVE \E i \in DOMAIN form : form[i].name = k
    OBVIOUS
  <2>1. PICK i \in DOMAIN form : form[i] = PaddedRow(k, value[k].cells)
    OBVIOUS
  <2>2. form[i].name = k
    BY <1>0, <2>1
  <2> QED
    BY <2>2
<1>2. {form[i].name : i \in DOMAIN form} = K
  BY <1>n, <1>r
<1>3. \A k \in K : Padded(value[k].cells) = value[k].cells
  <2> SUFFICES ASSUME NEW k \in K PROVE Padded(value[k].cells) = value[k].cells
    OBVIOUS
  <2>1. PICK i \in DOMAIN form : form[i] = PaddedRow(k, value[k].cells)
    OBVIOUS
  <2>2. Complete(form[i])
    BY <1>1, ParsedConstant
  <2>3. \A s \in CONSTANT_STATUSES : Padded(value[k].cells)[s] # NoText
    BY <1>0, <2>1, <2>2 DEF Complete
  <2> QED
    BY <2>3, PaddedIs
<1>4. \A k \in K : form[at(k)].cells = value[k].cells
  <2> SUFFICES ASSUME NEW k \in K PROVE form[at(k)].cells = value[k].cells
    OBVIOUS
  <2>1. \E i \in DOMAIN form : form[i].name = k
    BY <1>r
  <2>2. at(k) \in DOMAIN form /\ form[at(k)].name = k
    BY <1>1, <2>1 DEF Named
  <2> HIDE DEF at
  <2>3. PICK l \in K : form[at(k)] = PaddedRow(l, value[l].cells)
    BY <2>2
  <2>4. l = k
    BY <1>0, <2>2, <2>3
  <2> QED
    BY <1>0, <1>3, <2>3, <2>4
<1>5. parse_constant_form(form) = Some([n \in K |-> [cells |-> form[at(n)].cells]])
  <2>1. K # {NoText}
    OBVIOUS
  <2>2. parse_constant_form(form) =
          Some([n \in {form[i].name : i \in Groups(form)} |->
                  [cells |-> form[Named(form, n)].cells]])
    <3>1. {form[i].name : i \in Groups(form)} # {NoText}
      BY <1>1, <1>2, <2>1
    <3> QED
      BY <3>1, ParsedConstant, Zenon
  <2> QED
    BY <1>1, <1>2, <2>2
<1> HIDE DEF at
<1>6. [n \in K |-> [cells |-> form[at(n)].cells]] = [k \in K |-> [cells |-> value[k].cells]]
  BY <1>4
<1> QED
  BY <1>5, <1>6

(* A constant of texts, shown and accepted again, is the one it was. *)
LEMMA FlatBack ==
  ASSUME NEW K, NEW value, value = [k \in K |-> Child(value[k].text)],
         K \subseteq CONSTANT_STATUSES,
         NEW form, parse_constant_form(form) # Rejected,
         \A i \in DOMAIN form : form[i] = PaddedRow(NoText, [k \in K |-> value[k].text])
  PROVE  parse_constant_form(form) = Some(value)
<1>0. PICK flat : flat = [k \in K |-> value[k].text]
  OBVIOUS
<1>1. \A i \in DOMAIN form : form[i].name = NoText /\ form[i].cells = Padded(flat)
  BY <1>0 DEF PaddedRow
<1>2. \A i \in Groups(form) : i \in DOMAIN form
  BY DEF Groups
<1>3. PICK i \in Groups(form) : i = CHOOSE j \in Groups(form) : TRUE
  BY ParsedConstant
<1>4. {form[j].name : j \in Groups(form)} = {NoText}
  BY <1>1, <1>2, <1>3
<1>5. parse_constant_form(form) = Some([s \in CONSTANT_STATUSES |-> Child(form[i].cells[s])])
  <2>1. parse_constant_form(form) =
          Some([s \in CONSTANT_STATUSES |-> Child(form[CHOOSE j \in Groups(form) : TRUE].cells[s])])
    BY <1>4, ParsedConstant
  <2> QED
    BY <1>3, <2>1
<1>6. form[i].cells = Padded(flat) /\ Complete(form[i])
  BY <1>1, <1>2, ParsedConstant
<1>7. Padded(flat) = flat /\ K = CONSTANT_STATUSES
  <2>1. flat = [k \in DOMAIN flat |-> flat[k]] /\ DOMAIN flat = K
    BY <1>0
  <2>2. \A s \in CONSTANT_STATUSES : Padded(flat)[s] # NoText
    BY <1>6 DEF Complete
  <2> QED
    BY <2>1, <2>2, PaddedIs
<1>8. [s \in CONSTANT_STATUSES |-> Child(form[i].cells[s])] = [k \in K |-> Child(value[k].text)]
  <2>1. \A s \in K : form[i].cells[s] = value[s].text
    BY <1>0, <1>6, <1>7
  <2> QED
    BY <1>7, <2>1
<1> QED
  BY <1>5, <1>8

(* A stored constant that is shown is saved as it was or not at all. *)
LEMMA ConstantsRoundTrip ==
  ASSUME NEW K, IsFiniteSet(K), NoText \notin K, NEW Keys, NEW Strings,
         NEW value \in [K -> Children(Keys, Strings)]
  PROVE  ConstantRoundTrips(value)
<1> DEFINE view == constant_view_groups(value)
           mappings == {k \in DOMAIN value : IsMapping(value[k])}
           whole(row) == [row EXCEPT !.cells = [s \in CONSTANT_STATUSES |->
                             IF s \in DOMAIN row.cells THEN row.cells[s] ELSE NoText]]
           S == {whole(row) : row \in view[1]}
<1>0. PICK form : form = Shown(SetToSeq(S))
  OBVIOUS
<1> SUFFICES ASSUME view # NoView, parse_constant_form(form) # Rejected
             PROVE  parse_constant_form(form) = Some(value)
  BY <1>0, Zenon DEF ConstantRoundTrips
<1>1. \A k \in K : value[k] \in Children(Keys, Strings)
  OBVIOUS
<1>2. value = [k \in K |-> value[k]] /\ DOMAIN value = K
  OBVIOUS
<1>w. \A name, cells : whole([name |-> name, cells |-> cells]) = PaddedRow(name, cells)
  BY DEF PaddedRow, Padded
<1>3. CASE K = {}
  <2>1. view = Some({})
    <3>1. DOMAIN value = {} /\ {[name |-> k, cells |-> value[k].cells] : k \in mappings} = {}
      BY <1>2, <1>3
    <3> QED
      BY <3>1 DEF constant_view_groups
  <2>2. S = {}
    BY <2>1, SomeIs
  <2>3. DOMAIN form = {}
    BY <1>0, <2>2, FS_EmptySet, ShownSet
  <2> QED
    BY <2>3, ParsedConstant DEF Groups
<1>4. CASE K # {} /\ mappings = K
  <2>1. /\ \A k \in K : _constant_cells_view(value[k].cells)
        /\ view = Some({[name |-> k, cells |-> value[k].cells] : k \in K})
    BY <1>2, <1>4 DEF constant_view_groups
  <2>2. view[1] = {[name |-> k, cells |-> value[k].cells] : k \in K}
    BY <2>1, SomeIs
  <2> HIDE DEF whole
  <2>3. S = {PaddedRow(k, value[k].cells) : k \in K}
    <3>1. \A x \in S : \E k \in K : x = PaddedRow(k, value[k].cells)
      BY <1>w, <2>2
    <3>2. \A k \in K : PaddedRow(k, value[k].cells) \in S
      <4>1. \A k \in K : [name |-> k, cells |-> value[k].cells] \in view[1]
        BY <2>2
      <4>2. \A r \in view[1] : whole(r) \in S
        OBVIOUS
      <4> HIDE DEF view, S
      <4> QED
        BY <1>w, <4>1, <4>2
    <3> HIDE DEF S
    <3> QED
      BY <3>1, <3>2
  <2> HIDE DEF S
  <2>4. IsFiniteSet(S)
    <3>1. PICK g : g = [k \in K |-> PaddedRow(k, value[k].cells)]
      OBVIOUS
    <3>2. g \in [K -> S] /\ \A x \in S : \E k \in K : g[k] = x
      BY <2>3, <3>1
    <3>3. g \in Surjection(K, S)
      BY <3>2 DEF Surjection
    <3> QED
      BY <3>3, FS_Surjection
  <2>5. /\ \A i \in DOMAIN form : form[i] \in S
        /\ \A x \in S : \E i \in DOMAIN form : form[i] = x
    BY <1>0, <2>4, ShownSet
  <2>6. \A k \in K : /\ value[k] = [cells |-> value[k].cells]
                     /\ value[k].cells = [s \in DOMAIN value[k].cells |-> value[k].cells[s]]
    BY <1>1, <1>4, ChildrenAre
  <2>7. value = [k \in K |-> [cells |-> value[k].cells]]
    BY <1>2, <2>6
  <2>8. \A k \in K : DOMAIN value[k].cells \subseteq CONSTANT_STATUSES
    BY <2>1 DEF _constant_cells_view
  <2>9. \A i \in DOMAIN form : \E k \in K : form[i] = PaddedRow(k, value[k].cells)
    BY <2>3, <2>5
  <2>10. \A k \in K : \E i \in DOMAIN form : form[i] = PaddedRow(k, value[k].cells)
    BY <2>3, <2>5
  <2> QED
    BY <2>6, <2>7, <2>8, <2>9, <2>10, MappingsBack
<1>5. CASE K # {} /\ mappings # K
  <2>1. /\ mappings = {} /\ _constant_cells_view(value)
        /\ view = Some({[name |-> NoText, cells |-> [k \in K |-> value[k].text]]})
    BY <1>2, <1>5 DEF constant_view_groups
  <2>2. view[1] = {[name |-> NoText, cells |-> [k \in K |-> value[k].text]]}
    BY <2>1, SomeIs
  <2> HIDE DEF whole
  <2>3. S = {PaddedRow(NoText, [k \in K |-> value[k].text])}
    BY <1>w, <2>2
  <2> HIDE DEF S
  <2>4. IsFiniteSet(S)
    BY <2>3, FS_Singleton
  <2>5. \A i \in DOMAIN form : form[i] \in S
    BY <1>0, <2>4, ShownSet
  <2>6. \A i \in DOMAIN form : form[i] = PaddedRow(NoText, [k \in K |-> value[k].text])
    BY <2>3, <2>5
  <2>7. \A k \in K : value[k] = Child(value[k].text)
    BY <1>1, <1>2, <2>1, ChildrenAre
  <2>8. value = [k \in K |-> Child(value[k].text)]
    BY <1>2, <2>7
  <2>9. K \subseteq CONSTANT_STATUSES
    BY <1>2, <2>1 DEF _constant_cells_view
  <2> QED
    BY <2>6, <2>8, <2>9, FlatBack
<1> QED
  BY <1>3, <1>4, <1>5

-----------------------------------------------------------------------------
(* Sums.                                                                   *)

(* A stored list of references within the limit is shown as it is. *)
LEMMA RefsShown ==
  ASSUME NEW refs, NEW n \in Nat, DOMAIN refs = 1..n, refs = [k \in 1..n |-> refs[k]],
         n <= MaxIndexedEntries, MaxIndexedEntries \in Nat,
         NEW items, items.specs = [k \in DOMAIN refs |-> Ref(refs[k])]
  PROVE  sum_items_from_rule(items) = Some(refs)
<1>1. DOMAIN items.specs = 1..n /\ Len(items.specs) = n
  OBVIOUS
<1>2. \A k \in 1..n : _ref_string(items.specs[k]) = Some(refs[k])
  BY DEF _ref_string, Ref
<1>3. [k \in DOMAIN items.specs |-> _ref_string(items.specs[k])[1]] = refs
  <2>1. \A k \in 1..n : _ref_string(items.specs[k])[1] = refs[k]
    BY <1>2, SomeIs
  <2> QED
    BY <1>1, <2>1
<1>4. ~ (Len(items.specs) > MaxIndexedEntries)
  BY <1>1
<1>5. ~ \E k \in DOMAIN items.specs : _ref_string(items.specs[k]) = NoView
  BY <1>1, <1>2, SomeIs
<1> QED
  BY <1>3, <1>4, <1>5 DEF sum_items_from_rule

(* The references of the rows typed. *)
RefsOf(rows, typed) == [k \in 1..Cardinality(typed) |-> Ref(InOrder(rows, typed)[k])]

(* What parse_rule_form makes of a sum within the limit. *)
LEMMA ParsedSum ==
  ASSUME NEW rows, DOMAIN rows \in SUBSET Nat, NEW fallback, MaxIndexedEntries \in Nat,
         ~ TooMany(DOMAIN rows), NEW typed, typed = {i \in DOMAIN rows : rows[i] # NoText}
  PROVE  /\ IsFiniteSet(typed) /\ typed \in SUBSET Nat
         /\ Cardinality(typed) \in Nat /\ Cardinality(typed) <= MaxIndexedEntries
         /\ parse_sum(rows, fallback) # Rejected
         /\ typed = {} => parse_sum(rows, fallback)[1].specs = <<Ref(fallback)>>
         /\ typed # {} => parse_sum(rows, fallback)[1].specs = RefsOf(rows, typed)
<1>1. typed \in SUBSET Nat /\ ~ TooMany(typed)
  BY DEF TooMany
<1>2. IsFiniteSet(typed) /\ Cardinality(typed) \in Nat /\ Cardinality(typed) <= MaxIndexedEntries
  BY <1>1, FewIndices
<1>3. PICK refs : refs = InOrder(rows, typed)
  OBVIOUS
<1>4. DOMAIN refs = 1..Cardinality(typed) /\ Len(refs) = Cardinality(typed)
  BY <1>1, <1>2, <1>3, RowsInOrder
<1>5. refs = <<>> <=> typed = {}
  <2>1. typed = {} <=> Cardinality(typed) = 0
    BY <1>2, FS_EmptySet
  <2>2. refs = [k \in 1..Cardinality(typed) |-> refs[k]]
    BY <1>3, <1>4 DEF InOrder
  <2>3. Cardinality(typed) = 0 => refs = <<>>
    <3>1. PICK S : S = {refs[k] : k \in 1..Cardinality(typed)}
      OBVIOUS
    <3>2. refs \in [1..Cardinality(typed) -> S]
      BY <2>2, <3>1
    <3>3. refs \in Seq(S)
      BY <1>2, <3>2, SeqDef, ZenonT(30)
    <3> QED
      BY <1>4, <3>3, EmptySeq
  <2>4. refs = <<>> => Cardinality(typed) = 0
    BY <1>2, <1>4
  <2> QED
    BY <2>1, <2>3, <2>4
<1>6. parse_sum(rows, fallback) =
        Some(IF refs = <<>> THEN [list |-> FALSE, specs |-> <<Ref(fallback)>>]
             ELSE [list  |-> Len(refs) > 1,
                   specs |-> [k \in DOMAIN refs |-> Ref(refs[k])]])
  BY <1>3 DEF parse_sum
<1>7. typed = {} => parse_sum(rows, fallback)[1].specs = <<Ref(fallback)>>
  BY <1>5, <1>6, SomeIs
<1>8. typed # {} => parse_sum(rows, fallback)[1].specs = [k \in DOMAIN refs |-> Ref(refs[k])]
  BY <1>5, <1>6, SomeIs
<1> QED
  BY <1>1, <1>2, <1>3, <1>4, <1>6, <1>7, <1>8, SomeIs DEF RefsOf

(* A sum that is accepted shows every reference that was typed, in order. *)
LEMMA SumsAreKept ==
  ASSUME NEW rows, DOMAIN rows \in SUBSET Nat, NEW fallback, MaxIndexedEntries \in Nat \ {0}
  PROVE  SumKeepsItems(rows, fallback)
<1>0. MaxIndexedEntries \in Nat /\ 1 <= MaxIndexedEntries
  OBVIOUS
<1>1. PICK typed : typed = {i \in DOMAIN rows : rows[i] # NoText}
  OBVIOUS
<1> DEFINE items == parse_sum(rows, fallback)[1]
           n == Cardinality(typed)
<1> SUFFICES ASSUME ~ TooMany(DOMAIN rows)
             PROVE  IF typed = {} THEN sum_items_from_rule(items) = Some(<<fallback>>)
                    ELSE /\ sum_items_from_rule(items) # NoView
                         /\ Lists(sum_items_from_rule(items)[1], rows, typed)
  <2>1. parse_sum(rows, fallback) # Rejected => ~ TooMany(DOMAIN rows)
    BY DEF parse_sum
  <2> QED
    BY <1>1, <2>1, Zenon DEF SumKeepsItems
<1>2. /\ IsFiniteSet(typed) /\ typed \in SUBSET Nat /\ n \in Nat /\ n <= MaxIndexedEntries
      /\ typed = {} => items.specs = <<Ref(fallback)>>
      /\ typed # {} => items.specs = RefsOf(rows, typed)
  <2>1. MaxIndexedEntries \in Nat /\ DOMAIN rows \in SUBSET Nat /\ ~ TooMany(DOMAIN rows)
    BY <1>0
  <2> QED
    <3>1. IsFiniteSet(typed) /\ typed \in SUBSET Nat /\ n \in Nat /\ n <= MaxIndexedEntries
      BY <1>1, <2>1, ParsedSum
    <3>2. typed = {} => items.specs = <<Ref(fallback)>>
      BY <1>1, <2>1, ParsedSum
    <3>3. typed # {} => items.specs = RefsOf(rows, typed)
      BY <1>1, <2>1, ParsedSum
    <3> QED
      BY <3>1, <3>2, <3>3
<1> HIDE DEF items, n
<1>3. CASE typed = {}
  <2>1. PICK refs : refs = <<fallback>>
    OBVIOUS
  <2>2. DOMAIN refs = 1..1 /\ refs = [k \in 1..1 |-> refs[k]] /\ refs[1] = fallback
    BY <2>1
  <2>3. items.specs = [k \in DOMAIN refs |-> Ref(refs[k])]
    BY <1>2, <1>3, <2>2
  <2>4. sum_items_from_rule(items) = Some(refs)
    BY <1>0, <2>2, <2>3, RefsShown
  <2> QED
    BY <1>3, <2>1, <2>4
<1>4. CASE typed # {}
  <2>1. PICK refs : refs = InOrder(rows, typed)
    OBVIOUS
  <2>2. /\ DOMAIN refs = 1..n /\ Len(refs) = n
        /\ \A i \in typed : refs[Rank(typed, i)] = rows[i]
    BY <1>2, <2>1, RowsInOrder DEF n
  <2>3. refs = [k \in 1..n |-> refs[k]]
    BY <2>1, <2>2 DEF InOrder, n
  <2>4. items.specs = [k \in DOMAIN refs |-> Ref(refs[k])]
    BY <1>2, <1>4, <2>1, <2>2 DEF RefsOf, n
  <2>5. sum_items_from_rule(items) = Some(refs)
    BY <1>0, <1>2, <2>2, <2>3, <2>4, RefsShown
  <2>6. Lists(refs, rows, typed)
    BY <2>2 DEF Lists, n
  <2> QED
    BY <1>4, <2>5, <2>6, SomeIs
<1> QED
  BY <1>3, <1>4

(* Counting from 1 instead of 0 changes no cardinality. *)
LEMMA OneOn ==
  ASSUME NEW A \in SUBSET Int, IsFiniteSet(A), NEW B, B = {a + 1 : a \in A}
  PROVE  Cardinality(B) = Cardinality(A)
<1>1. PICK f : f = [a \in A |-> a + 1]
  OBVIOUS
<1>2. f \in [A -> B] /\ (\A b \in B : \E a \in A : f[a] = b)
  BY <1>1
<1>3. \A a, c \in A : f[a] = f[c] => a = c
  <2> SUFFICES ASSUME NEW a \in A, NEW c \in A, f[a] = f[c] PROVE a = c
    OBVIOUS
  <2>1. a \in Int /\ c \in Int /\ a + 1 = c + 1
    BY <1>1
  <2> QED
    BY <2>1
<1>4. f \in Bijection(A, B)
  BY <1>2, <1>3 DEF Bijection, Injection, Surjection, IsInjective
<1> QED
  BY <1>4, FS_Bijection DEF ExistsBijection

(* Nor any rank. *)
LEMMA ShiftedRanks ==
  ASSUME NEW A \in SUBSET Nat, IsFiniteSet(A), NEW B, B = {a + 1 : a \in A}
  PROVE  /\ Cardinality(B) = Cardinality(A)
         /\ \A a \in A : Rank(B, a + 1) = Rank(A, a)
<1>1. Cardinality(B) = Cardinality(A)
  BY OneOn
<1>2. ASSUME NEW a \in A PROVE Rank(B, a + 1) = Rank(A, a)
  <2>1. PICK U : U = {j \in A : j <= a}
    OBVIOUS
  <2>2. PICK V : V = {j \in B : j <= a + 1}
    OBVIOUS
  <2>3. U \in SUBSET Int /\ IsFiniteSet(U)
    <3>1. U \in SUBSET A
      BY <2>1
    <3>2. U \in SUBSET Int
      BY <3>1
    <3>3. IsFiniteSet(U)
      BY <3>1, FS_Subset
    <3> QED
      BY <3>2, <3>3
  <2>4. V = {j + 1 : j \in U}
    <3>1. \A j \in A : j + 1 <= a + 1 <=> j <= a
      OBVIOUS
    <3>2. \A x \in V : \E j \in U : x = j + 1
      BY <2>1, <2>2, <3>1
    <3>3. \A j \in U : j + 1 \in V
      BY <2>1, <2>2, <3>1
    <3> QED
      BY <3>2, <3>3
  <2> QED
    BY <2>1, <2>2, <2>3, <2>4, OneOn DEF Rank
<1> QED
  BY <1>1, <1>2

(* A stored sum that is shown is saved with the references it had. *)
LEMMA SumsRoundTrip ==
  ASSUME NEW Strings, NEW items,
         items.specs \in Seq([kind : {"ref", "bare", "literal"}, text : Strings]),
         MaxIndexedEntries \in Nat
  PROVE  SumRoundTrips(items)
<1> DEFINE view == sum_items_from_rule(items)
<1>1. PICK specs : specs = items.specs
  OBVIOUS
<1>2. PICK kept : kept = {k \in DOMAIN specs : specs[k].text # NoText}
  OBVIOUS
<1>3. PICK n \in Nat : n = Len(specs) /\ DOMAIN specs = 1..n
  BY <1>1
<1>4. PICK rows : rows = [i \in 0..(n - 1) |-> specs[i + 1].text]
  OBVIOUS
<1> SUFFICES ASSUME view # NoView, kept # {}
             PROVE  Lists(parse_sum(Shown(view[1]), NoText)[1].specs,
                          [k \in kept |-> Ref(specs[k].text)], kept)
  BY <1>1, <1>2, Zenon DEF SumRoundTrips
<1>5. n <= MaxIndexedEntries /\ \A k \in 1..n : _ref_string(specs[k]) # NoView
  BY <1>1, <1>3 DEF sum_items_from_rule
<1>6. view = Some([k \in 1..n |-> _ref_string(specs[k])[1]])
  BY <1>1, <1>3 DEF sum_items_from_rule
<1>7. \A k \in 1..n : _ref_string(specs[k])[1] = specs[k].text
  <2>1. \A k \in 1..n : _ref_string(specs[k]) = Some(specs[k].text)
    BY <1>5 DEF _ref_string
  <2> QED
    BY <2>1, SomeIs
<1>8. PICK seq : seq = [k \in 1..n |-> specs[k].text]
  OBVIOUS
<1>9. view[1] = seq
  BY <1>6, <1>7, <1>8, SomeIs
<1>10. Shown(seq) = rows
  <2>1. Len(seq) = n
    BY <1>3, <1>8
  <2>2. \A i \in 0..(n - 1) : i + 1 \in 1..n
    BY <1>3
  <2>3. \A i \in 0..(n - 1) : seq[i + 1] = specs[i + 1].text
    BY <1>8, <2>2
  <2> QED
    BY <1>4, <2>1, <2>3 DEF Shown
<1>11. PICK typed : typed = {i \in DOMAIN rows : rows[i] # NoText}
  OBVIOUS
<1>12. kept = {i + 1 : i \in typed}
  <2>1. \A k \in kept : k - 1 \in typed /\ k = (k - 1) + 1
    <3> SUFFICES ASSUME NEW k \in kept PROVE k - 1 \in typed /\ k = (k - 1) + 1
      OBVIOUS
    <3>1. k \in 1..n /\ specs[k].text # NoText
      BY <1>2, <1>3
    <3>2. k - 1 \in 0..(n - 1) /\ (k - 1) + 1 = k
      BY <1>3, <3>1
    <3>3. rows[k - 1] = specs[k].text
      BY <1>4, <3>2
    <3> QED
      BY <1>4, <1>11, <3>1, <3>2, <3>3
  <2>2. \A i \in typed : i + 1 \in kept
    <3> SUFFICES ASSUME NEW i \in typed PROVE i + 1 \in kept
      OBVIOUS
    <3>1. i \in 0..(n - 1) /\ rows[i] # NoText
      BY <1>4, <1>11
    <3>2. i + 1 \in 1..n
      BY <1>3, <3>1
    <3>3. rows[i] = specs[i + 1].text
      BY <1>4, <3>1
    <3> QED
      BY <1>2, <1>3, <3>1, <3>2, <3>3
  <2> QED
    BY <2>1, <2>2
<1>13. DOMAIN rows \in SUBSET Nat /\ ~ TooMany(DOMAIN rows)
  <2>1. \A i \in 0..(n - 1) : i \in Nat /\ ~ (i >= MaxIndexedEntries)
    BY <1>3, <1>5
  <2> QED
    BY <1>4, <2>1 DEF TooMany
<1>14. typed # {}
  BY <1>12
<1>15. PICK refs : refs = InOrder(rows, typed)
  OBVIOUS
<1>16. PICK saved : saved = parse_sum(rows, NoText)[1].specs
  OBVIOUS
<1>17. /\ IsFiniteSet(typed) /\ typed \in SUBSET Nat /\ Cardinality(typed) \in Nat
       /\ saved = RefsOf(rows, typed)
  <2>1. IsFiniteSet(typed) /\ typed \in SUBSET Nat /\ Cardinality(typed) \in Nat
    BY <1>11, <1>13, ParsedSum
  <2>2. parse_sum(rows, NoText)[1].specs = RefsOf(rows, typed)
    BY <1>11, <1>13, <1>14, ParsedSum
  <2> QED
    BY <1>16, <2>1, <2>2
<1>18. Cardinality(kept) = Cardinality(typed) /\ \A i \in typed : Rank(kept, i + 1) = Rank(typed, i)
  BY <1>12, <1>17, ShiftedRanks
<1>19. \A i \in typed : Rank(typed, i) \in 1..Cardinality(typed) /\ refs[Rank(typed, i)] = rows[i]
  <2>1. \A i \in typed : Rank(typed, i) \in 1..Cardinality(typed)
    BY <1>17, Ranks
  <2>2. \A i \in typed : InOrder(rows, typed)[Rank(typed, i)] = rows[i]
    BY <1>17, RowsInOrder
  <2> QED
    BY <1>15, <2>1, <2>2
<1>20. /\ Len(saved) = Cardinality(kept)
       /\ \A k \in 1..Cardinality(typed) : saved[k] = Ref(refs[k])
  BY <1>15, <1>17, <1>18 DEF RefsOf
<1>21. \A k \in kept : saved[Rank(kept, k)] = Ref(specs[k].text)
  <2> SUFFICES ASSUME NEW i \in typed PROVE saved[Rank(kept, i + 1)] = Ref(specs[i + 1].text)
    BY <1>12
  <2>1. saved[Rank(typed, i)] = Ref(rows[i])
    BY <1>19, <1>20
  <2>2. rows[i] = specs[i + 1].text
    BY <1>4, <1>11
  <2> QED
    BY <1>18, <2>1, <2>2
<1>22. Lists(saved, [k \in kept |-> Ref(specs[k].text)], kept)
  BY <1>20, <1>21 DEF Lists
<1> QED
  BY <1>9, <1>10, <1>16, <1>22

-----------------------------------------------------------------------------
(* Every form.                                                             *)

(* Rows under finitely many indices. *)
RowsUnder(Row) == UNION {[D -> Row] : D \in {D \in SUBSET Nat : IsFiniteSet(D)}}

(* Finite sets of names, none of them blank. *)
FiniteNames == {K \in SUBSET (STRING \ {NoText}) : IsFiniteSet(K)}

(* The input is one the page can send or the store can hold. *)
FormGiven ==
  /\ topic = "sum form" => case.rows \in RowsUnder(STRING)
  /\ topic = "sum" =>
       case.specs \in Seq([kind : {"ref", "bare", "literal"}, text : STRING])
  /\ topic = "inputs form" =>
       case.rows \in RowsUnder([name : STRING, type : STRING, text : STRING])
  /\ topic = "bracket form" =>
       case \in RowsUnder([lower : STRING, upper : STRING, rate : STRING])
  /\ topic = "grid form" => case.cols \in RowsUnder(STRING) /\ case.keys \in RowsUnder(STRING)
  /\ topic = "grid" =>
       \E K \in FiniteNames, Names \in FiniteNames :
         case.table \in [K -> Children(Names, STRING \ {NoText})]
  /\ topic = "constant form" =>
       case \in RowsUnder([name : STRING, cells : [CONSTANT_STATUSES -> STRING]])
  /\ topic = "constant" =>
       \E K \in FiniteNames, Keys \in FiniteNames : case \in [K -> Children(Keys, STRING)]

(* The indices of a form are finitely many natural numbers. *)
LEMMA RowsUnderAre ==
  ASSUME NEW Row, NEW rows \in RowsUnder(Row)
  PROVE  /\ DOMAIN rows \in SUBSET Nat /\ IsFiniteSet(DOMAIN rows)
         /\ rows \in [DOMAIN rows -> Row]
<1>1. PICK D \in SUBSET Nat : IsFiniteSet(D) /\ rows \in [D -> Row]
  BY DEF RowsUnder
<1>2. DOMAIN rows = D
  BY <1>1
<1> QED
  BY <1>1, <1>2

(* Whatever is typed into the forms of the rule and constant editor, under
   whatever indices: a sum, a formula, a matrix or a constant that is accepted
   has what was typed, and a bracket table has the rows below the limit (those
   past it are dropped, and a refused constant does not show them again).
   Whatever stored rule or constant is shown in them is saved as it was, but
   for empty rows of a matrix, or is refused (parse_rule_form,
   parse_constant_form and the views). *)
THEOREM FormsKeepRows == FormGiven => RuleFormKeepsRows
<1> SUFFICES ASSUME FormGiven PROVE RuleFormKeepsRows
  OBVIOUS
<1>0. /\ MaxIndexedEntries \in Nat \ {0} /\ MaxIndexedEntries \in Nat
      /\ CONSTANT_STATUSES # {} /\ Cardinality(CONSTANT_STATUSES) <= MaxIndexedEntries
  BY LimitAssumption, StatusesAssumption
<1>1. ASSUME topic = "sum form" PROVE SumKeepsItems(case.rows, case.fallback)
  <2>1. DOMAIN case.rows \in SUBSET Nat
    BY <1>1, RowsUnderAre DEF FormGiven
  <2> QED
    BY <1>0, <2>1, SumsAreKept
<1>2. ASSUME topic = "sum" PROVE SumRoundTrips(case)
  <2>1. case.specs \in Seq([kind : {"ref", "bare", "literal"}, text : STRING])
    BY <1>2 DEF FormGiven
  <2> QED
    BY <1>0, <2>1, SumsRoundTrip
<1>3. ASSUME topic = "inputs form" PROVE FormulaKeepsInputs(case.rows, case.used)
  <2>1. case.rows \in RowsUnder([name : STRING, type : STRING, text : STRING])
    BY <1>3 DEF FormGiven
  <2> QED
    BY <2>1, RowsUnderAre, InputsAreKept
<1>4. ASSUME topic = "bracket form" PROVE BracketsKeepRows(case)
  <2>1. case \in RowsUnder([lower : STRING, upper : STRING, rate : STRING])
    BY <1>4 DEF FormGiven
  <2> QED
    BY <1>0, <2>1, RowsUnderAre, BracketRowsAreKept
<1>5. ASSUME topic = "grid form" PROVE MatrixKeepsCells(case.cols, case.keys, case.cells)
  <2>1. case.cols \in RowsUnder(STRING) /\ case.keys \in RowsUnder(STRING)
    BY <1>5 DEF FormGiven
  <2> QED
    BY <2>1, RowsUnderAre, CellsAreKept
<1>6. ASSUME topic = "grid" PROVE MatrixRoundTrips(case.specs, case.table)
  <2>1. PICK K \in FiniteNames, Names \in FiniteNames :
          case.table \in [K -> Children(Names, STRING \ {NoText})]
    BY <1>6 DEF FormGiven
  <2>2. IsFiniteSet(K) /\ NoText \notin K /\ IsFiniteSet(Names) /\ NoText \notin Names
    BY DEF FiniteNames
  <2>3. NoText \notin STRING \ {NoText}
    OBVIOUS
  <2> QED
    BY <1>0, <2>1, <2>2, <2>3, MatricesRoundTrip
<1>7. ASSUME topic = "constant form" PROVE ConstantKeepsRows(case)
  <2>1. case \in RowsUnder(Rows(STRING, STRING))
    BY <1>7 DEF FormGiven, Rows
  <2> QED
    BY <1>0, <2>1, RowsUnderAre, ConstantsAreKept
<1>8. ASSUME topic = "constant" PROVE ConstantRoundTrips(case)
  <2>1. PICK K \in FiniteNames, Keys \in FiniteNames : case \in [K -> Children(Keys, STRING)]
    BY <1>8 DEF FormGiven
  <2>2. IsFiniteSet(K) /\ NoText \notin K
    BY DEF FiniteNames
  <2> QED
    BY <2>1, <2>2, ConstantsRoundTrip
<1> QED
  BY <1>1, <1>2, <1>3, <1>4, <1>5, <1>6, <1>7, <1>8 DEF RuleFormKeepsRows
=============================================================================
