---------------------------- MODULE ReturnProofs ----------------------------
(***************************************************************************)
(* Theorems about the form of a return, the CSV import and the what-if     *)
(* comparison (ReturnForm, WhatIf), for forms of any size and any         *)
(* amounts.  A total of a return and the sum of what was typed are both    *)
(* the sum over a grid: the persons, the kinds of record and the indices.  *)
(***************************************************************************)
EXTENDS AlgorithmProofs

-----------------------------------------------------------------------------
(* More about sums.                                                        *)

(* The terms of a sum may be renamed, if those that get no name are 0. *)
LEMMA SumMatch ==
  ASSUME NEW S, IsFiniteSet(S), NEW T, IsFiniteSet(T), NEW f, NEW g, NEW m,
         \A x \in S : f[x] \in Int /\ m[x] \in T /\ f[x] = g[m[x]],
         \A x, y \in S : m[x] = m[y] => x = y,
         \A y \in T : g[y] \in Int /\ (g[y] # 0 => \E x \in S : y = m[x])
  PROVE  SumFunctionOnSet(f, S) = SumFunctionOnSet(g, T)
<1> DEFINE image(U) == {m[x] : x \in U}
           P == {U \in SUBSET S : SumFunctionOnSet(f, U) = SumFunctionOnSet(g, image(U))}
<1>0. \A U \in SUBSET S : /\ image(U) \in SUBSET T
                          /\ IsFiniteSet(U) /\ IsFiniteSet(image(U))
  BY FS_Subset
<1>1. ASSUME NEW U \in SUBSET S, \A V \in SUBSET U : V # U => V \in P
      PROVE  U \in P
  <2>1. CASE U = {}
    <3>1. image(U) = {}
      BY <2>1
    <3> QED
      BY <2>1, <3>1, SumOfNone
  <2>2. CASE U # {}
    <3>1. PICK x \in U : TRUE
      BY <2>2
    <3>2. U \ {x} \in P
      BY <1>1
    <3>3. SumFunctionOnSet(f, U) = f[x] + SumFunctionOnSet(f, U \ {x})
      <4>1. \A y \in U : f[y] \in Int
        OBVIOUS
      <4>2. IsFiniteSet(U)
        BY <1>0
      <4> QED
        BY <4>1, <4>2, SumRemove
    <3>4. SumFunctionOnSet(g, image(U)) = g[m[x]] + SumFunctionOnSet(g, image(U) \ {m[x]})
      <4>1. \A y \in image(U) : g[y] \in Int
        BY <1>0
      <4>2. IsFiniteSet(image(U)) /\ m[x] \in image(U)
        BY <1>0
      <4> HIDE DEF image
      <4> QED
        BY <4>1, <4>2, SumRemove
    <3>5. image(U) \ {m[x]} = image(U \ {x})
      OBVIOUS
    <3>6. f[x] = g[m[x]]
      OBVIOUS
    <3> QED
      BY <3>2, <3>3, <3>4, <3>5, <3>6
  <2> QED
    BY <2>1, <2>2
<1>2. S \in P
  <2>1. IsFiniteSet(S)
    OBVIOUS
  <2> HIDE DEF P
  <2> QED
    BY <1>1, <2>1, SetInduction
<1>3. SumFunctionOnSet(g, T) = SumFunctionOnSet(g, image(S))
  <2>1. \A y \in T \ image(S) : g[y] = 0
    OBVIOUS
  <2>2. \A y \in T : g[y] \in Int
    OBVIOUS
  <2>3. image(S) \in SUBSET T
    BY <1>0
  <2> HIDE DEF image
  <2> QED
    BY <2>1, <2>2, <2>3, SumZeros
<1> QED
  BY <1>2, <1>3

(* A sum is the sum over a part and the sum over the rest. *)
LEMMA SumSplit ==
  ASSUME NEW f, NEW S, IsFiniteSet(S), \A x \in S : f[x] \in Int, NEW A \in SUBSET S
  PROVE  SumFunctionOnSet(f, S) = SumFunctionOnSet(f, A) + SumFunctionOnSet(f, S \ A)
<1> DEFINE sum(T) == SumFunctionOnSet(f, T)
           P == {T \in SUBSET S : sum(T) = sum(T \cap A) + sum(T \ A)}
<1>0. \A T \in SUBSET S : /\ IsFiniteSet(T) /\ sum(T) \in Int
                          /\ \A x \in T : sum(T) = f[x] + sum(T \ {x})
  BY FS_Subset, SumType, SumRemove
<1>e. sum({}) = 0
  BY SumOfNone
<1> HIDE DEF sum
<1>1. ASSUME NEW T \in SUBSET S, \A U \in SUBSET T : U # T => U \in P
      PROVE  T \in P
  <2>1. CASE T = {}
    <3>1. T \cap A = {} /\ T \ A = {}
      BY <2>1
    <3> QED
      BY <2>1, <3>1, <1>e
  <2>2. CASE T # {}
    <3>1. PICK x \in T : TRUE
      BY <2>2
    <3>2. sum(T) = f[x] + (sum((T \ {x}) \cap A) + sum((T \ {x}) \ A))
      <4>1. T \ {x} \in P
        BY <1>1
      <4> QED
        BY <1>0, <4>1
    <3>3. PICK a \in Int, b \in Int, c \in Int :
            a = f[x] /\ b = sum((T \ {x}) \cap A) /\ c = sum((T \ {x}) \ A)
      <4>1. (T \ {x}) \cap A \in SUBSET S /\ (T \ {x}) \ A \in SUBSET S
        OBVIOUS
      <4> QED
        BY <1>0, <4>1
    <3>4. CASE x \in A
      <4>1. (T \ {x}) \cap A = (T \cap A) \ {x} /\ (T \ {x}) \ A = T \ A
        BY <3>4
      <4>2. x \in T \cap A /\ T \cap A \in SUBSET S
        BY <3>4
      <4>3. sum(T \cap A) = a + b
        BY <1>0, <3>3, <4>1, <4>2
      <4>5. sum(T \ A) = c
        BY <3>3, <4>1
      <4>4. a + (b + c) = (a + b) + c
        OBVIOUS
      <4> QED
        BY <3>2, <3>3, <4>3, <4>4, <4>5
    <3>5. CASE x \notin A
      <4>1. (T \ {x}) \cap A = T \cap A /\ (T \ {x}) \ A = (T \ A) \ {x}
        BY <3>5
      <4>2. x \in T \ A /\ T \ A \in SUBSET S
        BY <3>5
      <4>3. sum(T \ A) = a + c
        BY <1>0, <3>3, <4>1, <4>2
      <4>5. sum(T \cap A) = b
        BY <3>3, <4>1
      <4>4. a + (b + c) = b + (a + c)
        OBVIOUS
      <4> QED
        BY <3>2, <3>3, <4>3, <4>4, <4>5
    <3> QED
      BY <3>4, <3>5
  <2> QED
    BY <2>1, <2>2
<1>2. S \in P
  <2>1. IsFiniteSet(S)
    OBVIOUS
  <2> HIDE DEF P
  <2> QED
    BY <1>1, <2>1, SetInduction
<1>3. S \cap A = A
  OBVIOUS
<1> QED
  BY <1>2, <1>3 DEF sum

(* The sum of one term is the term. *)
LEMMA SumAlone ==
  ASSUME NEW f, NEW x, f[x] \in Int
  PROVE  SumFunctionOnSet(f, {x}) = f[x]
<1>1. IsFiniteSet({x})
  BY FS_Singleton
<1>2. SumFunctionOnSet(f, {x}) = f[x] + SumFunctionOnSet(f, {x} \ {x})
  BY <1>1, SumRemove
<1>3. {x} \ {x} = {}
  OBVIOUS
<1>4. f[x] + 0 = f[x]
  OBVIOUS
<1> QED
  BY <1>2, <1>3, <1>4, SumOfNone

(* The sum of two terms. *)
LEMMA SumPair ==
  ASSUME NEW f, NEW x, NEW y, x # y, f[x] \in Int, f[y] \in Int
  PROVE  SumFunctionOnSet(f, {x, y}) = f[x] + f[y]
<1>1. IsFiniteSet({x, y})
  <2>1. IsFiniteSet({x} \cup {y})
    BY FS_Singleton, FS_Union
  <2>2. {x} \cup {y} = {x, y}
    OBVIOUS
  <2> QED
    BY <2>1, <2>2
<1>2. SumFunctionOnSet(f, {x, y}) = f[x] + SumFunctionOnSet(f, {x, y} \ {x})
  BY <1>1, SumRemove
<1>3. {x, y} \ {x} = {y}
  OBVIOUS
<1> QED
  BY <1>2, <1>3, SumAlone

(* A sum of terms that are not negative is at least each of them. *)
LEMMA SumNonNegative ==
  ASSUME NEW f, NEW S, IsFiniteSet(S), \A x \in S : f[x] \in Nat
  PROVE  /\ SumFunctionOnSet(f, S) \in Nat
         /\ \A x \in S : f[x] <= SumFunctionOnSet(f, S)
<1> DEFINE sum(T) == SumFunctionOnSet(f, T)
           P == {T \in SUBSET S : sum(T) \in Nat}
<1>0. \A T \in SUBSET S : IsFiniteSet(T) /\ \A x \in T : sum(T) = f[x] + sum(T \ {x})
  <2>1. \A T \in SUBSET S : IsFiniteSet(T) /\ \A x \in T : f[x] \in Int
    BY FS_Subset
  <2> QED
    BY <2>1, SumRemove
<1>e. sum({}) = 0
  BY SumOfNone
<1> HIDE DEF sum
<1>1. ASSUME NEW T \in SUBSET S, \A U \in SUBSET T : U # T => U \in P
      PROVE  T \in P
  <2>1. CASE T = {}
    BY <2>1, <1>e
  <2>2. CASE T # {}
    <3>1. PICK x \in T : TRUE
      BY <2>2
    <3>2. sum(T \ {x}) \in Nat
      BY <1>1
    <3>3. sum(T) = f[x] + sum(T \ {x}) /\ f[x] \in Nat
      BY <1>0
    <3> QED
      BY <3>2, <3>3
  <2> QED
    BY <2>1, <2>2
<1>2. \A T \in SUBSET S : T \in P
  <2>1. IsFiniteSet(S)
    OBVIOUS
  <2> HIDE DEF P
  <2> QED
    BY <1>1, <2>1, SetInduction
<1>3. \A x \in S : f[x] <= sum(S)
  <2> TAKE x \in S
  <2>1. sum(S) = f[x] + sum(S \ {x}) /\ f[x] \in Nat
    BY <1>0
  <2>2. sum(S \ {x}) \in Nat
    BY <1>2
  <2> QED
    BY <2>1, <2>2
<1> QED
  BY <1>2, <1>3 DEF sum

(* A sum of sums is the sum of the two sums. *)
LEMMA SumPlus ==
  ASSUME NEW f, NEW g, NEW h, NEW S, IsFiniteSet(S),
         \A x \in S : f[x] \in Int /\ g[x] \in Int /\ h[x] = f[x] + g[x]
  PROVE  SumFunctionOnSet(h, S) = SumFunctionOnSet(f, S) + SumFunctionOnSet(g, S)
<1> DEFINE sum(k, T) == SumFunctionOnSet(k, T)
           P == {T \in SUBSET S : sum(h, T) = sum(f, T) + sum(g, T)}
<1>0. \A T \in SUBSET S :
        /\ IsFiniteSet(T) /\ sum(f, T) \in Int /\ sum(g, T) \in Int
        /\ \A x \in T : /\ sum(f, T) = f[x] + sum(f, T \ {x})
                        /\ sum(g, T) = g[x] + sum(g, T \ {x})
                        /\ sum(h, T) = h[x] + sum(h, T \ {x})
  <2> TAKE T \in SUBSET S
  <2>1. IsFiniteSet(T) /\ \A x \in T : f[x] \in Int /\ g[x] \in Int /\ h[x] \in Int
    BY FS_Subset
  <2>2. sum(f, T) \in Int /\ sum(g, T) \in Int
    BY <2>1, SumType
  <2>3. \A x \in T : sum(f, T) = f[x] + sum(f, T \ {x})
    BY <2>1, SumRemove
  <2>4. \A x \in T : sum(g, T) = g[x] + sum(g, T \ {x})
    BY <2>1, SumRemove
  <2>5. \A x \in T : sum(h, T) = h[x] + sum(h, T \ {x})
    BY <2>1, SumRemove
  <2> QED
    BY <2>1, <2>2, <2>3, <2>4, <2>5
<1>e. \A k : sum(k, {}) = 0
  BY SumOfNone
<1> HIDE DEF sum
<1>1. ASSUME NEW T \in SUBSET S, \A U \in SUBSET T : U # T => U \in P
      PROVE  T \in P
  <2>1. CASE T = {}
    BY <2>1, <1>e
  <2>2. CASE T # {}
    <3>1. PICK x \in T : TRUE
      BY <2>2
    <3>2. T \ {x} \in P
      BY <1>1
    <3>3. PICK a \in Int, b \in Int, c \in Int, d \in Int :
            a = f[x] /\ b = g[x] /\ c = sum(f, T \ {x}) /\ d = sum(g, T \ {x})
      BY <1>0
    <3>4. sum(h, T) = (a + b) + (c + d) /\ sum(f, T) = a + c /\ sum(g, T) = b + d
      BY <1>0, <3>2, <3>3
    <3> QED
      BY <3>3, <3>4
  <2> QED
    BY <2>1, <2>2
<1>2. S \in P
  <2>1. IsFiniteSet(S)
    OBVIOUS
  <2> HIDE DEF P
  <2> QED
    BY <1>1, <2>1, SetInduction
<1> QED
  BY <1>2 DEF sum

(* A sum of equal terms is a multiple of the term. *)
LEMMA SumConstant ==
  ASSUME NEW f, NEW S, IsFiniteSet(S), NEW v \in Int, \A x \in S : f[x] = v
  PROVE  SumFunctionOnSet(f, S) = Cardinality(S) * v
<1> DEFINE P == {T \in SUBSET S : SumFunctionOnSet(f, T) = Cardinality(T) * v}
<1>1. ASSUME NEW T \in SUBSET S, \A U \in SUBSET T : U # T => U \in P
      PROVE  T \in P
  <2>0. IsFiniteSet(T) /\ Cardinality(T) \in Nat
    BY FS_Subset, FS_CardinalityType
  <2>1. CASE T = {}
    <3>1. SumFunctionOnSet(f, T) = 0 /\ Cardinality(T) = 0
      BY <2>1, SumOfNone, FS_EmptySet
    <3>2. 0 * v = 0
      OBVIOUS
    <3> QED
      BY <3>1, <3>2
  <2>2. CASE T # {}
    <3>1. PICK x \in T : TRUE
      BY <2>2
    <3>2. T \ {x} \in P
      BY <1>1
    <3>3. SumFunctionOnSet(f, T) = v + SumFunctionOnSet(f, T \ {x})
      <4>1. \A y \in T : f[y] \in Int
        OBVIOUS
      <4>2. f[x] = v
        OBVIOUS
      <4> QED
        BY <2>0, <4>1, <4>2, SumRemove
    <3>4. Cardinality(T \ {x}) = Cardinality(T) - 1
      BY <2>0, FS_RemoveElement
    <3>5. PICK c \in Nat : c = Cardinality(T)
      BY <2>0
    <3>6. SumFunctionOnSet(f, T) = v + (c - 1) * v
      BY <3>2, <3>3, <3>4, <3>5
    <3>7. v + (c - 1) * v = c * v
      OBVIOUS
    <3> QED
      BY <3>5, <3>6, <3>7
  <2> QED
    BY <2>1, <2>2
<1>2. S \in P
  <2>1. IsFiniteSet(S)
    OBVIOUS
  <2> HIDE DEF P
  <2> QED
    BY <1>1, <2>1, SetInduction
<1> QED
  BY <1>2

(* A sum of ones is a number of elements. *)
LEMMA SumOnes ==
  ASSUME NEW f, NEW S, IsFiniteSet(S), \A x \in S : f[x] = 1
  PROVE  SumFunctionOnSet(f, S) = Cardinality(S)
<1>1. SumFunctionOnSet(f, S) = Cardinality(S) * 1
  BY SumConstant
<1> QED
  BY <1>1, FS_CardinalityType

(* A sum over tuples is the sum, over what they begin with, of the sums over
   the tuples that begin with it. *)
LEMMA SumByFirst ==
  ASSUME NEW f, NEW S, IsFiniteSet(S), NEW T, IsFiniteSet(T), NEW h,
         \A x \in S : x[1] \in T /\ f[x] \in Int,
         NEW q, \A t \in T : /\ q[t] \in SUBSET S /\ \A x \in S : x \in q[t] <=> x[1] = t
                            /\ h[t] = SumFunctionOnSet(f, q[t])
  PROVE  SumFunctionOnSet(f, S) = SumFunctionOnSet(h, T)
<1> DEFINE begin(U) == {x \in S : x[1] \in U}
           P == {U \in SUBSET T : SumFunctionOnSet(f, begin(U)) = SumFunctionOnSet(h, U)}
<1>0. \A R \in SUBSET S : IsFiniteSet(R) /\ SumFunctionOnSet(f, R) \in Int
  BY FS_Subset, SumType
<1>1. \A t \in T : h[t] \in Int
  <2> TAKE t \in T
  <2>1. q[t] \in SUBSET S
    OBVIOUS
  <2> QED
    BY <1>0, <2>1
<1>2. ASSUME NEW U \in SUBSET T, \A V \in SUBSET U : V # U => V \in P
      PROVE  U \in P
  <2>1. CASE U = {}
    <3>1. begin(U) = {}
      BY <2>1
    <3> QED
      BY <2>1, <3>1, SumOfNone
  <2>2. CASE U # {}
    <3>1. PICK t \in U : TRUE
      BY <2>2
    <3>2. U \ {t} \in P
      BY <1>2
    <3>0. t \in T /\ q[t] \in SUBSET S /\ \A x \in S : x \in q[t] <=> x[1] = t
      OBVIOUS
    <3>3. begin(U) \in SUBSET S /\ q[t] \in SUBSET begin(U)
      BY <3>0
    <3>4. begin(U) \ q[t] = begin(U \ {t})
      BY <3>0
    <3>5. SumFunctionOnSet(f, begin(U)) = SumFunctionOnSet(f, q[t])
                                            + SumFunctionOnSet(f, begin(U \ {t}))
      <4>1. IsFiniteSet(begin(U)) /\ \A x \in begin(U) : f[x] \in Int
        BY <1>0, <3>3
      <4>2. SumFunctionOnSet(f, begin(U)) = SumFunctionOnSet(f, q[t])
              + SumFunctionOnSet(f, begin(U) \ q[t])
        <5> HIDE DEF begin
        <5> QED
          BY <3>3, <4>1, SumSplit
      <4> QED
        BY <3>4, <4>2
    <3>6. SumFunctionOnSet(h, U) = h[t] + SumFunctionOnSet(h, U \ {t})
      <4>1. IsFiniteSet(U) /\ \A u \in U : h[u] \in Int
        BY <1>1, FS_Subset
      <4> QED
        BY <4>1, SumRemove
    <3> QED
      BY <3>0, <3>2, <3>5, <3>6
  <2> QED
    BY <2>1, <2>2
<1>3. T \in P
  <2>1. IsFiniteSet(T)
    OBVIOUS
  <2> HIDE DEF P
  <2> QED
    BY <1>2, <2>1, SetInduction
<1>4. begin(T) = S
  OBVIOUS
<1> QED
  BY <1>3, <1>4

-----------------------------------------------------------------------------
(* The form of a return.                                                   *)

Index == 0..(MaxIndexedEntries - 1)
RowKinds == Kinds \cup {"edu"}
RowFields(kind) == Amounts[kind] \cup Texts[kind] \cup {"long_term"}
PersonFields == PersonFlags \cup PersonAmounts \cup {"combat_months"}
HouseholdFields == HouseholdAmounts \cup HouseholdCounts \cup HouseholdFlags

(* The keys of the page: rows of a person under any index, rows of students,
   and the fields of a person and of the household. *)
IsKey(key) ==
  \/ \E person \in Persons, kind \in Kinds, i \in Nat : \E f \in RowFields(kind) :
       key = <<person, kind, i, f>>
  \/ \E i \in Nat : \E f \in RowFields("edu") : key = <<"household", "edu", i, f>>
  \/ \E person \in Persons, f \in PersonFields : key = <<person, "field", 0, f>>
  \/ \E f \in HouseholdFields : key = <<"household", "field", 0, f>>

(* What the page can send: finitely many fields, each with any number. *)
IsForm(fd) ==
  /\ IsFiniteSet(DOMAIN fd)
  /\ \A key \in DOMAIN fd : IsKey(key) /\ fd[key] \in Int

(* A key is the tuple of its four parts, and those fit together. *)
LEMMA KeyIs ==
  ASSUME NEW key, IsKey(key)
  PROVE  /\ key = <<key[1], key[2], key[3], key[4]>> /\ key[3] \in Nat
         /\ key[2] \in Kinds => key[1] \in Persons /\ key[4] \in RowFields(key[2])
         /\ key[2] = "field" => \/ key[1] \in Persons /\ key[3] = 0 /\ key[4] \in PersonFields
                                \/ key[1] = "household" /\ key[3] = 0 /\ key[4] \in HouseholdFields
<1>1. ASSUME NEW person \in Persons, NEW kind \in Kinds, NEW i \in Nat, NEW f \in RowFields(kind),
             key = <<person, kind, i, f>>
      PROVE  /\ key = <<key[1], key[2], key[3], key[4]>> /\ key[3] \in Nat
             /\ key[1] \in Persons /\ key[2] \in Kinds /\ key[4] \in RowFields(key[2])
  BY <1>1
<1>2. ASSUME NEW i \in Nat, NEW f \in RowFields("edu"), key = <<"household", "edu", i, f>>
      PROVE  /\ key = <<key[1], key[2], key[3], key[4]>> /\ key[3] \in Nat
             /\ key[2] = "edu"
  BY <1>2
<1>3. ASSUME NEW person \in Persons, NEW f \in PersonFields, key = <<person, "field", 0, f>>
      PROVE  /\ key = <<key[1], key[2], key[3], key[4]>> /\ key[3] \in Nat
             /\ key[1] \in Persons /\ key[2] = "field" /\ key[3] = 0 /\ key[4] \in PersonFields
  BY <1>3
<1>4. ASSUME NEW f \in HouseholdFields, key = <<"household", "field", 0, f>>
      PROVE  /\ key = <<key[1], key[2], key[3], key[4]>> /\ key[3] \in Nat
             /\ key[1] = "household" /\ key[2] = "field" /\ key[3] = 0 /\ key[4] \in HouseholdFields
  BY <1>4
<1>5. "edu" \notin Kinds /\ "field" \notin Kinds /\ "edu" # "field"
  BY DEF Kinds
<1> QED
  BY <1>1, <1>2, <1>3, <1>4, <1>5 DEF IsKey

(* No amount is called "long_term". *)
LEMMA AmountNames == \A kind \in RowKinds : "long_term" \notin Amounts[kind]
BY DEF RowKinds, Kinds, Amounts

(* An amount that may be typed is a whole number of cents. *)
LEMMA TenthsOfCents ==
  ASSUME NEW raw \in Int, IsMoney(raw)
  PROVE  parse_money(raw) \in Nat /\ raw = 10 * parse_money(raw)
BY DEF IsMoney, parse_money

(* A field that is left empty reads as nothing. *)
LEMMA NothingTyped == parse_money(0) = 0 /\ parse_money(0) \in Nat /\ 0 = 10 * parse_money(0)
BY DEF parse_money

(* The amounts of a form that is not refused. *)
LEMMA MoneyIs ==
  ASSUME NEW fd, IsForm(fd), NEW status, ~ Refused(fd, status)
  PROVE  /\ \A person : \A kind \in RowKinds, i \in Index : \A f \in Amounts[kind] :
              /\ Money(fd, <<person, kind, i, f>>) \in Nat
              /\ Raw(fd, <<person, kind, i, f>>) = 10 * Money(fd, <<person, kind, i, f>>)
         /\ \A person : \A f \in PersonAmounts \cup HouseholdAmounts :
              /\ Money(fd, <<person, "field", 0, f>>) \in Nat
              /\ Raw(fd, <<person, "field", 0, f>>) = 10 * Money(fd, <<person, "field", 0, f>>)
<1>1. \A key \in MoneyKeys(fd) : fd[key] \in Int /\ IsMoney(fd[key])
  BY DEF IsForm, Refused, MoneyKeys
<1>2. ASSUME NEW key, key \in DOMAIN fd => key \in MoneyKeys(fd)
      PROVE  Money(fd, key) \in Nat /\ Raw(fd, key) = 10 * Money(fd, key)
  <2>1. CASE key \in DOMAIN fd
    <3>1. Raw(fd, key) = fd[key] /\ fd[key] \in Int /\ IsMoney(fd[key])
      BY <1>1, <1>2, <2>1 DEF Raw
    <3> QED
      BY <3>1, TenthsOfCents DEF Money
  <2>2. CASE key \notin DOMAIN fd
    <3>1. Raw(fd, key) = 0
      BY <2>2 DEF Raw
    <3> QED
      BY <3>1, NothingTyped DEF Money
  <2> QED
    BY <2>1, <2>2
<1>3. ASSUME NEW person, NEW kind \in RowKinds, NEW i \in Index, NEW f \in Amounts[kind]
      PROVE  <<person, kind, i, f>> \in DOMAIN fd => <<person, kind, i, f>> \in MoneyKeys(fd)
  <2>1. kind # "field" /\ i < MaxIndexedEntries
    BY LimitAssumption DEF RowKinds, Kinds, Index
  <2> DEFINE key == <<person, kind, i, f>>
  <2>2. key[2] = kind /\ key[3] = i /\ key[4] = f
    OBVIOUS
  <2> HIDE DEF key
  <2>3. key \in DOMAIN fd => key \in MoneyKeys(fd)
    BY <2>1, <2>2 DEF MoneyKeys
  <2> QED
    BY <2>3 DEF key
<1>4. ASSUME NEW person, NEW f \in PersonAmounts \cup HouseholdAmounts
      PROVE  <<person, "field", 0, f>> \in DOMAIN fd => <<person, "field", 0, f>> \in MoneyKeys(fd)
  <2> DEFINE key == <<person, "field", 0, f>>
  <2>2. key[2] = "field" /\ key[4] = f
    OBVIOUS
  <2> HIDE DEF key
  <2>3. key \in DOMAIN fd => key \in MoneyKeys(fd)
    BY <2>2 DEF MoneyKeys
  <2> QED
    BY <2>3 DEF key
<1>5. ASSUME NEW person, NEW kind \in RowKinds, NEW i \in Index, NEW f \in Amounts[kind]
      PROVE  /\ Money(fd, <<person, kind, i, f>>) \in Nat
             /\ Raw(fd, <<person, kind, i, f>>) = 10 * Money(fd, <<person, kind, i, f>>)
  BY <1>2, <1>3
<1>6. ASSUME NEW person, NEW f \in PersonAmounts \cup HouseholdAmounts
      PROVE  /\ Money(fd, <<person, "field", 0, f>>) \in Nat
             /\ Raw(fd, <<person, "field", 0, f>>) = 10 * Money(fd, <<person, "field", 0, f>>)
  BY <1>2, <1>4
<1> QED
  BY <1>5, <1>6

(* The rows that are read: what is not in them is 0. *)
LEMMA RowsAre ==
  ASSUME NEW fd, IsForm(fd), NEW person, NEW kind
  PROVE  /\ DOMAIN parse_rows(fd, person, kind) \in SUBSET Index
         /\ \A i \in DOMAIN parse_rows(fd, person, kind) :
              parse_rows(fd, person, kind)[i] = RowAt(fd, person, kind, i)
         /\ \A i \in Index \ DOMAIN parse_rows(fd, person, kind) : \A f \in Amounts[kind] :
              Money(fd, <<person, kind, i, f>>) = 0
<1> DEFINE found == collect_indices(fd, person, kind)
           filled == {i \in found : HasData(fd, person, kind, i)}
<1>1. parse_rows(fd, person, kind) = [i \in filled |-> RowAt(fd, person, kind, i)]
  BY DEF parse_rows
<1>2. found \in SUBSET Index
  <2> SUFFICES ASSUME NEW i \in found PROVE i \in Index
    OBVIOUS
  <2>1. PICK key \in DOMAIN fd : key[3] = i /\ key[3] < MaxIndexedEntries
    BY DEF collect_indices
  <2>2. key[3] \in Nat
    BY KeyIs DEF IsForm
  <2> QED
    BY <2>1, <2>2, LimitAssumption DEF Index
<1>3. ASSUME NEW i \in Index \ filled, NEW f \in Amounts[kind]
      PROVE  Money(fd, <<person, kind, i, f>>) = 0
  <2>1. CASE i \in found
    BY <2>1 DEF HasData
  <2>2. CASE i \notin found
    <3> DEFINE key == <<person, kind, i, f>>
    <3>1. key[1] = person /\ key[2] = kind /\ key[3] = i /\ i < MaxIndexedEntries
      BY LimitAssumption DEF Index
    <3>2. key \notin DOMAIN fd
      <4> HIDE DEF key
      <4> QED
        BY <2>2, <3>1 DEF collect_indices
    <3>3. Raw(fd, key) = 0
      BY <3>2 DEF Raw
    <3> QED
      BY <3>3, NothingTyped DEF Money
  <2> QED
    BY <2>1, <2>2
<1>4. DOMAIN parse_rows(fd, person, kind) = filled
  BY <1>1
<1>5. filled \in SUBSET Index
  BY <1>2
<1> HIDE DEF filled
<1> QED
  BY <1>1, <1>3, <1>4, <1>5

(* A row holds the money of its fields and whether the sale is long term. *)
LEMMA RowAtIs ==
  ASSUME NEW fd, NEW person, NEW kind \in RowKinds, NEW i
  PROVE  /\ \A f \in Amounts[kind] :
              RowAt(fd, person, kind, i)[f] = Money(fd, <<person, kind, i, f>>)
         /\ RowAt(fd, person, kind, i)["long_term"] = Box(fd, <<person, kind, i, "long_term">>)
<1>1. "long_term" \notin Amounts[kind]
  BY AmountNames
<1> QED
  BY <1>1 DEF RowAt

(* A taxpayer has the role of the person who typed the form. *)
LEMMA TaxpayerRole == \A fd, person : parse_taxpayer(fd, person).role = person
BY DEF parse_taxpayer

(* The rows of a taxpayer are those of the person. *)
LEMMA TaxpayerRows ==
  \A fd, person : \A kind \in Kinds :
    parse_taxpayer(fd, person).rows[kind] = parse_rows(fd, person, kind)
BY DEF parse_taxpayer

(* The military amounts of a taxpayer are those of the person. *)
LEMMA TaxpayerAmount ==
  \A fd, person : \A f \in PersonAmounts :
    parse_taxpayer(fd, person).amount[f] = Money(fd, <<person, "field", 0, f>>)
BY DEF parse_taxpayer

(* A flag of a taxpayer stands exactly where the box was ticked. *)
LEMMA TaxpayerFlag ==
  \A fd, person : \A f \in {"65", "blind"} :
    parse_taxpayer(fd, person).flag[f] <=> Box(fd, <<person, "field", 0, f>>) = 1
<1>1. \A f \in {"65", "blind"} : f \in PersonFlags /\ f \notin {"first", "last"}
  BY DEF PersonFlags
<1> QED
  BY <1>1 DEF parse_taxpayer

(* The taxpayers of a return: a spouse who is left out has nothing. *)
LEMMA TaxpayersAre ==
  ASSUME NEW fd, NEW status, NEW inp, inp = parse_tax_input_from_form(fd, status)
  PROVE  /\ inp.taxpayers \in SUBSET {parse_taxpayer(fd, person) : person \in Persons}
         /\ parse_taxpayer(fd, "p") \in inp.taxpayers
         /\ \A person \in Persons : parse_taxpayer(fd, person) \notin inp.taxpayers =>
              /\ \A kind \in Kinds : DOMAIN parse_rows(fd, person, kind) = {}
              /\ \A f \in PersonAmounts : Money(fd, <<person, "field", 0, f>>) = 0
              /\ \A f \in {"65", "blind"} : Box(fd, <<person, "field", 0, f>>) # 1
<1> DEFINE p == parse_taxpayer(fd, "p")
           s == parse_taxpayer(fd, "s")
<1>1. inp.taxpayers = IF taxpayer_has_form_data(s) THEN {p, s} ELSE {p}
  BY DEF parse_tax_input_from_form
<1>2. Persons = {"p", "s"}
  BY DEF Persons
<1>3. ~ taxpayer_has_form_data(s) =>
        /\ \A kind \in Kinds : DOMAIN s.rows[kind] = {}
        /\ \A f \in PersonAmounts : s.amount[f] = 0
        /\ \A f \in {"65", "blind"} : ~ s.flag[f]
  <2> HIDE DEF s
  <2> QED
    BY DEF taxpayer_has_form_data
<1>4. ~ taxpayer_has_form_data(s) =>
        /\ \A kind \in Kinds : DOMAIN parse_rows(fd, "s", kind) = {}
        /\ \A f \in PersonAmounts : Money(fd, <<"s", "field", 0, f>>) = 0
        /\ \A f \in {"65", "blind"} : Box(fd, <<"s", "field", 0, f>>) # 1
  <2>1. \A kind \in Kinds : s.rows[kind] = parse_rows(fd, "s", kind)
    BY TaxpayerRows
  <2>2. \A f \in PersonAmounts : s.amount[f] = Money(fd, <<"s", "field", 0, f>>)
    BY TaxpayerAmount
  <2>3. \A f \in {"65", "blind"} : s.flag[f] <=> Box(fd, <<"s", "field", 0, f>>) = 1
    BY TaxpayerFlag
  <2> HIDE DEF s
  <2>4. ~ taxpayer_has_form_data(s) => \A kind \in Kinds : DOMAIN parse_rows(fd, "s", kind) = {}
    BY <1>3, <2>1
  <2>5. ~ taxpayer_has_form_data(s) =>
          \A f \in PersonAmounts : Money(fd, <<"s", "field", 0, f>>) = 0
    BY <1>3, <2>2
  <2>6. ~ taxpayer_has_form_data(s) =>
          \A f \in {"65", "blind"} : Box(fd, <<"s", "field", 0, f>>) # 1
    BY <1>3, <2>3
  <2> QED
    BY <2>4, <2>5, <2>6
<1> HIDE DEF p, s
<1>5. inp.taxpayers \in SUBSET {p, s} /\ p \in inp.taxpayers
  BY <1>1
<1>6. s \notin inp.taxpayers => ~ taxpayer_has_form_data(s)
  BY <1>1
<1>7. {parse_taxpayer(fd, person) : person \in Persons} = {p, s}
  BY <1>2 DEF p, s
<1> QED
  BY <1>2, <1>4, <1>5, <1>6, <1>7 DEF p, s

-----------------------------------------------------------------------------
(* The grid.                                                               *)

Grid(kinds) == {<<person, kind, i>> : person \in Persons, kind \in kinds, i \in Index}

(* Where the rows of the form are, and the record made of each. *)
Cells(fd, kinds) == {c \in Grid(kinds) : c[3] \in DOMAIN parse_rows(fd, c[1], c[2])}
At(fd, c) == <<parse_taxpayer(fd, c[1]), c[2], c[3]>>

MoneyGrid(fd, kinds, f) == [c \in Grid(kinds) |-> Money(fd, <<c[1], c[2], c[3], f>>)]

(* A place of the grid is the tuple of a person, a kind and an index. *)
LEMMA GridIs ==
  ASSUME NEW kinds, NEW c \in Grid(kinds)
  PROVE  c[1] \in Persons /\ c[2] \in kinds /\ c[3] \in Index /\ c = <<c[1], c[2], c[3]>>
BY DEF Grid

(* The persons, the kinds and the indices are finitely many. *)
LEMMA FiniteParts ==
  /\ IsFiniteSet(Kinds) /\ IsFiniteSet(Persons) /\ IsFiniteSet(Index)
<1>1. IsFiniteSet(Index)
  BY LimitAssumption, FS_Interval DEF Index
<1>2. IsFiniteSet({"p"}) /\ IsFiniteSet({"s"}) /\ {"p"} \cup {"s"} = Persons
  BY FS_Singleton DEF Persons
<1>3. IsFiniteSet(Persons)
  BY <1>2, FS_Union
<1>4. IsFiniteSet(Kinds)
  <2>1. IsFiniteSet({"w2"}) /\ IsFiniteSet({"int"}) /\ IsFiniteSet({"div"})
        /\ IsFiniteSet({"b"}) /\ IsFiniteSet({"nec"})
    BY FS_Singleton
  <2>2. IsFiniteSet({"w2"} \cup {"int"})
    BY <2>1, FS_Union
  <2>3. IsFiniteSet(({"w2"} \cup {"int"}) \cup {"div"})
    BY <2>1, <2>2, FS_Union
  <2>4. IsFiniteSet((({"w2"} \cup {"int"}) \cup {"div"}) \cup {"b"})
    BY <2>1, <2>3, FS_Union
  <2>5. IsFiniteSet(((({"w2"} \cup {"int"}) \cup {"div"}) \cup {"b"}) \cup {"nec"})
    BY <2>1, <2>4, FS_Union
  <2>6. Kinds = ((({"w2"} \cup {"int"}) \cup {"div"}) \cup {"b"}) \cup {"nec"}
    BY DEF Kinds
  <2> QED
    BY <2>5, <2>6
<1> QED
  BY <1>1, <1>3, <1>4

(* Triples from finite sets are finitely many. *)
LEMMA FiniteTriples ==
  ASSUME NEW A, NEW B, NEW C, IsFiniteSet(A), IsFiniteSet(B), IsFiniteSet(C)
  PROVE  IsFiniteSet({<<a, b, c>> : a \in A, b \in B, c \in C})
<1> DEFINE S == {<<a, b, c>> : a \in A, b \in B, c \in C}
           T == (A \X B) \X C
           f == [x \in S |-> <<<<x[1], x[2]>>, x[3]>>]
<1>1. IsFiniteSet(T)
  BY FS_Product
<1>2. f \in [S -> T]
  OBVIOUS
<1>3. \A x, y \in S : f[x] = f[y] => x = y
  <2> TAKE x, y \in S
  <2>1. x = <<x[1], x[2], x[3]>> /\ y = <<y[1], y[2], y[3]>>
    OBVIOUS
  <2>2. f[x] = f[y] => x[1] = y[1] /\ x[2] = y[2] /\ x[3] = y[3]
    OBVIOUS
  <2> QED
    BY <2>1, <2>2
<1>4. f \in Injection(S, T)
  <2> HIDE DEF f, S, T
  <2> QED
    BY <1>2, <1>3 DEF Injection, IsInjective
<1> HIDE DEF f, S, T
<1>5. IsFiniteSet(S)
  BY <1>1, <1>4, FS_Injection
<1> QED
  BY <1>5 DEF S

(* The places of the grid are finitely many. *)
LEMMA FiniteGrid == \A kinds \in SUBSET Kinds : IsFiniteSet(Grid(kinds))
<1> TAKE kinds \in SUBSET Kinds
<1>1. IsFiniteSet(kinds)
  BY FiniteParts, FS_Subset
<1> QED
  BY <1>1, FiniteParts, FiniteTriples DEF Grid

(* The records of a return are those of the rows of the form. *)
LEMMA RecordsAre ==
  ASSUME NEW fd, IsForm(fd), NEW status, NEW inp, inp = parse_tax_input_from_form(fd, status),
         NEW kinds \in SUBSET Kinds
  PROVE  Records(inp, kinds) = {At(fd, c) : c \in Cells(fd, kinds)}
<1> DEFINE tp(person) == parse_taxpayer(fd, person)
<1>0. \A person \in Persons, kind \in kinds : DOMAIN parse_rows(fd, person, kind) \in SUBSET Index
  BY RowsAre
<1>1. ASSUME NEW r \in Records(inp, kinds)
      PROVE  \E c \in Cells(fd, kinds) : r = At(fd, c)
  <2>1. PICK t \in inp.taxpayers, kind \in kinds : \E i \in DOMAIN t.rows[kind] : r = <<t, kind, i>>
    BY DEF Records, RecordsOf
  <2>2. PICK i \in DOMAIN t.rows[kind] : r = <<t, kind, i>>
    BY <2>1
  <2>3. PICK person \in Persons : t = tp(person)
    <3>1. t \in {tp(person) : person \in Persons}
      BY TaxpayersAre
    <3> QED
      BY <3>1
  <2>4. t.rows[kind] = parse_rows(fd, person, kind)
    BY <2>3, TaxpayerRows
  <2>5. i \in DOMAIN parse_rows(fd, person, kind) /\ i \in Index
    BY <1>0, <2>2, <2>4
  <2> DEFINE c == <<person, kind, i>>
  <2>6. c \in Grid(kinds) /\ c[1] = person /\ c[2] = kind /\ c[3] = i
    BY <2>5 DEF Grid
  <2> HIDE DEF c
  <2>7. c \in Cells(fd, kinds)
    BY <2>5, <2>6 DEF Cells
  <2>8. r = At(fd, c)
    BY <2>2, <2>3, <2>6 DEF At
  <2> QED
    BY <2>7, <2>8
<1>2. ASSUME NEW c \in Cells(fd, kinds)
      PROVE  At(fd, c) \in Records(inp, kinds)
  <2>1. c[1] \in Persons /\ c[2] \in kinds /\ c[3] \in DOMAIN parse_rows(fd, c[1], c[2])
    BY GridIs DEF Cells
  <2>2. tp(c[1]).rows[c[2]] = parse_rows(fd, c[1], c[2])
    BY <2>1, TaxpayerRows
  <2>3. tp(c[1]) \in inp.taxpayers
    BY <2>1, TaxpayersAre
  <2> HIDE DEF tp
  <2>4. <<tp(c[1]), c[2], c[3]>> \in RecordsOf(tp(c[1]), c[2])
    BY <2>1, <2>2 DEF RecordsOf
  <2>5. <<tp(c[1]), c[2], c[3]>> \in Records(inp, kinds)
    BY <2>1, <2>3, <2>4 DEF Records
  <2> QED
    BY <2>5 DEF At, tp
<1> QED
  BY <1>1, <1>2

(* What a record is: its place in the grid, and the row there. *)
LEMMA RecordIs ==
  ASSUME NEW fd, IsForm(fd), NEW kinds \in SUBSET Kinds, NEW c \in Cells(fd, kinds)
  PROVE  /\ c \in Grid(kinds)
         /\ <<At(fd, c)[1].role, At(fd, c)[2], At(fd, c)[3]>> = c
         /\ RowOf(At(fd, c)) = RowAt(fd, c[1], c[2], c[3])
<1>1. c \in Grid(kinds) /\ c[3] \in DOMAIN parse_rows(fd, c[1], c[2])
  BY DEF Cells
<1>2. c[2] \in Kinds /\ c = <<c[1], c[2], c[3]>>
  BY <1>1, GridIs
<1>3. /\ At(fd, c)[1] = parse_taxpayer(fd, c[1]) /\ At(fd, c)[2] = c[2] /\ At(fd, c)[3] = c[3]
  BY DEF At
<1>4. parse_taxpayer(fd, c[1]).role = c[1]
  BY TaxpayerRole
<1>5. parse_taxpayer(fd, c[1]).rows[c[2]] = parse_rows(fd, c[1], c[2])
  BY <1>2, TaxpayerRows
<1>6. parse_rows(fd, c[1], c[2])[c[3]] = RowAt(fd, c[1], c[2], c[3])
  BY <1>1, RowsAre
<1>7. RowOf(At(fd, c)) = RowAt(fd, c[1], c[2], c[3])
  BY <1>3, <1>5, <1>6 DEF RowOf
<1> QED
  BY <1>1, <1>2, <1>3, <1>4, <1>7

(* The records of a return are finitely many. *)
LEMMA FiniteRecords ==
  ASSUME NEW fd, IsForm(fd), NEW status, NEW inp, inp = parse_tax_input_from_form(fd, status),
         NEW kinds \in SUBSET Kinds
  PROVE  IsFiniteSet(Records(inp, kinds))
<1> DEFINE S == Records(inp, kinds)
           m == [r \in S |-> <<r[1].role, r[2], r[3]>>]
<1>1. IsFiniteSet(Grid(kinds))
  BY FiniteGrid
<1>2. ASSUME NEW r \in S
      PROVE  \E c \in Cells(fd, kinds) : r = At(fd, c) /\ m[r] = c /\ c \in Grid(kinds)
  <2>1. PICK c \in Cells(fd, kinds) : r = At(fd, c)
    BY RecordsAre
  <2>2. <<At(fd, c)[1].role, At(fd, c)[2], At(fd, c)[3]>> = c /\ c \in Grid(kinds)
    BY RecordIs
  <2> QED
    BY <2>1, <2>2
<1>3. m \in [S -> Grid(kinds)]
  <2>1. \A r \in S : m[r] \in Grid(kinds)
    BY <1>2
  <2> QED
    BY <2>1
<1> HIDE DEF m
<1>4. m \in Injection(S, Grid(kinds))
  BY <1>2, <1>3 DEF Injection, IsInjective
<1> QED
  BY <1>1, <1>4, FS_Injection

(* A sum over records is the sum over the grid. *)
LEMMA RecordsSum ==
  ASSUME NEW fd, IsForm(fd), NEW status, NEW inp, inp = parse_tax_input_from_form(fd, status),
         NEW kinds \in SUBSET Kinds, NEW S \in SUBSET Records(inp, kinds), NEW f, NEW g,
         \A c \in Grid(kinds) : g[c] \in Int,
         \A c \in Cells(fd, kinds) : At(fd, c) \in S => f[At(fd, c)] = g[c],
         \A c \in Grid(kinds) : g[c] # 0 => c \in Cells(fd, kinds) /\ At(fd, c) \in S
  PROVE  SumFunctionOnSet(f, S) = SumFunctionOnSet(g, Grid(kinds))
<1> DEFINE m == [r \in S |-> <<r[1].role, r[2], r[3]>>]
<1>1. IsFiniteSet(Grid(kinds))
  BY FiniteGrid
<1>2. ASSUME NEW r \in S
      PROVE  \E c \in Cells(fd, kinds) : r = At(fd, c) /\ m[r] = c /\ c \in Grid(kinds)
  <2>1. PICK c \in Cells(fd, kinds) : r = At(fd, c)
    BY RecordsAre
  <2>2. <<At(fd, c)[1].role, At(fd, c)[2], At(fd, c)[3]>> = c /\ c \in Grid(kinds)
    BY RecordIs
  <2> QED
    BY <2>1, <2>2
<1> HIDE DEF m
<1>3. \A x, y \in S : m[x] = m[y] => x = y
  BY <1>2
<1>4. \A x \in S : f[x] \in Int /\ m[x] \in Grid(kinds) /\ f[x] = g[m[x]]
  BY <1>2
<1>5. \A c \in Grid(kinds) : g[c] # 0 => \E r \in S : c = m[r]
  <2> SUFFICES ASSUME NEW c \in Grid(kinds), g[c] # 0 PROVE \E r \in S : c = m[r]
    OBVIOUS
  <2>1. At(fd, c) \in S /\ c \in Cells(fd, kinds)
    OBVIOUS
  <2>2. m[At(fd, c)] = <<At(fd, c)[1].role, At(fd, c)[2], At(fd, c)[3]>>
    BY <2>1 DEF m
  <2>3. m[At(fd, c)] = c
    BY <2>1, <2>2, RecordIs
  <2> QED
    BY <2>1, <2>3
<1>6. IsFiniteSet(S)
  BY FiniteRecords, FS_Subset
<1> QED
  BY <1>1, <1>3, <1>4, <1>5, <1>6, SumMatch

(* What was typed in a field of the rows is the sum over the grid. *)
LEMMA TypedSum ==
  ASSUME NEW fd, IsForm(fd), NEW status, ~ Refused(fd, status), NEW kinds \in SUBSET Kinds,
         NEW f, \A kind \in kinds : f \in Amounts[kind]
  PROVE  Typed(fd, kinds, f) = SumFunctionOnSet(MoneyGrid(fd, kinds, f), Grid(kinds))
<1> DEFINE S == TypedKeys(fd, kinds, f)
           h == [key \in S |-> fd[key] \div 10]
           g == MoneyGrid(fd, kinds, f)
           m == [key \in S |-> <<key[1], key[2], key[3]>>]
<1>1. Typed(fd, kinds, f) = SumFunctionOnSet(h, S)
  BY DEF Typed, SumFunction
<1>2. S \in SUBSET DOMAIN fd /\ IsFiniteSet(S)
  <2>1. S \in SUBSET DOMAIN fd
    BY DEF TypedKeys
  <2> QED
    BY <2>1, FS_Subset DEF IsForm
<1>3. ASSUME NEW key \in S
      PROVE  /\ m[key] \in Grid(kinds) /\ key = <<m[key][1], m[key][2], m[key][3], f>>
             /\ h[key] = g[m[key]]
  <2>1. /\ key \in DOMAIN fd /\ key[2] \in kinds /\ key[3] < MaxIndexedEntries /\ key[4] = f
    BY DEF TypedKeys
  <2>2. key = <<key[1], key[2], key[3], key[4]>> /\ key[3] \in Nat /\ key[1] \in Persons
    BY <2>1, KeyIs DEF IsForm
  <2>3. key[3] \in Index
    BY <2>1, <2>2, LimitAssumption DEF Index
  <2>4. <<key[1], key[2], key[3]>> \in Grid(kinds)
    BY <2>1, <2>2, <2>3 DEF Grid
  <2>5. g[<<key[1], key[2], key[3]>>] = Money(fd, <<key[1], key[2], key[3], f>>)
    BY <2>4 DEF MoneyGrid
  <2>6. Money(fd, key) = fd[key] \div 10
    BY <2>1 DEF Money, Raw, parse_money
  <2>7. key = <<key[1], key[2], key[3], f>>
    BY <2>1, <2>2
  <2>8. g[<<key[1], key[2], key[3]>>] = fd[key] \div 10
    BY <2>5, <2>6, <2>7
  <2> HIDE DEF g
  <2> QED
    BY <2>4, <2>7, <2>8
<1>4. \A c \in Grid(kinds) : g[c] = Money(fd, <<c[1], c[2], c[3], f>>) /\ g[c] \in Nat
  <2> TAKE c \in Grid(kinds)
  <2>1. c[2] \in kinds /\ c[2] \in RowKinds /\ c[3] \in Index /\ f \in Amounts[c[2]]
    BY GridIs DEF RowKinds
  <2>2. Money(fd, <<c[1], c[2], c[3], f>>) \in Nat
    BY <2>1, MoneyIs
  <2> QED
    BY <2>2 DEF MoneyGrid
<1>5. \A c \in Grid(kinds) : g[c] # 0 => \E key \in S : c = m[key]
  <2> SUFFICES ASSUME NEW c \in Grid(kinds), g[c] # 0 PROVE \E key \in S : c = m[key]
    OBVIOUS
  <2> DEFINE key == <<c[1], c[2], c[3], f>>
  <2>1. key \in DOMAIN fd
    <3>1. key \notin DOMAIN fd => Money(fd, key) = 0
      BY NothingTyped DEF Money, Raw
    <3> QED
      BY <1>4, <3>1
  <2>2. key[1] = c[1] /\ key[2] = c[2] /\ key[3] = c[3] /\ key[4] = f
    OBVIOUS
  <2>3. c[2] \in kinds /\ c[3] < MaxIndexedEntries /\ c = <<c[1], c[2], c[3]>>
    BY GridIs, LimitAssumption DEF Index
  <2> HIDE DEF key
  <2>4. key \in S
    BY <2>1, <2>2, <2>3 DEF TypedKeys
  <2>5. m[key] = c
    BY <2>2, <2>3, <2>4
  <2> QED
    BY <2>4, <2>5
<1>6. IsFiniteSet(Grid(kinds))
  BY FiniteGrid
<1> HIDE DEF S, g, h, m
<1>7. \A x, y \in S : m[x] = m[y] => x = y
  BY <1>3
<1>8. \A x \in S : h[x] \in Int /\ m[x] \in Grid(kinds) /\ h[x] = g[m[x]]
  BY <1>3, <1>4
<1>9. \A c \in Grid(kinds) : g[c] \in Int
  <2>1. \A c \in Grid(kinds) : g[c] \in Nat
    BY <1>4
  <2> QED
    BY <2>1
<1>10. SumFunctionOnSet(h, S) = SumFunctionOnSet(g, Grid(kinds))
  BY <1>2, <1>5, <1>6, <1>7, <1>8, <1>9, SumMatch
<1> QED
  BY <1>1, <1>10 DEF g

-----------------------------------------------------------------------------
(* Totals.                                                                 *)

(* A return made of a form that is not refused. *)
Accepted(fd, status, inp) ==
  /\ IsForm(fd) /\ ~ Refused(fd, status)
  /\ inp = parse_tax_input_from_form(fd, status)

(* What the grid holds: whole cents, and 0 where no row is read. *)
LEMMA GridMoney ==
  ASSUME NEW fd, NEW status, NEW inp, Accepted(fd, status, inp), NEW kinds \in SUBSET Kinds
  PROVE  \A c \in Grid(kinds) : \A f \in Amounts[c[2]] :
           /\ Money(fd, <<c[1], c[2], c[3], f>>) \in Nat
           /\ Raw(fd, <<c[1], c[2], c[3], f>>) = 10 * Money(fd, <<c[1], c[2], c[3], f>>)
           /\ c \notin Cells(fd, kinds) => Money(fd, <<c[1], c[2], c[3], f>>) = 0
<1> TAKE c \in Grid(kinds)
<1> TAKE f \in Amounts[c[2]]
<1>0. IsForm(fd) /\ ~ Refused(fd, status)
  BY DEF Accepted
<1>1. c[2] \in RowKinds /\ c[3] \in Index
  BY GridIs DEF RowKinds
<1>2. /\ Money(fd, <<c[1], c[2], c[3], f>>) \in Nat
      /\ Raw(fd, <<c[1], c[2], c[3], f>>) = 10 * Money(fd, <<c[1], c[2], c[3], f>>)
  BY <1>0, <1>1, MoneyIs
<1>3. c \notin Cells(fd, kinds) => c[3] \notin DOMAIN parse_rows(fd, c[1], c[2])
  BY DEF Cells
<1>4. c \notin Cells(fd, kinds) => Money(fd, <<c[1], c[2], c[3], f>>) = 0
  BY <1>0, <1>1, <1>3, RowsAre
<1> QED
  BY <1>2, <1>4

(* A record holds the money of the row at its place of the grid. *)
LEMMA RecordMoney ==
  ASSUME NEW fd, NEW status, NEW inp, Accepted(fd, status, inp), NEW kinds \in SUBSET Kinds,
         NEW c \in Cells(fd, kinds)
  PROVE  /\ At(fd, c) \in Records(inp, kinds)
         /\ \A f \in Amounts[c[2]] :
              RowOf(At(fd, c))[f] = Money(fd, <<c[1], c[2], c[3], f>>)
         /\ RowOf(At(fd, c))["long_term"] = Box(fd, <<c[1], c[2], c[3], "long_term">>)
<1>0. IsForm(fd) /\ inp = parse_tax_input_from_form(fd, status)
  BY DEF Accepted
<1>1. At(fd, c) \in Records(inp, kinds)
  BY <1>0, RecordsAre
<1>2. RowOf(At(fd, c)) = RowAt(fd, c[1], c[2], c[3]) /\ c \in Grid(kinds)
  BY <1>0, RecordIs
<1>3. c[2] \in RowKinds
  BY <1>2, GridIs DEF RowKinds
<1> QED
  BY <1>1, <1>2, <1>3, RowAtIs

(* A field over the grid is whole, and 0 where there is no record. *)
LEMMA MoneyGridIs ==
  ASSUME NEW fd, NEW status, NEW inp, Accepted(fd, status, inp), NEW kinds \in SUBSET Kinds,
         NEW f, \A kind \in kinds : f \in Amounts[kind]
  PROVE  \A c \in Grid(kinds) :
           /\ f \in Amounts[c[2]]
           /\ MoneyGrid(fd, kinds, f)[c] = Money(fd, <<c[1], c[2], c[3], f>>)
           /\ MoneyGrid(fd, kinds, f)[c] \in Nat
           /\ c \notin Cells(fd, kinds) => MoneyGrid(fd, kinds, f)[c] = 0
<1> TAKE c \in Grid(kinds)
<1>1. f \in Amounts[c[2]]
  BY GridIs
<1>2. MoneyGrid(fd, kinds, f)[c] = Money(fd, <<c[1], c[2], c[3], f>>)
  BY DEF MoneyGrid
<1> QED
  BY <1>1, <1>2, GridMoney

(* A total of a return is the sum of what was typed. *)
LEMMA TotalIsTyped ==
  ASSUME NEW fd, NEW status, NEW inp, Accepted(fd, status, inp), NEW kinds \in SUBSET Kinds,
         NEW f, \A kind \in kinds : f \in Amounts[kind]
  PROVE  /\ Total(inp, kinds, f) = Typed(fd, kinds, f)
         /\ Total(inp, kinds, f) = SumFunctionOnSet(MoneyGrid(fd, kinds, f), Grid(kinds))
<1> DEFINE S == Records(inp, kinds)
           h == [r \in S |-> RowOf(r)[f]]
           g == MoneyGrid(fd, kinds, f)
<1>1. Total(inp, kinds, f) = SumFunctionOnSet(h, S)
  BY DEF Total, SumFunction
<1>2. \A c \in Grid(kinds) : g[c] \in Int /\ (g[c] # 0 => c \in Cells(fd, kinds))
  <2> TAKE c \in Grid(kinds)
  <2>1. g[c] \in Nat /\ (c \notin Cells(fd, kinds) => g[c] = 0)
    BY MoneyGridIs
  <2> QED
    BY <2>1
<1>3. \A c \in Cells(fd, kinds) : At(fd, c) \in S /\ h[At(fd, c)] = g[c]
  <2> TAKE c \in Cells(fd, kinds)
  <2>1. c \in Grid(kinds)
    BY DEF Cells
  <2>2. At(fd, c) \in S /\ h[At(fd, c)] = RowOf(At(fd, c))[f]
    BY RecordMoney
  <2>a. f \in Amounts[c[2]]
    BY <2>1, MoneyGridIs
  <2>3. RowOf(At(fd, c))[f] = Money(fd, <<c[1], c[2], c[3], f>>)
    BY <2>a, RecordMoney
  <2> QED
    BY <2>1, <2>2, <2>3, MoneyGridIs
<1> HIDE DEF g, h
<1>4. SumFunctionOnSet(h, S) = SumFunctionOnSet(g, Grid(kinds))
  BY <1>2, <1>3, RecordsSum DEF Accepted
<1>5. Typed(fd, kinds, f) = SumFunctionOnSet(MoneyGrid(fd, kinds, f), Grid(kinds))
  BY TypedSum DEF Accepted
<1> QED
  BY <1>1, <1>4, <1>5 DEF g

(* The total of one kind of record is the sum of what was typed. *)
LEMMA KindIsTyped ==
  ASSUME NEW fd, NEW status, NEW inp, Accepted(fd, status, inp)
  PROVE  \A kind \in Kinds : \A f \in Amounts[kind] : Total(inp, {kind}, f) = Typed(fd, {kind}, f)
<1> TAKE kind \in Kinds
<1> TAKE f \in Amounts[kind]
<1>1. PICK kinds : kinds = {kind}
  OBVIOUS
<1>2. kinds \in SUBSET Kinds /\ \A k \in kinds : f \in Amounts[k]
  BY <1>1
<1>3. Total(inp, kinds, f) = Typed(fd, kinds, f)
  BY <1>2, TotalIsTyped
<1> QED
  BY <1>1, <1>3

(* The gain of a sale of the wanted terms, over the grid. *)
GainGrid(fd, terms) ==
  [c \in Grid({"b"}) |->
     IF Box(fd, <<c[1], c[2], c[3], "long_term">>) \in terms
     THEN Money(fd, <<c[1], c[2], c[3], "proceeds">>) - Money(fd, <<c[1], c[2], c[3], "cost_basis">>)
     ELSE 0]

(* A gain over the grid is that of the row there. *)
LEMMA GainGridIs ==
  ASSUME NEW fd, NEW status, NEW inp, Accepted(fd, status, inp), NEW terms
  PROVE  \A c \in Grid({"b"}) :
           /\ GainGrid(fd, terms)[c] \in Int
           /\ GainGrid(fd, terms)[c] # 0 => c \in Cells(fd, {"b"})
<1> TAKE c \in Grid({"b"})
<1>1. {"b"} \in SUBSET Kinds /\ "proceeds" \in Amounts["b"] /\ "cost_basis" \in Amounts["b"]
  BY DEF Kinds, Amounts
<1>2. c[2] = "b"
  BY GridIs
<1> DEFINE p == Money(fd, <<c[1], c[2], c[3], "proceeds">>)
           q == Money(fd, <<c[1], c[2], c[3], "cost_basis">>)
<1>3. p \in Nat /\ q \in Nat /\ (c \notin Cells(fd, {"b"}) => p = 0 /\ q = 0)
  BY <1>1, <1>2, GridMoney
<1>4. GainGrid(fd, terms)[c] = p - q \/ GainGrid(fd, terms)[c] = 0
  BY DEF GainGrid
<1> HIDE DEF p, q
<1> QED
  BY <1>3, <1>4

(* The gains of a return are those of the grid. *)
LEMMA GainsSum ==
  ASSUME NEW fd, NEW status, NEW inp, Accepted(fd, status, inp), NEW terms
  PROVE  total_capital_gains(inp, terms) = SumFunctionOnSet(GainGrid(fd, terms), Grid({"b"}))
<1> DEFINE S == {r \in Records(inp, {"b"}) : RowOf(r)["long_term"] \in terms}
           h == [r \in S |-> Gain(RowOf(r))]
           g == GainGrid(fd, terms)
<1>0. {"b"} \in SUBSET Kinds /\ "proceeds" \in Amounts["b"] /\ "cost_basis" \in Amounts["b"]
  BY DEF Kinds, Amounts
<1>1. total_capital_gains(inp, terms) = SumFunctionOnSet(h, S)
  BY DEF total_capital_gains, SumFunction
<1>2. \A c \in Grid({"b"}) : g[c] \in Int /\ (g[c] # 0 => c \in Cells(fd, {"b"}))
  BY GainGridIs
<1>3. ASSUME NEW c \in Cells(fd, {"b"})
      PROVE  /\ At(fd, c) \in S => h[At(fd, c)] = g[c]
             /\ g[c] # 0 => At(fd, c) \in S
  <2>1. c \in Grid({"b"}) /\ c[2] = "b"
    BY GridIs DEF Cells
  <2>2. At(fd, c) \in Records(inp, {"b"})
    BY <1>0, RecordMoney
  <2>3. RowOf(At(fd, c))["long_term"] = Box(fd, <<c[1], c[2], c[3], "long_term">>)
    BY <1>0, RecordMoney
  <2>4. /\ RowOf(At(fd, c))["proceeds"] = Money(fd, <<c[1], c[2], c[3], "proceeds">>)
        /\ RowOf(At(fd, c))["cost_basis"] = Money(fd, <<c[1], c[2], c[3], "cost_basis">>)
    BY <1>0, <2>1, RecordMoney
  <2>5. At(fd, c) \in S <=> Box(fd, <<c[1], c[2], c[3], "long_term">>) \in terms
    BY <2>2, <2>3
  <2>6. At(fd, c) \in S => h[At(fd, c)] = RowOf(At(fd, c))["proceeds"] - RowOf(At(fd, c))["cost_basis"]
    BY DEF Gain
  <2> HIDE DEF S, h
  <2> QED
    BY <2>1, <2>4, <2>5, <2>6 DEF GainGrid
<1>4. S \in SUBSET Records(inp, {"b"})
  OBVIOUS
<1> HIDE DEF S, h, g
<1>5. SumFunctionOnSet(h, S) = SumFunctionOnSet(g, Grid({"b"}))
  BY <1>0, <1>2, <1>3, <1>4, RecordsSum DEF Accepted
<1> QED
  BY <1>1, <1>5 DEF g

(* The gains that were typed are the same sum over the grid. *)
LEMMA TypedGainsSum ==
  ASSUME NEW fd, NEW status, NEW inp, Accepted(fd, status, inp), NEW terms
  PROVE  TypedGain(fd, terms) = SumFunctionOnSet(GainGrid(fd, terms), Grid({"b"}))
<1> DEFINE at(sale, f) == Raw(fd, <<sale[1], "b", sale[2], f>>)
           sales == {<<key[1], key[3]>> : key \in {k \in DOMAIN fd : k[2] = "b"}}
           S == {sale \in sales : sale[2] < MaxIndexedEntries
                                    /\ Checked(at(sale, "long_term")) \in terms}
           h == [sale \in S |-> (at(sale, "proceeds") - at(sale, "cost_basis")) \div 10]
           g == GainGrid(fd, terms)
           m == [sale \in S |-> <<sale[1], "b", sale[2]>>]
<1>0. /\ {"b"} \in SUBSET Kinds /\ "b" \in Kinds
      /\ "proceeds" \in Amounts["b"] /\ "cost_basis" \in Amounts["b"]
  BY DEF Kinds, Amounts
<1>1. TypedGain(fd, terms) = SumFunctionOnSet(h, S)
  BY DEF TypedGain, SumFunction
<1>2. ASSUME NEW sale \in S
      PROVE  /\ m[sale] = <<sale[1], "b", sale[2]>> /\ m[sale] \in Grid({"b"})
             /\ sale = <<sale[1], sale[2]>>
  <2>1. PICK key \in DOMAIN fd : key[2] = "b" /\ sale = <<key[1], key[3]>>
    OBVIOUS
  <2>2. key[1] \in Persons /\ key[3] \in Nat
    BY <1>0, <2>1, KeyIs DEF Accepted, IsForm
  <2>3. sale[1] = key[1] /\ sale[2] = key[3] /\ sale[2] < MaxIndexedEntries
    BY <2>1
  <2>4. sale[2] \in Index
    BY <2>2, <2>3, LimitAssumption DEF Index
  <2> QED
    BY <2>1, <2>2, <2>3, <2>4 DEF Grid
<1>3. ASSUME NEW sale \in S
      PROVE  h[sale] = g[m[sale]]
  <2> DEFINE c == <<sale[1], "b", sale[2]>>
             p == Money(fd, <<c[1], c[2], c[3], "proceeds">>)
             q == Money(fd, <<c[1], c[2], c[3], "cost_basis">>)
  <2>1. c \in Grid({"b"}) /\ m[sale] = c
    BY <1>2
  <2>2. c[1] = sale[1] /\ c[2] = "b" /\ c[3] = sale[2]
    OBVIOUS
  <2>3. at(sale, "proceeds") = Raw(fd, <<c[1], c[2], c[3], "proceeds">>)
        /\ at(sale, "cost_basis") = Raw(fd, <<c[1], c[2], c[3], "cost_basis">>)
    OBVIOUS
  <2>4. Box(fd, <<c[1], c[2], c[3], "long_term">>) \in terms
    BY DEF Box
  <2>5. h[sale] = (at(sale, "proceeds") - at(sale, "cost_basis")) \div 10
    OBVIOUS
  <2> HIDE DEF c, at, h, m
  <2>6. /\ p \in Nat /\ Raw(fd, <<c[1], c[2], c[3], "proceeds">>) = 10 * p
        /\ q \in Nat /\ Raw(fd, <<c[1], c[2], c[3], "cost_basis">>) = 10 * q
    BY <1>0, <2>1, <2>2, GridMoney
  <2>7. g[c] = p - q
    BY <2>1, <2>4 DEF GainGrid
  <2> HIDE DEF p, q, g
  <2>8. h[sale] = (10 * p - 10 * q) \div 10
    BY <2>3, <2>5, <2>6
  <2>9. (10 * p - 10 * q) \div 10 = p - q
    BY <2>6
  <2> QED
    BY <2>1, <2>7, <2>8, <2>9
<1>4. \A c \in Grid({"b"}) : g[c] \in Int
  BY GainGridIs
<1>5. ASSUME NEW c \in Grid({"b"}), g[c] # 0
      PROVE  \E sale \in S : c = m[sale]
  <2> DEFINE p == <<c[1], c[2], c[3], "proceeds">>
             q == <<c[1], c[2], c[3], "cost_basis">>
             sale == <<c[1], c[3]>>
  <2>1. c = <<c[1], c[2], c[3]>> /\ c[2] = "b" /\ c[3] \in Index
    BY GridIs
  <2>2. Box(fd, <<c[1], c[2], c[3], "long_term">>) \in terms
    BY <1>5 DEF GainGrid
  <2>3. g[c] = Money(fd, p) - Money(fd, q)
    BY <2>2 DEF GainGrid
  <2>4. p \in DOMAIN fd \/ q \in DOMAIN fd
    <3>1. p \notin DOMAIN fd => Money(fd, p) = 0
      BY NothingTyped DEF Money, Raw
    <3>2. q \notin DOMAIN fd => Money(fd, q) = 0
      BY NothingTyped DEF Money, Raw
    <3> HIDE DEF p, q, g
    <3> QED
      BY <1>5, <2>3, <3>1, <3>2
  <2>5. PICK key \in DOMAIN fd : key[1] = c[1] /\ key[2] = "b" /\ key[3] = c[3]
    <3>1. p[1] = c[1] /\ p[2] = c[2] /\ p[3] = c[3] /\ q[1] = c[1] /\ q[2] = c[2] /\ q[3] = c[3]
      OBVIOUS
    <3> HIDE DEF p, q
    <3> QED
      BY <2>1, <2>4, <3>1
  <2>6. sale \in sales
    BY <2>5
  <2>7. sale[1] = c[1] /\ sale[2] = c[3] /\ c[3] < MaxIndexedEntries
    BY <2>1, LimitAssumption DEF Index
  <2>8. Checked(at(sale, "long_term")) \in terms
    BY <2>1, <2>2 DEF Box
  <2> HIDE DEF sale, sales, at
  <2>9. sale \in S
    BY <2>6, <2>7, <2>8
  <2> HIDE DEF S
  <2>10. m[sale] = <<sale[1], "b", sale[2]>>
    BY <2>9
  <2> QED
    BY <2>1, <2>7, <2>9, <2>10
<1>6. \A x, y \in S : m[x] = m[y] => x = y
  <2> TAKE x, y \in S
  <2>1. m[x] = <<x[1], "b", x[2]>> /\ x = <<x[1], x[2]>>
    BY <1>2
  <2>2. m[y] = <<y[1], "b", y[2]>> /\ y = <<y[1], y[2]>>
    BY <1>2
  <2> HIDE DEF m, S
  <2> QED
    BY <2>1, <2>2
<1>7. IsFiniteSet(S) /\ IsFiniteSet(Grid({"b"}))
  <2>1. m \in [S -> Grid({"b"})]
    BY <1>2
  <2> HIDE DEF m, S
  <2>2. m \in Injection(S, Grid({"b"}))
    BY <1>6, <2>1 DEF Injection, IsInjective
  <2>3. IsFiniteSet(Grid({"b"}))
    BY <1>0, FiniteGrid
  <2> QED
    BY <2>2, <2>3, FS_Injection
<1> HIDE DEF S, h, g, m
<1>8. \A x \in S : h[x] \in Int /\ m[x] \in Grid({"b"}) /\ h[x] = g[m[x]]
  BY <1>2, <1>3, <1>4
<1>9. SumFunctionOnSet(h, S) = SumFunctionOnSet(g, Grid({"b"}))
  BY <1>4, <1>5, <1>6, <1>7, <1>8, SumMatch
<1> QED
  BY <1>1, <1>9 DEF g

(* The taxpayers of a return, by their person. *)
LEMMA TaxpayerIs ==
  ASSUME NEW fd, NEW status, NEW inp, Accepted(fd, status, inp)
  PROVE  /\ IsFiniteSet(inp.taxpayers)
         /\ \A t \in inp.taxpayers : t.role \in Persons /\ t = parse_taxpayer(fd, t.role)
<1>1. \A t \in inp.taxpayers : \E person \in Persons : t = parse_taxpayer(fd, person)
  BY TaxpayersAre DEF Accepted
<1>2. ASSUME NEW t \in inp.taxpayers
      PROVE  t.role \in Persons /\ t = parse_taxpayer(fd, t.role)
  <2>1. PICK person \in Persons : t = parse_taxpayer(fd, person)
    BY <1>1
  <2>2. t.role = person
    BY <2>1, TaxpayerRole
  <2> QED
    BY <2>1, <2>2
<1> DEFINE T == inp.taxpayers
           m == [t \in T |-> t.role]
<1>3. m \in [T -> Persons] /\ \A x, y \in T : m[x] = m[y] => x = y
  BY <1>2
<1> HIDE DEF m
<1>4. m \in Injection(T, Persons)
  BY <1>3 DEF Injection, IsInjective
<1>5. IsFiniteSet(T)
  BY <1>4, FiniteParts, FS_Injection
<1> QED
  BY <1>2, <1>5

(* A sum over the taxpayers of a return is the sum over the persons. *)
LEMMA TaxpayersSum ==
  ASSUME NEW fd, NEW status, NEW inp, Accepted(fd, status, inp), NEW f, NEW g,
         \A person \in Persons : g[person] \in Int,
         \A t \in inp.taxpayers : f[t] = g[t.role],
         \A person \in Persons : g[person] # 0 => parse_taxpayer(fd, person) \in inp.taxpayers
  PROVE  SumFunctionOnSet(f, inp.taxpayers) = SumFunctionOnSet(g, Persons)
<1> DEFINE T == inp.taxpayers
           m == [t \in T |-> t.role]
<1>1. \A t \in T : m[t] \in Persons /\ t = parse_taxpayer(fd, m[t]) /\ f[t] = g[m[t]]
  BY TaxpayerIs
<1>2. \A person \in Persons : g[person] # 0 => \E t \in T : person = m[t]
  <2> SUFFICES ASSUME NEW person \in Persons, g[person] # 0 PROVE \E t \in T : person = m[t]
    OBVIOUS
  <2>1. parse_taxpayer(fd, person) \in T
    OBVIOUS
  <2>2. m[parse_taxpayer(fd, person)] = person
    BY <2>1, TaxpayerRole
  <2> QED
    BY <2>1, <2>2
<1>3. IsFiniteSet(T) /\ IsFiniteSet(Persons)
  BY TaxpayerIs, FiniteParts
<1> HIDE DEF m
<1>4. \A x, y \in T : m[x] = m[y] => x = y
  BY <1>1
<1>5. \A t \in T : f[t] \in Int /\ m[t] \in Persons /\ f[t] = g[m[t]]
  BY <1>1
<1> HIDE DEF T
<1>6. SumFunctionOnSet(f, T) = SumFunctionOnSet(g, Persons)
  BY <1>2, <1>3, <1>4, <1>5, SumMatch
<1> QED
  BY <1>6 DEF T

(* The military amounts of a return are those that were typed. *)
LEMMA MilitaryIsTyped ==
  ASSUME NEW fd, NEW status, NEW inp, Accepted(fd, status, inp), NEW f \in PersonAmounts
  PROVE  military(inp.taxpayers, f) = Typed(fd, {"field"}, f)
<1> DEFINE h == [t \in inp.taxpayers |-> t.amount[f]]
           g == [person \in Persons |-> Money(fd, <<person, "field", 0, f>>)]
           S == TypedKeys(fd, {"field"}, f)
           k == [key \in S |-> fd[key] \div 10]
           m == [key \in S |-> key[1]]
<1>1. military(inp.taxpayers, f) = SumFunctionOnSet(h, inp.taxpayers)
  BY DEF military, SumFunction
<1>2. Typed(fd, {"field"}, f) = SumFunctionOnSet(k, S)
  BY DEF Typed, SumFunction
<1>3. \A person \in Persons : g[person] \in Int
  <2> TAKE person \in Persons
  <2>1. Money(fd, <<person, "field", 0, f>>) \in Nat
    BY MoneyIs DEF Accepted
  <2> QED
    BY <2>1
<1>4. SumFunctionOnSet(h, inp.taxpayers) = SumFunctionOnSet(g, Persons)
  <2>1. \A t \in inp.taxpayers : h[t] = g[t.role]
    <3> TAKE t \in inp.taxpayers
    <3>1. t.role \in Persons /\ t = parse_taxpayer(fd, t.role)
      BY TaxpayerIs
    <3>2. t.amount[f] = Money(fd, <<t.role, "field", 0, f>>)
      BY <3>1, TaxpayerAmount
    <3> QED
      BY <3>1, <3>2
  <2>2. \A person \in Persons : g[person] # 0 => parse_taxpayer(fd, person) \in inp.taxpayers
    BY TaxpayersAre DEF Accepted
  <2> HIDE DEF h, g
  <2> QED
    BY <1>3, <2>1, <2>2, TaxpayersSum
<1>5. f \notin HouseholdFields
  BY DEF PersonAmounts, HouseholdFields, HouseholdAmounts, HouseholdCounts, HouseholdFlags
<1>6. ASSUME NEW key \in S
      PROVE  /\ m[key] \in Persons /\ key = <<m[key], "field", 0, f>> /\ k[key] = g[m[key]]
  <2>1. key \in DOMAIN fd /\ key[2] = "field" /\ key[4] = f /\ m[key] = key[1]
    BY DEF TypedKeys
  <2>2. key = <<key[1], key[2], key[3], key[4]>> /\ key[1] \in Persons /\ key[3] = 0
    BY <1>5, <2>1, KeyIs DEF Accepted, IsForm
  <2>3. key = <<key[1], "field", 0, f>>
    BY <2>1, <2>2
  <2>4. Money(fd, key) = fd[key] \div 10
    BY <2>1 DEF Money, Raw, parse_money
  <2>5. k[key] = Money(fd, <<key[1], "field", 0, f>>)
    BY <2>3, <2>4
  <2>6. g[key[1]] = Money(fd, <<key[1], "field", 0, f>>)
    BY <2>2
  <2> HIDE DEF k, g, m
  <2> QED
    BY <2>1, <2>2, <2>3, <2>5, <2>6
<1>7. \A person \in Persons : g[person] # 0 => \E key \in S : person = m[key]
  <2> SUFFICES ASSUME NEW person \in Persons, g[person] # 0 PROVE \E key \in S : person = m[key]
    OBVIOUS
  <2> DEFINE key == <<person, "field", 0, f>>
  <2>1. key \notin DOMAIN fd => Money(fd, key) = 0
    BY NothingTyped DEF Money, Raw
  <2>2. g[person] = Money(fd, key)
    OBVIOUS
  <2>3. key[1] = person /\ key[2] = "field" /\ key[3] = 0 /\ key[4] = f
    OBVIOUS
  <2> HIDE DEF key, g
  <2>4. 0 < MaxIndexedEntries
    BY LimitAssumption
  <2>5. key \in S
    BY <2>1, <2>2, <2>3, <2>4 DEF TypedKeys
  <2> QED
    BY <2>3, <2>5
<1>8. IsFiniteSet(S) /\ IsFiniteSet(Persons)
  <2>1. S \in SUBSET DOMAIN fd
    BY DEF TypedKeys
  <2> HIDE DEF S
  <2> QED
    BY <2>1, FiniteParts, FS_Subset DEF Accepted, IsForm
<1> HIDE DEF S, k, g, m, h
<1>9. \A x, y \in S : m[x] = m[y] => x = y
  BY <1>6
<1>10. \A x \in S : k[x] \in Int /\ m[x] \in Persons /\ k[x] = g[m[x]]
  BY <1>3, <1>6
<1>11. SumFunctionOnSet(k, S) = SumFunctionOnSet(g, Persons)
  BY <1>3, <1>7, <1>8, <1>9, <1>10, SumMatch
<1> QED
  BY <1>1, <1>2, <1>4, <1>11

(* An amount of the household is the one that was typed. *)
LEMMA HouseholdIsTyped ==
  ASSUME NEW fd, NEW status, NEW inp, Accepted(fd, status, inp), NEW f \in HouseholdAmounts
  PROVE  inp.amount[f] = Typed(fd, {"field"}, f)
<1> DEFINE key == <<"household", "field", 0, f>>
           S == TypedKeys(fd, {"field"}, f)
           k == [x \in S |-> fd[x] \div 10]
<1>1. inp.amount[f] = Money(fd, key)
  BY DEF Accepted, parse_tax_input_from_form
<1>2. Typed(fd, {"field"}, f) = SumFunctionOnSet(k, S)
  BY DEF Typed, SumFunction
<1>3. f \notin PersonFields
  BY DEF PersonFields, PersonFlags, PersonAmounts, HouseholdAmounts
<1>4. ASSUME NEW x \in S
      PROVE  x = key
  <2>1. x \in DOMAIN fd /\ x[2] = "field" /\ x[4] = f
    BY DEF TypedKeys
  <2>2. x = <<x[1], x[2], x[3], x[4]>> /\ x[1] = "household" /\ x[3] = 0
    BY <1>3, <2>1, KeyIs DEF Accepted, IsForm
  <2> QED
    BY <2>1, <2>2
<1>5. key[2] = "field" /\ key[3] = 0 /\ key[4] = f /\ 0 < MaxIndexedEntries
  BY LimitAssumption
<1>6. Money(fd, key) \in Nat
  BY MoneyIs DEF Accepted
<1> HIDE DEF key
<1>7. key \in S <=> key \in DOMAIN fd
  BY <1>5 DEF TypedKeys
<1>8. CASE key \in DOMAIN fd
  <2>1. k[key] = Money(fd, key)
    BY <1>7, <1>8 DEF Money, Raw, parse_money
  <2>2. S = {key}
    BY <1>4, <1>7, <1>8
  <2> HIDE DEF S, k
  <2>a. k[key] \in Int
    BY <1>6, <2>1
  <2>3. SumFunctionOnSet(k, {key}) = k[key]
    BY <2>a, SumAlone
  <2> QED
    BY <1>1, <1>2, <2>1, <2>2, <2>3
<1>9. CASE key \notin DOMAIN fd
  <2>1. S = {}
    BY <1>4, <1>7, <1>9
  <2>2. Money(fd, key) = 0
    BY <1>9, NothingTyped DEF Money, Raw
  <2> HIDE DEF S, k
  <2> QED
    BY <1>1, <1>2, <2>1, <2>2, SumOfNone
<1> QED
  BY <1>8, <1>9

(* The boxes of a taxpayer are finitely many. *)
LEMMA FiniteFlags == \A flags \in SUBSET {"65", "blind"} : IsFiniteSet(flags)
<1>1. IsFiniteSet({"65"}) /\ IsFiniteSet({"blind"})
  BY FS_Singleton
<1>2. IsFiniteSet({"65"} \cup {"blind"})
  BY <1>1, FS_Union
<1>3. {"65"} \cup {"blind"} = {"65", "blind"}
  OBVIOUS
<1>4. IsFiniteSet({"65", "blind"})
  BY <1>2, <1>3
<1> QED
  BY <1>4, FS_Subset

(* The boxes counted on a return are those that were ticked. *)
LEMMA BoxesAreTicked ==
  ASSUME NEW fd, NEW status, NEW inp, Accepted(fd, status, inp), NEW flags \in SUBSET {"65", "blind"}
  PROVE  boxes(inp, flags) = Ticked(fd, flags)
<1> DEFINE B == inp.taxpayers \X flags
           T == Persons \X flags
           K == {key \in DOMAIN fd : key[1] \in Persons /\ key[2] = "field"
                                         /\ key[4] \in flags /\ fd[key] = 1}
           h == [box \in B |-> IF box[1].flag[box[2]] THEN 1 ELSE 0]
           g == [place \in T |-> IF Box(fd, <<place[1], "field", 0, place[2]>>) = 1 THEN 1 ELSE 0]
           k == [key \in K |-> 1]
           m == [box \in B |-> <<box[1].role, box[2]>>]
           n == [key \in K |-> <<key[1], key[4]>>]
<1>1. boxes(inp, flags) = SumFunctionOnSet(h, B)
  BY DEF boxes, SumFunction
<1>2. IsFiniteSet(B) /\ IsFiniteSet(T)
  <2>3. IsFiniteSet(flags)
    BY FiniteFlags
  <2> QED
    BY <2>3, TaxpayerIs, FiniteParts, FS_Product
<1>3. \A place \in T :
        /\ g[place] = IF Box(fd, <<place[1], "field", 0, place[2]>>) = 1 THEN 1 ELSE 0
        /\ place[1] \in Persons /\ place[2] \in flags /\ place = <<place[1], place[2]>>
  OBVIOUS
<1>4. ASSUME NEW box \in B
      PROVE  /\ m[box] = <<box[1].role, box[2]>> /\ m[box] \in T
             /\ box = <<parse_taxpayer(fd, m[box][1]), m[box][2]>>
             /\ h[box] = g[m[box]]
  <2>1. box[1] \in inp.taxpayers /\ box[2] \in flags /\ box = <<box[1], box[2]>>
    OBVIOUS
  <2>2. box[1].role \in Persons /\ box[1] = parse_taxpayer(fd, box[1].role)
    BY <2>1, TaxpayerIs
  <2>3. m[box] = <<box[1].role, box[2]>>
    OBVIOUS
  <2>4. box[1].flag[box[2]] <=> Box(fd, <<box[1].role, "field", 0, box[2]>>) = 1
    <3>1. PICK t, role, f : t = box[1] /\ role = t.role /\ f = box[2]
      OBVIOUS
    <3>2. f \in {"65", "blind"} /\ t = parse_taxpayer(fd, role)
      BY <2>1, <2>2, <3>1
    <3> HIDE DEF B
    <3>3. parse_taxpayer(fd, role).flag[f] <=> Box(fd, <<role, "field", 0, f>>) = 1
      BY <3>2, TaxpayerFlag, Zenon
    <3>4. t.flag[f] <=> Box(fd, <<role, "field", 0, f>>) = 1
      BY <3>2, <3>3, Zenon
    <3> QED
      BY <3>1, <3>4, Zenon
  <2>5. h[box] = IF box[1].flag[box[2]] THEN 1 ELSE 0
    OBVIOUS
  <2>6. m[box] \in T /\ m[box][1] = box[1].role /\ m[box][2] = box[2]
    BY <2>1, <2>2, <2>3
  <2> HIDE DEF B, T, h, g, m
  <2>7. g[m[box]] = IF Box(fd, <<box[1].role, "field", 0, box[2]>>) = 1 THEN 1 ELSE 0
    BY <1>3, <2>6
  <2>8. h[box] = g[m[box]]
    BY <2>4, <2>5, <2>7
  <2> QED
    BY <2>1, <2>2, <2>3, <2>6, <2>8
<1>5. ASSUME NEW place \in T, g[place] # 0
      PROVE  /\ \E box \in B : place = m[box]
             /\ \E key \in K : place = n[key]
  <2>1. place[1] \in Persons /\ place[2] \in flags /\ place = <<place[1], place[2]>>
    BY <1>3
  <2>2. Box(fd, <<place[1], "field", 0, place[2]>>) = 1
    BY <1>3, <1>5
  <2>3. \E box \in B : place = m[box]
    <3> DEFINE t == parse_taxpayer(fd, place[1])
    <3>1. t \in inp.taxpayers
      BY <2>1, <2>2, TaxpayersAre DEF Accepted
    <3>2. t.role = place[1]
      BY TaxpayerRole
    <3> HIDE DEF t
    <3>3. <<t, place[2]>> \in B /\ m[<<t, place[2]>>] = <<t.role, place[2]>>
      BY <2>1, <3>1
    <3> QED
      BY <2>1, <3>2, <3>3
  <2>4. \E key \in K : place = n[key]
    <3> DEFINE key == <<place[1], "field", 0, place[2]>>
    <3>1. Raw(fd, key) = 1
      BY <2>2 DEF Box, Checked
    <3>2. key[1] = place[1] /\ key[2] = "field" /\ key[4] = place[2]
      OBVIOUS
    <3> HIDE DEF key
    <3>3. key \in DOMAIN fd /\ fd[key] = 1
      BY <3>1 DEF Raw
    <3>4. key \in K
      BY <2>1, <3>2, <3>3
    <3> QED
      BY <2>1, <3>2, <3>4
  <2> QED
    BY <2>3, <2>4
<1>6. ASSUME NEW key \in K
      PROVE  /\ n[key] \in T /\ key = <<n[key][1], "field", 0, n[key][2]>> /\ g[n[key]] = 1
  <2>1. key \in DOMAIN fd /\ key[1] \in Persons /\ key[2] = "field" /\ key[4] \in flags /\ fd[key] = 1
    OBVIOUS
  <2>2. key = <<key[1], key[2], key[3], key[4]>> /\ key[3] = 0
    BY <2>1, KeyIs DEF Accepted, IsForm
  <2>3. n[key] \in T /\ n[key][1] = key[1] /\ n[key][2] = key[4]
    BY <2>1
  <2>4. Box(fd, key) = 1
    BY <2>1 DEF Box, Checked, Raw
  <2>5. key = <<n[key][1], "field", 0, n[key][2]>>
    BY <2>1, <2>2, <2>3
  <2> HIDE DEF K, T, g, n
  <2> QED
    BY <1>3, <2>3, <2>4, <2>5
<1>7. IsFiniteSet(K)
  <2>1. K \in SUBSET DOMAIN fd
    OBVIOUS
  <2> HIDE DEF K
  <2> QED
    BY <2>1, FS_Subset DEF Accepted, IsForm
<1>8. \A key \in K : k[key] = 1
  OBVIOUS
<1>9. Ticked(fd, flags) = Cardinality(K)
  BY DEF Ticked
<1>10. \A place \in T : g[place] \in Int
  BY <1>3
<1> HIDE DEF B, T, K, h, g, k, m, n
<1>11. SumFunctionOnSet(h, B) = SumFunctionOnSet(g, T)
  <2>1. \A x \in B : h[x] \in Int /\ m[x] \in T /\ h[x] = g[m[x]]
    BY <1>4, <1>10
  <2>2. \A x, y \in B : m[x] = m[y] => x = y
    BY <1>4
  <2>3. \A y \in T : g[y] \in Int /\ (g[y] # 0 => \E x \in B : y = m[x])
    BY <1>5, <1>10
  <2> QED
    BY <1>2, <2>1, <2>2, <2>3, SumMatch
<1>12. SumFunctionOnSet(k, K) = SumFunctionOnSet(g, T)
  <2>1. \A x \in K : k[x] \in Int /\ n[x] \in T /\ k[x] = g[n[x]]
    BY <1>6, <1>8
  <2>2. \A x, y \in K : n[x] = n[y] => x = y
    BY <1>6
  <2>3. \A y \in T : g[y] \in Int /\ (g[y] # 0 => \E x \in K : y = n[x])
    BY <1>5, <1>10
  <2> QED
    BY <1>2, <1>7, <2>1, <2>2, <2>3, SumMatch
<1>13. SumFunctionOnSet(k, K) = Cardinality(K)
  BY <1>7, <1>8, SumOnes
<1> QED
  BY <1>1, <1>9, <1>11, <1>12, <1>13

(* The Medicare wages are what was typed in Box 5, and Box 1 where it is 0. *)
LEMMA MedicareWages ==
  ASSUME NEW fd, NEW status, NEW inp, Accepted(fd, status, inp)
  PROVE  /\ total_medicare_wages(inp) >= Total(inp, {"w2"}, "medicare_wages")
         /\ Total(inp, {"w2"}, "medicare_wages") = 0 =>
              total_medicare_wages(inp) = Total(inp, {"w2"}, "wages")
<1> DEFINE G == Grid({"w2"})
           S == Records(inp, {"w2"})
           box5 == MoneyGrid(fd, {"w2"}, "medicare_wages")
           box1 == MoneyGrid(fd, {"w2"}, "wages")
           h == [r \in S |-> IF RowOf(r)["medicare_wages"] > 0 THEN RowOf(r)["medicare_wages"]
                                                               ELSE RowOf(r)["wages"]]
           g == [c \in G |-> IF box5[c] > 0 THEN box5[c] ELSE box1[c]]
           d == [c \in G |-> IF box5[c] > 0 THEN 0 ELSE box1[c]]
<1>0. /\ {"w2"} \in SUBSET Kinds
      /\ \A kind \in {"w2"} : "wages" \in Amounts[kind] /\ "medicare_wages" \in Amounts[kind]
  BY DEF Kinds, Amounts
<1>1. total_medicare_wages(inp) = SumFunctionOnSet(h, S)
  BY DEF total_medicare_wages, SumFunction
<1>2. \A c \in G : /\ "medicare_wages" \in Amounts[c[2]]
                   /\ box5[c] = Money(fd, <<c[1], c[2], c[3], "medicare_wages">>) /\ box5[c] \in Nat
                   /\ c \notin Cells(fd, {"w2"}) => box5[c] = 0
  BY <1>0, MoneyGridIs
<1>3. \A c \in G : /\ "wages" \in Amounts[c[2]]
                   /\ box1[c] = Money(fd, <<c[1], c[2], c[3], "wages">>) /\ box1[c] \in Nat
                   /\ c \notin Cells(fd, {"w2"}) => box1[c] = 0
  BY <1>0, MoneyGridIs
<1> HIDE DEF box5, box1
<1>4. \A c \in G : /\ g[c] = IF box5[c] > 0 THEN box5[c] ELSE box1[c]
                   /\ d[c] = IF box5[c] > 0 THEN 0 ELSE box1[c]
  OBVIOUS
<1>5. \A r \in S : h[r] = IF RowOf(r)["medicare_wages"] > 0 THEN RowOf(r)["medicare_wages"]
                                                            ELSE RowOf(r)["wages"]
  OBVIOUS
<1>6. \A c \in Cells(fd, {"w2"}) : c \in G
  BY DEF Cells
<1> HIDE DEF g, d, h, G
<1>7. \A c \in G : g[c] \in Int /\ (g[c] # 0 => c \in Cells(fd, {"w2"}))
  <2> TAKE c \in G
  <2>1. box5[c] \in Nat /\ box1[c] \in Nat
    BY <1>2, <1>3
  <2>2. c \notin Cells(fd, {"w2"}) => box5[c] = 0 /\ box1[c] = 0
    BY <1>2, <1>3
  <2> QED
    BY <1>4, <2>1, <2>2
<1>8. \A c \in Cells(fd, {"w2"}) : At(fd, c) \in S /\ h[At(fd, c)] = g[c]
  <2> TAKE c \in Cells(fd, {"w2"})
  <2>1. At(fd, c) \in S
    BY <1>0, RecordMoney
  <2>2. c \in G /\ "medicare_wages" \in Amounts[c[2]] /\ "wages" \in Amounts[c[2]]
    BY <1>2, <1>3, <1>6
  <2>3. RowOf(At(fd, c))["medicare_wages"] = Money(fd, <<c[1], c[2], c[3], "medicare_wages">>)
    BY <1>0, <2>2, RecordMoney
  <2>4. RowOf(At(fd, c))["wages"] = Money(fd, <<c[1], c[2], c[3], "wages">>)
    BY <1>0, <2>2, RecordMoney
  <2>5. RowOf(At(fd, c))["medicare_wages"] = box5[c] /\ RowOf(At(fd, c))["wages"] = box1[c]
    BY <1>2, <1>3, <2>2, <2>3, <2>4
  <2> QED
    BY <1>4, <1>5, <2>1, <2>2, <2>5
<1>9. SumFunctionOnSet(h, S) = SumFunctionOnSet(g, G)
  BY <1>0, <1>7, <1>8, RecordsSum DEF Accepted, G
<1>10. IsFiniteSet(G)
  BY <1>0, FiniteGrid DEF G
<1>11. \A c \in G : box5[c] \in Int /\ d[c] \in Int /\ d[c] \in Nat /\ g[c] = box5[c] + d[c]
  <2> TAKE c \in G
  <2>1. box5[c] \in Nat /\ box1[c] \in Nat
    BY <1>2, <1>3
  <2> QED
    BY <1>4, <2>1
<1>12. SumFunctionOnSet(g, G) = SumFunctionOnSet(box5, G) + SumFunctionOnSet(d, G)
  BY <1>10, <1>11, SumPlus
<1>13. /\ Total(inp, {"w2"}, "medicare_wages") = SumFunctionOnSet(box5, G)
       /\ Total(inp, {"w2"}, "wages") = SumFunctionOnSet(box1, G)
  BY <1>0, TotalIsTyped DEF box5, box1, G
<1>14. SumFunctionOnSet(d, G) \in Nat
  BY <1>10, <1>11, SumNonNegative
<1>15. /\ SumFunctionOnSet(box5, G) \in Nat
       /\ \A c \in G : box5[c] <= SumFunctionOnSet(box5, G)
  BY <1>2, <1>10, SumNonNegative
<1>16. ASSUME SumFunctionOnSet(box5, G) = 0
       PROVE  SumFunctionOnSet(g, G) = SumFunctionOnSet(box1, G)
  <2>1. \A c \in G : box5[c] \in Nat /\ box5[c] <= 0
    BY <1>2, <1>15, <1>16
  <2>2. \A c \in G : g[c] = box1[c]
    BY <1>4, <2>1
  <2> QED
    BY <1>10, <2>2, SumEqual
<1>17. SumFunctionOnSet(g, G) >= SumFunctionOnSet(box5, G)
  BY <1>12, <1>14, <1>15
<1> QED
  BY <1>1, <1>9, <1>13, <1>16, <1>17

(* A return with some of the taxpayers of another. *)
IsPart(some, inp) == some.taxpayers \in SUBSET inp.taxpayers

(* A return with some of the taxpayers has the records of these. *)
LEMMA RecordsOfSome ==
  ASSUME NEW inp, NEW some, IsPart(some, inp), NEW kinds
  PROVE  /\ Records(some, kinds) \in SUBSET Records(inp, kinds)
         /\ \A r \in Records(inp, kinds) : r \in Records(some, kinds) <=> r[1] \in some.taxpayers
<1>1. ASSUME NEW r \in Records(some, kinds)
      PROVE  r \in Records(inp, kinds) /\ r[1] \in some.taxpayers
  <2>1. PICK t \in some.taxpayers, kind \in kinds : r \in RecordsOf(t, kind)
    BY DEF Records
  <2>2. r[1] = t
    BY <2>1 DEF RecordsOf
  <2>3. t \in inp.taxpayers
    BY DEF IsPart
  <2>4. r \in Records(inp, kinds)
    BY <2>1, <2>3 DEF Records
  <2> QED
    BY <2>1, <2>2, <2>4
<1>2. ASSUME NEW r \in Records(inp, kinds), r[1] \in some.taxpayers
      PROVE  r \in Records(some, kinds)
  <2>1. PICK t \in inp.taxpayers, kind \in kinds : r \in RecordsOf(t, kind)
    BY DEF Records
  <2>2. r[1] = t
    BY <2>1 DEF RecordsOf
  <2> QED
    BY <1>2, <2>1, <2>2 DEF Records
<1> QED
  BY <1>1, <1>2

(* A record is of a taxpayer and a kind, and its amounts are whole. *)
LEMMA RecordValue ==
  ASSUME NEW fd, NEW status, NEW inp, Accepted(fd, status, inp), NEW kinds \in SUBSET Kinds
  PROVE  \A r \in Records(inp, kinds) :
           /\ r[1] \in inp.taxpayers /\ r[1].role \in Persons /\ r[2] \in kinds
           /\ \A f \in Amounts[r[2]] : RowOf(r)[f] \in Nat
<1> TAKE r \in Records(inp, kinds)
<1>1. PICK c \in Cells(fd, kinds) : r = At(fd, c)
  BY RecordsAre DEF Accepted
<1>2. c \in Grid(kinds)
  BY DEF Cells
<1>3. PICK t \in inp.taxpayers, kind \in kinds : r \in RecordsOf(t, kind)
  BY DEF Records
<1>4. r[1] = t /\ r[2] = kind
  BY <1>3 DEF RecordsOf
<1>5. r[2] = c[2]
  BY <1>1 DEF At
<1>6. \A f \in Amounts[c[2]] : RowOf(At(fd, c))[f] \in Nat
  <2> TAKE f \in Amounts[c[2]]
  <2>1. RowOf(At(fd, c))[f] = Money(fd, <<c[1], c[2], c[3], f>>)
    BY RecordMoney
  <2>2. Money(fd, <<c[1], c[2], c[3], f>>) \in Nat
    BY <1>2, GridMoney
  <2> QED
    BY <2>1, <2>2
<1>7. \A f \in Amounts[r[2]] : RowOf(r)[f] \in Nat
  BY <1>1, <1>5, <1>6, Zenon
<1>8. r[1].role \in Persons
  BY <1>4, TaxpayerIs
<1> QED
  BY <1>4, <1>7, <1>8

(* A return cut down to a role has the taxpayers of that role. *)
LEMMA OfRoleIs ==
  ASSUME NEW fd, NEW status, NEW inp, Accepted(fd, status, inp), NEW role
  PROVE  /\ OfRole(inp, role).taxpayers = {t \in inp.taxpayers : t.role = role}
         /\ \A kinds : /\ Records(OfRole(inp, role), kinds) \in SUBSET Records(inp, kinds)
                       /\ \A r \in Records(inp, kinds) :
                            r \in Records(OfRole(inp, role), kinds) <=>
                              r[1] \in inp.taxpayers /\ r[1].role = role
<1>1. OfRole(inp, role).taxpayers = {t \in inp.taxpayers : t.role = role}
  BY DEF Accepted, parse_tax_input_from_form, OfRole
<1>2. IsPart(OfRole(inp, role), inp)
  BY <1>1 DEF IsPart
<1>3. PICK some : some = OfRole(inp, role)
  OBVIOUS
<1>4. IsPart(some, inp)
  BY <1>2, <1>3
<1>5. \A kinds : /\ Records(some, kinds) \in SUBSET Records(inp, kinds)
                /\ \A r \in Records(inp, kinds) :
                     r \in Records(some, kinds) <=> r[1] \in some.taxpayers
  BY <1>4, RecordsOfSome
<1>6. ASSUME NEW kinds
      PROVE  /\ Records(some, kinds) \in SUBSET Records(inp, kinds)
             /\ \A r \in Records(inp, kinds) :
                  r \in Records(some, kinds) <=> r[1] \in inp.taxpayers /\ r[1].role = role
  BY <1>1, <1>3, <1>5
<1> QED
  BY <1>1, <1>3, <1>6

(* A total is the sum of those of the two persons. *)
LEMMA TotalByRole ==
  ASSUME NEW fd, NEW status, NEW inp, Accepted(fd, status, inp), NEW kinds \in SUBSET Kinds,
         NEW f, \A kind \in kinds : f \in Amounts[kind]
  PROVE  /\ Total(OfRole(inp, "p"), kinds, f) \in Int
         /\ Total(OfRole(inp, "s"), kinds, f) \in Int
         /\ Total(OfRole(inp, "p"), kinds, f) + Total(OfRole(inp, "s"), kinds, f)
              = Total(inp, kinds, f)
<1> DEFINE S == Records(inp, kinds)
           h == [r \in S |-> RowOf(r)[f]]
           P == Records(OfRole(inp, "p"), kinds)
           Q == Records(OfRole(inp, "s"), kinds)
           hp == [r \in P |-> RowOf(r)[f]]
           hq == [r \in Q |-> RowOf(r)[f]]
<1>0. /\ Total(inp, kinds, f) = SumFunctionOnSet(h, S)
      /\ Total(OfRole(inp, "p"), kinds, f) = SumFunctionOnSet(hp, P)
      /\ Total(OfRole(inp, "s"), kinds, f) = SumFunctionOnSet(hq, Q)
  BY DEF Total, SumFunction
<1>1. P \in SUBSET S /\ \A r \in S : r \in P <=> r[1] \in inp.taxpayers /\ r[1].role = "p"
  BY OfRoleIs
<1>2. Q \in SUBSET S /\ \A r \in S : r \in Q <=> r[1] \in inp.taxpayers /\ r[1].role = "s"
  BY OfRoleIs
<1>3. IsFiniteSet(S) /\ IsFiniteSet(P) /\ IsFiniteSet(Q)
  <2>1. IsFiniteSet(S)
    BY FiniteRecords DEF Accepted
  <2> HIDE DEF S, P, Q
  <2> QED
    BY <1>1, <1>2, <2>1, FS_Subset
<1>4. \A r \in P : hp[r] = RowOf(r)[f]
  OBVIOUS
<1>5. \A r \in Q : hq[r] = RowOf(r)[f]
  OBVIOUS
<1>6. \A r \in S : h[r] = RowOf(r)[f] /\ h[r] \in Int
  <2> TAKE r \in S
  <2>1. r[2] \in kinds
    BY RecordValue
  <2>2. RowOf(r)[f] \in Nat
    BY <2>1, RecordValue
  <2> QED
    BY <2>2
<1>7. \A r \in S : r[1] \in inp.taxpayers /\ r[1].role \in Persons
  BY RecordValue
<1> HIDE DEF S, P, Q, h, hp, hq
<1>8. SumFunctionOnSet(hp, P) = SumFunctionOnSet(h, P)
  <2>1. \A r \in P : hp[r] = h[r]
    BY <1>1, <1>4, <1>6
  <2> QED
    BY <1>3, <2>1, SumEqual
<1>9. SumFunctionOnSet(hq, Q) = SumFunctionOnSet(h, Q)
  <2>1. \A r \in Q : hq[r] = h[r]
    BY <1>2, <1>5, <1>6
  <2> QED
    BY <1>3, <2>1, SumEqual
<1>10. S \ P = Q
  <2>1. \A r \in S : r \in P <=> r[1].role = "p"
    BY <1>1, <1>7
  <2>2. \A r \in S : r \in Q <=> r[1].role = "s"
    BY <1>2, <1>7
  <2>3. \A r \in S : r[1].role = "p" <=> r[1].role # "s"
    BY <1>7 DEF Persons
  <2>4. \A r \in S : r \in Q <=> r \notin P
    BY <2>1, <2>2, <2>3
  <2> QED
    BY <1>2, <2>4
<1>11. SumFunctionOnSet(h, S) = SumFunctionOnSet(h, P) + SumFunctionOnSet(h, S \ P)
  BY <1>1, <1>3, <1>6, SumSplit
<1>12. SumFunctionOnSet(h, P) \in Int /\ SumFunctionOnSet(h, Q) \in Int
  BY <1>1, <1>2, <1>3, <1>6, SumType
<1> QED
  BY <1>0, <1>8, <1>9, <1>10, <1>11, <1>12

(* What the two persons earned is the wages and the compensations. *)
LEMMA EarnedIsShared ==
  ASSUME NEW fd, NEW status, NEW inp, Accepted(fd, status, inp)
  PROVE  _earned_income_for_role(inp, "p") + _earned_income_for_role(inp, "s")
           = Total(inp, {"w2"}, "wages") + Total(inp, {"nec"}, "compensation")
<1>1. /\ {"w2"} \in SUBSET Kinds /\ {"nec"} \in SUBSET Kinds
      /\ \A kind \in {"w2"} : "wages" \in Amounts[kind]
      /\ \A kind \in {"nec"} : "compensation" \in Amounts[kind]
  BY DEF Kinds, Amounts
<1> DEFINE w(inp_) == Total(inp_, {"w2"}, "wages")
           n(inp_) == Total(inp_, {"nec"}, "compensation")
<1>2. /\ w(OfRole(inp, "p")) \in Int /\ w(OfRole(inp, "s")) \in Int
      /\ w(OfRole(inp, "p")) + w(OfRole(inp, "s")) = w(inp)
  BY <1>1, TotalByRole
<1>3. /\ n(OfRole(inp, "p")) \in Int /\ n(OfRole(inp, "s")) \in Int
      /\ n(OfRole(inp, "p")) + n(OfRole(inp, "s")) = n(inp)
  BY <1>1, TotalByRole
<1>4. \A role : _earned_income_for_role(inp, role) = w(OfRole(inp, role)) + n(OfRole(inp, role))
  BY DEF _earned_income_for_role
<1> HIDE DEF w, n
<1>5. _earned_income_for_role(inp, "p") + _earned_income_for_role(inp, "s") = w(inp) + n(inp)
  BY <1>2, <1>3, <1>4
<1> QED
  BY <1>5 DEF w, n

-----------------------------------------------------------------------------
(* The inputs of the rules.                                                *)

ComputedNames ==
  {"wages", "medicare_wages", "medicare_withheld", "interest", "ordinary", "qualified",
   "net_gain", "long_term_gain", "short_term_gain", "withholding", "compensation", "dependents",
   "aotc_tier1", "aotc_tier2", "earned_primary", "earned_spouse", "age_blind_boxes", "seniors",
   "blind", "combat_pay", "officer_combat_pay", "officer_combat_months", "moving_expenses",
   "reservist_travel"}

(* The names the engine computes are not those of the household's fields. *)
LEMMA NamesApart ==
  /\ \A inp : DOMAIN Computed(inp) = ComputedNames
  /\ ComputedNames \cap HouseholdFields = {}
  /\ HouseholdAmounts \cap HouseholdCounts = {} /\ HouseholdAmounts \cap HouseholdFlags = {}
  /\ HouseholdCounts \cap HouseholdFlags = {}
<1>1. \A inp : DOMAIN Computed(inp) = ComputedNames
  BY DEF Computed, ComputedNames
<1>2. ComputedNames \cap HouseholdAmounts = {}
  BY DEF ComputedNames, HouseholdAmounts
<1>3. ComputedNames \cap HouseholdCounts = {}
  BY DEF ComputedNames, HouseholdCounts
<1>4. ComputedNames \cap HouseholdFlags = {}
  BY DEF ComputedNames, HouseholdFlags
<1>5. /\ HouseholdAmounts \cap HouseholdCounts = {} /\ HouseholdAmounts \cap HouseholdFlags = {}
      /\ HouseholdCounts \cap HouseholdFlags = {}
  BY DEF HouseholdAmounts, HouseholdCounts, HouseholdFlags
<1> QED
  BY <1>1, <1>2, <1>3, <1>4, <1>5 DEF HouseholdFields

(* What a rule finds under a name: a field of the household or a computed
   value. *)
LEMMA InputsAre ==
  /\ \A inp : DOMAIN _resolve_inputs(inp) = HouseholdFields \cup ComputedNames
  /\ \A inp : \A ref \in ComputedNames : _resolve_inputs(inp)[ref] = Computed(inp)[ref]
  /\ \A inp : \A ref \in HouseholdAmounts : _resolve_inputs(inp)[ref] = inp.amount[ref]
  /\ \A inp : \A ref \in HouseholdCounts : _resolve_inputs(inp)[ref] = inp.count[ref]
  /\ \A inp : \A ref \in HouseholdFlags : _resolve_inputs(inp)[ref] = inp.flag[ref]
<1>1. ASSUME NEW inp
      PROVE  /\ DOMAIN _resolve_inputs(inp) = HouseholdFields \cup ComputedNames
             /\ \A ref \in ComputedNames : _resolve_inputs(inp)[ref] = Computed(inp)[ref]
             /\ \A ref \in HouseholdAmounts : _resolve_inputs(inp)[ref] = inp.amount[ref]
             /\ \A ref \in HouseholdCounts : _resolve_inputs(inp)[ref] = inp.count[ref]
             /\ \A ref \in HouseholdFlags : _resolve_inputs(inp)[ref] = inp.flag[ref]
  <2>1. DOMAIN Computed(inp) = ComputedNames
    BY NamesApart
  <2>2. \A ref : (ref \in ComputedNames => ref \notin HouseholdFields)
    BY NamesApart
  <2>3. DOMAIN _resolve_inputs(inp) = HouseholdFields \cup ComputedNames
    BY <2>1 DEF _resolve_inputs, HouseholdFields
  <2>4. \A ref \in ComputedNames : _resolve_inputs(inp)[ref] = Computed(inp)[ref]
    BY <2>1, <2>2 DEF _resolve_inputs, HouseholdFields
  <2>5. \A ref \in HouseholdAmounts : _resolve_inputs(inp)[ref] = inp.amount[ref]
    BY <2>1, <2>2, NamesApart DEF _resolve_inputs, HouseholdFields
  <2>6. \A ref \in HouseholdCounts : _resolve_inputs(inp)[ref] = inp.count[ref]
    BY <2>1, <2>2, NamesApart DEF _resolve_inputs, HouseholdFields
  <2>7. \A ref \in HouseholdFlags : _resolve_inputs(inp)[ref] = inp.flag[ref]
    BY <2>1, <2>2, NamesApart DEF _resolve_inputs, HouseholdFields
  <2> QED
    BY <2>3, <2>4, <2>5, <2>6, <2>7
<1> QED
  BY <1>1

(* Every amount that was typed is in the inputs of the rules. *)
LEMMA FormIsKept ==
  ASSUME NEW fd, IsForm(fd), NEW status
  PROVE  KeepsAmounts(fd, status)
<1> SUFFICES ASSUME ~ Refused(fd, status)
             PROVE  KeepsAmounts(fd, status)
  BY DEF KeepsAmounts
<1>0. PICK inp : inp = parse_tax_input_from_form(fd, status)
  OBVIOUS
<1>a. Accepted(fd, status, inp)
  BY <1>0 DEF Accepted
<1>1. PICK inputs : inputs = _resolve_inputs(inp)
  OBVIOUS
<1>2. \A ref \in ComputedNames : inputs[ref] = Computed(inp)[ref]
  BY <1>1, InputsAre
<1>3. \A ref \in HouseholdAmounts : inputs[ref] = inp.amount[ref]
  BY <1>1, InputsAre
<1>4. /\ "wages" \in Amounts["w2"] /\ "medicare_tax" \in Amounts["w2"]
      /\ "medicare_wages" \in Amounts["w2"] /\ "interest" \in Amounts["int"]
      /\ "ordinary" \in Amounts["div"] /\ "qualified" \in Amounts["div"]
      /\ "compensation" \in Amounts["nec"]
      /\ \A kind \in Kinds : "federal_withheld" \in Amounts[kind]
  BY DEF Amounts, Kinds
<1>5. "w2" \in Kinds /\ "int" \in Kinds /\ "div" \in Kinds /\ "nec" \in Kinds
  BY DEF Kinds
<1>t. \A kind \in Kinds : \A f \in Amounts[kind] : Total(inp, {kind}, f) = Typed(fd, {kind}, f)
  BY <1>a, KindIsTyped
<1>w. inputs["wages"] = Total(inp, {"w2"}, "wages")
  BY <1>2 DEF Computed, ComputedNames
<1>mw. inputs["medicare_wages"] = total_medicare_wages(inp)
  BY <1>2 DEF Computed, ComputedNames
<1>c. inputs["compensation"] = Total(inp, {"nec"}, "compensation")
  BY <1>2 DEF Computed, ComputedNames
<1>ep. inputs["earned_primary"] = _earned_income_for_role(inp, "p")
  BY <1>2 DEF Computed, ComputedNames
<1>es. inputs["earned_spouse"] = _earned_income_for_role(inp, "s")
  BY <1>2 DEF Computed, ComputedNames
<1>6. /\ inputs["wages"] = Typed(fd, {"w2"}, "wages")
      /\ inputs["compensation"] = Typed(fd, {"nec"}, "compensation")
  BY <1>t, <1>4, <1>5, <1>w, <1>c
<1>7. inputs["medicare_withheld"] = Typed(fd, {"w2"}, "medicare_tax")
  <2>1. inputs["medicare_withheld"] = Total(inp, {"w2"}, "medicare_tax")
    BY <1>2 DEF Computed, ComputedNames
  <2> QED
    BY <1>t, <1>4, <1>5, <2>1
<1>8. inputs["interest"] = Typed(fd, {"int"}, "interest")
  <2>1. inputs["interest"] = Total(inp, {"int"}, "interest")
    BY <1>2 DEF Computed, ComputedNames
  <2> QED
    BY <1>t, <1>4, <1>5, <2>1
<1>9. inputs["ordinary"] = Typed(fd, {"div"}, "ordinary")
  <2>1. inputs["ordinary"] = Total(inp, {"div"}, "ordinary")
    BY <1>2 DEF Computed, ComputedNames
  <2> QED
    BY <1>t, <1>4, <1>5, <2>1
<1>10. inputs["qualified"] = Typed(fd, {"div"}, "qualified")
  <2>1. inputs["qualified"] = Total(inp, {"div"}, "qualified")
    BY <1>2 DEF Computed, ComputedNames
  <2> QED
    BY <1>t, <1>4, <1>5, <2>1
<1>11. inputs["withholding"] = Typed(fd, Kinds, "federal_withheld")
  <2>1. inputs["withholding"] = Total(inp, Kinds, "federal_withheld")
    BY <1>2 DEF Computed, ComputedNames, total_federal_withholding
  <2> QED
    BY <1>a, <1>4, <2>1, TotalIsTyped
<1>12. /\ inputs["net_gain"] = TypedGain(fd, {0, 1})
       /\ inputs["long_term_gain"] = TypedGain(fd, {1})
       /\ inputs["short_term_gain"] = TypedGain(fd, {0})
  <2>1. \A terms : total_capital_gains(inp, terms) = TypedGain(fd, terms)
    BY <1>a, GainsSum, TypedGainsSum
  <2>2. /\ inputs["net_gain"] = total_capital_gains(inp, {0, 1})
        /\ inputs["long_term_gain"] = total_capital_gains(inp, {1})
        /\ inputs["short_term_gain"] = total_capital_gains(inp, {0})
    BY <1>2 DEF Computed, ComputedNames
  <2> QED
    BY <2>1, <2>2
<1>13. inputs["age_blind_boxes"] = Ticked(fd, {"65", "blind"})
  <2>1. inputs["age_blind_boxes"] = boxes(inp, {"65", "blind"})
    BY <1>2 DEF Computed, ComputedNames
  <2> QED
    BY <1>a, <2>1, BoxesAreTicked
<1>14. \A f \in HouseholdAmounts : inputs[f] = Typed(fd, {"field"}, f)
  BY <1>a, <1>3, HouseholdIsTyped
<1>15. \A f \in PersonAmounts : inputs[f] = Typed(fd, {"field"}, f)
  <2>1. \A f \in PersonAmounts : inputs[f] = military(inp.taxpayers, f)
    BY <1>2 DEF Computed, ComputedNames, PersonAmounts
  <2> QED
    BY <1>a, <2>1, MilitaryIsTyped
<1>16. inputs["earned_primary"] + inputs["earned_spouse"]
         = inputs["wages"] + inputs["compensation"]
  BY <1>a, <1>w, <1>c, <1>ep, <1>es, EarnedIsShared
<1>17. Total(inp, {"w2"}, "medicare_wages") = Typed(fd, {"w2"}, "medicare_wages")
  BY <1>t, <1>4, <1>5
<1>18. /\ inputs["medicare_wages"] >= Typed(fd, {"w2"}, "medicare_wages")
       /\ Typed(fd, {"w2"}, "medicare_wages") = 0 => inputs["medicare_wages"] = inputs["wages"]
  BY <1>a, <1>w, <1>mw, <1>17, MedicareWages
<1>19. \A ref \in DOMAIN AsTyped(fd) : inputs[ref] = AsTyped(fd)[ref]
  BY <1>6, <1>7, <1>8, <1>9, <1>10, <1>11, <1>12, <1>13 DEF AsTyped
<1> QED
  BY <1>0, <1>1, <1>14, <1>15, <1>16, <1>18, <1>19 DEF KeepsAmounts

(* The kinds of record a file can hold. *)
LEMMA CsvKinds ==
  ASSUME NEW kind \in DOMAIN _REQUIRED_HEADERS
  PROVE  /\ kind \in RowKinds /\ kind # "field" /\ CsvAmounts(kind) \in SUBSET Amounts[kind]
         /\ Amounts[kind] \cap (Texts[kind] \cup {"long_term"}) = {}
<1>1. kind \in {"w2", "b", "int", "div"}
  BY DEF _REQUIRED_HEADERS
<1>2. /\ kind \in RowKinds /\ kind # "field" /\ CsvAmounts(kind) \in SUBSET Amounts[kind]
  BY <1>1 DEF CsvAmounts, RowKinds, Kinds, Amounts
<1>3. \A k \in {"w2", "b", "int", "div"} : Amounts[k] \cap (Texts[k] \cup {"long_term"}) = {}
  BY DEF Amounts, Texts
<1> QED
  BY <1>1, <1>2, <1>3

(* The field of a form that is made of a line holds what stands in its column. *)
LEMMA FormHoldsCell ==
  ASSUME NEW file, file.kind \in DOMAIN _REQUIRED_HEADERS, NEW line, NEW cells,
         cells = Restrict(line, file.headers \cap DOMAIN line),
         NEW f \in CsvAmounts(file.kind) \cup Texts[file.kind] \cup {"long_term"}
  PROVE  LET form == FormOf(file, line)
             key  == <<"p", file.kind, 0, f>>
         IN  /\ Raw(form, key) = CsvRaw(cells, CsvSource(file.headers, f))
             /\ key \in DOMAIN form => form[key] = Raw(form, key)
             /\ key \notin DOMAIN form => CsvRaw(cells, CsvSource(file.headers, f)) = 0
<1> DEFINE kind == file.kind
           from(g) == CsvSource(file.headers, g)
           fields  == {g \in CsvAmounts(kind) \cup Texts[kind] \cup {"long_term"} :
                          from(g) \in DOMAIN line /\ from(g) \in file.headers}
           keys == {<<"p", kind, 0, g>> : g \in fields}
           key == <<"p", kind, 0, f>>
           form == FormOf(file, line)
<1>1. form = [k \in keys |-> line[from(k[4])]]
  BY DEF FormOf
<1>2. key[4] = f /\ \A g : key = <<"p", kind, 0, g>> <=> f = g
  OBVIOUS
<1>3. f \in fields <=> from(f) \in file.headers \cap DOMAIN line
  OBVIOUS
<1>4. cells = [c \in file.headers \cap DOMAIN line |-> line[c]]
  BY DEF Restrict
<1> HIDE DEF key, from
<1>5. key \in keys <=> f \in fields
  <2> HIDE DEF fields
  <2> QED
    BY <1>2
<1> HIDE DEF keys, fields
<1>6. key \in DOMAIN form <=> from(f) \in DOMAIN cells
  BY <1>1, <1>3, <1>4, <1>5
<1>7. key \in DOMAIN form => form[key] = cells[from(f)]
  BY <1>1, <1>2, <1>4, <1>6
<1> HIDE DEF form
<1>8. Raw(form, key) = CsvRaw(cells, from(f))
  BY <1>6, <1>7 DEF Raw, CsvRaw
<1>9. key \in DOMAIN form => form[key] = Raw(form, key)
  BY DEF Raw
<1>10. key \notin DOMAIN form => CsvRaw(cells, from(f)) = 0
  BY <1>6 DEF CsvRaw
<1> QED
  BY <1>8, <1>9, <1>10 DEF form, key, from

(* A line can be read exactly if the form takes every amount of it. *)
LEMMA ReadableAsForm ==
  ASSUME NEW file, file.kind \in DOMAIN _REQUIRED_HEADERS, NEW line, NEW cells,
         cells = Restrict(line, file.headers \cap DOMAIN line)
  PROVE  ReadableLine(cells, file.kind, file.headers) <=>
           \A key \in MoneyKeys(FormOf(file, line)) : IsMoney(FormOf(file, line)[key])
<1> DEFINE kind == file.kind
           key(f) == <<"p", kind, 0, f>>
<1>1. PICK form : form = FormOf(file, line)
  OBVIOUS
<1>2. /\ kind # "field" /\ CsvAmounts(kind) \in SUBSET Amounts[kind]
      /\ Amounts[kind] \cap (Texts[kind] \cup {"long_term"}) = {}
  BY CsvKinds
<1>3. /\ \A f \in CsvAmounts(kind) \cup Texts[kind] \cup {"long_term"} :
            /\ Raw(form, key(f)) = CsvRaw(cells, CsvSource(file.headers, f))
            /\ key(f) \in DOMAIN form => form[key(f)] = Raw(form, key(f))
            /\ key(f) \notin DOMAIN form => CsvRaw(cells, CsvSource(file.headers, f)) = 0
  BY <1>1, FormHoldsCell
<1>4. \A k \in DOMAIN form :
        \E f \in CsvAmounts(kind) \cup Texts[kind] \cup {"long_term"} : k = key(f)
  BY <1>1 DEF FormOf
<1>5. \A f : key(f)[2] = kind /\ key(f)[3] = 0 /\ key(f)[4] = f
  OBVIOUS
<1>6. IsMoney(0)
  BY MoneyAssumption DEF IsMoney
<1> HIDE DEF key
<1>7. \A k \in DOMAIN form :
        k \in MoneyKeys(form) <=> \E f \in CsvAmounts(kind) : k = key(f)
  <2> SUFFICES ASSUME NEW f \in CsvAmounts(kind) \cup Texts[kind] \cup {"long_term"},
                      key(f) \in DOMAIN form
               PROVE  key(f) \in MoneyKeys(form) <=> f \in CsvAmounts(kind)
    BY <1>4, <1>5
  <2>1. key(f) \in MoneyKeys(form) <=> f \in Amounts[kind]
    BY <1>2, <1>5, LimitAssumption DEF MoneyKeys
  <2> QED
    BY <1>2, <2>1
<1>8. \A k \in MoneyKeys(form) : k \in DOMAIN form
  BY DEF MoneyKeys
<1>9. (\A k \in MoneyKeys(form) : IsMoney(form[k])) <=>
        \A f \in CsvAmounts(kind) : key(f) \in DOMAIN form => IsMoney(form[key(f)])
  BY <1>7, <1>8
<1>10. \A f \in CsvAmounts(kind) :
         IsMoney(CsvRaw(cells, CsvSource(file.headers, f))) <=>
             (key(f) \in DOMAIN form => IsMoney(form[key(f)]))
  <2> TAKE f \in CsvAmounts(kind)
  <2>1. CASE key(f) \in DOMAIN form
    <3>1. form[key(f)] = CsvRaw(cells, CsvSource(file.headers, f))
      BY <1>3, <2>1
    <3> QED
      BY <2>1, <3>1
  <2>2. CASE key(f) \notin DOMAIN form
    <3>1. CsvRaw(cells, CsvSource(file.headers, f)) = 0
      BY <1>3, <2>2
    <3> QED
      BY <1>6, <2>2, <3>1
  <2> QED
    BY <2>1, <2>2
<1> QED
  BY <1>1, <1>9, <1>10 DEF ReadableLine

(* A record has the amounts of the row of the form, or zeros if there is none. *)
LEMMA RecordAsForm ==
  ASSUME NEW file, file.kind \in DOMAIN _REQUIRED_HEADERS, NEW line, NEW cells,
         cells = Restrict(line, file.headers \cap DOMAIN line),
         NEW rows, rows = parse_rows(FormOf(file, line), "p", file.kind)
  PROVE  \A f \in CsvAmounts(file.kind) :
           CsvRecord(cells, file.kind, file.headers)[f] = IF 0 \in DOMAIN rows THEN rows[0][f] ELSE 0
<1> TAKE f \in CsvAmounts(file.kind)
<1> DEFINE kind == file.kind
           key == <<"p", kind, 0, f>>
<1>1. PICK form : form = FormOf(file, line)
  OBVIOUS
<1>2. kind \in RowKinds /\ f \in Amounts[kind] /\ f # "long_term"
  BY CsvKinds
<1>3. Raw(form, key) = CsvRaw(cells, CsvSource(file.headers, f))
  BY <1>1, FormHoldsCell
<1>4. CsvRecord(cells, kind, file.headers)[f] = Money(form, key)
  <2>1. CsvRecord(cells, kind, file.headers)[f] = parse_money(CsvRaw(cells, CsvSource(file.headers, f)))
    BY <1>2 DEF CsvRecord
  <2> HIDE DEF key
  <2> QED
    BY <1>3, <2>1 DEF Money
<1>5. CASE 0 \in DOMAIN rows
  <2>1. rows[0] = RowAt(form, "p", kind, 0)
    BY <1>1, <1>5 DEF parse_rows
  <2>2. RowAt(form, "p", kind, 0)[f] = Money(form, <<"p", kind, 0, f>>)
    <3> HIDE DEF kind
    <3> QED
      BY <1>2, RowAtIs
  <2>3. rows[0][f] = Money(form, key)
    BY <2>1, <2>2
  <2> QED
    BY <1>4, <1>5, <2>3
<1>6. CASE 0 \notin DOMAIN rows
  <2>1. 0 \notin collect_indices(form, "p", kind) \/ ~ HasData(form, "p", kind, 0)
    BY <1>1, <1>6 DEF parse_rows
  <2>2. CASE ~ HasData(form, "p", kind, 0)
    BY <1>2, <1>4, <1>6, <2>2 DEF HasData
  <2>3. CASE 0 \notin collect_indices(form, "p", kind)
    <3>1. key[1] = "p" /\ key[2] = kind /\ key[3] = 0 /\ 0 < MaxIndexedEntries
      BY LimitAssumption
    <3>2. key \notin DOMAIN form
      <4> HIDE DEF key
      <4> QED
        BY <2>3, <3>1 DEF collect_indices
    <3>3. Raw(form, key) = 0
      BY <3>2 DEF Raw
    <3>4. Money(form, key) = 0
      BY <3>3, NothingTyped DEF Money
    <3> QED
      BY <1>4, <1>6, <3>4
  <2> QED
    BY <2>1, <2>2, <2>3
<1> QED
  BY <1>5, <1>6

(* Every line before the first failure is taken as the form takes it, and is
   counted once. *)
LEMMA LinesAreKept ==
  ASSUME NEW file, NEW Line, file.lines \in Seq(Line)
  PROVE  CsvMatchesForm(file)
<1> DEFINE before == {i \in DOMAIN file.lines : \A cut \in file.broken : i < cut}
           good == {i \in before : ReadableLine(FoundCells(file, i), file.kind, file.headers)}
           failures == IF file.broken = {} THEN 0 ELSE 1
<1>1. PICK result : result = import_csv(file)
  OBVIOUS
<1> SUFFICES ASSUME HasHeaders(file), ~ result.raises
             PROVE  /\ DOMAIN result.records \subseteq before
                    /\ Cardinality(DOMAIN result.records) + result.errors = Cardinality(before) + failures
                    /\ \A i \in before : LineAsForm(file, result, i)
  BY <1>1 DEF CsvMatchesForm
<1>2. file.kind \in DOMAIN _REQUIRED_HEADERS
  BY DEF HasHeaders
<1>3. result = [raises  |-> FALSE,
                records |-> [i \in good |-> CsvRecord(FoundCells(file, i), file.kind, file.headers)],
                errors  |-> Cardinality(before \ good) + failures]
  <2>1. 0 \in file.broken => result.raises
    BY <1>1, <1>2 DEF import_csv
  <2> QED
    BY <1>1, <1>2, <2>1 DEF import_csv
<1>4. /\ result.records = [i \in good |-> CsvRecord(FoundCells(file, i), file.kind, file.headers)]
      /\ result.errors = Cardinality(before \ good) + failures
      /\ DOMAIN result.records = good /\ good \in SUBSET before
  BY <1>3
<1>5. IsFiniteSet(before)
  <2>1. Len(file.lines) \in Nat /\ DOMAIN file.lines = 1..Len(file.lines)
    OBVIOUS
  <2>2. PICK n \in Nat : DOMAIN file.lines = 1..n
    BY <2>1
  <2>3. IsFiniteSet(1..n)
    BY FS_Interval
  <2> QED
    BY <2>2, <2>3, FS_Subset
<1>6. Cardinality(good) + result.errors = Cardinality(before) + failures
  <2> HIDE DEF good, before
  <2>1. before \cap good = good /\ IsFiniteSet(good)
    BY <1>4, <1>5, FS_Subset
  <2>2. Cardinality(before \ good) = Cardinality(before) - Cardinality(before \cap good)
    BY <1>5, FS_Difference
  <2>3. Cardinality(good) \in Nat /\ Cardinality(before) \in Nat
    BY <1>5, <2>1, FS_CardinalityType
  <2>4. failures \in Nat
    OBVIOUS
  <2> HIDE DEF failures
  <2>5. PICK g \in Nat, b \in Nat, n \in Nat :
          g = Cardinality(good) /\ b = Cardinality(before) /\ n = failures
    BY <2>3, <2>4
  <2>6. result.errors = (b - g) + n
    BY <1>4, <2>1, <2>2, <2>5
  <2>7. g + ((b - g) + n) = b + n
    OBVIOUS
  <2> QED
    BY <2>5, <2>6, <2>7
<1>7. ASSUME NEW i \in before PROVE LineAsForm(file, result, i)
  <2>1. PICK line, cells : line = file.lines[i] /\ cells = FoundCells(file, i)
    OBVIOUS
  <2>2. cells = Restrict(line, file.headers \cap DOMAIN line)
    BY <2>1 DEF FoundCells
  <2>3. PICK form : form = FormOf(file, line)
    OBVIOUS
  <2>4. i \in good <=> ReadableLine(cells, file.kind, file.headers)
    BY <2>1
  <2>5. i \in DOMAIN result.records <=> \A key \in MoneyKeys(form) : IsMoney(form[key])
    <3> HIDE DEF good
    <3> QED
      BY <1>2, <1>4, <2>2, <2>3, <2>4, ReadableAsForm
  <2>6. PICK rows : rows = parse_rows(form, "p", file.kind)
    OBVIOUS
  <2>7. ASSUME i \in DOMAIN result.records, NEW f \in CsvAmounts(file.kind)
        PROVE  result.records[i][f] = IF 0 \in DOMAIN rows THEN rows[0][f] ELSE 0
    <3>1. result.records[i] = CsvRecord(cells, file.kind, file.headers)
      <4> HIDE DEF good
      <4> QED
        BY <1>4, <2>1, <2>7
    <3>r. rows = parse_rows(FormOf(file, line), "p", file.kind)
      BY <2>3, <2>6
    <3>2. CsvRecord(cells, file.kind, file.headers)[f] = IF 0 \in DOMAIN rows THEN rows[0][f] ELSE 0
      <4>1. \A g \in CsvAmounts(file.kind) :
              CsvRecord(cells, file.kind, file.headers)[g] = IF 0 \in DOMAIN rows THEN rows[0][g] ELSE 0
        <5> HIDE DEF before, good
        <5> QED
          BY <1>2, <2>2, <3>r, RecordAsForm
      <4> QED
        BY <4>1
    <3> QED
      BY <3>1, <3>2
  <2> HIDE DEF before, good
  <2> QED
    BY <2>1, <2>3, <2>5, <2>6, <2>7 DEF LineAsForm
<1> HIDE DEF good
<1> QED
  BY <1>4, <1>6, <1>7

(* What the page and the import are given: a form of the page under any
   status, or a file of any columns with any lines, broken anywhere. *)
ReturnGiven ==
  /\ topic = "return" => IsForm(case.form)
  /\ topic = "csv" => case.lines \in Seq(UNION {[columns -> Int] : columns \in SUBSET STRING})

(* Every amount that was typed below the row limit on a form that is accepted
   is in the inputs of the rules, and every line of a file before the first
   failure of the csv reader is a record with the amounts the form would take
   from the columns that are found, or an error.  parse_tax_input_from_form,
   _resolve_inputs, import_csv *)
THEOREM AmountsAreKept == ReturnGiven => ReturnKeepsAmounts
<1>1. topic = "return" /\ ReturnGiven => KeepsAmounts(case.form, case.status)
  BY FormIsKept DEF ReturnGiven
<1>2. topic = "csv" /\ ReturnGiven => CsvMatchesForm(case)
  BY LinesAreKept DEF ReturnGiven
<1> QED
  BY <1>1, <1>2 DEF ReturnKeepsAmounts

-----------------------------------------------------------------------------
(* The what-if comparisons: the returns of some of the taxpayers.          *)

(* An amount that all of some kinds of record have. *)
AmountOf(f, kinds) == kinds \in SUBSET Kinds /\ \A kind \in kinds : f \in Amounts[kind]

Values(base, kinds, f) == [r \in Records(base, kinds) |-> RowOf(r)[f]]

(* The copies, one for each of the taxpayers of `base`, that together have
   the taxpayers of `whole`. *)
Divided(base, whole, apart) ==
  /\ IsPart(whole, base)
  /\ \A t \in base.taxpayers : apart[t].taxpayers = whole.taxpayers \cap {t}

(* Each copy of a divided return has some of its taxpayers. *)
LEMMA DividedIs ==
  ASSUME NEW base, NEW whole, NEW apart, Divided(base, whole, apart)
  PROVE  /\ IsPart(whole, base)
         /\ \A t \in base.taxpayers : IsPart(apart[t], base)
         /\ \A t \in base.taxpayers : apart[t].taxpayers = whole.taxpayers \cap {t}
BY DEF Divided, IsPart

IntOn(f, S) == \A x \in S : f[x] \in Int

Totals(base, apart, kinds, f) == [t \in base.taxpayers |-> Total(apart[t], kinds, f)]

Sums(base, apart, kinds, f, among) ==
  [t \in base.taxpayers |-> SumFunctionOnSet(f, Records(apart[t], kinds) \cap among)]

(* The amounts of the records of an accepted return are whole. *)
LEMMA ValuesAre ==
  ASSUME NEW fd, NEW status, NEW base, Accepted(fd, status, base),
         NEW kinds, NEW f, AmountOf(f, kinds)
  PROVE  /\ IntOn(Values(base, kinds, f), Records(base, kinds))
         /\ \A r \in Records(base, kinds) : Values(base, kinds, f)[r] = RowOf(r)[f]
<1>1. \A r \in Records(base, kinds) : Values(base, kinds, f)[r] = RowOf(r)[f]
  BY DEF Values
<1>2. ASSUME NEW r \in Records(base, kinds)
      PROVE  RowOf(r)[f] \in Int
  <2>1. kinds \in SUBSET Kinds
    BY DEF AmountOf
  <2>2. r[2] \in kinds
    BY <2>1, RecordValue
  <2>3. f \in Amounts[r[2]]
    BY <2>2 DEF AmountOf
  <2>4. RowOf(r)[f] \in Nat
    BY <2>1, <2>3, RecordValue
  <2> QED
    BY <2>4
<1> QED
  BY <1>1, <1>2 DEF IntOn

(* A sum over the records of some of the taxpayers. *)
LEMMA SomeRecords ==
  ASSUME NEW fd, NEW status, NEW base, Accepted(fd, status, base), NEW kinds \in SUBSET Kinds,
         NEW some, IsPart(some, base)
  PROVE  /\ IsFiniteSet(Records(some, kinds)) /\ Records(some, kinds) \in SUBSET Records(base, kinds)
         /\ \A r \in Records(base, kinds) : r \in Records(some, kinds) <=> r[1] \in some.taxpayers
<1>1. IsFiniteSet(Records(base, kinds))
  BY FiniteRecords DEF Accepted
<1>2. /\ Records(some, kinds) \in SUBSET Records(base, kinds)
      /\ \A r \in Records(base, kinds) : r \in Records(some, kinds) <=> r[1] \in some.taxpayers
  BY RecordsOfSome
<1>3. IsFiniteSet(Records(some, kinds))
  BY <1>1, <1>2, FS_Subset
<1> QED
  BY <1>2, <1>3

(* A total of some of the taxpayers is a sum over records of all of them. *)
LEMMA TotalOfSome ==
  ASSUME NEW fd, NEW status, NEW base, Accepted(fd, status, base),
         NEW kinds, NEW f, AmountOf(f, kinds),
         NEW some, IsPart(some, base)
  PROVE  Total(some, kinds, f) = SumFunctionOnSet(Values(base, kinds, f), Records(some, kinds))
<1> DEFINE R == Records(base, kinds)
           S == Records(some, kinds)
           h == [r \in S |-> RowOf(r)[f]]
           g == Values(base, kinds, f)
<1>0. kinds \in SUBSET Kinds
  BY DEF AmountOf
<1>1. Total(some, kinds, f) = SumFunctionOnSet(h, S)
  BY DEF Total, SumFunction
<1>2. S \in SUBSET R /\ IsFiniteSet(S)
  BY <1>0, SomeRecords
<1>3. \A r \in R : g[r] \in Int /\ g[r] = RowOf(r)[f]
  BY ValuesAre DEF IntOn
<1>4. \A r \in S : h[r] = RowOf(r)[f]
  OBVIOUS
<1> HIDE DEF R, S, h, g
<1>5. \A r \in S : h[r] = g[r] /\ g[r] \in Int
  BY <1>2, <1>3, <1>4
<1>6. SumFunctionOnSet(h, S) = SumFunctionOnSet(g, S)
  BY <1>2, <1>5, SumEqual
<1> QED
  BY <1>1, <1>6 DEF S, g

(* A total of some of the taxpayers is whole. *)
LEMMA TotalType ==
  ASSUME NEW fd, NEW status, NEW base, Accepted(fd, status, base),
         NEW kinds, NEW f, AmountOf(f, kinds),
         NEW some, IsPart(some, base)
  PROVE  Total(some, kinds, f) \in Int
<1> DEFINE S == Records(some, kinds)
           g == Values(base, kinds, f)
<1>1. S \in SUBSET Records(base, kinds) /\ IsFiniteSet(S)
  BY SomeRecords DEF AmountOf
<1>2. \A r \in S : g[r] \in Int
  BY <1>1, ValuesAre DEF IntOn
<1> HIDE DEF S, g
<1>3. SumFunctionOnSet(g, S) \in Int
  BY <1>1, <1>2, SumType
<1> QED
  BY <1>3, TotalOfSome DEF S, g

(* A sum over records is the sum of those of the taxpayers. *)
LEMMA RecordsSplit ==
  ASSUME NEW fd, NEW status, NEW base, Accepted(fd, status, base), NEW kinds \in SUBSET Kinds,
         NEW f, IntOn(f, Records(base, kinds)),
         NEW whole, NEW apart, Divided(base, whole, apart), NEW among
  PROVE  SumFunctionOnSet(f, Records(whole, kinds) \cap among)
           = SumFunctionOnSet(Sums(base, apart, kinds, f, among), base.taxpayers)
<1> DEFINE T == base.taxpayers
           R == Records(base, kinds)
           S == Records(whole, kinds) \cap among
           h == Sums(base, apart, kinds, f, among)
           q == [t \in T |-> Records(apart[t], kinds) \cap among]
<1>0. /\ IsPart(whole, base)
      /\ \A t \in T : IsPart(apart[t], base) /\ apart[t].taxpayers = whole.taxpayers \cap {t}
  BY DividedIs
<1>1. /\ Records(whole, kinds) \in SUBSET R
      /\ \A r \in R : r \in Records(whole, kinds) <=> r[1] \in whole.taxpayers
  BY <1>0, SomeRecords
<1>3. IsFiniteSet(R) /\ IsFiniteSet(T)
  BY FiniteRecords, TaxpayerIs DEF Accepted
<1>4. \A r \in R : r[1] \in T
  BY RecordValue
<1>5. ASSUME NEW t \in T
      PROVE  /\ q[t] \in SUBSET S /\ \A x \in S : x \in q[t] <=> x[1] = t
             /\ h[t] = SumFunctionOnSet(f, q[t])
  <2>1. PICK part : part = apart[t]
    OBVIOUS
  <2>2. part.taxpayers = whole.taxpayers \cap {t} /\ IsPart(part, base)
    BY <1>0, <2>1
  <2>3. /\ Records(part, kinds) \in SUBSET R
        /\ \A r \in R : r \in Records(part, kinds) <=> r[1] \in part.taxpayers
    BY <2>2, SomeRecords
  <2>4. \A r \in R : r \in Records(part, kinds) <=> r \in Records(whole, kinds) /\ r[1] = t
    BY <1>1, <2>2, <2>3
  <2>5. q[t] = Records(part, kinds) \cap among
    BY <2>1
  <2>6. h[t] = SumFunctionOnSet(f, q[t])
    BY DEF Sums
  <2> HIDE DEF R, h, q
  <2> QED
    BY <1>1, <2>3, <2>4, <2>5, <2>6
<1>6. S \in SUBSET R
  BY <1>1
<1> HIDE DEF R
<1>7. IsFiniteSet(S)
  BY <1>3, <1>6, FS_Subset
<1>8. \A x \in S : x[1] \in T /\ f[x] \in Int
  BY <1>4, <1>6 DEF R, IntOn
<1> HIDE DEF S, T, h, q
<1>9. SumFunctionOnSet(f, S) = SumFunctionOnSet(h, T)
  BY <1>3, <1>5, <1>7, <1>8, SumByFirst
<1> QED
  BY <1>9 DEF S, T, h

(* A total is the sum of the totals of the taxpayers. *)
LEMMA TotalSplits ==
  ASSUME NEW fd, NEW status, NEW base, Accepted(fd, status, base),
         NEW kinds, NEW f, AmountOf(f, kinds),
         NEW whole, NEW apart, Divided(base, whole, apart)
  PROVE  Total(whole, kinds, f) = SumFunctionOnSet(Totals(base, apart, kinds, f), base.taxpayers)
<1> DEFINE T == base.taxpayers
           g == Values(base, kinds, f)
           R == Records(base, kinds)
           h == Totals(base, apart, kinds, f)
           k == Sums(base, apart, kinds, g, R)
<1>0. kinds \in SUBSET Kinds
  BY DEF AmountOf
<1>1. IsPart(whole, base) /\ \A t \in T : IsPart(apart[t], base)
  BY DividedIs
<1>2. Total(whole, kinds, f) = SumFunctionOnSet(g, Records(whole, kinds))
  BY <1>1, TotalOfSome
<1>3. \A some : IsPart(some, base) => Records(some, kinds) \cap R = Records(some, kinds)
  <2>1. \A some : IsPart(some, base) => Records(some, kinds) \in SUBSET R
    BY <1>0, SomeRecords
  <2> QED
    BY <2>1
<1>4. ASSUME NEW t \in T
      PROVE  h[t] = k[t]
  <2>1. PICK part : part = apart[t]
    OBVIOUS
  <2>2. IsPart(part, base)
    BY <1>1, <2>1
  <2>3. Total(part, kinds, f) = SumFunctionOnSet(g, Records(part, kinds))
    BY <2>2, TotalOfSome
  <2>4. Records(part, kinds) \cap R = Records(part, kinds)
    BY <1>3, <2>2
  <2>5. h[t] = Total(part, kinds, f) /\ k[t] = SumFunctionOnSet(g, Records(part, kinds) \cap R)
    BY <2>1 DEF Totals, Sums
  <2> QED
    BY <2>3, <2>4, <2>5
<1>5. SumFunctionOnSet(g, Records(whole, kinds) \cap R) = SumFunctionOnSet(k, T)
  <2>1. IntOn(g, R)
    BY ValuesAre
  <2> QED
    BY <1>0, <2>1, RecordsSplit
<1>6. Records(whole, kinds) \cap R = Records(whole, kinds)
  BY <1>1, <1>3
<1>7. IsFiniteSet(T)
  BY TaxpayerIs
<1> HIDE DEF h, k, T
<1>8. SumFunctionOnSet(h, T) = SumFunctionOnSet(k, T)
  BY <1>4, <1>7, SumEqual
<1> QED
  BY <1>2, <1>5, <1>6, <1>8 DEF h, T

EachSum(h, base, apart, kinds, f, among) ==
  \A t \in base.taxpayers : h[t] = SumFunctionOnSet(f, Records(apart[t], kinds) \cap among)

(* A sum that is taken over records of each copy and of the whole. *)
LEMMA SumSplits ==
  ASSUME NEW fd, NEW status, NEW base, Accepted(fd, status, base), NEW kinds \in SUBSET Kinds,
         NEW f, IntOn(f, Records(base, kinds)),
         NEW whole, NEW apart, Divided(base, whole, apart), NEW among,
         NEW h, EachSum(h, base, apart, kinds, f, among)
  PROVE  SumFunctionOnSet(f, Records(whole, kinds) \cap among)
           = SumFunctionOnSet(h, base.taxpayers)
<1> DEFINE T == base.taxpayers
           k == Sums(base, apart, kinds, f, among)
<1>1. SumFunctionOnSet(f, Records(whole, kinds) \cap among) = SumFunctionOnSet(k, T)
  BY RecordsSplit
<1>2. \A t \in T : h[t] = k[t]
  BY DEF Sums, EachSum
<1>3. IsFiniteSet(T)
  BY TaxpayerIs
<1> HIDE DEF k, T
<1>4. SumFunctionOnSet(h, T) = SumFunctionOnSet(k, T)
  BY <1>2, <1>3, SumEqual
<1> QED
  BY <1>1, <1>4 DEF T

MedicareValues(base) ==
  [r \in Records(base, {"w2"}) |->
     IF RowOf(r)["medicare_wages"] > 0 THEN RowOf(r)["medicare_wages"] ELSE RowOf(r)["wages"]]

(* The Medicare wages of some of the taxpayers. *)
LEMMA MedicareOfSome ==
  ASSUME NEW fd, NEW status, NEW base, Accepted(fd, status, base), NEW some, IsPart(some, base)
  PROVE  total_medicare_wages(some)
           = SumFunctionOnSet(MedicareValues(base),
                              Records(some, {"w2"}) \cap Records(base, {"w2"}))
<1> DEFINE R == Records(base, {"w2"})
           S == Records(some, {"w2"})
           h == [r \in S |-> IF RowOf(r)["medicare_wages"] > 0 THEN RowOf(r)["medicare_wages"]
                                                               ELSE RowOf(r)["wages"]]
           g == MedicareValues(base)
<1>1. total_medicare_wages(some) = SumFunctionOnSet(h, S)
  BY DEF total_medicare_wages, SumFunction
<1>2. S \in SUBSET R /\ IsFiniteSet(S)
  <2>1. {"w2"} \in SUBSET Kinds
    BY DEF Kinds
  <2> QED
    BY <2>1, SomeRecords
<1>3. \A r \in S : h[r] = g[r]
  BY <1>2 DEF MedicareValues
<1>4. S \cap R = S
  BY <1>2
<1> HIDE DEF S, h, g
<1>5. SumFunctionOnSet(h, S) = SumFunctionOnSet(g, S)
  BY <1>2, <1>3, SumEqual
<1> QED
  BY <1>1, <1>4, <1>5 DEF S, g

(* The Medicare wages are the sum of those of the taxpayers. *)
LEMMA MedicareSplits ==
  ASSUME NEW fd, NEW status, NEW base, Accepted(fd, status, base),
         NEW whole, NEW apart, Divided(base, whole, apart),
         NEW h, \A t \in base.taxpayers : h[t] = total_medicare_wages(apart[t])
  PROVE  total_medicare_wages(whole) = SumFunctionOnSet(h, base.taxpayers)
<1> DEFINE g == MedicareValues(base)
           R == Records(base, {"w2"})
<1>1. {"w2"} \in SUBSET Kinds /\ "wages" \in Amounts["w2"] /\ "medicare_wages" \in Amounts["w2"]
  BY DEF Kinds, Amounts
<1>2. ASSUME NEW r \in R
      PROVE  g[r] \in Int
  <2>1. r[2] = "w2"
    BY <1>1, RecordValue
  <2>2. RowOf(r)["wages"] \in Nat /\ RowOf(r)["medicare_wages"] \in Nat
    BY <1>1, <2>1, RecordValue
  <2>3. g[r] = RowOf(r)["wages"] \/ g[r] = RowOf(r)["medicare_wages"]
    BY DEF MedicareValues
  <2> QED
    BY <2>2, <2>3
<1>3. IntOn(g, R)
  BY <1>2 DEF IntOn
<1>4. IsPart(whole, base) /\ \A t \in base.taxpayers : IsPart(apart[t], base)
  BY DividedIs
<1>5. total_medicare_wages(whole) = SumFunctionOnSet(g, Records(whole, {"w2"}) \cap R)
  BY <1>4, MedicareOfSome
<1>6. \A t \in base.taxpayers :
        h[t] = SumFunctionOnSet(g, Records(apart[t], {"w2"}) \cap R)
  <2> TAKE t \in base.taxpayers
  <2>1. total_medicare_wages(apart[t]) = SumFunctionOnSet(g, Records(apart[t], {"w2"}) \cap R)
    BY <1>4, MedicareOfSome
  <2> QED
    BY <2>1
<1>7. EachSum(h, base, apart, {"w2"}, g, R)
  BY <1>6 DEF EachSum
<1> HIDE DEF g
<1> QED
  BY <1>1, <1>3, <1>5, <1>7, SumSplits

GainValues(base) == [r \in Records(base, {"b"}) |-> Gain(RowOf(r))]
Sales(base, terms) == {r \in Records(base, {"b"}) : RowOf(r)["long_term"] \in terms}

(* The gains of an accepted return are whole. *)
LEMMA GainsType ==
  ASSUME NEW fd, NEW status, NEW base, Accepted(fd, status, base)
  PROVE  IntOn(GainValues(base), Records(base, {"b"}))
<1>1. {"b"} \in SUBSET Kinds /\ "proceeds" \in Amounts["b"] /\ "cost_basis" \in Amounts["b"]
  BY DEF Kinds, Amounts
<1>2. ASSUME NEW r \in Records(base, {"b"})
      PROVE  GainValues(base)[r] \in Int
  <2>1. r[2] = "b"
    BY <1>1, RecordValue
  <2>2. RowOf(r)["proceeds"] \in Nat /\ RowOf(r)["cost_basis"] \in Nat
    BY <1>1, <2>1, RecordValue
  <2>3. GainValues(base)[r] = RowOf(r)["proceeds"] - RowOf(r)["cost_basis"]
    BY DEF GainValues, Gain
  <2> QED
    BY <2>2, <2>3
<1> QED
  BY <1>2 DEF IntOn

(* The gains of some of the taxpayers are a sum over the sales of all. *)
LEMMA GainsOfSome ==
  ASSUME NEW fd, NEW status, NEW base, Accepted(fd, status, base), NEW some, IsPart(some, base),
         NEW terms
  PROVE  /\ total_capital_gains(some, terms)
              = SumFunctionOnSet(GainValues(base), Records(some, {"b"}) \cap Sales(base, terms))
         /\ IsFiniteSet(Records(some, {"b"}) \cap Sales(base, terms))
         /\ Records(some, {"b"}) \cap Sales(base, terms) \in SUBSET Records(base, {"b"})
<1> DEFINE R == Records(base, {"b"})
           S == {r \in Records(some, {"b"}) : RowOf(r)["long_term"] \in terms}
           h == [r \in S |-> Gain(RowOf(r))]
           g == GainValues(base)
<1>1. total_capital_gains(some, terms) = SumFunctionOnSet(h, S)
  BY DEF total_capital_gains, SumFunction
<1>2. Records(some, {"b"}) \in SUBSET R /\ IsFiniteSet(Records(some, {"b"}))
  <2>1. {"b"} \in SUBSET Kinds
    BY DEF Kinds
  <2> QED
    BY <2>1, SomeRecords
<1>3. S = Records(some, {"b"}) \cap Sales(base, terms)
  BY <1>2 DEF Sales
<1>4. S \in SUBSET Records(some, {"b"})
  OBVIOUS
<1>5. \A r \in S : h[r] = g[r]
  BY <1>2 DEF GainValues
<1> HIDE DEF S, h, g
<1>6. IsFiniteSet(S) /\ S \in SUBSET R
  BY <1>2, <1>4, FS_Subset
<1>7. SumFunctionOnSet(h, S) = SumFunctionOnSet(g, S)
  BY <1>5, <1>6, SumEqual
<1> QED
  BY <1>1, <1>3, <1>6, <1>7 DEF g

(* The gains are the sum of those of the taxpayers. *)
LEMMA GainsSplit ==
  ASSUME NEW fd, NEW status, NEW base, Accepted(fd, status, base),
         NEW whole, NEW apart, Divided(base, whole, apart), NEW terms,
         NEW h, \A t \in base.taxpayers : h[t] = total_capital_gains(apart[t], terms)
  PROVE  total_capital_gains(whole, terms) = SumFunctionOnSet(h, base.taxpayers)
<1> DEFINE g == GainValues(base)
           A == Sales(base, terms)
<1>1. {"b"} \in SUBSET Kinds
  BY DEF Kinds
<1>2. IntOn(g, Records(base, {"b"}))
  BY GainsType
<1>3. IsPart(whole, base) /\ \A t \in base.taxpayers : IsPart(apart[t], base)
  BY DividedIs
<1>4. total_capital_gains(whole, terms) = SumFunctionOnSet(g, Records(whole, {"b"}) \cap A)
  <2>1. IsPart(whole, base)
    BY <1>3
  <2> QED
    BY <2>1, GainsOfSome
<1>5. \A t \in base.taxpayers : h[t] = SumFunctionOnSet(g, Records(apart[t], {"b"}) \cap A)
  <2> TAKE t \in base.taxpayers
  <2>1. total_capital_gains(apart[t], terms) = SumFunctionOnSet(g, Records(apart[t], {"b"}) \cap A)
    BY <1>3, GainsOfSome
  <2> QED
    BY <2>1
<1>6. EachSum(h, base, apart, {"b"}, g, A)
  BY <1>5 DEF EachSum
<1> HIDE DEF g, A
<1> QED
  BY <1>1, <1>2, <1>4, <1>6, SumSplits

(* A sum over pairs is the sum of the sums over the pairs of each. *)
LEMMA PairsSplit ==
  ASSUME NEW T, IsFiniteSet(T), NEW B, IsFiniteSet(B), NEW f, \A x \in T \X B : f[x] \in Int
  PROVE  SumFunctionOnSet(f, T \X B)
           = SumFunctionOnSet([t \in T |-> SumFunctionOnSet(f, {t} \X B)], T)
<1> DEFINE S == T \X B
           q == [t \in T |-> {t} \X B]
           h == [t \in T |-> SumFunctionOnSet(f, {t} \X B)]
<1>1. IsFiniteSet(S)
  BY FS_Product
<1>2. \A x \in S : x[1] \in T /\ f[x] \in Int
  OBVIOUS
<1>3. \A t \in T : /\ q[t] \in SUBSET S /\ \A x \in S : x \in q[t] <=> x[1] = t
                   /\ h[t] = SumFunctionOnSet(f, q[t])
  OBVIOUS
<1> HIDE DEF S, q, h
<1>4. SumFunctionOnSet(f, S) = SumFunctionOnSet(h, T)
  BY <1>1, <1>2, <1>3, SumByFirst
<1> QED
  BY <1>4 DEF S, h

(* The boxes are the sum of those of the taxpayers. *)
LEMMA BoxesSplit ==
  ASSUME NEW fd, NEW status, NEW base, Accepted(fd, status, base),
         NEW whole, whole.taxpayers = base.taxpayers,
         NEW apart, \A t \in base.taxpayers : apart[t].taxpayers = {t},
         NEW flags \in SUBSET {"65", "blind"},
         NEW h, \A t \in base.taxpayers : h[t] = boxes(apart[t], flags)
  PROVE  boxes(whole, flags) = SumFunctionOnSet(h, base.taxpayers)
<1> DEFINE T == base.taxpayers
           f == [box \in T \X flags |-> IF box[1].flag[box[2]] THEN 1 ELSE 0]
           g == [t \in T |-> SumFunctionOnSet(f, {t} \X flags)]
<1>1. IsFiniteSet(T) /\ IsFiniteSet(flags)
  BY TaxpayerIs, FiniteFlags
<1>2. boxes(whole, flags) = SumFunctionOnSet(f, T \X flags)
  BY DEF boxes, SumFunction
<1>3. \A x \in T \X flags : f[x] \in Int
  OBVIOUS
<1>4. ASSUME NEW t \in T
      PROVE  h[t] = g[t]
  <2> DEFINE k == [box \in {t} \X flags |-> IF box[1].flag[box[2]] THEN 1 ELSE 0]
  <2>1. PICK part : part = apart[t]
    OBVIOUS
  <2>2. h[t] = boxes(part, flags) /\ part.taxpayers = {t}
    BY <2>1
  <2>3. boxes(part, flags) = SumFunctionOnSet(k, {t} \X flags)
    BY <2>2 DEF boxes, SumFunction
  <2>4. \A x \in {t} \X flags : k[x] = f[x]
    OBVIOUS
  <2>5. IsFiniteSet({t} \X flags)
    BY <1>1, FS_Singleton, FS_Product
  <2>6. g[t] = SumFunctionOnSet(f, {t} \X flags)
    OBVIOUS
  <2> HIDE DEF f, k, g
  <2>7. SumFunctionOnSet(k, {t} \X flags) = SumFunctionOnSet(f, {t} \X flags)
    BY <2>4, <2>5, SumEqual
  <2> QED
    BY <2>2, <2>3, <2>6, <2>7
<1>5. SumFunctionOnSet(f, T \X flags) = SumFunctionOnSet(g, T)
  <2> HIDE DEF T, f
  <2> QED
    BY <1>1, <1>3, PairsSplit
<1>6. SumFunctionOnSet(h, T) = SumFunctionOnSet(g, T)
  <2> HIDE DEF T, f, g
  <2> QED
    BY <1>1, <1>4, SumEqual
<1> QED
  BY <1>2, <1>5, <1>6

-----------------------------------------------------------------------------
(* What the separate returns add up to.                                    *)

(* A copy of the return with all of the taxpayers, and one for each. *)
Split(base, joint, one) ==
  /\ "taxpayers" \in DOMAIN joint /\ joint.taxpayers = base.taxpayers
  /\ joint.amount = base.amount /\ joint.count = base.count
  /\ joint.flag = base.flag /\ joint.students = base.students
  /\ \A t \in base.taxpayers :
       /\ "taxpayers" \in DOMAIN one[t] /\ one[t].taxpayers = {t}
       /\ one[t].amount = base.amount /\ one[t].count = base.count
       /\ one[t].flag = base.flag /\ one[t].students = base.students

(* The input `ref` of the joint return is the sum of those of the others. *)
Additive(base, joint, one, ref) ==
  \A h : (\A t \in base.taxpayers : h[t] = Computed(one[t])[ref]) =>
    Computed(joint)[ref] = SumFunctionOnSet(h, base.taxpayers)

IsTotal(ref, kinds, f) == \A inp : Computed(inp)[ref] = Total(inp, kinds, f)
IsGain(ref, terms)     == \A inp : Computed(inp)[ref] = total_capital_gains(inp, terms)
AreBoxes(ref, flags)   == \A inp : Computed(inp)[ref] = boxes(inp, flags)

(* Each of the copies has its part of the taxpayers. *)
LEMMA SplitDivides ==
  ASSUME NEW base, NEW joint, NEW one, Split(base, joint, one)
  PROVE  Divided(base, joint, one)
<1>1. IsPart(joint, base)
  BY DEF Split, IsPart
<1>2. \A t \in base.taxpayers : one[t].taxpayers = joint.taxpayers \cap {t}
  BY DEF Split
<1> QED
  BY <1>1, <1>2 DEF Divided

(* A total of the joint return is the sum of those of the separate ones. *)
LEMMA TotalAdds ==
  ASSUME NEW fd, NEW status, NEW base, Accepted(fd, status, base),
         NEW joint, NEW one, Split(base, joint, one),
         NEW kinds, NEW f, AmountOf(f, kinds), NEW ref, IsTotal(ref, kinds, f)
  PROVE  Additive(base, joint, one, ref)
<1> SUFFICES ASSUME NEW h, \A t \in base.taxpayers : h[t] = Computed(one[t])[ref]
             PROVE  Computed(joint)[ref] = SumFunctionOnSet(h, base.taxpayers)
  BY DEF Additive
<1> DEFINE T == base.taxpayers
           g == Totals(base, one, kinds, f)
<1>1. Divided(base, joint, one)
  BY SplitDivides
<1>2. Total(joint, kinds, f) = SumFunctionOnSet(g, T)
  BY <1>1, TotalSplits
<1>3. \A t \in T : h[t] = g[t]
  BY DEF IsTotal, Totals
<1>4. IsFiniteSet(T)
  BY TaxpayerIs
<1>5. Computed(joint)[ref] = Total(joint, kinds, f)
  BY DEF IsTotal
<1> HIDE DEF T, g
<1>6. SumFunctionOnSet(h, T) = SumFunctionOnSet(g, T)
  BY <1>3, <1>4, SumEqual
<1> QED
  BY <1>2, <1>5, <1>6 DEF T

(* A gain of the joint return is the sum of those of the separate ones. *)
LEMMA GainAdds ==
  ASSUME NEW fd, NEW status, NEW base, Accepted(fd, status, base),
         NEW joint, NEW one, Split(base, joint, one),
         NEW terms, NEW ref, IsGain(ref, terms)
  PROVE  Additive(base, joint, one, ref)
<1> SUFFICES ASSUME NEW h, \A t \in base.taxpayers : h[t] = Computed(one[t])[ref]
             PROVE  Computed(joint)[ref] = SumFunctionOnSet(h, base.taxpayers)
  BY DEF Additive
<1>1. Divided(base, joint, one)
  BY SplitDivides
<1>2. \A t \in base.taxpayers : h[t] = total_capital_gains(one[t], terms)
  BY DEF IsGain
<1>3. total_capital_gains(joint, terms) = SumFunctionOnSet(h, base.taxpayers)
  BY <1>1, <1>2, GainsSplit
<1> QED
  BY <1>3 DEF IsGain

(* The boxes of the joint return are the sum of those of the separate ones. *)
LEMMA BoxesAdd ==
  ASSUME NEW fd, NEW status, NEW base, Accepted(fd, status, base),
         NEW joint, NEW one, Split(base, joint, one),
         NEW flags \in SUBSET {"65", "blind"}, NEW ref, AreBoxes(ref, flags)
  PROVE  Additive(base, joint, one, ref)
<1> SUFFICES ASSUME NEW h, \A t \in base.taxpayers : h[t] = Computed(one[t])[ref]
             PROVE  Computed(joint)[ref] = SumFunctionOnSet(h, base.taxpayers)
  BY DEF Additive
<1>1. joint.taxpayers = base.taxpayers /\ \A t \in base.taxpayers : one[t].taxpayers = {t}
  BY DEF Split
<1>2. \A t \in base.taxpayers : h[t] = boxes(one[t], flags)
  BY DEF AreBoxes
<1>3. boxes(joint, flags) = SumFunctionOnSet(h, base.taxpayers)
  BY <1>1, <1>2, BoxesSplit
<1> QED
  BY <1>3 DEF AreBoxes

(* The Medicare wages of the joint return are the sum of the separate ones. *)
LEMMA MedicareAdds ==
  ASSUME NEW fd, NEW status, NEW base, Accepted(fd, status, base),
         NEW joint, NEW one, Split(base, joint, one)
  PROVE  Additive(base, joint, one, "medicare_wages")
<1> SUFFICES ASSUME NEW h, \A t \in base.taxpayers : h[t] = Computed(one[t])["medicare_wages"]
             PROVE  Computed(joint)["medicare_wages"] = SumFunctionOnSet(h, base.taxpayers)
  BY DEF Additive
<1>0. \A inp : Computed(inp)["medicare_wages"] = total_medicare_wages(inp)
  BY DEF Computed
<1>1. Divided(base, joint, one)
  BY SplitDivides
<1>2. \A t \in base.taxpayers : h[t] = total_medicare_wages(one[t])
  BY <1>0
<1>3. total_medicare_wages(joint) = SumFunctionOnSet(h, base.taxpayers)
  BY <1>1, <1>2, MedicareSplits
<1> QED
  BY <1>0, <1>3

PartSums(h, k, A, T) == \A t \in T : h[t] = SumFunctionOnSet(k, A \cap {t})

(* A sum over some of the elements is the sum over all of what each adds. *)
LEMMA SumOfParts ==
  ASSUME NEW T, IsFiniteSet(T), NEW A \in SUBSET T, NEW k, IntOn(k, T),
         NEW h, PartSums(h, k, A, T)
  PROVE  SumFunctionOnSet(k, A) = SumFunctionOnSet(h, T)
<1>0. \A t \in T : h[t] = SumFunctionOnSet(k, A \cap {t})
  BY DEF PartSums
<1>1. ASSUME NEW t \in T
      PROVE  h[t] = IF t \in A THEN k[t] ELSE 0
  <2>1. CASE t \in A
    <3>1. A \cap {t} = {t} /\ k[t] \in Int
      BY <2>1 DEF IntOn
    <3>2. SumFunctionOnSet(k, {t}) = k[t]
      BY <3>1, SumAlone
    <3> QED
      BY <1>0, <2>1, <3>1, <3>2
  <2>2. CASE t \notin A
    <3>1. A \cap {t} = {}
      BY <2>2
    <3> QED
      BY <1>0, <2>2, <3>1, SumOfNone
  <2> QED
    BY <2>1, <2>2
<1>2. \A t \in T : h[t] \in Int
  BY <1>1 DEF IntOn
<1>3. \A t \in T \ A : h[t] = 0
  BY <1>1
<1>4. SumFunctionOnSet(h, T) = SumFunctionOnSet(h, A)
  BY <1>2, <1>3, SumZeros
<1>5. IsFiniteSet(A) /\ \A t \in A : h[t] = k[t]
  BY <1>1, FS_Subset
<1>6. SumFunctionOnSet(h, A) = SumFunctionOnSet(k, A)
  BY <1>5, SumEqual
<1> QED
  BY <1>4, <1>6

(* The military amounts of some of the taxpayers. *)
LEMMA MilitaryOfSome ==
  ASSUME NEW fd, NEW status, NEW base, Accepted(fd, status, base), NEW f \in PersonAmounts
  PROVE  /\ IntOn([t \in base.taxpayers |-> t.amount[f]], base.taxpayers)
         /\ \A A \in SUBSET base.taxpayers :
              military(A, f) = SumFunctionOnSet([t \in base.taxpayers |-> t.amount[f]], A)
<1> DEFINE T == base.taxpayers
           k == [t \in T |-> t.amount[f]]
<1>1. ASSUME NEW t \in T
      PROVE  k[t] \in Int
  <2>1. t = parse_taxpayer(fd, t.role)
    BY TaxpayerIs
  <2>2. t.amount[f] = Money(fd, <<t.role, "field", 0, f>>)
    BY <2>1, TaxpayerAmount
  <2>3. Money(fd, <<t.role, "field", 0, f>>) \in Nat
    BY MoneyIs DEF Accepted
  <2> QED
    BY <2>2, <2>3
<1>2. ASSUME NEW A \in SUBSET T
      PROVE  military(A, f) = SumFunctionOnSet(k, A)
  <2> DEFINE h == [t \in A |-> t.amount[f]]
  <2>1. military(A, f) = SumFunctionOnSet(h, A)
    BY DEF military, SumFunction
  <2>2. \A t \in A : h[t] = k[t]
    OBVIOUS
  <2>3. IsFiniteSet(A)
    BY TaxpayerIs, FS_Subset
  <2> HIDE DEF h, k
  <2>4. SumFunctionOnSet(h, A) = SumFunctionOnSet(k, A)
    BY <2>2, <2>3, SumEqual
  <2> QED
    BY <2>1, <2>4
<1> QED
  BY <1>1, <1>2 DEF IntOn

(* The military amounts of the joint return are the sum of the separate
   ones. *)
LEMMA MilitaryAdds ==
  ASSUME NEW fd, NEW status, NEW base, Accepted(fd, status, base),
         NEW joint, NEW one, Split(base, joint, one), NEW f \in PersonAmounts
  PROVE  Additive(base, joint, one, f)
<1> SUFFICES ASSUME NEW h, \A t \in base.taxpayers : h[t] = Computed(one[t])[f]
             PROVE  Computed(joint)[f] = SumFunctionOnSet(h, base.taxpayers)
  BY DEF Additive
<1> DEFINE T == base.taxpayers
           k == [t \in T |-> t.amount[f]]
<1>0. \A inp : Computed(inp)[f] = military(inp.taxpayers, f)
  BY DEF Computed, PersonAmounts
<1>1. IntOn(k, T) /\ \A A \in SUBSET T : military(A, f) = SumFunctionOnSet(k, A)
  BY MilitaryOfSome
<1>2. joint.taxpayers = T /\ \A t \in T : one[t].taxpayers = {t}
  BY DEF Split
<1>3. PartSums(h, k, T, T)
  <2> SUFFICES \A t \in T : h[t] = SumFunctionOnSet(k, T \cap {t})
    BY DEF PartSums
  <2> TAKE t \in T
  <2>1. h[t] = military({t}, f)
    BY <1>0, <1>2
  <2>2. T \cap {t} = {t} /\ {t} \in SUBSET T
    OBVIOUS
  <2> HIDE DEF k, T
  <2> QED
    BY <1>1, <2>1, <2>2
<1>4. Computed(joint)[f] = SumFunctionOnSet(k, T)
  BY <1>0, <1>1, <1>2
<1>5. IsFiniteSet(T)
  BY TaxpayerIs
<1>7. T \in SUBSET T
  OBVIOUS
<1> HIDE DEF T, k
<1>6. SumFunctionOnSet(k, T) = SumFunctionOnSet(h, T)
  BY <1>7, <1>1, <1>3, <1>5, SumOfParts
<1> QED
  BY <1>4, <1>6 DEF T

(* The officer of a separate return is its taxpayer, if that is one. *)
LEMMA OfficersSplit ==
  ASSUME NEW base, NEW joint, NEW one, Split(base, joint, one)
  PROVE  /\ officer(joint) \in SUBSET base.taxpayers
         /\ \A t \in base.taxpayers : officer(one[t]) = officer(joint) \cap {t}
<1>1. joint.taxpayers = base.taxpayers /\ \A t \in base.taxpayers : one[t].taxpayers = {t}
  BY DEF Split
<1>2. officer(joint) = {t \in base.taxpayers : t.flag["officer"]}
  BY <1>1 DEF officer
<1>3. ASSUME NEW t \in base.taxpayers
      PROVE  officer(one[t]) = officer(joint) \cap {t}
  <2>1. officer(one[t]) = {x \in {t} : x.flag["officer"]}
    BY <1>1 DEF officer
  <2> QED
    BY <1>2, <2>1
<1> QED
  BY <1>2, <1>3

(* The officers' combat pay of the joint return is the sum of the separate
   ones. *)
LEMMA OfficersAdd ==
  ASSUME NEW fd, NEW status, NEW base, Accepted(fd, status, base),
         NEW joint, NEW one, Split(base, joint, one)
  PROVE  Additive(base, joint, one, "officer_combat_pay")
<1> SUFFICES ASSUME NEW h, \A t \in base.taxpayers : h[t] = Computed(one[t])["officer_combat_pay"]
             PROVE  Computed(joint)["officer_combat_pay"] = SumFunctionOnSet(h, base.taxpayers)
  BY DEF Additive
<1> DEFINE T == base.taxpayers
           f == "combat_pay"
           k == [t \in T |-> t.amount[f]]
           A == officer(joint)
<1>0. \A inp : Computed(inp)["officer_combat_pay"] = military(officer(inp), f)
  BY DEF Computed
<1>1. IntOn(k, T) /\ \A B \in SUBSET T : military(B, f) = SumFunctionOnSet(k, B)
  <2>1. f \in PersonAmounts
    BY DEF PersonAmounts
  <2> HIDE DEF f
  <2> QED
    BY <2>1, MilitaryOfSome
<1>2. A \in SUBSET T /\ \A t \in T : officer(one[t]) = A \cap {t}
  BY OfficersSplit
<1>3. PartSums(h, k, A, T)
  <2> SUFFICES \A t \in T : h[t] = SumFunctionOnSet(k, A \cap {t})
    BY DEF PartSums
  <2> TAKE t \in T
  <2>1. h[t] = military(officer(one[t]), f)
    BY <1>0
  <2>2. officer(one[t]) = A \cap {t} /\ A \cap {t} \in SUBSET T
    BY <1>2
  <2> HIDE DEF k, T, A, f
  <2> QED
    BY <1>1, <2>1, <2>2
<1>4. Computed(joint)["officer_combat_pay"] = SumFunctionOnSet(k, A)
  BY <1>0, <1>1, <1>2
<1>5. IsFiniteSet(T)
  BY TaxpayerIs
<1> HIDE DEF T, k, A
<1>6. SumFunctionOnSet(k, A) = SumFunctionOnSet(h, T)
  BY <1>1, <1>2, <1>3, <1>5, SumOfParts
<1> QED
  BY <1>4, <1>6 DEF T

(* The officers' months of the joint return are the sum of the separate
   ones. *)
LEMMA MonthsAdd ==
  ASSUME NEW fd, NEW status, NEW base, Accepted(fd, status, base),
         NEW joint, NEW one, Split(base, joint, one)
  PROVE  Additive(base, joint, one, "officer_combat_months")
<1> SUFFICES ASSUME NEW h, \A t \in base.taxpayers : h[t] = Computed(one[t])["officer_combat_months"]
             PROVE  Computed(joint)["officer_combat_months"] = SumFunctionOnSet(h, base.taxpayers)
  BY DEF Additive
<1> DEFINE T == base.taxpayers
           k == [t \in T |-> t.combat_months]
           A == officer(joint)
           sum(B) == SumFunctionOnSet([t \in B |-> t.combat_months], B)
<1>0. \A inp : Computed(inp)["officer_combat_months"] = sum(officer(inp))
  BY DEF Computed, SumFunction
<1>1. IntOn(k, T)
  <2>1. ASSUME NEW t \in T
        PROVE  k[t] \in Int
    <3>1. t.role \in Persons /\ t = parse_taxpayer(fd, t.role)
      BY TaxpayerIs
    <3>2. \A person : parse_taxpayer(fd, person).combat_months
                        = Raw(fd, <<person, "field", 0, "combat_months">>)
      BY DEF parse_taxpayer
    <3>3. Raw(fd, <<t.role, "field", 0, "combat_months">>) \in 0..12
      BY <3>1 DEF Accepted, Refused
    <3>4. t.combat_months = Raw(fd, <<t.role, "field", 0, "combat_months">>)
      BY <3>1, <3>2
    <3> QED
      BY <3>3, <3>4
  <2> QED
    BY <2>1 DEF IntOn
<1>2. \A B \in SUBSET T : sum(B) = SumFunctionOnSet(k, B)
  <2> TAKE B \in SUBSET T
  <2> DEFINE g == [t \in B |-> t.combat_months]
  <2>1. \A t \in B : g[t] = k[t]
    OBVIOUS
  <2>2. IsFiniteSet(B)
    BY TaxpayerIs, FS_Subset
  <2> HIDE DEF g, k
  <2>3. SumFunctionOnSet(g, B) = SumFunctionOnSet(k, B)
    BY <2>1, <2>2, SumEqual
  <2> QED
    BY <2>3 DEF g
<1>3. A \in SUBSET T /\ \A t \in T : officer(one[t]) = A \cap {t}
  BY OfficersSplit
<1> HIDE DEF sum
<1>4. PartSums(h, k, A, T)
  <2> SUFFICES \A t \in T : h[t] = SumFunctionOnSet(k, A \cap {t})
    BY DEF PartSums
  <2> TAKE t \in T
  <2>1. h[t] = sum(officer(one[t]))
    BY <1>0
  <2>2. officer(one[t]) = A \cap {t} /\ A \cap {t} \in SUBSET T
    BY <1>3
  <2> HIDE DEF k, T, A
  <2> QED
    BY <1>2, <2>1, <2>2
<1>5. Computed(joint)["officer_combat_months"] = SumFunctionOnSet(k, A)
  BY <1>0, <1>2, <1>3
<1>6. IsFiniteSet(T)
  BY TaxpayerIs
<1> HIDE DEF T, k, A
<1>7. SumFunctionOnSet(k, A) = SumFunctionOnSet(h, T)
  BY <1>1, <1>3, <1>4, <1>6, SumOfParts
<1> QED
  BY <1>5, <1>7 DEF T

(* What a role earned is the sum of what it earned in the separate returns. *)
LEMMA EarnedAdds ==
  ASSUME NEW fd, NEW status, NEW base, Accepted(fd, status, base),
         NEW joint, NEW one, Split(base, joint, one), NEW role,
         NEW ref, \A inp : Computed(inp)[ref] = _earned_income_for_role(inp, role)
  PROVE  Additive(base, joint, one, ref)
<1> SUFFICES ASSUME NEW h, \A t \in base.taxpayers : h[t] = Computed(one[t])[ref]
             PROVE  Computed(joint)[ref] = SumFunctionOnSet(h, base.taxpayers)
  BY DEF Additive
<1> DEFINE T == base.taxpayers
           whole == OfRole(joint, role)
           apart == [t \in T |-> OfRole(one[t], role)]
           f == Totals(base, apart, {"w2"}, "wages")
           g == Totals(base, apart, {"nec"}, "compensation")
<1>0. AmountOf("wages", {"w2"}) /\ AmountOf("compensation", {"nec"})
  BY DEF AmountOf, Kinds, Amounts
<1>1. Divided(base, whole, apart)
  <2>1. whole.taxpayers = {t \in T : t.role = role}
    BY DEF Split, OfRole
  <2>2. ASSUME NEW t \in T
        PROVE  apart[t].taxpayers = whole.taxpayers \cap {t}
    <3>1. OfRole(one[t], role).taxpayers = {x \in {t} : x.role = role}
      BY DEF Split, OfRole
    <3>2. apart[t] = OfRole(one[t], role)
      OBVIOUS
    <3> HIDE DEF whole, apart
    <3> QED
      BY <2>1, <3>1, <3>2
  <2>3. IsPart(whole, base)
    BY <2>1 DEF IsPart
  <2> QED
    BY <2>2, <2>3 DEF Divided
<1>2. \A t \in T : f[t] = Total(apart[t], {"w2"}, "wages")
                     /\ g[t] = Total(apart[t], {"nec"}, "compensation")
  BY DEF Totals
<1>3. \A t \in T : h[t] = Total(apart[t], {"w2"}, "wages")
                            + Total(apart[t], {"nec"}, "compensation")
  <2> TAKE t \in T
  <2>1. h[t] = _earned_income_for_role(one[t], role) /\ apart[t] = OfRole(one[t], role)
    OBVIOUS
  <2> QED
    BY <2>1 DEF _earned_income_for_role
<1>4. Computed(joint)[ref] = Total(whole, {"w2"}, "wages") + Total(whole, {"nec"}, "compensation")
  BY DEF _earned_income_for_role
<1>5. IsFiniteSet(T)
  BY TaxpayerIs
<1> HIDE DEF whole, apart, f, g
<1>6. Total(whole, {"w2"}, "wages") = SumFunctionOnSet(f, T)
  BY <1>0, <1>1, TotalSplits DEF f
<1>7. Total(whole, {"nec"}, "compensation") = SumFunctionOnSet(g, T)
  BY <1>0, <1>1, TotalSplits DEF g
<1>8. \A t \in T : f[t] \in Int /\ g[t] \in Int /\ h[t] = f[t] + g[t]
  <2> TAKE t \in T
  <2>1. IsPart(apart[t], base)
    BY <1>1, DividedIs
  <2>2. /\ Total(apart[t], {"w2"}, "wages") \in Int
        /\ Total(apart[t], {"nec"}, "compensation") \in Int
    BY <1>0, <2>1, TotalType
  <2> QED
    BY <1>2, <1>3, <2>2
<1> HIDE DEF T
<1>9. SumFunctionOnSet(h, T) = SumFunctionOnSet(f, T) + SumFunctionOnSet(g, T)
  BY <1>5, <1>8, SumPlus
<1> QED
  BY <1>4, <1>6, <1>7, <1>9 DEF T

(* Every name but those of the dependents and of the student expenses. *)
LEMMA AllAdd ==
  ASSUME NEW fd, NEW status, NEW base, Accepted(fd, status, base),
         NEW joint, NEW one, Split(base, joint, one),
         NEW ref \in ComputedNames \ {"dependents", "aotc_tier1", "aotc_tier2"}
  PROVE  Additive(base, joint, one, ref)
<1> DEFINE totals == {"wages", "medicare_withheld", "interest", "ordinary", "qualified",
                      "compensation", "withholding"}
           gains == {"net_gain", "long_term_gain", "short_term_gain"}
           ticks == {"age_blind_boxes", "seniors", "blind"}
<1>1. CASE ref \in totals
  <2>1. \E kinds, f : AmountOf(f, kinds) /\ IsTotal(ref, kinds, f)
    <3>1. /\ AmountOf("wages", {"w2"}) /\ AmountOf("medicare_tax", {"w2"})
          /\ AmountOf("interest", {"int"}) /\ AmountOf("ordinary", {"div"})
          /\ AmountOf("qualified", {"div"}) /\ AmountOf("compensation", {"nec"})
      BY DEF AmountOf, Kinds, Amounts
    <3>2. AmountOf("federal_withheld", Kinds)
      BY DEF AmountOf, Kinds, Amounts
    <3>3. IsTotal("wages", {"w2"}, "wages")
      BY DEF IsTotal, Computed
    <3>4. IsTotal("medicare_withheld", {"w2"}, "medicare_tax")
      BY DEF IsTotal, Computed
    <3>5. IsTotal("interest", {"int"}, "interest")
      BY DEF IsTotal, Computed
    <3>6. IsTotal("ordinary", {"div"}, "ordinary")
      BY DEF IsTotal, Computed
    <3>7. IsTotal("qualified", {"div"}, "qualified")
      BY DEF IsTotal, Computed
    <3>8. IsTotal("compensation", {"nec"}, "compensation")
      BY DEF IsTotal, Computed
    <3>9. IsTotal("withholding", Kinds, "federal_withheld")
      BY DEF IsTotal, Computed, total_federal_withholding
    <3> QED
      BY <1>1, <3>1, <3>2, <3>3, <3>4, <3>5, <3>6, <3>7, <3>8, <3>9
  <2>2. PICK kinds, f : AmountOf(f, kinds) /\ IsTotal(ref, kinds, f)
    BY <2>1
  <2> QED
    BY <2>2, TotalAdds
<1>2. CASE ref \in gains
  <2>1. IsGain("net_gain", {0, 1}) /\ IsGain("long_term_gain", {1}) /\ IsGain("short_term_gain", {0})
    BY DEF IsGain, Computed
  <2> QED
    BY <1>2, <2>1, GainAdds
<1>3. CASE ref \in ticks
  <2>1. /\ AreBoxes("age_blind_boxes", {"65", "blind"}) /\ AreBoxes("seniors", {"65"})
        /\ AreBoxes("blind", {"blind"})
    BY DEF AreBoxes, Computed
  <2>2. /\ {"65", "blind"} \in SUBSET {"65", "blind"} /\ {"65"} \in SUBSET {"65", "blind"}
        /\ {"blind"} \in SUBSET {"65", "blind"}
    OBVIOUS
  <2>3. PICK flags \in SUBSET {"65", "blind"} : AreBoxes(ref, flags)
    BY <1>3, <2>1, <2>2
  <2> QED
    BY <2>3, BoxesAdd
<1>4. CASE ref \in PersonAmounts
  BY <1>4, MilitaryAdds
<1>5. CASE ref \in {"earned_primary", "earned_spouse"}
  <2>1. /\ \A inp : Computed(inp)["earned_primary"] = _earned_income_for_role(inp, "p")
        /\ \A inp : Computed(inp)["earned_spouse"] = _earned_income_for_role(inp, "s")
    BY DEF Computed
  <2>2. CASE ref = "earned_primary"
    BY <2>1, <2>2, EarnedAdds
  <2>3. CASE ref = "earned_spouse"
    BY <2>1, <2>3, EarnedAdds
  <2> QED
    BY <1>5, <2>2, <2>3
<1>6. CASE ref = "medicare_wages"
  BY <1>6, MedicareAdds
<1>7. CASE ref = "officer_combat_pay"
  BY <1>7, OfficersAdd
<1>8. CASE ref = "officer_combat_months"
  BY <1>8, MonthsAdd
<1>9. ref \in totals \cup gains \cup ticks \cup PersonAmounts
        \cup {"earned_primary", "earned_spouse", "medicare_wages", "officer_combat_pay",
              "officer_combat_months"}
  BY DEF ComputedNames, PersonAmounts
<1> HIDE DEF totals, gains, ticks
<1> QED
  BY <1>1, <1>2, <1>3, <1>4, <1>5, <1>6, <1>7, <1>8, <1>9

-----------------------------------------------------------------------------
(* What each of the separate returns has a copy of.                        *)

(* The names of what the household has. *)
SharedNames == HouseholdFields \cup {"dependents", "aotc_tier1", "aotc_tier2"}

(* The lesser of two numbers is one of them. *)
LEMMA MinOfTwo == \A a \in Int, b \in Int : Min({a, b}) \in {a, b}
<1> TAKE a \in Int, b \in Int
<1>1. \E x \in {a, b} : \A y \in {a, b} : x <= y
  OBVIOUS
<1> QED
  BY <1>1 DEF Min

(* The fields of the household of an accepted return are whole. *)
LEMMA HouseholdType ==
  ASSUME NEW fd, NEW status, NEW base, Accepted(fd, status, base)
  PROVE  /\ \A f \in HouseholdAmounts : base.amount[f] \in Int
         /\ \A f \in HouseholdCounts : base.count[f] \in Int
         /\ \A f \in HouseholdFlags : base.flag[f] \in Int
<1>0. IsForm(fd) /\ ~ Refused(fd, status) /\ base = parse_tax_input_from_form(fd, status)
  BY DEF Accepted
<1>1. ASSUME NEW f \in HouseholdAmounts
      PROVE  base.amount[f] \in Int
  <2>1. base.amount[f] = Money(fd, <<"household", "field", 0, f>>)
    BY <1>0 DEF parse_tax_input_from_form
  <2>2. Money(fd, <<"household", "field", 0, f>>) \in Nat
    BY <1>0, MoneyIs
  <2> QED
    BY <2>1, <2>2
<1>2. ASSUME NEW f \in HouseholdCounts
      PROVE  base.count[f] \in Int
  <2>1. base.count[f] = Min({20, Raw(fd, <<"household", "field", 0, f>>)})
    BY <1>0 DEF parse_tax_input_from_form
  <2>2. Raw(fd, <<"household", "field", 0, f>>) \in Int
    BY <1>0 DEF IsForm, Raw
  <2>3. PICK n \in Int : n = Raw(fd, <<"household", "field", 0, f>>)
    BY <2>2
  <2>4. Min({20, n}) \in {20, n}
    BY MinOfTwo
  <2> QED
    BY <2>1, <2>3, <2>4
<1>3. ASSUME NEW f \in HouseholdFlags
      PROVE  base.flag[f] \in Int
  <2>1. base.flag[f] = Box(fd, <<"household", "field", 0, f>>)
    BY <1>0 DEF parse_tax_input_from_form
  <2> QED
    BY <2>1 DEF Box, Checked
<1> QED
  BY <1>1, <1>2, <1>3

(* The expenses of its students add up to a whole number under any cap. *)
LEMMA StudentsType ==
  ASSUME NEW fd, NEW status, NEW base, Accepted(fd, status, base), NEW cap \in Int
  PROVE  aotc_expenses(base, cap) \in Int
<1> DEFINE D == DOMAIN base.students
           h == [i \in D |-> Min({base.students[i]["expenses"], cap})]
<1>0. IsForm(fd) /\ ~ Refused(fd, status)
  BY DEF Accepted
<1>1. base.students = parse_rows(fd, "household", "edu")
  BY DEF Accepted, parse_tax_input_from_form
<1>2. /\ DOMAIN parse_rows(fd, "household", "edu") \in SUBSET Index
      /\ \A i \in DOMAIN parse_rows(fd, "household", "edu") :
           parse_rows(fd, "household", "edu")[i] = RowAt(fd, "household", "edu", i)
  BY <1>0, RowsAre
<1>3. "edu" \in RowKinds /\ "expenses" \in Amounts["edu"]
  BY DEF RowKinds, Amounts
<1>4. ASSUME NEW i \in D
      PROVE  h[i] \in Int
  <2>1. i \in Index /\ base.students[i] = RowAt(fd, "household", "edu", i)
    BY <1>1, <1>2
  <2>2. RowAt(fd, "household", "edu", i)["expenses"] = Money(fd, <<"household", "edu", i, "expenses">>)
    BY <1>3, RowAtIs
  <2>3. Money(fd, <<"household", "edu", i, "expenses">>) \in Nat
    BY <1>0, <1>3, <2>1, MoneyIs
  <2>4. PICK n \in Int : n = base.students[i]["expenses"]
    BY <2>1, <2>2, <2>3
  <2>5. Min({n, cap}) \in {n, cap}
    BY MinOfTwo
  <2> QED
    BY <2>4, <2>5
<1>5. IsFiniteSet(D)
  BY <1>1, <1>2, FiniteParts, FS_Subset
<1>6. aotc_expenses(base, cap) = SumFunctionOnSet(h, D)
  BY DEF aotc_expenses, SumFunction
<1> HIDE DEF h, D
<1> QED
  BY <1>4, <1>5, <1>6, SumType

(* A return with all that the household of another has. *)
SharesHousehold(copy, base) ==
  /\ copy.amount = base.amount /\ copy.count = base.count
  /\ copy.flag = base.flag /\ copy.students = base.students

(* What the household has is whole under every name. *)
LEMMA SharedType ==
  ASSUME NEW fd, NEW status, NEW base, Accepted(fd, status, base), NEW ref \in SharedNames
  PROVE  _resolve_inputs(base)[ref] \in Int
<1>1. CASE ref \in HouseholdAmounts
  <2>1. _resolve_inputs(base)[ref] = base.amount[ref]
    BY <1>1, InputsAre
  <2> QED
    BY <1>1, <2>1, HouseholdType
<1>2. CASE ref \in HouseholdCounts
  <2>1. _resolve_inputs(base)[ref] = base.count[ref]
    BY <1>2, InputsAre
  <2> QED
    BY <1>2, <2>1, HouseholdType
<1>3. CASE ref \in HouseholdFlags
  <2>1. _resolve_inputs(base)[ref] = base.flag[ref]
    BY <1>3, InputsAre
  <2> QED
    BY <1>3, <2>1, HouseholdType
<1>4. CASE ref = "dependents"
  <2>1. "dependents" \in ComputedNames
    BY DEF ComputedNames
  <2>2. _resolve_inputs(base)["dependents"] = Computed(base)["dependents"]
    BY <2>1, InputsAre
  <2>3. Computed(base)["dependents"]
          = base.count["qualifying_children"] + base.count["other_dependents"]
    BY DEF Computed
  <2>4. "qualifying_children" \in HouseholdCounts /\ "other_dependents" \in HouseholdCounts
    BY DEF HouseholdCounts
  <2>5. base.count["qualifying_children"] \in Int /\ base.count["other_dependents"] \in Int
    BY <2>4, HouseholdType
  <2>6. PICK a \in Int, b \in Int :
          a = base.count["qualifying_children"] /\ b = base.count["other_dependents"]
    BY <2>5
  <2>7. _resolve_inputs(base)["dependents"] = a + b
    BY <2>2, <2>3, <2>6
  <2> QED
    BY <1>4, <2>7
<1>5. CASE ref = "aotc_tier1"
  <2>1. "aotc_tier1" \in ComputedNames
    BY DEF ComputedNames
  <2>2. _resolve_inputs(base)["aotc_tier1"] = Computed(base)["aotc_tier1"]
    BY <2>1, InputsAre
  <2>3. Computed(base)["aotc_tier1"] = aotc_expenses(base, 1)
    BY DEF Computed
  <2>4. aotc_expenses(base, 1) \in Int
    BY StudentsType
  <2> QED
    BY <1>5, <2>2, <2>3, <2>4
<1>6. CASE ref = "aotc_tier2"
  <2>1. "aotc_tier2" \in ComputedNames
    BY DEF ComputedNames
  <2>2. _resolve_inputs(base)["aotc_tier2"] = Computed(base)["aotc_tier2"]
    BY <2>1, InputsAre
  <2>3. Computed(base)["aotc_tier2"] = aotc_expenses(base, 2)
    BY DEF Computed
  <2>4. aotc_expenses(base, 2) \in Int
    BY StudentsType
  <2> QED
    BY <1>6, <2>2, <2>3, <2>4
<1> QED
  BY <1>1, <1>2, <1>3, <1>4, <1>5, <1>6 DEF SharedNames, HouseholdFields

(* A return that shares a household has what the household has. *)
LEMMA SharedIs ==
  ASSUME NEW base, NEW copy, SharesHousehold(copy, base), NEW ref \in SharedNames
  PROVE  _resolve_inputs(copy)[ref] = _resolve_inputs(base)[ref]
<1>1. CASE ref \in HouseholdAmounts
  <2>1. \A inp : _resolve_inputs(inp)[ref] = inp.amount[ref]
    BY <1>1, InputsAre
  <2> QED
    BY <2>1 DEF SharesHousehold
<1>2. CASE ref \in HouseholdCounts
  <2>1. \A inp : _resolve_inputs(inp)[ref] = inp.count[ref]
    BY <1>2, InputsAre
  <2> QED
    BY <2>1 DEF SharesHousehold
<1>3. CASE ref \in HouseholdFlags
  <2>1. \A inp : _resolve_inputs(inp)[ref] = inp.flag[ref]
    BY <1>3, InputsAre
  <2> QED
    BY <2>1 DEF SharesHousehold
<1>4. CASE ref \in {"dependents", "aotc_tier1", "aotc_tier2"}
  <2>1. ref \in ComputedNames
    BY <1>4 DEF ComputedNames
  <2>2. \A inp : _resolve_inputs(inp)[ref] = Computed(inp)[ref]
    BY <2>1, InputsAre
  <2>3. /\ \A inp : Computed(inp)["dependents"]
                      = inp.count["qualifying_children"] + inp.count["other_dependents"]
        /\ \A inp : Computed(inp)["aotc_tier1"] = aotc_expenses(inp, 1)
        /\ \A inp : Computed(inp)["aotc_tier2"] = aotc_expenses(inp, 2)
    BY DEF Computed
  <2>4. \A cap : aotc_expenses(copy, cap) = aotc_expenses(base, cap)
    BY DEF aotc_expenses, SharesHousehold
  <2>5. Computed(copy)[ref] = Computed(base)[ref]
    BY <1>4, <2>3, <2>4 DEF SharesHousehold
  <2> QED
    BY <2>2, <2>5
<1> QED
  BY <1>1, <1>2, <1>3, <1>4 DEF SharedNames, HouseholdFields

(* What the copies have adds up to one for each of them. *)
LEMMA SharedAdds ==
  ASSUME NEW fd, NEW status, NEW base, Accepted(fd, status, base),
         NEW joint, NEW one, Split(base, joint, one), NEW ref \in SharedNames,
         NEW h, \A t \in base.taxpayers : h[t] = _resolve_inputs(one[t])[ref]
  PROVE  /\ _resolve_inputs(joint)[ref] = _resolve_inputs(base)[ref]
         /\ SumFunctionOnSet(h, base.taxpayers)
              = Cardinality(base.taxpayers) * _resolve_inputs(base)[ref]
<1>1. SharesHousehold(joint, base) /\ \A t \in base.taxpayers : SharesHousehold(one[t], base)
  BY DEF Split, SharesHousehold
<1>2. PICK v \in Int : v = _resolve_inputs(base)[ref]
  BY SharedType
<1>3. _resolve_inputs(joint)[ref] = v
  BY <1>1, <1>2, SharedIs
<1>4. \A t \in base.taxpayers : h[t] = v
  BY <1>1, <1>2, SharedIs
<1>5. IsFiniteSet(base.taxpayers)
  BY TaxpayerIs
<1>6. SumFunctionOnSet(h, base.taxpayers) = Cardinality(base.taxpayers) * v
  BY <1>4, <1>5, SumConstant
<1> QED
  BY <1>2, <1>3, <1>6

(* The guard lets a return pass that has one taxpayer or nothing it looks at. *)
LEMMA GuardIs ==
  ASSUME NEW base, ~ RefusesSplit(base), NEW ref \in Guarded
  PROVE  /\ base.taxpayers # {}
         /\ Cardinality(base.taxpayers) > 1 => _resolve_inputs(base)[ref] = 0
<1>1. base.taxpayers # {}
  BY DEF RefusesSplit
<1>2. Cardinality(base.taxpayers) > 1 =>
        /\ base.amount["other_income"] = 0 /\ base.amount["estimated_payments"] = 0
        /\ base.count["qualifying_children"] = 0
        /\ base.amount["adjustments"] = 0 /\ base.amount["itemized"] = 0
  BY DEF RefusesSplit, _has_unallocated_household_fields
<1>3. /\ {"other_income", "estimated_payments", "adjustments", "itemized"} \in SUBSET HouseholdAmounts
      /\ "qualifying_children" \in HouseholdCounts
  BY DEF HouseholdAmounts, HouseholdCounts
<1>4. CASE ref \in {"other_income", "estimated_payments", "adjustments", "itemized"}
  <2>1. _resolve_inputs(base)[ref] = base.amount[ref]
    BY <1>3, <1>4, InputsAre
  <2> QED
    BY <1>1, <1>2, <1>4, <2>1
<1>5. CASE ref = "qualifying_children"
  <2>1. _resolve_inputs(base)["qualifying_children"] = base.count["qualifying_children"]
    BY <1>3, InputsAre
  <2> QED
    BY <1>1, <1>2, <1>5, <2>1
<1> QED
  BY <1>4, <1>5 DEF Guarded

(* So the copies of what it looks at add up to it. *)
LEMMA GuardedAdds ==
  ASSUME NEW fd, NEW status, NEW base, Accepted(fd, status, base), ~ RefusesSplit(base),
         NEW joint, NEW one, Split(base, joint, one), NEW ref \in Guarded,
         NEW h, \A t \in base.taxpayers : h[t] = _resolve_inputs(one[t])[ref]
  PROVE  SumFunctionOnSet(h, base.taxpayers) = _resolve_inputs(joint)[ref]
<1> DEFINE T == base.taxpayers
<1>1. ref \in SharedNames
  BY DEF Guarded, SharedNames, HouseholdFields, HouseholdAmounts, HouseholdCounts
<1>2. PICK v \in Int : v = _resolve_inputs(base)[ref]
  BY <1>1, SharedType
<1>3. _resolve_inputs(joint)[ref] = v /\ SumFunctionOnSet(h, T) = Cardinality(T) * v
  BY <1>1, <1>2, SharedAdds
<1>4. IsFiniteSet(T)
  BY TaxpayerIs
<1>5. T # {} /\ (Cardinality(T) > 1 => v = 0)
  BY <1>2, GuardIs
<1>6. Cardinality(T) \in Nat /\ Cardinality(T) # 0
  BY <1>4, <1>5, FS_CardinalityType, FS_EmptySet
<1>7. PICK c \in Nat : c = Cardinality(T) /\ c # 0
  BY <1>6
<1>8. CASE c = 1
  <2>1. Cardinality(T) * v = v
    BY <1>7, <1>8
  <2> QED
    BY <1>3, <2>1
<1>9. CASE c > 1
  <2>1. v = 0 /\ Cardinality(T) * v = 0
    BY <1>5, <1>7, <1>9
  <2> QED
    BY <1>3, <2>1
<1> QED
  BY <1>7, <1>8, <1>9

(* Each input that comes from the taxpayers, or that the guard looks at, adds
   up to that of the joint return, and every one if one person files. *)
LEMMA SplitIs ==
  ASSUME NEW fd, NEW status, NEW base, Accepted(fd, status, base), ~ RefusesSplit(base),
         NEW joint, NEW one, Split(base, joint, one), NEW ref \in HouseholdFields \cup ComputedNames,
         ref \in PersonInputs \cup Guarded \/ Cardinality(base.taxpayers) = 1,
         NEW h, \A t \in base.taxpayers : h[t] = _resolve_inputs(one[t])[ref]
  PROVE  SumFunctionOnSet(h, base.taxpayers) = _resolve_inputs(joint)[ref]
<1>1. CASE ref \in PersonInputs
  <2>1. ref \in ComputedNames \ {"dependents", "aotc_tier1", "aotc_tier2"}
    BY <1>1 DEF PersonInputs, ComputedNames
  <2>2. \A inp : _resolve_inputs(inp)[ref] = Computed(inp)[ref]
    BY <2>1, InputsAre
  <2>3. Additive(base, joint, one, ref)
    BY <2>1, AllAdd
  <2>4. \A t \in base.taxpayers : h[t] = Computed(one[t])[ref]
    BY <2>2
  <2>5. Computed(joint)[ref] = SumFunctionOnSet(h, base.taxpayers)
    BY <2>3, <2>4 DEF Additive
  <2> QED
    BY <2>2, <2>5
<1>2. CASE ref \in Guarded
  BY <1>2, GuardedAdds
<1>3. CASE ref \notin PersonInputs /\ Cardinality(base.taxpayers) = 1
  <2>1. ref \in SharedNames
    BY <1>3 DEF PersonInputs, ComputedNames, SharedNames
  <2>2. PICK v \in Int : v = _resolve_inputs(base)[ref]
    BY <2>1, SharedType
  <2>3. /\ _resolve_inputs(joint)[ref] = v
        /\ SumFunctionOnSet(h, base.taxpayers) = Cardinality(base.taxpayers) * v
    BY <2>1, <2>2, SharedAdds
  <2>4. Cardinality(base.taxpayers) * v = v
    BY <1>3, <2>2
  <2> QED
    BY <2>3, <2>4
<1> QED
  BY <1>1, <1>2, <1>3

-----------------------------------------------------------------------------
(* The comparison.                                                         *)

(* The separate returns split the joint one. *)
LEMMA HouseholdSplits ==
  ASSUME NEW fd, NEW status, NEW base, Accepted(fd, status, base)
  PROVE  Split(base, [base EXCEPT !.filing_status = "mfj"], _run_mfs_household(base))
<1>1. /\ "taxpayers" \in DOMAIN base /\ "filing_status" \in DOMAIN base
      /\ DOMAIN base = {"filing_status", "taxpayers", "amount", "count", "flag", "students"}
  BY DEF Accepted, parse_tax_input_from_form
<1> DEFINE joint == [base EXCEPT !.filing_status = "mfj"]
           one == _run_mfs_household(base)
<1>2. /\ "taxpayers" \in DOMAIN joint /\ joint.taxpayers = base.taxpayers
      /\ joint.amount = base.amount /\ joint.count = base.count
      /\ joint.flag = base.flag /\ joint.students = base.students
  BY <1>1
<1>3. ASSUME NEW t \in base.taxpayers
      PROVE  /\ "taxpayers" \in DOMAIN one[t] /\ one[t].taxpayers = {t}
             /\ one[t].amount = base.amount /\ one[t].count = base.count
             /\ one[t].flag = base.flag /\ one[t].students = base.students
  <2>1. one[t] = [base EXCEPT !.filing_status = "mfs", !.taxpayers = {t}]
    BY DEF _run_mfs_household
  <2> QED
    BY <1>1, <2>1
<1> HIDE DEF joint, one
<1>4. Split(base, joint, one)
  BY <1>2, <1>3 DEF Split
<1> QED
  BY <1>4 DEF joint, one

(* So they have between them what the joint return has. *)
LEMMA PersonsAreKept ==
  ASSUME NEW fd, NEW status, NEW base, Accepted(fd, status, base), ~ RefusesSplit(base)
  PROVE  KeepsPersons(JointInputs(base), SeparateInputs(base))
<1> DEFINE joint == [base EXCEPT !.filing_status = "mfj"]
           one == _run_mfs_household(base)
           T == base.taxpayers
<1>1. Split(base, joint, one)
  BY HouseholdSplits
<1>2. PICK whole, apart : whole = _resolve_inputs(joint) /\ apart = [t \in T |-> _resolve_inputs(one[t])]
  OBVIOUS
<1>3. whole = JointInputs(base) /\ apart = SeparateInputs(base)
  BY <1>2 DEF JointInputs, SeparateInputs
<1> HIDE DEF joint, one
<1>4. DOMAIN whole = HouseholdFields \cup ComputedNames
  BY <1>2, InputsAre
<1>5. ASSUME NEW ref \in HouseholdFields \cup ComputedNames,
             ref \in PersonInputs \cup Guarded \/ Cardinality(T) = 1
      PROVE  SumFunction([t \in T |-> apart[t][ref]]) = whole[ref]
  <2>1. PICK h : h = [t \in T |-> apart[t][ref]]
    OBVIOUS
  <2>2. \A t \in T : h[t] = _resolve_inputs(one[t])[ref]
    BY <1>2, <2>1
  <2>3. SumFunctionOnSet(h, T) = _resolve_inputs(joint)[ref]
    BY <1>1, <1>5, <2>2, SplitIs
  <2>4. SumFunction(h) = SumFunctionOnSet(h, T)
    BY <2>1 DEF SumFunction
  <2> QED
    BY <1>2, <2>1, <2>3, <2>4
<1>6. DOMAIN apart = T
  BY <1>2
<1>7. \A ref \in DOMAIN whole :
        ref \in PersonInputs \cup Guarded \/ Cardinality(DOMAIN apart) = 1 =>
            SumFunction([t \in DOMAIN apart |-> apart[t][ref]]) = whole[ref]
  BY <1>4, <1>5, <1>6
<1>8. KeepsPersons(whole, apart)
  BY <1>7 DEF KeepsPersons, AddsUp
<1> QED
  BY <1>3, <1>8

(* For any form the page can send: if filing separately is not refused, what
   comes from the taxpayers' own records, and what the guard looks at, adds up
   over the separate returns to what the joint return has, and so does all the
   rest if one person files.  For the other fields of a household of two this
   does not hold.  _run_mfs_household, _has_unallocated_household_fields *)
THEOREM SplitsKeepPersons == ReturnGiven => SplitKeepsPersons
<1> SUFFICES ASSUME topic = "return", NEW base \in Splits(case.form, case.status), ReturnGiven
             PROVE  KeepsPersons(JointInputs(base), SeparateInputs(base))
  BY DEF SplitKeepsPersons
<1>1. IsForm(case.form)
  BY DEF ReturnGiven
<1>2. /\ base = parse_tax_input_from_form(case.form, case.status)
      /\ ~ Refused(case.form, case.status) /\ ~ RefusesSplit(base)
  BY DEF Splits
<1>3. Accepted(case.form, case.status, base)
  BY <1>1, <1>2 DEF Accepted
<1> QED
  BY <1>2, <1>3, PersonsAreKept
=============================================================================
