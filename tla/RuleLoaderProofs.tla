-------------------------- MODULE RuleLoaderProofs --------------------------
(***************************************************************************)
(* Theorems about RuleLoader, for any rules and references: the search     *)
(* finds a cycle exactly when there is one, binary insertion keeps the     *)
(* list of ready rules right, the sort leaves no rule out, and the order   *)
(* is the one RuleOrder describes.                                         *)
(***************************************************************************)
EXTENDS RuleLoader, SequenceTheorems, FiniteSetTheorems, WellFoundedInduction, TLAPS

-----------------------------------------------------------------------------
(* Bisect.  Its recursive function is shown to exist and to give the split *)
(* of every interval.                                                      *)

(* A nonempty set of natural numbers has a least one.  What is shown of every
   interval or number below is shown by a least counterexample. *)
LEMMA LeastNat ==
  ASSUME NEW T \in SUBSET Nat, T # {}
  PROVE  \E x \in T : \A y \in T : x <= y
<1> DEFINE R == OpToRel(<, Nat)
<1>1. IsWellFoundedOn(R, Nat)
  BY NatLessThanWellFounded
<1>2. PICK x \in T : \A y \in T : <<y, x>> \notin R
  <2> HIDE DEF R
  <2> QED
    BY <1>1, WFMin, Zenon
<1>3. \A y \in T : y < x => <<y, x>> \in R
  BY DEF OpToRel
<1> HIDE DEF R
<1>4. \A y \in T : ~ (y < x)
  BY <1>2, <1>3
<1>5. \A y \in T : x <= y
  BY <1>4
<1> QED
  BY <1>5

(* k splits the interval from lo to hi: before it is what is less than m. *)
Splits(s, m, lo, hi, k) ==
  /\ k \in lo..hi
  /\ \A i \in (lo + 1)..k : s[i] < m
  /\ \A i \in (k + 1)..hi : ~ (s[i] < m)

(* There is one split of an interval. *)
LEMMA OneSplit ==
  ASSUME NEW s \in Seq(Nat), NEW m \in Nat, NEW lo \in Nat, NEW hi \in Nat,
         NEW k \in Nat, NEW l \in Nat, Splits(s, m, lo, hi, k), Splits(s, m, lo, hi, l)
  PROVE  k = l
<1>1. ASSUME NEW x \in Nat, NEW y \in Nat, x < y, Splits(s, m, lo, hi, x), Splits(s, m, lo, hi, y)
      PROVE FALSE
  <2>1. x + 1 \in (lo + 1)..y /\ x + 1 \in (x + 1)..hi
    BY <1>1 DEF Splits
  <2> QED
    BY <1>1, <2>1 DEF Splits
<1> QED
  BY <1>1

(* A sorted list of numbers: what precedes a number below m is below m. *)
LEMMA SortedFacts ==
  ASSUME NEW s \in Seq(Nat), Sorted(s), NEW m \in Nat
  PROVE  /\ Len(s) \in Nat /\ \A i \in 1..Len(s) : s[i] \in Nat
         /\ \A i \in 1..Len(s), j \in 1..Len(s) : i <= j /\ s[j] < m => s[i] < m
<1>1. Len(s) \in Nat /\ \A i \in 1..Len(s) : s[i] \in Nat
  OBVIOUS
<1>2. ASSUME NEW i \in 1..Len(s), NEW j \in 1..Len(s), i <= j, s[j] < m PROVE s[i] < m
  <2>1. i = j \/ s[i] < s[j]
    BY <1>1, <1>2 DEF Sorted
  <2> QED
    BY <1>1, <1>2, <2>1
<1> QED
  BY <1>1, <1>2

(* An interval of a sorted list has a split. *)
LEMMA SomeSplit ==
  ASSUME NEW s \in Seq(Nat), Sorted(s), NEW m \in Nat, NEW hi \in 0..Len(s), NEW lo \in 0..hi
  PROVE  \E k \in lo..hi : Splits(s, m, lo, hi, k)
<1>0. Len(s) \in Nat /\ hi \in Nat /\ lo \in Nat
  OBVIOUS
<1> DEFINE T == {k \in lo..hi : \A i \in (k + 1)..hi : ~ (s[i] < m)}
<1>1. hi \in T /\ T \subseteq Nat
  OBVIOUS
<1>2. PICK k \in T : \A l \in T : k <= l
  <2> HIDE DEF T
  <2> QED
    BY <1>1, LeastNat
<1>3. ASSUME NEW i \in (lo + 1)..k PROVE s[i] < m
  <2>1. k - 1 \in lo..hi /\ k - 1 < k /\ ~ (k <= k - 1)
    BY <1>0
  <2>5. k - 1 \notin T
    <3> HIDE DEF T
    <3> QED
      BY <1>2, <2>1
  <2>2. PICK j \in k..hi : s[j] < m
    BY <2>1, <2>5
  <2>3. j = k
    BY <1>2, <2>2
  <2>4. i = k \/ s[i] < s[k]
    BY DEF Sorted
  <2>6. s[i] \in Nat /\ s[k] \in Nat
    OBVIOUS
  <2> QED
    BY <2>2, <2>3, <2>4, <2>6
<1> QED
  BY <1>2, <1>3 DEF Splits

(* One half of an interval splits where the whole does. *)
LEMMA HalfSplits ==
  ASSUME NEW s \in Seq(Nat), Sorted(s), NEW m \in Nat, NEW lo \in Nat, NEW hi \in Nat,
         NEW mid \in Nat, lo <= mid, mid < hi, hi <= Len(s), NEW k
  PROVE  /\ s[mid + 1] < m /\ Splits(s, m, mid + 1, hi, k) => Splits(s, m, lo, hi, k)
         /\ ~ (s[mid + 1] < m) /\ Splits(s, m, lo, mid, k) => Splits(s, m, lo, hi, k)
<1>1. ASSUME s[mid + 1] < m, Splits(s, m, mid + 1, hi, k) PROVE Splits(s, m, lo, hi, k)
  <2>1. \A i \in (lo + 1)..(mid + 1) : s[i] < m
    BY <1>1, SortedFacts, SMTT(30)
  <2> QED
    BY <1>1, <2>1 DEF Splits
<1>2. ASSUME ~ (s[mid + 1] < m), Splits(s, m, lo, mid, k) PROVE Splits(s, m, lo, hi, k)
  <2>1. \A i \in (mid + 1)..hi : ~ (s[i] < m)
    BY <1>2, SortedFacts, SMTT(30)
  <2> QED
    BY <1>2, <2>1 DEF Splits
<1> QED
  BY <1>1, <1>2

(* What the recursive definition in Bisect says of its function. *)
Halving(s, m, b) ==
  b = [w \in (0..Len(s)) \X (0..Len(s)) |->
         LET mid == (w[1] + w[2]) \div 2
         IN IF w[1] < w[2]
            THEN IF s[mid + 1] < m THEN b[<<mid + 1, w[2]>>] ELSE b[<<w[1], mid>>]
            ELSE w[1]]

(* Bisect is the function of Halving, at the whole list. *)
LEMMA BisectHalves == \A s, m : Bisect(s, m) = (CHOOSE b : Halving(s, m, b))[<<0, Len(s)>>]
BY DEF Bisect, Halving

(* There is a function that halves: it gives the split of each interval. *)
LEMMA SomeHalving ==
  ASSUME NEW s \in Seq(Nat), Sorted(s), NEW m \in Nat
  PROVE  \E b : Halving(s, m, b)
<1> DEFINE n == Len(s)
           At(lo, hi) == CHOOSE k \in lo..hi : Splits(s, m, lo, hi, k)
           f == [w \in (0..n) \X (0..n) |-> IF w[1] < w[2] THEN At(w[1], w[2]) ELSE w[1]]
           half(lo, hi) == (lo + hi) \div 2
           step(lo, hi) == IF s[half(lo, hi) + 1] < m THEN f[<<half(lo, hi) + 1, hi>>]
                                                      ELSE f[<<lo, half(lo, hi)>>]
<1>0. /\ n \in Nat /\ \A i \in 1..n : s[i] \in Nat
      /\ \A i \in 1..n, j \in 1..n : i <= j /\ s[j] < m => s[i] < m
  BY SortedFacts
<1> HIDE DEF n
<1>1. ASSUME NEW lo \in 0..n, NEW hi \in 0..n, lo <= hi
      PROVE  Splits(s, m, lo, hi, At(lo, hi)) /\ At(lo, hi) \in lo..hi
  <2>1. \E k \in lo..hi : Splits(s, m, lo, hi, k)
    BY <1>1, SomeSplit DEF n
  <2> QED
    BY <2>1
<1>2. ASSUME NEW lo \in 0..n, NEW hi \in 0..n, lo <= hi
      PROVE  f[<<lo, hi>>] \in Nat /\ Splits(s, m, lo, hi, f[<<lo, hi>>])
  <2>1. f[<<lo, hi>>] = IF lo < hi THEN At(lo, hi) ELSE lo
    <3>1. <<lo, hi>> \in (0..n) \X (0..n) /\ <<lo, hi>>[1] = lo /\ <<lo, hi>>[2] = hi
      OBVIOUS
    <3> HIDE DEF At
    <3> QED
      BY <3>1
  <2> HIDE DEF f, At
  <2>2. CASE lo < hi
    BY <1>1, <1>2, <2>1, <2>2
  <2>3. CASE lo = hi
    BY <2>1, <2>3 DEF Splits
  <2> QED
    BY <1>2, <2>2, <2>3
<1>3. ASSUME NEW lo \in 0..n, NEW hi \in 0..n, lo < hi
      PROVE  f[<<lo, hi>>] = step(lo, hi)
  <2> DEFINE mid == half(lo, hi)
  <2>1. /\ mid \in 0..n /\ lo <= mid /\ mid < hi /\ mid + 1 \in 0..n /\ hi <= n
        /\ lo \in Nat /\ hi \in Nat /\ mid \in Nat
    BY <1>0, <1>3
  <2> HIDE DEF f, mid
  <2>2. Splits(s, m, lo, hi, f[<<lo, hi>>]) /\ f[<<lo, hi>>] \in Nat
    BY <1>2, <1>3
  <2>3. CASE s[mid + 1] < m
    <3>1. f[<<mid + 1, hi>>] \in Nat /\ Splits(s, m, mid + 1, hi, f[<<mid + 1, hi>>])
      BY <1>2, <2>1
    <3>3. Splits(s, m, lo, hi, f[<<mid + 1, hi>>])
      BY <2>1, <2>3, <3>1, HalfSplits DEF n
    <3> QED
      BY <2>1, <2>2, <2>3, <3>1, <3>3, OneSplit DEF mid
  <2>4. CASE ~ (s[mid + 1] < m)
    <3>1. f[<<lo, mid>>] \in Nat /\ Splits(s, m, lo, mid, f[<<lo, mid>>])
      BY <1>2, <2>1
    <3>3. Splits(s, m, lo, hi, f[<<lo, mid>>])
      BY <2>1, <2>4, <3>1, HalfSplits DEF n
    <3> QED
      BY <2>1, <2>2, <2>4, <3>1, <3>3, OneSplit DEF mid
  <2> QED
    BY <2>3, <2>4
<1>4. ASSUME NEW lo \in 0..n, NEW hi \in 0..n, ~ (lo < hi) PROVE f[<<lo, hi>>] = lo
  BY <1>4
<1>5. f = [w \in (0..n) \X (0..n) |-> IF w[1] < w[2] THEN step(w[1], w[2]) ELSE w[1]]
  <2> DEFINE g == [w \in (0..n) \X (0..n) |-> IF w[1] < w[2] THEN step(w[1], w[2]) ELSE w[1]]
  <2>1. \A lo \in 0..n, hi \in 0..n : f[<<lo, hi>>] = g[<<lo, hi>>]
    <3> HIDE DEF f, step
    <3>1. \A lo \in 0..n, hi \in 0..n : g[<<lo, hi>>] = IF lo < hi THEN step(lo, hi) ELSE lo
      OBVIOUS
    <3> HIDE DEF g
    <3> QED
      BY <1>3, <1>4, <3>1
  <2>2. \A w \in (0..n) \X (0..n) : \E lo \in 0..n, hi \in 0..n : w = <<lo, hi>>
    OBVIOUS
  <2>3. DOMAIN f = (0..n) \X (0..n) /\ f = [w \in (0..n) \X (0..n) |-> f[w]]
    OBVIOUS
  <2>4. DOMAIN g = (0..n) \X (0..n) /\ g = [w \in (0..n) \X (0..n) |-> g[w]]
    OBVIOUS
  <2>5. f = g
    <3> HIDE DEF f, g
    <3>1. ASSUME NEW w \in (0..n) \X (0..n) PROVE f[w] = g[w]
      BY <2>1, <2>2
    <3>2. [w \in (0..n) \X (0..n) |-> f[w]] = [w \in (0..n) \X (0..n) |-> g[w]]
      BY <3>1
    <3> QED
      BY <2>3, <2>4, <3>2
  <2> QED
    BY <2>5
<1>6. Halving(s, m, f)
  BY <1>5 DEF Halving, n
<1> QED
  BY <1>6

(* What the search returns: how many elements come before m. *)
LEMMA BisectSplits ==
  ASSUME NEW s \in Seq(Nat), Sorted(s), NEW m \in Nat
  PROVE  Splits(s, m, 0, Len(s), Bisect(s, m))
<1> DEFINE n == Len(s)
           b == CHOOSE f : Halving(s, m, f)
           Wrong == {d \in 0..n : \E lo \in 0..n, hi \in 0..n :
                       lo <= hi /\ d = hi - lo /\ ~ Splits(s, m, lo, hi, b[<<lo, hi>>])}
<1>0. /\ n \in Nat /\ \A i \in 1..n : s[i] \in Nat
      /\ \A i \in 1..n, j \in 1..n : i <= j /\ s[j] < m => s[i] < m
  BY SortedFacts
<1> HIDE DEF n
<1>1. Halving(s, m, b)
  BY SomeHalving
<1>2. ASSUME NEW lo \in 0..n, NEW hi \in 0..n
      PROVE  b[<<lo, hi>>] =
               IF lo < hi
               THEN IF s[(lo + hi) \div 2 + 1] < m THEN b[<<(lo + hi) \div 2 + 1, hi>>]
                                                   ELSE b[<<lo, (lo + hi) \div 2>>]
               ELSE lo
  <2> HIDE DEF b
  <2> QED
    BY <1>1 DEF Halving, n
<1> HIDE DEF b
<1>3. Wrong = {}
  <2> SUFFICES ASSUME Wrong # {} PROVE FALSE
    OBVIOUS
  <2>1. PICK d \in Wrong : \A e \in Wrong : d <= e
    <3>1. Wrong \subseteq Nat
      OBVIOUS
    <3> HIDE DEF Wrong
    <3> QED
      BY <3>1, LeastNat
  <2>2. PICK lo \in 0..n, hi \in 0..n :
           lo <= hi /\ d = hi - lo /\ ~ Splits(s, m, lo, hi, b[<<lo, hi>>])
    BY <2>1
  <2>3. lo < hi
    <3> SUFFICES ASSUME ~ (lo < hi) PROVE FALSE
      OBVIOUS
    <3>1. b[<<lo, hi>>] = lo
      BY <1>2
    <3>2. lo = hi /\ lo \in Nat
      BY <1>0, <2>2
    <3> QED
      BY <2>2, <3>1, <3>2 DEF Splits
  <2> DEFINE mid == (lo + hi) \div 2
  <2>4. /\ mid \in 0..n /\ lo <= mid /\ mid < hi /\ mid + 1 \in 0..n /\ hi <= n
        /\ lo \in Nat /\ hi \in Nat /\ mid \in Nat
    BY <1>0, <2>3
  <2>5. b[<<lo, hi>>] = IF s[mid + 1] < m THEN b[<<mid + 1, hi>>] ELSE b[<<lo, mid>>]
    BY <1>2, <2>3
  <2> HIDE DEF mid
  <2>6. ASSUME NEW x \in 0..n, NEW y \in 0..n, x <= y, y - x < d
        PROVE  Splits(s, m, x, y, b[<<x, y>>])
    <3>1. y - x \in 0..n /\ d \in 0..n /\ ~ (d <= y - x)
      BY <1>0, <2>1, <2>6
    <3>2. y - x \notin Wrong
      <4> HIDE DEF Wrong
      <4> QED
        BY <2>1, <3>1
    <3> QED
      BY <2>6, <3>1, <3>2
  <2>7. CASE s[mid + 1] < m
    <3>1. Splits(s, m, mid + 1, hi, b[<<mid + 1, hi>>])
      <4>1. mid + 1 \in 0..n /\ hi - (mid + 1) < d /\ mid + 1 <= hi
        BY <1>0, <2>2, <2>4
      <4> QED
        BY <2>4, <2>6, <4>1
    <3> QED
      BY <2>2, <2>4, <2>5, <2>7, <3>1, HalfSplits DEF n
  <2>8. CASE ~ (s[mid + 1] < m)
    <3>1. Splits(s, m, lo, mid, b[<<lo, mid>>])
      BY <1>0, <2>2, <2>4, <2>6
    <3> QED
      BY <2>2, <2>4, <2>5, <2>8, <3>1, HalfSplits DEF n
  <2> QED
    BY <2>7, <2>8
<1>4. Splits(s, m, 0, n, b[<<0, n>>])
  <2> SUFFICES ASSUME ~ Splits(s, m, 0, n, b[<<0, n>>]) PROVE FALSE
    OBVIOUS
  <2>1. n - 0 = n /\ 0 <= n /\ n \in 0..n /\ 0 \in 0..n
    BY <1>0
  <2>2. n \in Wrong
    BY <2>1
  <2> HIDE DEF Wrong
  <2> QED
    BY <1>3, <2>2
<1>5. Bisect(s, m) = b[<<0, n>>]
  BY BisectHalves DEF b, n
<1> QED
  BY <1>4, <1>5 DEF n

-----------------------------------------------------------------------------
(* Lists. *)

(* Least is the least element. *)
LEMMA LeastIs ==
  ASSUME NEW S \in SUBSET Nat, S # {}
  PROVE  Least(S) \in S /\ \A s \in S : Least(S) <= s
BY LeastNat DEF Least

(* The range of a sequence, by its positions. *)
LEMMA RangeOf ==
  ASSUME NEW T, NEW s \in Seq(T)
  PROVE  /\ Range(s) = {s[i] : i \in 1..Len(s)} /\ Range(s) \subseteq T
         /\ Len(s) \in Nat /\ \A i \in 1..Len(s) : s[i] \in T
BY DEF Range

(* A sequence of numbers of a set is a sequence of numbers. *)
LEMMA NumberSeq ==
  ASSUME NEW T \in SUBSET Nat, NEW s \in Seq(T)
  PROVE  s \in Seq(Nat) /\ Len(s) \in Nat /\ \A i \in 1..Len(s) : s[i] \in Nat
<1>1. Len(s) \in Nat /\ s = [i \in 1..Len(s) |-> s[i]] /\ \A i \in 1..Len(s) : s[i] \in T
  OBVIOUS
<1>2. \A i \in 1..Len(s) : s[i] \in Nat
  BY <1>1
<1>3. [i \in 1..Len(s) |-> s[i]] \in Seq(Nat)
  BY <1>1, <1>2
<1> QED
  BY <1>1, <1>2, <1>3

(* What appending does to positions and range. *)
LEMMA RangeOfAppend ==
  ASSUME NEW T, NEW s \in Seq(T), NEW x \in T
  PROVE  /\ Append(s, x) \in Seq(T) /\ Len(Append(s, x)) = Len(s) + 1
         /\ Append(s, x)[Len(s) + 1] = x /\ \A i \in 1..Len(s) : Append(s, x)[i] = s[i]
         /\ Range(Append(s, x)) = Range(s) \cup {x} /\ Append(s, x) # <<>>
<1>1. /\ Append(s, x) \in Seq(T) /\ Len(Append(s, x)) = Len(s) + 1 /\ Append(s, x) # <<>>
      /\ Append(s, x)[Len(s) + 1] = x /\ \A i \in 1..Len(s) : Append(s, x)[i] = s[i]
  OBVIOUS
<1>2. Range(Append(s, x)) = Range(s) \cup {x}
  <2> DEFINE t == Append(s, x)
  <2> HIDE DEF t
  <2>1. Range(t) = {t[i] : i \in 1..(Len(s) + 1)} /\ Range(s) = {s[i] : i \in 1..Len(s)}
    BY <1>1, RangeOf DEF t
  <2>2. 1..(Len(s) + 1) = (1..Len(s)) \cup {Len(s) + 1}
    OBVIOUS
  <2> QED
    BY <1>1, <2>1, <2>2 DEF t
<1> QED
  BY <1>1, <1>2

(* ready.pop(0) takes the least, and what remains is sorted. *)
LEMMA SortedTail ==
  ASSUME NEW T \in SUBSET Nat, NEW s \in Seq(T), Sorted(s), s # <<>>
  PROVE  /\ Tail(s) \in Seq(T) /\ Sorted(Tail(s))
         /\ Head(s) \in Range(s) /\ Range(Tail(s)) = Range(s) \ {Head(s)}
         /\ \A x \in Range(s) : Head(s) <= x
<1> DEFINE n == Len(s)
           t == Tail(s)
<1>0. n \in Nat /\ \A i \in 1..n : s[i] \in Nat
  BY NumberSeq
<1>1. /\ n > 0 /\ t \in Seq(T) /\ Len(t) = n - 1 /\ \A i \in 1..(n - 1) : t[i] = s[i + 1]
      /\ Head(s) = s[1]
  OBVIOUS
<1>2. Range(s) = {s[i] : i \in 1..n} /\ Range(t) = {t[i] : i \in 1..(n - 1)}
  BY <1>0, <1>1, RangeOf
<1> HIDE DEF n, t
<1>3. \A i \in 1..n, j \in 1..n : i < j => s[i] < s[j]
  BY DEF Sorted, n
<1>4. Sorted(t)
  <2> SUFFICES ASSUME NEW i \in 1..(n - 1), NEW j \in 1..(n - 1), i < j PROVE t[i] < t[j]
    BY <1>0, <1>1 DEF Sorted
  <2>1. i + 1 \in 1..n /\ j + 1 \in 1..n /\ i + 1 < j + 1
    BY <1>0, <1>1
  <2> QED
    BY <1>0, <1>1, <1>3, <2>1
<1>5. Range(t) = Range(s) \ {s[1]}
  <2>1. ASSUME NEW i \in 1..(n - 1) PROVE t[i] \in Range(s) \ {s[1]}
    <3>1. i + 1 \in 1..n /\ 1 < i + 1 /\ 1 \in 1..n
      BY <1>0, <1>1
    <3>2. t[i] = s[i + 1] /\ s[1] < s[i + 1] /\ s[1] \in Nat /\ s[i + 1] \in Nat
      BY <1>0, <1>1, <1>3, <3>1
    <3>3. s[i + 1] # s[1]
      BY <3>2
    <3> QED
      BY <1>2, <3>1, <3>2, <3>3
  <2>2. ASSUME NEW i \in 1..n, s[i] # s[1] PROVE s[i] \in Range(t)
    <3>1. i - 1 \in 1..(n - 1) /\ (i - 1) + 1 = i
      BY <1>0, <1>1, <2>2
    <3> QED
      BY <1>0, <1>1, <1>2, <3>1
  <2> QED
    BY <1>2, <2>1, <2>2
<1>6. s[1] \in Range(s) /\ \A x \in Range(s) : s[1] <= x
  <2>1. 1 \in 1..n
    BY <1>0, <1>1
  <2>2. ASSUME NEW i \in 1..n PROVE s[1] <= s[i]
    BY <1>0, <1>1, <1>3, <2>1
  <2> QED
    BY <1>2, <2>1, <2>2
<1> QED
  BY <1>0, <1>1, <1>4, <1>5, <1>6 DEF t

(* Where ready.insert puts what. *)
LEMMA InsertElements ==
  ASSUME NEW T, NEW s \in Seq(T), NEW k \in 0..Len(s), NEW m \in T
  PROVE  /\ Insert(s, k, m) \in Seq(T) /\ Len(Insert(s, k, m)) = Len(s) + 1
         /\ \A i \in 1..k : Insert(s, k, m)[i] = s[i]
         /\ Insert(s, k, m)[k + 1] = m
         /\ \A i \in (k + 1)..Len(s) : Insert(s, k, m)[i + 1] = s[i]
<1> DEFINE n == Len(s)
           a == SubSeq(s, 1, k)
           b == <<m>>
           c == SubSeq(s, k + 1, n)
<1>0. n \in Nat /\ k \in Nat /\ k <= n /\ \A i \in 1..n : s[i] \in T
  OBVIOUS
<1>1. a \in Seq(T) /\ Len(a) = k /\ \A i \in 1..k : a[i] = s[i]
  BY <1>0
<1>2. b \in Seq(T) /\ Len(b) = 1 /\ b[1] = m
  OBVIOUS
<1>3. c \in Seq(T) /\ Len(c) = n - k /\ \A i \in 1..(n - k) : c[i] = s[k + i]
  BY <1>0, Z3
<1>4. Insert(s, k, m) = a \o b \o c
  BY DEF Insert
<1> HIDE DEF n, a, b, c
<1> DEFINE d == a \o b
<1>5. d \in Seq(T) /\ Len(d) = k + 1 /\ d[k + 1] = m /\ \A i \in 1..k : d[i] = s[i]
  <2>0. a \in Seq(T) /\ b \in Seq(T) /\ Len(a) = k /\ Len(b) = 1
    BY <1>1, <1>2
  <2>9. /\ a \o b \in Seq(T)
        /\ Len(a \o b) = Len(a) + Len(b)
        /\ \A i \in 1..(Len(a) + Len(b)) :
              (a \o b)[i] = IF i <= Len(a) THEN a[i] ELSE b[i - Len(a)]
    BY <2>0, ConcatProperties, Zenon
  <2>1. d \in Seq(T) /\ Len(d) = k + 1
    BY <1>0, <2>0, <2>9 DEF d
  <2>2. \A i \in 1..k : d[i] = a[i]
    BY <1>0, <2>0
  <2>3. d[k + 1] = b[1]
    <3>1. k + 1 > k /\ k + 1 <= k + 1 /\ (k + 1) - k = 1
      BY <1>0
    <3> QED
      BY <1>0, <2>0, <3>1, <2>9 DEF d
  <2> QED
    BY <1>1, <1>2, <2>1, <2>2, <2>3
<1> HIDE DEF d
<1>6. /\ d \o c \in Seq(T) /\ Len(d \o c) = n + 1
      /\ \A i \in 1..(k + 1) : (d \o c)[i] = d[i]
      /\ \A i \in 1..(n - k) : (d \o c)[k + 1 + i] = c[i]
  BY <1>0, <1>3, <1>5
<1>7. ASSUME NEW i \in (k + 1)..n PROVE (d \o c)[i + 1] = s[i]
  <2>1. PICK j \in 1..(n - k) : i = k + j
    <3>1. i - k \in 1..(n - k) /\ i = k + (i - k)
      BY <1>0
    <3> QED
      BY <3>1
  <2>2. (d \o c)[k + 1 + j] = s[k + j]
    BY <1>3, <1>6
  <2>3. k + 1 + j = i + 1
    BY <1>0, <2>1
  <2> QED
    BY <2>1, <2>2, <2>3
<1>8. \A i \in 1..k : (d \o c)[i] = s[i]
  BY <1>0, <1>5, <1>6
<1>9. (d \o c)[k + 1] = m
  BY <1>0, <1>5, <1>6
<1> QED
  BY <1>4, <1>6, <1>7, <1>8, <1>9 DEF d, n

(* Binary insertion: the list stays sorted and gains just the new element
   (rule_loader.py:284-292). *)
LEMMA InsertSorts ==
  ASSUME NEW T \in SUBSET Nat, NEW s \in Seq(T), Sorted(s), NEW m \in T, m \notin Range(s)
  PROVE  LET t == Insert(s, Bisect(s, m), m)
         IN  t \in Seq(T) /\ Sorted(t) /\ Range(t) = Range(s) \cup {m}
<1> DEFINE n == Len(s)
           k == Bisect(s, m)
           t == Insert(s, k, m)
<1>0. n \in Nat /\ \A i \in 1..n : s[i] \in Nat
  BY NumberSeq
<1>1. Splits(s, m, 0, n, k)
  <2>1. s \in Seq(Nat) /\ m \in Nat
    BY NumberSeq
  <2> QED
    BY <2>1, BisectSplits
<1> HIDE DEF k
<1>2. /\ k \in 0..n /\ k \in Nat
      /\ \A i \in 1..k : s[i] < m
      /\ \A i \in (k + 1)..n : ~ (s[i] < m)
  BY <1>0, <1>1 DEF Splits
<1>3. /\ t \in Seq(T) /\ Len(t) = n + 1
      /\ \A i \in 1..k : t[i] = s[i]
      /\ t[k + 1] = m
      /\ \A i \in (k + 1)..n : t[i + 1] = s[i]
  <2>1. k \in 0..Len(s)
    BY <1>2
  <2>2. t \in Seq(T) /\ Len(t) = n + 1
    BY <2>1, InsertElements
  <2>3. \A i \in 1..k : t[i] = s[i]
    BY <2>1, InsertElements
  <2>4. t[k + 1] = m
    BY <2>1, InsertElements
  <2>5. \A i \in (k + 1)..n : t[i + 1] = s[i]
    BY <2>1, InsertElements
  <2> QED
    BY <2>2, <2>3, <2>4, <2>5
<1>4. /\ Range(s) = {s[i] : i \in 1..n} /\ Range(t) = {t[i] : i \in 1..(n + 1)}
  BY <1>3, RangeOf
<1>5. \A i \in 1..n, j \in 1..n : i < j => s[i] < s[j]
  BY DEF Sorted
<1> HIDE DEF n, t
<1>6. \A i \in (k + 1)..n : m < s[i]
  <2> SUFFICES ASSUME NEW i \in (k + 1)..n PROVE m < s[i]
    OBVIOUS
  <2>1. i \in 1..n
    BY <1>0, <1>2
  <2>2. s[i] \in Nat /\ s[i] # m /\ ~ (s[i] < m)
    BY <1>0, <1>2, <1>4, <2>1
  <2> QED
    BY <2>2
<1>7. \A i \in 1..(n + 1) : \/ i \in 1..k /\ t[i] = s[i]
                            \/ i = k + 1 /\ t[i] = m
                            \/ i - 1 \in (k + 1)..n /\ t[i] = s[i - 1]
  <2> SUFFICES ASSUME NEW i \in 1..(n + 1), ~ (i \in 1..k), i # k + 1
               PROVE  i - 1 \in (k + 1)..n /\ t[i] = s[i - 1]
    BY <1>3
  <2>1. i - 1 \in (k + 1)..n /\ (i - 1) + 1 = i
    BY <1>0, <1>2
  <2> QED
    BY <1>3, <2>1
<1>8. Sorted(t)
  <2> SUFFICES ASSUME NEW i \in 1..(n + 1), NEW j \in 1..(n + 1), i < j PROVE t[i] < t[j]
    BY <1>3 DEF Sorted
  <2>1. CASE i \in 1..k /\ t[i] = s[i]
    <3>1. i \in 1..n
      BY <1>0, <1>2, <2>1
    <3>2. CASE j \in 1..k /\ t[j] = s[j]
      BY <1>0, <1>2, <1>5, <2>1, <3>1, <3>2
    <3>3. CASE j = k + 1 /\ t[j] = m
      BY <1>2, <2>1, <3>3
    <3>4. CASE j - 1 \in (k + 1)..n /\ t[j] = s[j - 1]
      <4>1. j - 1 \in 1..n /\ i < j - 1
        BY <1>0, <1>2, <2>1, <3>4
      <4> QED
        BY <1>5, <2>1, <3>1, <3>4, <4>1
    <3> QED
      BY <1>7, <3>2, <3>3, <3>4
  <2>2. CASE i = k + 1 /\ t[i] = m
    <3>1. j - 1 \in (k + 1)..n /\ t[j] = s[j - 1]
      BY <1>2, <1>7, <2>2
    <3> QED
      BY <1>6, <2>2, <3>1
  <2>3. CASE i - 1 \in (k + 1)..n /\ t[i] = s[i - 1]
    <3>1. j - 1 \in (k + 1)..n /\ t[j] = s[j - 1]
      BY <1>0, <1>2, <1>7, <2>3
    <3>2. i - 1 \in 1..n /\ j - 1 \in 1..n /\ i - 1 < j - 1
      BY <1>0, <1>2, <2>3, <3>1
    <3> QED
      BY <1>5, <2>3, <3>1, <3>2
  <2> QED
    BY <1>7, <2>1, <2>2, <2>3
<1>9. Range(t) = Range(s) \cup {m}
  <2>1. ASSUME NEW i \in 1..(n + 1) PROVE t[i] \in Range(s) \cup {m}
    <3>1. i \in 1..k => i \in 1..n
      BY <1>0, <1>2
    <3>2. i - 1 \in (k + 1)..n => i - 1 \in 1..n
      BY <1>0, <1>2
    <3> QED
      BY <1>4, <1>7, <3>1, <3>2
  <2>2. ASSUME NEW i \in 1..n PROVE s[i] \in Range(t)
    <3>1. CASE i \in 1..k
      <4>1. i \in 1..(n + 1) /\ t[i] = s[i]
        BY <1>0, <1>3, <3>1
      <4> QED
        BY <1>4, <4>1
    <3>2. CASE i \in (k + 1)..n
      <4>1. i + 1 \in 1..(n + 1) /\ t[i + 1] = s[i]
        BY <1>0, <1>3, <3>2
      <4> QED
        BY <1>4, <4>1
    <3> QED
      BY <1>2, <3>1, <3>2
  <2>3. k + 1 \in 1..(n + 1) /\ t[k + 1] = m
    BY <1>0, <1>2, <1>3
  <2> QED
    BY <1>4, <2>1, <2>2, <2>3
<1> QED
  BY <1>3, <1>8, <1>9 DEF t, k

-----------------------------------------------------------------------------
(* The inductive invariant, and the depth-first search. *)

Calls == [rule : Rules, todo : SUBSET (Rules \cup {Unknown})]

(* The references of r that are not counted down yet: those not placed and,
   while r is still to be counted down for it, the last one placed. *)
Left(r) == {s \in refs[r] : s \in Range(order) => r \in released /\ s = order[Len(order)]}

(* The calls of dfs form a path along references, of distinct rules none of
   which is done, and what a rule has not struck off is still to come. *)
PathInv ==
  /\ \A k \in 1..Len(visits) :
       /\ visits[k].rule \notin visited
       /\ visits[k].todo \subseteq refs[visits[k].rule]
       /\ refs[visits[k].rule] \subseteq visits[k].todo \cup visited
  /\ \A k, l \in 1..Len(visits) : l = k + 1 => visits[l].rule \in refs[visits[k].rule]
  /\ \A k, l \in 1..Len(visits) : visits[k].rule = visits[l].rule => k = l

(* The rules dfs is done with refer only to one another, and without a cycle. *)
DoneInv ==
  /\ \A r \in visited : refs[r] \subseteq visited
  /\ \A S \in SUBSET visited : S # {} => \E r \in S : refs[r] \cap S = {}

(* What each phase has found out about the references. *)
PhaseInv ==
  /\ phase \notin {"refs", "unknown"} => \A r \in Rules : refs[r] \subseteq Rules
  /\ phase = "unknown" => \E r \in Rules : Unknown \in refs[r]
  /\ phase = "cycle" => ~ Acyclic(refs)
  /\ phase \in {"sort", "loaded"} => Acyclic(refs)
  /\ phase # "sort_failed"
  /\ phase = "loaded" => Range(order) = Rules
  /\ phase \in {"refs", "dfs", "unknown", "cycle"} => order = <<>> /\ released = {}

(* indeg counts the references left, and ready lists the rules with none. *)
SortInv ==
  /\ Sorted(ready)
  /\ Range(ready) = {r \in Rules \ Range(order) : Left(r) = {}}
  /\ \A k, l \in 1..Len(order) : order[k] = order[l] => k = l
  /\ \A r \in Range(order) : refs[r] \subseteq Range(order)
  /\ \A r \in released : order # <<>> /\ order[Len(order)] \in refs[r] /\ r \notin Range(order)
  /\ \A r \in Rules : indeg[r] = Cardinality(Left(r))

IInv == TypeOK /\ PathInv /\ DoneInv /\ PhaseInv /\ (phase = "sort" => SortInv)

(* What TypeOK says of the calls of dfs and of the references. *)
LEMMA SearchTypes ==
  ASSUME TypeOK
  PROVE  /\ visits \in Seq(Calls) /\ Len(visits) \in Nat
         /\ \A k \in 1..Len(visits) : visits[k] \in Calls
         /\ \A k \in 1..Len(visits) : visits[k].rule \in Rules /\ visits[k].todo \subseteq Rules \cup {Unknown}
         /\ \A r \in Rules : refs[r] \subseteq Rules \cup {Unknown}
         /\ Rules \cup {Unknown} \subseteq Nat
<1>1. visits \in Seq(Calls)
  BY DEF TypeOK, Calls
<1>2. Len(visits) \in Nat /\ \A k \in 1..Len(visits) : visits[k] \in Calls
  BY <1>1
<1>3. \A k \in 1..Len(visits) : visits[k].rule \in Rules /\ visits[k].todo \subseteq Rules \cup {Unknown}
  BY <1>2 DEF Calls
<1>4. /\ \A r \in Rules : refs[r] \subseteq Rules \cup {Unknown}
      /\ Rules \cup {Unknown} \subseteq Nat
  BY RulesAssumption DEF TypeOK
<1> QED
  BY <1>1, <1>2, <1>3, <1>4

(* While dfs is in a call there is a last one. *)
LEMMA TopIsLast ==
  ASSUME TypeOK, visits # <<>>
  PROVE  /\ Len(visits) \in 1..Len(visits) /\ Len(visits) > 0
         /\ Top = visits[Len(visits)] /\ Top \in Calls
         /\ Top.rule \in Rules /\ Top.todo \subseteq Rules \cup {Unknown}
<1>1. visits \in Seq(Calls) /\ Len(visits) \in Nat
  BY SearchTypes
<1>2. Len(visits) > 0 /\ Len(visits) \in 1..Len(visits)
  BY <1>1
<1> QED
  BY <1>2, SearchTypes DEF Top

(* Entering a rule that is neither visited nor under way extends the path. *)
LEMMA VisitKeepsPath ==
  ASSUME TypeOK, PathInv, NEW r \in Rules, r \notin visited, r \notin Visiting,
         visits # <<>> => r \in refs[Top.rule],
         Visit(r), refs' = refs, visited' = visited
  PROVE  PathInv' /\ visits' \in Seq(Calls)
<1> DEFINE n == Len(visits)
           call == [rule |-> r, todo |-> refs[r]]
<1>1. n \in Nat /\ call \in Calls /\ visits \in Seq(Calls)
  BY SearchTypes DEF Calls
<1>2. /\ visits' \in Seq(Calls) /\ Len(visits') = n + 1
      /\ visits'[n + 1] = call /\ \A k \in 1..n : visits'[k] = visits[k]
  <2>1. visits' = Append(visits, call)
    BY DEF Visit
  <2> HIDE DEF call
  <2> QED
    BY <1>1, <2>1
<1>3. call.rule = r /\ call.todo = refs[r]
  OBVIOUS
<1>4. \A k \in 1..n : visits[k].rule # r
  BY DEF Visiting
<1>5. n > 0 => r \in refs[visits[n].rule]
  BY <1>1 DEF Top
<1> HIDE DEF n, call
<1>6. \A k \in 1..(n + 1) : k \in 1..n \/ k = n + 1
  BY <1>1
<1>7. ASSUME NEW k \in 1..(n + 1)
      PROVE  /\ visits'[k].rule \notin visited
             /\ visits'[k].todo \subseteq refs[visits'[k].rule]
             /\ refs[visits'[k].rule] \subseteq visits'[k].todo \cup visited
  <2>1. CASE k \in 1..n
    BY <1>2, <2>1 DEF PathInv, n
  <2>2. CASE k = n + 1
    BY <1>2, <1>3, <2>2
  <2> QED
    BY <1>6, <2>1, <2>2
<1>8. ASSUME NEW k \in 1..(n + 1), NEW l \in 1..(n + 1), l = k + 1
      PROVE  visits'[l].rule \in refs[visits'[k].rule]
  <2>1. CASE l \in 1..n
    <3>1. k \in 1..n
      BY <1>1, <1>8, <2>1
    <3> QED
      BY <1>2, <1>8, <2>1, <3>1 DEF PathInv, n
  <2>2. CASE l = n + 1
    <3>1. k = n /\ n \in 1..n /\ n > 0
      BY <1>1, <1>8, <2>2
    <3> QED
      BY <1>2, <1>3, <1>5, <2>2, <3>1
  <2> QED
    BY <1>6, <2>1, <2>2
<1>9. ASSUME NEW k \in 1..(n + 1), NEW l \in 1..(n + 1), visits'[k].rule = visits'[l].rule
      PROVE  k = l
  <2>1. \A j \in 1..n : visits'[j].rule # r
    BY <1>2, <1>4
  <2>2. visits'[n + 1].rule = r
    BY <1>2, <1>3
  <2>3. CASE k \in 1..n /\ l \in 1..n
    BY <1>2, <1>9, <2>3 DEF PathInv, n
  <2> QED
    BY <1>6, <1>9, <2>1, <2>2, <2>3
<1> QED
  BY <1>2, <1>7, <1>8, <1>9 DEF PathInv

(* A reference is struck off once its rule is visited. *)
LEMMA StrikeOffKeepsPath ==
  ASSUME TypeOK, PathInv, visits # <<>>, NEW o \in visited, StrikeOff(o),
         refs' = refs, visited' = visited
  PROVE  PathInv' /\ visits' \in Seq(Calls)
<1> DEFINE n == Len(visits)
           call == [rule |-> Top.rule, todo |-> Top.todo \ {o}]
<1>1. /\ n \in Nat /\ n \in 1..n /\ call \in Calls /\ visits \in Seq(Calls)
      /\ Top = visits[n]
  BY SearchTypes, TopIsLast DEF Calls
<1>2. /\ visits' \in Seq(Calls) /\ Len(visits') = n
      /\ visits'[n] = call /\ \A k \in 1..n : k # n => visits'[k] = visits[k]
  <2>1. visits' = [visits EXCEPT ![n] = call]
    BY DEF StrikeOff
  <2> HIDE DEF call
  <2> QED
    BY <1>1, <2>1
<1>3. call.rule = visits[n].rule /\ call.todo = visits[n].todo \ {o}
  BY <1>1
<1> HIDE DEF n, call
<1>4. \A k \in 1..n : visits'[k].rule = visits[k].rule
  BY <1>2, <1>3
<1>5. \A k \in 1..n : /\ visits'[k].todo \subseteq visits[k].todo
                      /\ visits[k].todo \subseteq visits'[k].todo \cup {o}
  BY <1>2, <1>3
<1>6. \A k \in 1..n : /\ visits[k].rule \notin visited
                      /\ visits[k].todo \subseteq refs[visits[k].rule]
                      /\ refs[visits[k].rule] \subseteq visits[k].todo \cup visited
  BY DEF PathInv, n
<1>7. \A k \in 1..n : /\ visits'[k].rule \notin visited
                      /\ visits'[k].todo \subseteq refs[visits'[k].rule]
                      /\ refs[visits'[k].rule] \subseteq visits'[k].todo \cup visited
  BY <1>4, <1>5, <1>6
<1>8. \A k \in 1..n, l \in 1..n : l = k + 1 => visits'[l].rule \in refs[visits'[k].rule]
  BY <1>4 DEF PathInv, n
<1>9. \A k \in 1..n, l \in 1..n : visits'[k].rule = visits'[l].rule => k = l
  BY <1>4 DEF PathInv, n
<1> QED
  BY <1>2, <1>7, <1>8, <1>9 DEF PathInv

(* Returning from a rule shortens the path by it. *)
LEMMA LeaveKeepsPath ==
  ASSUME TypeOK, PathInv, visits # <<>>,
         visits' = SubSeq(visits, 1, Len(visits) - 1),
         visited' = visited \cup {Top.rule}, refs' = refs
  PROVE  PathInv' /\ visits' \in Seq(Calls)
<1> DEFINE n == Len(visits)
<1>1. n \in Nat /\ n \in 1..n /\ n > 0 /\ visits \in Seq(Calls) /\ Top = visits[n]
  BY SearchTypes, TopIsLast
<1>2. /\ visits' \in Seq(Calls) /\ Len(visits') = n - 1
      /\ \A k \in 1..(n - 1) : visits'[k] = visits[k]
  <2>1. visits' = SubSeq(visits, 1, n - 1)
    OBVIOUS
  <2> HIDE DEF n
  <2>2. n - 1 \in Nat /\ \A k \in 1..(n - 1) : k \in 1..n
    BY <1>1
  <2>3. Len(visits) = n /\ \A k \in 1..n : visits[k] \in Calls
    BY <1>1 DEF n
  <2> QED
    BY <1>1, <2>1, <2>2, <2>3
<1> HIDE DEF n
<1>3. \A k \in 1..(n - 1) : k \in 1..n /\ k # n
  BY <1>1
<1>4. \A k \in 1..(n - 1) : visits'[k].rule # Top.rule
  BY <1>1, <1>2, <1>3 DEF PathInv, n
<1>5. \A k \in 1..n : /\ visits[k].rule \notin visited
                      /\ visits[k].todo \subseteq refs[visits[k].rule]
                      /\ refs[visits[k].rule] \subseteq visits[k].todo \cup visited
  BY DEF PathInv, n
<1>6. \A k \in 1..(n - 1) : /\ visits'[k].rule \notin visited'
                            /\ visits'[k].todo \subseteq refs[visits'[k].rule]
                            /\ refs[visits'[k].rule] \subseteq visits'[k].todo \cup visited'
  BY <1>2, <1>3, <1>4, <1>5
<1>7. \A k \in 1..(n - 1), l \in 1..(n - 1) : l = k + 1 => visits'[l].rule \in refs[visits'[k].rule]
  BY <1>2, <1>3 DEF PathInv, n
<1>8. \A k \in 1..(n - 1), l \in 1..(n - 1) : visits'[k].rule = visits'[l].rule => k = l
  BY <1>2, <1>3 DEF PathInv, n
<1> QED
  BY <1>2, <1>6, <1>7, <1>8 DEF PathInv

(* A rule left refers to visited rules alone, so that it closes no cycle. *)
LEMMA LeaveKeepsDone ==
  ASSUME TypeOK, PathInv, DoneInv, visits # <<>>, Top.todo = {},
         visited' = visited \cup {Top.rule}, refs' = refs
  PROVE  DoneInv'
<1> DEFINE t == Top.rule
<1>1. t \notin visited /\ refs[t] \subseteq visited
  BY TopIsLast DEF PathInv
<1> HIDE DEF t
<1>2. \A r \in visited : refs[r] \subseteq visited
  BY DEF DoneInv
<1>3. ASSUME NEW S \in SUBSET (visited \cup {t}), S # {}
      PROVE  \E r \in S : refs[r] \cap S = {}
  <2>1. CASE S = {t}
    BY <1>1, <2>1
  <2>2. CASE S # {t}
    <3> DEFINE Q == S \ {t}
    <3>1. Q \in SUBSET visited /\ Q # {}
      BY <1>3, <2>2
    <3>2. PICK r \in Q : refs[r] \cap Q = {}
      <4> HIDE DEF Q
      <4> QED
        BY <3>1 DEF DoneInv
    <3>3. t \notin refs[r]
      BY <1>1, <1>2, <3>1
    <3> QED
      BY <3>2, <3>3
  <2> QED
    BY <2>1, <2>2
<1>4. visited' = visited \cup {t}
  BY DEF t
<1> QED
  BY <1>1, <1>2, <1>3, <1>4 DEF DoneInv

(* A reference from the last call to one under way closes a ring: every rule
   from that one on refers to another of them. *)
LEMMA RingIsCycle ==
  ASSUME TypeOK, PathInv, visits # <<>>, NEW j \in 1..Len(visits),
         visits[j].rule \in refs[Top.rule]
  PROVE  ~ Acyclic(refs)
<1> DEFINE n == Len(visits)
           S == {visits[k].rule : k \in j..n}
<1>1. n \in Nat /\ n \in 1..n /\ j \in Nat /\ Top = visits[n]
  BY SearchTypes, TopIsLast
<1> HIDE DEF n
<1>2. S \subseteq Rules /\ S # {}
  <2>1. j \in j..n /\ j..n \subseteq 1..n
    BY <1>1 DEF n
  <2> QED
    BY <2>1, SearchTypes DEF n
<1>3. ASSUME NEW k \in j..n PROVE refs[visits[k].rule] \cap S # {}
  <2>1. CASE k = n
    <3>1. j \in j..n
      BY <1>1 DEF n
    <3> QED
      BY <1>1, <2>1, <3>1
  <2>2. CASE k # n
    <3>1. k + 1 \in j..n /\ k \in 1..n /\ k + 1 \in 1..n
      BY <1>1, <2>2 DEF n
    <3>2. visits[k + 1].rule \in refs[visits[k].rule]
      BY <3>1 DEF PathInv, n
    <3> QED
      BY <3>1, <3>2
  <2> QED
    BY <2>1, <2>2
<1>4. \A r \in S : refs[r] \cap S # {}
  BY <1>3
<1> HIDE DEF S
<1> QED
  BY <1>2, <1>4 DEF Acyclic

-----------------------------------------------------------------------------
(* The sort. *)

(* What TypeOK says of the lists of the sort. *)
LEMMA SortTypes ==
  ASSUME TypeOK
  PROVE  /\ order \in Seq(Rules) /\ ready \in Seq(Rules) /\ released \subseteq Rules
         /\ Range(order) \subseteq Rules /\ Len(order) \in Nat
         /\ Rules \in SUBSET Nat /\ IsFiniteSet(Rules) /\ Cardinality(Rules) \in Nat
<1>1. order \in Seq(Rules) /\ ready \in Seq(Rules) /\ released \subseteq Rules
  BY DEF TypeOK
<1>2. Rules \in SUBSET Nat /\ IsFiniteSet(Rules) /\ Cardinality(Rules) \in Nat
  BY RulesAssumption, FS_CardinalityType
<1>3. Range(order) \subseteq Rules /\ Len(order) \in Nat
  BY <1>1, RangeOf
<1> QED
  BY <1>1, <1>2, <1>3

(* A set of rules has at most as many elements as there are rules. *)
LEMMA SubsetSize ==
  ASSUME NEW S \in SUBSET Rules
  PROVE  IsFiniteSet(S) /\ Cardinality(S) \in 0..Cardinality(Rules)
<1>1. IsFiniteSet(S) /\ Cardinality(S) <= Cardinality(Rules)
  BY RulesAssumption, FS_Subset
<1>2. Cardinality(S) \in Nat /\ Cardinality(Rules) \in Nat
  BY <1>1, RulesAssumption, FS_CardinalityType
<1> QED
  BY <1>1, <1>2

(* The counts and the ready list the sort begins with are right, and the
   references that dfs went through have no cycle. *)
LEMMA StartSortCounts ==
  ASSUME TypeOK, PhaseInv, DoneInv, StartSort
  PROVE  /\ Acyclic(refs) /\ SortInv'
         /\ indeg' \in [Rules -> 0..Cardinality(Rules)] /\ ready' \in Seq(Rules)
<1>1. /\ order = <<>> /\ released = {} /\ order' = <<>> /\ released' = {} /\ refs' = refs
      /\ \A r \in Rules : refs[r] \subseteq Rules
  BY DEF StartSort, PhaseInv
<1>2. Range(order') = {}
  BY <1>1 DEF Range
<1>3. \A r \in Rules : Left(r)' = refs[r]
  BY <1>1, <1>2 DEF Left
<1>4. PICK s \in [1..Cardinality({r \in Rules : refs[r] = {}}) -> Rules] :
         IsSortedListOf(s, {r \in Rules : refs[r] = {}}) /\ ready' = s
  BY DEF StartSort
<1>5. Sorted(ready') /\ Range(ready') = {r \in Rules : refs[r] = {}}
  BY <1>4 DEF IsSortedListOf
<1>6. ready' \in Seq(Rules)
  <2> DEFINE c == Cardinality({r \in Rules : refs[r] = {}})
  <2>1. c \in Nat
    BY SubsetSize
  <2>2. s \in [1..c -> Rules]
    OBVIOUS
  <2> HIDE DEF c
  <2> QED
    BY <1>4, <2>1, <2>2
<1>7. indeg' = [r \in Rules |-> Cardinality(refs[r])]
  BY DEF StartSort
<1>8. indeg' \in [Rules -> 0..Cardinality(Rules)]
  BY <1>1, <1>7, SubsetSize
<1>9. \A r \in Rules : indeg'[r] = Cardinality(Left(r)')
  BY <1>3, <1>7
<1>10. Range(ready') = {r \in Rules \ Range(order') : Left(r)' = {}}
  BY <1>2, <1>3, <1>5
<1>11. SortInv'
  <2>1. /\ \A k, l \in 1..Len(order') : order'[k] = order'[l] => k = l
        /\ \A r \in Range(order') : refs'[r] \subseteq Range(order')
        /\ \A r \in released' : order' # <<>> /\ order'[Len(order')] \in refs'[r] /\ r \notin Range(order')
    BY <1>1, <1>2
  <2> QED
    BY <1>5, <1>9, <1>10, <2>1 DEF SortInv
<1>12. Acyclic(refs)
  <2>1. visited = Rules
    BY DEF StartSort, TypeOK
  <2> QED
    BY <2>1 DEF DoneInv, Acyclic
<1> QED
  BY <1>6, <1>8, <1>11, <1>12

(* The rule placed is the least of the ready ones, and all it refers to is
   placed. *)
LEMMA PlaceFacts ==
  ASSUME TypeOK, SortInv, Place
  PROVE  /\ Head(ready) \in Rules \ Range(order) /\ refs[Head(ready)] \subseteq Range(order)
         /\ Head(ready) \in Range(ready) /\ \A x \in Range(ready) : Head(ready) <= x
         /\ order' = Append(order, Head(ready)) /\ order' \in Seq(Rules)
         /\ Range(order') = Range(order) \cup {Head(ready)} /\ order' # <<>>
         /\ Len(order') = Len(order) + 1 /\ order'[Len(order')] = Head(ready)
         /\ \A i \in 1..Len(order) : order'[i] = order[i]
         /\ ready' \in Seq(Rules) /\ Sorted(ready') /\ Range(ready') = Range(ready) \ {Head(ready)}
<1>1. /\ Head(ready) \in Range(ready) /\ \A x \in Range(ready) : Head(ready) <= x
      /\ ready' \in Seq(Rules) /\ Sorted(ready') /\ Range(ready') = Range(ready) \ {Head(ready)}
  BY SortTypes, SortedTail DEF SortInv, Place
<1>2. Head(ready) \in Rules \ Range(order) /\ Left(Head(ready)) = {} /\ released = {}
  BY <1>1 DEF SortInv, Place
<1>3. refs[Head(ready)] \subseteq Range(order)
  BY <1>2 DEF Left
<1>4. order' = Append(order, Head(ready))
  BY DEF Place
<1>5. /\ order' \in Seq(Rules)
      /\ Range(order') = Range(order) \cup {Head(ready)} /\ order' # <<>>
      /\ Len(order') = Len(order) + 1 /\ order'[Len(order')] = Head(ready)
      /\ \A i \in 1..Len(order) : order'[i] = order[i]
  <2> DEFINE n == Head(ready)
  <2>1. n \in Rules /\ order' = Append(order, n) /\ order \in Seq(Rules)
    BY <1>2, <1>4, SortTypes
  <2> HIDE DEF n
  <2>2. /\ Append(order, n) \in Seq(Rules) /\ Len(Append(order, n)) = Len(order) + 1
        /\ Append(order, n)[Len(order) + 1] = n
        /\ \A i \in 1..Len(order) : Append(order, n)[i] = order[i]
        /\ Range(Append(order, n)) = Range(order) \cup {n} /\ Append(order, n) # <<>>
    BY <2>1, RangeOfAppend
  <2> QED
    BY <2>1, <2>2 DEF n
<1> QED
  BY <1>1, <1>2, <1>3, <1>4, <1>5

(* Placing a rule changes no count: what refers to it is still to be released. *)
LEMMA PlaceKeepsSort ==
  ASSUME TypeOK, SortInv, Place
  PROVE  SortInv' /\ order' \in Seq(Rules) /\ ready' \in Seq(Rules) /\ released' \subseteq Rules
<1> DEFINE n == Head(ready)
<1>1. /\ n \in Rules \ Range(order) /\ refs[n] \subseteq Range(order)
      /\ order' \in Seq(Rules)
      /\ Range(order') = Range(order) \cup {n} /\ order' # <<>>
      /\ Len(order') = Len(order) + 1 /\ order'[Len(order')] = n
      /\ \A i \in 1..Len(order) : order'[i] = order[i]
      /\ ready' \in Seq(Rules) /\ Sorted(ready') /\ Range(ready') = Range(ready) \ {n}
  BY PlaceFacts
<1>2. /\ released = {} /\ released' = {r \in Rules : n \in refs[r]}
      /\ refs' = refs /\ indeg' = indeg
  BY DEF Place
<1> HIDE DEF n
<1>3. \A r \in Rules : Left(r)' = Left(r)
  BY <1>1, <1>2 DEF Left
<1>4. Range(ready') = {r \in Rules \ Range(order') : Left(r)' = {}}
  <2>1. Range(ready) = {r \in Rules \ Range(order) : Left(r) = {}}
    BY DEF SortInv
  <2> QED
    BY <1>1, <1>3, <2>1
<1>5. \A k, l \in 1..Len(order') : order'[k] = order'[l] => k = l
  <2>1. Len(order) \in Nat /\ \A k, l \in 1..Len(order) : order[k] = order[l] => k = l
    BY SortTypes DEF SortInv
  <2>2. \A k \in 1..Len(order) : order[k] # n
    BY <1>1, SortTypes, RangeOf, SMTT(30)
  <2>3. \A k \in 1..Len(order') : k \in 1..Len(order) \/ k = Len(order')
    BY <1>1, <2>1
  <2> QED
    BY <1>1, <2>1, <2>2, <2>3
<1>6. \A r \in Range(order') : refs'[r] \subseteq Range(order')
  BY <1>1, <1>2 DEF SortInv
<1>7. \A r \in released' : /\ order' # <<>> /\ order'[Len(order')] \in refs'[r]
                           /\ r \notin Range(order')
  BY <1>1, <1>2 DEF SortInv
<1>8. \A r \in Rules : indeg'[r] = Cardinality(Left(r)')
  BY <1>2, <1>3 DEF SortInv
<1>9. released' \subseteq Rules
  BY <1>2
<1> QED
  BY <1>1, <1>4, <1>5, <1>6, <1>7, <1>8, <1>9 DEF SortInv

(* Releasing a rule lowers its count by the reference to the last rule placed,
   and the rule is inserted when that was the last one left. *)
LEMMA ReleaseKeepsSort ==
  ASSUME TypeOK, PhaseInv, SortInv, Release
  PROVE  /\ SortInv' /\ released' \subseteq Rules /\ ready' \in Seq(Rules)
         /\ indeg' \in [Rules -> 0..Cardinality(Rules)]
<1> DEFINE last == order[Len(order)]
<1>1. PICK m \in Rules : m \in released /\ m = Least(released)
  BY SortTypes, LeastIs DEF Release
<1>0. /\ phase = "sort" /\ refs' = refs /\ order' = order /\ released' = released \ {m}
      /\ indeg' = [indeg EXCEPT ![m] = @ - 1]
      /\ ready' = IF indeg[m] = 1 THEN Insert(ready, Bisect(ready, m), m) ELSE ready
  BY <1>1 DEF Release
<1>2. order # <<>> /\ last \in refs[m] /\ m \notin Range(order)
  BY <1>1 DEF SortInv
<1>3. last \in Range(order)
  BY <1>2, SortTypes, RangeOf
<1>4. \A r \in Rules : refs[r] \subseteq Rules
  BY <1>0 DEF PhaseInv
<1>5. last \in Left(m) /\ Left(m)' = Left(m) \ {last}
  <2>1. Left(m) = {s \in refs[m] : s \in Range(order) => s = last}
    BY <1>1 DEF Left
  <2>2. Left(m)' = {s \in refs[m] : s \notin Range(order)}
    BY <1>0 DEF Left
  <2> HIDE DEF last
  <2> QED
    BY <1>2, <1>3, <2>1, <2>2
<1>6. \A r \in Rules : r # m => Left(r)' = Left(r)
  BY <1>0 DEF Left
<1>7. /\ indeg[m] = Cardinality(Left(m)) /\ indeg[m] \in 1..Cardinality(Rules)
      /\ Cardinality(Left(m)') = indeg[m] - 1 /\ (indeg[m] = 1 <=> Left(m)' = {})
  <2>1. Left(m) \in SUBSET Rules /\ Left(m)' \in SUBSET Rules
    BY <1>1, <1>4, <1>5 DEF Left
  <2>2. /\ IsFiniteSet(Left(m)) /\ Cardinality(Left(m)) \in 0..Cardinality(Rules)
        /\ IsFiniteSet(Left(m)')
    BY <2>1, SubsetSize
  <2>3. Cardinality(Left(m) \ {last}) = Cardinality(Left(m)) - 1
    BY <1>5, <2>2, FS_RemoveElement
  <2>4. indeg[m] = Cardinality(Left(m))
    BY <1>1 DEF SortInv
  <2>5. Cardinality(Left(m)) # 0
    BY <1>5, <2>2, FS_EmptySet
  <2>6. Cardinality(Left(m)') = 0 <=> Left(m)' = {}
    BY <2>2, FS_EmptySet
  <2>7. Cardinality(Rules) \in Nat
    BY SortTypes
  <2> QED
    BY <1>5, <2>2, <2>3, <2>4, <2>5, <2>6, <2>7
<1>8. indeg' \in [Rules -> 0..Cardinality(Rules)]
  <2>1. indeg[m] - 1 \in 0..Cardinality(Rules) /\ indeg \in [Rules -> 0..Cardinality(Rules)]
    BY <1>7, SortTypes DEF TypeOK
  <2> QED
    BY <1>0, <1>1, <2>1
<1>9. \A r \in Rules : indeg'[r] = Cardinality(Left(r)')
  <2>1. /\ indeg \in [Rules -> 0..Cardinality(Rules)]
        /\ \A r \in Rules : indeg[r] = Cardinality(Left(r))
    BY DEF TypeOK, SortInv
  <2>2. indeg'[m] = indeg[m] - 1 /\ \A r \in Rules : r # m => indeg'[r] = indeg[r]
    BY <1>0, <1>1, <2>1
  <2>3. ASSUME NEW r \in Rules PROVE indeg'[r] = Cardinality(Left(r)')
    <3>1. CASE r = m
      BY <1>7, <2>2, <3>1
    <3>2. CASE r # m
      <4>1. Left(r)' = Left(r)
        BY <1>6, <3>2
      <4> QED
        BY <2>1, <2>2, <3>2, <4>1
    <3> QED
      BY <3>1, <3>2
  <2> QED
    BY <2>3
<1>10. Range(ready) = {r \in Rules \ Range(order) : Left(r) = {}} /\ m \notin Range(ready)
  BY <1>5 DEF SortInv
<1>11. /\ ready' \in Seq(Rules) /\ Sorted(ready')
       /\ Range(ready') = {r \in Rules \ Range(order') : Left(r)' = {}}
  <2>1. ready \in Seq(Rules) /\ Sorted(ready) /\ Rules \in SUBSET Nat
    BY SortTypes DEF SortInv
  <2>2. CASE indeg[m] = 1
    <3>1. ready' = Insert(ready, Bisect(ready, m), m)
      BY <1>0, <2>2
    <3>2. /\ ready' \in Seq(Rules) /\ Sorted(ready')
          /\ Range(ready') = Range(ready) \cup {m}
      BY <1>1, <1>10, <2>1, <3>1, InsertSorts
    <3>3. Left(m)' = {}
      BY <1>7, <2>2
    <3>4. ASSUME NEW r \in Rules
          PROVE  r \in Range(ready') <=> r \notin Range(order') /\ Left(r)' = {}
      <4>1. CASE r = m
        BY <1>0, <1>2, <3>2, <3>3, <4>1
      <4>2. CASE r # m
        <5>1. Left(r)' = Left(r)
          BY <1>6, <4>2
        <5> QED
          BY <1>0, <1>10, <3>2, <4>2, <5>1
      <4> QED
        BY <4>1, <4>2
    <3> QED
      BY <3>2, <3>4, RangeOf
  <2>3. CASE indeg[m] # 1
    <3>1. ready' = ready /\ Left(m)' # {}
      BY <1>0, <1>7, <2>3
    <3>2. ASSUME NEW r \in Rules
          PROVE  r \in Range(ready') <=> r \notin Range(order') /\ Left(r)' = {}
      <4>1. CASE r = m
        BY <1>10, <3>1, <4>1
      <4>2. CASE r # m
        <5>1. Left(r)' = Left(r)
          BY <1>6, <4>2
        <5> QED
          BY <1>0, <1>10, <3>1, <5>1
      <4> QED
        BY <4>1, <4>2
    <3> QED
      BY <2>1, <3>1, <3>2, RangeOf, ZenonT(30)
  <2> QED
    BY <2>2, <2>3
<1>12. released' \subseteq Rules
  BY <1>0, SortTypes
<1>13. /\ \A k, l \in 1..Len(order') : order'[k] = order'[l] => k = l
       /\ \A r \in Range(order') : refs'[r] \subseteq Range(order')
       /\ \A r \in released' : order' # <<>> /\ order'[Len(order')] \in refs'[r] /\ r \notin Range(order')
  BY <1>0 DEF SortInv
<1> QED
  BY <1>8, <1>9, <1>11, <1>12, <1>13 DEF SortInv

(* When no rule is ready none is left: rules left over would each refer to
   another of them, and the references have no cycle. *)
LEMMA NoneLeftOut ==
  ASSUME TypeOK, PhaseInv, SortInv, EndSort
  PROVE  Range(order) = Rules /\ Len(order) = Cardinality(Rules)
<1>1. /\ phase = "sort" /\ released = {} /\ ready = <<>>
      /\ Acyclic(refs) /\ \A r \in Rules : refs[r] \subseteq Rules
  BY DEF EndSort, PhaseInv
<1> DEFINE U == Rules \ Range(order)
<1>2. \A r \in U : refs[r] \cap U # {}
  <2> SUFFICES ASSUME NEW r \in U PROVE refs[r] \cap U # {}
    OBVIOUS
  <2>1. Range(ready) = {}
    BY <1>1 DEF Range
  <2>2. Left(r) # {}
    BY <2>1 DEF SortInv
  <2> QED
    BY <1>1, <2>2 DEF Left
<1>3. U = {}
  <2>1. U \in SUBSET Rules
    OBVIOUS
  <2> HIDE DEF U
  <2> QED
    BY <1>1, <1>2, <2>1 DEF Acyclic
<1>4. Range(order) = Rules
  BY <1>3, SortTypes
<1>5. Len(order) = Cardinality(Rules)
  <2>1. order \in [1..Len(order) -> Rules] /\ Len(order) \in Nat
    BY SortTypes
  <2>2. order \in Injection(1..Len(order), Rules)
    BY <2>1 DEF SortInv, Injection, IsInjective
  <2>3. order \in Surjection(1..Len(order), Rules)
    BY <1>4, <2>1, SortTypes, RangeOf DEF Surjection
  <2>4. IsFiniteSet(1..Len(order)) /\ Cardinality(1..Len(order)) = Len(order)
    <3>1. PICK n \in Nat : n = Len(order)
      BY <2>1
    <3>2. IsFiniteSet(1..n) /\ Cardinality(1..n) = IF 1 > n THEN 0 ELSE n - 1 + 1
      BY FS_Interval
    <3> QED
      BY <3>1, <3>2
  <2>5. Cardinality(Rules) = Cardinality(1..Len(order))
    BY <2>2, <2>3, <2>4, FS_Surjection
  <2> QED
    BY <2>4, <2>5
<1> QED
  BY <1>4, <1>5

-----------------------------------------------------------------------------
(* The theorems. *)

(* A load begins with the invariant. *)
LEMMA InitInv == Init => IInv
<1> SUFFICES ASSUME Init PROVE IInv
  OBVIOUS
<1>1. PICK E \in SUBSET {e \in Rules \X (Rules \cup {Unknown}) : e[2] \in MayRef[e[1]]} :
         refs = [r \in Rules |-> {e[2] : e \in {d \in E : d[1] = r}}]
  BY DEF Init
<1>2. refs \in [Rules -> SUBSET (Rules \cup {Unknown})]
  BY <1>1
<1>3. /\ phase = "refs" /\ visits = <<>> /\ visited = {} /\ indeg = [r \in Rules |-> 0]
      /\ ready = <<>> /\ order = <<>> /\ released = {}
  BY DEF Init
<1>4. TypeOK
  <2>1. Cardinality(Rules) \in Nat
    BY RulesAssumption, FS_CardinalityType
  <2>2. indeg \in [Rules -> 0..Cardinality(Rules)]
    BY <1>3, <2>1
  <2> QED
    BY <1>2, <1>3, <2>2 DEF TypeOK
<1>5. PathInv
  BY <1>3 DEF PathInv
<1>6. DoneInv /\ PhaseInv
  BY <1>3 DEF DoneInv, PhaseInv
<1> QED
  BY <1>3, <1>4, <1>5, <1>6 DEF IInv

(* The next reference dfs follows is one of the rule it is in. *)
LEMMA LeastToGo ==
  ASSUME IInv, Inner, Top.todo # {}
  PROVE  /\ Least(Top.todo) \in Top.todo /\ Least(Top.todo) \in Rules
         /\ Least(Top.todo) \in refs[Top.rule]
<1>1. visits # <<>> /\ phase = "dfs" /\ TypeOK /\ PathInv /\ PhaseInv
  BY DEF Inner, IInv
<1>2. Top.todo \in SUBSET Nat
  BY <1>1, TopIsLast, SearchTypes
<1>3. Least(Top.todo) \in Top.todo
  BY <1>2, LeastIs
<1>4. Top.todo \subseteq refs[Top.rule] /\ Top.rule \in Rules
  BY <1>1, TopIsLast DEF PathInv
<1>5. refs[Top.rule] \subseteq Rules
  BY <1>1, <1>4 DEF PhaseInv
<1> QED
  BY <1>3, <1>4, <1>5

(* A step of dfs keeps the invariant if it keeps the path and the rules done. *)
LEMMA SearchStep ==
  ASSUME IInv, phase' \in {"dfs", "cycle"}, phase = "dfs", UNCHANGED <<refs, sort>>,
         visits' \in Seq(Calls), visited' \subseteq Rules, PathInv', DoneInv',
         phase' = "cycle" => ~ Acyclic(refs)
  PROVE  IInv'
<1>1. TypeOK'
  BY DEF IInv, TypeOK, sort, Calls
<1>2. PhaseInv'
  BY DEF IInv, PhaseInv, sort, Acyclic
<1> QED
  BY <1>1, <1>2 DEF IInv

(* Every step of a load keeps the invariant. *)
LEMMA NextInv == IInv /\ [Next]_vars => IInv'
<1> SUFFICES ASSUME IInv, [Next]_vars PROVE IInv'
  OBVIOUS
<1>0. TypeOK /\ PathInv /\ DoneInv /\ PhaseInv /\ (phase = "sort" => SortInv)
  BY DEF IInv
<1>1. CASE CheckRefs
  <2>1. UNCHANGED <<refs, visits, visited, indeg, ready, order, released>> /\ phase = "refs"
    BY <1>1 DEF CheckRefs, graph, sort
  <2>2. TypeOK'
    BY <1>0, <1>1, <2>1 DEF TypeOK, CheckRefs
  <2>3. PathInv' /\ DoneInv'
    BY <1>0, <2>1 DEF PathInv, DoneInv
  <2>4. PhaseInv' /\ phase' # "sort"
    BY <1>0, <1>1, <2>1 DEF PhaseInv, CheckRefs, TypeOK
  <2> QED
    BY <2>2, <2>3, <2>4 DEF IInv
<1>2. ASSUME NEW r \in Rules, VisitRoot(r) PROVE IInv'
  <2>1. /\ phase = "dfs" /\ phase' = "dfs" /\ UNCHANGED <<refs, visited, sort>>
        /\ visits = <<>> /\ r \notin visited /\ Visit(r)
    BY <1>2 DEF VisitRoot
  <2>2. r \notin Visiting
    BY <2>1 DEF Visiting
  <2>3. PathInv' /\ visits' \in Seq(Calls)
    BY <1>0, <2>1, <2>2, VisitKeepsPath
  <2>4. DoneInv' /\ visited' \subseteq Rules
    BY <1>0, <2>1 DEF DoneInv, TypeOK
  <2> QED
    BY <2>1, <2>3, <2>4, SearchStep
<1>3. CASE RefVisited
  <2>1. /\ phase = "dfs" /\ phase' = "dfs" /\ UNCHANGED <<refs, visited, sort>>
        /\ visits # <<>> /\ Least(Top.todo) \in visited /\ StrikeOff(Least(Top.todo))
    BY <1>3 DEF RefVisited, Inner
  <2>2. PathInv' /\ visits' \in Seq(Calls)
    BY <1>0, <2>1, StrikeOffKeepsPath
  <2>3. DoneInv' /\ visited' \subseteq Rules
    BY <1>0, <2>1 DEF DoneInv, TypeOK
  <2> QED
    BY <2>1, <2>2, <2>3, SearchStep
<1>4. CASE RefVisiting
  <2>1. /\ phase = "dfs" /\ phase' = "cycle" /\ UNCHANGED <<refs, visits, visited, sort>>
        /\ visits # <<>> /\ Inner /\ Top.todo # {} /\ Least(Top.todo) \in Visiting
    BY <1>4 DEF RefVisiting, Inner, graph
  <2>2. PICK j \in 1..Len(visits) : visits[j].rule = Least(Top.todo)
    BY <2>1 DEF Visiting
  <2>3. ~ Acyclic(refs)
    BY <1>0, <2>1, <2>2, LeastToGo, RingIsCycle
  <2>4. PathInv' /\ DoneInv' /\ visited' \subseteq Rules /\ visits' \in Seq(Calls)
    BY <1>0, <2>1, SearchTypes DEF PathInv, DoneInv, TypeOK
  <2> QED
    BY <2>1, <2>3, <2>4, SearchStep
<1>5. CASE RefNew
  <2>1. /\ phase = "dfs" /\ phase' = "dfs" /\ UNCHANGED <<refs, visited, sort>>
        /\ visits # <<>> /\ Inner /\ Top.todo # {}
        /\ Least(Top.todo) \notin visited \cup Visiting /\ Visit(Least(Top.todo))
    BY <1>5 DEF RefNew, Inner
  <2>2. PathInv' /\ visits' \in Seq(Calls)
    BY <1>0, <2>1, LeastToGo, VisitKeepsPath
  <2>3. DoneInv' /\ visited' \subseteq Rules
    BY <1>0, <2>1 DEF DoneInv, TypeOK
  <2> QED
    BY <2>1, <2>2, <2>3, SearchStep
<1>6. CASE Leave
  <2>1. /\ phase = "dfs" /\ phase' = "dfs" /\ UNCHANGED <<refs, sort>>
        /\ visits # <<>> /\ Top.todo = {}
        /\ visited' = visited \cup {Top.rule} /\ visits' = SubSeq(visits, 1, Len(visits) - 1)
    BY <1>6 DEF Leave, Inner
  <2>2. PathInv' /\ visits' \in Seq(Calls)
    BY <1>0, <2>1, LeaveKeepsPath
  <2>3. DoneInv'
    BY <1>0, <2>1, LeaveKeepsDone
  <2>4. visited' \subseteq Rules
    BY <1>0, <2>1, TopIsLast DEF TypeOK
  <2> QED
    BY <2>1, <2>2, <2>3, <2>4, SearchStep
<1>7. CASE StartSort
  <2>1. /\ phase' = "sort" /\ phase = "dfs" /\ UNCHANGED <<refs, visits, visited, order, released>>
    BY <1>7 DEF StartSort, graph
  <2>2. /\ Acyclic(refs) /\ SortInv'
        /\ indeg' \in [Rules -> 0..Cardinality(Rules)] /\ ready' \in Seq(Rules)
    BY <1>0, <1>7, StartSortCounts
  <2>3. TypeOK'
    BY <1>0, <2>1, <2>2 DEF TypeOK
  <2>4. PathInv' /\ DoneInv'
    BY <1>0, <2>1 DEF PathInv, DoneInv
  <2>5. PhaseInv'
    BY <1>0, <2>1, <2>2 DEF PhaseInv, Acyclic
  <2> QED
    BY <2>2, <2>3, <2>4, <2>5 DEF IInv
<1>8. CASE Place
  <2>1. phase = "sort" /\ UNCHANGED <<refs, phase, visits, visited, indeg>>
    BY <1>8 DEF Place, graph
  <2>2. SortInv' /\ order' \in Seq(Rules) /\ ready' \in Seq(Rules) /\ released' \subseteq Rules
    BY <1>0, <1>8, <2>1, PlaceKeepsSort
  <2>3. TypeOK'
    BY <1>0, <2>1, <2>2 DEF TypeOK
  <2>4. PathInv' /\ DoneInv'
    BY <1>0, <2>1 DEF PathInv, DoneInv
  <2>5. PhaseInv'
    BY <1>0, <2>1 DEF PhaseInv, Acyclic
  <2> QED
    BY <2>2, <2>3, <2>4, <2>5 DEF IInv
<1>9. CASE Release
  <2>1. phase = "sort" /\ UNCHANGED <<refs, phase, visits, visited, order>>
    BY <1>9 DEF Release, graph
  <2>2. /\ SortInv' /\ released' \subseteq Rules /\ ready' \in Seq(Rules)
        /\ indeg' \in [Rules -> 0..Cardinality(Rules)]
    BY <1>0, <1>9, <2>1, ReleaseKeepsSort
  <2>3. TypeOK'
    BY <1>0, <2>1, <2>2 DEF TypeOK
  <2>4. PathInv' /\ DoneInv'
    BY <1>0, <2>1 DEF PathInv, DoneInv
  <2>5. PhaseInv'
    BY <1>0, <2>1 DEF PhaseInv, Acyclic
  <2> QED
    BY <2>2, <2>3, <2>4, <2>5 DEF IInv
<1>10. CASE EndSort
  <2>1. /\ phase = "sort" /\ UNCHANGED <<refs, visits, visited, indeg, ready, order, released>>
        /\ phase' = IF Len(order) = Cardinality(Rules) THEN "loaded" ELSE "sort_failed"
    BY <1>10 DEF EndSort, graph, sort
  <2>2. Range(order) = Rules /\ phase' = "loaded"
    BY <1>0, <1>10, <2>1, NoneLeftOut
  <2>3. TypeOK'
    BY <1>0, <2>1, <2>2 DEF TypeOK
  <2>4. PathInv' /\ DoneInv'
    BY <1>0, <2>1 DEF PathInv, DoneInv
  <2>5. PhaseInv'
    BY <1>0, <2>1, <2>2 DEF PhaseInv, Acyclic
  <2> QED
    BY <2>2, <2>3, <2>4, <2>5 DEF IInv
<1>11. CASE UNCHANGED vars
  <2>1. UNCHANGED <<refs, phase, visits, visited, indeg, ready, order, released>>
    BY <1>11 DEF vars, graph, sort
  <2>2. TypeOK' /\ PathInv' /\ DoneInv'
    BY <1>0, <2>1 DEF TypeOK, PathInv, DoneInv
  <2>3. PhaseInv'
    BY <1>0, <2>1 DEF PhaseInv, Acyclic
  <2>4. phase' = "sort" => SortInv'
    BY <1>0, <2>1 DEF SortInv, Left, Sorted
  <2> QED
    BY <2>2, <2>3, <2>4 DEF IInv
<1> QED
  BY <1>1, <1>2, <1>3, <1>4, <1>5, <1>6, <1>7, <1>8, <1>9, <1>10, <1>11 DEF Next

(* The invariant holds in every state of a load. *)
LEMMA InvHolds == Spec => []IInv
BY InitInv, NextInv, PTL DEF Spec

(* Every reachable state of a load is well typed. *)
THEOREM TypeCorrect == Spec => []TypeOK
<1>1. IInv => TypeOK
  BY DEF IInv
<1> QED
  BY <1>1, InvHolds, PTL

(* Throughout the sort the ready list is sorted and holds exactly the rules all
   of whose references are placed (_toposort_rules). *)
THEOREM ReadyListIsRight == Spec => []ReadyIsRight
<1>1. IInv => ReadyIsRight
  <2> SUFFICES ASSUME IInv, phase = "sort" PROVE ReadyIsRight
    BY DEF ReadyIsRight
  <2>1. Sorted(ready) /\ Range(ready) = {r \in Rules \ Range(order) : Left(r) = {}}
    BY DEF IInv, SortInv
  <2>2. \A r \in Rules : Left(r) = {} <=>
           \A s \in refs[r] : s \in Range(order) /\ (r \in released => s # order[Len(order)])
    BY DEF Left
  <2> QED
    BY <2>1, <2>2 DEF ReadyIsRight
<1> QED
  BY <1>1, InvHolds, PTL

(* load refuses a pack for a cycle or an unknown id only if it has one, puts it
   in order otherwise, and never raises the error after the sort. *)
THEOREM VerdictIsRight == Spec => []LoadVerdict
<1>1. IInv => LoadVerdict
  BY RulesAssumption DEF IInv, PhaseInv, LoadVerdict, TypeOK
<1> QED
  BY <1>1, InvHolds, PTL

(* Place is a step of RuleOrder. *)
LEMMA PlaceIsLeast == IInv /\ Place => Abstract!Place
<1> SUFFICES ASSUME IInv, Place PROVE Abstract!Place
  OBVIOUS
<1> DEFINE n == Head(ready)
<1>1. TypeOK /\ SortInv /\ PhaseInv /\ released = {} /\ refs' = refs
  BY DEF IInv, Place
<1>2. Abstract!Placed = Range(order)
  BY <1>1, SortTypes, RangeOf DEF Abstract!Placed
<1>3. Abstract!Eligible = Range(ready)
  <2>1. \A r \in Rules : Left(r) = {} <=> refs[r] \subseteq Range(order)
    BY <1>1 DEF Left
  <2> QED
    BY <1>1, <1>2, <2>1 DEF Abstract!Eligible, SortInv
<1>4. n \in Range(ready) /\ (\A x \in Range(ready) : n <= x) /\ order' = Append(order, n)
  BY <1>1, PlaceFacts
<1> HIDE DEF n
<1> QED
  BY <1>1, <1>3, <1>4 DEF Abstract!Place

(* No other step changes the order or the references. *)
LEMMA OthersPlaceNone ==
  ASSUME [Next]_vars, ~ Place
  PROVE  UNCHANGED <<refs, order>>
BY DEF Next, vars, graph, sort, CheckRefs, VisitRoot, RefVisited, RefVisiting, RefNew, Leave,
       StartSort, Release, EndSort

(* load implements RuleOrder: the order is a function of the ids and their
   references alone, the least eligible id always next. *)
THEOREM OrderIsLeastOne == Spec => OrderIsLeast
<1>1. Init => Abstract!Init
  BY DEF Init, Abstract!Init
<1>2. IInv /\ [Next]_vars => [Abstract!Place]_<<refs, order>>
  BY PlaceIsLeast, OthersPlaceNone
<1> QED
  BY <1>1, <1>2, InvHolds, PTL DEF Spec, OrderIsLeast, Abstract!Spec
=============================================================================
