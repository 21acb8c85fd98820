------------------------- MODULE StructuresProofs -------------------------
(***************************************************************************)
(* The averages, for any window, samples and width of the numbers; the     *)
(* loader of plugins, for any identities, directories and references; and  *)
(* the AVL tree, for any values and any number of them.                    *)
(***************************************************************************)
EXTENDS FlatStructures, FiniteSetTheorems, FunctionTheorems, SequenceTheorems,
        WellFoundedInduction, TLAPS

-----------------------------------------------------------------------------
\* A set of natural numbers has a least one.
LEMMA LeastNumber ==
  ASSUME NEW S \in SUBSET Nat, S # {}
  PROVE  \E n \in S : \A m \in 0 .. n - 1 : m \notin S
<1>1. PICK x \in S : \A y \in S : ~(<<y, x>> \in OpToRel(<, Nat))
  BY NatLessThanWellFounded, WFMin, Zenon
<1>2. ASSUME NEW m \in 0 .. x - 1, m \in S PROVE FALSE
  <2>1. m \in Nat /\ x \in Nat /\ m < x
    BY <1>2
  <2>2. <<m, x>> \in OpToRel(<, Nat)
    BY <2>1 DEF OpToRel
  <2> QED
    BY <1>1, <1>2, <2>2
<1> QED
  BY <1>2

-----------------------------------------------------------------------------
(* Averages: sums of samples *)

\* The sums of the first samples of a sequence, up to n of them
Partial(s, n, g) ==
  /\ g \in [0 .. n -> Int] /\ g[0] = 0
  /\ \A k \in 1 .. n : g[k] = g[k - 1] + s[k]

\* A sequence of integers has partial sums.
LEMMA PartialSumsExist ==
  ASSUME NEW s \in Seq(Int), NEW n \in 0 .. Len(s)
  PROVE  \E g : Partial(s, n, g)
<1> DEFINE Bad == {k \in Nat : k <= Len(s) /\ ~\E g : Partial(s, k, g)}
<1>1. Len(s) \in Nat /\ \A k \in 1 .. Len(s) : s[k] \in Int
  BY LenProperties, ElementOfSeq
<1>2. ASSUME Bad # {} PROVE FALSE
  <2>1. PICK k \in Bad : \A j \in 0 .. k - 1 : j \notin Bad
    BY <1>2, LeastNumber
  <2>2. k \in Nat /\ k <= Len(s) /\ ~\E g : Partial(s, k, g)
    BY <2>1
  <2>3. k # 0
    <3>1. 0 .. 0 = {0} /\ 1 .. 0 = {}
      OBVIOUS
    <3>2. Partial(s, 0, [j \in 0 .. 0 |-> 0])
      BY <3>1 DEF Partial
    <3> QED
      BY <2>2, <3>2
  <2>4. PICK g : Partial(s, k - 1, g)
    <3>1. k - 1 \in 0 .. k - 1 /\ k - 1 \in Nat /\ k - 1 <= Len(s)
      BY <1>1, <2>2, <2>3
    <3> QED
      BY <2>1, <3>1
  <2> DEFINE h == [j \in 0 .. k |-> IF j = k THEN g[k - 1] + s[k] ELSE g[j]]
  <2>5. /\ \A j \in 0 .. k - 1 : g[j] \in Int
        /\ g[0] = 0 /\ \A j \in 1 .. k - 1 : g[j] = g[j - 1] + s[j]
    BY <2>4 DEF Partial
  <2>6. k - 1 \in 0 .. k - 1 /\ k \in 1 .. Len(s) /\ s[k] \in Int
    BY <1>1, <2>2, <2>3
  <2>7. \A j \in 0 .. k : j # k => j \in 0 .. k - 1
    BY <2>2
  <2>8. h \in [0 .. k -> Int]
    BY <2>5, <2>6, <2>7
  <2>9. h[0] = 0 /\ \A j \in 1 .. k : h[j] = h[j - 1] + s[j]
    <3>1. h[0] = 0
      BY <2>2, <2>3, <2>5
    <3>2. ASSUME NEW j \in 1 .. k PROVE h[j] = h[j - 1] + s[j]
      <4>1. j \in 0 .. k /\ j - 1 \in 0 .. k /\ j - 1 # k
        BY <2>2
      <4>2. CASE j = k
        BY <4>1, <4>2
      <4>3. CASE j # k
        <5>1. j \in 1 .. k - 1
          BY <2>2, <4>3
        <5> QED
          BY <2>5, <4>1, <4>3, <5>1
      <4> QED
        BY <4>2, <4>3
    <3> QED
      BY <3>1, <3>2
  <2> HIDE DEF h
  <2>10. Partial(s, k, h)
    BY <2>8, <2>9 DEF Partial
  <2> QED
    BY <2>2, <2>10
<1>3. n \in Nat /\ n <= Len(s)
  BY <1>1
<1> QED
  BY <1>2, <1>3

\* Partial sums are unique: the sum is the last of them.
LEMMA SumIsLast ==
  ASSUME NEW s \in Seq(Int), NEW g, Partial(s, Len(s), g)
  PROVE  Average!Sum(s) = g[Len(s)]
<1> DEFINE n == Len(s)
           Sums(h) == h = [k \in 0 .. n |-> IF k = 0 THEN 0 ELSE h[k - 1] + s[k]]
           upTo == CHOOSE h : Sums(h)
<1>1. n \in Nat
  BY LenProperties
<1>2. Average!Sum(s) = upTo[n]
  BY DEF Average!Sum
<1> HIDE DEF n
<1>3. Sums(g)
  <2>1. g = [k \in 0 .. n |-> g[k]]
    BY DEF Partial, n
  <2>2. \A k \in 0 .. n : g[k] = IF k = 0 THEN 0 ELSE g[k - 1] + s[k]
    <3>1. TAKE k \in 0 .. n
    <3>2. k # 0 => k \in 1 .. n
      BY <1>1
    <3> QED
      BY <3>2 DEF Partial, n
  <2> QED
    BY <2>1, <2>2
<1> HIDE DEF Sums
<1>4. Sums(upTo)
  BY <1>3
<1> HIDE DEF upTo
<1> DEFINE Bad == {k \in Nat : k <= n /\ upTo[k] # g[k]}
<1>5. ASSUME Bad # {} PROVE FALSE
  <2>1. PICK k \in Bad : \A j \in 0 .. k - 1 : j \notin Bad
    BY <1>5, LeastNumber
  <2>2. k \in 0 .. n /\ upTo[k] # g[k]
    BY <1>1, <2>1
  <2>3. /\ upTo[k] = IF k = 0 THEN 0 ELSE upTo[k - 1] + s[k]
        /\ g[k] = IF k = 0 THEN 0 ELSE g[k - 1] + s[k]
    BY <1>3, <1>4, <2>2 DEF Sums
  <2>4. k # 0 => upTo[k - 1] = g[k - 1]
    <3>1. k # 0 => k - 1 \in 0 .. k - 1 /\ k - 1 \in Nat /\ k - 1 <= n
      BY <1>1, <2>2
    <3> QED
      BY <2>1, <3>1
  <2> QED
    BY <2>2, <2>3, <2>4
<1>6. upTo[n] = g[n]
  BY <1>1, <1>5
<1> QED
  BY <1>2, <1>6 DEF n

\* The sum grows with a sample at the end and shrinks with one that leaves at the front.
LEMMA SumSteps ==
  ASSUME NEW s \in Seq(Int)
  PROVE  /\ Average!Sum(s) \in Int /\ (s = <<>> => Average!Sum(s) = 0)
         /\ \A v \in Int : Average!Sum(Append(s, v)) = Average!Sum(s) + v
         /\ s # <<>> => Average!Sum(Tail(s)) = Average!Sum(s) - Head(s)
<1>1. PICK n : n = Len(s)
  OBVIOUS
<1>2. n \in Nat /\ \A k \in 1 .. n : s[k] \in Int
  BY <1>1, LenProperties, ElementOfSeq
<1>3. PICK g : Partial(s, n, g)
  BY <1>1, <1>2, PartialSumsExist
<1>4. /\ g \in [0 .. n -> Int] /\ g[0] = 0
      /\ \A k \in 1 .. n : g[k] = g[k - 1] + s[k]
      /\ \A k \in 0 .. n : g[k] \in Int
  BY <1>3 DEF Partial
<1>5. Average!Sum(s) = g[n] /\ g[n] \in Int
  BY <1>1, <1>2, <1>3, <1>4, SumIsLast
<1>6. s = <<>> => g[n] = 0
  BY <1>1, <1>4, EmptySeq
<1>7. ASSUME NEW v \in Int PROVE Average!Sum(Append(s, v)) = g[n] + v
  <2>1. PICK t : t = Append(s, v)
    OBVIOUS
  <2>2. /\ t \in Seq(Int) /\ Len(t) = n + 1 /\ t[n + 1] = v
        /\ \A k \in 1 .. n : t[k] = s[k]
    BY <1>1, <2>1, AppendProperties
  <2> DEFINE h == [k \in 0 .. n + 1 |-> IF k = n + 1 THEN g[n] + v ELSE g[k]]
  <2>3. h \in [0 .. n + 1 -> Int]
    BY <1>2, <1>4, <1>5
  <2>4. h[0] = 0
    BY <1>2, <1>4
  <2>5. ASSUME NEW k \in 1 .. n + 1 PROVE h[k] = h[k - 1] + t[k]
    <3>1. k \in 0 .. n + 1 /\ k - 1 \in 0 .. n + 1 /\ k - 1 # n + 1
      BY <1>2
    <3>2. CASE k = n + 1
      BY <1>2, <2>2, <3>1, <3>2
    <3>3. CASE k # n + 1
      <4>1. k \in 1 .. n
        BY <1>2, <3>3
      <4> QED
        BY <1>4, <2>2, <3>1, <3>3, <4>1
    <3> QED
      BY <3>2, <3>3
  <2>6. h[n + 1] = g[n] + v
    BY <1>2
  <2> HIDE DEF h
  <2>7. Partial(t, Len(t), h)
    BY <2>2, <2>3, <2>4, <2>5 DEF Partial
  <2> QED
    BY <2>1, <2>2, <2>6, <2>7, SumIsLast
<1>8. ASSUME s # <<>> PROVE Average!Sum(Tail(s)) = g[n] - Head(s)
  <2>1. PICK t : t = Tail(s)
    OBVIOUS
  <2>2. /\ t \in Seq(Int) /\ Len(t) = n - 1
        /\ \A k \in 1 .. n - 1 : t[k] = s[k + 1]
    BY <1>1, <1>8, <2>1, HeadTailProperties
  <2>3. n # 0 /\ Head(s) = s[1]
    BY <1>1, <1>8, EmptySeq
  <2>4. g[1] = Head(s) /\ Head(s) \in Int
    <3>1. 1 \in 1 .. n /\ 1 - 1 = 0
      BY <1>2, <2>3
    <3>2. s[1] \in Int /\ g[1] = g[0] + s[1]
      BY <1>2, <1>4, <3>1
    <3> QED
      BY <1>4, <2>3, <3>2
  <2> DEFINE h == [k \in 0 .. n - 1 |-> g[k + 1] - Head(s)]
  <2>5. \A k \in 0 .. n - 1 : k + 1 \in 0 .. n
    BY <1>2
  <2>6. h \in [0 .. n - 1 -> Int]
    BY <1>4, <2>4, <2>5
  <2>7. h[0] = 0
    BY <1>2, <2>3, <2>4
  <2>8. ASSUME NEW k \in 1 .. n - 1 PROVE h[k] = h[k - 1] + t[k]
    <3>1. k \in 0 .. n - 1 /\ k - 1 \in 0 .. n - 1 /\ k + 1 \in 1 .. n /\ k \in 0 .. n
          /\ k - 1 + 1 = k /\ k + 1 - 1 = k
      BY <1>2
    <3>2. g[k + 1] = g[k] + s[k + 1] /\ g[k] \in Int /\ s[k + 1] \in Int /\ t[k] = s[k + 1]
      <4>1. PICK j : j = k + 1
        OBVIOUS
      <4>2. j \in 1 .. n /\ j - 1 = k
        BY <3>1, <4>1
      <4>3. g[j] = g[k] + s[j]
        BY <1>4, <4>2
      <4> QED
        BY <1>2, <1>4, <2>2, <3>1, <4>1, <4>2, <4>3
    <3>3. h[k] = g[k + 1] - Head(s) /\ h[k - 1] = g[k] - Head(s)
      BY <3>1
    <3> QED
      BY <2>4, <3>2, <3>3
  <2>9. h[n - 1] = g[n] - Head(s)
    BY <1>2, <2>3
  <2> HIDE DEF h
  <2>10. Partial(t, Len(t), h)
    BY <2>2, <2>6, <2>7, <2>8 DEF Partial
  <2> QED
    BY <2>1, <2>2, <2>9, <2>10, SumIsLast
<1> QED
  BY <1>5, <1>6, <1>7, <1>8

-----------------------------------------------------------------------------
(* Averages: numbers *)

\* Fractions that are equal have the same whole part.
LEMMA SameRatio ==
  ASSUME NEW p \in Int, NEW q \in Nat \ {0}, NEW S \in Int, NEW n \in Nat \ {0}, p * n = q * S
  PROVE  Average!Quotient(p, q) = Average!Quotient(S, n)
<1>1. ASSUME NEW a \in Int, NEW b \in Int, a * n = q * b PROVE a \div q = b \div n
  <2>1. PICK d \in Int : q * d <= a /\ a < q * (d + 1)
    <3>1. a \div q \in Int /\ q * (a \div q) <= a /\ a < q * (a \div q + 1)
      OBVIOUS
    <3> QED
      BY <3>1
  <2>2. a \div q = d
    BY <2>1
  <2>3. n * d <= b
    BY <1>1, <2>1
  <2>4. b < n * (d + 1)
    <3>1. PICK c \in Int : c = d + 1
      BY <2>1
    <3>2. a < q * c
      BY <2>1, <3>1
    <3>3. a * n < (q * c) * n
      BY <3>2
    <3>4. q * b < q * (n * c)
      BY <1>1, <3>3
    <3>5. b < n * c
      BY ONLY <3>4, q \in Nat \ {0}, b \in Int, n * c \in Int
    <3> QED
      BY <3>1, <3>5
  <2>5. b \div n = d
    BY <2>1, <2>3, <2>4
  <2> QED
    BY <2>2, <2>5
<1>2. (-p) * n = q * (-S)
  OBVIOUS
<1>3. p < 0 <=> S < 0
  <2>1. p < 0 => S < 0
    <3>1. p < 0 => p * n < 0
      OBVIOUS
    <3>2. p < 0 => q * S < 0
      BY <3>1
    <3>3. q * S < 0 => S < 0
      OBVIOUS
    <3> QED
      BY <3>2, <3>3
  <2>2. S < 0 => p < 0
    <3>1. S < 0 => q * S < 0
      OBVIOUS
    <3>2. S < 0 => p * n < 0
      BY <3>1
    <3>3. p * n < 0 => p < 0
      OBVIOUS
    <3> QED
      BY <3>2, <3>3
  <2> QED
    BY <2>1, <2>2
<1>4. p \div q = S \div n
  BY <1>1
<1>5. (-p) \div q = (-S) \div n
  <2>1. PICK a \in Int, b \in Int : a = -p /\ b = -S
    OBVIOUS
  <2>2. a * n = q * b
    BY <1>2, <2>1
  <2>3. a \div q = b \div n
    BY <1>1, <2>2
  <2> QED
    BY <2>1, <2>3
<1> QED
  BY <1>3, <1>4, <1>5 DEF Average!Quotient

\* A natural number less than the modulus is its own remainder.
LEMMA Remainders ==
  ASSUME NEW x \in Nat, NEW M \in Nat, x < M
  PROVE  x % M = x
  OBVIOUS

\* T has what a natural number that it has is larger than.
LEMMA SmallerFits ==
  ASSUME Average!AverageAssumption, NEW x \in Nat, Average!AsT(x) = x
  PROVE  /\ x < Modulus /\ x < SizeModulus
         /\ \A y \in 0 .. x : Average!AsT(y) = y
<1>1. Modulus \in Nat \ {0} /\ SizeModulus \in Nat /\ Modulus <= SizeModulus
  BY DEF Average!AverageAssumption
<1>2. PICK r : r = x % Modulus
  OBVIOUS
<1>3. r \in 0 .. Modulus - 1
  BY <1>1, <1>2
<1>4. x = IF signed /\ 2 * r >= Modulus THEN r - Modulus ELSE r
  BY <1>2 DEF Average!AsT
<1>5. ~(signed /\ 2 * r >= Modulus) /\ x = r
  BY <1>1, <1>3, <1>4
<1>6. ASSUME NEW y \in 0 .. x PROVE Average!AsT(y) = y
  <2>1. y \in Nat /\ y < Modulus /\ y <= x
    BY <1>1, <1>3, <1>5
  <2>2. y % Modulus = y
    BY <1>1, <2>1, Remainders
  <2>3. ~(signed /\ 2 * y >= Modulus)
    BY <1>1, <1>5, <2>1
  <2> QED
    BY <2>2, <2>3 DEF Average!AsT
<1> QED
  BY <1>1, <1>3, <1>5, <1>6

-----------------------------------------------------------------------------
(* Averages: the invariant *)

\* The window is the end of the history, up to its size.
Windowed ==
  /\ Len(items_) = IF Len(all) > window_size_ THEN window_size_ ELSE Len(all)
  /\ \A i \in 1 .. Len(items_) : items_[i] = all[Len(all) - Len(items_) + i]

\* The window has the last samples, none of them negative in an unsigned T; the total is
\* their sum, unless an unsigned difference has been taken; the fraction is the mean of all.
AverageInv ==
  /\ signed \in BOOLEAN /\ wrapped \in BOOLEAN
  /\ all \in Seq(Samples) /\ items_ \in Seq(Samples)
  /\ n_ = Len(all) /\ n_ <= MaxSamples
  /\ Windowed
  /\ ~signed => \A i \in 1 .. Len(items_) : items_[i] \in 0 .. Modulus - 1
  /\ total \in Int /\ (~wrapped => total = Average!Sum(items_))
  /\ ca_[1] \in Int /\ ca_[2] \in Nat \ {0} /\ ca_[1] * n_ = ca_[2] * Average!Sum(all)

\* Samples are integers, and sequences of them have sums.
LEMMA SamplesAreIntegers ==
  ASSUME Average!AverageAssumption
  PROVE  /\ Samples \subseteq Int /\ (\A s \in Seq(Samples) : s \in Seq(Int))
         /\ window_size_ \in Nat \ {0} /\ MaxSamples \in Nat
         /\ Modulus \in Nat \ {0} /\ SizeModulus \in Nat /\ Modulus <= SizeModulus
<1>1. /\ Samples \subseteq Int /\ window_size_ \in Nat \ {0} /\ MaxSamples \in Nat
      /\ Modulus \in Nat \ {0} /\ SizeModulus \in Nat /\ Modulus <= SizeModulus
  BY DEF Average!AverageAssumption
<1>2. \A s \in Seq(Samples) : s \in Seq(Int)
  <2>1. TAKE s \in Seq(Samples)
  <2>2. PICK n : n = Len(s)
    OBVIOUS
  <2>3. n \in Nat /\ s \in [1 .. n -> Samples]
    BY <2>2, LenProperties
  <2>4. \A i \in 1 .. n : s[i] \in Int
    BY <1>1, <2>3
  <2>5. [i \in 1 .. n |-> s[i]] \in Seq(Int)
    BY <2>3, <2>4, IsASeq
  <2>6. s = [i \in 1 .. n |-> s[i]]
    BY <2>3
  <2> QED
    BY <2>5, <2>6
<1> QED
  BY <1>1, <1>2

\* The invariant holds initially.
LEMMA InitAverage == Average!AverageAssumption /\ Average!Init => AverageInv
<1> SUFFICES ASSUME Average!AverageAssumption, Average!Init PROVE AverageInv
  OBVIOUS
<1>1. items_ = <<>> /\ all = <<>> /\ n_ = 0 /\ total = 0 /\ ca_ = <<0, 1>> /\ signed \in BOOLEAN
      /\ wrapped = FALSE
  BY DEF Average!Init
<1>2. /\ <<>> \in Seq(Samples) /\ <<>> \in Seq(Int) /\ Len(<<>>) = 0 /\ 1 .. 0 = {}
      /\ window_size_ \in Nat \ {0} /\ MaxSamples \in Nat
  BY SamplesAreIntegers
<1>3. Average!Sum(<<>>) = 0
  BY <1>2, SumSteps
<1>4. Windowed
  BY <1>1, <1>2 DEF Windowed
<1>5. ca_[1] = 0 /\ ca_[2] = 1
  BY <1>1
<1>6. ca_[1] \in Int /\ ca_[2] \in Nat \ {0} /\ ca_[1] * n_ = ca_[2] * Average!Sum(all)
  BY <1>1, <1>3, <1>5
<1>7. n_ = Len(all) /\ n_ <= MaxSamples
  BY <1>1, <1>2
<1>8. total \in Int /\ total = Average!Sum(items_)
  BY <1>1, <1>3
<1>9. 1 .. Len(items_) = {}
  BY <1>1, <1>2
<1> QED
  BY <1>1, <1>2, <1>4, <1>6, <1>7, <1>8, <1>9 DEF AverageInv

\* A sample that comes moves the window by one.
LEMMA WindowSlides ==
  ASSUME Average!AverageAssumption, AverageInv, NEW v \in Samples, Average!Put(v)
  PROVE  /\ items_' \in Seq(Samples) /\ all' \in Seq(Samples) /\ Len(all') = Len(all) + 1
         /\ Windowed'
         /\ Len(items_) < window_size_ => items_' = Append(items_, v)
         /\ ~(Len(items_) < window_size_) =>
              Len(items_) = window_size_ /\ items_ # <<>> /\ items_' = Tail(Append(items_, v))
         /\ ~signed => \A i \in 1 .. Len(items_') : items_'[i] \in 0 .. Modulus - 1
<1>1. PICK n, m, w : n = Len(all) /\ m = Len(items_) /\ w = window_size_
  OBVIOUS
<1>2. /\ n \in Nat /\ m \in Nat /\ w \in Nat \ {0} /\ m = IF n > w THEN w ELSE n
      /\ all \in Seq(Samples) /\ items_ \in Seq(Samples)
      /\ \A i \in 1 .. m : items_[i] = all[n - m + i]
  BY <1>1, SamplesAreIntegers, LenProperties DEF AverageInv, Windowed
<1>3. PICK t : t = Append(items_, v)
  OBVIOUS
<1>4. /\ t \in Seq(Samples) /\ t # <<>> /\ Len(t) = m + 1 /\ t[m + 1] = v
      /\ \A i \in 1 .. m : t[i] = items_[i]
  <2>1. PICK s \in Seq(Samples) : s = items_ /\ t = Append(s, v) /\ m = Len(s)
    BY <1>1, <1>2, <1>3
  <2> QED
    BY <2>1, AppendProperties
<1>5. /\ all' \in Seq(Samples) /\ Len(all') = n + 1 /\ all'[n + 1] = v
      /\ \A i \in 1 .. n : all'[i] = all[i]
  <2>1. all' = Append(all, v)
    BY DEF Average!Put
  <2> QED
    BY <1>1, <1>2, <2>1, AppendProperties
<1>6. items_' = IF m + 1 > w THEN Tail(t) ELSE t
  BY <1>1, <1>3, <1>4 DEF Average!Put, Average!Slide
<1>7. ~signed => \A i \in 1 .. m + 1 : t[i] \in 0 .. Modulus - 1
  <2>1. ~signed => v \in 0 .. Modulus - 1
    <3>1. v = Average!AsT(v)
      BY DEF Average!Put
    <3>2. v \in Int /\ Modulus \in Nat \ {0}
      BY SamplesAreIntegers
    <3>3. v % Modulus \in 0 .. Modulus - 1
      BY <3>2
    <3> QED
      BY <3>1, <3>3 DEF Average!AsT
  <2>2. ~signed => \A i \in 1 .. m : items_[i] \in 0 .. Modulus - 1
    BY <1>1 DEF AverageInv
  <2>3. \A i \in 1 .. m + 1 : i \in 1 .. m \/ i = m + 1
    BY <1>2
  <2> QED
    BY <1>4, <2>1, <2>2, <2>3
<1>8. \A i \in 1 .. m + 1 : t[i] = all'[n - m + i]
  <2>1. TAKE i \in 1 .. m + 1
  <2>2. CASE i = m + 1
    <3>1. n - m + i = n + 1
      BY <1>2, <2>2
    <3> QED
      BY <1>4, <1>5, <2>2, <3>1
  <2>3. CASE i # m + 1
    <3>1. i \in 1 .. m /\ n - m + i \in 1 .. n
      BY <1>2, <2>3
    <3> QED
      BY <1>2, <1>4, <1>5, <3>1
  <2> QED
    BY <2>2, <2>3
<1>9. CASE m < w
  <2>1. items_' = t /\ ~(m + 1 > w) /\ m = n
    BY <1>2, <1>6, <1>9
  <2>2. Windowed'
    <3>1. Len(items_') = m + 1 /\ m + 1 = IF n + 1 > w THEN w ELSE n + 1
      BY <1>2, <1>4, <1>9, <2>1
    <3>2. \A i \in 1 .. m + 1 : n - m + i = (n + 1) - (m + 1) + i
      BY <1>2
    <3>3. \A i \in 1 .. m + 1 : t[i] = all'[(n + 1) - (m + 1) + i]
      BY <1>8, <3>2
    <3> QED
      BY <1>1, <1>5, <2>1, <3>1, <3>3 DEF Windowed
  <2> QED
    BY <1>1, <1>2, <1>3, <1>4, <1>5, <1>7, <1>9, <2>1, <2>2
<1>10. CASE ~(m < w)
  <2>1. items_' = Tail(t) /\ m = w /\ m # 0
    BY <1>2, <1>6, <1>10
  <2>2. /\ items_' \in Seq(Samples) /\ Len(items_') = m
        /\ \A i \in 1 .. m : items_'[i] = t[i + 1]
    <3>1. /\ Tail(t) \in Seq(Samples) /\ Len(Tail(t)) = Len(t) - 1
          /\ \A i \in 1 .. Len(Tail(t)) : Tail(t)[i] = t[i + 1]
      BY <1>4, HeadTailProperties
    <3>2. Len(t) - 1 = m
      BY <1>2, <1>4
    <3> QED
      BY <2>1, <3>1, <3>2
  <2>3. \A i \in 1 .. m : i + 1 \in 1 .. m + 1 /\ n - m + (i + 1) = (n + 1) - m + i
    BY <1>2
  <2>4. Windowed'
    <3>1. m = IF n + 1 > w THEN w ELSE n + 1
      BY <1>2, <2>1
    <3>2. \A i \in 1 .. m : items_'[i] = all'[(n + 1) - m + i]
      BY <1>8, <2>2, <2>3
    <3> QED
      BY <1>1, <1>5, <2>2, <3>1, <3>2 DEF Windowed
  <2>5. ~signed => \A i \in 1 .. m : items_'[i] \in 0 .. Modulus - 1
    BY <1>7, <2>2, <2>3
  <2>6. items_ # <<>>
    BY <1>1, <2>1
  <2> QED
    BY <1>1, <1>3, <1>5, <1>10, <2>1, <2>2, <2>4, <2>5, <2>6
<1> QED
  BY <1>9, <1>10

\* The total changes as the sum of the window does, unless an unsigned difference wraps.
LEMMA TotalKept ==
  ASSUME Average!AverageAssumption, AverageInv, NEW v \in Samples, Average!Put(v)
  PROVE  total' \in Int /\ (~wrapped' => total' = Average!Sum(items_)' /\ ~wrapped)
<1>1. /\ items_ \in Seq(Int) /\ items_ \in Seq(Samples) /\ v \in Int /\ total \in Int
      /\ Modulus \in Nat \ {0}
  BY SamplesAreIntegers DEF AverageInv
<1>2. PICK t : t = Append(items_, v)
  OBVIOUS
<1>3. t \in Seq(Int) /\ t # <<>>
  BY <1>1, <1>2, AppendProperties
<1>4. Average!Sum(t) = Average!Sum(items_) + v /\ Average!Sum(items_) \in Int
  BY <1>1, <1>2, SumSteps
<1>5. Average!Sum(items_)' = Average!Sum(items_')
  BY DEF Average!Sum
<1>6. wrapped' = (wrapped \/ (~signed /\ Len(items_) = window_size_ /\ v < Head(items_)))
  BY DEF Average!Put
<1>7. total' = Average!NextTotal(v)
  BY DEF Average!Put
<1>8. ~wrapped => total = Average!Sum(items_)
  BY DEF AverageInv
<1>9. CASE Len(items_) < window_size_
  <2>1. items_' = t /\ total' = Average!Sum(t)
    BY <1>2, <1>7, <1>9, WindowSlides DEF Average!NextTotal
  <2>2. total' = Average!Sum(items_)'
    BY <1>5, <2>1
  <2>3. total' \in Int
    BY <1>1, <1>4, <2>1
  <2>4. ~wrapped' => ~wrapped
    BY <1>6
  <2> QED
    BY <2>2, <2>3, <2>4
<1>10. CASE ~(Len(items_) < window_size_)
  <2>1. items_' = Tail(t) /\ items_ # <<>> /\ Len(items_) = window_size_
    BY <1>2, <1>10, WindowSlides
  <2>2. PICK h : h = Head(items_)
    OBVIOUS
  <2>3. /\ h \in Int /\ Head(t) = h /\ (~signed => h \in 0 .. Modulus - 1)
    <3>1. Len(items_) \in Nat \ {0} /\ h = items_[1] /\ 1 \in 1 .. Len(items_)
      BY <1>1, <2>1, <2>2, LenProperties, EmptySeq
    <3>2. h \in Int
      BY <1>1, <3>1, ElementOfSeq
    <3>3. Head(t) = t[1] /\ t[1] = items_[1]
      BY <1>1, <1>2, <1>3, <3>1, AppendProperties
    <3>4. ~signed => h \in 0 .. Modulus - 1
      BY <3>1 DEF AverageInv
    <3> QED
      BY <3>1, <3>2, <3>3, <3>4
  <2>4. Average!Sum(items_)' = Average!Sum(items_) + v - h
    <3>1. Average!Sum(Tail(t)) = Average!Sum(t) - Head(t)
      BY <1>3, SumSteps
    <3>2. Average!Sum(items_)' = Average!Sum(Tail(t))
      BY <1>5, <2>1
    <3> QED
      BY <1>1, <1>4, <2>3, <3>1, <3>2
  <2>5. PICK d : d = IF signed THEN v - h ELSE Average!AsT(v - h)
    OBVIOUS
  <2>6. total' = total + d
    BY <1>7, <1>10, <2>2, <2>5 DEF Average!NextTotal
  <2>7. d \in Int
    <3>1. (v - h) % Modulus \in Int
      BY <1>1, <2>3
    <3> QED
      BY <1>1, <2>3, <2>5, <3>1 DEF Average!AsT
  <2>8. ASSUME ~wrapped' PROVE d = v - h /\ ~wrapped
    <3>1. ~wrapped /\ (signed \/ v >= h)
      <4>1. ~wrapped /\ (signed \/ ~(v < h))
        BY <1>6, <2>1, <2>2, <2>8, Zenon
      <4> QED
        BY <1>1, <2>3, <4>1
    <3>2. CASE signed
      BY <2>5, <3>1, <3>2
    <3>3. CASE ~signed
      <4>1. v \in 0 .. Modulus - 1
        <5>1. v = Average!AsT(v) /\ v % Modulus \in 0 .. Modulus - 1
          BY <1>1 DEF Average!Put
        <5> QED
          BY <3>3, <5>1 DEF Average!AsT
      <4>2. v - h \in Nat /\ v - h < Modulus
        BY <1>1, <2>3, <3>1, <3>3, <4>1
      <4>3. (v - h) % Modulus = v - h
        BY <1>1, <4>2, Remainders
      <4> QED
        BY <2>5, <3>1, <3>3, <4>3 DEF Average!AsT
    <3> QED
      BY <3>2, <3>3
  <2> QED
    BY <1>1, <1>4, <1>8, <2>4, <2>6, <2>7, <2>8, <2>3
<1> QED
  BY <1>9, <1>10

\* Products of integers.
LEMMA Products ==
  ASSUME NEW p \in Int, NEW q \in Int, NEW n \in Int, NEW S \in Int, NEW v \in Int, p * n = q * S
  PROVE  /\ p * (n + 1) + (v * q - p) = q * (S + v)
         /\ (q * S) * n = (q * n) * S
  OBVIOUS

\* The cumulative average stays the mean of all samples.
LEMMA RatioKept ==
  ASSUME Average!AverageAssumption, AverageInv, NEW v \in Samples, Average!Put(v)
  PROVE  /\ ca_[1]' \in Int /\ ca_[2]' \in Nat \ {0}
         /\ ca_[1]' * n_' = ca_[2]' * Average!Sum(all)'
<1>1. PICK p, q, n, S : p = ca_[1] /\ q = ca_[2] /\ n = n_ /\ S = Average!Sum(all)
  OBVIOUS
<1>2. all \in Seq(Int) /\ v \in Int /\ n \in Nat
  BY <1>1, SamplesAreIntegers, LenProperties DEF AverageInv
<1>3. p \in Int /\ q \in Nat \ {0} /\ p * n = q * S /\ S \in Int
  BY <1>1, <1>2, SumSteps DEF AverageInv
<1>4. ca_' = <<p * (n + 1) + (v * q - p), q * (n + 1)>> /\ n_' = n + 1 /\ all' = Append(all, v)
  BY <1>1 DEF Average!Put, Average!NextAverage
<1>5. Average!Sum(all)' = Average!Sum(all')
  BY DEF Average!Sum
<1>6. Average!Sum(all)' = S + v
  BY <1>1, <1>2, <1>4, <1>5, SumSteps
<1>7. PICK T, N : T = S + v /\ N = n + 1
  OBVIOUS
<1>8. T \in Int /\ N \in Nat \ {0} /\ q \in Int /\ n \in Int
  BY <1>2, <1>3, <1>7
<1>9. p * (n + 1) + (v * q - p) = q * T /\ q * T \in Int
  BY <1>2, <1>3, <1>7, <1>8, Products
<1>10. (q * T) * N = (q * N) * T
  BY ONLY <1>8
<1>11. q * N \in Nat \ {0}
  BY <1>3, <1>8
<1>12. ca_[1]' = q * T /\ ca_[2]' = q * N
  BY <1>4, <1>7, <1>9
<1> QED
  BY <1>4, <1>6, <1>7, <1>9, <1>10, <1>11, <1>12

\* Every sample preserves the invariant.
LEMMA AverageStep ==
  Average!AverageAssumption /\ AverageInv /\ [Average!Next]_averageVars => AverageInv'
<1> SUFFICES ASSUME Average!AverageAssumption, AverageInv, [Average!Next]_averageVars
             PROVE  AverageInv'
  OBVIOUS
<1>1. ASSUME NEW v \in Samples, Average!Put(v) PROVE AverageInv'
  <2>1. /\ items_' \in Seq(Samples) /\ all' \in Seq(Samples) /\ Len(all') = Len(all) + 1
        /\ Windowed'
    BY <1>1, WindowSlides
  <2>2. ~signed => \A i \in 1 .. Len(items_') : items_'[i] \in 0 .. Modulus - 1
    BY <1>1, WindowSlides
  <2>3. signed' = signed /\ signed \in BOOLEAN /\ wrapped \in BOOLEAN
    BY <1>1 DEF Average!Put, AverageInv
  <2>4. wrapped' \in BOOLEAN
    BY <1>1 DEF Average!Put
  <2>5. n_' = Len(all') /\ n_' <= MaxSamples
    <3>1. n_ < MaxSamples /\ n_' = n_ + 1 /\ n_ = Len(all)
      BY <1>1 DEF Average!Put, AverageInv
    <3>2. n_ \in Nat /\ MaxSamples \in Nat
      BY <3>1, SamplesAreIntegers, LenProperties DEF AverageInv
    <3> QED
      BY <2>1, <3>1, <3>2
  <2>6. total' \in Int /\ (~wrapped' => total' = Average!Sum(items_)')
    BY <1>1, TotalKept
  <2>7. /\ ca_[1]' \in Int /\ ca_[2]' \in Nat \ {0}
        /\ ca_[1]' * n_' = ca_[2]' * Average!Sum(all)'
    BY <1>1, RatioKept
  <2> QED
    BY <2>1, <2>2, <2>3, <2>4, <2>5, <2>6, <2>7 DEF AverageInv
<1>2. ASSUME UNCHANGED averageVars PROVE AverageInv'
  <2>1. /\ signed' = signed /\ items_' = items_ /\ total' = total /\ ca_' = ca_
        /\ n_' = n_ /\ all' = all /\ wrapped' = wrapped
    BY <1>2 DEF averageVars
  <2>2. Average!Sum(items_)' = Average!Sum(items_') /\ Average!Sum(all)' = Average!Sum(all')
    BY DEF Average!Sum
  <2>3. Windowed'
    BY <2>1 DEF AverageInv, Windowed
  <2> QED
    BY <2>1, <2>2, <2>3 DEF AverageInv
<1> QED
  BY <1>1, <1>2 DEF Average!Next

\* A whole part is at most the sum.
LEMMA WholePart ==
  ASSUME NEW S \in Nat, NEW n \in Nat \ {0}
  PROVE  S \div n \in 0 .. S
<1>1. PICK d \in Int : d = S \div n /\ n * d <= S /\ S < n * (d + 1)
  OBVIOUS
<1>2. d >= 0
  <2>1. d < 0 => n * (d + 1) <= 0
    BY <1>1
  <2> QED
    BY <1>1, <2>1
<1>3. d <= S
  <2>1. d <= n * d
    BY <1>2
  <2> QED
    BY <1>1, <2>1
<1> QED
  BY <1>1, <1>2, <1>3

\* The window is the sequence of the last samples.
LEMMA WindowIsRecent ==
  ASSUME Average!AverageAssumption, AverageInv
  PROVE  Average!Recent = items_
<1>1. PICK n, m, w : n = Len(all) /\ m = Len(items_) /\ w = window_size_
  OBVIOUS
<1>2. /\ n \in Nat /\ m \in Nat /\ w \in Nat \ {0} /\ m = IF n > w THEN w ELSE n
      /\ all \in Seq(Samples) /\ items_ \in Seq(Samples)
      /\ \A i \in 1 .. m : items_[i] = all[n - m + i]
  BY <1>1, SamplesAreIntegers, LenProperties DEF AverageInv, Windowed
<1>3. PICK a : a = n - m + 1
  OBVIOUS
<1>4. a \in 1 .. n + 1 /\ n - a + 1 = m /\ a = IF n > w THEN n - w + 1 ELSE 1
  <2>1. CASE n > w
    BY <1>2, <1>3, <2>1
  <2>2. CASE ~(n > w)
    BY <1>2, <1>3, <2>2
  <2> QED
    BY <2>1, <2>2
<1>5. PICK r : r = SubSeq(all, a, n)
  OBVIOUS
<1>6. r \in Seq(Samples) /\ Len(r) = m /\ \A i \in 1 .. m : r[i] = all[a + i - 1]
  <2>1. \A i \in a .. n : all[i] \in Samples
    <3>1. \A i \in 1 .. n : all[i] \in Samples
      BY <1>1, <1>2, ElementOfSeq
    <3> QED
      BY <1>4, <3>1
  <2>2. a \in Int /\ n \in Int /\ (IF a <= n THEN n - a + 1 ELSE 0) = m
    BY <1>2, <1>4
  <2>3. /\ SubSeq(all, a, n) \in Seq(Samples)
        /\ Len(SubSeq(all, a, n)) = IF a <= n THEN n - a + 1 ELSE 0
        /\ \A i \in 1 .. n - a + 1 : SubSeq(all, a, n)[i] = all[a + i - 1]
    BY <2>1, <2>2, SubSeqProperties
  <2> QED
    BY <1>4, <1>5, <2>2, <2>3
<1>7. \A i \in 1 .. m : a + i - 1 = n - m + i
  BY <1>2, <1>3
<1>8. r = items_
  BY <1>1, <1>2, <1>6, <1>7, SeqEqual
<1>9. Average!Recent = r
  BY <1>1, <1>4, <1>5 DEF Average!Recent
<1> QED
  BY <1>8, <1>9

\* The invariant says what the averages promise.
LEMMA AverageImplied == Average!AverageAssumption /\ AverageInv => AveragesRight
<1> SUFFICES ASSUME Average!AverageAssumption, AverageInv PROVE AveragesRight
  OBVIOUS
<1>1. /\ items_ \in Seq(Samples) /\ items_ \in Seq(Int) /\ all \in Seq(Int)
      /\ window_size_ \in Nat \ {0} /\ MaxSamples \in Nat
  BY SamplesAreIntegers DEF AverageInv
<1>2. PICK m, n, w : m = Len(items_) /\ n = Len(all) /\ w = window_size_
  OBVIOUS
<1>3. m \in Nat /\ n \in Nat /\ w \in Nat \ {0} /\ m = (IF n > w THEN w ELSE n) /\ n_ = n
  BY <1>1, <1>2, LenProperties DEF AverageInv, Windowed
<1>4. Average!TypeOK
  <2>1. m <= w /\ n_ \in 0 .. MaxSamples
    BY <1>1, <1>3 DEF AverageInv
  <2> QED
    BY <1>1, <1>2, <2>1 DEF Average!TypeOK, AverageInv
<1>5. PICK S : S = Average!Sum(items_)
  OBVIOUS
<1>6. S \in Int /\ (items_ = <<>> => S = 0) /\ (items_ = <<>> <=> m = 0)
  BY <1>1, <1>2, <1>5, SumSteps, EmptySeq
<1>7. Average!Mean(Average!Recent) = IF items_ = <<>> THEN 0 ELSE Average!Quotient(S, m)
  BY <1>2, <1>5, WindowIsRecent DEF Average!Mean
<1>8. ASSUME Average!Sum(Average!Recent) >= 0,
             Average!AsT(Average!Sum(Average!Recent)) = Average!Sum(Average!Recent)
      PROVE  Average!Get = Average!Mean(Average!Recent)
  <2>1. S \in Nat /\ Average!AsT(S) = S
    BY <1>5, <1>6, <1>8, WindowIsRecent
  <2>2. S < SizeModulus /\ (\A y \in 0 .. S : Average!AsT(y) = y) /\ SizeModulus \in Nat
    BY <2>1, SmallerFits, SamplesAreIntegers
  <2>3. S % SizeModulus = S
    BY <2>1, <2>2, Remainders
  <2>4. PICK by : by = IF m # 0 /\ m < w THEN m ELSE w
    OBVIOUS
  <2>5. by \in Nat \ {0} /\ (m # 0 => by = m)
    BY <1>3, <2>4
  <2>6. Average!Get = Average!AsT((Average!AsT(S) % SizeModulus) \div by)
    BY <1>2, <1>5, <2>4 DEF Average!Get
  <2>7. Average!Get = S \div by
    <3>1. S \div by \in 0 .. S
      BY <2>1, <2>5, WholePart
    <3> QED
      BY <2>1, <2>2, <2>3, <2>6, <3>1
  <2>8. S = 0 => S \div by = 0
    BY <2>5
  <2>9. ~(S < 0)
    BY <2>1
  <2> QED
    BY <1>6, <1>7, <2>5, <2>7, <2>8, <2>9 DEF Average!Quotient
<1>9. ~wrapped => Average!OptimizedGet = Average!Mean(Average!Recent)
  <2>1. ~wrapped => total = S
    BY <1>5 DEF AverageInv
  <2> QED
    BY <1>2, <1>7, <2>1 DEF Average!OptimizedGet
<1>10. n_ > 0 => Average!Quotient(ca_[1], ca_[2]) = Average!Mean(all)
  <2>1. SUFFICES ASSUME n_ > 0 PROVE Average!Quotient(ca_[1], ca_[2]) = Average!Mean(all)
    OBVIOUS
  <2>2. all # <<>> /\ n \in Nat \ {0}
    BY <1>1, <1>2, <1>3, <2>1, EmptySeq
  <2>3. PICK A : A = Average!Sum(all)
    OBVIOUS
  <2>4. A \in Int
    BY <1>1, <2>3, SumSteps
  <2>5. Average!Mean(all) = Average!Quotient(A, n)
    BY <1>2, <2>2, <2>3 DEF Average!Mean
  <2>6. ca_[1] \in Int /\ ca_[2] \in Nat \ {0} /\ ca_[1] * n = ca_[2] * A
    BY <1>3, <2>3 DEF AverageInv
  <2> QED
    BY <2>2, <2>4, <2>5, <2>6, SameRatio
<1> QED
  BY <1>4, <1>8, <1>9, <1>10 DEF AveragesRight, Average!AveragesRight

\* The averages are the means of the samples they name, but for the named cases: a sum that is
\* negative or no T, an unsigned difference that wrapped (sma.hpp, ca.hpp).
THEOREM AveragesAreRight == Average!Spec => []AveragesRight
<1>1. Average!AverageAssumption
  BY FlatAssumption
<1>2. Average!Init => AverageInv
  BY <1>1, InitAverage
<1>3. AverageInv /\ [Average!Next]_(Average!vars) => AverageInv'
  BY <1>1, AverageStep DEF Average!vars, averageVars
<1>4. AverageInv => AveragesRight
  BY <1>1, AverageImplied
<1> QED
  BY <1>2, <1>3, <1>4, PTL DEF Average!Spec

-----------------------------------------------------------------------------
(* Plugins: the order of identities *)

\* Of two versions, one is less unless they are equal.
LEMMA VersionsCompared ==
  ASSUME NEW v \in Int \X Int \X Int, NEW w \in Int \X Int \X Int
  PROVE  Plugin!VersionLess(v, w) <=> \/ v[1] < w[1]
                                      \/ v[1] = w[1] /\ v[2] < w[2]
                                      \/ v[1] = w[1] /\ v[2] = w[2] /\ v[3] < w[3]
<1>1. Plugin!VersionLess(v, w) <=>
        \/ v[1] < w[1] /\ \A j \in 1 .. 1 - 1 : v[j] = w[j]
        \/ v[2] < w[2] /\ \A j \in 1 .. 2 - 1 : v[j] = w[j]
        \/ v[3] < w[3] /\ \A j \in 1 .. 3 - 1 : v[j] = w[j]
  BY DEF Plugin!VersionLess
<1>2. /\ 1 .. 1 - 1 = {} /\ 1 .. 2 - 1 = {1} /\ 1 .. 3 - 1 = {1, 2}
  OBVIOUS
<1> QED
  BY <1>1, <1>2

\* No identity is less than itself, one of two is less than the other, and what is not less
\* than a second, which is not less than a third, is not less than the third.
LEMMA LessFacts ==
  ASSUME Plugin!LoaderAssumption, NEW a \in Identities, NEW b \in Identities, NEW c \in Identities
  PROVE  /\ ~Plugin!Less(a, a)
         /\ a # b => Plugin!Less(a, b) \/ Plugin!Less(b, a)
         /\ ~Plugin!Less(a, b) /\ ~Plugin!Less(b, c) => ~Plugin!Less(a, c)
<1> DEFINE Five(x) == x[1] \in Nat /\ x[2] \in Nat /\ x[3] \in Int \X Int \X Int
                      /\ x[3][1] \in Int /\ x[3][2] \in Int /\ x[3][3] \in Int
           Lower(x, y) == \/ x[1] < y[1] \/ x[2] < y[2] \/ x[3][1] < y[3][1]
                          \/ x[3][1] = y[3][1] /\ x[3][2] < y[3][2]
                          \/ x[3][1] = y[3][1] /\ x[3][2] = y[3][2] /\ x[3][3] < y[3][3]
           Alike(x, y) == /\ x[1] = y[1] /\ x[2] = y[2] /\ x[3][1] = y[3][1]
                          /\ x[3][2] = y[3][2] /\ x[3][3] = y[3][3]
<1>1. \A x \in Identities : Five(x)
  <2>1. Identities \subseteq Nat \X Nat \X (Int \X Int \X Int)
    BY DEF Plugin!LoaderAssumption
  <2>2. TAKE x \in Identities
  <2>3. x \in Nat \X Nat \X (Int \X Int \X Int)
    BY <2>1
  <2>4. x[1] \in Nat /\ x[2] \in Nat /\ x[3] \in Int \X Int \X Int
    BY <2>3
  <2> QED
    BY <2>4
<1>2. \A x, y \in Identities : Alike(x, y) => x = y
  <2>1. Identities \subseteq Nat \X Nat \X (Int \X Int \X Int)
    BY DEF Plugin!LoaderAssumption
  <2>2. SUFFICES ASSUME NEW x \in Identities, NEW y \in Identities, Alike(x, y) PROVE x = y
    OBVIOUS
  <2>3. x[3] \in Int \X Int \X Int /\ y[3] \in Int \X Int \X Int
    BY <1>1
  <2>4. x[3] = y[3]
    BY <2>2, <2>3
  <2>5. x \in Nat \X Nat \X (Int \X Int \X Int) /\ y \in Nat \X Nat \X (Int \X Int \X Int)
    BY <2>1
  <2> QED
    BY <2>2, <2>4, <2>5
<1>3. \A x, y \in Identities : Plugin!Less(x, y) <=> Lower(x, y)
  <2>1. TAKE x, y \in Identities
  <2>2. x[3] \in Int \X Int \X Int /\ y[3] \in Int \X Int \X Int
    BY <1>1
  <2>3. Plugin!VersionLess(x[3], y[3]) <=>
          \/ x[3][1] < y[3][1]
          \/ x[3][1] = y[3][1] /\ x[3][2] < y[3][2]
          \/ x[3][1] = y[3][1] /\ x[3][2] = y[3][2] /\ x[3][3] < y[3][3]
    BY <2>2, VersionsCompared
  <2> QED
    BY <2>3 DEF Plugin!Less
<1>4. Five(a) /\ Five(b) /\ Five(c)
  BY <1>1
<1>5. /\ ~Lower(a, a)
      /\ ~Lower(a, b) /\ ~Lower(b, a) => Alike(a, b)
      /\ ~Lower(a, b) /\ ~Lower(b, c) => ~Lower(a, c)
  BY <1>4
<1> HIDE DEF Five, Lower, Alike
<1> QED
  BY <1>2, <1>3, <1>5

-----------------------------------------------------------------------------
(* Plugins: the map *)

\* What the map has for an identity
Items == [id : Identities, path : Plugin!Entry, held : BOOLEAN]

\* A map of three has its middle at the root
MapOK(m) ==
  /\ m \in [order : Seq(Items), root : Nat] /\ Len(m.order) <= 3
  /\ Len(m.order) # 0 => m.root \in 1 .. Len(m.order)
  /\ Len(m.order) = 3 => m.root = 2

\* Each entry comes before the next, and not the other way round
Strict(m) ==
  \A i, j \in 1 .. Len(m.order) :
    i < j => Plugin!Less(m.order[i].id, m.order[j].id) /\ ~Plugin!Less(m.order[j].id, m.order[i].id)

\* What a map consists of
LEMMA MapFacts ==
  ASSUME NEW m, MapOK(m)
  PROVE  /\ Len(m.order) \in 0 .. 3 /\ DOMAIN m.order = 1 .. Len(m.order)
         /\ m.order \in Seq(Items) /\ m.root \in Nat
         /\ m.order = <<>> <=> Len(m.order) = 0
         /\ \A k \in 1 .. Len(m.order) : m.order[k] \in Items
         /\ \A k \in 1 .. Len(m.order) : /\ m.order[k].id \in Identities
                                         /\ m.order[k].path \in Plugin!Entry
                                         /\ m.order[k].held \in BOOLEAN
<1>1. m.order \in Seq(Items) /\ m.root \in Nat /\ Len(m.order) \in 0 .. 3
  <2>1. m.order \in Seq(Items) /\ m.root \in Nat /\ Len(m.order) <= 3
    BY DEF MapOK
  <2>2. Len(m.order) \in Nat
    BY <2>1, LenProperties
  <2>3. \A n \in Nat : n <= 3 => n \in 0 .. 3
    OBVIOUS
  <2>4. Len(m.order) \in 0 .. 3
    BY ONLY <2>1, <2>2, <2>3
  <2> QED
    BY ONLY <2>1, <2>4
<1>2. DOMAIN m.order = 1 .. Len(m.order) /\ \A k \in 1 .. Len(m.order) : m.order[k] \in Items
  BY <1>1, LenProperties, ElementOfSeq
<1>3. m.order = <<>> <=> Len(m.order) = 0
  BY <1>1, EmptySeq
<1> QED
  BY <1>1, <1>2, <1>3 DEF Items

\* A map that has a place has entries.
LEMMA SizeFromPlace ==
  ASSUME NEW n \in 0 .. 3, NEW k \in 1 .. n
  PROVE  n \in 1 .. 3 /\ n # 0 /\ k \in Nat
  OBVIOUS

\* find() returns an entry of the identity, or none.
LEMMA FoundRight ==
  ASSUME Plugin!LoaderAssumption, NEW m, MapOK(m), NEW id \in Identities, Plugin!Find(m, id) # 0
  PROVE  /\ Plugin!Find(m, id) \in 1 .. Len(m.order)
         /\ m.order[Plugin!Find(m, id)].id = id
<1> DEFINE n == Len(m.order)
           Low(k) == ~Plugin!Less(m.order[k].id, id)
           c == Plugin!Beside(m, Low(m.root))
           y == IF c # 0 /\ Low(c) THEN c ELSE IF Low(m.root) THEN m.root ELSE 0
<1>1. /\ Plugin!Find(m, id) = y /\ m.order # <<>> /\ y # 0
      /\ ~Plugin!Less(id, m.order[y].id)
  BY DEF Plugin!Find
<1>2. m.root \in 1 .. n
  BY <1>1, MapFacts DEF MapOK
<1>3. c # 0 => c \in 1 .. n
  BY MapFacts DEF Plugin!Beside
<1> HIDE DEF c
<1>4. y \in 1 .. n /\ Low(y)
  BY <1>1, <1>2, <1>3
<1> HIDE DEF y
<1>5. m.order[y].id \in Identities
  BY <1>4, MapFacts
<1> QED
  BY <1>1, <1>4, <1>5, LessFacts

\* In a strict map every identity of an entry is found.
LEMMA StrictFinds ==
  ASSUME Plugin!LoaderAssumption, NEW m, MapOK(m), Strict(m), NEW k \in 1 .. Len(m.order)
  PROVE  Plugin!Find(m, m.order[k].id) # 0
<1> DEFINE n == Len(m.order)
           r == m.root
           id == m.order[k].id
           Low(x) == ~Plugin!Less(m.order[x].id, id)
           c == Plugin!Beside(m, Low(r))
           y == IF c # 0 /\ Low(c) THEN c ELSE IF Low(r) THEN r ELSE 0
<1>1. m.order # <<>> /\ n \in 1 .. 3 /\ r \in 1 .. n /\ (n = 3 => r = 2) /\ k \in 1 .. n
  BY MapFacts, SizeFromPlace DEF MapOK
<1>2. Plugin!Find(m, id) = IF m.order # <<>> /\ y # 0 /\ ~Plugin!Less(id, m.order[y].id)
                           THEN y ELSE 0
  BY DEF Plugin!Find
<1>3. SUFFICES y # 0 /\ ~Plugin!Less(id, m.order[y].id)
  BY <1>1, <1>2
<1>4. /\ id \in Identities /\ ~Plugin!Less(id, id)
      /\ \A i \in 1 .. n : i < k => ~Low(i)
      /\ \A i \in 1 .. n : k < i => Low(i)
  BY MapFacts, LessFacts DEF Strict
<1>5. SUFFICES y = k
  BY <1>1, <1>4
<1>6. c = LET d == r + (IF Low(r) THEN -1 ELSE 1) IN IF d \in 1 .. n THEN d ELSE 0
  BY MapFacts DEF Plugin!Beside
<1> HIDE DEF c
<1>7. CASE k = r
  <2>1. Low(r)
    BY <1>4, <1>7
  <2>2. c = IF r - 1 \in 1 .. n THEN r - 1 ELSE 0
    BY <1>6, <2>1
  <2>3. c # 0 => ~Low(c)
    BY <1>1, <1>4, <1>7, <2>2
  <2> QED
    BY <1>7, <2>1, <2>3
<1>8. CASE k < r
  <2>1. Low(r) /\ k = r - 1
    BY <1>1, <1>4, <1>8
  <2>2. c = k
    BY <1>1, <1>6, <2>1
  <2> QED
    BY <1>1, <1>4, <2>2
<1>9. CASE k > r
  <2>1. ~Low(r) /\ k = r + 1
    BY <1>1, <1>4, <1>9
  <2>2. c = k
    BY <1>1, <1>6, <2>1
  <2> QED
    BY <1>1, <1>4, <2>2
<1> QED
  BY <1>1, <1>7, <1>8, <1>9

\* What a strict map finds is no entry twice: an identity has one place.
LEMMA StrictApart ==
  ASSUME Plugin!LoaderAssumption, NEW m, MapOK(m), Strict(m),
         NEW i \in 1 .. Len(m.order), NEW j \in 1 .. Len(m.order), m.order[i].id = m.order[j].id
  PROVE  i = j
<1>1. m.order[i].id \in Identities /\ i \in Int /\ j \in Int
  BY MapFacts
<1>2. ~Plugin!Less(m.order[i].id, m.order[i].id)
  BY <1>1, LessFacts
<1> QED
  BY <1>1, <1>2 DEF Strict

\* An entry is inserted at one place, the others keep their order.
LEMMA InsertShape ==
  ASSUME NEW m, MapOK(m), Len(m.order) < 3, NEW e \in Items
  PROVE  /\ MapOK(Plugin!Inserted(m, e))
         /\ Len(Plugin!Inserted(m, e).order) = Len(m.order) + 1
         /\ Plugin!Place(m, e.id) \in 1 .. Len(m.order) + 1
         /\ \A i \in 1 .. Len(m.order) + 1 :
              Plugin!Inserted(m, e).order[i] =
                IF i < Plugin!Place(m, e.id) THEN m.order[i]
                ELSE IF i = Plugin!Place(m, e.id) THEN e ELSE m.order[i - 1]
<1> DEFINE n == Len(m.order)
           p == Plugin!Place(m, e.id)
           o == Plugin!Inserted(m, e).order
<1>1. n \in 0 .. 2 /\ (n # 0 => m.root \in 1 .. n) /\ (m.order = <<>> <=> n = 0)
      /\ DOMAIN m.order = 1 .. n
  <2>1. n \in 0 .. 3 /\ n < 3 /\ (\A x \in 0 .. 3 : x < 3 => x \in 0 .. 2)
    BY MapFacts
  <2>2. n \in 0 .. 2
    BY ONLY <2>1
  <2> QED
    BY <2>2, MapFacts DEF MapOK
<1>2. p \in 1 .. n + 1
  <2> DEFINE After(k) == ~Plugin!Less(e.id, m.order[k].id)
             c == Plugin!Beside(m, ~After(m.root))
             parent == IF c = 0 THEN m.root ELSE c
  <2>1. p = IF m.order = <<>> THEN 1 ELSE IF After(parent) THEN parent + 1 ELSE parent
    BY DEF Plugin!Place
  <2>2. c # 0 => c \in 1 .. n
    BY <1>1 DEF Plugin!Beside
  <2> HIDE DEF c
  <2>3. n # 0 => parent \in 1 .. n
    BY <1>1, <2>2
  <2> HIDE DEF parent
  <2> QED
    BY <1>1, <2>1, <2>3
<1> HIDE DEF p
<1>3. o = (SubSeq(m.order, 1, p - 1) \o <<e>>) \o SubSeq(m.order, p, n)
  BY DEF Plugin!Inserted, p
<1>4. m.order \in Seq(Items)
  BY DEF MapOK
<1>5. /\ SubSeq(m.order, 1, p - 1) \in Seq(Items) /\ Len(SubSeq(m.order, 1, p - 1)) = p - 1
      /\ \A i \in 1 .. p - 1 : SubSeq(m.order, 1, p - 1)[i] = m.order[i]
  <2>1. \A i \in 1 .. p - 1 : m.order[i] \in Items
    BY <1>1, <1>2, MapFacts
  <2> QED
    BY <1>1, <1>2, <2>1, SubSeqProperties
<1>6. /\ SubSeq(m.order, p, n) \in Seq(Items) /\ Len(SubSeq(m.order, p, n)) = n - p + 1
      /\ \A i \in 1 .. n - p + 1 : SubSeq(m.order, p, n)[i] = m.order[p + i - 1]
  <2>1. \A i \in p .. n : m.order[i] \in Items
    BY <1>1, <1>2, MapFacts
  <2> QED
    BY <1>1, <1>2, <2>1, SubSeqProperties
<1> DEFINE a == SubSeq(m.order, 1, p - 1)
           b == SubSeq(m.order, p, n)
<1>7. <<e>> \in Seq(Items) /\ Len(<<e>>) = 1 /\ <<e>>[1] = e
  OBVIOUS
<1> HIDE DEF a, b
<1>8. /\ a \o <<e>> \in Seq(Items) /\ Len(a \o <<e>>) = p
      /\ \A i \in 1 .. p : (a \o <<e>>)[i] = IF i < p THEN m.order[i] ELSE e
  <2>1. a \in Seq(Items) /\ Len(a) = p - 1 /\ \A i \in 1 .. p - 1 : a[i] = m.order[i]
    BY <1>5 DEF a
  <2>2. /\ a \o <<e>> \in Seq(Items) /\ Len(a \o <<e>>) = Len(a) + Len(<<e>>)
        /\ \A i \in 1 .. Len(a) + Len(<<e>>) :
             (a \o <<e>>)[i] = IF i <= Len(a) THEN a[i] ELSE <<e>>[i - Len(a)]
    BY <1>7, <2>1, ConcatProperties
  <2>3. /\ Len(a) + Len(<<e>>) = p
        /\ \A i \in 1 .. p : (i <= Len(a) <=> i < p) /\ (~(i < p) => i - Len(a) = 1)
    BY <1>2, <1>7, <2>1
  <2>4. \A i \in 1 .. p : i < p => i \in 1 .. p - 1
    BY <1>2
  <2> QED
    BY <1>7, <2>1, <2>2, <2>3, <2>4
<1>9. /\ o \in Seq(Items) /\ Len(o) = n + 1
      /\ \A i \in 1 .. n + 1 : o[i] = IF i < p THEN m.order[i]
                                      ELSE IF i = p THEN e ELSE m.order[i - 1]
  <2>1. b \in Seq(Items) /\ Len(b) = n - p + 1 /\ \A i \in 1 .. n - p + 1 : b[i] = m.order[p + i - 1]
    BY <1>6 DEF b
  <2>2. PICK c \in Seq(Items) : c = a \o <<e>>
    BY <1>8
  <2>3. p + (n - p + 1) = n + 1 /\ \A i \in 1 .. n + 1 : i > p => /\ i - p \in 1 .. n - p + 1
                                                                 /\ p + (i - p) - 1 = i - 1
    BY <1>1, <1>2
  <2>4. /\ c \o b \in Seq(Items) /\ Len(c \o b) = Len(c) + Len(b)
        /\ \A i \in 1 .. Len(c) + Len(b) :
             (c \o b)[i] = IF i <= Len(c) THEN c[i] ELSE b[i - Len(c)]
    BY <2>1, <2>2, ConcatProperties
  <2>5. o = c \o b /\ Len(c) = p /\ \A i \in 1 .. p : c[i] = IF i < p THEN m.order[i] ELSE e
    BY <1>3, <1>8, <2>2 DEF a, b
  <2> HIDE DEF o
  <2> QED
    BY <1>1, <1>2, <2>1, <2>3, <2>4, <2>5
<1>10. MapOK(Plugin!Inserted(m, e))
  <2>1. Plugin!Inserted(m, e) =
          [order |-> o, root |-> CASE n = 0 -> 1 [] n = 1 -> IF p = 1 THEN 2 ELSE 1 [] OTHER -> 2]
    BY DEF Plugin!Inserted, p
  <2>2. Plugin!Inserted(m, e).root = IF n = 0 THEN 1 ELSE IF n = 1 /\ p # 1 THEN 1 ELSE 2
    BY <1>1, <2>1
  <2> QED
    BY <1>1, <1>2, <1>9, <2>1, <2>2 DEF MapOK
<1> QED
  BY <1>2, <1>9, <1>10 DEF p

\* One entry is erased, the others keep their order.
LEMMA EraseShape ==
  ASSUME NEW m, MapOK(m), NEW k \in 1 .. Len(m.order)
  PROVE  /\ MapOK(Plugin!Erased(m, k))
         /\ Len(Plugin!Erased(m, k).order) = Len(m.order) - 1
         /\ \A i \in 1 .. Len(m.order) - 1 :
              Plugin!Erased(m, k).order[i] = IF i < k THEN m.order[i] ELSE m.order[i + 1]
<1> DEFINE n == Len(m.order)
           o == Plugin!Erased(m, k).order
           a == SubSeq(m.order, 1, k - 1)
           b == SubSeq(m.order, k + 1, n)
<1>1. n \in 1 .. 3 /\ k \in 1 .. n
  <2>1. n \in 0 .. 3
    BY MapFacts
  <2> QED
    BY <2>1, SizeFromPlace
<1>2. o = a \o b /\ Plugin!Erased(m, k) = [order |-> o, root |-> IF n = 3 /\ k # 1 THEN 2 ELSE 1]
  BY DEF Plugin!Erased
<1>3. a \in Seq(Items) /\ Len(a) = k - 1 /\ \A i \in 1 .. k - 1 : a[i] = m.order[i]
  <2>1. \A i \in 1 .. k - 1 : m.order[i] \in Items
    BY <1>1, MapFacts
  <2> QED
    BY <1>1, <2>1, SubSeqProperties
<1>4. b \in Seq(Items) /\ Len(b) = n - k /\ \A i \in 1 .. n - k : b[i] = m.order[k + i]
  <2>1. \A i \in k + 1 .. n : m.order[i] \in Items
    BY <1>1, MapFacts
  <2>2. k + 1 \in Int /\ n \in Int
    BY <1>1
  <2>3. /\ b \in Seq(Items) /\ Len(b) = IF k + 1 <= n THEN n - (k + 1) + 1 ELSE 0
        /\ \A i \in 1 .. n - (k + 1) + 1 : b[i] = m.order[(k + 1) + i - 1]
    BY <2>1, <2>2, SubSeqProperties
  <2>4. /\ n - (k + 1) + 1 = n - k /\ (IF k + 1 <= n THEN n - (k + 1) + 1 ELSE 0) = n - k
        /\ \A i \in 1 .. n - k : (k + 1) + i - 1 = k + i
    BY <1>1
  <2> HIDE DEF b
  <2> QED
    BY <2>3, <2>4
<1> HIDE DEF a, b
<1>5. /\ o \in Seq(Items) /\ Len(o) = n - 1
      /\ \A i \in 1 .. n - 1 : o[i] = IF i < k THEN m.order[i] ELSE m.order[i + 1]
  <2>1. a \in Seq(Items) /\ b \in Seq(Items)
    BY <1>3, <1>4
  <2>2. /\ a \o b \in Seq(Items) /\ Len(a \o b) = Len(a) + Len(b)
        /\ \A i \in 1 .. Len(a) + Len(b) : (a \o b)[i] = IF i <= Len(a) THEN a[i] ELSE b[i - Len(a)]
    BY <2>1, ConcatProperties
  <2>3. /\ (k - 1) + (n - k) = n - 1
        /\ \A i \in 1 .. n - 1 : i > k - 1 => /\ i - (k - 1) \in 1 .. n - k
                                              /\ k + (i - (k - 1)) = i + 1
    BY <1>1
  <2> HIDE DEF o
  <2> QED
    BY <1>1, <1>2, <1>3, <1>4, <2>2, <2>3
<1>6. MapOK(Plugin!Erased(m, k))
  <2> DEFINE r == IF n = 3 /\ k # 1 THEN 2 ELSE 1
  <2>1. r \in Nat /\ n - 1 <= 3 /\ (n - 1 # 0 => r \in 1 .. n - 1) /\ n - 1 # 3
    <3> HIDE DEF n
    <3>1. n = 1 \/ n = 2 \/ n = 3
      BY <1>1
    <3> QED
      BY <3>1
  <2> HIDE DEF o, r
  <2>2. Plugin!Erased(m, k) = [order |-> o, root |-> r]
    BY <1>2 DEF r
  <2>3. [order |-> o, root |-> r] \in [order : Seq(Items), root : Nat]
    BY <1>5, <2>1
  <2> QED
    BY <1>5, <2>1, <2>2, <2>3 DEF MapOK
<1> QED
  BY <1>5, <1>6

\* A map stays strict when an entry goes.
LEMMA EraseStrict ==
  ASSUME NEW m, MapOK(m), Strict(m), NEW k \in 1 .. Len(m.order)
  PROVE  Strict(Plugin!Erased(m, k))
<1> DEFINE n == Len(m.order)
           o == Plugin!Erased(m, k).order
           Old(i) == IF i < k THEN i ELSE i + 1
<1>1. n \in Nat /\ k \in 1 .. n
  BY MapFacts
<1>2. Len(o) = n - 1 /\ \A i \in 1 .. n - 1 : o[i] = m.order[Old(i)]
  BY EraseShape
<1>3. \A i, j \in 1 .. n - 1 : i < j => Old(i) \in 1 .. n /\ Old(j) \in 1 .. n /\ Old(i) < Old(j)
  BY <1>1
<1> HIDE DEF Old, o
<1>4. Strict(m) => \A i, j \in 1 .. n - 1 : i < j =>
        /\ Plugin!Less(m.order[Old(i)].id, m.order[Old(j)].id)
        /\ ~Plugin!Less(m.order[Old(j)].id, m.order[Old(i)].id)
  BY <1>3 DEF Strict
<1> QED
  BY <1>2, <1>4 DEF Strict, o

\* A new identity, of which each of the map's is less or which is less than it, but not both,
\* goes to the place where the map stays strict.
LEMMA InsertStrict ==
  ASSUME Plugin!LoaderAssumption, NEW m, MapOK(m), Strict(m), Len(m.order) < 3,
         NEW e \in Items, Plugin!Find(m, e.id) = 0,
         ~Plugin!Crossed({m.order[i].id : i \in DOMAIN m.order} \cup {e.id})
  PROVE  Strict(Plugin!Inserted(m, e))
<1> DEFINE n == Len(m.order)
           id == e.id
           r == m.root
           After(k) == ~Plugin!Less(id, m.order[k].id)
           p == Plugin!Place(m, id)
           o == Plugin!Inserted(m, e).order
<1>1. /\ n \in 0 .. 2 /\ (n # 0 => r \in 1 .. n) /\ (m.order = <<>> <=> n = 0)
      /\ DOMAIN m.order = 1 .. n /\ id \in Identities
      /\ \A k \in 1 .. n : m.order[k].id \in Identities
  <2>1. n \in 0 .. 3 /\ n < 3 /\ (\A x \in 0 .. 3 : x < 3 => x \in 0 .. 2)
    BY MapFacts
  <2>2. n \in 0 .. 2
    BY ONLY <2>1
  <2> QED
    BY <2>2, MapFacts DEF MapOK, Items
<1>2. \A k \in 1 .. n : After(k) <=> Plugin!Less(m.order[k].id, id)
  <2>1. TAKE k \in 1 .. n
  <2>2. m.order[k].id # id
    BY StrictFinds
  <2>3. ~(Plugin!Less(m.order[k].id, id) /\ Plugin!Less(id, m.order[k].id))
    BY <1>1 DEF Plugin!Crossed
  <2> QED
    BY <1>1, <2>2, <2>3, LessFacts
<1>3. \A i, j \in 1 .. n : i < j /\ After(j) => After(i)
  <2>1. SUFFICES ASSUME NEW i \in 1 .. n, NEW j \in 1 .. n, i < j, ~After(i) PROVE ~After(j)
    OBVIOUS
  <2>2. ~Plugin!Less(m.order[i].id, id) /\ ~Plugin!Less(m.order[j].id, m.order[i].id)
    BY <1>2, <2>1 DEF Strict
  <2>3. ~Plugin!Less(m.order[j].id, id)
    BY <1>1, <2>2, LessFacts
  <2> QED
    BY <1>2, <2>3
<1>4. /\ p \in 1 .. n + 1
      /\ \A k \in 1 .. n : k < p <=> After(k)
  <2> DEFINE c == Plugin!Beside(m, ~After(r))
             parent == IF c = 0 THEN r ELSE c
  <2>1. p = IF m.order = <<>> THEN 1 ELSE IF After(parent) THEN parent + 1 ELSE parent
    BY DEF Plugin!Place
  <2>2. c = IF After(r) THEN (IF r + 1 \in 1 .. n THEN r + 1 ELSE 0)
            ELSE (IF r - 1 \in 1 .. n THEN r - 1 ELSE 0)
    BY <1>1 DEF Plugin!Beside
  <2> HIDE DEF n, r, c, p, After
  <2>3. \/ n = 0
        \/ n = 1 /\ r = 1
        \/ n = 2 /\ r \in {1, 2}
    BY <1>1
  <2>4. CASE n = 0
    BY <1>1, <2>1, <2>4
  <2>5. CASE n = 1 /\ r = 1
    <3>1. c = 0
      BY <2>2, <2>5
    <3> QED
      BY <1>1, <2>1, <2>5, <3>1
  <2>6. CASE n = 2 /\ r = 1
    <3>1. c = IF After(1) THEN 2 ELSE 0
      BY <2>2, <2>6
    <3>2. After(2) => After(1)
      BY <1>3, <2>6
    <3>3. p = IF ~After(1) THEN 1 ELSE IF After(2) THEN 3 ELSE 2
      BY <1>1, <2>1, <2>6, <3>1
    <3> QED
      BY <2>6, <3>2, <3>3
  <2>7. CASE n = 2 /\ r = 2
    <3>1. c = IF After(2) THEN 0 ELSE 1
      BY <2>2, <2>7
    <3>2. After(2) => After(1)
      BY <1>3, <2>7
    <3>3. p = IF After(2) THEN 3 ELSE IF After(1) THEN 2 ELSE 1
      BY <1>1, <2>1, <2>7, <3>1
    <3> QED
      BY <2>7, <3>2, <3>3
  <2> QED
    BY <2>3, <2>4, <2>5, <2>6, <2>7
<1>5. Len(o) = n + 1 /\ \A i \in 1 .. n + 1 : o[i] = IF i < p THEN m.order[i]
                                                   ELSE IF i = p THEN e ELSE m.order[i - 1]
  BY InsertShape
<1>6. \A k \in 1 .. n :
        /\ k < p => Plugin!Less(m.order[k].id, id) /\ ~Plugin!Less(id, m.order[k].id)
        /\ ~(k < p) => Plugin!Less(id, m.order[k].id) /\ ~Plugin!Less(m.order[k].id, id)
  BY <1>2, <1>4
<1>7. \A i, j \in 1 .. n : i < j => /\ Plugin!Less(m.order[i].id, m.order[j].id)
                                    /\ ~Plugin!Less(m.order[j].id, m.order[i].id)
  BY DEF Strict
<1> HIDE DEF o, p, n, After
<1>8. ASSUME NEW i \in 1 .. n + 1, NEW j \in 1 .. n + 1, i < j
      PROVE  Plugin!Less(o[i].id, o[j].id) /\ ~Plugin!Less(o[j].id, o[i].id)
  <2>1. n \in Nat /\ p \in Int /\ i \in Int /\ j \in Int
    BY <1>1, <1>4
  <2>2. CASE i < p /\ j < p
    <3>1. i \in 1 .. n /\ j \in 1 .. n /\ o[i] = m.order[i] /\ o[j] = m.order[j]
      BY <1>4, <1>5, <2>1, <2>2
    <3> QED
      BY <1>7, <1>8, <3>1
  <2>3. CASE i < p /\ j = p
    <3>1. i \in 1 .. n /\ o[i] = m.order[i] /\ o[j] = e
      BY <1>4, <1>5, <2>1, <2>3
    <3> QED
      BY <1>6, <2>3, <3>1
  <2>4. CASE i < p /\ j > p
    <3>1. i \in 1 .. n /\ j - 1 \in 1 .. n /\ i < j - 1 /\ o[i] = m.order[i] /\ o[j] = m.order[j - 1]
      BY <1>4, <1>5, <2>1, <2>4
    <3> QED
      BY <1>7, <3>1
  <2>5. CASE i = p
    <3>1. j - 1 \in 1 .. n /\ ~(j - 1 < p) /\ o[i] = e /\ o[j] = m.order[j - 1]
      BY <1>4, <1>5, <1>8, <2>1, <2>5
    <3> QED
      BY <1>6, <3>1
  <2>6. CASE i > p
    <3>1. /\ i - 1 \in 1 .. n /\ j - 1 \in 1 .. n /\ i - 1 < j - 1
          /\ o[i] = m.order[i - 1] /\ o[j] = m.order[j - 1]
      BY <1>4, <1>5, <1>8, <2>1, <2>6
    <3> QED
      BY <1>7, <3>1
  <2> QED
    BY <1>8, <2>1, <2>2, <2>3, <2>4, <2>5, <2>6
<1> QED
  BY <1>5, <1>8 DEF Strict, o, n

\* A strict map has as many identities as entries.
LEMMA StrictIds ==
  ASSUME Plugin!LoaderAssumption, NEW m, MapOK(m), Strict(m)
  PROVE  Cardinality({m.order[i].id : i \in DOMAIN m.order}) = Len(m.order)
<1> DEFINE n == Len(m.order)
           S == {m.order[i].id : i \in DOMAIN m.order}
           f == [i \in 1 .. n |-> m.order[i].id]
<1>1. n \in Nat /\ DOMAIN m.order = 1 .. n
  BY MapFacts
<1>2. f \in Bijection(1 .. n, S)
  <2>1. f \in [1 .. n -> S]
    BY <1>1
  <2>2. \A i, j \in 1 .. n : f[i] = f[j] => i = j
    BY StrictApart
  <2>3. \A s \in S : \E i \in 1 .. n : f[i] = s
    BY <1>1
  <2> QED
    BY <2>1, <2>2, <2>3, Fun_IsBij
<1>3. IsFiniteSet(1 .. n) /\ Cardinality(1 .. n) = n
  BY <1>1, FS_Interval
<1> QED
  BY <1>2, <1>3, FS_Bijection, Fun_ExistsBij

-----------------------------------------------------------------------------
(* Plugins: how often a library is in the map *)

\* A set of places has the places of another one, from which one place is left out that may
\* be in it.
LEMMA Shifted ==
  ASSUME NEW n \in Nat, NEW p \in 1 .. n + 1,
         NEW S \in SUBSET (1 .. n), NEW T \in SUBSET (1 .. n + 1),
         \A i \in 1 .. n + 1 : i # p => (i \in T <=> (IF i < p THEN i ELSE i - 1) \in S)
  PROVE  Cardinality(T) = Cardinality(S) + (IF p \in T THEN 1 ELSE 0)
<1> DEFINE U == T \ {p}
           f == [i \in S |-> IF i < p THEN i ELSE i + 1]
<1>1. IsFiniteSet(S) /\ IsFiniteSet(T) /\ IsFiniteSet(U)
  <2>1. IsFiniteSet(1 .. n) /\ IsFiniteSet(1 .. n + 1)
    BY FS_Interval
  <2> QED
    BY <2>1, FS_Subset
<1>2. \A i \in S : f[i] \in U
  BY SMT
<1>3. \A i, j \in S : f[i] = f[j] => i = j
  OBVIOUS
<1>4. \A u \in U : \E i \in S : f[i] = u
  <2>1. TAKE u \in U
  <2>2. CASE u < p
    <3>1. u \in S
      BY <2>2
    <3> QED
      BY <2>2, <3>1
  <2>3. CASE ~(u < p)
    <3>1. u - 1 \in S /\ ~(u - 1 < p) /\ (u - 1) + 1 = u
      BY <2>3
    <3> QED
      BY <3>1
  <2> QED
    BY <2>2, <2>3
<1>5. f \in Bijection(S, U)
  <2>1. f \in [S -> U]
    BY <1>2
  <2> QED
    BY <1>3, <1>4, <2>1, Fun_IsBij
<1>6. Cardinality(U) = Cardinality(S)
  BY <1>1, <1>5, FS_Bijection, Fun_ExistsBij
<1>7. CASE p \in T
  BY <1>1, <1>6, <1>7, FS_RemoveElement, FS_CardinalityType
<1>8. CASE p \notin T
  <2>1. U = T
    BY <1>8
  <2>2. Cardinality(S) \in Nat
    BY <1>1, FS_CardinalityType
  <2>3. Cardinality(T) = Cardinality(S)
    BY <1>6, <2>1
  <2> QED
    BY ONLY <1>8, <2>2, <2>3
<1> QED
  BY <1>7, <1>8

\* How many entries of a map have a file
Count(m, f) == Cardinality({k \in DOMAIN m.order : m.order[k].path = f})

\* The loader counts as the theorems do.
LEMMA LoaderCounts == \A S : Plugin!Cardinality(S) = Cardinality(S)
  BY DEF Plugin!Cardinality, Cardinality

\* A file is counted when an entry has it.
LEMMA Counted ==
  ASSUME NEW m, MapOK(m), NEW f
  PROVE  /\ Count(m, f) \in Nat
         /\ \A k \in 1 .. Len(m.order) : m.order[k].path = f => Count(m, f) > 0
<1> DEFINE S == {k \in DOMAIN m.order : m.order[k].path = f}
<1>1. IsFiniteSet(S)
  <2>1. 1 \in Int /\ Len(m.order) \in Int /\ DOMAIN m.order = 1 .. Len(m.order)
    BY MapFacts
  <2>2. IsFiniteSet(1 .. Len(m.order))
    BY <2>1, FS_Interval
  <2>3. S \in SUBSET (1 .. Len(m.order))
    BY <2>1
  <2> QED
    BY <2>2, <2>3, FS_Subset
<1>2. Cardinality(S) \in Nat /\ (Cardinality(S) = 0 <=> S = {})
  BY <1>1, FS_CardinalityType, FS_EmptySet
<1>3. \A k \in 1 .. Len(m.order) : m.order[k].path = f => S # {}
  BY MapFacts
<1> HIDE DEF S
<1>4. Count(m, f) = Cardinality(S)
  BY DEF Count, S
<1> QED
  BY <1>2, <1>3, <1>4

\* A new entry counts for its file alone.
LEMMA CountInsert ==
  ASSUME NEW m, MapOK(m), Len(m.order) < 3, NEW e \in Items, NEW f
  PROVE  Count(Plugin!Inserted(m, e), f) = Count(m, f) + (IF e.path = f THEN 1 ELSE 0)
<1> DEFINE n == Len(m.order)
           p == Plugin!Place(m, e.id)
           o == Plugin!Inserted(m, e).order
           S == {k \in 1 .. n : m.order[k].path = f}
           T == {k \in 1 .. n + 1 : o[k].path = f}
<1>1. n \in Nat /\ p \in 1 .. n + 1
  BY MapFacts, InsertShape
<1>2. \A i \in 1 .. n + 1 : o[i] = IF i < p THEN m.order[i]
                                   ELSE IF i = p THEN e ELSE m.order[i - 1]
  BY InsertShape
<1>3. DOMAIN m.order = 1 .. n /\ DOMAIN o = 1 .. n + 1
  BY MapFacts, InsertShape
<1>4. Count(m, f) = Cardinality(S) /\ Count(Plugin!Inserted(m, e), f) = Cardinality(T)
  BY <1>3 DEF Count
<1> HIDE DEF n, p, o
<1>5. p \in T <=> e.path = f
  BY <1>1, <1>2
<1>6. \A i \in 1 .. n + 1 : i # p => (i \in T <=> (IF i < p THEN i ELSE i - 1) \in S)
  <2>1. TAKE i \in 1 .. n + 1
  <2>2. i < p => i \in 1 .. n /\ o[i] = m.order[i]
    BY <1>1, <1>2
  <2>3. ~(i < p) /\ i # p => i - 1 \in 1 .. n /\ o[i] = m.order[i - 1]
    BY <1>1, <1>2
  <2> QED
    BY <2>2, <2>3
<1>7. S \in SUBSET (1 .. n) /\ T \in SUBSET (1 .. n + 1)
  OBVIOUS
<1> HIDE DEF S, T
<1>8. Cardinality(T) = Cardinality(S) + (IF p \in T THEN 1 ELSE 0)
  BY <1>1, <1>6, <1>7, Shifted
<1> QED
  BY <1>4, <1>5, <1>8

\* An entry that goes counts for its file no more.
LEMMA CountErase ==
  ASSUME NEW m, MapOK(m), NEW k \in 1 .. Len(m.order), NEW f
  PROVE  Count(Plugin!Erased(m, k), f) = Count(m, f) - (IF m.order[k].path = f THEN 1 ELSE 0)
<1> DEFINE n == Len(m.order) - 1
           o == Plugin!Erased(m, k).order
           S == {i \in 1 .. n : o[i].path = f}
           T == {i \in 1 .. n + 1 : m.order[i].path = f}
<1>1. n \in Nat /\ k \in 1 .. n + 1 /\ Len(m.order) = n + 1
  <2>1. Len(m.order) \in 0 .. 3
    BY MapFacts
  <2>2. \A x \in 0 .. 3 : k \in 1 .. x => x - 1 \in Nat /\ x = x - 1 + 1
    OBVIOUS
  <2> QED
    BY <2>1, <2>2
<1>2. \A i \in 1 .. n : o[i] = IF i < k THEN m.order[i] ELSE m.order[i + 1]
  BY EraseShape
<1>3. DOMAIN m.order = 1 .. n + 1 /\ DOMAIN o = 1 .. n
  BY <1>1, MapFacts, EraseShape
<1>4. Count(m, f) = Cardinality(T) /\ Count(Plugin!Erased(m, k), f) = Cardinality(S)
  BY <1>3 DEF Count
<1>5. Count(Plugin!Erased(m, k), f) \in Nat
  BY EraseShape, Counted
<1> HIDE DEF n, o
<1>6. k \in T <=> m.order[k].path = f
  BY <1>1
<1>7. \A i \in 1 .. n + 1 : i # k => (i \in T <=> (IF i < k THEN i ELSE i - 1) \in S)
  <2>1. TAKE i \in 1 .. n + 1
  <2>2. i < k => i \in 1 .. n /\ o[i] = m.order[i]
    BY <1>1, <1>2
  <2>3. ~(i < k) /\ i # k => i - 1 \in 1 .. n /\ ~(i - 1 < k) /\ i - 1 + 1 = i
    BY <1>1
  <2>4. ~(i < k) /\ i # k => o[i - 1] = m.order[i]
    BY <1>2, <2>3
  <2> QED
    BY <2>2, <2>3, <2>4
<1>8. S \in SUBSET (1 .. n) /\ T \in SUBSET (1 .. n + 1)
  OBVIOUS
<1> HIDE DEF S, T
<1>9. Cardinality(T) = Cardinality(S) + (IF k \in T THEN 1 ELSE 0)
  BY ONLY <1>1, <1>7, <1>8, Shifted
<1> QED
  BY <1>4, <1>5, <1>6, <1>9

-----------------------------------------------------------------------------
(* Plugins: the invariant *)

\* A library is open for its plugins in the map and for those refused; each plugin has it.
LinkInv ==
  /\ mapped \in [Plugin!Entry -> Plugin!Contents]
  /\ refs \in [Plugin!Entry -> 0 .. MaxRefs] /\ refused \in [Plugin!Entry -> Nat]
  /\ MapOK(plugins_)
  /\ \A f \in Plugin!Entry : refs[f] = Count(plugins_, f) + refused[f]
  /\ \A k \in 1 .. Len(plugins_.order) :
       LET e == plugins_.order[k] IN
       /\ mapped[e.path] = Plugin!Library(e.id, TRUE)
       /\ e.held => pointer.path = e.path /\ ~pointer.gone

\* The map is sorted as long as no crossed identity has been loaded.
OrderInv == crossed \in BOOLEAN /\ (~crossed => Strict(plugins_))

\* The caller's pointer is of an entry, or it is none; it is bad once its library is closed.
PointerInv ==
  /\ pointer \in [path : 0 .. MaxEntries, locked : BOOLEAN, gone : BOOLEAN]
  /\ pointer.path = 0 => pointer = Plugin!NoPointer
  /\ pointer.path # 0 => (pointer.gone <=> refs[pointer.path] = 0)

\* The plugins of a namespace; 0 is any
PluginsOf(ns) == {f \in Plugin!Entry : files[f].is = "plugin" /\ ns \in {0, files[f].id[2]}}

\* As long as no file changes, the iterator has reported the plugins up to its position.
IteratorInv ==
  /\ files \in [Plugin!Entry -> Plugin!Contents]
  /\ DOMAIN it = {"pos", "at", "ns", "named", "quiet", "seen"}
  /\ it.pos \in 1 .. Plugin!End /\ it.ns \in Nat /\ it.named \in BOOLEAN /\ it.quiet \in BOOLEAN
  /\ it.at = Plugin!Nothing \/ (it.at.path \in Plugin!Entry /\ it.at.id \in Identities)
  /\ it.quiet =>
       /\ \A f \in Plugin!Entry : Plugin!Opened(f) = files[f]
       /\ it.named \/ Plugin!Start <= it.pos
       /\ it.seen \in Seq(Nat)
       /\ \A i, j \in 1 .. Len(it.seen) : i < j => it.seen[i] < it.seen[j]
       /\ it.named \/ Plugin!Start # Plugin!End =>
            {it.seen[i] : i \in 1 .. Len(it.seen)} =
              (IF it.named THEN {} ELSE {0})
              \cup {f \in PluginsOf(it.ns) : f <= it.pos /\ (it.named \/ f # Plugin!Start)}

\* All of it is inductive.
PluginInv == LinkInv /\ OrderInv /\ PointerInv /\ IteratorInv

\* What an entry may be.
LEMMA ContentsFacts ==
  ASSUME Plugin!LoaderAssumption
  PROVE  /\ \A c \in Plugin!Contents : c.is = "plugin" => c.id \in Identities
         /\ \A id \in Identities : /\ Plugin!Library(id, TRUE) \in Plugin!Contents
                                   /\ Plugin!Library(id, TRUE).is = "plugin"
                                   /\ Plugin!Library(id, TRUE).id = id
         /\ Plugin!Absent \in Plugin!Contents
         /\ \A id \in Identities : id[2] \in Nat
         /\ MaxEntries \in Nat /\ MaxRefs \in Nat
<1>1. /\ Identities # {} /\ Identities \subseteq Nat \X Nat \X (Int \X Int \X Int)
      /\ MaxEntries \in Nat /\ MaxRefs \in Nat
  BY DEF Plugin!LoaderAssumption
<1>2. (CHOOSE id \in Identities : TRUE) \in Identities
  BY <1>1
<1>3. \A c \in Plugin!Contents : c.is = "plugin" => c.id \in Identities
  BY <1>2 DEF Plugin!Contents, Plugin!Library, Plugin!Absent, Plugin!Other
<1>4. \A id \in Identities : /\ Plugin!Library(id, TRUE) \in Plugin!Contents
                             /\ Plugin!Library(id, TRUE).is = "plugin"
                             /\ Plugin!Library(id, TRUE).id = id
  BY DEF Plugin!Contents, Plugin!Library
<1>5. Plugin!Absent \in Plugin!Contents
  BY DEF Plugin!Contents
<1>6. \A id \in Identities : id[2] \in Nat
  BY <1>1
<1> QED
  BY <1>1, <1>3, <1>4, <1>5, <1>6

\* The invariant holds initially.
LEMMA InitPlugin == Plugin!LoaderAssumption /\ Plugin!Init => PluginInv
<1> SUFFICES ASSUME Plugin!LoaderAssumption, Plugin!Init PROVE PluginInv
  OBVIOUS
<1> USE DEF Plugin!Init
<1>1. plugins_.order = <<>> /\ plugins_.root = 1 /\ Len(plugins_.order) = 0 /\ MapOK(plugins_)
  <2>1. <<>> \in Seq(Items) /\ Len(<<>>) = 0
    OBVIOUS
  <2> QED
    BY <2>1 DEF Plugin!Empty, MapOK
<1>2. LinkInv
  <2>1. \A f : Count(plugins_, f) = 0
    <3>1. TAKE f
    <3>2. {k \in DOMAIN plugins_.order : plugins_.order[k].path = f} = {}
      BY <1>1
    <3> QED
      BY <3>2, FS_EmptySet DEF Count
  <2> QED
    BY <1>1, <2>1, ContentsFacts DEF LinkInv
<1>3. OrderInv
  <2>1. 1 .. Len(plugins_.order) = {}
    BY <1>1
  <2> QED
    BY <2>1 DEF OrderInv, Strict
<1>4. PointerInv
  BY ContentsFacts DEF PointerInv, Plugin!NoPointer
<1>5. IteratorInv
  BY ContentsFacts DEF IteratorInv, Plugin!LoaderAssumption, Plugin!End
<1> QED
  BY <1>2, <1>3, <1>4, <1>5 DEF PluginInv

-----------------------------------------------------------------------------
(* Plugins: the steps of the map and the linker *)

\* The iterator does not notice what changes no file.
LEMMA IteratorKept ==
  ASSUME IteratorInv, UNCHANGED <<files, it>>,
         (\A f \in Plugin!Entry : Plugin!Opened(f) = files[f]) =>
           \A f \in Plugin!Entry : Plugin!Opened(f)' = files[f]
  PROVE  IteratorInv'
<1>1. Plugin!Start' = Plugin!Start /\ \A ns : PluginsOf(ns)' = PluginsOf(ns)
  BY DEF Plugin!Start, PluginsOf
<1> QED
  BY <1>1 DEF IteratorInv

\* A plugin in the map has its library open.
LEMMA OpenForEntries ==
  ASSUME LinkInv, NEW k \in 1 .. Len(plugins_.order)
  PROVE  /\ plugins_.order[k].path \in Plugin!Entry
         /\ refs[plugins_.order[k].path] > 0
<1>1. PICK f : f = plugins_.order[k].path
  OBVIOUS
<1>2. f \in Plugin!Entry
  BY <1>1, MapFacts DEF LinkInv
<1>3. Count(plugins_, f) \in Nat /\ Count(plugins_, f) > 0
  BY <1>1, Counted DEF LinkInv
<1>4. refs[f] = Count(plugins_, f) + refused[f] /\ refused[f] \in Nat
  BY <1>2 DEF LinkInv
<1> QED
  BY <1>1, <1>2, <1>3, <1>4

\* Importing a plugin preserves the invariant.
LEMMA NextImport ==
  ASSUME Plugin!LoaderAssumption, PluginInv, NEW id \in Identities, NEW f \in Plugin!Entry,
         Plugin!Import(id, f)
  PROVE  PluginInv'
<1> DEFINE e == [id |-> id, path |-> f, held |-> TRUE]
<1>1. /\ pointer = Plugin!NoPointer /\ Plugin!Find(plugins_, id) = 0
      /\ Plugin!Opened(f) = Plugin!Library(id, TRUE)
      /\ refs[f] < MaxRefs /\ Len(plugins_.order) < 3
      /\ pointer' = [Plugin!NoPointer EXCEPT !.path = f] /\ UNCHANGED <<files, it>>
  BY DEF Plugin!Import, Plugin!is_loaded, Plugin!MaxPlugins
<1>2. /\ refs' = [refs EXCEPT ![f] = @ + 1]
      /\ mapped' = [mapped EXCEPT ![f] = Plugin!Library(id, TRUE)]
  BY <1>1 DEF Plugin!Import, Plugin!dlopen
<1>3. LinkInv /\ OrderInv /\ PointerInv /\ IteratorInv
  BY DEF PluginInv
<1>4. /\ mapped' \in [Plugin!Entry -> Plugin!Contents]
      /\ \A g \in Plugin!Entry :
           mapped'[g] = IF g = f THEN Plugin!Library(id, TRUE) ELSE mapped[g]
  BY <1>2, <1>3, ContentsFacts DEF LinkInv
<1>5. /\ refs' \in [Plugin!Entry -> 0 .. MaxRefs]
      /\ \A g \in Plugin!Entry : refs'[g] = refs[g] + (IF g = f THEN 1 ELSE 0)
  <2>1. refs \in [Plugin!Entry -> 0 .. MaxRefs] /\ MaxRefs \in Nat
    BY <1>3, ContentsFacts DEF LinkInv
  <2>2. refs[f] + 1 \in 0 .. MaxRefs
    BY <1>1, <2>1
  <2> QED
    BY <1>2, <2>1, <2>2
<1>6. pointer' = [path |-> f, locked |-> FALSE, gone |-> FALSE] /\ PointerInv'
  <2>1. pointer' = [path |-> f, locked |-> FALSE, gone |-> FALSE]
    BY <1>1 DEF Plugin!NoPointer
  <2>2. f \in 0 .. MaxEntries /\ f # 0
    BY ContentsFacts DEF Plugin!Entry
  <2>3. refs'[f] # 0
    <3>1. refs[f] \in Nat /\ refs'[f] = refs[f] + 1
      BY <1>3, <1>5, ContentsFacts DEF LinkInv
    <3> QED
      BY <3>1
  <2> QED
    BY <2>1, <2>2, <2>3 DEF PointerInv
<1>7. refs[f] > 0 => mapped[f] = Plugin!Library(id, TRUE)
  BY <1>1 DEF Plugin!Opened
<1>8. \A k \in 1 .. Len(plugins_.order) :
        /\ mapped'[plugins_.order[k].path] = Plugin!Library(plugins_.order[k].id, TRUE)
        /\ ~plugins_.order[k].held
  <2>1. TAKE k \in 1 .. Len(plugins_.order)
  <2>2. plugins_.order[k].path \in Plugin!Entry /\ refs[plugins_.order[k].path] > 0
    BY <1>3, OpenForEntries
  <2>3. /\ mapped[plugins_.order[k].path] = Plugin!Library(plugins_.order[k].id, TRUE)
        /\ plugins_.order[k].held => pointer.path = plugins_.order[k].path
    BY <1>3 DEF LinkInv
  <2>4. plugins_.order[k].path # 0 /\ pointer.path = 0
    BY <1>1, <2>2, ContentsFacts DEF Plugin!Entry, Plugin!NoPointer
  <2>5. plugins_.order[k].held \in BOOLEAN
    BY <1>3, MapFacts DEF LinkInv
  <2> QED
    BY <1>4, <1>7, <2>2, <2>3, <2>4, <2>5
<1>9. IteratorInv'
  <2>1. ASSUME \A g \in Plugin!Entry : Plugin!Opened(g) = files[g], NEW g \in Plugin!Entry
        PROVE  Plugin!Opened(g)' = files[g]
    <3>1. g = f => Plugin!Opened(g)' = files[g]
      <4>1. refs'[f] > 0 /\ mapped'[f] = Plugin!Library(id, TRUE)
        <5>1. refs[f] \in Nat
          BY <1>3, ContentsFacts DEF LinkInv
        <5>2. refs'[f] = refs[f] + 1
          BY <1>5
        <5>3. mapped'[f] = Plugin!Library(id, TRUE)
          BY <1>4
        <5> QED
          BY <5>1, <5>2, <5>3
      <4> QED
        BY <1>1, <2>1, <4>1 DEF Plugin!Opened
    <3>2. g # f => Plugin!Opened(g)' = Plugin!Opened(g)
      <4>1. g # f => refs'[g] = refs[g] /\ mapped'[g] = mapped[g]
        <5>1. refs[g] \in Nat
          BY <1>3, ContentsFacts DEF LinkInv
        <5>2. g # f => refs'[g] = refs[g] + 0
          BY <1>5
        <5>3. g # f => mapped'[g] = mapped[g]
          BY <1>4
        <5> QED
          BY <5>1, <5>2, <5>3
      <4> QED
        BY <1>1, <4>1 DEF Plugin!Opened
    <3> QED
      BY <2>1, <3>1, <3>2
  <2> QED
    BY <1>1, <1>3, <2>1, IteratorKept
<1>10. CASE Plugin!Accepts(plugins_, id)
  <2>1. /\ plugins_' = Plugin!Inserted(plugins_, e) /\ refused' = refused
        /\ crossed' = (crossed \/ Plugin!Crossed(Plugin!Ids \cup {id}))
    BY <1>10 DEF Plugin!Import
  <2>2. e \in Items /\ e.path = f /\ e.id = id
    BY DEF Items
  <2> HIDE DEF e
  <2>3. PICK m : m = plugins_
    OBVIOUS
  <2>4. MapOK(m) /\ Len(m.order) < 3
    BY <1>1, <1>3, <2>3 DEF LinkInv
  <2>5. MapOK(plugins_')
    BY <2>1, <2>2, <2>3, <2>4, InsertShape
  <2>6. \A g \in Plugin!Entry : refs'[g] = Count(plugins_', g) + refused'[g]
    <3>1. TAKE g \in Plugin!Entry
    <3>2. Count(plugins_', g) = Count(m, g) + (IF f = g THEN 1 ELSE 0)
      BY <2>1, <2>2, <2>3, <2>4, CountInsert
    <3>3. refs[g] = Count(m, g) + refused[g] /\ Count(m, g) \in Nat /\ refused[g] \in Nat
      BY <1>3, <2>3, <2>4, Counted DEF LinkInv
    <3>4. refs'[g] = refs[g] + (IF g = f THEN 1 ELSE 0)
      BY <1>5
    <3> QED
      BY <2>1, <3>2, <3>3, <3>4
  <2>7. ASSUME NEW k \in 1 .. Len(plugins_'.order)
        PROVE  /\ mapped'[plugins_'.order[k].path] = Plugin!Library(plugins_'.order[k].id, TRUE)
               /\ plugins_'.order[k].held =>
                    pointer'.path = plugins_'.order[k].path /\ ~pointer'.gone
    <3>1. PICK n, p : n = Len(m.order) /\ p = Plugin!Place(m, e.id)
      OBVIOUS
    <3>2. n \in Nat /\ p \in 1 .. n + 1 /\ k \in 1 .. n + 1
      BY <2>1, <2>2, <2>3, <2>4, <2>7, <3>1, MapFacts, InsertShape
    <3>3. plugins_'.order[k] = IF k < p THEN m.order[k] ELSE IF k = p THEN e ELSE m.order[k - 1]
      BY <2>1, <2>2, <2>3, <2>4, <3>1, <3>2, InsertShape
    <3>4. plugins_'.order[k] = e \/ \E j \in 1 .. n : plugins_'.order[k] = m.order[j]
      <4>1. k < p => k \in 1 .. n
        BY <3>2
      <4>2. ~(k < p) /\ k # p => k - 1 \in 1 .. n
        BY <3>2
      <4> QED
        BY <3>3, <4>1, <4>2
    <3>5. mapped'[f] = Plugin!Library(id, TRUE)
      BY <1>4
    <3>6. pointer'.path = f /\ ~pointer'.gone
      BY <1>6
    <3> QED
      BY <1>8, <2>2, <2>3, <3>1, <3>4, <3>5, <3>6
  <2>8. LinkInv'
    BY <1>3, <1>4, <1>5, <2>1, <2>5, <2>6, <2>7 DEF LinkInv
  <2>9. OrderInv'
    <3>1. crossed' \in BOOLEAN
      BY <1>3, <2>1 DEF OrderInv, Plugin!Crossed
    <3>2. ASSUME ~crossed' PROVE Strict(plugins_')
      <4>1. Strict(m) /\ ~Plugin!Crossed({m.order[i].id : i \in DOMAIN m.order} \cup {e.id})
        BY <1>3, <2>1, <2>2, <2>3, <3>2 DEF OrderInv, Plugin!Ids
      <4>2. Plugin!Find(m, e.id) = 0
        BY <1>1, <2>2, <2>3
      <4> QED
        BY <2>1, <2>2, <2>3, <2>4, <4>1, <4>2, InsertStrict
    <3> QED
      BY <3>1, <3>2 DEF OrderInv
  <2> QED
    BY <1>6, <1>9, <2>8, <2>9 DEF PluginInv
<1>11. CASE ~Plugin!Accepts(plugins_, id)
  <2>1. refused' = [refused EXCEPT ![f] = @ + 1] /\ UNCHANGED <<plugins_, crossed>>
    BY <1>11 DEF Plugin!Import
  <2>2. refused' \in [Plugin!Entry -> Nat]
    BY <1>3, <2>1 DEF LinkInv
  <2>3. \A g \in Plugin!Entry : refs'[g] = Count(plugins_, g) + refused'[g]
    <3>1. TAKE g \in Plugin!Entry
    <3>2. refs[g] = Count(plugins_, g) + refused[g] /\ Count(plugins_, g) \in Nat
      BY <1>3, Counted DEF LinkInv
    <3>3. refused[g] \in Nat /\ refused'[g] = refused[g] + (IF g = f THEN 1 ELSE 0)
      BY <1>3, <2>1 DEF LinkInv
    <3>4. refs'[g] = refs[g] + (IF g = f THEN 1 ELSE 0)
      BY <1>5
    <3> QED
      BY <3>2, <3>3, <3>4
  <2>4. LinkInv'
    BY <1>3, <1>4, <1>5, <1>8, <2>1, <2>2, <2>3 DEF LinkInv, Count
  <2>5. OrderInv'
    BY <1>3, <2>1 DEF OrderInv, Strict
  <2> QED
    BY <1>6, <1>9, <2>4, <2>5 DEF PluginInv
<1> QED
  BY <1>10, <1>11

\* Closing libraries whose plugins leave the map preserves the invariant.
LEMMA NextClosed ==
  ASSUME Plugin!LoaderAssumption, PluginInv, NEW n \in [Plugin!Entry -> Nat], NEW m, MapOK(m),
         plugins_' = m, Plugin!dlclose(n), UNCHANGED <<files, it, refused>>,
         \A f \in Plugin!Entry : Count(m, f) = Count(plugins_, f) - n[f],
         \A k \in 1 .. Len(m.order) :
           \E j \in 1 .. Len(plugins_.order) : m.order[k] = plugins_.order[j]
  PROVE  LinkInv' /\ PointerInv' /\ IteratorInv'
<1>1. LinkInv /\ PointerInv /\ IteratorInv
  BY DEF PluginInv
<1>2. /\ refs' = [f \in Plugin!Entry |-> refs[f] - n[f]]
      /\ pointer' = [pointer EXCEPT !.gone =
           @ \/ (pointer # Plugin!NoPointer /\ n[pointer.path] > 0 /\ refs'[pointer.path] = 0)]
      /\ mapped' = [f \in Plugin!Entry |-> IF refs'[f] = 0 THEN Plugin!Absent ELSE mapped[f]]
  BY DEF Plugin!dlclose
<1>3. \A f \in Plugin!Entry : /\ refs[f] \in 0 .. MaxRefs /\ MaxRefs \in Nat /\ n[f] \in Nat
                              /\ refused[f] \in Nat /\ Count(m, f) \in Nat
                              /\ Count(plugins_, f) \in Nat
                              /\ refs[f] = Count(plugins_, f) + refused[f]
  BY <1>1, Counted, ContentsFacts DEF LinkInv
<1>4. \A f \in Plugin!Entry : /\ refs'[f] = Count(m, f) + refused[f]
                              /\ refs'[f] \in 0 .. MaxRefs /\ refs'[f] <= refs[f]
  <2>1. TAKE f \in Plugin!Entry
  <2>2. refs'[f] = refs[f] - n[f] /\ Count(m, f) = Count(plugins_, f) - n[f]
    BY <1>2
  <2> QED
    BY <1>3, <2>2
<1>5. refs' \in [Plugin!Entry -> 0 .. MaxRefs]
  <2>1. \A f \in Plugin!Entry : refs[f] - n[f] \in 0 .. MaxRefs
    BY <1>2, <1>4
  <2> QED
    BY <1>2, <2>1
<1>6. mapped' \in [Plugin!Entry -> Plugin!Contents]
  BY <1>1, <1>2, ContentsFacts DEF LinkInv
<1>7. \A k \in 1 .. Len(m.order) : /\ m.order[k].path \in Plugin!Entry
                                   /\ refs'[m.order[k].path] # 0
  <2>1. TAKE k \in 1 .. Len(m.order)
  <2>2. PICK f : f = m.order[k].path
    OBVIOUS
  <2>3. f \in Plugin!Entry /\ Count(m, f) > 0
    BY <2>2, MapFacts, Counted
  <2>4. refs'[f] = Count(m, f) + refused[f] /\ Count(m, f) \in Nat /\ refused[f] \in Nat
    BY <1>3, <1>4, <2>3
  <2> QED
    BY <2>2, <2>3, <2>4
<1>8. /\ pointer' \in [path : 0 .. MaxEntries, locked : BOOLEAN, gone : BOOLEAN]
      /\ pointer'.path = pointer.path
      /\ pointer'.gone = (pointer.gone \/ (/\ pointer # Plugin!NoPointer /\ n[pointer.path] > 0
                                           /\ refs'[pointer.path] = 0))
      /\ pointer = Plugin!NoPointer => pointer' = pointer
  <2>1. pointer \in [path : 0 .. MaxEntries, locked : BOOLEAN, gone : BOOLEAN]
    BY <1>1 DEF PointerInv
  <2>2. pointer = Plugin!NoPointer => ~pointer.gone
    BY DEF Plugin!NoPointer
  <2>3. PICK g \in BOOLEAN : g = (pointer.gone \/ (/\ pointer # Plugin!NoPointer
                                                  /\ n[pointer.path] > 0
                                                  /\ refs'[pointer.path] = 0))
    BY <2>1
  <2>4. pointer' = [pointer EXCEPT !.gone = g]
    BY <1>2, <2>3
  <2>5. pointer = Plugin!NoPointer => g = FALSE
    BY <2>2, <2>3
  <2> QED
    BY <2>1, <2>3, <2>4, <2>5 DEF Plugin!NoPointer
<1>9. PointerInv'
  <2>1. ASSUME pointer.path # 0 PROVE pointer'.gone <=> refs'[pointer.path] = 0
    <3>1. PICK f : f = pointer.path
      OBVIOUS
    <3>2. f \in Plugin!Entry /\ (pointer.gone <=> refs[f] = 0) /\ pointer # Plugin!NoPointer
      BY <1>1, <2>1, <3>1 DEF PointerInv, Plugin!Entry, Plugin!NoPointer
    <3>3. pointer'.gone = (pointer.gone \/ (n[f] > 0 /\ refs'[f] = 0))
      BY <1>8, <3>1, <3>2
    <3>4. refs'[f] = refs[f] - n[f] /\ refs'[f] \in Nat /\ refs[f] \in Nat /\ n[f] \in Nat
      BY <1>2, <1>3, <1>4, <3>2
    <3>5. refs[f] = 0 => refs'[f] = 0
      BY <3>4
    <3>6. refs[f] # 0 /\ refs'[f] = 0 => n[f] > 0
      BY <3>4
    <3> QED
      BY <3>1, <3>2, <3>3, <3>5, <3>6
  <2> QED
    BY <1>1, <1>8, <2>1 DEF PointerInv
<1>10. \A k \in 1 .. Len(m.order) :
         /\ mapped'[m.order[k].path] = Plugin!Library(m.order[k].id, TRUE)
         /\ m.order[k].held => pointer'.path = m.order[k].path /\ ~pointer'.gone
  <2>1. TAKE k \in 1 .. Len(m.order)
  <2>2. /\ mapped[m.order[k].path] = Plugin!Library(m.order[k].id, TRUE)
        /\ m.order[k].held => pointer.path = m.order[k].path /\ ~pointer.gone
    BY <1>1 DEF LinkInv
  <2>3. mapped'[m.order[k].path] = mapped[m.order[k].path]
    BY <1>2, <1>7
  <2>4. m.order[k].held => pointer'.path = m.order[k].path /\ ~pointer'.gone
    BY <1>7, <1>8, <2>2
  <2> QED
    BY <2>2, <2>3, <2>4
<1>11. LinkInv'
  BY <1>1, <1>4, <1>5, <1>6, <1>10 DEF LinkInv
<1>12. IteratorInv'
  <2>1. ASSUME \A f \in Plugin!Entry : Plugin!Opened(f) = files[f], NEW f \in Plugin!Entry
        PROVE  Plugin!Opened(f)' = files[f]
    <3>1. refs'[f] \in Nat /\ refs[f] \in Nat /\ refs'[f] <= refs[f]
      BY <1>3, <1>4
    <3>2. refs'[f] # 0 => mapped'[f] = mapped[f]
      BY <1>2
    <3>3. Plugin!Opened(f) = files[f]
      BY <2>1
    <3> QED
      BY <3>1, <3>2, <3>3 DEF Plugin!Opened
  <2> QED
    BY <1>1, <2>1, IteratorKept
<1> QED
  BY <1>9, <1>11, <1>12

\* Unloading a plugin preserves the invariant.
LEMMA NextUnload ==
  ASSUME Plugin!LoaderAssumption, PluginInv, NEW id \in Identities, Plugin!UnloadId(id)
  PROVE  PluginInv'
<1>1. PICK m, k : m = plugins_ /\ k = Plugin!Find(m, id)
  OBVIOUS
<1>2. LinkInv /\ OrderInv /\ MapOK(m)
  BY <1>1 DEF PluginInv, LinkInv
<1>3. k # 0 /\ plugins_' = Plugin!Erased(m, k) /\ crossed' = (crossed /\ Len(m.order) > 1)
  BY <1>1 DEF Plugin!UnloadId
<1>4. k \in 1 .. Len(m.order)
  BY <1>1, <1>2, <1>3, FoundRight
<1>5. PICK n : n = [f \in Plugin!Entry |-> IF f = m.order[k].path THEN 1 ELSE 0]
  OBVIOUS
<1>6. n \in [Plugin!Entry -> Nat]
  BY <1>5
<1>7. Plugin!dlclose(n) /\ UNCHANGED <<files, it, refused>>
  BY <1>1, <1>5 DEF Plugin!UnloadId
<1>8. \A f \in Plugin!Entry : Count(Plugin!Erased(m, k), f) = Count(m, f) - n[f]
  <2>1. TAKE f \in Plugin!Entry
  <2>2. Count(Plugin!Erased(m, k), f) = Count(m, f) - (IF m.order[k].path = f THEN 1 ELSE 0)
    BY <1>2, <1>4, CountErase
  <2> QED
    BY <1>5, <2>2
<1>9. PICK o : o = Plugin!Erased(m, k)
  OBVIOUS
<1>10. MapOK(o) /\ Len(o.order) = Len(m.order) - 1
       /\ \A i \in 1 .. Len(o.order) : \E j \in 1 .. Len(m.order) : o.order[i] = m.order[j]
  <2>1. /\ MapOK(o) /\ Len(o.order) = Len(m.order) - 1 /\ Len(m.order) \in Nat
        /\ \A i \in 1 .. Len(m.order) - 1 : o.order[i] = IF i < k THEN m.order[i] ELSE m.order[i + 1]
    BY <1>2, <1>4, <1>9, EraseShape, MapFacts
  <2>2. \A i \in 1 .. Len(m.order) - 1 : i \in 1 .. Len(m.order) /\ i + 1 \in 1 .. Len(m.order)
    BY <2>1
  <2> QED
    BY <2>1, <2>2
<1>11. LinkInv' /\ PointerInv' /\ IteratorInv'
  BY <1>1, <1>3, <1>6, <1>7, <1>8, <1>9, <1>10, NextClosed
<1>12. OrderInv'
  <2>1. crossed' \in BOOLEAN
    BY <1>3
  <2>2. CASE ~crossed
    BY <1>1, <1>2, <1>3, <1>4, <2>1, <2>2, EraseStrict DEF OrderInv
  <2>3. CASE ~(Len(m.order) > 1)
    <3>1. Len(m.order) \in Nat
      BY <1>2, MapFacts
    <3>2. 1 .. Len(o.order) = {}
      BY <1>10, <2>3, <3>1
    <3> QED
      BY <1>3, <1>9, <2>1, <3>2 DEF OrderInv, Strict
  <2> QED
    BY <1>3, <2>1, <2>2, <2>3 DEF OrderInv
<1> QED
  BY <1>11, <1>12 DEF PluginInv

\* Unloading all plugins preserves the invariant.
LEMMA NextUnloadAll ==
  ASSUME Plugin!LoaderAssumption, PluginInv, Plugin!UnloadAll
  PROVE  PluginInv'
<1>1. LinkInv /\ MapOK(plugins_)
  BY DEF PluginInv, LinkInv
<1>2. plugins_' = Plugin!Empty /\ crossed' = FALSE /\ UNCHANGED <<files, it, refused>>
  BY DEF Plugin!UnloadAll
<1>3. PICK n : n = [f \in Plugin!Entry |-> Count(plugins_, f)]
  OBVIOUS
<1>4. n \in [Plugin!Entry -> Nat]
  BY <1>1, <1>3, Counted
<1>5. Plugin!dlclose(n)
  <2>1. \A f : Plugin!Entries(f) = Count(plugins_, f)
    BY LoaderCounts DEF Plugin!Entries, Count
  <2>2. n = [f \in Plugin!Entry |-> Plugin!Entries(f)]
    BY <1>3, <2>1
  <2> QED
    BY <2>2 DEF Plugin!UnloadAll
<1>6. /\ MapOK(Plugin!Empty) /\ Len(Plugin!Empty.order) = 0
      /\ \A f : Count(Plugin!Empty, f) = 0
  <2>1. Plugin!Empty.order = <<>> /\ DOMAIN Plugin!Empty.order = {} /\ Len(Plugin!Empty.order) = 0
    BY DEF Plugin!Empty
  <2>2. <<>> \in Seq(Items)
    OBVIOUS
  <2>3. MapOK(Plugin!Empty)
    BY <2>1, <2>2 DEF Plugin!Empty, MapOK
  <2>4. \A f : Count(Plugin!Empty, f) = 0
    <3>1. TAKE f
    <3>2. {k \in DOMAIN Plugin!Empty.order : Plugin!Empty.order[k].path = f} = {}
      BY <2>1
    <3> QED
      BY <3>2, FS_EmptySet DEF Count
  <2> QED
    BY <2>1, <2>3, <2>4
<1>7. \A f \in Plugin!Entry : Count(Plugin!Empty, f) = Count(plugins_, f) - n[f]
  <2>1. TAKE f \in Plugin!Entry
  <2>2. Count(plugins_, f) \in Nat /\ n[f] = Count(plugins_, f)
    BY <1>1, <1>3, Counted
  <2>3. Count(Plugin!Empty, f) = 0
    BY <1>6
  <2> QED
    BY <2>2, <2>3
<1>8. 1 .. Len(Plugin!Empty.order) = {}
  BY <1>6
<1>9. LinkInv' /\ PointerInv' /\ IteratorInv'
  BY <1>2, <1>4, <1>5, <1>6, <1>7, <1>8, NextClosed
<1>10. OrderInv'
  BY <1>2, <1>8 DEF OrderInv, Strict
<1> QED
  BY <1>9, <1>10 DEF PluginInv


-----------------------------------------------------------------------------
(* Plugins: the steps of the pointer *)

\* Releasing the plugins of a map changes neither their order nor their files.
LEMMA Released ==
  ASSUME NEW m, MapOK(m), NEW r,
         r = [m EXCEPT !.order = [k \in DOMAIN m.order |-> [m.order[k] EXCEPT !.held = FALSE]]]
  PROVE  /\ MapOK(r) /\ Len(r.order) = Len(m.order) /\ (Strict(m) => Strict(r))
         /\ \A f : Count(r, f) = Count(m, f)
         /\ \A k \in 1 .. Len(m.order) : /\ r.order[k].id = m.order[k].id
                                         /\ r.order[k].path = m.order[k].path
                                         /\ ~r.order[k].held
<1> DEFINE n == Len(m.order)
           o == [k \in 1 .. n |-> [m.order[k] EXCEPT !.held = FALSE]]
<1>1. /\ n \in Nat /\ DOMAIN m.order = 1 .. n /\ m.root \in Nat
      /\ \A k \in 1 .. n : m.order[k] \in Items
  BY MapFacts
<1>2. r = [order |-> o, root |-> m.root]
  BY <1>1 DEF MapOK
<1>3. \A k \in 1 .. n : /\ o[k] \in Items /\ o[k].id = m.order[k].id
                        /\ o[k].path = m.order[k].path /\ ~o[k].held
  BY <1>1 DEF Items
<1>4. o \in Seq(Items) /\ Len(o) = n /\ DOMAIN o = 1 .. n
  <2>1. \A k \in 1 .. n : [m.order[k] EXCEPT !.held = FALSE] \in Items
    BY <1>3
  <2>2. o \in Seq(Items)
    BY <1>1, <2>1, IsASeq
  <2> QED
    BY <1>1, <2>2, LenProperties
<1> HIDE DEF o
<1>5. MapOK(r)
  <2>1. r \in [order : Seq(Items), root : Nat] /\ r.order = o /\ r.root = m.root
    <3>1. o \in Seq(Items) /\ m.root \in Nat
      BY <1>1, <1>4
    <3> QED
      BY ONLY <1>2, <3>1
  <2>2. n <= 3 /\ (n # 0 => m.root \in 1 .. n) /\ (n = 3 => m.root = 2)
    BY DEF MapOK
  <2> HIDE DEF n
  <2> QED
    BY <1>4, <2>1, <2>2 DEF MapOK
<1>6. \A f : Count(r, f) = Count(m, f)
  <2>1. TAKE f
  <2>2. {k \in DOMAIN r.order : r.order[k].path = f} = {k \in DOMAIN m.order : m.order[k].path = f}
    BY <1>1, <1>2, <1>3, <1>4
  <2> QED
    BY <2>2 DEF Count
<1>7. Strict(m) => Strict(r)
  BY <1>2, <1>3, <1>4 DEF Strict
<1> QED
  BY <1>2, <1>3, <1>4, <1>5, <1>6, <1>7

\* Locking, using and releasing the pointer preserve the invariant.
LEMMA NextPointer ==
  ASSUME Plugin!LoaderAssumption, PluginInv, Plugin!Lock \/ Plugin!Use \/ Plugin!Release
  PROVE  PluginInv'
<1>1. LinkInv /\ OrderInv /\ PointerInv /\ IteratorInv /\ MapOK(plugins_)
  BY DEF PluginInv, LinkInv
<1>2. UNCHANGED <<files, mapped, refs, crossed, it, refused>>
  BY DEF Plugin!Lock, Plugin!Use, Plugin!Release
<1>3. IteratorInv'
  <2>1. \A f \in Plugin!Entry : Plugin!Opened(f)' = Plugin!Opened(f)
    BY <1>2 DEF Plugin!Opened
  <2> QED
    BY <1>1, <1>2, <2>1, IteratorKept
<1>4. CASE Plugin!Lock
  <2>1. Plugin!Held /\ pointer' = [pointer EXCEPT !.locked = TRUE] /\ plugins_' = plugins_
    BY <1>4 DEF Plugin!Lock
  <2>2. PICK k \in 1 .. Len(plugins_.order) : plugins_.order[k].held
    BY <1>1, <2>1, MapFacts DEF Plugin!Held
  <2>3. pointer.path \in Plugin!Entry /\ pointer.path # 0
    <3>1. plugins_.order[k].path \in Plugin!Entry
      BY <1>1, MapFacts
    <3>2. pointer.path = plugins_.order[k].path
      BY <1>1, <2>2 DEF LinkInv
    <3>3. 0 \notin Plugin!Entry
      BY DEF Plugin!Entry
    <3> QED
      BY <3>1, <3>2, <3>3
  <2>4. /\ pointer' \in [path : 0 .. MaxEntries, locked : BOOLEAN, gone : BOOLEAN]
        /\ pointer'.path = pointer.path /\ pointer'.gone = pointer.gone
    BY <1>1, <2>1 DEF PointerInv
  <2>5. PointerInv'
    BY <1>1, <1>2, <2>3, <2>4 DEF PointerInv
  <2>6. LinkInv'
    BY <1>1, <1>2, <2>1, <2>4 DEF LinkInv, Count
  <2>7. OrderInv'
    BY <1>1, <1>2, <2>1 DEF OrderInv, Strict
  <2> QED
    BY <1>3, <2>5, <2>6, <2>7 DEF PluginInv
<1>5. CASE Plugin!Use
  <2>1. UNCHANGED <<pointer, plugins_>>
    BY <1>5 DEF Plugin!Use
  <2> QED
    BY <1>1, <1>2, <1>3, <2>1 DEF PluginInv, LinkInv, OrderInv, PointerInv, Count, Strict
<1>6. CASE Plugin!Release
  <2>1. PICK m, r : m = plugins_ /\ r = plugins_'
    OBVIOUS
  <2>2. r = [m EXCEPT !.order = [k \in DOMAIN m.order |-> [m.order[k] EXCEPT !.held = FALSE]]]
    BY <1>6, <2>1 DEF Plugin!Release
  <2>3. pointer' = Plugin!NoPointer
    BY <1>6 DEF Plugin!Release
  <2>4. /\ MapOK(r) /\ Len(r.order) = Len(m.order) /\ (Strict(m) => Strict(r))
        /\ \A f : Count(r, f) = Count(m, f)
        /\ \A k \in 1 .. Len(m.order) : /\ r.order[k].id = m.order[k].id
                                        /\ r.order[k].path = m.order[k].path
                                        /\ ~r.order[k].held
    <3>1. MapOK(m)
      BY <1>1, <2>1
    <3> QED
      BY <2>2, <3>1, Released
  <2>5. LinkInv'
    BY <1>1, <1>2, <2>1, <2>4 DEF LinkInv
  <2>6. OrderInv'
    BY <1>1, <1>2, <2>1, <2>4 DEF OrderInv
  <2>7. PointerInv'
    BY <2>3, ContentsFacts DEF PointerInv, Plugin!NoPointer
  <2> QED
    BY <1>3, <2>5, <2>6, <2>7 DEF PluginInv
<1> QED
  BY <1>4, <1>5, <1>6

-----------------------------------------------------------------------------
(* Plugins: the steps of the iterator *)

\* The least of a set of numbers is one of them.
LEMMA LeastRight ==
  ASSUME NEW S \in SUBSET Nat, S # {}
  PROVE  Plugin!Least(S) \in S /\ \A g \in S : Plugin!Least(S) <= g
<1>1. PICK n \in S : \A m \in 0 .. n - 1 : m \notin S
  BY LeastNumber
<1>2. \A g \in S : n <= g
  <2>1. SUFFICES ASSUME NEW g \in S, ~(n <= g) PROVE FALSE
    OBVIOUS
  <2>2. g \in 0 .. n - 1
    BY <2>1
  <2> QED
    BY <1>1, <2>1, <2>2
<1>3. \E f \in S : \A g \in S : f <= g
  BY <1>2
<1> QED
  BY <1>3 DEF Plugin!Least

\* Before the first entry there is none.
LEMMA StartRight ==
  ASSUME Plugin!LoaderAssumption
  PROVE  /\ Plugin!Start \in 1 .. Plugin!End
         /\ \A f \in Plugin!Entry : f < Plugin!Start => files[f].is = "absent"
<1> DEFINE S == {Plugin!End} \cup {f \in Plugin!Entry : files[f].is # "absent"}
<1>1. MaxEntries \in Nat
  BY ContentsFacts
<1>2. S \in SUBSET (1 .. Plugin!End) /\ S # {} /\ S \in SUBSET Nat
  BY <1>1 DEF Plugin!Entry, Plugin!End
<1>3. Plugin!Start = Plugin!Least(S)
  BY DEF Plugin!Start
<1> HIDE DEF S
<1>4. Plugin!Start \in S /\ \A g \in S : Plugin!Start <= g
  BY <1>2, <1>3, LeastRight
<1>5. ASSUME NEW f \in Plugin!Entry, f < Plugin!Start, files[f].is # "absent" PROVE FALSE
  <2>1. f \in S /\ f \in Nat /\ Plugin!Start \in Nat
    BY <1>2, <1>4, <1>5 DEF S, Plugin!Entry
  <2>2. Plugin!Start <= f
    BY <1>4, <2>1
  <2> QED
    BY <1>5, <2>1, <2>2
<1> QED
  BY <1>2, <1>4, <1>5

\* What next() finds from an entry on is the first match, if there is one.
LEMMA FoundFirst ==
  ASSUME Plugin!LoaderAssumption, PluginInv, NEW from \in Nat \ {0}, NEW ns, NEW old,
         NEW x, x = Plugin!Found(from, ns, old)
  PROVE  /\ x.pos \in 1 .. Plugin!End
         /\ x.pos = Plugin!End =>
              /\ x.at = old
              /\ \A f \in from .. MaxEntries : ~Plugin!Matches(f, ns)
         /\ x.pos # Plugin!End =>
              /\ x.pos \in from .. MaxEntries /\ x.pos \in Plugin!Entry
              /\ Plugin!Matches(x.pos, ns)
              /\ \A f \in from .. x.pos - 1 : ~Plugin!Matches(f, ns)
              /\ x.at.path = x.pos /\ x.at.id \in Identities
<1> DEFINE hits == {f \in from .. MaxEntries : Plugin!Matches(f, ns)}
<1>1. /\ x = IF hits = {} THEN [pos |-> Plugin!End, at |-> old]
             ELSE [pos |-> Plugin!Least(hits),
                   at |-> [path |-> Plugin!Least(hits),
                           id |-> Plugin!Opened(Plugin!Least(hits)).id]]
      /\ MaxEntries \in Nat
  BY ContentsFacts DEF Plugin!Found
<1>2. CASE hits = {}
  BY <1>1, <1>2 DEF Plugin!End
<1>3. CASE hits # {}
  <2>1. PICK p : p = Plugin!Least(hits)
    OBVIOUS
  <2>2. p \in hits /\ \A g \in hits : p <= g
    <3>1. hits \in SUBSET Nat
      OBVIOUS
    <3> HIDE DEF hits
    <3> QED
      BY <1>3, <2>1, <3>1, LeastRight
  <2>3. x.pos = p /\ x.at.path = p /\ x.at.id = Plugin!Opened(p).id
    BY <1>1, <1>3, <2>1
  <2>4. p \in from .. MaxEntries /\ Plugin!Matches(p, ns) /\ p \in Plugin!Entry
    BY <1>1, <2>2 DEF Plugin!Entry
  <2>5. Plugin!Opened(p).id \in Identities
    <3>1. Plugin!Opened(p) \in Plugin!Contents
      BY <2>4 DEF PluginInv, LinkInv, IteratorInv, Plugin!Opened
    <3> QED
      BY <2>4, <3>1, ContentsFacts DEF Plugin!Matches
  <2>6. \A f \in from .. p - 1 : ~Plugin!Matches(f, ns)
    <3>1. ASSUME NEW f \in from .. p - 1, Plugin!Matches(f, ns) PROVE FALSE
      <4>1. f \in from .. MaxEntries /\ f < p
        BY <1>1, <2>4
      <4> QED
        BY <2>2, <2>4, <3>1, <4>1
    <3> QED
      BY <3>1
  <2>7. p \in 1 .. Plugin!End /\ p # Plugin!End
    BY <1>1, <2>4 DEF Plugin!End
  <2> QED
    BY <2>3, <2>4, <2>5, <2>6, <2>7
<1> QED
  BY <1>2, <1>3

\* The numbers in a sequence
Among(s) == {s[i] : i \in 1 .. Len(s)}

\* A number is appended that is larger than all before.
LEMMA Appended ==
  ASSUME NEW s \in Seq(Nat), NEW p \in Nat, \A x \in Among(s) : x < p,
         \A i, j \in 1 .. Len(s) : i < j => s[i] < s[j]
  PROVE  /\ Append(s, p) \in Seq(Nat) /\ Among(Append(s, p)) = Among(s) \cup {p}
         /\ \A i, j \in 1 .. Len(Append(s, p)) : i < j => Append(s, p)[i] < Append(s, p)[j]
<1>1. PICK t, n : t = Append(s, p) /\ n = Len(s)
  OBVIOUS
<1>2. /\ t \in Seq(Nat) /\ Len(t) = n + 1 /\ n \in Nat
      /\ \A i \in 1 .. n : t[i] = s[i] /\ s[i] \in Among(s)
      /\ t[n + 1] = p
  BY <1>1, AppendProperties, LenProperties DEF Among
<1>3. Among(t) = Among(s) \cup {p}
  <2>1. Among(t) = {t[i] : i \in 1 .. n + 1}
    BY <1>2 DEF Among
  <2>2. 1 .. n + 1 = (1 .. n) \cup {n + 1}
    BY <1>2
  <2>3. Among(s) = {t[i] : i \in 1 .. n}
    BY <1>1, <1>2 DEF Among
  <2>4. {t[i] : i \in (1 .. n) \cup {n + 1}} = {t[i] : i \in 1 .. n} \cup {t[n + 1]}
    OBVIOUS
  <2>5. t[n + 1] = p
    BY <1>2
  <2> QED
    BY ONLY <2>1, <2>2, <2>3, <2>4, <2>5
<1>4. ASSUME NEW i \in 1 .. n + 1, NEW j \in 1 .. n + 1, i < j PROVE t[i] < t[j]
  <2>1. i \in 1 .. n
    BY <1>2, <1>4
  <2>2. CASE j \in 1 .. n
    BY <1>1, <1>2, <1>4, <2>1, <2>2
  <2>3. CASE j = n + 1
    BY <1>2, <2>1, <2>3
  <2> QED
    BY <1>2, <2>2, <2>3
<1> QED
  BY <1>1, <1>2, <1>3, <1>4

\* As long as nothing changes, next() matches the plugins of the name space.
LEMMA MatchesPlugins ==
  ASSUME \A f \in Plugin!Entry : Plugin!Opened(f) = files[f], NEW ns, NEW f \in Plugin!Entry
  PROVE  Plugin!Matches(f, ns) <=> f \in PluginsOf(ns)
  BY DEF Plugin!Matches, PluginsOf

\* A search from a position on preserves the invariant, when what lies before it is reported.
LEMMA NextFound ==
  ASSUME Plugin!LoaderAssumption, PluginInv, NEW from \in 1 .. Plugin!End, NEW ns \in Nat,
         NEW named \in BOOLEAN, NEW quiet \in BOOLEAN, NEW seen, NEW old, NEW x,
         x = Plugin!Found(from, ns, old),
         old = Plugin!Nothing \/ (old.path \in Plugin!Entry /\ old.id \in Identities),
         it' = [pos |-> x.pos, at |-> x.at, ns |-> ns, named |-> named, quiet |-> quiet,
                seen |-> IF x.pos = Plugin!End \/ ~quiet THEN seen ELSE Append(seen, x.at.path)],
         UNCHANGED <<files, mapped, refs, plugins_, crossed, pointer, refused>>,
         quiet => /\ \A f \in Plugin!Entry : Plugin!Opened(f) = files[f]
                  /\ named \/ Plugin!Start < from
                  /\ seen \in Seq(Nat)
                  /\ \A i, j \in 1 .. Len(seen) : i < j => seen[i] < seen[j]
                  /\ Among(seen) = (IF named THEN {} ELSE {0})
                       \cup {f \in PluginsOf(ns) : f < from /\ (named \/ f # Plugin!Start)}
  PROVE  PluginInv'
<1>1. LinkInv' /\ OrderInv' /\ PointerInv'
  BY DEF PluginInv, LinkInv, OrderInv, PointerInv, Count, Strict
<1>2. from \in Nat \ {0} /\ MaxEntries \in Nat
  BY ContentsFacts DEF Plugin!End
<1>3. /\ x.pos \in 1 .. Plugin!End
      /\ x.pos = Plugin!End =>
           /\ x.at = old
           /\ \A f \in from .. MaxEntries : ~Plugin!Matches(f, ns)
      /\ x.pos # Plugin!End =>
           /\ x.pos \in from .. MaxEntries /\ x.pos \in Plugin!Entry
           /\ Plugin!Matches(x.pos, ns)
           /\ \A f \in from .. x.pos - 1 : ~Plugin!Matches(f, ns)
           /\ x.at.path = x.pos /\ x.at.id \in Identities
  BY <1>2, FoundFirst
<1>4. /\ it'.pos = x.pos /\ it'.at = x.at /\ it'.ns = ns /\ it'.named = named /\ it'.quiet = quiet
      /\ it'.seen = IF x.pos = Plugin!End \/ ~quiet THEN seen ELSE Append(seen, x.at.path)
  OBVIOUS
<1>5. /\ files' \in [Plugin!Entry -> Plugin!Contents]
      /\ DOMAIN it' = {"pos", "at", "ns", "named", "quiet", "seen"}
      /\ it'.pos \in 1 .. Plugin!End /\ it'.ns \in Nat /\ it'.named \in BOOLEAN
      /\ it'.quiet \in BOOLEAN
      /\ it'.at = Plugin!Nothing \/ (it'.at.path \in Plugin!Entry /\ it'.at.id \in Identities)
  BY <1>3, <1>4 DEF PluginInv, IteratorInv
<1>6. ASSUME quiet
      PROVE  /\ named \/ Plugin!Start <= x.pos
             /\ it'.seen \in Seq(Nat)
             /\ \A i, j \in 1 .. Len(it'.seen) : i < j => it'.seen[i] < it'.seen[j]
             /\ Among(it'.seen) = (IF named THEN {} ELSE {0})
                  \cup {f \in PluginsOf(ns) : f <= x.pos /\ (named \/ f # Plugin!Start)}
  <2>1. \A f \in Plugin!Entry : Plugin!Matches(f, ns) <=> f \in PluginsOf(ns)
    BY <1>6, MatchesPlugins
  <2>2. \A f \in PluginsOf(ns) : f \in Plugin!Entry /\ f \in 1 .. MaxEntries
    BY DEF PluginsOf, Plugin!Entry
  <2>3. Plugin!Start \in 1 .. Plugin!End
    BY StartRight
  <2>4. CASE x.pos = Plugin!End
    <3>1. it'.seen = seen
      BY <1>4, <2>4
    <3>2. \A f \in PluginsOf(ns) : f < from /\ f <= x.pos
      <4>1. TAKE f \in PluginsOf(ns)
      <4>2. f \notin from .. MaxEntries
        BY <1>3, <2>1, <2>2, <2>4
      <4> QED
        BY <1>2, <2>2, <2>4, <4>2 DEF Plugin!End
    <3>3. named \/ Plugin!Start <= x.pos
      BY <1>2, <2>3, <2>4 DEF Plugin!End
    <3> QED
      BY <1>6, <3>1, <3>2, <3>3
  <2>5. CASE x.pos # Plugin!End
    <3>1. PICK p : p = x.pos
      OBVIOUS
    <3>2. /\ it'.seen = Append(seen, p) /\ p \in from .. MaxEntries /\ p \in Nat /\ from <= p
          /\ p \in PluginsOf(ns) /\ \A f \in from .. p - 1 : f \notin PluginsOf(ns)
      <4>1. it'.seen = Append(seen, p) /\ p \in from .. MaxEntries /\ p \in PluginsOf(ns)
        BY <1>3, <1>4, <1>6, <2>1, <2>5, <3>1
      <4>2. p \in Nat /\ from <= p
        BY <1>2, <4>1
      <4>3. ASSUME NEW f \in from .. p - 1, f \in PluginsOf(ns) PROVE FALSE
        BY <1>3, <2>1, <2>2, <2>5, <3>1, <4>3
      <4> QED
        BY <4>1, <4>2, <4>3
    <3>3. /\ seen \in Seq(Nat) /\ \A i, j \in 1 .. Len(seen) : i < j => seen[i] < seen[j]
          /\ Among(seen) = (IF named THEN {} ELSE {0})
               \cup {f \in PluginsOf(ns) : f < from /\ (named \/ f # Plugin!Start)}
          /\ named \/ Plugin!Start < from
      BY <1>6
    <3>4. \A y \in Among(seen) : y < p
      <4>1. TAKE y \in Among(seen)
      <4>2. y = 0 \/ (y \in PluginsOf(ns) /\ y < from)
        BY <3>3
      <4>3. from \in Nat \ {0} /\ p \in Nat /\ from <= p
        BY <1>2, <3>2
      <4>4. y \in PluginsOf(ns) => y \in Nat
        BY <2>2
      <4> QED
        BY ONLY <4>2, <4>3, <4>4
    <3>5. /\ it'.seen \in Seq(Nat) /\ Among(it'.seen) = Among(seen) \cup {p}
          /\ \A i, j \in 1 .. Len(it'.seen) : i < j => it'.seen[i] < it'.seen[j]
      BY <3>2, <3>3, <3>4, Appended
    <3>6. named \/ (Plugin!Start <= p /\ p # Plugin!Start)
      BY <1>2, <2>3, <3>2, <3>3
    <3>7. \A f \in PluginsOf(ns) : f <= p <=> f < from \/ f = p
      <4>1. TAKE f \in PluginsOf(ns)
      <4>2. f \in Nat /\ f \notin from .. p - 1
        BY <2>2, <3>2
      <4>3. from \in Nat /\ p \in Nat /\ from <= p
        BY <1>2, <3>2
      <4> QED
        BY ONLY <4>2, <4>3
    <3>8. {f \in PluginsOf(ns) : f <= p /\ (named \/ f # Plugin!Start)} =
            {f \in PluginsOf(ns) : f < from /\ (named \/ f # Plugin!Start)} \cup {p}
      BY <3>2, <3>6, <3>7
    <3> QED
      BY <3>1, <3>3, <3>5, <3>6, <3>8
  <2> QED
    BY <2>4, <2>5
<1>7. /\ Plugin!Start' = Plugin!Start /\ \A m : PluginsOf(m)' = PluginsOf(m)
      /\ \A f \in Plugin!Entry : Plugin!Opened(f)' = Plugin!Opened(f)
  BY DEF Plugin!Start, PluginsOf, Plugin!Opened
<1>8. IteratorInv'
  BY <1>4, <1>5, <1>6, <1>7 DEF IteratorInv, Among
<1> QED
  BY <1>1, <1>8 DEF PluginInv

\* Starting an iteration preserves the invariant.
LEMMA NextBegin ==
  ASSUME Plugin!LoaderAssumption, PluginInv, NEW named \in BOOLEAN, NEW ns \in Nat,
         Plugin!Begin(named, ns)
  PROVE  PluginInv'
<1>1. PICK quiet \in BOOLEAN : quiet = \A f \in Plugin!Entry : Plugin!Opened(f) = files[f]
  OBVIOUS
<1>2. UNCHANGED <<files, mapped, refs, plugins_, crossed, pointer, refused>>
  BY DEF Plugin!Begin
<1>3. <<>> \in Seq(Nat) /\ Len(<<>>) = 0 /\ Among(<<>>) = {} /\ 1 .. 0 = {}
  BY DEF Among
<1>4. MaxEntries \in Nat /\ Plugin!End \in Nat /\ 1 \in 1 .. Plugin!End
  BY ContentsFacts DEF Plugin!End
<1>5. CASE named
  <2>1. PICK from, seen, old, x : /\ from = 1 /\ seen = <<>> /\ old = Plugin!Nothing
                                  /\ x = Plugin!Found(from, ns, old)
    OBVIOUS
  <2>2. it' = [pos |-> x.pos, at |-> x.at, ns |-> ns, named |-> named, quiet |-> quiet,
               seen |-> IF x.pos = Plugin!End \/ ~quiet THEN seen ELSE Append(seen, x.at.path)]
    BY <1>1, <1>5, <2>1 DEF Plugin!Begin, Plugin!Reporting
  <2>3. {f \in PluginsOf(ns) : f < 1 /\ (named \/ f # Plugin!Start)} = {}
    BY <1>4 DEF PluginsOf, Plugin!Entry
  <2>4. Among(<<>>) = (IF named THEN {} ELSE {0})
          \cup {f \in PluginsOf(ns) : f < 1 /\ (named \/ f # Plugin!Start)}
    BY <1>3, <1>5, <2>3
  <2>5. quiet => /\ \A f \in Plugin!Entry : Plugin!Opened(f) = files[f]
                 /\ named \/ Plugin!Start < from
                 /\ seen \in Seq(Nat)
                 /\ \A i, j \in 1 .. Len(seen) : i < j => seen[i] < seen[j]
                 /\ Among(seen) = (IF named THEN {} ELSE {0})
                      \cup {f \in PluginsOf(ns) : f < from /\ (named \/ f # Plugin!Start)}
    BY <1>1, <1>3, <1>5, <2>1, <2>4
  <2>6. from \in 1 .. Plugin!End
    BY <1>4, <2>1
  <2>7. x = Plugin!Found(from, ns, old)
    BY <2>1
  <2>8. old = Plugin!Nothing \/ (old.path \in Plugin!Entry /\ old.id \in Identities)
    BY <2>1
  <2> QED
    BY <1>2, <2>2, <2>5, <2>6, <2>7, <2>8, NextFound
<1>6. CASE ~named
  <2>1. PICK s : s = Plugin!Start
    OBVIOUS
  <2>2. s \in 1 .. Plugin!End /\ \A f \in Plugin!Entry : f < s => files[f].is = "absent"
    BY <2>1, StartRight
  <2>3. it' = [pos |-> s, at |-> Plugin!Nothing, ns |-> ns, named |-> named, quiet |-> quiet,
               seen |-> IF s = Plugin!End \/ ~quiet THEN <<>> ELSE Append(<<>>, 0)]
    BY <1>1, <1>6, <2>1 DEF Plugin!Begin, Plugin!Reporting, Plugin!Nothing
  <2>4. /\ it'.pos = s /\ it'.at = Plugin!Nothing /\ it'.ns = ns /\ it'.named = named
        /\ it'.quiet = quiet
        /\ it'.seen = IF s = Plugin!End \/ ~quiet THEN <<>> ELSE Append(<<>>, 0)
    BY <2>3
  <2>5. Plugin!Start' = s /\ PluginsOf(ns)' = PluginsOf(ns)
        /\ \A f \in Plugin!Entry : Plugin!Opened(f)' = Plugin!Opened(f)
    BY <1>2, <2>1 DEF Plugin!Start, PluginsOf, Plugin!Opened
  <2>6. {f \in PluginsOf(ns) : f <= s /\ (named \/ f # s)} = {}
    <3>1. ASSUME NEW f \in PluginsOf(ns), f <= s, f # s PROVE FALSE
      <4>1. f \in Plugin!Entry /\ files[f].is = "plugin"
        BY DEF PluginsOf
      <4>2. f < s
        BY <1>4, <2>2, <3>1, <4>1 DEF Plugin!Entry
      <4> QED
        BY <2>2, <4>1, <4>2
    <3> QED
      BY <1>6, <3>1
  <2>7. ASSUME quiet
        PROVE  /\ it'.seen \in Seq(Nat)
               /\ \A i, j \in 1 .. Len(it'.seen) : i < j => it'.seen[i] < it'.seen[j]
               /\ s # Plugin!End => Among(it'.seen) = {0}
    <3>1. CASE s = Plugin!End
      BY <1>3, <2>4, <3>1
    <3>2. CASE s # Plugin!End
      <4>1. it'.seen = Append(<<>>, 0)
        BY <2>4, <2>7, <3>2
      <4>2. /\ \A x \in Among(<<>>) : x < 0
            /\ \A i, j \in 1 .. Len(<<>>) : i < j => <<>>[i] < <<>>[j]
        BY <1>3
      <4>3. /\ Append(<<>>, 0) \in Seq(Nat) /\ Among(Append(<<>>, 0)) = Among(<<>>) \cup {0}
            /\ \A i, j \in 1 .. Len(Append(<<>>, 0)) :
                 i < j => Append(<<>>, 0)[i] < Append(<<>>, 0)[j]
        BY <1>3, <4>2, Appended
      <4> QED
        BY <1>3, <4>1, <4>3
    <3> QED
      BY <3>1, <3>2
  <2>8. IteratorInv'
    <3>1. /\ files' \in [Plugin!Entry -> Plugin!Contents]
          /\ DOMAIN it' = {"pos", "at", "ns", "named", "quiet", "seen"}
          /\ it'.pos \in 1 .. Plugin!End /\ it'.ns \in Nat /\ it'.named \in BOOLEAN
          /\ it'.quiet \in BOOLEAN /\ it'.at = Plugin!Nothing
      BY <1>2, <2>2, <2>3, <2>4 DEF PluginInv, IteratorInv
    <3>2. quiet => \A f \in Plugin!Entry : Plugin!Opened(f)' = files'[f]
      BY <1>1, <1>2, <2>5
    <3>3. s <= it'.pos
      BY <1>4, <2>2, <2>4
    <3>4. quiet /\ s # Plugin!End =>
            Among(it'.seen) =
              (IF named THEN {} ELSE {0}) \cup {f \in PluginsOf(ns) : f <= s /\ (named \/ f # s)}
      BY <1>6, <2>6, <2>7
    <3> QED
      BY <1>6, <2>4, <2>5, <2>7, <3>1, <3>2, <3>3, <3>4 DEF IteratorInv, Among
  <2> QED
    BY <1>2, <2>8 DEF PluginInv, LinkInv, OrderInv, PointerInv, Count, Strict
<1> QED
  BY <1>5, <1>6

\* Advancing the iterator preserves the invariant.
LEMMA NextAdvance ==
  ASSUME Plugin!LoaderAssumption, PluginInv, Plugin!Advance
  PROVE  PluginInv'
<1>1. PICK from, ns, named, quiet, seen, old, x :
        /\ from = it.pos + 1 /\ ns = it.ns /\ named = it.named /\ quiet = it.quiet
        /\ seen = it.seen /\ old = it.at /\ x = Plugin!Found(it.pos + 1, it.ns, it.at)
  OBVIOUS
<1>2. /\ it.pos # Plugin!End
      /\ it' = [pos |-> x.pos, at |-> x.at, ns |-> ns, named |-> named, quiet |-> quiet,
                seen |-> IF x.pos = Plugin!End \/ ~quiet THEN seen ELSE Append(seen, x.at.path)]
      /\ UNCHANGED <<files, mapped, refs, plugins_, crossed, pointer, refused>>
  BY <1>1 DEF Plugin!Advance, Plugin!Reporting
<1>3. IteratorInv
  BY DEF PluginInv
<1>4. /\ it.pos \in 1 .. MaxEntries /\ from \in 1 .. Plugin!End /\ ns \in Nat
      /\ named \in BOOLEAN /\ quiet \in BOOLEAN /\ MaxEntries \in Nat
      /\ old = Plugin!Nothing \/ (old.path \in Plugin!Entry /\ old.id \in Identities)
  BY <1>1, <1>2, <1>3, ContentsFacts DEF IteratorInv, Plugin!End
<1>5. ASSUME quiet
      PROVE  /\ \A f \in Plugin!Entry : Plugin!Opened(f) = files[f]
             /\ named \/ Plugin!Start < from
             /\ seen \in Seq(Nat)
             /\ \A i, j \in 1 .. Len(seen) : i < j => seen[i] < seen[j]
             /\ Among(seen) = (IF named THEN {} ELSE {0})
                  \cup {f \in PluginsOf(ns) : f < from /\ (named \/ f # Plugin!Start)}
  <2>1. /\ \A f \in Plugin!Entry : Plugin!Opened(f) = files[f]
        /\ named \/ Plugin!Start <= it.pos
        /\ seen \in Seq(Nat)
        /\ \A i, j \in 1 .. Len(seen) : i < j => seen[i] < seen[j]
        /\ named \/ Plugin!Start # Plugin!End =>
             Among(seen) = (IF named THEN {} ELSE {0})
               \cup {f \in PluginsOf(ns) : f <= it.pos /\ (named \/ f # Plugin!Start)}
    BY <1>1, <1>3, <1>5 DEF IteratorInv, Among
  <2>2. Plugin!Start \in 1 .. Plugin!End
    BY StartRight
  <2>3. named \/ (Plugin!Start < from /\ Plugin!Start # Plugin!End)
    BY <1>1, <1>4, <2>1, <2>2 DEF Plugin!End
  <2>4. \A f \in PluginsOf(ns) : f <= it.pos <=> f < from
    BY <1>1, <1>4 DEF PluginsOf, Plugin!Entry
  <2> QED
    BY <2>1, <2>3, <2>4
<1>6. quiet => /\ \A f \in Plugin!Entry : Plugin!Opened(f) = files[f]
               /\ named \/ Plugin!Start < from
               /\ seen \in Seq(Nat)
               /\ \A i, j \in 1 .. Len(seen) : i < j => seen[i] < seen[j]
               /\ Among(seen) = (IF named THEN {} ELSE {0})
                    \cup {f \in PluginsOf(ns) : f < from /\ (named \/ f # Plugin!Start)}
  BY <1>5
<1>7. x = Plugin!Found(from, ns, old)
  BY <1>1
<1>8. old = Plugin!Nothing \/ (old.path \in Plugin!Entry /\ old.id \in Identities)
  BY <1>4
<1> QED
  BY <1>2, <1>4, <1>6, <1>7, <1>8, NextFound

\* A change of a file preserves the invariant: what is reported does not count any more.
LEMMA NextChange ==
  ASSUME Plugin!LoaderAssumption, PluginInv, NEW f \in Plugin!Entry, NEW c \in Plugin!Contents,
         Plugin!Change(f, c)
  PROVE  PluginInv'
<1>1. /\ files' = [files EXCEPT ![f] = c] /\ it' = [it EXCEPT !.quiet = FALSE, !.seen = <<>>]
      /\ UNCHANGED <<mapped, refs, plugins_, crossed, pointer, refused>>
  BY DEF Plugin!Change
<1>2. LinkInv' /\ OrderInv' /\ PointerInv'
  BY <1>1 DEF PluginInv, LinkInv, OrderInv, PointerInv, Count, Strict
<1>3. files' \in [Plugin!Entry -> Plugin!Contents]
  BY <1>1 DEF PluginInv, IteratorInv
<1>4. /\ it'.pos = it.pos /\ it'.at = it.at /\ it'.ns = it.ns /\ it'.named = it.named
      /\ it'.quiet = FALSE /\ DOMAIN it' = DOMAIN it
  BY <1>1 DEF PluginInv, IteratorInv
<1> QED
  BY <1>2, <1>3, <1>4 DEF PluginInv, IteratorInv

\* Every step preserves the invariant.
LEMMA NextPlugin ==
  ASSUME Plugin!LoaderAssumption, PluginInv, [Plugin!Next]_pluginVars
  PROVE  PluginInv'
<1>1. ASSUME NEW named \in BOOLEAN, NEW ns \in {0} \cup {id[2] : id \in Identities},
             Plugin!Begin(named, ns)
      PROVE  PluginInv'
  <2>1. ns \in Nat
    BY ContentsFacts
  <2> QED
    BY <1>1, <2>1, NextBegin
<1>2. ASSUME Plugin!Advance PROVE PluginInv'
  BY <1>2, NextAdvance
<1>3. ASSUME Plugin!Load PROVE PluginInv'
  <2>1. it.at # Plugin!Nothing /\ Plugin!Import(it.at.id, it.at.path)
    BY <1>3 DEF Plugin!Load
  <2>2. PICK id, f : id = it.at.id /\ f = it.at.path
    OBVIOUS
  <2>3. id \in Identities /\ f \in Plugin!Entry
    BY <2>1, <2>2 DEF PluginInv, IteratorInv
  <2> QED
    BY <2>1, <2>2, <2>3, NextImport
<1>4. ASSUME NEW id \in Identities, Plugin!Search(id) PROVE PluginInv'
  <2>1. PICK found : /\ found = {f \in Plugin!Entry : Plugin!Matches(f, 0) /\ Plugin!Opened(f).id = id}
                     /\ found # {} /\ Plugin!Import(id, Plugin!Least(found))
    BY <1>4 DEF Plugin!Search
  <2>2. found \in SUBSET Nat /\ found \in SUBSET Plugin!Entry
    BY <2>1 DEF Plugin!Entry
  <2>3. PICK f : f = Plugin!Least(found)
    OBVIOUS
  <2>4. f \in Plugin!Entry
    BY <2>1, <2>2, <2>3, LeastRight
  <2> QED
    BY <2>1, <2>3, <2>4, NextImport
<1>5. ASSUME NEW id \in Identities, Plugin!UnloadId(id) PROVE PluginInv'
  BY <1>5, NextUnload
<1>6. ASSUME Plugin!UnloadAll PROVE PluginInv'
  BY <1>6, NextUnloadAll
<1>7. ASSUME Plugin!Lock \/ Plugin!Use \/ Plugin!Release PROVE PluginInv'
  BY <1>7, NextPointer
<1>8. ASSUME NEW f \in Plugin!Entry, NEW c \in Plugin!Contents, Plugin!Change(f, c) PROVE PluginInv'
  BY <1>8, NextChange
<1>9. ASSUME UNCHANGED pluginVars PROVE PluginInv'
  <2>1. /\ Plugin!Start' = Plugin!Start /\ \A ns : PluginsOf(ns)' = PluginsOf(ns)
        /\ \A f \in Plugin!Entry : Plugin!Opened(f)' = Plugin!Opened(f)
    BY <1>9 DEF pluginVars, Plugin!Start, PluginsOf, Plugin!Opened
  <2>2. IteratorInv'
    BY <1>9, <2>1, IteratorKept DEF PluginInv, pluginVars
  <2> QED
    BY <1>9, <2>2 DEF PluginInv, LinkInv, OrderInv, PointerInv, Count, Strict, pluginVars
<1> QED
  BY <1>1, <1>2, <1>3, <1>4, <1>5, <1>6, <1>7, <1>8, <1>9 DEF Plugin!Next

\* The invariant implies that plugins are found, libraries open and iterations complete.
LEMMA PluginImplied ==
  ASSUME Plugin!LoaderAssumption, PluginInv
  PROVE  PluginsSound
<1>1. LinkInv /\ OrderInv /\ PointerInv /\ IteratorInv /\ MapOK(plugins_)
  BY DEF PluginInv, LinkInv
<1>2. DOMAIN plugins_.order = 1 .. Len(plugins_.order)
  BY <1>1, MapFacts
<1>3. Plugin!TypeOK
  <2>1. \A f \in Plugin!Entry : refs[f] \in 0 .. MaxRefs /\ refused[f] \in 0 .. MaxRefs
    <3>1. TAKE f \in Plugin!Entry
    <3>2. /\ refs[f] \in 0 .. MaxRefs /\ refused[f] \in Nat /\ MaxRefs \in Nat
          /\ refs[f] = Count(plugins_, f) + refused[f] /\ Count(plugins_, f) \in Nat
      BY <1>1, Counted, ContentsFacts DEF LinkInv
    <3> QED
      BY <3>2
  <2>2. plugins_.order # <<>> => plugins_.root \in DOMAIN plugins_.order
    BY <1>1, <1>2, MapFacts DEF MapOK
  <2> QED
    BY <1>1, <2>1, <2>2 DEF Plugin!TypeOK, LinkInv, IteratorInv
<1>4. Plugin!LookupRight
  <2>1. ASSUME NEW id \in Identities, Plugin!is_loaded(id) PROVE id \in Plugin!Ids
    <3>1. PICK k : k = Plugin!Find(plugins_, id)
      OBVIOUS
    <3>2. k \in 1 .. Len(plugins_.order) /\ plugins_.order[k].id = id
      BY <1>1, <2>1, <3>1, FoundRight DEF Plugin!is_loaded
    <3> QED
      BY <1>2, <3>2 DEF Plugin!Ids
  <2>2. ASSUME ~crossed
        PROVE  /\ Plugin!Cardinality(Plugin!Ids) = Len(plugins_.order)
               /\ \A id \in Plugin!Ids : Plugin!is_loaded(id)
    <3>1. Strict(plugins_)
      BY <1>1, <2>2 DEF OrderInv
    <3>2. Cardinality(Plugin!Ids) = Len(plugins_.order)
      BY <1>1, <3>1, StrictIds DEF Plugin!Ids
    <3>3. ASSUME NEW k \in 1 .. Len(plugins_.order)
          PROVE  Plugin!is_loaded(plugins_.order[k].id)
      BY <1>1, <3>1, StrictFinds DEF Plugin!is_loaded
    <3> QED
      BY <1>2, <3>2, <3>3, LoaderCounts DEF Plugin!Ids
  <2> QED
    BY <2>1, <2>2 DEF Plugin!LookupRight
<1>5. Plugin!ReferencesExact
  <2>1. \A f : Plugin!Entries(f) = Count(plugins_, f)
    BY LoaderCounts DEF Plugin!Entries, Count
  <2>2. \A f \in Plugin!Entry : refs[f] = Plugin!Entries(f) + refused[f]
    BY <1>1, <2>1 DEF LinkInv
  <2>3. \A k \in DOMAIN plugins_.order :
          LET e == plugins_.order[k] IN
          /\ refs[e.path] > 0 /\ mapped[e.path] = Plugin!Library(e.id, TRUE)
          /\ e.held => ~pointer.gone
    BY <1>1, <1>2, OpenForEntries DEF LinkInv
  <2>4. pointer.path # 0 => (pointer.gone <=> refs[pointer.path] = 0)
    BY <1>1 DEF PointerInv
  <2> QED
    BY <2>2, <2>3, <2>4 DEF Plugin!ReferencesExact
<1>6. Plugin!IterationRight
  <2>1. SUFFICES ASSUME it.pos = Plugin!End, it.quiet, it.named \/ Plugin!Start # Plugin!End
                 PROVE  /\ \A i, j \in DOMAIN it.seen : i < j => it.seen[i] < it.seen[j]
                        /\ {it.seen[i] : i \in DOMAIN it.seen} =
                             IF it.named THEN PluginsOf(it.ns)
                             ELSE {0} \cup (PluginsOf(it.ns) \ {Plugin!Start})
    BY DEF Plugin!IterationRight, PluginsOf
  <2>2. /\ it.seen \in Seq(Nat)
        /\ \A i, j \in 1 .. Len(it.seen) : i < j => it.seen[i] < it.seen[j]
        /\ {it.seen[i] : i \in 1 .. Len(it.seen)} =
             (IF it.named THEN {} ELSE {0})
             \cup {f \in PluginsOf(it.ns) : f <= it.pos /\ (it.named \/ f # Plugin!Start)}
    BY <1>1, <2>1 DEF IteratorInv
  <2>3. DOMAIN it.seen = 1 .. Len(it.seen)
    BY <2>2, LenProperties
  <2>4. \A f \in PluginsOf(it.ns) : f <= it.pos
    BY <2>1, ContentsFacts DEF PluginsOf, Plugin!Entry, Plugin!End
  <2> QED
    BY <2>2, <2>3, <2>4
<1> QED
  BY <1>3, <1>4, <1>5, <1>6 DEF PluginsSound

\* For every set of identities, every directory and any number of references, and a map of at
\* most three plugins: plugins are found, libraries are open as often as they should, and an
\* iteration reports what there is, but for the named cases (Loader).
THEOREM PluginsAreSound == Plugin!Spec => []PluginsSound
<1>1. Plugin!LoaderAssumption
  BY FlatAssumption
<1>2. Plugin!Init => PluginInv
  BY <1>1, InitPlugin
<1>3. PluginInv /\ [Plugin!Next]_pluginVars => PluginInv'
  BY <1>1, NextPlugin
<1>4. PluginInv => PluginsSound
  BY <1>1, PluginImplied
<1> QED
  BY <1>2, <1>3, <1>4, PTL DEF Plugin!Spec, Plugin!vars, pluginVars

-----------------------------------------------------------------------------
(* AVL: recursion and induction over trees *)

\* The trees of at most 0, 1, .. MaxNodes levels
Node(S) == [value : Int, depth : Nat, ref : Nat, left : S, right : S]

\* T gives the trees of at most 0 .. n levels
IsLevels(T, n) == T = [h \in 0 .. n |-> {Avl!Null} \cup IF h = 0 THEN {} ELSE Node(T[h - 1])]

\* The trees of each number of levels
Levels == CHOOSE T : IsLevels(T, MaxNodes)

\* A property of numbers that passes from each to the next holds up to the last.
LEMMA UpTo ==
  ASSUME NEW n \in Nat, NEW S, 0 \in S, \A k \in 1 .. n : k - 1 \in S => k \in S
  PROVE  0 .. n \subseteq S
<1> DEFINE Bad == (0 .. n) \ S
<1>1. ASSUME Bad # {} PROVE FALSE
  <2>0. Bad \in SUBSET Nat
    OBVIOUS
  <2> HIDE DEF Bad
  <2>1. PICK k \in Bad : \A m \in 0 .. k - 1 : m \notin Bad
    BY <1>1, <2>0, LeastNumber
  <2> USE DEF Bad
  <2>2. k \in 0 .. n /\ k \notin S
    BY <2>1
  <2>3. k # 0
    BY <2>2
  <2>4. k \in 1 .. n /\ k - 1 \in 0 .. k - 1 /\ k - 1 \in 0 .. n
    BY <2>2, <2>3
  <2>5. k - 1 \in S
    BY <2>1, <2>4
  <2> QED
    BY <2>2, <2>4, <2>5
<1> QED
  BY <1>1

\* The levels are built one upon the other.
LEMMA LevelsBuilt ==
  ASSUME Avl!AvlAssumption
  PROVE  /\ MaxNodes \in Nat \ {0} /\ Values \subseteq Int
         /\ Levels[0] = {Avl!Null} /\ Avl!Tree = Levels[MaxNodes]
         /\ \A k \in 1 .. MaxNodes : Levels[k] = {Avl!Null} \cup Node(Levels[k - 1])
<1>1. MaxNodes \in Nat \ {0} /\ Values \subseteq Int
  BY DEF Avl!AvlAssumption
<1> DEFINE S == {k \in Nat : \E T : IsLevels(T, k)}
<1>2. 0 \in S
  <2>1. IsLevels([h \in 0 .. 0 |-> {Avl!Null}], 0)
    BY DEF IsLevels
  <2> QED
    BY <2>1
<1>3. ASSUME NEW k \in 1 .. MaxNodes, k - 1 \in S PROVE k \in S
  <2>1. PICK T : IsLevels(T, k - 1)
    BY <1>3
  <2>2. \A h \in 0 .. k - 1 : T[h] = {Avl!Null} \cup IF h = 0 THEN {} ELSE Node(T[h - 1])
    BY <2>1 DEF IsLevels
  <2> DEFINE Next(h) == {Avl!Null} \cup IF h = 0 THEN {} ELSE Node(T[h - 1])
             U == [h \in 0 .. k |-> Next(h)]
  <2>3. \A h \in 0 .. k : h # 0 => h - 1 \in 0 .. k /\ h - 1 \in 0 .. k - 1
    OBVIOUS
  <2>4. \A h \in 0 .. k : h # 0 => U[h - 1] = T[h - 1]
    BY <2>2, <2>3
  <2>5. \A h \in 0 .. k : U[h] = {Avl!Null} \cup IF h = 0 THEN {} ELSE Node(U[h - 1])
    BY <2>4
  <2>6. U = [h \in 0 .. k |-> U[h]]
    OBVIOUS
  <2> HIDE DEF U
  <2>7. IsLevels(U, k)
    BY <2>5, <2>6 DEF IsLevels
  <2> QED
    BY <2>7
<1>4. MaxNodes \in S
  <2> HIDE DEF S
  <2>1. 0 .. MaxNodes \subseteq S
    BY <1>1, <1>2, <1>3, UpTo
  <2> QED
    BY <1>1, <2>1
<1>5. IsLevels(Levels, MaxNodes)
  BY <1>4 DEF Levels
<1>6. Avl!Tree = Levels[MaxNodes]
  BY DEF Avl!Tree, Levels, IsLevels, Node
<1>7. /\ Levels[0] = {Avl!Null}
      /\ \A k \in 1 .. MaxNodes : Levels[k] = {Avl!Null} \cup Node(Levels[k - 1])
  <2>1. \A k \in 0 .. MaxNodes :
          Levels[k] = {Avl!Null} \cup IF k = 0 THEN {} ELSE Node(Levels[k - 1])
    BY <1>5 DEF IsLevels
  <2>2. 0 \in 0 .. MaxNodes /\ \A k \in 1 .. MaxNodes : k \in 0 .. MaxNodes /\ k # 0
    BY <1>1
  <2> QED
    BY <2>1, <2>2
<1> QED
  BY <1>1, <1>6, <1>7

\* A tree has at most as many levels as there is room for; each level has the ones before.
LEMMA LevelsGrow ==
  ASSUME Avl!AvlAssumption, NEW j \in 0 .. MaxNodes
  PROVE  \A k \in 0 .. j : Levels[k] \subseteq Levels[j]
<1>1. MaxNodes \in Nat
  BY LevelsBuilt
<1> DEFINE S == {k \in Nat : k < MaxNodes => Levels[k] \subseteq Levels[k + 1]}
<1>2. 0 \in S
  <2>1. 0 < MaxNodes => 1 \in 1 .. MaxNodes /\ 1 - 1 = 0
    BY <1>1
  <2>2. 0 < MaxNodes => Levels[0] \subseteq Levels[1]
    BY <2>1, LevelsBuilt
  <2> QED
    BY <2>2
<1>3. ASSUME NEW k \in 1 .. MaxNodes, k - 1 \in S PROVE k \in S
  <2>1. SUFFICES ASSUME k < MaxNodes PROVE Levels[k] \subseteq Levels[k + 1]
    OBVIOUS
  <2>2. k - 1 < MaxNodes /\ k - 1 + 1 = k /\ k + 1 \in 1 .. MaxNodes /\ k + 1 - 1 = k
    BY <1>1, <2>1
  <2>3. Levels[k - 1] \subseteq Levels[k]
    BY <1>3, <2>2
  <2>4. Node(Levels[k - 1]) \subseteq Node(Levels[k])
    BY <2>3 DEF Node
  <2>5. Levels[k] = {Avl!Null} \cup Node(Levels[k - 1])
    BY LevelsBuilt
  <2>6. Levels[k + 1] = {Avl!Null} \cup Node(Levels[k])
    BY <2>2, LevelsBuilt
  <2> QED
    BY <2>4, <2>5, <2>6
<1>4. 0 .. MaxNodes \subseteq S
  <2> HIDE DEF S
  <2> QED
    BY <1>1, <1>2, <1>3, UpTo
<1>5. \A k \in 0 .. MaxNodes : k < MaxNodes => Levels[k] \subseteq Levels[k + 1]
  BY <1>4
<1> DEFINE U == {i \in Nat : i <= MaxNodes => \A k \in 0 .. i : Levels[k] \subseteq Levels[i]}
<1>6. 0 \in U
  OBVIOUS
<1>7. ASSUME NEW i \in 1 .. MaxNodes, i - 1 \in U PROVE i \in U
  <2>1. i - 1 <= MaxNodes /\ i - 1 \in 0 .. MaxNodes /\ i - 1 < MaxNodes /\ i - 1 + 1 = i
    BY <1>1
  <2>2. Levels[i - 1] \subseteq Levels[i]
    BY <1>5, <2>1
  <2>3. \A k \in 0 .. i - 1 : Levels[k] \subseteq Levels[i - 1]
    BY <1>7, <2>1
  <2>4. \A k \in 0 .. i : k = i \/ k \in 0 .. i - 1
    OBVIOUS
  <2> QED
    BY <2>2, <2>3, <2>4
<1>8. 0 .. MaxNodes \subseteq U
  <2> HIDE DEF U
  <2> QED
    BY <1>1, <1>6, <1>7, UpTo
<1> QED
  BY <1>8

\* A tree is empty, or a node with two trees for its branches.
LEMMA TreeShape ==
  ASSUME Avl!AvlAssumption
  PROVE  /\ Avl!Null \in Avl!Tree /\ Avl!Null.depth = 0
         /\ \A t \in Avl!Tree \ {Avl!Null} : t \in Node(Avl!Tree)
         /\ \A S : Avl!Null \notin Node(S)
<1>1. MaxNodes \in Nat \ {0} /\ Avl!Tree = Levels[MaxNodes]
  BY LevelsBuilt
<1>2. MaxNodes \in 1 .. MaxNodes /\ MaxNodes - 1 \in 0 .. MaxNodes /\ MaxNodes \in 0 .. MaxNodes
  BY <1>1
<1>3. Levels[MaxNodes] = {Avl!Null} \cup Node(Levels[MaxNodes - 1])
  BY <1>2, LevelsBuilt
<1>4. Levels[MaxNodes - 1] \subseteq Levels[MaxNodes]
  BY <1>2, LevelsGrow
<1>5. Node(Levels[MaxNodes - 1]) \subseteq Node(Avl!Tree)
  BY <1>1, <1>4 DEF Node
<1>6. ASSUME NEW S PROVE Avl!Null \notin Node(S)
  <2>1. DOMAIN Avl!Null = {"depth"}
    BY DEF Avl!Null
  <2>2. \A x \in Node(S) : "value" \in DOMAIN x
    BY DEF Node
  <2> QED
    BY <2>1, <2>2
<1>7. Avl!Null.depth = 0
  BY DEF Avl!Null
<1> QED
  BY <1>1, <1>3, <1>5, <1>6, <1>7

\* What holds for the empty tree, and for a node if it does for the branches, holds for trees.
LEMMA TreeInduction ==
  ASSUME Avl!AvlAssumption, NEW S, Avl!Null \in S,
         \A t \in Avl!Tree \ {Avl!Null} : t.left \in S /\ t.right \in S => t \in S
  PROVE  Avl!Tree \subseteq S
<1>1. MaxNodes \in Nat \ {0} /\ Avl!Tree = Levels[MaxNodes] /\ Levels[0] = {Avl!Null}
  BY LevelsBuilt
<1> DEFINE U == {k \in Nat : k <= MaxNodes => Levels[k] \subseteq S}
<1>2. 0 \in U
  BY <1>1
<1>3. ASSUME NEW k \in 1 .. MaxNodes, k - 1 \in U PROVE k \in U
  <2>1. Levels[k - 1] \subseteq S
    BY <1>1, <1>3
  <2>2. Levels[k] = {Avl!Null} \cup Node(Levels[k - 1])
    BY LevelsBuilt
  <2>3. Levels[k] \subseteq Avl!Tree
    <3>1. MaxNodes \in 0 .. MaxNodes /\ k \in 0 .. MaxNodes
      BY <1>1
    <3> QED
      BY <1>1, <3>1, LevelsGrow
  <2>4. ASSUME NEW t \in Levels[k] PROVE t \in S
    <3>1. CASE t = Avl!Null
      BY <3>1
    <3>2. CASE t # Avl!Null
      <4>1. t.left \in S /\ t.right \in S
        BY <2>1, <2>2, <3>2 DEF Node
      <4> QED
        BY <2>3, <3>2, <4>1
    <3> QED
      BY <3>1, <3>2
  <2> QED
    BY <2>4
<1>4. 0 .. MaxNodes \subseteq U
  <2> HIDE DEF U
  <2> QED
    BY <1>1, <1>2, <1>3, UpTo
<1>5. MaxNodes \in U
  BY <1>1, <1>4
<1> QED
  BY <1>1, <1>5

\* The branches of a tree of k levels have k - 1 levels.
LEMMA BranchLevels ==
  ASSUME Avl!AvlAssumption, NEW k \in 1 .. MaxNodes
  PROVE  /\ Levels[k - 1] \subseteq Levels[k] /\ Avl!Null \in Levels[k - 1]
         /\ \A t \in Levels[k] \ {Avl!Null} :
              t.left \in Levels[k - 1] /\ t.right \in Levels[k - 1]
<1>1. MaxNodes \in Nat \ {0} /\ Levels[0] = {Avl!Null}
      /\ Levels[k] = {Avl!Null} \cup Node(Levels[k - 1])
  BY LevelsBuilt
<1>2. k \in 0 .. MaxNodes /\ k - 1 \in 0 .. MaxNodes /\ k - 1 \in 0 .. k /\ 0 \in 0 .. k - 1
  BY <1>1
<1>3. Levels[k - 1] \subseteq Levels[k]
  BY <1>2, LevelsGrow
<1>4. Levels[0] \subseteq Levels[k - 1]
  BY <1>2, LevelsGrow
<1> QED
  BY <1>1, <1>3, <1>4 DEF Node

\* find() looks in the branch that can have the value.
LEMMA FindSteps ==
  ASSUME Avl!AvlAssumption, NEW v
  PROVE  /\ Avl!Find(Avl!Null, v) = 0
         /\ \A t \in Avl!Tree \ {Avl!Null} :
              Avl!Find(t, v) = IF v < t.value THEN Avl!Find(t.left, v)
                               ELSE IF t.value < v THEN Avl!Find(t.right, v)
                               ELSE t.ref
<1> DEFINE Body(f, t) == IF t = Avl!Null THEN 0
                         ELSE IF v < t.value THEN f[t.left]
                         ELSE IF t.value < v THEN f[t.right]
                         ELSE t.ref
           Finds(f, T) == f = [t \in T |-> Body(f, t)]
           find == CHOOSE f : Finds(f, Avl!Tree)
           S == {k \in Nat : k <= MaxNodes => \E f : Finds(f, Levels[k])}
<1>1. MaxNodes \in Nat \ {0} /\ Avl!Tree = Levels[MaxNodes] /\ Levels[0] = {Avl!Null}
  BY LevelsBuilt
<1>2. 0 \in S
  <2>1. Finds([t \in {Avl!Null} |-> 0], Levels[0])
    BY <1>1
  <2> QED
    BY <2>1
<1>3. ASSUME NEW k \in 1 .. MaxNodes, k - 1 \in S PROVE k \in S
  <2>1. k - 1 <= MaxNodes /\ k - 1 \in Nat /\ k \in Nat
    BY <1>1
  <2>2. PICK g : Finds(g, Levels[k - 1])
    BY <1>3, <2>1
  <2>3. \A t \in Levels[k - 1] : g[t] = Body(g, t)
    BY <2>2
  <2> DEFINE h == [t \in Levels[k] |-> Body(g, t)]
  <2>4. \A t \in Levels[k - 1] : h[t] = g[t]
    BY <2>3, BranchLevels
  <2>5. \A t \in Levels[k] : Body(h, t) = Body(g, t)
    BY <2>4, BranchLevels
  <2>6. h = [t \in Levels[k] |-> Body(h, t)]
    BY <2>5
  <2> QED
    BY <2>1, <2>6
<1>4. \E f : Finds(f, Avl!Tree)
  <2> HIDE DEF Finds
  <2>1. 0 .. MaxNodes \subseteq S
    <3> HIDE DEF S
    <3> QED
      BY <1>1, <1>2, <1>3, UpTo
  <2> QED
    BY <1>1, <2>1
<1>5. Finds(find, Avl!Tree)
  <2> HIDE DEF Finds
  <2> QED
    BY <1>4
<1>6. \A t \in Avl!Tree : Avl!Find(t, v) = find[t]
  BY DEF Avl!Find
<1> HIDE DEF find
<1>7. \A t \in Avl!Tree : find[t] = Body(find, t)
  BY <1>5
<1>8. \A t \in Avl!Tree \ {Avl!Null} : t.left \in Avl!Tree /\ t.right \in Avl!Tree
  BY TreeShape DEF Node
<1> QED
  BY <1>6, <1>7, <1>8, TreeShape

\* The branches of a node are those of its branches, and itself.
LEMMA BranchSteps ==
  ASSUME Avl!AvlAssumption
  PROVE  /\ Avl!Branches(Avl!Null) = {}
         /\ \A t \in Avl!Tree \ {Avl!Null} :
              Avl!Branches(t) = {t} \cup Avl!Branches(t.left) \cup Avl!Branches(t.right)
<1> DEFINE Body(f, t) == IF t = Avl!Null THEN {} ELSE {t} \cup f[t.left] \cup f[t.right]
           Finds(f, T) == f = [t \in T |-> Body(f, t)]
           within == CHOOSE f : Finds(f, Avl!Tree)
           S == {k \in Nat : k <= MaxNodes => \E f : Finds(f, Levels[k])}
<1>1. MaxNodes \in Nat \ {0} /\ Avl!Tree = Levels[MaxNodes] /\ Levels[0] = {Avl!Null}
  BY LevelsBuilt
<1>2. 0 \in S
  <2>1. Finds([t \in {Avl!Null} |-> {}], Levels[0])
    BY <1>1
  <2> QED
    BY <2>1
<1>3. ASSUME NEW k \in 1 .. MaxNodes, k - 1 \in S PROVE k \in S
  <2>1. k - 1 <= MaxNodes /\ k - 1 \in Nat /\ k \in Nat
    BY <1>1
  <2>2. PICK g : Finds(g, Levels[k - 1])
    BY <1>3, <2>1
  <2>3. \A t \in Levels[k - 1] : g[t] = Body(g, t)
    BY <2>2
  <2> DEFINE h == [t \in Levels[k] |-> Body(g, t)]
  <2>4. \A t \in Levels[k - 1] : h[t] = g[t]
    BY <2>3, BranchLevels
  <2>5. \A t \in Levels[k] : Body(h, t) = Body(g, t)
    BY <2>4, BranchLevels
  <2>6. h = [t \in Levels[k] |-> Body(h, t)]
    BY <2>5
  <2> QED
    BY <2>1, <2>6
<1>4. \E f : Finds(f, Avl!Tree)
  <2> HIDE DEF Finds
  <2>1. 0 .. MaxNodes \subseteq S
    <3> HIDE DEF S
    <3> QED
      BY <1>1, <1>2, <1>3, UpTo
  <2> QED
    BY <1>1, <2>1
<1>5. Finds(within, Avl!Tree)
  <2> HIDE DEF Finds
  <2> QED
    BY <1>4
<1>6. \A t \in Avl!Tree : Avl!Branches(t) = within[t]
  BY DEF Avl!Branches
<1> HIDE DEF within
<1>7. \A t \in Avl!Tree : within[t] = Body(within, t)
  BY <1>5
<1>8. \A t \in Avl!Tree \ {Avl!Null} : t.left \in Avl!Tree /\ t.right \in Avl!Tree
  BY TreeShape DEF Node
<1>9. ASSUME NEW t \in Avl!Tree \ {Avl!Null}
      PROVE  within[t] = {t} \cup within[t.left] \cup within[t.right]
  BY <1>7
<1>10. within[Avl!Null] = {} /\ Avl!Null \in Avl!Tree
  BY <1>7, TreeShape
<1>11. Avl!Branches(Avl!Null) = {}
  BY <1>6, <1>10
<1> QED
  BY <1>6, <1>8, <1>9, <1>11

\* The occurrences in a node are those of its branches, and its own.
LEMMA OccurrenceSteps ==
  ASSUME Avl!AvlAssumption
  PROVE  /\ Avl!Occurrences(Avl!Null) = 0
         /\ \A t \in Avl!Tree \ {Avl!Null} :
              Avl!Occurrences(t) = Avl!Occurrences(t.left) + t.ref + Avl!Occurrences(t.right)
<1> DEFINE Body(f, t) == IF t = Avl!Null THEN 0 ELSE f[t.left] + t.ref + f[t.right]
           Finds(f, T) == f = [t \in T |-> Body(f, t)]
           sum == CHOOSE f : Finds(f, Avl!Tree)
           S == {k \in Nat : k <= MaxNodes => \E f : Finds(f, Levels[k])}
<1>1. MaxNodes \in Nat \ {0} /\ Avl!Tree = Levels[MaxNodes] /\ Levels[0] = {Avl!Null}
  BY LevelsBuilt
<1>2. 0 \in S
  <2>1. Finds([t \in {Avl!Null} |-> 0], Levels[0])
    BY <1>1
  <2> QED
    BY <2>1
<1>3. ASSUME NEW k \in 1 .. MaxNodes, k - 1 \in S PROVE k \in S
  <2>1. k - 1 <= MaxNodes /\ k - 1 \in Nat /\ k \in Nat
    BY <1>1
  <2>2. PICK g : Finds(g, Levels[k - 1])
    BY <1>3, <2>1
  <2>3. \A t \in Levels[k - 1] : g[t] = Body(g, t)
    BY <2>2
  <2> DEFINE h == [t \in Levels[k] |-> Body(g, t)]
  <2>4. \A t \in Levels[k - 1] : h[t] = g[t]
    BY <2>3, BranchLevels
  <2>5. \A t \in Levels[k] : Body(h, t) = Body(g, t)
    BY <2>4, BranchLevels
  <2>6. h = [t \in Levels[k] |-> Body(h, t)]
    BY <2>5
  <2> QED
    BY <2>1, <2>6
<1>4. \E f : Finds(f, Avl!Tree)
  <2> HIDE DEF Finds
  <2>1. 0 .. MaxNodes \subseteq S
    <3> HIDE DEF S
    <3> QED
      BY <1>1, <1>2, <1>3, UpTo
  <2> QED
    BY <1>1, <2>1
<1>5. Finds(sum, Avl!Tree)
  <2> HIDE DEF Finds
  <2> QED
    BY <1>4
<1>6. \A t \in Avl!Tree : Avl!Occurrences(t) = sum[t]
  BY DEF Avl!Occurrences
<1> HIDE DEF sum
<1>7. \A t \in Avl!Tree : sum[t] = Body(sum, t)
  BY <1>5
<1>8. \A t \in Avl!Tree \ {Avl!Null} : t.left \in Avl!Tree /\ t.right \in Avl!Tree
  BY TreeShape DEF Node
<1> QED
  BY <1>6, <1>7, <1>8, TreeShape

\* The least node is the one at the left.
LEMMA LeastSteps ==
  ASSUME Avl!AvlAssumption
  PROVE  \A t \in Avl!Tree \ {Avl!Null} :
           Avl!MinNode(t) = IF t.left = Avl!Null THEN t ELSE Avl!MinNode(t.left)
<1> DEFINE Body(f, t) == IF t.left = Avl!Null THEN t ELSE f[t.left]
           Finds(f, T) == f = [t \in T \ {Avl!Null} |-> Body(f, t)]
           min == CHOOSE f : Finds(f, Avl!Tree)
           S == {k \in Nat : k <= MaxNodes => \E f : Finds(f, Levels[k])}
<1>1. MaxNodes \in Nat \ {0} /\ Avl!Tree = Levels[MaxNodes] /\ Levels[0] = {Avl!Null}
  BY LevelsBuilt
<1>2. 0 \in S
  <2>1. Finds([t \in {} |-> 0], Levels[0])
    BY <1>1
  <2> QED
    BY <2>1
<1>3. ASSUME NEW k \in 1 .. MaxNodes, k - 1 \in S PROVE k \in S
  <2>1. k - 1 <= MaxNodes /\ k - 1 \in Nat /\ k \in Nat
    BY <1>1
  <2>2. PICK g : Finds(g, Levels[k - 1])
    BY <1>3, <2>1
  <2>3. \A t \in Levels[k - 1] \ {Avl!Null} : g[t] = Body(g, t)
    BY <2>2
  <2> DEFINE h == [t \in Levels[k] \ {Avl!Null} |-> Body(g, t)]
  <2>4. \A t \in Levels[k - 1] \ {Avl!Null} : h[t] = g[t]
    BY <2>3, BranchLevels
  <2>5. \A t \in Levels[k] \ {Avl!Null} : Body(h, t) = Body(g, t)
    BY <2>4, BranchLevels
  <2>6. h = [t \in Levels[k] \ {Avl!Null} |-> Body(h, t)]
    BY <2>5
  <2> QED
    BY <2>1, <2>6
<1>4. \E f : Finds(f, Avl!Tree)
  <2> HIDE DEF Finds
  <2>1. 0 .. MaxNodes \subseteq S
    <3> HIDE DEF S
    <3> QED
      BY <1>1, <1>2, <1>3, UpTo
  <2> QED
    BY <1>1, <2>1
<1>5. Finds(min, Avl!Tree)
  <2> HIDE DEF Finds
  <2> QED
    BY <1>4
<1>6. \A t \in Avl!Tree \ {Avl!Null} : Avl!MinNode(t) = min[t]
  BY DEF Avl!MinNode
<1> HIDE DEF min
<1>7. \A t \in Avl!Tree \ {Avl!Null} : min[t] = Body(min, t)
  BY <1>5
<1>8. \A t \in Avl!Tree \ {Avl!Null} : t.left \in Avl!Tree /\ t.right \in Avl!Tree
  BY TreeShape DEF Node
<1> QED
  BY <1>6, <1>7, <1>8, TreeShape

\* What insert() makes of a node, when l and r are what it makes of its branches
InsertStep(t, v, l, r) ==
  LET m == Avl!Deepened(IF v < t.value THEN [t EXCEPT !.left = l] ELSE [t EXCEPT !.right = r])
  IN
  IF t = Avl!Null THEN Avl!NewNode(v)
  ELSE IF v = t.value THEN [t EXCEPT !.ref = @ + 1]
  ELSE Avl!Rebalanced(m, m.left # Avl!Null /\ v > m.left.value,
                         m.right # Avl!Null /\ v < m.right.value)

\* insert() inserts into a branch and rebalances.
LEMMA InsertSteps ==
  ASSUME Avl!AvlAssumption, NEW v
  PROVE  \A t \in Avl!Tree :
           Avl!NodeInsert(t, v) =
             InsertStep(t, v, Avl!NodeInsert(t.left, v), Avl!NodeInsert(t.right, v))
<1> DEFINE Body(f, t) == InsertStep(t, v, f[t.left], f[t.right])
           Finds(f, T) == f = [t \in T |-> Body(f, t)]
           insert == CHOOSE f : Finds(f, Avl!Tree)
           S == {k \in Nat : k <= MaxNodes => \E f : Finds(f, Levels[k])}
<1>1. MaxNodes \in Nat \ {0} /\ Avl!Tree = Levels[MaxNodes] /\ Levels[0] = {Avl!Null}
  BY LevelsBuilt
<1>2. 0 \in S
  <2>1. Finds([t \in {Avl!Null} |-> Avl!NewNode(v)], Levels[0])
    BY <1>1 DEF InsertStep
  <2> QED
    BY <2>1
<1>3. ASSUME NEW k \in 1 .. MaxNodes, k - 1 \in S PROVE k \in S
  <2>1. k - 1 <= MaxNodes /\ k - 1 \in Nat /\ k \in Nat
    BY <1>1
  <2>2. PICK g : Finds(g, Levels[k - 1])
    BY <1>3, <2>1
  <2>3. \A t \in Levels[k - 1] : g[t] = Body(g, t)
    BY <2>2
  <2> DEFINE h == [t \in Levels[k] |-> Body(g, t)]
  <2>4. \A t \in Levels[k - 1] : h[t] = g[t]
    BY <2>3, BranchLevels
  <2>5. \A t \in Levels[k] : Body(h, t) = Body(g, t)
    <3>1. ASSUME NEW t \in Levels[k], t = Avl!Null PROVE Body(h, t) = Body(g, t)
      <4>1. \A l, r : InsertStep(t, v, l, r) = Avl!NewNode(v)
        BY <3>1 DEF InsertStep
      <4> HIDE DEF h
      <4> QED
        BY <4>1
    <3>2. ASSUME NEW t \in Levels[k], t # Avl!Null PROVE Body(h, t) = Body(g, t)
      <4>1. h[t.left] = g[t.left] /\ h[t.right] = g[t.right]
        <5> HIDE DEF h
        <5> QED
          BY <2>4, <3>2, BranchLevels
      <4> HIDE DEF h
      <4> QED
        BY <4>1
    <3> HIDE DEF Body, h
    <3> QED
      BY <3>1, <3>2
  <2>6. h = [t \in Levels[k] |-> Body(h, t)]
    BY <2>5
  <2> QED
    BY <2>1, <2>6
<1>4. \E f : Finds(f, Avl!Tree)
  <2> HIDE DEF Finds
  <2>1. 0 .. MaxNodes \subseteq S
    <3> HIDE DEF S
    <3> QED
      BY <1>1, <1>2, <1>3, UpTo
  <2> QED
    BY <1>1, <2>1
<1>5. Finds(insert, Avl!Tree)
  <2> HIDE DEF Finds
  <2> QED
    BY <1>4
<1>6. \A t \in Avl!Tree : Avl!NodeInsert(t, v) = insert[t]
  BY DEF Avl!NodeInsert, InsertStep
<1> HIDE DEF insert
<1>7. \A t \in Avl!Tree : insert[t] = Body(insert, t)
  BY <1>5
<1>8. \A t \in Avl!Tree \ {Avl!Null} : t.left \in Avl!Tree /\ t.right \in Avl!Tree
  BY TreeShape DEF Node
<1> QED
  <2>1. TAKE t \in Avl!Tree
  <2>2. Avl!NodeInsert(t, v) = InsertStep(t, v, insert[t.left], insert[t.right])
    BY <1>6, <1>7
  <2>3. CASE t = Avl!Null
    <3>1. \A l, r : InsertStep(t, v, l, r) = Avl!NewNode(v)
      BY <2>3 DEF InsertStep
    <3> QED
      BY <2>2, <3>1
  <2>4. CASE t # Avl!Null
    BY <1>6, <1>8, <2>2, <2>4
  <2> QED
    BY <2>3, <2>4

\* What remove() makes of a node, when l, r and rest are what it makes of its branches
RemovedLeft(t, l) == Avl!AfterRemoval(Avl!Deepened([t EXCEPT !.left = l]))
RemovedRight(t, r) == Avl!AfterRemoval(Avl!Deepened([t EXCEPT !.right = r]))
RemoveStep(t, w, ref, l, r, rest) ==
  IF t = Avl!Null THEN Avl!Null
  ELSE IF w < t.value THEN RemovedLeft(t, l)
  ELSE IF w > t.value THEN RemovedRight(t, r)
  ELSE IF ref /\ t.ref > 1 THEN [t EXCEPT !.ref = @ - 1]
  ELSE Avl!Replaced(t, rest)

\* remove() removes from a branch, or replaces the node, and rebalances.
LEMMA RemoveSteps ==
  ASSUME Avl!AvlAssumption
  PROVE  \A t \in Avl!Tree : \A w \in Values, ref \in BOOLEAN :
           Avl!NodeRemove(t, w, ref) =
             RemoveStep(t, w, ref, Avl!NodeRemove(t.left, w, ref), Avl!NodeRemove(t.right, w, ref),
                        Avl!NodeRemove(t.right, Avl!MinNode(t.right).value, FALSE))
<1> DEFINE Body(f, t) == [w \in Values |-> [ref \in BOOLEAN |->
             RemoveStep(t, w, ref, f[t.left][w][ref], f[t.right][w][ref],
                        f[t.right][Avl!MinNode(t.right).value][FALSE])]]
           Finds(f, T) == f = [t \in T |-> Body(f, t)]
           remove == CHOOSE f : Finds(f, Avl!Tree)
           S == {k \in Nat : k <= MaxNodes => \E f : Finds(f, Levels[k])}
<1>1. MaxNodes \in Nat \ {0} /\ Avl!Tree = Levels[MaxNodes] /\ Levels[0] = {Avl!Null}
  BY LevelsBuilt
<1>2. 0 \in S
  <2>1. Finds([t \in {Avl!Null} |-> [w \in Values |-> [ref \in BOOLEAN |-> Avl!Null]]], Levels[0])
    BY <1>1 DEF RemoveStep
  <2> QED
    BY <2>1
<1>3. ASSUME NEW k \in 1 .. MaxNodes, k - 1 \in S PROVE k \in S
  <2>1. k - 1 <= MaxNodes /\ k - 1 \in Nat /\ k \in Nat
    BY <1>1
  <2>2. PICK g : Finds(g, Levels[k - 1])
    BY <1>3, <2>1
  <2>3. \A t \in Levels[k - 1] : g[t] = Body(g, t)
    BY <2>2
  <2> DEFINE h == [t \in Levels[k] |-> Body(g, t)]
  <2>4. \A t \in Levels[k - 1] : h[t] = g[t]
    BY <2>3, BranchLevels
  <2>5. \A t \in Levels[k] : Body(h, t) = Body(g, t)
    <3>1. ASSUME NEW t \in Levels[k], t = Avl!Null PROVE Body(h, t) = Body(g, t)
      <4> HIDE DEF h
      <4>1. \A l, r, rest, w, ref : RemoveStep(t, w, ref, l, r, rest) = Avl!Null
        BY <3>1 DEF RemoveStep
      <4> QED
        BY <4>1
    <3>2. ASSUME NEW t \in Levels[k], t # Avl!Null PROVE Body(h, t) = Body(g, t)
      <4>1. h[t.left] = g[t.left] /\ h[t.right] = g[t.right]
        <5> HIDE DEF h
        <5> QED
          BY <2>4, <3>2, BranchLevels
      <4> HIDE DEF h
      <4> QED
        BY <4>1
    <3> HIDE DEF Body, h
    <3> QED
      BY <3>1, <3>2
  <2>6. h = [t \in Levels[k] |-> Body(h, t)]
    BY <2>5
  <2> QED
    BY <2>1, <2>6
<1>4. \E f : Finds(f, Avl!Tree)
  <2> HIDE DEF Finds
  <2>1. 0 .. MaxNodes \subseteq S
    <3> HIDE DEF S
    <3> QED
      BY <1>1, <1>2, <1>3, UpTo
  <2> QED
    BY <1>1, <2>1
<1>5. Finds(remove, Avl!Tree)
  <2> HIDE DEF Finds
  <2> QED
    BY <1>4
<1>6. \A t \in Avl!Tree : \A w, ref : Avl!NodeRemove(t, w, ref) = remove[t][w][ref]
  BY DEF Avl!NodeRemove, RemoveStep, RemovedLeft, RemovedRight
<1>7. \A t \in Avl!Tree : \A w : Avl!NodeRemove(t, w, FALSE) = remove[t][w][FALSE]
  BY DEF Avl!NodeRemove, RemoveStep, RemovedLeft, RemovedRight
<1> HIDE DEF remove
<1>8. \A t \in Avl!Tree : remove[t] = Body(remove, t)
  BY <1>5
<1>9. \A t \in Avl!Tree \ {Avl!Null} : t.left \in Avl!Tree /\ t.right \in Avl!Tree
  BY TreeShape DEF Node
<1>10. ASSUME NEW t \in Avl!Tree, NEW w \in Values, NEW ref \in BOOLEAN
      PROVE  remove[t][w][ref] =
               RemoveStep(t, w, ref, remove[t.left][w][ref], remove[t.right][w][ref],
                          remove[t.right][Avl!MinNode(t.right).value][FALSE])
  <2>1. remove[t] = Body(remove, t)
    BY <1>8
  <2>2. remove[t][w] = [c \in BOOLEAN |->
                         RemoveStep(t, w, c, remove[t.left][w][c], remove[t.right][w][c],
                                    remove[t.right][Avl!MinNode(t.right).value][FALSE])]
    BY <2>1
  <2> QED
    BY <2>2, Zenon
<1>11. ASSUME NEW t \in Avl!Tree, t # Avl!Null, NEW w \in Values, NEW ref \in BOOLEAN
       PROVE  Avl!NodeRemove(t, w, ref) =
                RemoveStep(t, w, ref,
                  Avl!NodeRemove(t.left, w, ref), Avl!NodeRemove(t.right, w, ref),
                  Avl!NodeRemove(t.right, Avl!MinNode(t.right).value, FALSE))
  <2>1. /\ t.left \in Avl!Tree /\ t.right \in Avl!Tree
        /\ remove[t.left][w][ref] = Avl!NodeRemove(t.left, w, ref)
        /\ remove[t.right][w][ref] = Avl!NodeRemove(t.right, w, ref)
        /\ remove[t.right][Avl!MinNode(t.right).value][FALSE] =
             Avl!NodeRemove(t.right, Avl!MinNode(t.right).value, FALSE)
    <3>1. t.left \in Avl!Tree /\ t.right \in Avl!Tree
      BY <1>9, <1>11, Zenon
    <3>2. remove[t.left][w][ref] = Avl!NodeRemove(t.left, w, ref)
      BY <1>6, <3>1
    <3>3. remove[t.right][w][ref] = Avl!NodeRemove(t.right, w, ref)
      BY <1>6, <3>1
    <3>4. remove[t.right][Avl!MinNode(t.right).value][FALSE] =
            Avl!NodeRemove(t.right, Avl!MinNode(t.right).value, FALSE)
      BY <1>7, <3>1
    <3> QED
      BY <3>1, <3>2, <3>3, <3>4
  <2>2. Avl!NodeRemove(t, w, ref) = remove[t][w][ref]
    BY <1>6
  <2>3. remove[t][w][ref] =
          RemoveStep(t, w, ref, remove[t.left][w][ref], remove[t.right][w][ref],
                     remove[t.right][Avl!MinNode(t.right).value][FALSE])
    BY <1>10
  <2> QED
    BY <2>1, <2>2, <2>3, Zenon
<1>12. ASSUME NEW w \in Values, NEW ref \in BOOLEAN, NEW l, NEW r, NEW rest
       PROVE  /\ remove[Avl!Null][w][ref] = Avl!Null
              /\ RemoveStep(Avl!Null, w, ref, l, r, rest) = Avl!Null
  <2>1. RemoveStep(Avl!Null, w, ref, l, r, rest) = Avl!Null
    BY DEF RemoveStep
  <2>2. \A x, y, z : RemoveStep(Avl!Null, w, ref, x, y, z) = Avl!Null
    BY DEF RemoveStep
  <2>3. Avl!Null \in Avl!Tree
    BY TreeShape
  <2>4. remove[Avl!Null][w][ref] = Avl!Null
    <3>1. PICK t \in Avl!Tree : t = Avl!Null
      BY <2>3
    <3>2. remove[t][w][ref] =
            RemoveStep(t, w, ref, remove[t.left][w][ref], remove[t.right][w][ref],
                       remove[t.right][Avl!MinNode(t.right).value][FALSE])
      BY <1>10
    <3>3. \A x, y, z : RemoveStep(t, w, ref, x, y, z) = Avl!Null
      BY <3>1 DEF RemoveStep
    <3>4. remove[t][w][ref] = Avl!Null
      BY <3>2, <3>3
    <3> QED
      BY <3>1, <3>4
  <2> QED
    BY <2>1, <2>4
<1>13. TAKE t \in Avl!Tree
<1>14. TAKE w \in Values, ref \in BOOLEAN
<1>15. CASE t = Avl!Null
  <2>1. Avl!NodeRemove(t, w, ref) = Avl!Null
    BY <1>6, <1>12, <1>15, Zenon
  <2>2. \A l, r, rest : RemoveStep(t, w, ref, l, r, rest) = Avl!Null
    BY <1>12, <1>15, Zenon
  <2> QED
    BY <2>1, <2>2, Zenon
<1>16. CASE t # Avl!Null
  BY <1>11, <1>16, Zenon
<1> QED
  BY <1>15, <1>16

-----------------------------------------------------------------------------
(* AVL: nodes and rotations *)

\* A node of two branches whose depth is right
Higher(l, r) == IF l.depth > r.depth THEN l.depth ELSE r.depth
Make(v, c, l, r) ==
  [value |-> v, depth |-> Higher(l, r) + 1, ref |-> c, left |-> l, right |-> r]

\* A node with its depth brought up to date is made of its value and its branches.
LEMMA MadeDeep ==
  ASSUME NEW v, NEW d, NEW c, NEW l, NEW r
  PROVE  Avl!Deepened([value |-> v, depth |-> d, ref |-> c, left |-> l, right |-> r]) =
           Make(v, c, l, r)
<1> DEFINE n == [value |-> v, depth |-> d, ref |-> c, left |-> l, right |-> r]
<1>1. \A e : [n EXCEPT !.depth = e] =
               [value |-> v, depth |-> e, ref |-> c, left |-> l, right |-> r]
  OBVIOUS
<1>2. n.left = l /\ n.right = r
  OBVIOUS
<1> HIDE DEF n
<1>3. Avl!MaxDepth(n) = Higher(l, r)
  BY <1>2 DEF Avl!MaxDepth, Higher
<1>4. Avl!Deepened(n) = [n EXCEPT !.depth = Higher(l, r) + 1]
  BY <1>3 DEF Avl!Deepened
<1>5. Avl!Deepened(n) = Make(v, c, l, r)
  BY <1>1, <1>4 DEF Make
<1> QED
  BY <1>5 DEF n

\* A node that gets another branch is made of its value and its branches.
LEMMA MadeAnew ==
  ASSUME NEW S, NEW t \in Node(S)
  PROVE  /\ \A x : Avl!Deepened([t EXCEPT !.left = x]) = Make(t.value, t.ref, x, t.right)
         /\ \A x : Avl!Deepened([t EXCEPT !.right = x]) = Make(t.value, t.ref, t.left, x)
         /\ Avl!Deepened(t) = Make(t.value, t.ref, t.left, t.right)
         /\ t.depth = Avl!MaxDepth(t) + 1 =>
              /\ t = Make(t.value, t.ref, t.left, t.right)
              /\ \A c : [t EXCEPT !.ref = c] = Make(t.value, c, t.left, t.right)
<1>1. t = [value |-> t.value, depth |-> t.depth, ref |-> t.ref, left |-> t.left, right |-> t.right]
  BY DEF Node
<1>2. ASSUME NEW x
      PROVE  Avl!Deepened([t EXCEPT !.left = x]) = Make(t.value, t.ref, x, t.right)
  <2> DEFINE u == [t EXCEPT !.left = x]
  <2>1. u = [value |-> t.value, depth |-> t.depth, ref |-> t.ref, left |-> x, right |-> t.right]
    BY <1>1
  <2> HIDE DEF u
  <2>2. Avl!Deepened(u) = Make(t.value, t.ref, x, t.right)
    BY <2>1, MadeDeep
  <2> QED
    BY <2>2 DEF u
<1>3. ASSUME NEW x
      PROVE  Avl!Deepened([t EXCEPT !.right = x]) = Make(t.value, t.ref, t.left, x)
  <2> DEFINE u == [t EXCEPT !.right = x]
  <2>1. u = [value |-> t.value, depth |-> t.depth, ref |-> t.ref, left |-> t.left, right |-> x]
    BY <1>1
  <2> HIDE DEF u
  <2>2. Avl!Deepened(u) = Make(t.value, t.ref, t.left, x)
    BY <2>1, MadeDeep
  <2> QED
    BY <2>2 DEF u
<1>4. Avl!Deepened(t) = Make(t.value, t.ref, t.left, t.right)
  BY <1>1, MadeDeep
<1>5. Avl!MaxDepth(t) = Higher(t.left, t.right)
  BY DEF Avl!MaxDepth, Higher
<1>6. ASSUME t.depth = Avl!MaxDepth(t) + 1
      PROVE  t = Make(t.value, t.ref, t.left, t.right)
  BY <1>1, <1>5, <1>6 DEF Make
<1>7. ASSUME t.depth = Avl!MaxDepth(t) + 1, NEW c
      PROVE  [t EXCEPT !.ref = c] = Make(t.value, c, t.left, t.right)
  <2>1. [t EXCEPT !.ref = c] =
          [value |-> t.value, depth |-> t.depth, ref |-> c, left |-> t.left, right |-> t.right]
    BY <1>1
  <2> QED
    BY <1>5, <1>7, <2>1 DEF Make
<1> QED
  BY <1>2, <1>3, <1>4, <1>6, <1>7, Zenon

\* A rotation hangs the branch between two nodes from one to the other.
LEMMA Rotations ==
  ASSUME NEW v, NEW d, NEW c, NEW l, NEW r, NEW w, NEW e, NEW x, NEW y, NEW m
  PROVE  /\ m = [value |-> v, depth |-> d, ref |-> c, left |-> Make(w, e, x, y), right |-> r] =>
              Avl!RotateRight(m) = Make(w, e, x, Make(v, c, y, r))
         /\ m = [value |-> v, depth |-> d, ref |-> c, left |-> l, right |-> Make(w, e, x, y)] =>
              Avl!RotateLeft(m) = Make(w, e, Make(v, c, l, x), y)
<1>1. ASSUME NEW n,
             n = [value |-> v, depth |-> d, ref |-> c, left |-> Make(w, e, x, y), right |-> r]
      PROVE  Avl!RotateRight(n) = Make(w, e, x, Make(v, c, y, r))
  <2>1. PICK k : k = Make(w, e, x, y)
    OBVIOUS
  <2>2. n.left = k /\ k.right = y
    BY <1>1, <2>1 DEF Make
  <2> DEFINE i == [n EXCEPT !.left = y]
  <2>3. i = [value |-> v, depth |-> d, ref |-> c, left |-> y, right |-> r]
    BY <1>1
  <2> HIDE DEF i
  <2>4. Avl!Deepened(i) = Make(v, c, y, r)
    BY <2>3, MadeDeep
  <2>5. PICK b : b = Make(v, c, y, r)
    OBVIOUS
  <2> DEFINE j == [k EXCEPT !.right = b]
  <2>6. j = [value |-> w, depth |-> Higher(x, y) + 1, ref |-> e, left |-> x, right |-> b]
    BY <2>1 DEF Make
  <2> HIDE DEF j
  <2>7. Avl!Deepened(j) = Make(w, e, x, b)
    BY <2>6, MadeDeep
  <2>8. Avl!RotateRight(n) = Avl!Deepened(j)
    BY <2>2, <2>4, <2>5 DEF Avl!RotateRight, i, j
  <2> QED
    BY <2>5, <2>7, <2>8
<1>2. ASSUME NEW n,
             n = [value |-> v, depth |-> d, ref |-> c, left |-> l, right |-> Make(w, e, x, y)]
      PROVE  Avl!RotateLeft(n) = Make(w, e, Make(v, c, l, x), y)
  <2>1. PICK k : k = Make(w, e, x, y)
    OBVIOUS
  <2>2. n.right = k /\ k.left = x
    BY <1>2, <2>1 DEF Make
  <2> DEFINE i == [n EXCEPT !.right = x]
  <2>3. i = [value |-> v, depth |-> d, ref |-> c, left |-> l, right |-> x]
    BY <1>2
  <2> HIDE DEF i
  <2>4. Avl!Deepened(i) = Make(v, c, l, x)
    BY <2>3, MadeDeep
  <2>5. PICK b : b = Make(v, c, l, x)
    OBVIOUS
  <2> DEFINE j == [k EXCEPT !.left = b]
  <2>6. j = [value |-> w, depth |-> Higher(x, y) + 1, ref |-> e, left |-> b, right |-> y]
    BY <2>1 DEF Make
  <2> HIDE DEF j
  <2>7. Avl!Deepened(j) = Make(w, e, b, y)
    BY <2>6, MadeDeep
  <2>8. Avl!RotateLeft(n) = Avl!Deepened(j)
    BY <2>2, <2>4, <2>5 DEF Avl!RotateLeft, i, j
  <2> QED
    BY <2>5, <2>7, <2>8
<1> QED
  BY <1>1, <1>2

\* The parts of a node
LEMMA MadeFields ==
  ASSUME NEW v, NEW c, NEW l, NEW r
  PROVE  /\ Make(v, c, l, r).value = v /\ Make(v, c, l, r).ref = c
         /\ Make(v, c, l, r).left = l /\ Make(v, c, l, r).right = r
         /\ Make(v, c, l, r).depth = Higher(l, r) + 1
         /\ Avl!MaxDepth(Make(v, c, l, r)) = Higher(l, r)
         /\ Avl!Balance(Make(v, c, l, r)) = l.depth - r.depth
         /\ Make(v, c, l, r) # Avl!Null
<1> DEFINE m == Make(v, c, l, r)
<1>1. /\ m.value = v /\ m.ref = c /\ m.left = l /\ m.right = r /\ m.depth = Higher(l, r) + 1
      /\ "value" \in DOMAIN m
  BY DEF Make
<1> HIDE DEF m
<1>2. Avl!MaxDepth(m) = Higher(l, r)
  BY <1>1 DEF Avl!MaxDepth, Higher
<1>3. Avl!Balance(m) = l.depth - r.depth
  BY <1>1 DEF Avl!Balance
<1>4. m # Avl!Null
  <2>1. DOMAIN Avl!Null = {"depth"}
    BY DEF Avl!Null
  <2> QED
    BY <1>1, <2>1
<1>5. /\ m.value = v /\ m.ref = c /\ m.left = l /\ m.right = r /\ m.depth = Higher(l, r) + 1
      /\ Avl!MaxDepth(m) = Higher(l, r) /\ Avl!Balance(m) = l.depth - r.depth /\ m # Avl!Null
  BY <1>1, <1>2, <1>3, <1>4
<1> QED
  BY <1>5 DEF m

-----------------------------------------------------------------------------
(* AVL: what a sound branch is *)

\* A branch whose nodes are sound, and that has as many levels as it says
Good(t) ==
  /\ t \in Avl!Tree
  /\ \A s \in Avl!Branches(t) : Avl!SoundNode(s)
  /\ \A s \in Avl!Branches(t) \cup {t} : s.depth \in 0 .. MaxNodes /\ s \in Levels[s.depth]

\* A value lies between those of two branches
Between(l, v, r) ==
  /\ \A w \in Int : Avl!Find(l, w) > 0 => w < v
  /\ \A w \in Int : Avl!Find(r, w) > 0 => v < w

\* An occurrence is counted in a node whose value it is
Alone(v, c, w) == IF w = v THEN c ELSE 0

\* The empty branch is sound, and the branches of a sound node are.
LEMMA GoodParts ==
  ASSUME Avl!AvlAssumption
  PROVE  /\ Good(Avl!Null)
         /\ \A t \in Avl!Tree \ {Avl!Null} : Good(t) => Good(t.left) /\ Good(t.right)
<1>1. Good(Avl!Null)
  <2>1. MaxNodes \in Nat /\ Levels[0] = {Avl!Null}
    BY LevelsBuilt
  <2>2. Avl!Branches(Avl!Null) = {} /\ Avl!Null \in Avl!Tree /\ Avl!Null.depth = 0
    BY BranchSteps, TreeShape
  <2>3. Avl!Null.depth \in 0 .. MaxNodes /\ Avl!Null \in Levels[Avl!Null.depth]
    BY <2>1, <2>2
  <2> QED
    BY <2>2, <2>3 DEF Good
<1>2. ASSUME NEW t \in Avl!Tree, Good(t) PROVE t = Avl!Null \/ t \in Avl!Branches(t)
  BY <1>2, BranchSteps
<1>3. ASSUME NEW t \in Avl!Tree, t # Avl!Null, Good(t)
      PROVE  Good(t.left) /\ Good(t.right)
  <2>1. t.left \in Avl!Tree /\ t.right \in Avl!Tree
    BY <1>3, TreeShape DEF Node
  <2>2. Avl!Branches(t) = {t} \cup Avl!Branches(t.left) \cup Avl!Branches(t.right)
    BY <1>3, BranchSteps
  <2>3. ASSUME NEW b \in {t.left, t.right} PROVE b = Avl!Null \/ b \in Avl!Branches(b)
    BY <2>1, <2>3, BranchSteps
  <2>4. ASSUME NEW b \in {t.left, t.right} PROVE Good(b)
    <3>1. b \in Avl!Tree /\ Avl!Branches(b) \subseteq Avl!Branches(t)
      BY <2>1, <2>2, <2>4
    <3>2. \A s \in Avl!Branches(b) : /\ Avl!SoundNode(s)
                                     /\ s.depth \in 0 .. MaxNodes /\ s \in Levels[s.depth]
      BY <1>3, <3>1 DEF Good
    <3>3. b.depth \in 0 .. MaxNodes /\ b \in Levels[b.depth]
      <4>1. CASE b = Avl!Null
        BY <1>1, <4>1 DEF Good
      <4>2. CASE b \in Avl!Branches(b)
        BY <3>2, <4>2
      <4> QED
        BY <2>3, <2>4, <4>1, <4>2
    <3> QED
      BY <3>1, <3>2, <3>3 DEF Good
  <2> QED
    BY <2>4
<1> QED
  BY <1>1, <1>3

\* In a sound branch find() finds the values of its nodes.
LEMMA Finds ==
  ASSUME Avl!AvlAssumption
  PROVE  \A t \in Avl!Tree : \A w \in Int :
           /\ Avl!Find(t, w) \in Nat
           /\ Avl!Find(t, w) > 0 => \E s \in Avl!Branches(t) : s.value = w
<1> DEFINE S == {t \in Avl!Tree : \A w \in Int :
           /\ Avl!Find(t, w) \in Nat
           /\ Avl!Find(t, w) > 0 => \E s \in Avl!Branches(t) : s.value = w}
<1>1. Avl!Null \in S
  BY FindSteps, TreeShape
<1>2. ASSUME NEW t \in Avl!Tree, t # Avl!Null, t.left \in S, t.right \in S PROVE t \in S
  <2>1. SUFFICES ASSUME NEW w \in Int
                 PROVE  /\ Avl!Find(t, w) \in Nat
                        /\ Avl!Find(t, w) > 0 => \E s \in Avl!Branches(t) : s.value = w
    BY <1>2
  <2>2. t.value \in Int /\ t.ref \in Nat
    BY <1>2, TreeShape DEF Node
  <2>3. Avl!Find(t, w) = IF w < t.value THEN Avl!Find(t.left, w)
                         ELSE IF t.value < w THEN Avl!Find(t.right, w)
                         ELSE t.ref
    BY <1>2, FindSteps
  <2>4. Avl!Branches(t) = {t} \cup Avl!Branches(t.left) \cup Avl!Branches(t.right)
    BY <1>2, BranchSteps
  <2>5. Avl!Find(t.left, w) \in Nat /\ Avl!Find(t.right, w) \in Nat
    BY <1>2
  <2>6. /\ Avl!Find(t.left, w) > 0 => \E s \in Avl!Branches(t.left) : s.value = w
        /\ Avl!Find(t.right, w) > 0 => \E s \in Avl!Branches(t.right) : s.value = w
    BY <1>2
  <2> QED
    BY <2>2, <2>3, <2>4, <2>5, <2>6
<1>3. Avl!Tree \subseteq S
  <2> HIDE DEF S
  <2> QED
    BY <1>1, <1>2, TreeInduction
<1> QED
  BY <1>3

\* In a sound branch find() finds every node.
LEMMA Found ==
  ASSUME Avl!AvlAssumption
  PROVE  \A t \in Avl!Tree : Good(t) =>
           \A s \in Avl!Branches(t) : s.value \in Values /\ Avl!Find(t, s.value) > 0
<1>1. Values \subseteq Int
  BY LevelsBuilt
<1> DEFINE S == {t \in Avl!Tree : Good(t) =>
           \A s \in Avl!Branches(t) : s.value \in Values /\ Avl!Find(t, s.value) > 0}
<1>2. Avl!Null \in S
  BY BranchSteps, TreeShape
<1>3. ASSUME NEW t \in Avl!Tree, t # Avl!Null, t.left \in S, t.right \in S PROVE t \in S
  <2>1. SUFFICES ASSUME Good(t), NEW s \in Avl!Branches(t)
                 PROVE  s.value \in Values /\ Avl!Find(t, s.value) > 0
    BY <1>3
  <2>2. Good(t.left) /\ Good(t.right)
    BY <1>3, <2>1, GoodParts
  <2>3. Avl!Branches(t) = {t} \cup Avl!Branches(t.left) \cup Avl!Branches(t.right)
    BY <1>3, BranchSteps
  <2>4. Avl!SoundNode(t) /\ Avl!SoundNode(s)
    BY <2>1, <2>3 DEF Good
  <2>5. t.value \in Int /\ s.value \in Int /\ s.value \in Values
    BY <1>1, <2>4 DEF Avl!SoundNode
  <2>6. \A w : Avl!Find(t, w) = IF w < t.value THEN Avl!Find(t.left, w)
                                ELSE IF t.value < w THEN Avl!Find(t.right, w)
                                ELSE t.ref
    BY <1>3, FindSteps
  <2>7. CASE s = t
    BY <2>4, <2>5, <2>6, <2>7 DEF Avl!SoundNode
  <2>8. CASE s \in Avl!Branches(t.left)
    <3>1. s.value < t.value
      BY <2>4, <2>8 DEF Avl!SoundNode
    <3>2. Avl!Find(t.left, s.value) > 0
      BY <1>3, <2>2, <2>8
    <3> QED
      BY <2>5, <2>6, <3>1, <3>2
  <2>9. CASE s \in Avl!Branches(t.right)
    <3>1. t.value < s.value
      BY <2>4, <2>9 DEF Avl!SoundNode
    <3>2. Avl!Find(t.right, s.value) > 0
      BY <1>3, <2>2, <2>9
    <3> QED
      BY <2>5, <2>6, <3>1, <3>2
  <2> QED
    BY <2>1, <2>3, <2>7, <2>8, <2>9
<1>4. Avl!Tree \subseteq S
  <2> HIDE DEF S
  <2> QED
    BY <1>2, <1>3, TreeInduction
<1> QED
  BY <1>4

\* The occurrences in an ordered node are those of its branches, and its own.
LEMMA OrderedCounts ==
  ASSUME Avl!AvlAssumption, NEW t \in Avl!Tree \ {Avl!Null},
         Between(t.left, t.value, t.right)
  PROVE  /\ \A w \in Int : Avl!Find(t, w) =
              Avl!Find(t.left, w) + Alone(t.value, t.ref, w) + Avl!Find(t.right, w)
         /\ Avl!Occurrences(t) =
              Avl!Occurrences(t.left) + t.ref + Avl!Occurrences(t.right)
<1>1. Avl!Occurrences(t) = Avl!Occurrences(t.left) + t.ref + Avl!Occurrences(t.right)
  BY OccurrenceSteps
<1>2. ASSUME NEW w \in Int
      PROVE  Avl!Find(t, w) =
              Avl!Find(t.left, w) + Alone(t.value, t.ref, w) + Avl!Find(t.right, w)
  <2>1. t.value \in Int /\ t.ref \in Nat /\ t.left \in Avl!Tree /\ t.right \in Avl!Tree
    BY TreeShape DEF Node
  <2>2. Avl!Find(t, w) = IF w < t.value THEN Avl!Find(t.left, w)
                         ELSE IF t.value < w THEN Avl!Find(t.right, w)
                         ELSE t.ref
    BY FindSteps
  <2>3. Avl!Find(t.left, w) \in Nat /\ Avl!Find(t.right, w) \in Nat
    BY <2>1, Finds
  <2>4. /\ Avl!Find(t.left, w) > 0 => w < t.value
        /\ Avl!Find(t.right, w) > 0 => t.value < w
    BY DEF Between
  <2> QED
    BY <2>1, <2>2, <2>3, <2>4 DEF Alone
<1> QED
  BY <1>1, <1>2

\* A sound node is made of its branches, that are sound and ordered and of nearly one depth.
LEMMA Taken ==
  ASSUME Avl!AvlAssumption, NEW t \in Avl!Tree, t # Avl!Null, Good(t)
  PROVE  /\ t = Make(t.value, t.ref, t.left, t.right)
         /\ t.value \in Values /\ t.ref \in Nat \ {0}
         /\ Good(t.left) /\ Good(t.right) /\ t.left \in Avl!Tree /\ t.right \in Avl!Tree
         /\ Between(t.left, t.value, t.right)
         /\ t.depth \in 1 .. MaxNodes /\ t.depth = Higher(t.left, t.right) + 1
         /\ t.left.depth \in 0 .. t.depth - 1 /\ t.right.depth \in 0 .. t.depth - 1
         /\ t.left.depth - t.right.depth \in -1 .. 1
         /\ Avl!Balance(t) = t.left.depth - t.right.depth
<1>1. MaxNodes \in Nat \ {0} /\ Values \subseteq Int
  BY LevelsBuilt
<1>2. t \in Node(Avl!Tree)
  BY TreeShape
<1>3. t.left \in Avl!Tree /\ t.right \in Avl!Tree /\ t.value \in Int /\ t.ref \in Nat
  BY <1>2 DEF Node
<1>4. Avl!Branches(t) = {t} \cup Avl!Branches(t.left) \cup Avl!Branches(t.right)
  BY BranchSteps
<1>5. Good(t.left) /\ Good(t.right)
  BY GoodParts
<1>6. Avl!SoundNode(t)
  BY <1>4 DEF Good
<1>7. t.depth = Avl!MaxDepth(t) + 1 /\ Avl!MaxDepth(t) = Higher(t.left, t.right)
  BY <1>6 DEF Avl!SoundNode, Avl!MaxDepth, Higher
<1>8. t = Make(t.value, t.ref, t.left, t.right)
  BY <1>2, <1>7, MadeAnew
<1>9. t.left.depth \in 0 .. MaxNodes /\ t.right.depth \in 0 .. MaxNodes /\ t.depth \in 0 .. MaxNodes
  BY <1>5 DEF Good
<1>10. /\ t.depth \in 1 .. MaxNodes /\ t.depth = Higher(t.left, t.right) + 1
       /\ t.left.depth \in 0 .. t.depth - 1 /\ t.right.depth \in 0 .. t.depth - 1
  BY <1>1, <1>7, <1>9 DEF Higher
<1>11. t.left.depth - t.right.depth \in -1 .. 1 /\ Avl!Balance(t) = t.left.depth - t.right.depth
  BY <1>6 DEF Avl!SoundNode, Avl!Balance
<1>12. t.value \in Values /\ t.ref \in Nat \ {0}
  BY <1>3, <1>6 DEF Avl!SoundNode
<1>13. Between(t.left, t.value, t.right)
  <2>1. ASSUME NEW w \in Int, Avl!Find(t.left, w) > 0 PROVE w < t.value
    <3>1. PICK s \in Avl!Branches(t.left) : s.value = w
      BY <1>3, <2>1, Finds
    <3> QED
      BY <1>6, <3>1 DEF Avl!SoundNode
  <2>2. ASSUME NEW w \in Int, Avl!Find(t.right, w) > 0 PROVE t.value < w
    <3>1. PICK s \in Avl!Branches(t.right) : s.value = w
      BY <1>3, <2>2, Finds
    <3> QED
      BY <1>6, <3>1 DEF Avl!SoundNode
  <2> QED
    BY <2>1, <2>2 DEF Between
<1> QED
  BY <1>3, <1>5, <1>8, <1>10, <1>11, <1>12, <1>13

\* A node made of sound and ordered branches of nearly one depth is sound.
LEMMA Made ==
  ASSUME Avl!AvlAssumption, NEW l, NEW r, Good(l), Good(r),
         NEW v \in Values, NEW c \in Nat \ {0}, Between(l, v, r),
         l.depth < MaxNodes, r.depth < MaxNodes, l.depth - r.depth \in -1 .. 1
  PROVE  Good(Make(v, c, l, r))
<1> DEFINE m == Make(v, c, l, r)
<1>1. MaxNodes \in Nat \ {0} /\ Values \subseteq Int /\ Avl!Tree = Levels[MaxNodes]
  BY LevelsBuilt
<1>2. /\ l \in Avl!Tree /\ l.depth \in 0 .. MaxNodes /\ l \in Levels[l.depth]
      /\ r \in Avl!Tree /\ r.depth \in 0 .. MaxNodes /\ r \in Levels[r.depth]
  BY DEF Good
<1>3. PICK d : d = Higher(l, r) + 1
  OBVIOUS
<1>4. /\ d \in 1 .. MaxNodes /\ d \in 0 .. MaxNodes /\ d - 1 \in 0 .. MaxNodes /\ d \in Nat
      /\ l.depth \in 0 .. d - 1 /\ r.depth \in 0 .. d - 1
  <2>1. PICK x, y : x = l.depth /\ y = r.depth
    OBVIOUS
  <2>2. x \in 0 .. MaxNodes /\ y \in 0 .. MaxNodes /\ x < MaxNodes /\ y < MaxNodes
    BY <1>2, <2>1
  <2>3. d = (IF x > y THEN x ELSE y) + 1
    BY <1>3, <2>1 DEF Higher
  <2>4. /\ d \in 1 .. MaxNodes /\ d \in 0 .. MaxNodes /\ d - 1 \in 0 .. MaxNodes /\ d \in Nat
        /\ x \in 0 .. d - 1 /\ y \in 0 .. d - 1
    BY <1>1, <2>2, <2>3
  <2> QED
    BY <2>1, <2>4
<1>5. l \in Levels[d - 1] /\ r \in Levels[d - 1]
  BY <1>2, <1>4, LevelsGrow
<1>6. m \in Node(Levels[d - 1])
  BY <1>1, <1>3, <1>4, <1>5 DEF Node, Make
<1>7. m \in Levels[d]
  BY <1>4, <1>6, LevelsBuilt
<1>8. m \in Avl!Tree
  <2>1. MaxNodes \in 0 .. MaxNodes
    BY <1>1
  <2>2. Levels[d] \subseteq Levels[MaxNodes]
    BY <1>4, <2>1, LevelsGrow
  <2> QED
    BY <1>1, <1>7, <2>2
<1>9. /\ m.value = v /\ m.ref = c /\ m.left = l /\ m.right = r /\ m.depth = d
      /\ Avl!MaxDepth(m) + 1 = d /\ Avl!Balance(m) = l.depth - r.depth /\ m # Avl!Null
  BY <1>3, MadeFields
<1> HIDE DEF m
<1>10. Avl!Branches(m) = {m} \cup Avl!Branches(l) \cup Avl!Branches(r)
  BY <1>8, <1>9, BranchSteps
<1>11. Avl!SoundNode(m)
  <2>1. ASSUME NEW s \in Avl!Branches(l) PROVE s.value < v
    BY <1>1, <1>2, <2>1, Found DEF Between
  <2>2. ASSUME NEW s \in Avl!Branches(r) PROVE v < s.value
    BY <1>1, <1>2, <2>2, Found DEF Between
  <2> QED
    BY <1>9, <2>1, <2>2 DEF Avl!SoundNode
<1>12. ASSUME NEW s \in Avl!Branches(m)
       PROVE  Avl!SoundNode(s) /\ s.depth \in 0 .. MaxNodes /\ s \in Levels[s.depth]
  <2>1. CASE s = m
    BY <1>4, <1>7, <1>9, <1>11, <2>1
  <2>2. CASE s # m
    BY <1>10, <1>12, <2>2 DEF Good
  <2> QED
    BY <2>1, <2>2
<1>13. m \in Avl!Branches(m)
  BY <1>10
<1>14. Good(m)
  BY <1>8, <1>12, <1>13 DEF Good
<1> QED
  BY <1>14 DEF m

\* A branch with the occurrences of two branches and a value
Sums(x, l, v, c, r) ==
  /\ \A w \in Int : Avl!Find(x, w) = Avl!Find(l, w) + Alone(v, c, w) + Avl!Find(r, w)
  /\ Avl!Occurrences(x) = Avl!Occurrences(l) + c + Avl!Occurrences(r)

\* Two sound branches, of which neither is too deep, with a value between them
Joint(l, v, c, r) ==
  /\ Good(l) /\ Good(r) /\ v \in Values /\ c \in Nat \ {0} /\ Between(l, v, r)
  /\ l.depth < MaxNodes /\ r.depth < MaxNodes

\* Such branches make a sound node, if they are of nearly one depth.
LEMMA Joined ==
  ASSUME Avl!AvlAssumption, NEW l, NEW r, NEW v, NEW c, Joint(l, v, c, r),
         l.depth - r.depth \in -1 .. 1
  PROVE  LET m == Make(v, c, l, r)
         IN  /\ Good(m) /\ m # Avl!Null /\ Sums(m, l, v, c, r)
             /\ m.depth = Higher(l, r) + 1 /\ l.depth \in Nat /\ r.depth \in Nat
<1> DEFINE m == Make(v, c, l, r)
<1>1. Good(m)
  BY Made DEF Joint
<1>2. /\ m.value = v /\ m.ref = c /\ m.left = l /\ m.right = r /\ m.depth = Higher(l, r) + 1
      /\ m # Avl!Null
  BY MadeFields
<1> HIDE DEF m
<1>3. m \in Avl!Tree \ {Avl!Null}
  BY <1>1, <1>2 DEF Good
<1>4. Between(m.left, m.value, m.right)
  BY <1>2 DEF Joint
<1>5. Sums(m, l, v, c, r)
  BY <1>2, <1>3, <1>4, OrderedCounts DEF Sums
<1>6. l.depth \in 0 .. MaxNodes /\ r.depth \in 0 .. MaxNodes /\ MaxNodes \in Nat
  BY LevelsBuilt DEF Joint, Good
<1> QED
  BY <1>1, <1>2, <1>5, <1>6 DEF m

\* Occurrences are counted in the branches and cannot be negative.
LEMMA Counts ==
  ASSUME Avl!AvlAssumption
  PROVE  /\ \A t : Good(t) =>
              Avl!Occurrences(t) \in Nat /\ \A w \in Int : Avl!Find(t, w) \in Nat
         /\ \A t : Good(t) /\ t # Avl!Null => Sums(t, t.left, t.value, t.ref, t.right)
<1> DEFINE S == {t \in Avl!Tree : Avl!Occurrences(t) \in Nat}
<1>1. Avl!Null \in S
  BY OccurrenceSteps, TreeShape
<1>2. ASSUME NEW t \in Avl!Tree, t # Avl!Null, t.left \in S, t.right \in S PROVE t \in S
  <2>1. t.ref \in Nat
    BY <1>2, TreeShape DEF Node
  <2>2. Avl!Occurrences(t) = Avl!Occurrences(t.left) + t.ref + Avl!Occurrences(t.right)
    BY <1>2, OccurrenceSteps
  <2> QED
    BY <1>2, <2>1, <2>2
<1>3. Avl!Tree \subseteq S
  <2> HIDE DEF S
  <2> QED
    BY <1>1, <1>2, TreeInduction
<1>4. ASSUME NEW t, Good(t)
      PROVE  Avl!Occurrences(t) \in Nat /\ \A w \in Int : Avl!Find(t, w) \in Nat
  BY <1>3, <1>4, Finds DEF Good
<1>5. ASSUME NEW t, Good(t), t # Avl!Null PROVE Sums(t, t.left, t.value, t.ref, t.right)
  <2>1. t \in Avl!Tree \ {Avl!Null}
    BY <1>5 DEF Good
  <2>2. Between(t.left, t.value, t.right)
    BY <1>5, <2>1, Taken
  <2> QED
    BY <2>1, <2>2, OrderedCounts DEF Sums
<1> QED
  BY <1>4, <1>5

\* A rotation to the right levels a node whose left branch is too deep, if its inner branch
\* is not the deeper one.
LEMMA SingleRight ==
  ASSUME Avl!AvlAssumption, NEW l, NEW r, NEW v, NEW c, Joint(l, v, c, r),
         l.depth - r.depth = 2, Avl!Balance(l) >= 0
  PROVE  LET x == Make(l.value, l.ref, l.left, Make(v, c, l.right, r))
         IN  /\ Good(x) /\ x # Avl!Null /\ Sums(x, l, v, c, r)
             /\ x.depth = IF Avl!Balance(l) = 0 THEN l.depth + 1 ELSE l.depth
<1>1. /\ Good(l) /\ Good(r) /\ v \in Values /\ c \in Nat \ {0} /\ Between(l, v, r)
      /\ l.depth < MaxNodes /\ r.depth < MaxNodes
  BY DEF Joint
<1>2. /\ MaxNodes \in Nat \ {0} /\ Values \subseteq Int
      /\ l.depth \in 0 .. MaxNodes /\ r.depth \in 0 .. MaxNodes /\ l \in Avl!Tree
  BY <1>1, LevelsBuilt DEF Good
<1>3. l # Avl!Null
  BY <1>2, TreeShape
<1>4. PICK lv, lc, ll, lr : lv = l.value /\ lc = l.ref /\ ll = l.left /\ lr = l.right
  OBVIOUS
<1>5. /\ lv \in Values /\ lc \in Nat \ {0} /\ Good(ll) /\ Good(lr) /\ Between(ll, lv, lr)
      /\ l.depth = Higher(ll, lr) + 1 /\ Sums(l, ll, lv, lc, lr)
      /\ ll.depth \in 0 .. l.depth - 1 /\ lr.depth \in 0 .. l.depth - 1
      /\ ll.depth - lr.depth \in -1 .. 1 /\ Avl!Balance(l) = ll.depth - lr.depth
  <2>1. Sums(l, l.left, l.value, l.ref, l.right)
    BY <1>1, <1>3, Counts
  <2> QED
    BY <1>1, <1>2, <1>3, <1>4, <2>1, Taken
<1>6. PICK p, q, h : p = ll.depth /\ q = lr.depth /\ h = r.depth
  OBVIOUS
<1>7. /\ p \in Nat /\ q \in Nat /\ h \in Nat /\ l.depth = h + 2 /\ h + 2 < MaxNodes
      /\ p = h + 1 /\ q \in {h, h + 1} /\ Avl!Balance(l) = p - q
  <2>1. /\ l.depth \in 0 .. MaxNodes /\ h \in 0 .. MaxNodes /\ l.depth - h = 2
        /\ p \in 0 .. l.depth - 1 /\ q \in 0 .. l.depth - 1
        /\ l.depth < MaxNodes /\ p - q >= 0 /\ p - q \in -1 .. 1
        /\ Avl!Balance(l) = p - q
    BY <1>1, <1>2, <1>5, <1>6
  <2>2. l.depth = (IF p > q THEN p ELSE q) + 1
    BY <1>5, <1>6 DEF Higher
  <2> QED
    BY <1>2, <2>1, <2>2
<1>8. ASSUME NEW w \in Int
      PROVE  /\ Avl!Find(l, w) = Avl!Find(ll, w) + Alone(lv, lc, w) + Avl!Find(lr, w)
             /\ Avl!Find(l, w) \in Nat /\ Avl!Find(ll, w) \in Nat /\ Avl!Find(lr, w) \in Nat
             /\ Avl!Find(r, w) \in Nat
             /\ Alone(lv, lc, w) \in Nat /\ Alone(v, c, w) \in Nat
             /\ Alone(lv, lc, w) > 0 <=> w = lv
             /\ Alone(v, c, w) > 0 <=> w = v
  <2>1. Avl!Find(l, w) = Avl!Find(ll, w) + Alone(lv, lc, w) + Avl!Find(lr, w)
    BY <1>5 DEF Sums
  <2>2. /\ Avl!Find(l, w) \in Nat /\ Avl!Find(ll, w) \in Nat /\ Avl!Find(lr, w) \in Nat
        /\ Avl!Find(r, w) \in Nat
    BY <1>1, <1>5, Counts
  <2> QED
    BY <1>1, <1>5, <2>1, <2>2 DEF Alone
<1>9. lv \in Int /\ v \in Int /\ lv < v
  BY <1>1, <1>2, <1>5, <1>8 DEF Between
<1>10. Joint(lr, v, c, r)
  <2>1. ASSUME NEW w \in Int, Avl!Find(lr, w) > 0 PROVE w < v
    <3>1. Avl!Find(l, w) > 0
      BY <1>8, <2>1
    <3> QED
      BY <1>1, <3>1 DEF Between
  <2>2. Between(lr, v, r)
    BY <1>1, <2>1 DEF Between
  <2>3. lr.depth < MaxNodes
    BY <1>2, <1>6, <1>7
  <2> QED
    BY <1>1, <1>5, <2>2, <2>3 DEF Joint
<1>11. PICK y : y = Make(v, c, lr, r)
  OBVIOUS
<1>12. Good(y) /\ Sums(y, lr, v, c, r) /\ y.depth = q + 1
  <2>1. lr.depth - r.depth \in -1 .. 1
    BY <1>6, <1>7
  <2>2. Good(y) /\ Sums(y, lr, v, c, r) /\ y.depth = Higher(lr, r) + 1
    BY <1>10, <1>11, <2>1, Joined
  <2>3. Higher(lr, r) = q
    BY <1>6, <1>7 DEF Higher
  <2> QED
    BY <2>2, <2>3
<1>13. ASSUME NEW w \in Int
       PROVE  Avl!Find(y, w) = Avl!Find(lr, w) + Alone(v, c, w) + Avl!Find(r, w)
  BY <1>12 DEF Sums
<1>14. Joint(ll, lv, lc, y)
  <2>1. ASSUME NEW w \in Int, Avl!Find(y, w) > 0 PROVE lv < w
    <3>1. Avl!Find(lr, w) > 0 \/ w = v \/ Avl!Find(r, w) > 0
      BY <1>8, <1>13, <2>1
    <3>2. Avl!Find(lr, w) > 0 => lv < w
      BY <1>5 DEF Between
    <3>3. Avl!Find(r, w) > 0 => v < w
      BY <1>1 DEF Between
    <3> QED
      BY <1>9, <3>1, <3>2, <3>3
  <2>2. Between(ll, lv, y)
    BY <1>5, <2>1 DEF Between
  <2>3. ll.depth < MaxNodes /\ y.depth < MaxNodes
    BY <1>2, <1>6, <1>7, <1>12
  <2> QED
    BY <1>5, <1>12, <2>2, <2>3 DEF Joint
<1>15. PICK x : x = Make(lv, lc, ll, y)
  OBVIOUS
<1>16. Good(x) /\ x # Avl!Null /\ Sums(x, ll, lv, lc, y) /\ x.depth = q + 2
  <2>1. ll.depth - y.depth \in -1 .. 1
    BY <1>6, <1>7, <1>12
  <2>2. /\ Good(x) /\ x # Avl!Null /\ Sums(x, ll, lv, lc, y)
        /\ x.depth = Higher(ll, y) + 1
    BY <1>14, <1>15, <2>1, Joined
  <2>3. Higher(ll, y) = q + 1
    BY <1>6, <1>7, <1>12 DEF Higher
  <2> QED
    BY <1>7, <2>2, <2>3
<1>17. Sums(x, l, v, c, r)
  <2>1. ASSUME NEW w \in Int
        PROVE  Avl!Find(x, w) = Avl!Find(l, w) + Alone(v, c, w) + Avl!Find(r, w)
    <3>1. Avl!Find(x, w) = Avl!Find(ll, w) + Alone(lv, lc, w) + Avl!Find(y, w)
      BY <1>16 DEF Sums
    <3> QED
      BY <1>8, <1>13, <3>1
  <2>2. /\ Avl!Occurrences(x) = Avl!Occurrences(ll) + lc + Avl!Occurrences(y)
        /\ Avl!Occurrences(y) = Avl!Occurrences(lr) + c + Avl!Occurrences(r)
        /\ Avl!Occurrences(l) = Avl!Occurrences(ll) + lc + Avl!Occurrences(lr)
    BY <1>5, <1>12, <1>16 DEF Sums
  <2>3. /\ Avl!Occurrences(ll) \in Nat /\ Avl!Occurrences(lr) \in Nat
        /\ Avl!Occurrences(r) \in Nat
    BY <1>1, <1>5, Counts
  <2>4. Avl!Occurrences(x) = Avl!Occurrences(l) + c + Avl!Occurrences(r)
    BY <1>1, <1>5, <2>2, <2>3
  <2> QED
    BY <2>1, <2>4 DEF Sums
<1>18. x.depth = IF Avl!Balance(l) = 0 THEN l.depth + 1 ELSE l.depth
  BY <1>7, <1>16
<1> QED
  BY <1>4, <1>11, <1>15, <1>16, <1>17, <1>18

\* Two rotations level it if its inner branch is the deeper one.
LEMMA DoubleRight ==
  ASSUME Avl!AvlAssumption, NEW l, NEW r, NEW v, NEW c, Joint(l, v, c, r),
         l.depth - r.depth = 2, Avl!Balance(l) = -1
  PROVE  LET x == Make(l.right.value, l.right.ref,
                       Make(l.value, l.ref, l.left, l.right.left), Make(v, c, l.right.right, r))
         IN  /\ Good(x) /\ x # Avl!Null /\ Sums(x, l, v, c, r) /\ x.depth = l.depth
             /\ l # Avl!Null /\ l.right # Avl!Null /\ Good(l.right)
<1>1. /\ Good(l) /\ Good(r) /\ v \in Values /\ c \in Nat \ {0} /\ Between(l, v, r)
      /\ l.depth < MaxNodes /\ r.depth < MaxNodes
  BY DEF Joint
<1>2. /\ MaxNodes \in Nat \ {0} /\ Values \subseteq Int
      /\ l.depth \in 0 .. MaxNodes /\ r.depth \in 0 .. MaxNodes /\ l \in Avl!Tree
  BY <1>1, LevelsBuilt DEF Good
<1>3. l # Avl!Null
  BY <1>2, TreeShape
<1>4. PICK lv, lc, ll, lr : lv = l.value /\ lc = l.ref /\ ll = l.left /\ lr = l.right
  OBVIOUS
<1>5. /\ lv \in Values /\ lc \in Nat \ {0} /\ Good(ll) /\ Good(lr) /\ Between(ll, lv, lr)
      /\ l.depth = Higher(ll, lr) + 1 /\ Sums(l, ll, lv, lc, lr)
      /\ ll.depth \in 0 .. l.depth - 1 /\ lr.depth \in 0 .. l.depth - 1
      /\ ll.depth - lr.depth \in -1 .. 1 /\ Avl!Balance(l) = ll.depth - lr.depth
      /\ lr \in Avl!Tree
  <2>1. Sums(l, l.left, l.value, l.ref, l.right)
    BY <1>1, <1>3, Counts
  <2> QED
    BY <1>1, <1>2, <1>3, <1>4, <2>1, Taken
<1>6. PICK p, q, h : p = ll.depth /\ q = lr.depth /\ h = r.depth
  OBVIOUS
<1>7. /\ p = h /\ q = h + 1 /\ h \in Nat /\ l.depth = h + 2 /\ h + 2 < MaxNodes
  <2>1. /\ l.depth \in 0 .. MaxNodes /\ h \in 0 .. MaxNodes /\ l.depth - h = 2
        /\ p \in 0 .. l.depth - 1 /\ q \in 0 .. l.depth - 1
        /\ l.depth < MaxNodes /\ p - q = -1
    BY <1>1, <1>2, <1>5, <1>6
  <2>2. l.depth = (IF p > q THEN p ELSE q) + 1
    BY <1>5, <1>6 DEF Higher
  <2> QED
    BY <1>2, <2>1, <2>2
<1>8. lr # Avl!Null
  <2>1. lr.depth # 0
    BY <1>6, <1>7
  <2>2. Avl!Null.depth = 0
    BY TreeShape
  <2> QED
    BY <2>1, <2>2
<1>9. PICK mv, mc, ml, mr : mv = lr.value /\ mc = lr.ref /\ ml = lr.left /\ mr = lr.right
  OBVIOUS
<1>10. /\ mv \in Values /\ mc \in Nat \ {0} /\ Good(ml) /\ Good(mr) /\ Between(ml, mv, mr)
       /\ q = Higher(ml, mr) + 1 /\ Sums(lr, ml, mv, mc, mr)
       /\ ml.depth \in 0 .. q - 1 /\ mr.depth \in 0 .. q - 1
       /\ ml.depth - mr.depth \in -1 .. 1
  <2>1. Sums(lr, lr.left, lr.value, lr.ref, lr.right)
    BY <1>5, <1>8, Counts
  <2> QED
    BY <1>5, <1>6, <1>8, <1>9, <2>1, Taken
<1>11. PICK a, b : a = ml.depth /\ b = mr.depth
  OBVIOUS
<1>12. a \in Nat /\ b \in Nat /\ a - h \in -1 .. 0 /\ b - h \in -1 .. 0
  <2>1. q = (IF a > b THEN a ELSE b) + 1
    BY <1>10, <1>11 DEF Higher
  <2>2. a \in 0 .. h /\ b \in 0 .. h /\ a - b \in -1 .. 1
    BY <1>7, <1>10, <1>11
  <2> QED
    BY <1>7, <2>1, <2>2
<1>13. ASSUME NEW w \in Int
       PROVE  /\ Avl!Find(l, w) = Avl!Find(ll, w) + Alone(lv, lc, w) + Avl!Find(lr, w)
              /\ Avl!Find(lr, w) = Avl!Find(ml, w) + Alone(mv, mc, w) + Avl!Find(mr, w)
              /\ Avl!Find(ll, w) \in Nat /\ Avl!Find(lr, w) \in Nat
              /\ Avl!Find(ml, w) \in Nat /\ Avl!Find(mr, w) \in Nat /\ Avl!Find(r, w) \in Nat
              /\ Alone(lv, lc, w) \in Nat /\ Alone(v, c, w) \in Nat /\ Alone(mv, mc, w) \in Nat
              /\ Alone(lv, lc, w) > 0 <=> w = lv
              /\ Alone(mv, mc, w) > 0 <=> w = mv
              /\ Alone(v, c, w) > 0 <=> w = v
  <2>1. /\ Avl!Find(l, w) = Avl!Find(ll, w) + Alone(lv, lc, w) + Avl!Find(lr, w)
        /\ Avl!Find(lr, w) = Avl!Find(ml, w) + Alone(mv, mc, w) + Avl!Find(mr, w)
    BY <1>5, <1>10 DEF Sums
  <2>2. /\ Avl!Find(ll, w) \in Nat /\ Avl!Find(lr, w) \in Nat
        /\ Avl!Find(ml, w) \in Nat /\ Avl!Find(mr, w) \in Nat /\ Avl!Find(r, w) \in Nat
    BY <1>1, <1>5, <1>10, Counts
  <2>3. /\ Alone(lv, lc, w) \in Nat /\ Alone(v, c, w) \in Nat /\ Alone(mv, mc, w) \in Nat
        /\ Alone(lv, lc, w) > 0 <=> w = lv
        /\ Alone(mv, mc, w) > 0 <=> w = mv
        /\ Alone(v, c, w) > 0 <=> w = v
    BY <1>1, <1>5, <1>10 DEF Alone
  <2> QED
    BY <2>1, <2>2, <2>3
<1>14. ASSUME NEW w \in Int
       PROVE  /\ Avl!Find(ml, w) > 0 \/ w = mv \/ Avl!Find(mr, w) > 0 => Avl!Find(lr, w) > 0
              /\ Avl!Find(lr, w) > 0 => Avl!Find(l, w) > 0
  <2>1. Avl!Find(l, w) = Avl!Find(ll, w) + Alone(lv, lc, w) + Avl!Find(lr, w)
    BY <1>13
  <2>2. Avl!Find(lr, w) = Avl!Find(ml, w) + Alone(mv, mc, w) + Avl!Find(mr, w)
    BY <1>13
  <2>3. /\ Avl!Find(ll, w) \in Nat /\ Avl!Find(lr, w) \in Nat
        /\ Avl!Find(ml, w) \in Nat /\ Avl!Find(mr, w) \in Nat
    BY <1>13
  <2>4. /\ Alone(lv, lc, w) \in Nat /\ Alone(mv, mc, w) \in Nat
        /\ w = mv => Alone(mv, mc, w) > 0
    BY <1>13
  <2> QED
    BY <2>1, <2>2, <2>3, <2>4
<1>15. lv \in Int /\ v \in Int /\ mv \in Int
  BY <1>1, <1>2, <1>5, <1>10
<1>16. /\ \A w \in Int : Avl!Find(ll, w) > 0 => w < lv
       /\ \A w \in Int : Avl!Find(lr, w) > 0 => lv < w
       /\ \A w \in Int : Avl!Find(lr, w) > 0 => w < v
       /\ \A w \in Int : Avl!Find(ml, w) > 0 => w < mv
       /\ \A w \in Int : Avl!Find(mr, w) > 0 => mv < w
       /\ \A w \in Int : Avl!Find(r, w) > 0 => v < w
  <2>1. /\ \A w \in Int : Avl!Find(ll, w) > 0 => w < lv
        /\ \A w \in Int : Avl!Find(lr, w) > 0 => lv < w
        /\ \A w \in Int : Avl!Find(l, w) > 0 => w < v
        /\ \A w \in Int : Avl!Find(ml, w) > 0 => w < mv
        /\ \A w \in Int : Avl!Find(mr, w) > 0 => mv < w
        /\ \A w \in Int : Avl!Find(r, w) > 0 => v < w
    BY <1>1, <1>5, <1>10 DEF Between
  <2> QED
    BY <1>14, <2>1
<1>17. lv < mv /\ mv < v
  BY <1>14, <1>15, <1>16
<1>18. PICK y, z : y = Make(lv, lc, ll, ml) /\ z = Make(v, c, mr, r)
  OBVIOUS
<1>19. Good(y) /\ Sums(y, ll, lv, lc, ml) /\ y.depth = h + 1
  <2>1. Between(ll, lv, ml)
    BY <1>14, <1>16 DEF Between
  <2>2. ll.depth < MaxNodes /\ ml.depth < MaxNodes /\ ll.depth - ml.depth \in -1 .. 1
    BY <1>2, <1>6, <1>7, <1>11, <1>12
  <2>3. Joint(ll, lv, lc, ml)
    BY <1>5, <1>10, <2>1, <2>2 DEF Joint
  <2>4. Good(y) /\ Sums(y, ll, lv, lc, ml) /\ y.depth = Higher(ll, ml) + 1
    BY <1>18, <2>2, <2>3, Joined
  <2>5. Higher(ll, ml) = h
    BY <1>6, <1>7, <1>11, <1>12 DEF Higher
  <2> QED
    BY <2>4, <2>5
<1>20. Good(z) /\ Sums(z, mr, v, c, r) /\ z.depth = h + 1
  <2>1. Between(mr, v, r)
    BY <1>14, <1>16 DEF Between
  <2>2. r.depth < MaxNodes /\ mr.depth < MaxNodes /\ mr.depth - r.depth \in -1 .. 1
    BY <1>2, <1>6, <1>7, <1>11, <1>12
  <2>3. Joint(mr, v, c, r)
    BY <1>1, <1>10, <2>1, <2>2 DEF Joint
  <2>4. Good(z) /\ Sums(z, mr, v, c, r) /\ z.depth = Higher(mr, r) + 1
    BY <1>18, <2>2, <2>3, Joined
  <2>5. Higher(mr, r) = h
    BY <1>6, <1>7, <1>11, <1>12 DEF Higher
  <2> QED
    BY <2>4, <2>5
<1>21. ASSUME NEW w \in Int
       PROVE  /\ Avl!Find(y, w) = Avl!Find(ll, w) + Alone(lv, lc, w) + Avl!Find(ml, w)
              /\ Avl!Find(z, w) = Avl!Find(mr, w) + Alone(v, c, w) + Avl!Find(r, w)
  BY <1>19, <1>20 DEF Sums
<1>22. Joint(y, mv, mc, z)
  <2>1. ASSUME NEW w \in Int, Avl!Find(y, w) > 0 PROVE w < mv
    <3>1. Avl!Find(ll, w) > 0 \/ w = lv \/ Avl!Find(ml, w) > 0
      BY <1>13, <1>21, <2>1
    <3>2. Avl!Find(ll, w) > 0 => w < lv
      BY <1>16
    <3>3. Avl!Find(ml, w) > 0 => w < mv
      BY <1>16
    <3> QED
      BY <1>15, <1>17, <3>1, <3>2, <3>3
  <2>2. ASSUME NEW w \in Int, Avl!Find(z, w) > 0 PROVE mv < w
    <3>1. Avl!Find(mr, w) > 0 \/ w = v \/ Avl!Find(r, w) > 0
      BY <1>13, <1>21, <2>2
    <3>2. Avl!Find(mr, w) > 0 => mv < w
      BY <1>16
    <3>3. Avl!Find(r, w) > 0 => v < w
      BY <1>16
    <3> QED
      BY <1>15, <1>17, <3>1, <3>2, <3>3
  <2>3. Between(y, mv, z)
    BY <2>1, <2>2 DEF Between
  <2>4. y.depth < MaxNodes /\ z.depth < MaxNodes
    BY <1>2, <1>7, <1>19, <1>20
  <2> QED
    BY <1>10, <1>19, <1>20, <2>3, <2>4 DEF Joint
<1>23. PICK x : x = Make(mv, mc, y, z)
  OBVIOUS
<1>24. Good(x) /\ x # Avl!Null /\ Sums(x, y, mv, mc, z) /\ x.depth = h + 2
  <2>1. y.depth - z.depth \in -1 .. 1
    BY <1>7, <1>19, <1>20
  <2>2. /\ Good(x) /\ x # Avl!Null /\ Sums(x, y, mv, mc, z)
        /\ x.depth = Higher(y, z) + 1
    BY <1>22, <1>23, <2>1, Joined
  <2>3. Higher(y, z) = h + 1
    BY <1>7, <1>19, <1>20 DEF Higher
  <2> QED
    BY <1>7, <2>2, <2>3
<1>25. Sums(x, l, v, c, r)
  <2>1. ASSUME NEW w \in Int
        PROVE  Avl!Find(x, w) = Avl!Find(l, w) + Alone(v, c, w) + Avl!Find(r, w)
    <3>1. Avl!Find(x, w) = Avl!Find(y, w) + Alone(mv, mc, w) + Avl!Find(z, w)
      BY <1>24 DEF Sums
    <3> QED
      BY <1>13, <1>21, <3>1
  <2>2. /\ Avl!Occurrences(x) = Avl!Occurrences(y) + mc + Avl!Occurrences(z)
        /\ Avl!Occurrences(y) = Avl!Occurrences(ll) + lc + Avl!Occurrences(ml)
        /\ Avl!Occurrences(z) = Avl!Occurrences(mr) + c + Avl!Occurrences(r)
        /\ Avl!Occurrences(lr) = Avl!Occurrences(ml) + mc + Avl!Occurrences(mr)
        /\ Avl!Occurrences(l) = Avl!Occurrences(ll) + lc + Avl!Occurrences(lr)
    BY <1>5, <1>10, <1>19, <1>20, <1>24 DEF Sums
  <2>3. /\ Avl!Occurrences(ll) \in Nat /\ Avl!Occurrences(ml) \in Nat
        /\ Avl!Occurrences(mr) \in Nat /\ Avl!Occurrences(r) \in Nat
    BY <1>1, <1>5, <1>10, Counts
  <2>4. Avl!Occurrences(x) = Avl!Occurrences(l) + c + Avl!Occurrences(r)
    BY <1>1, <1>5, <1>10, <2>2, <2>3
  <2> QED
    BY <2>1, <2>4 DEF Sums
<1>26. x.depth = l.depth
  BY <1>7, <1>24
<1> QED
  BY <1>3, <1>4, <1>5, <1>8, <1>9, <1>18, <1>23, <1>24, <1>25, <1>26

\* A rotation to the left levels a node whose right branch is too deep, if its inner branch
\* is not the deeper one.
LEMMA SingleLeft ==
  ASSUME Avl!AvlAssumption, NEW l, NEW r, NEW v, NEW c, Joint(l, v, c, r),
         r.depth - l.depth = 2, Avl!Balance(r) <= 0
  PROVE  LET x == Make(r.value, r.ref, Make(v, c, l, r.left), r.right)
         IN  /\ Good(x) /\ x # Avl!Null /\ Sums(x, l, v, c, r)
             /\ x.depth = IF Avl!Balance(r) = 0 THEN r.depth + 1 ELSE r.depth
<1>1. /\ Good(r) /\ Good(l) /\ v \in Values /\ c \in Nat \ {0} /\ Between(l, v, r)
      /\ r.depth < MaxNodes /\ l.depth < MaxNodes
  BY DEF Joint
<1>2. /\ MaxNodes \in Nat \ {0} /\ Values \subseteq Int
      /\ r.depth \in 0 .. MaxNodes /\ l.depth \in 0 .. MaxNodes /\ r \in Avl!Tree
  BY <1>1, LevelsBuilt DEF Good
<1>3. r # Avl!Null
  BY <1>2, TreeShape
<1>4. PICK rv, rc, rr, rl : rv = r.value /\ rc = r.ref /\ rr = r.right /\ rl = r.left
  OBVIOUS
<1>5. /\ rv \in Values /\ rc \in Nat \ {0} /\ Good(rr) /\ Good(rl) /\ Between(rl, rv, rr)
      /\ r.depth = Higher(rl, rr) + 1 /\ Sums(r, rl, rv, rc, rr)
      /\ rr.depth \in 0 .. r.depth - 1 /\ rl.depth \in 0 .. r.depth - 1
      /\ rl.depth - rr.depth \in -1 .. 1 /\ Avl!Balance(r) = rl.depth - rr.depth
  <2>1. Sums(r, r.left, r.value, r.ref, r.right)
    BY <1>1, <1>3, Counts
  <2> QED
    BY <1>1, <1>2, <1>3, <1>4, <2>1, Taken
<1>6. PICK p, q, h : p = rr.depth /\ q = rl.depth /\ h = l.depth
  OBVIOUS
<1>7. /\ p \in Nat /\ q \in Nat /\ h \in Nat /\ r.depth = h + 2 /\ h + 2 < MaxNodes
      /\ p = h + 1 /\ q \in {h, h + 1} /\ Avl!Balance(r) = q - p
  <2>1. /\ r.depth \in 0 .. MaxNodes /\ h \in 0 .. MaxNodes /\ r.depth - h = 2
        /\ p \in 0 .. r.depth - 1 /\ q \in 0 .. r.depth - 1
        /\ r.depth < MaxNodes /\ q - p <= 0 /\ q - p \in -1 .. 1
        /\ Avl!Balance(r) = q - p
    BY <1>1, <1>2, <1>5, <1>6
  <2>2. r.depth = (IF p > q THEN p ELSE q) + 1
    BY <1>5, <1>6 DEF Higher
  <2> QED
    BY <1>2, <2>1, <2>2
<1>8. ASSUME NEW w \in Int
      PROVE  /\ Avl!Find(r, w) = Avl!Find(rl, w) + Alone(rv, rc, w) + Avl!Find(rr, w)
             /\ Avl!Find(r, w) \in Nat /\ Avl!Find(rr, w) \in Nat /\ Avl!Find(rl, w) \in Nat
             /\ Avl!Find(l, w) \in Nat
             /\ Alone(rv, rc, w) \in Nat /\ Alone(v, c, w) \in Nat
             /\ Alone(rv, rc, w) > 0 <=> w = rv
             /\ Alone(v, c, w) > 0 <=> w = v
  <2>1. Avl!Find(r, w) = Avl!Find(rl, w) + Alone(rv, rc, w) + Avl!Find(rr, w)
    BY <1>5 DEF Sums
  <2>2. /\ Avl!Find(r, w) \in Nat /\ Avl!Find(rr, w) \in Nat /\ Avl!Find(rl, w) \in Nat
        /\ Avl!Find(l, w) \in Nat
    BY <1>1, <1>5, Counts
  <2> QED
    BY <1>1, <1>5, <2>1, <2>2 DEF Alone
<1>9. rv \in Int /\ v \in Int /\ v < rv
  BY <1>1, <1>2, <1>5, <1>8 DEF Between
<1>10. Joint(l, v, c, rl)
  <2>1. ASSUME NEW w \in Int, Avl!Find(rl, w) > 0 PROVE v < w
    <3>1. Avl!Find(r, w) > 0
      BY <1>8, <2>1
    <3> QED
      BY <1>1, <3>1 DEF Between
  <2>2. Between(l, v, rl)
    BY <1>1, <2>1 DEF Between
  <2>3. rl.depth < MaxNodes
    BY <1>2, <1>6, <1>7
  <2> QED
    BY <1>1, <1>5, <2>2, <2>3 DEF Joint
<1>11. PICK y : y = Make(v, c, l, rl)
  OBVIOUS
<1>12. Good(y) /\ Sums(y, l, v, c, rl) /\ y.depth = q + 1
  <2>1. l.depth - rl.depth \in -1 .. 1
    BY <1>6, <1>7
  <2>2. Good(y) /\ Sums(y, l, v, c, rl) /\ y.depth = Higher(l, rl) + 1
    BY <1>10, <1>11, <2>1, Joined
  <2>3. Higher(l, rl) = q
    BY <1>6, <1>7 DEF Higher
  <2> QED
    BY <2>2, <2>3
<1>13. ASSUME NEW w \in Int
       PROVE  Avl!Find(y, w) = Avl!Find(l, w) + Alone(v, c, w) + Avl!Find(rl, w)
  BY <1>12 DEF Sums
<1>14. Joint(y, rv, rc, rr)
  <2>1. ASSUME NEW w \in Int, Avl!Find(y, w) > 0 PROVE w < rv
    <3>1. Avl!Find(rl, w) > 0 \/ w = v \/ Avl!Find(l, w) > 0
      BY <1>8, <1>13, <2>1
    <3>2. Avl!Find(rl, w) > 0 => w < rv
      BY <1>5 DEF Between
    <3>3. Avl!Find(l, w) > 0 => w < v
      BY <1>1 DEF Between
    <3> QED
      BY <1>9, <3>1, <3>2, <3>3
  <2>2. Between(y, rv, rr)
    BY <1>5, <2>1 DEF Between
  <2>3. rr.depth < MaxNodes /\ y.depth < MaxNodes
    BY <1>2, <1>6, <1>7, <1>12
  <2> QED
    BY <1>5, <1>12, <2>2, <2>3 DEF Joint
<1>15. PICK x : x = Make(rv, rc, y, rr)
  OBVIOUS
<1>16. Good(x) /\ x # Avl!Null /\ Sums(x, y, rv, rc, rr) /\ x.depth = q + 2
  <2>1. y.depth - rr.depth \in -1 .. 1
    BY <1>6, <1>7, <1>12
  <2>2. /\ Good(x) /\ x # Avl!Null /\ Sums(x, y, rv, rc, rr)
        /\ x.depth = Higher(y, rr) + 1
    BY <1>14, <1>15, <2>1, Joined
  <2>3. Higher(y, rr) = q + 1
    BY <1>6, <1>7, <1>12 DEF Higher
  <2> QED
    BY <1>7, <2>2, <2>3
<1>17. Sums(x, l, v, c, r)
  <2>1. ASSUME NEW w \in Int
        PROVE  Avl!Find(x, w) = Avl!Find(l, w) + Alone(v, c, w) + Avl!Find(r, w)
    <3>1. Avl!Find(x, w) = Avl!Find(y, w) + Alone(rv, rc, w) + Avl!Find(rr, w)
      BY <1>16 DEF Sums
    <3> QED
      BY <1>8, <1>13, <3>1
  <2>2. /\ Avl!Occurrences(x) = Avl!Occurrences(y) + rc + Avl!Occurrences(rr)
        /\ Avl!Occurrences(y) = Avl!Occurrences(l) + c + Avl!Occurrences(rl)
        /\ Avl!Occurrences(r) = Avl!Occurrences(rl) + rc + Avl!Occurrences(rr)
    BY <1>5, <1>12, <1>16 DEF Sums
  <2>3. /\ Avl!Occurrences(rr) \in Nat /\ Avl!Occurrences(rl) \in Nat
        /\ Avl!Occurrences(l) \in Nat
    BY <1>1, <1>5, Counts
  <2>4. Avl!Occurrences(x) = Avl!Occurrences(l) + c + Avl!Occurrences(r)
    BY <1>1, <1>5, <2>2, <2>3
  <2> QED
    BY <2>1, <2>4 DEF Sums
<1>18. x.depth = IF Avl!Balance(r) = 0 THEN r.depth + 1 ELSE r.depth
  BY <1>7, <1>16
<1> QED
  BY <1>4, <1>11, <1>15, <1>16, <1>17, <1>18

\* Two rotations level it if its inner branch is the deeper one.
LEMMA DoubleLeft ==
  ASSUME Avl!AvlAssumption, NEW l, NEW r, NEW v, NEW c, Joint(l, v, c, r),
         r.depth - l.depth = 2, Avl!Balance(r) = 1
  PROVE  LET x == Make(r.left.value, r.left.ref, Make(v, c, l, r.left.left),
                       Make(r.value, r.ref, r.left.right, r.right))
         IN  /\ Good(x) /\ x # Avl!Null /\ Sums(x, l, v, c, r) /\ x.depth = r.depth
             /\ r # Avl!Null /\ r.left # Avl!Null /\ Good(r.left)
<1>1. /\ Good(r) /\ Good(l) /\ v \in Values /\ c \in Nat \ {0} /\ Between(l, v, r)
      /\ r.depth < MaxNodes /\ l.depth < MaxNodes
  BY DEF Joint
<1>2. /\ MaxNodes \in Nat \ {0} /\ Values \subseteq Int
      /\ r.depth \in 0 .. MaxNodes /\ l.depth \in 0 .. MaxNodes /\ r \in Avl!Tree
  BY <1>1, LevelsBuilt DEF Good
<1>3. r # Avl!Null
  BY <1>2, TreeShape
<1>4. PICK rv, rc, rr, rl : rv = r.value /\ rc = r.ref /\ rr = r.right /\ rl = r.left
  OBVIOUS
<1>5. /\ rv \in Values /\ rc \in Nat \ {0} /\ Good(rr) /\ Good(rl) /\ Between(rl, rv, rr)
      /\ r.depth = Higher(rl, rr) + 1 /\ Sums(r, rl, rv, rc, rr)
      /\ rr.depth \in 0 .. r.depth - 1 /\ rl.depth \in 0 .. r.depth - 1
      /\ rl.depth - rr.depth \in -1 .. 1 /\ Avl!Balance(r) = rl.depth - rr.depth
      /\ rl \in Avl!Tree
  <2>1. Sums(r, r.left, r.value, r.ref, r.right)
    BY <1>1, <1>3, Counts
  <2> QED
    BY <1>1, <1>2, <1>3, <1>4, <2>1, Taken
<1>6. PICK p, q, h : p = rr.depth /\ q = rl.depth /\ h = l.depth
  OBVIOUS
<1>7. /\ p = h /\ q = h + 1 /\ h \in Nat /\ r.depth = h + 2 /\ h + 2 < MaxNodes
  <2>1. /\ r.depth \in 0 .. MaxNodes /\ h \in 0 .. MaxNodes /\ r.depth - h = 2
        /\ p \in 0 .. r.depth - 1 /\ q \in 0 .. r.depth - 1
        /\ r.depth < MaxNodes /\ q - p = 1
    BY <1>1, <1>2, <1>5, <1>6
  <2>2. r.depth = (IF p > q THEN p ELSE q) + 1
    BY <1>5, <1>6 DEF Higher
  <2> QED
    BY <1>2, <2>1, <2>2
<1>8. rl # Avl!Null
  <2>1. rl.depth # 0
    BY <1>6, <1>7
  <2>2. Avl!Null.depth = 0
    BY TreeShape
  <2> QED
    BY <2>1, <2>2
<1>9. PICK mv, mc, mr, ml : mv = rl.value /\ mc = rl.ref /\ mr = rl.right /\ ml = rl.left
  OBVIOUS
<1>10. /\ mv \in Values /\ mc \in Nat \ {0} /\ Good(mr) /\ Good(ml) /\ Between(ml, mv, mr)
       /\ q = Higher(ml, mr) + 1 /\ Sums(rl, ml, mv, mc, mr)
       /\ mr.depth \in 0 .. q - 1 /\ ml.depth \in 0 .. q - 1
       /\ ml.depth - mr.depth \in -1 .. 1
  <2>1. Sums(rl, rl.left, rl.value, rl.ref, rl.right)
    BY <1>5, <1>8, Counts
  <2> QED
    BY <1>5, <1>6, <1>8, <1>9, <2>1, Taken
<1>11. PICK a, b : a = mr.depth /\ b = ml.depth
  OBVIOUS
<1>12. a \in Nat /\ b \in Nat /\ a - h \in -1 .. 0 /\ b - h \in -1 .. 0
  <2>1. q = (IF a > b THEN a ELSE b) + 1
    BY <1>10, <1>11 DEF Higher
  <2>2. a \in 0 .. h /\ b \in 0 .. h /\ b - a \in -1 .. 1
    BY <1>7, <1>10, <1>11
  <2> QED
    BY <1>7, <2>1, <2>2
<1>13. ASSUME NEW w \in Int
       PROVE  /\ Avl!Find(r, w) = Avl!Find(rl, w) + Alone(rv, rc, w) + Avl!Find(rr, w)
              /\ Avl!Find(rl, w) = Avl!Find(ml, w) + Alone(mv, mc, w) + Avl!Find(mr, w)
              /\ Avl!Find(rr, w) \in Nat /\ Avl!Find(rl, w) \in Nat
              /\ Avl!Find(mr, w) \in Nat /\ Avl!Find(ml, w) \in Nat /\ Avl!Find(l, w) \in Nat
              /\ Alone(rv, rc, w) \in Nat /\ Alone(v, c, w) \in Nat /\ Alone(mv, mc, w) \in Nat
              /\ Alone(rv, rc, w) > 0 <=> w = rv
              /\ Alone(mv, mc, w) > 0 <=> w = mv
              /\ Alone(v, c, w) > 0 <=> w = v
  <2>1. /\ Avl!Find(r, w) = Avl!Find(rl, w) + Alone(rv, rc, w) + Avl!Find(rr, w)
        /\ Avl!Find(rl, w) = Avl!Find(ml, w) + Alone(mv, mc, w) + Avl!Find(mr, w)
    BY <1>5, <1>10 DEF Sums
  <2>2. /\ Avl!Find(rr, w) \in Nat /\ Avl!Find(rl, w) \in Nat
        /\ Avl!Find(mr, w) \in Nat /\ Avl!Find(ml, w) \in Nat /\ Avl!Find(l, w) \in Nat
    BY <1>1, <1>5, <1>10, Counts
  <2>3. /\ Alone(rv, rc, w) \in Nat /\ Alone(v, c, w) \in Nat /\ Alone(mv, mc, w) \in Nat
        /\ Alone(rv, rc, w) > 0 <=> w = rv
        /\ Alone(mv, mc, w) > 0 <=> w = mv
        /\ Alone(v, c, w) > 0 <=> w = v
    BY <1>1, <1>5, <1>10 DEF Alone
  <2> QED
    BY <2>1, <2>2, <2>3
<1>14. ASSUME NEW w \in Int
       PROVE  /\ Avl!Find(mr, w) > 0 \/ w = mv \/ Avl!Find(ml, w) > 0 => Avl!Find(rl, w) > 0
              /\ Avl!Find(rl, w) > 0 => Avl!Find(r, w) > 0
  <2>1. Avl!Find(r, w) = Avl!Find(rl, w) + Alone(rv, rc, w) + Avl!Find(rr, w)
    BY <1>13
  <2>2. Avl!Find(rl, w) = Avl!Find(ml, w) + Alone(mv, mc, w) + Avl!Find(mr, w)
    BY <1>13
  <2>3. /\ Avl!Find(rr, w) \in Nat /\ Avl!Find(rl, w) \in Nat
        /\ Avl!Find(mr, w) \in Nat /\ Avl!Find(ml, w) \in Nat
    BY <1>13
  <2>4. /\ Alone(rv, rc, w) \in Nat /\ Alone(mv, mc, w) \in Nat
        /\ w = mv => Alone(mv, mc, w) > 0
    BY <1>13
  <2> QED
    BY <2>1, <2>2, <2>3, <2>4
<1>15. rv \in Int /\ v \in Int /\ mv \in Int
  BY <1>1, <1>2, <1>5, <1>10
<1>16. /\ \A w \in Int : Avl!Find(rr, w) > 0 => rv < w
       /\ \A w \in Int : Avl!Find(rl, w) > 0 => w < rv
       /\ \A w \in Int : Avl!Find(rl, w) > 0 => v < w
       /\ \A w \in Int : Avl!Find(mr, w) > 0 => mv < w
       /\ \A w \in Int : Avl!Find(ml, w) > 0 => w < mv
       /\ \A w \in Int : Avl!Find(l, w) > 0 => w < v
  <2>1. /\ \A w \in Int : Avl!Find(rr, w) > 0 => rv < w
        /\ \A w \in Int : Avl!Find(rl, w) > 0 => w < rv
        /\ \A w \in Int : Avl!Find(r, w) > 0 => v < w
        /\ \A w \in Int : Avl!Find(mr, w) > 0 => mv < w
        /\ \A w \in Int : Avl!Find(ml, w) > 0 => w < mv
        /\ \A w \in Int : Avl!Find(l, w) > 0 => w < v
    BY <1>1, <1>5, <1>10 DEF Between
  <2> QED
    BY <1>14, <2>1
<1>17. mv < rv /\ v < mv
  BY <1>14, <1>15, <1>16
<1>18. PICK y, z : y = Make(rv, rc, mr, rr) /\ z = Make(v, c, l, ml)
  OBVIOUS
<1>19. Good(y) /\ Sums(y, mr, rv, rc, rr) /\ y.depth = h + 1
  <2>1. Between(mr, rv, rr)
    BY <1>14, <1>16 DEF Between
  <2>2. rr.depth < MaxNodes /\ mr.depth < MaxNodes /\ mr.depth - rr.depth \in -1 .. 1
    BY <1>2, <1>6, <1>7, <1>11, <1>12
  <2>3. Joint(mr, rv, rc, rr)
    BY <1>5, <1>10, <2>1, <2>2 DEF Joint
  <2>4. Good(y) /\ Sums(y, mr, rv, rc, rr) /\ y.depth = Higher(mr, rr) + 1
    BY <1>18, <2>2, <2>3, Joined
  <2>5. Higher(mr, rr) = h
    BY <1>6, <1>7, <1>11, <1>12 DEF Higher
  <2> QED
    BY <2>4, <2>5
<1>20. Good(z) /\ Sums(z, l, v, c, ml) /\ z.depth = h + 1
  <2>1. Between(l, v, ml)
    BY <1>14, <1>16 DEF Between
  <2>2. l.depth < MaxNodes /\ ml.depth < MaxNodes /\ l.depth - ml.depth \in -1 .. 1
    BY <1>2, <1>6, <1>7, <1>11, <1>12
  <2>3. Joint(l, v, c, ml)
    BY <1>1, <1>10, <2>1, <2>2 DEF Joint
  <2>4. Good(z) /\ Sums(z, l, v, c, ml) /\ z.depth = Higher(l, ml) + 1
    BY <1>18, <2>2, <2>3, Joined
  <2>5. Higher(l, ml) = h
    BY <1>6, <1>7, <1>11, <1>12 DEF Higher
  <2> QED
    BY <2>4, <2>5
<1>21. ASSUME NEW w \in Int
       PROVE  /\ Avl!Find(y, w) = Avl!Find(mr, w) + Alone(rv, rc, w) + Avl!Find(rr, w)
              /\ Avl!Find(z, w) = Avl!Find(l, w) + Alone(v, c, w) + Avl!Find(ml, w)
  BY <1>19, <1>20 DEF Sums
<1>22. Joint(z, mv, mc, y)
  <2>1. ASSUME NEW w \in Int, Avl!Find(y, w) > 0 PROVE mv < w
    <3>1. Avl!Find(rr, w) > 0 \/ w = rv \/ Avl!Find(mr, w) > 0
      BY <1>13, <1>21, <2>1
    <3>2. Avl!Find(rr, w) > 0 => rv < w
      BY <1>16
    <3>3. Avl!Find(mr, w) > 0 => mv < w
      BY <1>16
    <3> QED
      BY <1>15, <1>17, <3>1, <3>2, <3>3
  <2>2. ASSUME NEW w \in Int, Avl!Find(z, w) > 0 PROVE w < mv
    <3>1. Avl!Find(ml, w) > 0 \/ w = v \/ Avl!Find(l, w) > 0
      BY <1>13, <1>21, <2>2
    <3>2. Avl!Find(ml, w) > 0 => w < mv
      BY <1>16
    <3>3. Avl!Find(l, w) > 0 => w < v
      BY <1>16
    <3> QED
      BY <1>15, <1>17, <3>1, <3>2, <3>3
  <2>3. Between(z, mv, y)
    BY <2>1, <2>2 DEF Between
  <2>4. y.depth < MaxNodes /\ z.depth < MaxNodes
    BY <1>2, <1>7, <1>19, <1>20
  <2> QED
    BY <1>10, <1>19, <1>20, <2>3, <2>4 DEF Joint
<1>23. PICK x : x = Make(mv, mc, z, y)
  OBVIOUS
<1>24. Good(x) /\ x # Avl!Null /\ Sums(x, z, mv, mc, y) /\ x.depth = h + 2
  <2>1. z.depth - y.depth \in -1 .. 1
    BY <1>7, <1>19, <1>20
  <2>2. /\ Good(x) /\ x # Avl!Null /\ Sums(x, z, mv, mc, y)
        /\ x.depth = Higher(z, y) + 1
    BY <1>22, <1>23, <2>1, Joined
  <2>3. Higher(z, y) = h + 1
    BY <1>7, <1>19, <1>20 DEF Higher
  <2> QED
    BY <1>7, <2>2, <2>3
<1>25. Sums(x, l, v, c, r)
  <2>1. ASSUME NEW w \in Int
        PROVE  Avl!Find(x, w) = Avl!Find(l, w) + Alone(v, c, w) + Avl!Find(r, w)
    <3>1. Avl!Find(x, w) = Avl!Find(z, w) + Alone(mv, mc, w) + Avl!Find(y, w)
      BY <1>24 DEF Sums
    <3> QED
      BY <1>13, <1>21, <3>1
  <2>2. /\ Avl!Occurrences(x) = Avl!Occurrences(z) + mc + Avl!Occurrences(y)
        /\ Avl!Occurrences(y) = Avl!Occurrences(mr) + rc + Avl!Occurrences(rr)
        /\ Avl!Occurrences(z) = Avl!Occurrences(l) + c + Avl!Occurrences(ml)
        /\ Avl!Occurrences(rl) = Avl!Occurrences(ml) + mc + Avl!Occurrences(mr)
        /\ Avl!Occurrences(r) = Avl!Occurrences(rl) + rc + Avl!Occurrences(rr)
    BY <1>5, <1>10, <1>19, <1>20, <1>24 DEF Sums
  <2>3. /\ Avl!Occurrences(rr) \in Nat /\ Avl!Occurrences(mr) \in Nat
        /\ Avl!Occurrences(ml) \in Nat /\ Avl!Occurrences(l) \in Nat
    BY <1>1, <1>5, <1>10, Counts
  <2>4. Avl!Occurrences(x) = Avl!Occurrences(l) + c + Avl!Occurrences(r)
    BY <1>1, <1>5, <1>10, <2>2, <2>3
  <2> QED
    BY <2>1, <2>4 DEF Sums
<1>26. x.depth = r.depth
  BY <1>7, <1>24
<1> QED
  BY <1>3, <1>4, <1>5, <1>8, <1>9, <1>18, <1>23, <1>24, <1>25, <1>26

\* The rotations to one side that insert and remove choose from
TurnsRight(l, n, z) ==
  \/ Avl!Balance(l) # -1 /\ z = Avl!RotateRight(n)
  \/ Avl!Balance(l) = -1
     /\ z = Avl!RotateRight([n EXCEPT !.left = Avl!RotateLeft(n.left)])
TurnsLeft(r, n, z) ==
  \/ Avl!Balance(r) # 1 /\ z = Avl!RotateLeft(n)
  \/ Avl!Balance(r) = 1
     /\ z = Avl!RotateLeft([n EXCEPT !.right = Avl!RotateRight(n.right)])

\* How deep a node becomes that is levelled by rotations towards its higher branch's place
Turned(b) == IF Avl!Balance(b) = 0 THEN b.depth + 1 ELSE b.depth

\* The rotations to the right make a node whose left branch is too deep sound again.
LEMMA LevelledRight ==
  ASSUME Avl!AvlAssumption, NEW l, NEW r, NEW v, NEW c, Joint(l, v, c, r),
         l.depth - r.depth = 2, NEW n, n = Make(v, c, l, r), NEW z,
         TurnsRight(l, n, z)
  PROVE  /\ Good(z) /\ z # Avl!Null /\ Sums(z, l, v, c, r)
         /\ z.depth = Turned(l)
<1>1. Good(l) /\ l \in Avl!Tree /\ l.depth \in 0 .. MaxNodes /\ r.depth \in 0 .. MaxNodes
  BY DEF Joint, Good
<1>2. l # Avl!Null
  BY <1>1, TreeShape
<1>3. l = Make(l.value, l.ref, l.left, l.right)
  BY <1>1, <1>2, Taken
<1>4. CASE Avl!Balance(l) # -1
  <2>1. n = [value |-> v, depth |-> Higher(l, r) + 1, ref |-> c,
             left |-> Make(l.value, l.ref, l.left, l.right), right |-> r]
    BY <1>3 DEF Make
  <2>2. z = Make(l.value, l.ref, l.left, Make(v, c, l.right, r))
    BY <1>4, <2>1, Rotations DEF TurnsRight
  <2>3. Avl!Balance(l) >= 0
    <3>1. Avl!Balance(l) = l.left.depth - l.right.depth
          /\ l.left.depth - l.right.depth \in -1 .. 1
      BY <1>1, <1>2, Taken
    <3> QED
      BY <1>4, <3>1
  <2>4. /\ Good(z) /\ z # Avl!Null /\ Sums(z, l, v, c, r)
        /\ z.depth = IF Avl!Balance(l) = 0 THEN l.depth + 1 ELSE l.depth
    BY <2>2, <2>3, SingleRight
  <2> QED
    BY <2>4 DEF Turned
<1>5. CASE Avl!Balance(l) = -1
  <2>1. PICK m : m = l.right
    OBVIOUS
  <2>2. m # Avl!Null /\ Good(m)
    BY <1>5, <2>1, DoubleRight
  <2>3. m = Make(m.value, m.ref, m.left, m.right)
    BY <2>2, Taken DEF Good
  <2>4. PICK x, y : x = Make(l.value, l.ref, l.left, m.left) /\ y = Make(m.value, m.ref, x, m.right)
    OBVIOUS
  <2>5. l = [value |-> l.value, depth |-> Higher(l.left, m) + 1, ref |-> l.ref, left |-> l.left,
             right |-> Make(m.value, m.ref, m.left, m.right)]
    <3>1. l = [value |-> l.value, depth |-> Higher(l.left, m) + 1, ref |-> l.ref, left |-> l.left,
               right |-> m]
      BY <1>3, <2>1 DEF Make
    <3> QED
      BY <2>3, <3>1
  <2>6. Avl!RotateLeft(l) = y
    BY <2>4, <2>5, Rotations
  <2>7. n.left = l
    BY MadeFields
  <2> DEFINE k == [n EXCEPT !.left = Avl!RotateLeft(n.left)]
  <2>8. k = [value |-> v, depth |-> Higher(l, r) + 1, ref |-> c, left |-> y, right |-> r]
    BY <2>6, <2>7 DEF Make
  <2> HIDE DEF k
  <2>9. Avl!RotateRight(k) = Make(m.value, m.ref, x, Make(v, c, m.right, r))
    BY <2>4, <2>8, Rotations
  <2>10. z = Make(m.value, m.ref, x, Make(v, c, m.right, r))
    BY <1>5, <2>9 DEF k, TurnsRight
  <2>11. Good(z) /\ z # Avl!Null /\ Sums(z, l, v, c, r) /\ z.depth = l.depth
    BY <1>5, <2>1, <2>4, <2>10, DoubleRight
  <2> QED
    BY <1>5, <2>11 DEF Turned
<1> QED
  BY <1>4, <1>5

\* The rotations to the left make a node whose right branch is too deep sound again.
LEMMA LevelledLeft ==
  ASSUME Avl!AvlAssumption, NEW l, NEW r, NEW v, NEW c, Joint(l, v, c, r),
         r.depth - l.depth = 2, NEW n, n = Make(v, c, l, r), NEW z,
         TurnsLeft(r, n, z)
  PROVE  /\ Good(z) /\ z # Avl!Null /\ Sums(z, l, v, c, r)
         /\ z.depth = Turned(r)
<1>1. Good(r) /\ r \in Avl!Tree /\ r.depth \in 0 .. MaxNodes /\ l.depth \in 0 .. MaxNodes
  BY DEF Joint, Good
<1>2. r # Avl!Null
  BY <1>1, TreeShape
<1>3. r = Make(r.value, r.ref, r.left, r.right)
  BY <1>1, <1>2, Taken
<1>4. CASE Avl!Balance(r) # 1
  <2>1. n = [value |-> v, depth |-> Higher(l, r) + 1, ref |-> c,
             left |-> l, right |-> Make(r.value, r.ref, r.left, r.right)]
    BY <1>3 DEF Make
  <2>2. z = Make(r.value, r.ref, Make(v, c, l, r.left), r.right)
    BY <1>4, <2>1, Rotations DEF TurnsLeft
  <2>3. Avl!Balance(r) <= 0
    <3>1. Avl!Balance(r) = r.left.depth - r.right.depth
          /\ r.left.depth - r.right.depth \in -1 .. 1
      BY <1>1, <1>2, Taken
    <3> QED
      BY <1>4, <3>1
  <2>4. /\ Good(z) /\ z # Avl!Null /\ Sums(z, l, v, c, r)
        /\ z.depth = IF Avl!Balance(r) = 0 THEN r.depth + 1 ELSE r.depth
    BY <2>2, <2>3, SingleLeft
  <2> QED
    BY <2>4 DEF Turned
<1>5. CASE Avl!Balance(r) = 1
  <2>1. PICK m : m = r.left
    OBVIOUS
  <2>2. m # Avl!Null /\ Good(m)
    BY <1>5, <2>1, DoubleLeft
  <2>3. m = Make(m.value, m.ref, m.left, m.right)
    BY <2>2, Taken DEF Good
  <2>4. PICK x, y : /\ x = Make(r.value, r.ref, m.right, r.right)
                    /\ y = Make(m.value, m.ref, m.left, x)
    OBVIOUS
  <2>5. r = [value |-> r.value, depth |-> Higher(m, r.right) + 1, ref |-> r.ref,
             left |-> Make(m.value, m.ref, m.left, m.right), right |-> r.right]
    <3>1. r = [value |-> r.value, depth |-> Higher(m, r.right) + 1, ref |-> r.ref, left |-> m,
               right |-> r.right]
      BY <1>3, <2>1 DEF Make
    <3> QED
      BY <2>3, <3>1
  <2>6. Avl!RotateRight(r) = y
    BY <2>4, <2>5, Rotations
  <2>7. n.right = r
    BY MadeFields
  <2> DEFINE k == [n EXCEPT !.right = Avl!RotateRight(n.right)]
  <2>8. k = [value |-> v, depth |-> Higher(l, r) + 1, ref |-> c, left |-> l, right |-> y]
    BY <2>6, <2>7 DEF Make
  <2> HIDE DEF k
  <2>9. Avl!RotateLeft(k) = Make(m.value, m.ref, Make(v, c, l, m.left), x)
    BY <2>4, <2>8, Rotations
  <2>10. z = Make(m.value, m.ref, Make(v, c, l, m.left), x)
    BY <1>5, <2>9 DEF k, TurnsLeft
  <2>11. Good(z) /\ z # Avl!Null /\ Sums(z, l, v, c, r) /\ z.depth = r.depth
    BY <1>5, <2>1, <2>4, <2>10, DoubleLeft
  <2> QED
    BY <1>5, <2>11 DEF Turned
<1> QED
  BY <1>4, <1>5

\* A node is of the same depth in both branches, or deeper in the one where u would be.
Leans(x, u) ==
  /\ x.value # u
  /\ u < x.value => Avl!Balance(x) = 1
  /\ x.value < u => Avl!Balance(x) = -1

\* What the rotations know of the branches of a node
LEMMA Depths ==
  ASSUME Avl!AvlAssumption, NEW l, NEW r, NEW v, NEW c, Joint(l, v, c, r)
  PROVE  /\ l.depth \in Nat /\ r.depth \in Nat
         /\ l.depth > 0 => /\ l # Avl!Null /\ l.value \in Int /\ Avl!Balance(l) \in -1 .. 1
         /\ r.depth > 0 => /\ r # Avl!Null /\ r.value \in Int /\ Avl!Balance(r) \in -1 .. 1
<1>1. ASSUME NEW b, Good(b)
      PROVE  /\ b.depth \in Nat
             /\ b.depth > 0 => b # Avl!Null /\ b.value \in Int /\ Avl!Balance(b) \in -1 .. 1
  <2>1. b \in Avl!Tree /\ b.depth \in 0 .. MaxNodes /\ MaxNodes \in Nat /\ Values \subseteq Int
    BY <1>1, LevelsBuilt DEF Good
  <2>2. Avl!Null.depth = 0
    BY TreeShape
  <2>3. b # Avl!Null => b.value \in Values /\ Avl!Balance(b) \in -1 .. 1
    BY <1>1, <2>1, Taken
  <2>4. b.depth \in Nat
    BY <2>1
  <2>5. b.depth > 0 => b # Avl!Null
    BY <2>2
  <2> QED
    BY <2>1, <2>3, <2>4, <2>5
<1> QED
  BY <1>1 DEF Joint

\* After a removal a node is rebalanced: sound, with the same occurrences, and at most one
\* level lower.
LEMMA RemovalLevels ==
  ASSUME Avl!AvlAssumption, NEW l, NEW r, NEW v, NEW c, Joint(l, v, c, r),
         l.depth - r.depth \in -2 .. 2, NEW m, m = Make(v, c, l, r)
  PROVE  LET x == Avl!AfterRemoval(m)
         IN  /\ Good(x) /\ x # Avl!Null /\ Sums(x, l, v, c, r)
             /\ x.depth \in {Higher(l, r), Higher(l, r) + 1}
             /\ l.depth - r.depth \in -1 .. 1 => x = m
<1>1. /\ m.left = l /\ m.right = r /\ Avl!Balance(m) = l.depth - r.depth
      /\ Avl!Balance(m.left) = Avl!Balance(l) /\ Avl!Balance(m.right) = Avl!Balance(r)
  BY MadeFields
<1>2. l.depth \in Nat /\ r.depth \in Nat
  BY Depths
<1>3. CASE l.depth - r.depth \in -1 .. 1
  <2>1. Avl!AfterRemoval(m) = m
    BY <1>1, <1>3 DEF Avl!AfterRemoval, Avl!Rebalanced
  <2>2. Good(m) /\ m # Avl!Null /\ Sums(m, l, v, c, r) /\ m.depth = Higher(l, r) + 1
    BY <1>3, Joined
  <2> QED
    BY <2>1, <2>2
<1>4. CASE l.depth - r.depth = 2
  <2>1. l # Avl!Null /\ Avl!Balance(l) \in -1 .. 1 /\ l.depth > 0
    BY <1>2, <1>4, Depths
  <2>2. Avl!Balance(m) > 1 /\ m.left # Avl!Null
    BY <1>1, <1>4, <2>1
  <2>3. Higher(l, r) = l.depth
    BY <1>2, <1>4 DEF Higher
  <2>4. CASE Avl!Balance(l) = -1
    <3>1. Avl!AfterRemoval(m) = Avl!RotateRight([m EXCEPT !.left = Avl!RotateLeft(m.left)])
      BY <1>1, <2>2, <2>4 DEF Avl!AfterRemoval, Avl!Rebalanced
    <3>2. PICK x : x = Avl!RotateRight([m EXCEPT !.left = Avl!RotateLeft(m.left)])
      OBVIOUS
    <3>3. Good(x) /\ x # Avl!Null /\ Sums(x, l, v, c, r) /\ x.depth = Turned(l)
      <4>1. TurnsRight(l, m, x)
        BY <2>4, <3>2 DEF TurnsRight
      <4> QED
        BY <1>4, <4>1, LevelledRight
    <3> QED
      BY <1>2, <1>4, <2>3, <3>1, <3>2, <3>3 DEF Turned
  <2>5. CASE Avl!Balance(l) # -1
    <3>1. Avl!AfterRemoval(m) = Avl!RotateRight(m)
      BY <1>1, <2>1, <2>2, <2>5 DEF Avl!AfterRemoval, Avl!Rebalanced
    <3>2. PICK x : x = Avl!RotateRight(m)
      OBVIOUS
    <3>3. /\ Good(x) /\ x # Avl!Null /\ Sums(x, l, v, c, r)
          /\ x.depth = Turned(l)
      <4>1. TurnsRight(l, m, x)
        BY <2>5, <3>2 DEF TurnsRight
      <4> QED
        BY <1>4, <4>1, LevelledRight
    <3> QED
      BY <1>2, <1>4, <2>3, <3>1, <3>2, <3>3 DEF Turned
  <2> QED
    BY <2>1, <2>4, <2>5
<1>5. CASE l.depth - r.depth = -2
  <2>1. r # Avl!Null /\ Avl!Balance(r) \in -1 .. 1 /\ r.depth > 0 /\ r.depth - l.depth = 2
    BY <1>2, <1>5, Depths
  <2>2. Avl!Balance(m) < -1 /\ ~(Avl!Balance(m) > 1) /\ m.right # Avl!Null
    BY <1>1, <1>5, <2>1
  <2>3. Higher(l, r) = r.depth
    BY <1>2, <1>5 DEF Higher
  <2>4. CASE Avl!Balance(r) = 1
    <3>1. Avl!AfterRemoval(m) = Avl!RotateLeft([m EXCEPT !.right = Avl!RotateRight(m.right)])
      BY <1>1, <2>2, <2>4 DEF Avl!AfterRemoval, Avl!Rebalanced
    <3>2. PICK x : x = Avl!RotateLeft([m EXCEPT !.right = Avl!RotateRight(m.right)])
      OBVIOUS
    <3>3. Good(x) /\ x # Avl!Null /\ Sums(x, l, v, c, r) /\ x.depth = Turned(r)
      <4>1. TurnsLeft(r, m, x)
        BY <2>4, <3>2 DEF TurnsLeft
      <4> QED
        BY <2>1, <4>1, LevelledLeft
    <3> QED
      BY <1>2, <1>5, <2>3, <3>1, <3>2, <3>3 DEF Turned
  <2>5. CASE Avl!Balance(r) # 1
    <3>1. Avl!AfterRemoval(m) = Avl!RotateLeft(m)
      BY <1>1, <2>1, <2>2, <2>5 DEF Avl!AfterRemoval, Avl!Rebalanced
    <3>2. PICK x : x = Avl!RotateLeft(m)
      OBVIOUS
    <3>3. /\ Good(x) /\ x # Avl!Null /\ Sums(x, l, v, c, r)
          /\ x.depth = Turned(r)
      <4>1. r.depth - l.depth = 2
        BY <2>1
      <4>2. TurnsLeft(r, m, x)
        BY <2>5, <3>2 DEF TurnsLeft
      <4> QED
        BY <4>1, <4>2, LevelledLeft
    <3> QED
      BY <1>2, <1>5, <2>3, <3>1, <3>2, <3>3 DEF Turned
  <2> QED
    BY <2>1, <2>4, <2>5
<1> QED
  BY <1>2, <1>3, <1>4, <1>5

\* After an insertion too: no level higher than its deeper branch, if that has become too deep.
LEMMA InsertLevels ==
  ASSUME Avl!AvlAssumption, NEW l, NEW r, NEW v, NEW c, Joint(l, v, c, r), NEW u \in Int,
         l.depth - r.depth \in -2 .. 2, NEW m, m = Make(v, c, l, r),
         l.depth - r.depth = 2 => Leans(l, u), l.depth - r.depth = -2 => Leans(r, u)
  PROVE  LET x == Avl!Rebalanced(m, m.left # Avl!Null /\ u > m.left.value,
                                    m.right # Avl!Null /\ u < m.right.value)
         IN  /\ Good(x) /\ x # Avl!Null /\ Sums(x, l, v, c, r)
             /\ l.depth - r.depth \in -1 .. 1 => x = m
             /\ l.depth - r.depth = 2 => x.depth = l.depth
             /\ l.depth - r.depth = -2 => x.depth = r.depth
<1> DEFINE y == Avl!Rebalanced(m, m.left # Avl!Null /\ u > m.left.value,
                                  m.right # Avl!Null /\ u < m.right.value)
<1>1. m.left = l /\ m.right = r /\ Avl!Balance(m) = l.depth - r.depth
  BY MadeFields
<1>2. l.depth \in Nat /\ r.depth \in Nat
  BY Depths
<1>3. CASE l.depth - r.depth \in -1 .. 1
  <2>1. y = m
    BY <1>1, <1>3 DEF Avl!Rebalanced
  <2>2. Good(m) /\ m # Avl!Null /\ Sums(m, l, v, c, r)
    BY <1>3, Joined
  <2> HIDE DEF y
  <2>3. ~(l.depth - r.depth = 2) /\ ~(l.depth - r.depth = -2)
    BY <1>3
  <2>4. /\ Good(y) /\ y # Avl!Null /\ Sums(y, l, v, c, r) /\ y = m
    BY <2>1, <2>2
  <2> QED
    BY <2>3, <2>4 DEF y
<1>4. CASE l.depth - r.depth = 2
  <2>1. l # Avl!Null /\ l.value \in Int
    BY <1>2, <1>4, Depths
  <2>2. Leans(l, u)
    BY <1>4
  <2>3. Avl!Balance(m) > 1 /\ m.left # Avl!Null
    BY <1>1, <1>4, <2>1
  <2>4. CASE l.value < u
    <3>1. y = Avl!RotateRight([m EXCEPT !.left = Avl!RotateLeft(m.left)])
      BY <1>1, <2>1, <2>3, <2>4 DEF Avl!Rebalanced
    <3> HIDE DEF y
    <3>2. Good(y) /\ y # Avl!Null /\ Sums(y, l, v, c, r) /\ y.depth = l.depth
      <4>1. PICK x : x = Avl!RotateRight([m EXCEPT !.left = Avl!RotateLeft(m.left)])
        OBVIOUS
      <4>2. Avl!Balance(l) = -1
        BY <2>2, <2>4 DEF Leans
      <4>3. Good(x) /\ x # Avl!Null /\ Sums(x, l, v, c, r) /\ x.depth = Turned(l)
        <5>1. TurnsRight(l, m, x)
          BY <4>1, <4>2 DEF TurnsRight
        <5> QED
          BY <1>4, <5>1, LevelledRight
      <4> QED
        BY <3>1, <4>1, <4>2, <4>3 DEF Turned
    <3> QED
      BY <1>4, <3>2 DEF y
  <2>5. CASE u < l.value
    <3>1. y = Avl!RotateRight(m)
      BY <1>1, <2>1, <2>3, <2>5 DEF Avl!Rebalanced
    <3> HIDE DEF y
    <3>2. Good(y) /\ y # Avl!Null /\ Sums(y, l, v, c, r) /\ y.depth = l.depth
      <4>1. Avl!Balance(l) = 1
        BY <2>2, <2>5 DEF Leans
      <4>2. Avl!Balance(l) # -1 /\ Avl!Balance(l) # 0
        BY <4>1
      <4>3. PICK x : x = Avl!RotateRight(m)
        OBVIOUS
      <4>4. /\ Good(x) /\ x # Avl!Null /\ Sums(x, l, v, c, r)
            /\ x.depth = Turned(l)
        <5>1. TurnsRight(l, m, x)
          BY <4>2, <4>3 DEF TurnsRight
        <5> QED
          BY <1>4, <5>1, LevelledRight
      <4> QED
        BY <3>1, <4>2, <4>3, <4>4 DEF Turned
    <3> QED
      BY <1>4, <3>2 DEF y
  <2> QED
    BY <2>1, <2>2, <2>4, <2>5 DEF Leans
<1>5. CASE l.depth - r.depth = -2
  <2>1. r # Avl!Null /\ r.value \in Int /\ r.depth - l.depth = 2
    BY <1>2, <1>5, Depths
  <2>2. Leans(r, u)
    BY <1>5
  <2>3. Avl!Balance(m) < -1 /\ ~(Avl!Balance(m) > 1) /\ m.right # Avl!Null
    BY <1>1, <1>5, <2>1
  <2>4. CASE u < r.value
    <3>1. y = Avl!RotateLeft([m EXCEPT !.right = Avl!RotateRight(m.right)])
      BY <1>1, <2>1, <2>3, <2>4 DEF Avl!Rebalanced
    <3> HIDE DEF y
    <3>2. Good(y) /\ y # Avl!Null /\ Sums(y, l, v, c, r) /\ y.depth = r.depth
      <4>1. PICK x : x = Avl!RotateLeft([m EXCEPT !.right = Avl!RotateRight(m.right)])
        OBVIOUS
      <4>2. Avl!Balance(r) = 1
        BY <2>2, <2>4 DEF Leans
      <4>3. Good(x) /\ x # Avl!Null /\ Sums(x, l, v, c, r) /\ x.depth = Turned(r)
        <5>1. TurnsLeft(r, m, x)
          BY <4>1, <4>2 DEF TurnsLeft
        <5> QED
          BY <2>1, <5>1, LevelledLeft
      <4> QED
        BY <3>1, <4>1, <4>2, <4>3 DEF Turned
    <3> QED
      BY <1>5, <3>2 DEF y
  <2>5. CASE r.value < u
    <3>1. y = Avl!RotateLeft(m)
      BY <1>1, <2>1, <2>3, <2>5 DEF Avl!Rebalanced
    <3> HIDE DEF y
    <3>2. Good(y) /\ y # Avl!Null /\ Sums(y, l, v, c, r) /\ y.depth = r.depth
      <4>1. Avl!Balance(r) = -1
        BY <2>2, <2>5 DEF Leans
      <4>2. Avl!Balance(r) # 1 /\ Avl!Balance(r) # 0
        BY <4>1
      <4>3. PICK x : x = Avl!RotateLeft(m)
        OBVIOUS
      <4>4. /\ Good(x) /\ x # Avl!Null /\ Sums(x, l, v, c, r)
            /\ x.depth = Turned(r)
        <5>1. r.depth - l.depth = 2
          BY <2>1
        <5>2. TurnsLeft(r, m, x)
          BY <4>2, <4>3 DEF TurnsLeft
        <5> QED
          BY <5>1, <5>2, LevelledLeft
      <4> QED
        BY <3>1, <4>2, <4>3, <4>4 DEF Turned
    <3> QED
      BY <1>5, <3>2 DEF y
  <2> QED
    BY <2>1, <2>2, <2>4, <2>5 DEF Leans
<1> QED
  BY <1>2, <1>3, <1>4, <1>5

-----------------------------------------------------------------------------
(* AVL: insertion *)

\* A sound branch has at least as many occurrences as levels.
LEMMA DepthBound ==
  ASSUME Avl!AvlAssumption
  PROVE  \A t \in Avl!Tree : Good(t) => t.depth <= Avl!Occurrences(t)
<1> DEFINE S == {t \in Avl!Tree : Good(t) => t.depth <= Avl!Occurrences(t)}
<1>1. Avl!Null \in S
  BY OccurrenceSteps, TreeShape
<1>2. ASSUME NEW t \in Avl!Tree, t # Avl!Null, t.left \in S, t.right \in S PROVE t \in S
  <2>1. SUFFICES ASSUME Good(t) PROVE t.depth <= Avl!Occurrences(t)
    BY <1>2
  <2>2. /\ t.ref \in Nat \ {0} /\ Good(t.left) /\ Good(t.right) /\ t.depth \in 1 .. MaxNodes
        /\ t.depth = Higher(t.left, t.right) + 1 /\ MaxNodes \in Nat
        /\ t.left.depth \in 0 .. t.depth - 1 /\ t.right.depth \in 0 .. t.depth - 1
    BY <1>2, <2>1, Taken, LevelsBuilt
  <2>3. Avl!Occurrences(t) = Avl!Occurrences(t.left) + t.ref + Avl!Occurrences(t.right)
    BY <1>2, OccurrenceSteps
  <2>4. Avl!Occurrences(t.left) \in Nat /\ Avl!Occurrences(t.right) \in Nat
    BY <2>2, Counts
  <2>5. t.left.depth <= Avl!Occurrences(t.left) /\ t.right.depth <= Avl!Occurrences(t.right)
    BY <1>2, <2>2
  <2>6. PICK a, b, d : a = t.left.depth /\ b = t.right.depth /\ d = t.depth
    OBVIOUS
  <2>7. d = (IF a > b THEN a ELSE b) + 1
    BY <2>2, <2>6 DEF Higher
  <2>8. d \in Nat /\ a \in Nat /\ b \in Nat
    BY <2>2, <2>6
  <2> QED
    BY <2>2, <2>3, <2>4, <2>5, <2>6, <2>7, <2>8
<1>3. Avl!Tree \subseteq S
  <2> HIDE DEF S
  <2> QED
    BY <1>1, <1>2, TreeInduction
<1> QED
  BY <1>3

\* What an insertion makes of a branch
Grown(t, u, m) ==
  /\ Good(m) /\ m # Avl!Null
  /\ \A w \in Int : Avl!Find(m, w) = Avl!Find(t, w) + Alone(u, 1, w)
  /\ Avl!Occurrences(m) = Avl!Occurrences(t) + 1
  /\ m.depth \in {t.depth, t.depth + 1}
  /\ t # Avl!Null /\ m.depth = t.depth + 1 => Leans(m, u)

\* A node that holds the value counts one more occurrence.
LEMMA InsertedHere ==
  ASSUME Avl!AvlAssumption, NEW t \in Avl!Tree, t # Avl!Null, Good(t), t.depth < MaxNodes
  PROVE  Grown(t, t.value, [t EXCEPT !.ref = @ + 1])
<1>1. PICK v, c, l, r : v = t.value /\ c = t.ref /\ l = t.left /\ r = t.right
  OBVIOUS
<1>2. /\ t = Make(v, c, l, r) /\ v \in Values /\ c \in Nat \ {0} /\ Good(l) /\ Good(r)
      /\ Between(l, v, r) /\ t.depth = Higher(l, r) + 1
      /\ l.depth \in 0 .. t.depth - 1 /\ r.depth \in 0 .. t.depth - 1
      /\ l.depth - r.depth \in -1 .. 1 /\ t.depth \in 1 .. MaxNodes /\ MaxNodes \in Nat
  BY <1>1, Taken, LevelsBuilt
<1>3. Sums(t, l, v, c, r)
  BY <1>1, Counts
<1>4. PICK m : m = Make(v, c + 1, l, r)
  OBVIOUS
<1>5. [t EXCEPT !.ref = @ + 1] = m
  <2>1. t \in Node(Avl!Tree)
    BY TreeShape
  <2>2. t.depth = Avl!MaxDepth(t) + 1
    BY <1>2, MadeFields
  <2>3. \A e : [t EXCEPT !.ref = e] = Make(v, e, l, r)
    BY <1>1, <2>1, <2>2, MadeAnew
  <2> QED
    BY <1>1, <1>4, <2>3
<1>6. Joint(l, v, c + 1, r)
  <2>1. l.depth < MaxNodes /\ r.depth < MaxNodes /\ c + 1 \in Nat \ {0}
    BY <1>2
  <2> QED
    BY <1>2, <2>1 DEF Joint
<1>7. Good(m) /\ m # Avl!Null /\ Sums(m, l, v, c + 1, r) /\ m.depth = t.depth
  BY <1>2, <1>4, <1>6, Joined
<1>8. ASSUME NEW w \in Int PROVE Avl!Find(m, w) = Avl!Find(t, w) + Alone(v, 1, w)
  <2>1. Avl!Find(m, w) = Avl!Find(l, w) + Alone(v, c + 1, w) + Avl!Find(r, w)
    BY <1>7 DEF Sums
  <2>2. Avl!Find(t, w) = Avl!Find(l, w) + Alone(v, c, w) + Avl!Find(r, w)
    BY <1>3 DEF Sums
  <2>3. Avl!Find(l, w) \in Nat /\ Avl!Find(r, w) \in Nat
    BY <1>2, Counts
  <2> QED
    BY <1>2, <2>1, <2>2, <2>3 DEF Alone
<1>9. Avl!Occurrences(m) = Avl!Occurrences(t) + 1
  <2>1. Avl!Occurrences(m) = Avl!Occurrences(l) + (c + 1) + Avl!Occurrences(r)
    BY <1>7 DEF Sums
  <2>2. Avl!Occurrences(t) = Avl!Occurrences(l) + c + Avl!Occurrences(r)
    BY <1>3 DEF Sums
  <2>3. Avl!Occurrences(l) \in Nat /\ Avl!Occurrences(r) \in Nat
    BY <1>2, Counts
  <2> QED
    BY <1>2, <2>1, <2>2, <2>3
<1>10. m.depth # t.depth + 1
  BY <1>2, <1>7
<1>11. Grown(t, v, m)
  BY <1>7, <1>8, <1>9, <1>10 DEF Grown
<1> QED
  BY <1>1, <1>5, <1>11

\* The empty branch becomes a node.
LEMMA InsertedFirst ==
  ASSUME Avl!AvlAssumption, NEW u \in Values
  PROVE  Grown(Avl!Null, u, Avl!NewNode(u))
<1>1. MaxNodes \in Nat \ {0}
  BY LevelsBuilt
<1>2. Good(Avl!Null) /\ Avl!Null.depth = 0
  BY GoodParts, TreeShape
<1>3. \A w : Avl!Find(Avl!Null, w) = 0
  BY FindSteps
<1>4. Avl!Occurrences(Avl!Null) = 0
  BY OccurrenceSteps
<1>5. Joint(Avl!Null, u, 1, Avl!Null)
  <2>1. Between(Avl!Null, u, Avl!Null)
    BY <1>3 DEF Between
  <2>2. Avl!Null.depth < MaxNodes
    BY <1>1, <1>2
  <2>3. 1 \in Nat \ {0}
    OBVIOUS
  <2> QED
    BY <1>2, <2>1, <2>2, <2>3 DEF Joint
<1>6. PICK m : m = Make(u, 1, Avl!Null, Avl!Null)
  OBVIOUS
<1>7. Avl!NewNode(u) = m
  <2>1. Higher(Avl!Null, Avl!Null) + 1 = 1
    BY <1>2 DEF Higher
  <2> QED
    BY <1>6, <2>1 DEF Make, Avl!NewNode
<1>8. Good(m) /\ m # Avl!Null /\ Sums(m, Avl!Null, u, 1, Avl!Null) /\ m.depth = 1
  <2>1. Avl!Null.depth - Avl!Null.depth \in -1 .. 1
    BY <1>2
  <2>2. /\ Good(m) /\ m # Avl!Null /\ Sums(m, Avl!Null, u, 1, Avl!Null)
        /\ m.depth = Higher(Avl!Null, Avl!Null) + 1
    BY <1>5, <1>6, <2>1, Joined
  <2>3. Higher(Avl!Null, Avl!Null) + 1 = 1
    BY <1>2 DEF Higher
  <2> QED
    BY <2>2, <2>3
<1>9. \A w \in Int : Avl!Find(m, w) = Avl!Find(Avl!Null, w) + Alone(u, 1, w)
  BY <1>3, <1>8 DEF Sums, Alone
<1>10. Avl!Occurrences(m) = Avl!Occurrences(Avl!Null) + 1
  BY <1>4, <1>8 DEF Sums
<1>11. Grown(Avl!Null, u, m)
  BY <1>2, <1>8, <1>9, <1>10 DEF Grown
<1> QED
  BY <1>7, <1>11

\* A smaller value is inserted at the left: x rebalances the node with the new branch y.
LEMMA InsertedLeft ==
  ASSUME Avl!AvlAssumption, NEW t \in Avl!Tree, t # Avl!Null, Good(t), t.depth < MaxNodes,
         NEW u \in Values, u < t.value, NEW y, Grown(t.left, u, y),
         NEW m, m = Make(t.value, t.ref, y, t.right), NEW x,
         x = Avl!Rebalanced(m, m.left # Avl!Null /\ u > m.left.value,
                               m.right # Avl!Null /\ u < m.right.value)
  PROVE  Grown(t, u, x)
<1>1. PICK v, c, l, r : v = t.value /\ c = t.ref /\ l = t.left /\ r = t.right
  OBVIOUS
<1>2. /\ v \in Values /\ c \in Nat \ {0} /\ Good(l) /\ Good(r)
      /\ Between(l, v, r) /\ t.depth = Higher(l, r) + 1
      /\ l.depth \in 0 .. t.depth - 1 /\ r.depth \in 0 .. t.depth - 1
      /\ l.depth - r.depth \in -1 .. 1 /\ t.depth \in 1 .. MaxNodes
      /\ MaxNodes \in Nat /\ Values \subseteq Int
  BY <1>1, Taken, LevelsBuilt
<1>3. Sums(t, l, v, c, r)
  BY <1>1, Counts
<1>4. /\ Good(y) /\ y # Avl!Null /\ y.depth \in {l.depth, l.depth + 1}
      /\ \A w \in Int : Avl!Find(y, w) = Avl!Find(l, w) + Alone(u, 1, w)
      /\ Avl!Occurrences(y) = Avl!Occurrences(l) + 1
      /\ l # Avl!Null /\ y.depth = l.depth + 1 => Leans(y, u)
  BY <1>1 DEF Grown
<1>5. v \in Int /\ u \in Int /\ u < v
  BY <1>1, <1>2
<1>6. PICK a, b, h, e : a = l.depth /\ b = r.depth /\ h = t.depth /\ e = y.depth
  OBVIOUS
<1>7. /\ a \in Nat /\ b \in Nat /\ h \in Nat /\ e \in {a, a + 1} /\ h < MaxNodes
      /\ h = (IF a > b THEN a ELSE b) + 1 /\ a - b \in -1 .. 1
  <2>1. h = (IF a > b THEN a ELSE b) + 1
    BY <1>2, <1>6 DEF Higher
  <2> QED
    BY <1>2, <1>4, <1>6, <2>1
<1>8. Joint(y, v, c, r)
  <2>1. ASSUME NEW w \in Int, Avl!Find(y, w) > 0 PROVE w < v
    <3>1. Avl!Find(y, w) = Avl!Find(l, w) + Alone(u, 1, w) /\ Avl!Find(l, w) \in Nat
      BY <1>2, <1>4, Counts
    <3>2. Avl!Find(l, w) > 0 \/ w = u
      BY <2>1, <3>1 DEF Alone
    <3>3. Avl!Find(l, w) > 0 => w < v
      BY <1>2 DEF Between
    <3> QED
      BY <1>5, <3>2, <3>3
  <2>2. Between(y, v, r)
    BY <1>2, <2>1 DEF Between
  <2>3. y.depth < MaxNodes /\ r.depth < MaxNodes
    BY <1>2, <1>6, <1>7
  <2> QED
    BY <1>2, <1>4, <2>2, <2>3 DEF Joint
<1>9. y.depth - r.depth \in -2 .. 2 /\ ~(y.depth - r.depth = -2)
  BY <1>6, <1>7
<1>10. y.depth - r.depth = 2 => Leans(y, u)
  <2>1. SUFFICES ASSUME y.depth - r.depth = 2 PROVE Leans(y, u)
    OBVIOUS
  <2>2. a # 0 /\ e = a + 1
    BY <1>6, <1>7, <2>1
  <2>3. Avl!Null.depth = 0
    BY TreeShape
  <2>4. l # Avl!Null
    BY <1>6, <2>2, <2>3
  <2> QED
    BY <1>4, <1>6, <2>2, <2>4
<1>11. m = Make(v, c, y, r)
  BY <1>1
<1>12. /\ Good(x) /\ x # Avl!Null /\ Sums(x, y, v, c, r)
       /\ y.depth - r.depth \in -1 .. 1 => x = m
       /\ y.depth - r.depth = 2 => x.depth = y.depth
  <2>1. y.depth - r.depth = -2 => Leans(r, u)
    BY <1>9
  <2>2. y.depth - r.depth \in -2 .. 2
    BY <1>9
  <2> QED
    BY <1>5, <1>8, <1>10, <1>11, <2>1, <2>2, InsertLevels
<1>13. ASSUME NEW w \in Int PROVE Avl!Find(x, w) = Avl!Find(t, w) + Alone(u, 1, w)
  <2>1. Avl!Find(x, w) = Avl!Find(y, w) + Alone(v, c, w) + Avl!Find(r, w)
    BY <1>12 DEF Sums
  <2>2. Avl!Find(t, w) = Avl!Find(l, w) + Alone(v, c, w) + Avl!Find(r, w)
    BY <1>3 DEF Sums
  <2>3. Avl!Find(y, w) = Avl!Find(l, w) + Alone(u, 1, w)
    BY <1>4
  <2>4. Avl!Find(l, w) \in Nat /\ Avl!Find(r, w) \in Nat
    BY <1>2, Counts
  <2>5. Alone(u, 1, w) \in Nat /\ Alone(v, c, w) \in Nat
    BY <1>2 DEF Alone
  <2> QED
    BY <2>1, <2>2, <2>3, <2>4, <2>5
<1>14. Avl!Occurrences(x) = Avl!Occurrences(t) + 1
  <2>1. Avl!Occurrences(x) = Avl!Occurrences(y) + c + Avl!Occurrences(r)
    BY <1>12 DEF Sums
  <2>2. Avl!Occurrences(t) = Avl!Occurrences(l) + c + Avl!Occurrences(r)
    BY <1>3 DEF Sums
  <2>3. Avl!Occurrences(l) \in Nat /\ Avl!Occurrences(r) \in Nat
    BY <1>2, Counts
  <2> QED
    BY <1>2, <1>4, <2>1, <2>2, <2>3
<1>15. /\ x.depth \in {t.depth, t.depth + 1}
       /\ x.depth = t.depth + 1 => Leans(x, u)
  <2>1. CASE e - b = 2
    <3>1. x.depth = e
      BY <1>6, <1>12, <2>1
    <3>2. e = h /\ h # h + 1
      BY <1>7, <2>1
    <3> QED
      BY <1>6, <3>1, <3>2
  <2>2. CASE e - b # 2
    <3>1. y.depth - r.depth \in -1 .. 1
      BY <1>6, <1>7, <2>2
    <3>2. /\ x.value = v /\ x.depth = Higher(y, r) + 1 /\ Avl!Balance(x) = e - b
      BY <1>6, <1>11, <1>12, <3>1, MadeFields
    <3>3. Higher(y, r) = IF e > b THEN e ELSE b
      BY <1>6 DEF Higher
    <3>4. x.depth \in {h, h + 1} /\ (x.depth = h + 1 => e - b = 1)
      BY <1>7, <2>2, <3>2, <3>3
    <3>5. x.depth = h + 1 => Leans(x, u)
      BY <1>5, <3>2, <3>4 DEF Leans
    <3> QED
      BY <1>6, <3>4, <3>5
  <2> QED
    BY <2>1, <2>2
<1> QED
  BY <1>12, <1>13, <1>14, <1>15 DEF Grown

\* A greater value is inserted at the right: x rebalances the node with the new branch y.
LEMMA InsertedRight ==
  ASSUME Avl!AvlAssumption, NEW t \in Avl!Tree, t # Avl!Null, Good(t), t.depth < MaxNodes,
         NEW u \in Values, t.value < u, NEW y, Grown(t.right, u, y),
         NEW m, m = Make(t.value, t.ref, t.left, y), NEW x,
         x = Avl!Rebalanced(m, m.left # Avl!Null /\ u > m.left.value,
                               m.right # Avl!Null /\ u < m.right.value)
  PROVE  Grown(t, u, x)
<1>1. PICK v, c, r, l : v = t.value /\ c = t.ref /\ r = t.right /\ l = t.left
  OBVIOUS
<1>2. /\ v \in Values /\ c \in Nat \ {0} /\ Good(r) /\ Good(l)
      /\ Between(l, v, r) /\ t.depth = Higher(l, r) + 1
      /\ r.depth \in 0 .. t.depth - 1 /\ l.depth \in 0 .. t.depth - 1
      /\ l.depth - r.depth \in -1 .. 1 /\ t.depth \in 1 .. MaxNodes
      /\ MaxNodes \in Nat /\ Values \subseteq Int
  BY <1>1, Taken, LevelsBuilt
<1>3. Sums(t, l, v, c, r)
  BY <1>1, Counts
<1>4. /\ Good(y) /\ y # Avl!Null /\ y.depth \in {r.depth, r.depth + 1}
      /\ \A w \in Int : Avl!Find(y, w) = Avl!Find(r, w) + Alone(u, 1, w)
      /\ Avl!Occurrences(y) = Avl!Occurrences(r) + 1
      /\ r # Avl!Null /\ y.depth = r.depth + 1 => Leans(y, u)
  BY <1>1 DEF Grown
<1>5. v \in Int /\ u \in Int /\ v < u
  BY <1>1, <1>2
<1>6. PICK a, b, h, e : a = r.depth /\ b = l.depth /\ h = t.depth /\ e = y.depth
  OBVIOUS
<1>7. /\ a \in Nat /\ b \in Nat /\ h \in Nat /\ e \in {a, a + 1} /\ h < MaxNodes
      /\ h = (IF a > b THEN a ELSE b) + 1 /\ a - b \in -1 .. 1
  <2>1. h = (IF a > b THEN a ELSE b) + 1
    BY <1>2, <1>6 DEF Higher
  <2> QED
    BY <1>2, <1>4, <1>6, <2>1
<1>8. Joint(l, v, c, y)
  <2>1. ASSUME NEW w \in Int, Avl!Find(y, w) > 0 PROVE v < w
    <3>1. Avl!Find(y, w) = Avl!Find(r, w) + Alone(u, 1, w) /\ Avl!Find(r, w) \in Nat
      BY <1>2, <1>4, Counts
    <3>2. Avl!Find(r, w) > 0 \/ w = u
      BY <2>1, <3>1 DEF Alone
    <3>3. Avl!Find(r, w) > 0 => v < w
      BY <1>2 DEF Between
    <3> QED
      BY <1>5, <3>2, <3>3
  <2>2. Between(l, v, y)
    BY <1>2, <2>1 DEF Between
  <2>3. y.depth < MaxNodes /\ l.depth < MaxNodes
    BY <1>2, <1>6, <1>7
  <2> QED
    BY <1>2, <1>4, <2>2, <2>3 DEF Joint
<1>9. l.depth - y.depth \in -2 .. 2 /\ ~(l.depth - y.depth = 2)
  BY <1>6, <1>7
<1>10. l.depth - y.depth = -2 => Leans(y, u)
  <2>1. SUFFICES ASSUME l.depth - y.depth = -2 PROVE Leans(y, u)
    OBVIOUS
  <2>2. a # 0 /\ e = a + 1
    BY <1>6, <1>7, <2>1
  <2>3. Avl!Null.depth = 0
    BY TreeShape
  <2>4. r # Avl!Null
    BY <1>6, <2>2, <2>3
  <2> QED
    BY <1>4, <1>6, <2>2, <2>4
<1>11. m = Make(v, c, l, y)
  BY <1>1
<1>12. /\ Good(x) /\ x # Avl!Null /\ Sums(x, l, v, c, y)
       /\ l.depth - y.depth \in -1 .. 1 => x = m
       /\ l.depth - y.depth = -2 => x.depth = y.depth
  <2>1. l.depth - y.depth = 2 => Leans(l, u)
    BY <1>9
  <2>2. l.depth - y.depth \in -2 .. 2
    BY <1>9
  <2> QED
    BY <1>5, <1>8, <1>10, <1>11, <2>1, <2>2, InsertLevels
<1>13. ASSUME NEW w \in Int PROVE Avl!Find(x, w) = Avl!Find(t, w) + Alone(u, 1, w)
  <2>1. Avl!Find(x, w) = Avl!Find(l, w) + Alone(v, c, w) + Avl!Find(y, w)
    BY <1>12 DEF Sums
  <2>2. Avl!Find(t, w) = Avl!Find(l, w) + Alone(v, c, w) + Avl!Find(r, w)
    BY <1>3 DEF Sums
  <2>3. Avl!Find(y, w) = Avl!Find(r, w) + Alone(u, 1, w)
    BY <1>4
  <2>4. Avl!Find(r, w) \in Nat /\ Avl!Find(l, w) \in Nat
    BY <1>2, Counts
  <2>5. Alone(u, 1, w) \in Nat /\ Alone(v, c, w) \in Nat
    BY <1>2 DEF Alone
  <2> QED
    BY <2>1, <2>2, <2>3, <2>4, <2>5
<1>14. Avl!Occurrences(x) = Avl!Occurrences(t) + 1
  <2>1. Avl!Occurrences(x) = Avl!Occurrences(l) + c + Avl!Occurrences(y)
    BY <1>12 DEF Sums
  <2>2. Avl!Occurrences(t) = Avl!Occurrences(l) + c + Avl!Occurrences(r)
    BY <1>3 DEF Sums
  <2>3. Avl!Occurrences(r) \in Nat /\ Avl!Occurrences(l) \in Nat
    BY <1>2, Counts
  <2> QED
    BY <1>2, <1>4, <2>1, <2>2, <2>3
<1>15. /\ x.depth \in {t.depth, t.depth + 1}
       /\ x.depth = t.depth + 1 => Leans(x, u)
  <2>1. CASE e - b = 2
    <3>1. x.depth = e
      <4>1. l.depth - y.depth = -2
        BY <1>6, <1>7, <2>1
      <4> QED
        BY <1>6, <1>12, <4>1
    <3>2. e = h /\ h # h + 1
      BY <1>7, <2>1
    <3> QED
      BY <1>6, <3>1, <3>2
  <2>2. CASE e - b # 2
    <3>1. l.depth - y.depth \in -1 .. 1
      BY <1>6, <1>7, <2>2
    <3>2. /\ x.value = v /\ x.depth = Higher(l, y) + 1 /\ Avl!Balance(x) = b - e
      BY <1>6, <1>11, <1>12, <3>1, MadeFields
    <3>3. Higher(l, y) = IF b > e THEN b ELSE e
      BY <1>6 DEF Higher
    <3>4. x.depth \in {h, h + 1} /\ (x.depth = h + 1 => e - b = 1)
      BY <1>7, <2>2, <3>2, <3>3
    <3>5. x.depth = h + 1 => Leans(x, u)
      <4>1. e - b = 1 => b - e = -1
        BY <1>7
      <4> QED
        BY <1>5, <3>2, <3>4, <4>1 DEF Leans
    <3> QED
      BY <1>6, <3>4, <3>5
  <2> QED
    BY <2>1, <2>2
<1> QED
  BY <1>12, <1>13, <1>14, <1>15 DEF Grown

\* An insertion adds one occurrence of the value to a sound branch, which stays sound.
LEMMA Insertion ==
  ASSUME Avl!AvlAssumption, NEW u \in Values
  PROVE  \A t \in Avl!Tree : Good(t) /\ t.depth < MaxNodes => Grown(t, u, Avl!NodeInsert(t, u))
<1> DEFINE S == {t \in Avl!Tree : Good(t) /\ t.depth < MaxNodes =>
                                    Grown(t, u, Avl!NodeInsert(t, u))}
<1>0. Values \subseteq Int /\ MaxNodes \in Nat
  BY LevelsBuilt
<1>1. Avl!Null \in S
  <2>1. Avl!NodeInsert(Avl!Null, u) = Avl!NewNode(u)
    <3>1. PICK y, z : Avl!NodeInsert(Avl!Null, u) = InsertStep(Avl!Null, u, y, z)
      BY InsertSteps, TreeShape
    <3>2. InsertStep(Avl!Null, u, y, z) = Avl!NewNode(u)
      BY DEF InsertStep
    <3> QED
      BY <3>1, <3>2
  <2>2. Grown(Avl!Null, u, Avl!NodeInsert(Avl!Null, u))
    BY <2>1, InsertedFirst
  <2> QED
    BY <2>2, TreeShape
<1>2. ASSUME NEW t \in Avl!Tree, t # Avl!Null, t.left \in S, t.right \in S PROVE t \in S
  <2>1. SUFFICES ASSUME Good(t), t.depth < MaxNodes PROVE Grown(t, u, Avl!NodeInsert(t, u))
    BY <1>2
  <2>2. PICK y, z : y = Avl!NodeInsert(t.left, u) /\ z = Avl!NodeInsert(t.right, u)
    OBVIOUS
  <2>3. Avl!NodeInsert(t, u) = InsertStep(t, u, y, z)
    BY <2>2, InsertSteps
  <2>4. /\ t.value \in Int /\ Good(t.left) /\ Good(t.right)
        /\ t.left.depth < MaxNodes /\ t.right.depth < MaxNodes
    <3>1. /\ t.value \in Values /\ Good(t.left) /\ Good(t.right) /\ t.depth \in 1 .. MaxNodes
          /\ t.left.depth \in 0 .. t.depth - 1 /\ t.right.depth \in 0 .. t.depth - 1
      BY <1>2, <2>1, Taken
    <3>2. t.left.depth < MaxNodes
      BY <1>0, <2>1, <3>1
    <3>3. t.right.depth < MaxNodes
      BY <1>0, <2>1, <3>1
    <3> QED
      BY <1>0, <3>1, <3>2, <3>3
  <2>5. t \in Node(Avl!Tree)
    BY <1>2, TreeShape
  <2>6. CASE u = t.value
    <3>1. Avl!NodeInsert(t, u) = [t EXCEPT !.ref = @ + 1]
      BY <1>2, <2>3, <2>6 DEF InsertStep
    <3>2. Grown(t, t.value, [t EXCEPT !.ref = @ + 1])
      BY <1>2, <2>1, InsertedHere
    <3> QED
      BY <2>6, <3>1, <3>2
  <2>7. CASE u < t.value
    <3>1. Grown(t.left, u, y)
      BY <1>2, <2>2, <2>4
    <3>2. PICK m : m = Make(t.value, t.ref, y, t.right)
      OBVIOUS
    <3>3. Avl!Deepened(IF u < t.value THEN [t EXCEPT !.left = y] ELSE [t EXCEPT !.right = z]) = m
      <4>1. Avl!Deepened([t EXCEPT !.left = y]) = m
        BY <2>5, <3>2, MadeAnew
      <4> QED
        BY <2>7, <4>1
    <3>4. u # t.value
      BY <1>0, <2>4, <2>7
    <3>5. PICK x : x = Avl!Rebalanced(m, m.left # Avl!Null /\ u > m.left.value,
                                         m.right # Avl!Null /\ u < m.right.value)
      OBVIOUS
    <3>6. InsertStep(t, u, y, z) = x
      BY <1>2, <3>3, <3>4, <3>5 DEF InsertStep
    <3>7. Grown(t, u, x)
      BY <1>2, <2>1, <2>7, <3>1, <3>2, <3>5, InsertedLeft
    <3> QED
      BY <2>3, <3>6, <3>7
  <2>8. CASE t.value < u
    <3>1. Grown(t.right, u, z)
      BY <1>2, <2>2, <2>4
    <3>2. PICK m : m = Make(t.value, t.ref, t.left, z)
      OBVIOUS
    <3>3. Avl!Deepened(IF u < t.value THEN [t EXCEPT !.left = y] ELSE [t EXCEPT !.right = z]) = m
      <4>1. Avl!Deepened([t EXCEPT !.right = z]) = m
        BY <2>5, <3>2, MadeAnew
      <4>2. ~(u < t.value)
        BY <1>0, <2>4, <2>8
      <4> QED
        BY <4>1, <4>2
    <3>4. u # t.value
      BY <1>0, <2>4, <2>8
    <3>5. PICK x : x = Avl!Rebalanced(m, m.left # Avl!Null /\ u > m.left.value,
                                         m.right # Avl!Null /\ u < m.right.value)
      OBVIOUS
    <3>6. InsertStep(t, u, y, z) = x
      BY <1>2, <3>3, <3>4, <3>5 DEF InsertStep
    <3>7. Grown(t, u, x)
      BY <1>2, <2>1, <2>8, <3>1, <3>2, <3>5, InsertedRight
    <3> QED
      BY <2>3, <3>6, <3>7
  <2> QED
    BY <1>0, <2>4, <2>6, <2>7, <2>8
<1>3. Avl!Tree \subseteq S
  <2> HIDE DEF S
  <2> QED
    BY <1>1, <1>2, TreeInduction
<1> QED
  BY <1>3

-----------------------------------------------------------------------------
(* AVL: removal *)

\* A node whose left branch was of depth a, and may have lost a level, is levelled again.
LEMMA LowerLeft ==
  ASSUME Avl!AvlAssumption, NEW y, NEW r, NEW v, NEW c, Joint(y, v, c, r),
         NEW a \in Nat, y.depth \in {a, a - 1}, a - r.depth \in -1 .. 1,
         NEW m, m = Make(v, c, y, r), NEW x, x = Avl!AfterRemoval(m),
         NEW h, h = (IF a > r.depth THEN a ELSE r.depth) + 1
  PROVE  Good(x) /\ x # Avl!Null /\ Sums(x, y, v, c, r) /\ x.depth \in {h, h - 1}
<1>1. PICK b, e : b = r.depth /\ e = y.depth
  OBVIOUS
<1>2. /\ b \in Nat /\ e \in Nat /\ e \in {a, a - 1} /\ a - b \in -1 .. 1
      /\ h = (IF a > b THEN a ELSE b) + 1
  BY <1>1, Depths
<1>3. y.depth - r.depth \in -2 .. 2
  BY <1>1, <1>2
<1>4. /\ Good(x) /\ x # Avl!Null /\ Sums(x, y, v, c, r)
      /\ x.depth \in {Higher(y, r), Higher(y, r) + 1}
      /\ y.depth - r.depth \in -1 .. 1 => x = m
  BY <1>3, RemovalLevels
<1>5. m.depth = Higher(y, r) + 1
  BY MadeFields
<1>6. Higher(y, r) = IF e > b THEN e ELSE b
  BY <1>1 DEF Higher
<1>7. x.depth \in {h, h - 1}
  <2>1. CASE e - b \in -1 .. 1
    <3>1. y.depth - r.depth \in -1 .. 1
      BY <1>1, <2>1
    <3>2. x.depth = (IF e > b THEN e ELSE b) + 1
      BY <1>4, <1>5, <1>6, <3>1
    <3> QED
      BY <1>2, <2>1, <3>2
  <2>2. CASE e - b \notin -1 .. 1
    <3>1. e < b /\ h = b + 1
      BY <1>2, <2>2
    <3>2. x.depth \in {b, b + 1}
      BY <1>2, <1>4, <1>6, <3>1
    <3> QED
      BY <1>2, <3>1, <3>2
  <2> QED
    BY <2>1, <2>2
<1> QED
  BY <1>4, <1>7

\* A node whose right branch was of depth a, and may have lost a level, is levelled again.
LEMMA LowerRight ==
  ASSUME Avl!AvlAssumption, NEW l, NEW y, NEW v, NEW c, Joint(l, v, c, y),
         NEW a \in Nat, y.depth \in {a, a - 1}, a - l.depth \in -1 .. 1,
         NEW m, m = Make(v, c, l, y), NEW x, x = Avl!AfterRemoval(m),
         NEW h, h = (IF a > l.depth THEN a ELSE l.depth) + 1
  PROVE  Good(x) /\ x # Avl!Null /\ Sums(x, l, v, c, y) /\ x.depth \in {h, h - 1}
<1>1. PICK b, e : b = l.depth /\ e = y.depth
  OBVIOUS
<1>2. /\ b \in Nat /\ e \in Nat /\ e \in {a, a - 1} /\ a - b \in -1 .. 1
      /\ h = (IF a > b THEN a ELSE b) + 1
  BY <1>1, Depths
<1>3. l.depth - y.depth \in -2 .. 2
  BY <1>1, <1>2
<1>4. /\ Good(x) /\ x # Avl!Null /\ Sums(x, l, v, c, y)
      /\ x.depth \in {Higher(l, y), Higher(l, y) + 1}
      /\ l.depth - y.depth \in -1 .. 1 => x = m
  BY <1>3, RemovalLevels
<1>5. m.depth = Higher(l, y) + 1
  BY MadeFields
<1>6. Higher(l, y) = IF b > e THEN b ELSE e
  BY <1>1 DEF Higher
<1>7. x.depth \in {h, h - 1}
  <2>1. CASE e - b \in -1 .. 1
    <3>1. l.depth - y.depth \in -1 .. 1
      BY <1>1, <1>2, <2>1
    <3>2. x.depth = (IF b > e THEN b ELSE e) + 1
      BY <1>4, <1>5, <1>6, <3>1
    <3> QED
      BY <1>2, <2>1, <3>2
  <2>2. CASE e - b \notin -1 .. 1
    <3>1. e < b /\ h = b + 1
      BY <1>2, <2>2
    <3>2. x.depth \in {b, b + 1}
      BY <1>2, <1>4, <1>6, <3>1
    <3> QED
      BY <1>2, <3>1, <3>2
  <2> QED
    BY <2>1, <2>2
<1> QED
  BY <1>4, <1>7

\* The least node of a sound branch holds its least value, with all its occurrences.
LEMMA Least ==
  ASSUME Avl!AvlAssumption
  PROVE  \A t \in Avl!Tree \ {Avl!Null} : Good(t) =>
           /\ Avl!MinNode(t) \in Node(Avl!Tree)
           /\ Avl!MinNode(t).value \in Values /\ Avl!MinNode(t).ref \in Nat \ {0}
           /\ Avl!Find(t, Avl!MinNode(t).value) = Avl!MinNode(t).ref
           /\ \A w \in Int : Avl!Find(t, w) > 0 => Avl!MinNode(t).value <= w
<1> DEFINE Holds(t, k) ==
             /\ k \in Node(Avl!Tree) /\ k.value \in Values /\ k.ref \in Nat \ {0}
             /\ Avl!Find(t, k.value) = k.ref
             /\ \A w \in Int : Avl!Find(t, w) > 0 => k.value <= w
           S == {t \in Avl!Tree : t # Avl!Null /\ Good(t) => Holds(t, Avl!MinNode(t))}
<1>1. Avl!Null \in S
  BY TreeShape
<1>2. ASSUME NEW t \in Avl!Tree, t # Avl!Null, t.left \in S, t.right \in S PROVE t \in S
  <2>1. SUFFICES ASSUME Good(t) PROVE Holds(t, Avl!MinNode(t))
    BY <1>2
  <2>2. /\ t.value \in Values /\ t.ref \in Nat \ {0} /\ Good(t.left) /\ Good(t.right)
        /\ Between(t.left, t.value, t.right) /\ t.left \in Avl!Tree /\ t.right \in Avl!Tree
        /\ Values \subseteq Int
    BY <1>2, <2>1, Taken, LevelsBuilt
  <2>3. \A w : Avl!Find(t, w) = IF w < t.value THEN Avl!Find(t.left, w)
                                ELSE IF t.value < w THEN Avl!Find(t.right, w)
                                ELSE t.ref
    BY <1>2, FindSteps
  <2>4. Avl!MinNode(t) = IF t.left = Avl!Null THEN t ELSE Avl!MinNode(t.left)
    BY <1>2, LeastSteps
  <2>5. CASE t.left = Avl!Null
    <3>1. t \in Node(Avl!Tree)
      BY <1>2, TreeShape
    <3>2. t.value \in Int /\ Avl!Find(t, t.value) = t.ref
      BY <2>2, <2>3
    <3>3. ASSUME NEW w \in Int, Avl!Find(t, w) > 0 PROVE t.value <= w
      <4>1. Avl!Find(t.left, w) = 0
        BY <2>5, FindSteps
      <4> QED
        BY <2>3, <3>2, <3>3, <4>1
    <3>4. Holds(t, t)
      BY <2>2, <3>1, <3>2, <3>3
    <3> HIDE DEF Holds
    <3> QED
      BY <2>4, <2>5, <3>4
  <2>6. CASE t.left # Avl!Null
    <3>1. PICK k : k = Avl!MinNode(t.left)
      OBVIOUS
    <3>2. Holds(t.left, k)
      <4> HIDE DEF Holds
      <4> QED
        BY <1>2, <2>2, <2>6, <3>1
    <3>3. k.value \in Int /\ t.value \in Int
      BY <2>2, <3>2
    <3>4. k.value < t.value
      BY <2>2, <3>2, <3>3 DEF Between
    <3>5. Avl!Find(t, k.value) = k.ref
      BY <2>3, <3>2, <3>4
    <3>6. ASSUME NEW w \in Int, Avl!Find(t, w) > 0 PROVE k.value <= w
      <4>1. CASE w < t.value
        BY <2>3, <3>2, <3>6, <4>1
      <4>2. CASE ~(w < t.value)
        BY <3>3, <3>4, <4>2
      <4> QED
        BY <4>1, <4>2
    <3>7. Holds(t, k)
      BY <3>2, <3>5, <3>6
    <3> HIDE DEF Holds
    <3> QED
      BY <2>4, <2>6, <3>1, <3>7
  <2> QED
    BY <2>5, <2>6
<1>3. Avl!Tree \subseteq S
  <2> HIDE DEF S
  <2> QED
    BY <1>1, <1>2, TreeInduction
<1> QED
  BY <1>3

\* What the removal of d occurrences of u makes of a branch
Shrunk(t, u, d, m) ==
  /\ d \in Nat /\ Good(m) /\ m.depth \in {t.depth, t.depth - 1}
  /\ \A w \in Int : Avl!Find(t, w) = Avl!Find(m, w) + Alone(u, d, w)
  /\ Avl!Occurrences(t) = Avl!Occurrences(m) + d

\* A smaller value is removed at the left: x rebalances the node with the new branch y.
LEMMA RemovedAtLeft ==
  ASSUME Avl!AvlAssumption, NEW t \in Avl!Tree, t # Avl!Null, Good(t),
         NEW u, NEW d, NEW y, Shrunk(t.left, u, d, y),
         NEW m, m = Make(t.value, t.ref, y, t.right), NEW x, x = Avl!AfterRemoval(m)
  PROVE  Shrunk(t, u, d, x)
<1>1. PICK v, c, l, r : v = t.value /\ c = t.ref /\ l = t.left /\ r = t.right
  OBVIOUS
<1>2. /\ v \in Values /\ c \in Nat \ {0} /\ Good(l) /\ Good(r)
      /\ Between(l, v, r) /\ t.depth = Higher(l, r) + 1
      /\ l.depth \in 0 .. t.depth - 1 /\ r.depth \in 0 .. t.depth - 1
      /\ l.depth - r.depth \in -1 .. 1 /\ t.depth \in 1 .. MaxNodes
      /\ MaxNodes \in Nat /\ Values \subseteq Int
  BY <1>1, Taken, LevelsBuilt
<1>3. Sums(t, l, v, c, r)
  BY <1>1, Counts
<1>4. /\ d \in Nat /\ Good(y) /\ y.depth \in {l.depth, l.depth - 1}
      /\ \A w \in Int : Avl!Find(l, w) = Avl!Find(y, w) + Alone(u, d, w)
      /\ Avl!Occurrences(l) = Avl!Occurrences(y) + d
  BY <1>1 DEF Shrunk
<1>5. PICK a, b, h : a = l.depth /\ b = r.depth /\ h = t.depth
  OBVIOUS
<1>6. /\ a \in Nat /\ b \in Nat /\ h \in Nat /\ h <= MaxNodes
      /\ h = (IF a > b THEN a ELSE b) + 1 /\ a - b \in -1 .. 1 /\ y.depth \in {a, a - 1}
      /\ y.depth < MaxNodes /\ b < MaxNodes
  <2>1. h = (IF a > b THEN a ELSE b) + 1
    BY <1>2, <1>5 DEF Higher
  <2>2. a \in Nat /\ b \in Nat /\ h \in Nat /\ h <= MaxNodes /\ y.depth \in {a, a - 1}
    BY <1>2, <1>4, <1>5
  <2> QED
    BY <1>2, <1>5, <2>1, <2>2
<1>7. ASSUME NEW w \in Int
      PROVE  /\ Avl!Find(l, w) = Avl!Find(y, w) + Alone(u, d, w) /\ Alone(u, d, w) \in Nat
             /\ Avl!Find(y, w) \in Nat /\ Avl!Find(r, w) \in Nat /\ Alone(v, c, w) \in Nat
  <2>1. Avl!Find(y, w) \in Nat /\ Avl!Find(r, w) \in Nat
    BY <1>2, <1>4, Counts
  <2>2. Alone(u, d, w) \in Nat /\ Alone(v, c, w) \in Nat
    BY <1>2, <1>4 DEF Alone
  <2> QED
    BY <1>4, <2>1, <2>2
<1>8. Joint(y, v, c, r)
  <2>1. ASSUME NEW w \in Int, Avl!Find(y, w) > 0 PROVE w < v
    <3>1. Avl!Find(l, w) > 0
      BY <1>7, <2>1
    <3> QED
      BY <1>2, <3>1 DEF Between
  <2>2. Between(y, v, r)
    BY <1>2, <2>1 DEF Between
  <2> QED
    BY <1>2, <1>4, <1>5, <1>6, <2>2 DEF Joint
<1>9. m = Make(v, c, y, r)
  BY <1>1
<1>10. Good(x) /\ Sums(x, y, v, c, r) /\ x.depth \in {h, h - 1}
  <2>1. h = (IF a > r.depth THEN a ELSE r.depth) + 1
    BY <1>5, <1>6
  <2>2. a \in Nat /\ y.depth \in {a, a - 1} /\ a - r.depth \in -1 .. 1
    BY <1>5, <1>6
  <2> QED
    BY <1>8, <1>9, <2>1, <2>2, LowerLeft
<1>11. ASSUME NEW w \in Int PROVE Avl!Find(t, w) = Avl!Find(x, w) + Alone(u, d, w)
  <2>1. Avl!Find(x, w) = Avl!Find(y, w) + Alone(v, c, w) + Avl!Find(r, w)
    BY <1>10 DEF Sums
  <2>2. Avl!Find(t, w) = Avl!Find(l, w) + Alone(v, c, w) + Avl!Find(r, w)
    BY <1>3 DEF Sums
  <2> QED
    BY <1>7, <2>1, <2>2
<1>12. Avl!Occurrences(t) = Avl!Occurrences(x) + d
  <2>1. Avl!Occurrences(x) = Avl!Occurrences(y) + c + Avl!Occurrences(r)
    BY <1>10 DEF Sums
  <2>2. Avl!Occurrences(t) = Avl!Occurrences(l) + c + Avl!Occurrences(r)
    BY <1>3 DEF Sums
  <2>3. Avl!Occurrences(y) \in Nat /\ Avl!Occurrences(r) \in Nat
    BY <1>2, <1>4, Counts
  <2> QED
    BY <1>2, <1>4, <2>1, <2>2, <2>3
<1> QED
  BY <1>4, <1>5, <1>10, <1>11, <1>12 DEF Shrunk

\* A greater value is removed at the right: x rebalances the node with the new branch y.
LEMMA RemovedAtRight ==
  ASSUME Avl!AvlAssumption, NEW t \in Avl!Tree, t # Avl!Null, Good(t),
         NEW u, NEW d, NEW y, Shrunk(t.right, u, d, y),
         NEW m, m = Make(t.value, t.ref, t.left, y), NEW x, x = Avl!AfterRemoval(m)
  PROVE  Shrunk(t, u, d, x)
<1>1. PICK v, c, l, r : v = t.value /\ c = t.ref /\ l = t.left /\ r = t.right
  OBVIOUS
<1>2. /\ v \in Values /\ c \in Nat \ {0} /\ Good(r) /\ Good(l)
      /\ Between(l, v, r) /\ t.depth = Higher(l, r) + 1
      /\ r.depth \in 0 .. t.depth - 1 /\ l.depth \in 0 .. t.depth - 1
      /\ l.depth - r.depth \in -1 .. 1 /\ t.depth \in 1 .. MaxNodes
      /\ MaxNodes \in Nat /\ Values \subseteq Int
  BY <1>1, Taken, LevelsBuilt
<1>3. Sums(t, l, v, c, r)
  BY <1>1, Counts
<1>4. /\ d \in Nat /\ Good(y) /\ y.depth \in {r.depth, r.depth - 1}
      /\ \A w \in Int : Avl!Find(r, w) = Avl!Find(y, w) + Alone(u, d, w)
      /\ Avl!Occurrences(r) = Avl!Occurrences(y) + d
  BY <1>1 DEF Shrunk
<1>5. PICK a, b, h : a = r.depth /\ b = l.depth /\ h = t.depth
  OBVIOUS
<1>6. /\ a \in Nat /\ b \in Nat /\ h \in Nat /\ h <= MaxNodes
      /\ h = (IF a > b THEN a ELSE b) + 1 /\ a - b \in -1 .. 1 /\ y.depth \in {a, a - 1}
      /\ y.depth < MaxNodes /\ b < MaxNodes
  <2>1. h = (IF a > b THEN a ELSE b) + 1
    BY <1>2, <1>5 DEF Higher
  <2>2. a \in Nat /\ b \in Nat /\ h \in Nat /\ h <= MaxNodes /\ y.depth \in {a, a - 1}
    BY <1>2, <1>4, <1>5
  <2> QED
    BY <1>2, <1>5, <2>1, <2>2
<1>7. ASSUME NEW w \in Int
      PROVE  /\ Avl!Find(r, w) = Avl!Find(y, w) + Alone(u, d, w) /\ Alone(u, d, w) \in Nat
             /\ Avl!Find(y, w) \in Nat /\ Avl!Find(l, w) \in Nat /\ Alone(v, c, w) \in Nat
  <2>1. Avl!Find(y, w) \in Nat /\ Avl!Find(l, w) \in Nat
    BY <1>2, <1>4, Counts
  <2>2. Alone(u, d, w) \in Nat /\ Alone(v, c, w) \in Nat
    BY <1>2, <1>4 DEF Alone
  <2> QED
    BY <1>4, <2>1, <2>2
<1>8. Joint(l, v, c, y)
  <2>1. ASSUME NEW w \in Int, Avl!Find(y, w) > 0 PROVE v < w
    <3>1. Avl!Find(r, w) > 0
      BY <1>7, <2>1
    <3> QED
      BY <1>2, <3>1 DEF Between
  <2>2. Between(l, v, y)
    BY <1>2, <2>1 DEF Between
  <2> QED
    BY <1>2, <1>4, <1>5, <1>6, <2>2 DEF Joint
<1>9. m = Make(v, c, l, y)
  BY <1>1
<1>10. Good(x) /\ Sums(x, l, v, c, y) /\ x.depth \in {h, h - 1}
  <2>1. h = (IF a > l.depth THEN a ELSE l.depth) + 1
    BY <1>5, <1>6
  <2>2. a \in Nat /\ y.depth \in {a, a - 1} /\ a - l.depth \in -1 .. 1
    BY <1>5, <1>6
  <2> QED
    BY <1>8, <1>9, <2>1, <2>2, LowerRight
<1>11. ASSUME NEW w \in Int PROVE Avl!Find(t, w) = Avl!Find(x, w) + Alone(u, d, w)
  <2>1. Avl!Find(x, w) = Avl!Find(l, w) + Alone(v, c, w) + Avl!Find(y, w)
    BY <1>10 DEF Sums
  <2>2. Avl!Find(t, w) = Avl!Find(l, w) + Alone(v, c, w) + Avl!Find(r, w)
    BY <1>3 DEF Sums
  <2> QED
    BY <1>7, <2>1, <2>2
<1>12. Avl!Occurrences(t) = Avl!Occurrences(x) + d
  <2>1. Avl!Occurrences(x) = Avl!Occurrences(l) + c + Avl!Occurrences(y)
    BY <1>10 DEF Sums
  <2>2. Avl!Occurrences(t) = Avl!Occurrences(l) + c + Avl!Occurrences(r)
    BY <1>3 DEF Sums
  <2>3. Avl!Occurrences(y) \in Nat /\ Avl!Occurrences(l) \in Nat
    BY <1>2, <1>4, Counts
  <2> QED
    BY <1>2, <1>4, <2>1, <2>2, <2>3
<1> QED
  BY <1>4, <1>5, <1>10, <1>11, <1>12 DEF Shrunk

\* A node that counts more than one occurrence counts one less.
LEMMA ReducedHere ==
  ASSUME Avl!AvlAssumption, NEW t \in Avl!Tree, t # Avl!Null, Good(t), t.ref > 1
  PROVE  Shrunk(t, t.value, 1, [t EXCEPT !.ref = @ - 1])
<1>1. PICK v, c, l, r : v = t.value /\ c = t.ref /\ l = t.left /\ r = t.right
  OBVIOUS
<1>2. /\ t = Make(v, c, l, r) /\ v \in Values /\ c \in Nat \ {0} /\ Good(l) /\ Good(r)
      /\ Between(l, v, r) /\ t.depth = Higher(l, r) + 1
      /\ l.depth \in 0 .. t.depth - 1 /\ r.depth \in 0 .. t.depth - 1
      /\ l.depth - r.depth \in -1 .. 1 /\ t.depth \in 1 .. MaxNodes /\ MaxNodes \in Nat
  BY <1>1, Taken, LevelsBuilt
<1>3. Sums(t, l, v, c, r)
  BY <1>1, Counts
<1>4. PICK m : m = Make(v, c - 1, l, r)
  OBVIOUS
<1>5. [t EXCEPT !.ref = @ - 1] = m
  <2>1. t \in Node(Avl!Tree)
    BY TreeShape
  <2>2. t.depth = Avl!MaxDepth(t) + 1
    BY <1>2, MadeFields
  <2>3. \A e : [t EXCEPT !.ref = e] = Make(v, e, l, r)
    BY <1>1, <2>1, <2>2, MadeAnew
  <2> QED
    BY <1>1, <1>4, <2>3
<1>6. Joint(l, v, c - 1, r)
  <2>1. l.depth < MaxNodes /\ r.depth < MaxNodes
    BY <1>2
  <2>2. c - 1 \in Nat \ {0}
    BY <1>1, <1>2
  <2> QED
    BY <1>2, <2>1, <2>2 DEF Joint
<1>7. Good(m) /\ Sums(m, l, v, c - 1, r) /\ m.depth = t.depth
  BY <1>2, <1>4, <1>6, Joined
<1>8. ASSUME NEW w \in Int PROVE Avl!Find(t, w) = Avl!Find(m, w) + Alone(v, 1, w)
  <2>1. Avl!Find(m, w) = Avl!Find(l, w) + Alone(v, c - 1, w) + Avl!Find(r, w)
    BY <1>7 DEF Sums
  <2>2. Avl!Find(t, w) = Avl!Find(l, w) + Alone(v, c, w) + Avl!Find(r, w)
    BY <1>3 DEF Sums
  <2>3. Avl!Find(l, w) \in Nat /\ Avl!Find(r, w) \in Nat
    BY <1>2, Counts
  <2> QED
    BY <1>2, <2>1, <2>2, <2>3 DEF Alone
<1>9. Avl!Occurrences(t) = Avl!Occurrences(m) + 1
  <2>1. Avl!Occurrences(m) = Avl!Occurrences(l) + (c - 1) + Avl!Occurrences(r)
    BY <1>7 DEF Sums
  <2>2. Avl!Occurrences(t) = Avl!Occurrences(l) + c + Avl!Occurrences(r)
    BY <1>3 DEF Sums
  <2>3. Avl!Occurrences(l) \in Nat /\ Avl!Occurrences(r) \in Nat
    BY <1>2, Counts
  <2> QED
    BY <1>2, <2>1, <2>2, <2>3
<1>10. Shrunk(t, v, 1, m)
  BY <1>7, <1>8, <1>9 DEF Shrunk
<1> QED
  BY <1>1, <1>5, <1>10

\* A sound branch is not changed by being rebalanced.
LEMMA Settled ==
  ASSUME Avl!AvlAssumption, NEW n, n # Avl!Null, Good(n)
  PROVE  Avl!AfterRemoval(Avl!Deepened(n)) = n
<1>1. n \in Avl!Tree
  BY DEF Good
<1>2. n = Make(n.value, n.ref, n.left, n.right) /\ Avl!Balance(n) \in -1 .. 1
  BY <1>1, Taken
<1>3. n \in Node(Avl!Tree)
  BY <1>1, TreeShape
<1>4. Avl!Deepened(n) = n
  BY <1>2, <1>3, MadeAnew
<1>5. ~(Avl!Balance(n) > 1) /\ ~(Avl!Balance(n) < -1)
  BY <1>2
<1>6. Avl!AfterRemoval(n) = n
  BY <1>5 DEF Avl!AfterRemoval, Avl!Rebalanced
<1> QED
  BY <1>4, <1>6

\* A node is replaced by its only branch, by nothing, or by the least node of its right
\* branch, which is removed there.
LEMMA ReplacedHere ==
  ASSUME Avl!AvlAssumption, NEW t \in Avl!Tree, t # Avl!Null, Good(t), NEW rest, NEW k,
         k = Avl!MinNode(t.right),
         t.right # Avl!Null => Shrunk(t.right, k.value, k.ref, rest)
  PROVE  Shrunk(t, t.value, t.ref, Avl!Replaced(t, rest))
<1>1. PICK v, c, l, r : v = t.value /\ c = t.ref /\ l = t.left /\ r = t.right
  OBVIOUS
<1>2. /\ v \in Values /\ c \in Nat \ {0} /\ Good(l) /\ Good(r) /\ l \in Avl!Tree /\ r \in Avl!Tree
      /\ Between(l, v, r) /\ t.depth = Higher(l, r) + 1
      /\ l.depth \in 0 .. t.depth - 1 /\ r.depth \in 0 .. t.depth - 1
      /\ l.depth - r.depth \in -1 .. 1 /\ t.depth \in 1 .. MaxNodes
      /\ MaxNodes \in Nat /\ Values \subseteq Int
  BY <1>1, Taken, LevelsBuilt
<1>3. /\ Avl!Occurrences(t) = Avl!Occurrences(l) + c + Avl!Occurrences(r)
      /\ \A w \in Int : Avl!Find(t, w) = Avl!Find(l, w) + Alone(v, c, w) + Avl!Find(r, w)
  BY <1>1, Counts DEF Sums
<1>4. PICK x : x = Avl!Replaced(t, rest)
  OBVIOUS
<1>5. PICK a, b, h : a = r.depth /\ b = l.depth /\ h = t.depth
  OBVIOUS
<1>6. /\ a \in Nat /\ b \in Nat /\ h \in Nat /\ h <= MaxNodes
      /\ h = (IF a > b THEN a ELSE b) + 1 /\ a - b \in -1 .. 1
      /\ a < MaxNodes /\ b < MaxNodes
  <2>1. h = (IF b > a THEN b ELSE a) + 1
    BY <1>2, <1>5 DEF Higher
  <2>2. a \in Nat /\ b \in Nat /\ h \in Nat /\ h <= MaxNodes /\ b - a \in -1 .. 1
    BY <1>2, <1>5
  <2> QED
    BY <1>2, <2>1, <2>2
<1>7. /\ \A w : Avl!Find(Avl!Null, w) = 0
      /\ Avl!Occurrences(Avl!Null) = 0 /\ Avl!Null.depth = 0 /\ Good(Avl!Null)
  BY FindSteps, OccurrenceSteps, TreeShape, GoodParts
<1>8. \A w \in Int : Avl!Find(l, w) \in Nat /\ Avl!Find(r, w) \in Nat /\ Alone(v, c, w) \in Nat
  BY <1>2, Counts DEF Alone
<1>9. Avl!Occurrences(l) \in Nat /\ Avl!Occurrences(r) \in Nat
  BY <1>2, Counts
<1>10. CASE l = Avl!Null
  <2>1. x = r
    <3>1. CASE r = Avl!Null
      BY <1>1, <1>4, <1>10, <3>1 DEF Avl!Replaced
    <3>2. CASE r # Avl!Null
      <4>1. x = Avl!AfterRemoval(Avl!Deepened(r))
        BY <1>1, <1>4, <1>10, <3>2 DEF Avl!Replaced
      <4> QED
        BY <1>2, <3>2, <4>1, Settled
    <3> QED
      BY <3>1, <3>2
  <2>2. x.depth \in {h, h - 1}
    BY <1>5, <1>6, <1>7, <1>10, <2>1
  <2>3. \A w \in Int : Avl!Find(t, w) = Avl!Find(x, w) + Alone(v, c, w)
    BY <1>3, <1>7, <1>8, <1>10, <2>1
  <2>4. Avl!Occurrences(t) = Avl!Occurrences(x) + c
    BY <1>2, <1>3, <1>7, <1>9, <1>10, <2>1
  <2>5. Shrunk(t, v, c, x)
    BY <1>2, <1>5, <2>1, <2>2, <2>3, <2>4 DEF Shrunk
  <2> QED
    BY <1>1, <1>4, <2>5
<1>11. CASE l # Avl!Null /\ r = Avl!Null
  <2>1. x = l
    <3>1. x = Avl!AfterRemoval(Avl!Deepened(l))
      BY <1>1, <1>4, <1>11 DEF Avl!Replaced
    <3> QED
      BY <1>2, <1>11, <3>1, Settled
  <2>2. x.depth \in {h, h - 1}
    BY <1>5, <1>6, <1>7, <1>11, <2>1
  <2>3. \A w \in Int : Avl!Find(t, w) = Avl!Find(x, w) + Alone(v, c, w)
    BY <1>3, <1>7, <1>8, <1>11, <2>1
  <2>4. Avl!Occurrences(t) = Avl!Occurrences(x) + c
    BY <1>2, <1>3, <1>7, <1>9, <1>11, <2>1
  <2>5. Shrunk(t, v, c, x)
    BY <1>2, <1>5, <2>1, <2>2, <2>3, <2>4 DEF Shrunk
  <2> QED
    BY <1>1, <1>4, <2>5
<1>12. CASE l # Avl!Null /\ r # Avl!Null
  <2>1. /\ k \in Node(Avl!Tree) /\ k.value \in Values /\ k.ref \in Nat \ {0}
        /\ Avl!Find(r, k.value) = k.ref
        /\ \A w \in Int : Avl!Find(r, w) > 0 => k.value <= w
    BY <1>1, <1>2, <1>12, Least
  <2>2. PICK kv, kc : kv = k.value /\ kc = k.ref
    OBVIOUS
  <2>3. /\ kv \in Values /\ kv \in Int /\ kc \in Nat \ {0} /\ Avl!Find(r, kv) = kc
        /\ \A w \in Int : Avl!Find(r, w) > 0 => kv <= w
    BY <1>2, <2>1, <2>2
  <2>4. /\ Good(rest) /\ rest.depth \in {a, a - 1}
        /\ \A w \in Int : Avl!Find(r, w) = Avl!Find(rest, w) + Alone(kv, kc, w)
        /\ Avl!Occurrences(r) = Avl!Occurrences(rest) + kc
    BY <1>1, <1>5, <1>12, <2>2 DEF Shrunk
  <2>5. /\ \A w \in Int : Avl!Find(rest, w) \in Nat /\ Alone(kv, kc, w) \in Nat
        /\ Avl!Occurrences(rest) \in Nat
    BY <2>3, <2>4, Counts DEF Alone
  <2>6. Joint(l, kv, kc, rest)
    <3>1. v \in Int /\ v < kv
      BY <1>2, <2>3 DEF Between
    <3>2. ASSUME NEW w \in Int, Avl!Find(l, w) > 0 PROVE w < kv
      <4>1. w < v
        BY <1>2, <3>2 DEF Between
      <4> QED
        BY <2>3, <3>1, <4>1
    <3>3. ASSUME NEW w \in Int, Avl!Find(rest, w) > 0 PROVE kv < w
      <4>1. Avl!Find(r, w) = Avl!Find(rest, w) + Alone(kv, kc, w)
        BY <2>4
      <4>2. Avl!Find(rest, w) \in Nat /\ Alone(kv, kc, w) \in Nat
        BY <2>5
      <4>3. kv <= w
        BY <2>3, <3>3, <4>1, <4>2
      <4>4. kv # w
        <5>1. kv = w => Alone(kv, kc, w) = kc /\ Avl!Find(r, w) = kc
          BY <2>3 DEF Alone
        <5> QED
          BY <2>3, <3>3, <4>1, <4>2, <5>1
      <4> QED
        BY <2>3, <4>3, <4>4
    <3>4. Between(l, kv, rest)
      BY <3>2, <3>3 DEF Between
    <3>5. l.depth < MaxNodes /\ rest.depth < MaxNodes
      BY <1>2, <1>5, <1>6, <2>4
    <3> QED
      BY <1>2, <2>3, <2>4, <3>4, <3>5 DEF Joint
  <2>7. PICK m : m = Make(kv, kc, l, rest)
    OBVIOUS
  <2>8. x = Avl!AfterRemoval(m)
    <3> DEFINE i == [k EXCEPT !.left = l]
               n == [k EXCEPT !.left = l, !.right = rest]
    <3>1. Avl!Replaced(t, rest) = Avl!AfterRemoval(Avl!Deepened(n))
      BY <1>1, <1>12 DEF Avl!Replaced
    <3>2. i = [value |-> kv, depth |-> k.depth, ref |-> kc, left |-> l, right |-> k.right]
      BY <2>1, <2>2 DEF Node
    <3>3. n = [i EXCEPT !.right = rest]
      OBVIOUS
    <3> HIDE DEF n, i
    <3>4. n = [value |-> kv, depth |-> k.depth, ref |-> kc, left |-> l, right |-> rest]
      BY <3>2, <3>3
    <3>5. Avl!Deepened(n) = m
      BY <2>7, <3>4, MadeDeep
    <3> QED
      BY <1>4, <3>1, <3>5
  <2>9. Good(x) /\ Sums(x, l, kv, kc, rest) /\ x.depth \in {h, h - 1}
    <3>1. h = (IF a > l.depth THEN a ELSE l.depth) + 1
      BY <1>5, <1>6
    <3>2. a \in Nat /\ rest.depth \in {a, a - 1} /\ a - l.depth \in -1 .. 1
      BY <1>5, <1>6, <2>4
    <3> QED
      BY <2>6, <2>7, <2>8, <3>1, <3>2, LowerRight
  <2>10. ASSUME NEW w \in Int PROVE Avl!Find(t, w) = Avl!Find(x, w) + Alone(v, c, w)
    <3>1. Avl!Find(x, w) = Avl!Find(l, w) + Alone(kv, kc, w) + Avl!Find(rest, w)
      BY <2>9 DEF Sums
    <3>2. Avl!Find(t, w) = Avl!Find(l, w) + Alone(v, c, w) + Avl!Find(r, w)
      BY <1>3
    <3>3. Avl!Find(r, w) = Avl!Find(rest, w) + Alone(kv, kc, w)
      BY <2>4
    <3>4. /\ Avl!Find(l, w) \in Nat /\ Alone(v, c, w) \in Nat
          /\ Avl!Find(rest, w) \in Nat /\ Alone(kv, kc, w) \in Nat
      BY <1>8, <2>5
    <3> QED
      BY <3>1, <3>2, <3>3, <3>4
  <2>11. Avl!Occurrences(t) = Avl!Occurrences(x) + c
    <3>1. Avl!Occurrences(x) = Avl!Occurrences(l) + kc + Avl!Occurrences(rest)
      BY <2>9 DEF Sums
    <3> QED
      BY <1>2, <1>3, <1>9, <2>3, <2>4, <2>5, <3>1
  <2>12. Shrunk(t, v, c, x)
    BY <1>2, <1>5, <2>9, <2>10, <2>11 DEF Shrunk
  <2> QED
    BY <1>1, <1>4, <2>12
<1> QED
  BY <1>10, <1>11, <1>12

\* How many occurrences of u a removal takes: one, or all of them
Amount(t, u, ref) == IF ref /\ Avl!Find(t, u) > 1 THEN 1 ELSE Avl!Find(t, u)

\* What is removed from the branches of a node is removed from it.
LEMMA RemovedHere ==
  ASSUME Avl!AvlAssumption, NEW t \in Avl!Tree, t # Avl!Null, Good(t),
         NEW u \in Values, NEW ref \in BOOLEAN, NEW y, NEW z, NEW rest, NEW k,
         k = Avl!MinNode(t.right),
         Shrunk(t.left, u, Amount(t.left, u, ref), y),
         Shrunk(t.right, u, Amount(t.right, u, ref), z),
         t.right # Avl!Null => Shrunk(t.right, k.value, k.ref, rest)
  PROVE  Shrunk(t, u, Amount(t, u, ref), RemoveStep(t, u, ref, y, z, rest))
<1>1. t.value \in Int /\ u \in Int /\ t.ref \in Nat \ {0}
  BY Taken, LevelsBuilt
<1>2. t \in Node(Avl!Tree)
  BY TreeShape
<1>3. Avl!Find(t, u) = IF u < t.value THEN Avl!Find(t.left, u)
                       ELSE IF t.value < u THEN Avl!Find(t.right, u)
                       ELSE t.ref
  BY FindSteps
<1>4. CASE u < t.value
  <2>1. Amount(t, u, ref) = Amount(t.left, u, ref)
    <3>1. Avl!Find(t, u) = Avl!Find(t.left, u)
      BY <1>3, <1>4
    <3> QED
      BY <3>1, Zenon DEF Amount
  <2>2. PICK m : m = Make(t.value, t.ref, y, t.right)
    OBVIOUS
  <2>3. PICK x : x = Avl!AfterRemoval(m)
    OBVIOUS
  <2>4. RemovedLeft(t, y) = x
    <3>1. Avl!Deepened([t EXCEPT !.left = y]) = m
      BY <1>2, <2>2, MadeAnew
    <3> QED
      BY <2>3, <3>1 DEF RemovedLeft
  <2>5. RemoveStep(t, u, ref, y, z, rest) = x
    BY <1>4, <2>4, Zenon DEF RemoveStep
  <2>6. \A d : Shrunk(t.left, u, d, y) => Shrunk(t, u, d, x)
    BY <2>2, <2>3, RemovedAtLeft
  <2>7. Shrunk(t, u, Amount(t.left, u, ref), x)
    BY <2>6, Zenon
  <2> QED
    BY <2>1, <2>5, <2>7, Zenon
<1>5. CASE t.value < u
  <2>1. Amount(t, u, ref) = Amount(t.right, u, ref)
    <3>1. Avl!Find(t, u) = Avl!Find(t.right, u)
      BY <1>1, <1>3, <1>5
    <3> QED
      BY <3>1, Zenon DEF Amount
  <2>2. PICK m : m = Make(t.value, t.ref, t.left, z)
    OBVIOUS
  <2>3. PICK x : x = Avl!AfterRemoval(m)
    OBVIOUS
  <2>4. RemovedRight(t, z) = x
    <3>1. Avl!Deepened([t EXCEPT !.right = z]) = m
      BY <1>2, <2>2, MadeAnew
    <3> QED
      BY <2>3, <3>1 DEF RemovedRight
  <2>5. RemoveStep(t, u, ref, y, z, rest) = x
    <3>1. ~(u < t.value) /\ u > t.value
      BY <1>1, <1>5
    <3> QED
      BY <2>4, <3>1, Zenon DEF RemoveStep
  <2>6. \A d : Shrunk(t.right, u, d, z) => Shrunk(t, u, d, x)
    BY <2>2, <2>3, RemovedAtRight
  <2>7. Shrunk(t, u, Amount(t.right, u, ref), x)
    BY <2>6, Zenon
  <2> QED
    BY <2>1, <2>5, <2>7, Zenon
<1>6. CASE t.value = u
  <2>1. ~(u < t.value) /\ ~(u > t.value) /\ Avl!Find(t, u) = t.ref
    BY <1>1, <1>3, <1>6
  <2>2. CASE ref /\ t.ref > 1
    <3>1. Amount(t, u, ref) = 1
      BY <2>1, <2>2, Zenon DEF Amount
    <3>2. RemoveStep(t, u, ref, y, z, rest) = [t EXCEPT !.ref = @ - 1]
      BY <2>1, <2>2, Zenon DEF RemoveStep
    <3>3. Shrunk(t, t.value, 1, [t EXCEPT !.ref = @ - 1])
      BY <2>2, ReducedHere
    <3> QED
      BY <1>6, <3>1, <3>2, <3>3, Zenon
  <2>3. CASE ~(ref /\ t.ref > 1)
    <3>1. Amount(t, u, ref) = t.ref
      BY <2>1, <2>3, Zenon DEF Amount
    <3>2. RemoveStep(t, u, ref, y, z, rest) = Avl!Replaced(t, rest)
      BY <2>1, <2>3, Zenon DEF RemoveStep
    <3>3. Shrunk(t, t.value, t.ref, Avl!Replaced(t, rest))
      BY ReplacedHere
    <3> QED
      BY <1>6, <3>1, <3>2, <3>3, Zenon
  <2> QED
    BY <2>2, <2>3, Zenon
<1> QED
  BY <1>1, <1>4, <1>5, <1>6

\* A removal takes one occurrence of the value, or all, from a sound branch, which stays sound.
LEMMA Removal ==
  ASSUME Avl!AvlAssumption
  PROVE  \A t \in Avl!Tree : Good(t) => \A u \in Values, ref \in BOOLEAN :
           Shrunk(t, u, Amount(t, u, ref), Avl!NodeRemove(t, u, ref))
<1> DEFINE S == {t \in Avl!Tree : Good(t) => \A u \in Values, ref \in BOOLEAN :
                   Shrunk(t, u, Amount(t, u, ref), Avl!NodeRemove(t, u, ref))}
<1>1. Avl!Null \in S
  <2>1. /\ Avl!Null \in Avl!Tree /\ Avl!Null.depth = 0 /\ Good(Avl!Null)
        /\ \A w : Avl!Find(Avl!Null, w) = 0
        /\ Avl!Occurrences(Avl!Null) = 0
    BY TreeShape, GoodParts, FindSteps, OccurrenceSteps
  <2>2. SUFFICES ASSUME NEW u \in Values, NEW ref \in BOOLEAN
                 PROVE  Shrunk(Avl!Null, u, Amount(Avl!Null, u, ref),
                               Avl!NodeRemove(Avl!Null, u, ref))
    BY <2>1
  <2>3. Avl!NodeRemove(Avl!Null, u, ref) = Avl!Null
    <3>1. \A y, z, rest : RemoveStep(Avl!Null, u, ref, y, z, rest) = Avl!Null
      BY Zenon DEF RemoveStep
    <3>2. PICK t : t = Avl!Null
      OBVIOUS
    <3>3. PICK y, z : y = Avl!NodeRemove(t.left, u, ref) /\ z = Avl!NodeRemove(t.right, u, ref)
      OBVIOUS
    <3>4. t \in Avl!Tree
      BY <2>1, <3>2
    <3>5. PICK rest : Avl!NodeRemove(t, u, ref) = RemoveStep(t, u, ref, y, z, rest)
      BY <3>3, <3>4, RemoveSteps, Zenon
    <3>6. RemoveStep(t, u, ref, y, z, rest) = Avl!Null
      BY <3>1, <3>2, Zenon
    <3> QED
      BY <3>2, <3>5, <3>6, Zenon
  <2>4. Amount(Avl!Null, u, ref) = 0
    <3>1. ~(0 > 1)
      OBVIOUS
    <3> QED
      BY <2>1, <3>1, Zenon DEF Amount
  <2>5. \A w \in Int : Alone(u, 0, w) = 0
    BY DEF Alone
  <2>6. Shrunk(Avl!Null, u, 0, Avl!Null)
    BY <2>1, <2>5 DEF Shrunk
  <2> QED
    BY <2>3, <2>4, <2>6, Zenon
<1>2. ASSUME NEW t \in Avl!Tree, t # Avl!Null, t.left \in S, t.right \in S PROVE t \in S
  <2>1. SUFFICES ASSUME Good(t), NEW u \in Values, NEW ref \in BOOLEAN
                 PROVE  Shrunk(t, u, Amount(t, u, ref), Avl!NodeRemove(t, u, ref))
    BY <1>2
  <2>2. Good(t.left) /\ Good(t.right) /\ t.right \in Avl!Tree
    BY <1>2, <2>1, Taken
  <2>3. PICK y, z : y = Avl!NodeRemove(t.left, u, ref) /\ z = Avl!NodeRemove(t.right, u, ref)
    OBVIOUS
  <2>4. PICK k : k = Avl!MinNode(t.right)
    OBVIOUS
  <2>5. PICK rest : rest = Avl!NodeRemove(t.right, k.value, FALSE)
    OBVIOUS
  <2>6. Shrunk(t.left, u, Amount(t.left, u, ref), y)
    BY <1>2, <2>2, <2>3, Zenon
  <2>7. Shrunk(t.right, u, Amount(t.right, u, ref), z)
    BY <1>2, <2>2, <2>3, Zenon
  <2>8. t.right # Avl!Null => Shrunk(t.right, k.value, k.ref, rest)
    <3>1. SUFFICES ASSUME t.right # Avl!Null PROVE Shrunk(t.right, k.value, k.ref, rest)
      OBVIOUS
    <3>2. k.value \in Values /\ Avl!Find(t.right, k.value) = k.ref
      BY <2>2, <2>4, <3>1, Least
    <3>3. \A w \in Values :
            Shrunk(t.right, w, Amount(t.right, w, FALSE), Avl!NodeRemove(t.right, w, FALSE))
      <4>1. FALSE \in BOOLEAN
        OBVIOUS
      <4> QED
        BY <1>2, <2>2, <4>1, Zenon
    <3>4. Amount(t.right, k.value, FALSE) = k.ref
      BY <3>2, Zenon DEF Amount
    <3> QED
      BY <2>5, <3>2, <3>3, <3>4, Zenon
  <2>9. Shrunk(t, u, Amount(t, u, ref), RemoveStep(t, u, ref, y, z, rest))
    BY <1>2, <2>1, <2>4, <2>6, <2>7, <2>8, RemovedHere
  <2>10. Avl!NodeRemove(t, u, ref) = RemoveStep(t, u, ref, y, z, rest)
    BY <1>2, <2>3, <2>4, <2>5, RemoveSteps, Zenon
  <2> QED
    BY <2>9, <2>10, Zenon
<1>3. Avl!Tree \subseteq S
  <2> HIDE DEF S
  <2> QED
    BY <1>1, <1>2, TreeInduction
<1> QED
  BY <1>3

-----------------------------------------------------------------------------
(* AVL: the tree and its counters *)

\* The values of a branch
Held(t) == {w \in Values : Avl!Find(t, w) > 0}

\* A sound branch has at most as many values as occurrences.
LEMMA HeldBound ==
  ASSUME Avl!AvlAssumption
  PROVE  \A t \in Avl!Tree : Good(t) =>
           /\ IsFiniteSet(Held(t)) /\ Cardinality(Held(t)) \in Nat
           /\ Cardinality(Held(t)) <= Avl!Occurrences(t)
<1> DEFINE Bounded(t) == /\ IsFiniteSet(Held(t)) /\ Cardinality(Held(t)) \in Nat
                         /\ Cardinality(Held(t)) <= Avl!Occurrences(t)
           S == {t \in Avl!Tree : Good(t) => Bounded(t)}
<1>1. Avl!Null \in S
  <2>1. Held(Avl!Null) = {}
    <3>1. \A w : ~(Avl!Find(Avl!Null, w) > 0)
      BY FindSteps
    <3> QED
      BY <3>1 DEF Held
  <2>2. Avl!Occurrences(Avl!Null) = 0 /\ Avl!Null \in Avl!Tree
    BY OccurrenceSteps, TreeShape
  <2>3. IsFiniteSet({}) /\ Cardinality({}) = 0
    BY FS_EmptySet
  <2> QED
    BY <2>1, <2>2, <2>3
<1>2. ASSUME NEW t \in Avl!Tree, t # Avl!Null, t.left \in S, t.right \in S PROVE t \in S
  <2>1. SUFFICES ASSUME Good(t) PROVE Bounded(t)
    BY <1>2
  <2>2. PICK v, c, l, r : v = t.value /\ c = t.ref /\ l = t.left /\ r = t.right
    OBVIOUS
  <2>3. v \in Values /\ c \in Nat \ {0} /\ Good(l) /\ Good(r) /\ l \in S /\ r \in S
        /\ Values \subseteq Int
    <3> HIDE DEF S
    <3> QED
      BY <1>2, <2>1, <2>2, Taken, LevelsBuilt
  <2>4. Sums(t, l, v, c, r)
    BY <1>2, <2>1, <2>2, Counts
  <2>5. Bounded(l) /\ Bounded(r)
    <3> HIDE DEF Bounded
    <3> QED
      BY <2>3
  <2>6. Held(t) = (Held(l) \cup Held(r)) \cup {v}
    <3>1. ASSUME NEW w \in Values
          PROVE  Avl!Find(t, w) > 0 <=> Avl!Find(l, w) > 0 \/ Avl!Find(r, w) > 0 \/ w = v
      <4>1. Avl!Find(t, w) = Avl!Find(l, w) + Alone(v, c, w) + Avl!Find(r, w)
        BY <2>3, <2>4 DEF Sums
      <4>2. Avl!Find(l, w) \in Nat /\ Avl!Find(r, w) \in Nat
        BY <2>3, Counts
      <4> QED
        BY <2>3, <4>1, <4>2 DEF Alone
    <3> QED
      BY <2>3, <3>1 DEF Held
  <2>7. PICK A, B : A = Held(l) /\ B = Held(r)
    OBVIOUS
  <2>8. IsFiniteSet(A) /\ IsFiniteSet(B)
    BY <2>5, <2>7
  <2>9. /\ IsFiniteSet(A \cup B)
        /\ Cardinality(A \cup B) = Cardinality(A) + Cardinality(B) - Cardinality(A \cap B)
    BY <2>8, FS_Union
  <2>10. Cardinality(A \cap B) \in Nat
    BY <2>8, FS_Intersection, FS_CardinalityType
  <2>11. /\ IsFiniteSet((A \cup B) \cup {v})
         /\ \/ Cardinality((A \cup B) \cup {v}) = Cardinality(A \cup B)
            \/ Cardinality((A \cup B) \cup {v}) = Cardinality(A \cup B) + 1
    BY <2>9, FS_AddElement
  <2>12. Cardinality((A \cup B) \cup {v}) \in Nat
    BY <2>11, FS_CardinalityType
  <2>13. Avl!Occurrences(t) = Avl!Occurrences(l) + c + Avl!Occurrences(r)
    BY <2>4 DEF Sums
  <2>14. Avl!Occurrences(l) \in Nat /\ Avl!Occurrences(r) \in Nat
    BY <2>3, Counts
  <2>15. /\ Cardinality(A) \in Nat /\ Cardinality(A) <= Avl!Occurrences(l)
         /\ Cardinality(B) \in Nat /\ Cardinality(B) <= Avl!Occurrences(r)
    BY <2>5, <2>7
  <2>16. Cardinality((A \cup B) \cup {v}) <= Avl!Occurrences(t)
    BY <2>3, <2>9, <2>10, <2>11, <2>12, <2>13, <2>14, <2>15
  <2> QED
    BY <2>6, <2>7, <2>11, <2>12, <2>16
<1>3. Avl!Tree \subseteq S
  <2> HIDE DEF S
  <2> QED
    BY <1>1, <1>2, TreeInduction
<1> QED
  BY <1>3

\* With an insertion a branch has one more value if it had not this one.
LEMMA HeldGrown ==
  ASSUME Avl!AvlAssumption, NEW t, Good(t), NEW u \in Values, NEW m, Grown(t, u, m)
  PROVE  /\ Held(m) = Held(t) \cup {u}
         /\ Cardinality(Held(m)) = Cardinality(Held(t)) + IF Avl!Find(t, u) = 0 THEN 1 ELSE 0
<1>1. Values \subseteq Int /\ t \in Avl!Tree
  BY LevelsBuilt DEF Good
<1>2. \A w \in Values : /\ Avl!Find(m, w) = Avl!Find(t, w) + Alone(u, 1, w)
                        /\ Avl!Find(t, w) \in Nat
  BY <1>1, Counts DEF Grown
<1>3. Held(m) = Held(t) \cup {u}
  BY <1>2 DEF Held, Alone
<1>4. IsFiniteSet(Held(t)) /\ Cardinality(Held(t)) \in Nat
  BY <1>1, HeldBound
<1>5. Cardinality(Held(t) \cup {u}) =
        IF u \in Held(t) THEN Cardinality(Held(t)) ELSE Cardinality(Held(t)) + 1
  BY <1>4, FS_AddElement
<1>6. u \in Held(t) <=> Avl!Find(t, u) # 0
  BY <1>2 DEF Held
<1> QED
  BY <1>3, <1>4, <1>5, <1>6

\* With a removal of all its occurrences it has one value less.
LEMMA HeldShrunk ==
  ASSUME Avl!AvlAssumption, NEW t, Good(t), NEW u \in Values, NEW d, NEW m, Shrunk(t, u, d, m)
  PROVE  /\ d \in 0 .. Avl!Find(t, u)
         /\ Cardinality(Held(m)) =
              Cardinality(Held(t)) - IF d > 0 /\ d = Avl!Find(t, u) THEN 1 ELSE 0
<1>1. Values \subseteq Int /\ t \in Avl!Tree /\ m \in Avl!Tree /\ Good(m) /\ d \in Nat
  BY LevelsBuilt DEF Good, Shrunk
<1>2. \A w \in Values : /\ Avl!Find(t, w) = Avl!Find(m, w) + Alone(u, d, w)
                        /\ Avl!Find(t, w) \in Nat /\ Avl!Find(m, w) \in Nat
  BY <1>1, Counts DEF Shrunk
<1>3. Avl!Find(t, u) = Avl!Find(m, u) + d /\ Avl!Find(t, u) \in Nat /\ Avl!Find(m, u) \in Nat
  BY <1>2 DEF Alone
<1>4. IsFiniteSet(Held(t)) /\ Cardinality(Held(t)) \in Nat
  BY <1>1, HeldBound
<1>5. \A w \in Values : w # u => (w \in Held(m) <=> w \in Held(t))
  BY <1>2 DEF Held, Alone
<1>6. (u \in Held(m) <=> Avl!Find(m, u) > 0) /\ (u \in Held(t) <=> Avl!Find(t, u) > 0)
  BY DEF Held
<1>7. Held(m) \subseteq Values /\ Held(t) \subseteq Values
  BY DEF Held
<1>8. CASE d > 0 /\ d = Avl!Find(t, u)
  <2>1. Held(m) = Held(t) \ {u} /\ u \in Held(t)
    <3>1. u \notin Held(m) /\ u \in Held(t)
      BY <1>1, <1>3, <1>8, <1>6
    <3> QED
      BY <1>5, <1>7, <3>1
  <2>2. Cardinality(Held(t) \ {u}) = Cardinality(Held(t)) - 1
    BY <1>4, <2>1, FS_RemoveElement
  <2> QED
    BY <1>1, <1>3, <1>8, <2>1, <2>2
<1>9. CASE ~(d > 0 /\ d = Avl!Find(t, u))
  <2>1. Held(m) = Held(t)
    <3>1. u \in Held(m) <=> u \in Held(t)
      BY <1>1, <1>3, <1>9, <1>6
    <3> QED
      BY <1>5, <1>7, <3>1
  <2> QED
    BY <1>1, <1>3, <1>4, <1>9, <2>1
<1> QED
  BY <1>8, <1>9

\* The invariant: the tree is sound, and the counters, which clear() leaves, are not too low
AvlInv ==
  /\ Good(data_) /\ cleared \in BOOLEAN
  /\ nodes \in 0 .. MaxNodes /\ unique_nodes \in Nat
  /\ Avl!Occurrences(data_) <= nodes /\ Cardinality(Held(data_)) <= unique_nodes
  /\ unique_nodes - Cardinality(Held(data_)) <= nodes - Avl!Occurrences(data_)
  /\ ~cleared => /\ nodes = Avl!Occurrences(data_)
                 /\ unique_nodes = Cardinality(Held(data_))

\* What the counters are compared with are numbers.
LEMMA AvlNumbers ==
  ASSUME Avl!AvlAssumption, NEW t, Good(t)
  PROVE  /\ t \in Avl!Tree /\ Avl!Occurrences(t) \in Nat
         /\ IsFiniteSet(Held(t)) /\ Cardinality(Held(t)) \in Nat
         /\ Cardinality(Held(t)) <= Avl!Occurrences(t)
         /\ \A v \in Values : Avl!Find(t, v) \in Nat
         /\ t.depth \in Nat /\ t.depth <= Avl!Occurrences(t)
<1>1. t \in Avl!Tree /\ Values \subseteq Int /\ MaxNodes \in Nat /\ t.depth \in 0 .. MaxNodes
  BY LevelsBuilt DEF Good
<1>2. Avl!Occurrences(t) \in Nat /\ \A v \in Int : Avl!Find(t, v) \in Nat
  BY Counts
<1> QED
  BY <1>1, <1>2, HeldBound, DepthBound

\* A new node is what an insertion makes of the empty branch.
LEMMA InsertedRoot ==
  ASSUME Avl!AvlAssumption, Good(data_), NEW v \in Values, data_.depth < MaxNodes,
         NEW m, m = IF data_ = Avl!Null THEN Avl!NewNode(v) ELSE Avl!NodeInsert(data_, v)
  PROVE  Grown(data_, v, m)
<1>1. CASE data_ = Avl!Null
  BY <1>1, InsertedFirst
<1>2. CASE data_ # Avl!Null
  <2>1. data_ \in Avl!Tree
    BY DEF Good
  <2> QED
    BY <1>2, <2>1, Insertion
<1> QED
  BY <1>1, <1>2

\* The tree starts empty, or with one value.
LEMMA AvlInitially ==
  ASSUME Avl!AvlAssumption, Avl!Init
  PROVE  AvlInv
<1>0. cleared \in BOOLEAN
  BY DEF Avl!Init
<1>1. MaxNodes \in Nat \ {0}
  BY LevelsBuilt
<1>2. Good(Avl!Null) /\ Avl!Occurrences(Avl!Null) = 0 /\ \A w : Avl!Find(Avl!Null, w) = 0
  BY GoodParts, OccurrenceSteps, FindSteps
<1>3. Held(Avl!Null) = {} /\ Cardinality(Held(Avl!Null)) = 0
  <2>1. Held(Avl!Null) = {}
    BY <1>2 DEF Held
  <2> QED
    BY <2>1, FS_EmptySet
<1>4. CASE data_ = Avl!Null /\ nodes = 0 /\ unique_nodes = 0
  <2>1. /\ Good(data_) /\ nodes \in 0 .. MaxNodes /\ unique_nodes \in Nat
        /\ Avl!Occurrences(data_) = nodes /\ Cardinality(Held(data_)) = unique_nodes
        /\ nodes <= nodes /\ unique_nodes <= unique_nodes
        /\ unique_nodes - unique_nodes <= nodes - nodes
    BY <1>1, <1>2, <1>3, <1>4
  <2> QED
    BY <1>0, <2>1, Zenon DEF AvlInv
<1>5. ASSUME NEW v \in Values, data_ = Avl!NewNode(v), nodes = 1, unique_nodes = 1
      PROVE  AvlInv
  <2>1. Grown(Avl!Null, v, data_)
    BY <1>5, InsertedFirst
  <2>2. Good(data_) /\ Avl!Occurrences(data_) = 1
    BY <1>2, <2>1 DEF Grown
  <2>3. Cardinality(Held(data_)) = 1
    BY <1>2, <1>3, <2>1, HeldGrown
  <2> QED
    <3>1. /\ nodes \in 0 .. MaxNodes /\ unique_nodes \in Nat
          /\ Avl!Occurrences(data_) = nodes /\ Cardinality(Held(data_)) = unique_nodes
          /\ nodes <= nodes /\ unique_nodes <= unique_nodes
          /\ unique_nodes - unique_nodes <= nodes - nodes
      BY <1>1, <1>5, <2>2, <2>3
    <3> QED
      BY <1>0, <2>2, <3>1, Zenon DEF AvlInv
<1> QED
  BY <1>4, <1>5 DEF Avl!Init

\* Every operation keeps the invariant.
LEMMA AvlStep ==
  ASSUME Avl!AvlAssumption, AvlInv, [Avl!Next]_(Avl!vars)
  PROVE  AvlInv'
<1>1. MaxNodes \in Nat \ {0} /\ Values \subseteq Int
  BY LevelsBuilt
<1>2. PICK t, n, o, p : /\ t = data_ /\ n = nodes /\ o = Avl!Occurrences(data_)
                        /\ p = Cardinality(Held(data_))
  OBVIOUS
<1>3. Good(t)
  BY <1>2 DEF AvlInv
<1>4. /\ t \in Avl!Tree /\ o \in Nat /\ p \in Nat /\ p <= o
      /\ \A v \in Values : Avl!Find(t, v) \in Nat
      /\ t.depth \in Nat /\ t.depth <= o
  BY <1>2, <1>3, AvlNumbers
<1>5. /\ n \in 0 .. MaxNodes /\ unique_nodes \in Nat /\ o <= n /\ p <= unique_nodes
      /\ unique_nodes - p <= n - o /\ cleared \in BOOLEAN
      /\ ~cleared => n = o /\ unique_nodes = p
  BY <1>2 DEF AvlInv
<1>6. ASSUME NEW m, data_' = m, Good(m), cleared' \in BOOLEAN,
             nodes' \in 0 .. MaxNodes, unique_nodes' \in Nat,
             NEW q, NEW k, q = Avl!Occurrences(m), k = Cardinality(Held(m)),
             q <= nodes', k <= unique_nodes', unique_nodes' - k <= nodes' - q,
             ~cleared' => nodes' = q /\ unique_nodes' = k
      PROVE  AvlInv'
  BY <1>6, Zenon DEF AvlInv
<1>7. ASSUME NEW v \in Values, Avl!Insert(v) PROVE AvlInv'
  <2>1. PICK m : m = IF t = Avl!Null THEN Avl!NewNode(v) ELSE Avl!NodeInsert(t, v)
    OBVIOUS
  <2>2. data_' = m /\ n < MaxNodes /\ nodes' = n + 1
        /\ cleared' = cleared
        /\ unique_nodes' = IF Avl!Find(t, v) = 0 THEN unique_nodes + 1 ELSE unique_nodes
    BY <1>2, <1>7, <2>1 DEF Avl!Insert
  <2>3. Grown(t, v, m)
    <3>1. t.depth < MaxNodes
      BY <1>1, <1>4, <1>5, <2>2
    <3> QED
      BY <1>2, <1>3, <2>1, <3>1, InsertedRoot
  <2>4. PICK q, k : q = Avl!Occurrences(m) /\ k = Cardinality(Held(m))
    OBVIOUS
  <2>5. Good(m) /\ q = o + 1
    BY <1>2, <2>3, <2>4 DEF Grown
  <2>6. k = p + IF Avl!Find(t, v) = 0 THEN 1 ELSE 0
    BY <1>2, <1>3, <2>3, <2>4, HeldGrown
  <2>7. /\ nodes' \in 0 .. MaxNodes /\ unique_nodes' \in Nat /\ q <= nodes' /\ k <= unique_nodes'
        /\ unique_nodes' - k <= nodes' - q
        /\ n = o /\ unique_nodes = p => nodes' = q /\ unique_nodes' = k
    BY <1>1, <1>4, <1>5, <2>2, <2>5, <2>6
  <2>8. cleared' \in BOOLEAN /\ (~cleared' => nodes' = q /\ unique_nodes' = k)
    BY <1>5, <2>2, <2>7, Zenon
  <2> QED
    BY <1>6, <2>2, <2>4, <2>5, <2>7, <2>8, Zenon
<1>8. ASSUME NEW v \in Values, NEW ref \in BOOLEAN, NEW f, f = Avl!Find(t, v),
             NEW d, d = IF ref /\ f > 1 THEN 1 ELSE f,
             data_' = Avl!NodeRemove(t, v, ref), nodes' = n - d,
             unique_nodes' = IF f > 0 /\ d = f THEN unique_nodes - 1 ELSE unique_nodes,
             cleared' = cleared
      PROVE  AvlInv'
  <2>1. PICK m : m = Avl!NodeRemove(t, v, ref)
    OBVIOUS
  <2>2. Shrunk(t, v, d, m)
    <3>1. Amount(t, v, ref) = d
      BY <1>8, Zenon DEF Amount
    <3> QED
      BY <1>3, <1>4, <2>1, <3>1, Removal, Zenon
  <2>3. PICK q, k : q = Avl!Occurrences(m) /\ k = Cardinality(Held(m))
    OBVIOUS
  <2>4. Good(m) /\ o = q + d
    BY <1>2, <2>2, <2>3 DEF Shrunk
  <2>5. d \in 0 .. f /\ k = p - IF d > 0 /\ d = f THEN 1 ELSE 0
    BY <1>2, <1>3, <1>8, <2>2, <2>3, HeldShrunk
  <2>6. q \in Nat /\ k \in Nat /\ f \in Nat
    BY <1>4, <1>8, <2>3, <2>4, AvlNumbers
  <2>7. /\ nodes' \in 0 .. MaxNodes /\ unique_nodes' \in Nat /\ q <= nodes' /\ k <= unique_nodes'
        /\ unique_nodes' - k <= nodes' - q
        /\ n = o /\ unique_nodes = p => nodes' = q /\ unique_nodes' = k
    <3>1. nodes' = n - d /\ unique_nodes' = unique_nodes - IF d > 0 /\ d = f THEN 1 ELSE 0
      BY <1>5, <1>8, <2>5, <2>6
    <3> QED
      BY <1>1, <1>4, <1>5, <2>4, <2>5, <2>6, <3>1
  <2>8. cleared' \in BOOLEAN /\ (~cleared' => nodes' = q /\ unique_nodes' = k)
    BY <1>5, <1>8, <2>7, Zenon
  <2> QED
    BY <1>6, <1>8, <2>1, <2>3, <2>4, <2>7, <2>8, Zenon
<1>9. ASSUME NEW v \in Values, Avl!Remove(v) PROVE AvlInv'
  <2>1. PICK f : f = Avl!Find(t, v)
    OBVIOUS
  <2>2. PICK d : d = IF TRUE /\ f > 1 THEN 1 ELSE f
    OBVIOUS
  <2>3. /\ data_' = Avl!NodeRemove(t, v, TRUE) /\ cleared' = cleared
        /\ nodes' = IF f > 0 THEN n - 1 ELSE n
        /\ unique_nodes' = IF f = 1 THEN unique_nodes - 1 ELSE unique_nodes
    BY <1>2, <1>9, <2>1, Zenon DEF Avl!Remove
  <2>4. f \in Nat /\ n \in Nat
    BY <1>4, <1>5, <2>1
  <2>5. /\ nodes' = n - d
        /\ unique_nodes' = IF f > 0 /\ d = f THEN unique_nodes - 1 ELSE unique_nodes
    BY <2>2, <2>3, <2>4
  <2>6. TRUE \in BOOLEAN
    OBVIOUS
  <2> QED
    BY <1>8, <2>1, <2>2, <2>3, <2>5, <2>6, Zenon
<1>10. ASSUME NEW v \in Values, Avl!Drop(v) PROVE AvlInv'
  <2>1. PICK f : f = Avl!Find(t, v)
    OBVIOUS
  <2>2. /\ data_' = Avl!NodeRemove(t, v, FALSE) /\ cleared' = cleared /\ nodes' = n - f
        /\ unique_nodes' = IF f > 0 THEN unique_nodes - 1 ELSE unique_nodes
    BY <1>2, <1>10, <2>1, Zenon DEF Avl!Drop
  <2>3. FALSE \in BOOLEAN /\ f = IF FALSE /\ f > 1 THEN 1 ELSE f
    BY Zenon
  <2> QED
    BY <1>8, <2>1, <2>2, <2>3, Zenon
<1>11. ASSUME Avl!Clear PROVE AvlInv'
  <2>1. Good(Avl!Null) /\ Avl!Occurrences(Avl!Null) = 0 /\ \A w : Avl!Find(Avl!Null, w) = 0
    BY GoodParts, OccurrenceSteps, FindSteps
  <2>2. Held(Avl!Null) = {} /\ Cardinality(Held(Avl!Null)) = 0
    <3>1. Held(Avl!Null) = {}
      BY <2>1 DEF Held
    <3> QED
      BY <3>1, FS_EmptySet
  <2>3. data_' = Avl!Null /\ cleared' = TRUE /\ nodes' = n /\ unique_nodes' = unique_nodes
    BY <1>2, <1>11 DEF Avl!Clear
  <2>4. /\ nodes' \in 0 .. MaxNodes /\ unique_nodes' \in Nat /\ 0 <= nodes' /\ 0 <= unique_nodes'
        /\ unique_nodes' - 0 <= nodes' - 0
    BY <1>1, <1>4, <1>5, <2>3
  <2> QED
    BY <1>6, <2>1, <2>2, <2>3, <2>4, Zenon
<1>12. ASSUME UNCHANGED Avl!vars PROVE AvlInv'
  <2>1. data_' = t /\ nodes' = n /\ unique_nodes' = unique_nodes /\ cleared' = cleared
    BY <1>2, <1>12 DEF Avl!vars
  <2> QED
    BY <1>2, <1>3, <1>5, <1>6, <2>1, Zenon
<1> QED
  BY <1>7, <1>9, <1>10, <1>11, <1>12, Zenon DEF Avl!Next

\* The invariant says what is checked of the tree and its counters.
LEMMA AvlImplied ==
  ASSUME Avl!AvlAssumption, AvlInv
  PROVE  AvlSound
<1>1. Good(data_) /\ MaxNodes \in Nat
  BY LevelsBuilt DEF AvlInv
<1>2. data_ = Avl!Null \/ data_ \in Node(Avl!Tree)
  BY <1>1, TreeShape DEF Good
<1>3. data_ = Avl!Null \/ DOMAIN data_ = {"value", "depth", "ref", "left", "right"}
  BY <1>2 DEF Node
<1>4. PICK o, p : o = Avl!Occurrences(data_) /\ p = Cardinality(Held(data_))
  OBVIOUS
<1>5. o \in Nat /\ p \in Nat /\ p <= o
  BY <1>1, <1>4, AvlNumbers
<1>6. /\ nodes \in 0 .. MaxNodes /\ unique_nodes \in Nat /\ o <= nodes /\ p <= unique_nodes
      /\ unique_nodes - p <= nodes - o
  BY <1>4 DEF AvlInv
<1>7. unique_nodes \in 0 .. nodes
  BY <1>1, <1>5, <1>6
<1>8. Avl!TypeOK
  BY <1>3, <1>6, <1>7, Zenon DEF AvlInv, Avl!TypeOK
<1>9. Avl!Sound
  BY <1>1 DEF Good, Avl!Sound
<1>10. Avl!CountersAccurate
  <2>1. \A S : Avl!Cardinality(S) = Cardinality(S)
    BY DEF Avl!Cardinality, Cardinality
  <2>2. Avl!Present = Held(data_)
    BY DEF Avl!Present, Held
  <2> QED
    BY <2>1, <2>2, Zenon DEF AvlInv, Avl!CountersAccurate
<1> QED
  BY <1>8, <1>9, <1>10 DEF AvlSound

\* After any insertions, removals and clear() the tree is ordered and balanced, its stored
\* depths are right, and until clear() its counters are (AVL::insert, remove, drop, clear).
THEOREM AvlIsSound == Avl!Spec => []AvlSound
<1>1. Avl!AvlAssumption
  BY FlatAssumption
<1>2. Avl!Init => AvlInv
  BY <1>1, AvlInitially
<1>3. AvlInv /\ [Avl!Next]_(Avl!vars) => AvlInv'
  BY <1>1, AvlStep
<1>4. AvlInv => AvlSound
  BY <1>1, AvlImplied
<1> QED
  BY <1>2, <1>3, <1>4, PTL DEF Avl!Spec

-----------------------------------------------------------------------------
(* AVL: a multiset *)

\* The occurrences of each value
Contents(t) == [v \in Values |-> Avl!Find(t, v)]

\* The tree starts as a multiset of nothing, or of one value.
LEMMA CountedInitially ==
  ASSUME Avl!AvlAssumption, Avl!Init
  PROVE  Avl!Counting!Init
<1>1. \A v : Avl!Find(Avl!Null, v) = 0
  BY FindSteps
<1>2. CASE data_ = Avl!Null
  <2>1. [v \in Values |-> Avl!Find(data_, v)] = [v \in Values |-> IF v \in {} THEN 1 ELSE 0]
    BY <1>1, <1>2
  <2>2. {} \in SUBSET Values /\ \A v, w \in {} : v = w
    OBVIOUS
  <2> QED
    BY <2>1, <2>2 DEF Avl!Counting!Init
<1>3. ASSUME NEW u \in Values, data_ = Avl!NewNode(u) PROVE Avl!Counting!Init
  <2>1. Values \subseteq Int
    BY LevelsBuilt
  <2>2. Grown(Avl!Null, u, data_)
    BY <1>3, InsertedFirst
  <2>3. ASSUME NEW v \in Values PROVE Avl!Find(data_, v) = IF v \in {u} THEN 1 ELSE 0
    <3>1. Avl!Find(data_, v) = Avl!Find(Avl!Null, v) + Alone(u, 1, v)
      BY <2>1, <2>2 DEF Grown
    <3> QED
      BY <1>1, <3>1 DEF Alone
  <2>4. [v \in Values |-> Avl!Find(data_, v)] = [v \in Values |-> IF v \in {u} THEN 1 ELSE 0]
    BY <2>3
  <2>5. {u} \in SUBSET Values /\ \A v, w \in {u} : v = w
    OBVIOUS
  <2> QED
    BY <2>4, <2>5 DEF Avl!Counting!Init
<1> QED
  BY <1>2, <1>3 DEF Avl!Init

\* Every call of the tree is the same call of the multiset.
LEMMA CountedCalls ==
  ASSUME Avl!AvlAssumption, AvlInv
  PROVE  Avl!CallsCount
<1>1. MaxNodes \in Nat \ {0} /\ Values \subseteq Int
  BY LevelsBuilt
<1>2. PICK t, m : t = data_ /\ m = data_'
  OBVIOUS
<1>3. Good(t)
  BY <1>2 DEF AvlInv
<1>4. /\ t \in Avl!Tree /\ t.depth \in Nat /\ t.depth <= Avl!Occurrences(t)
      /\ Avl!Occurrences(t) \in Nat /\ \A v \in Values : Avl!Find(t, v) \in Nat
  BY <1>3, AvlNumbers
<1>5. PICK c, e : c = Contents(t) /\ e = Contents(m)
  OBVIOUS
<1>6. /\ c = [v \in Values |-> c[v]] /\ e = [v \in Values |-> e[v]]
      /\ \A v \in Values : c[v] = Avl!Find(t, v) /\ e[v] = Avl!Find(m, v)
  BY <1>5 DEF Contents
<1>7. /\ c = [v \in Values |-> Avl!Find(data_, v)] /\ e = [v \in Values |-> Avl!Find(data_', v)]
      /\ Contents(data_) = c /\ Contents(data_)' = e
  BY <1>2, <1>5 DEF Contents
<1>8. ASSUME NEW u \in Values, Avl!Insert(u) PROVE Avl!Counting!Insert(u)
  <2>1. m = IF data_ = Avl!Null THEN Avl!NewNode(u) ELSE Avl!NodeInsert(data_, u)
    BY <1>2, <1>8 DEF Avl!Insert
  <2>2. t.depth < MaxNodes
    <3>1. nodes < MaxNodes /\ nodes \in 0 .. MaxNodes /\ Avl!Occurrences(t) <= nodes
      BY <1>2, <1>8 DEF AvlInv, Avl!Insert
    <3> QED
      BY <1>1, <1>4, <3>1
  <2>3. Grown(t, u, m)
    BY <1>2, <1>3, <2>1, <2>2, InsertedRoot
  <2>4. ASSUME NEW v \in Values PROVE e[v] = IF v = u THEN c[u] + 1 ELSE c[v]
    <3>1. Avl!Find(m, v) = Avl!Find(t, v) + Alone(u, 1, v)
      BY <1>1, <2>3 DEF Grown
    <3> QED
      BY <1>4, <1>6, <3>1 DEF Alone
  <2>5. e = [c EXCEPT ![u] = @ + 1]
    BY <1>6, <2>4
  <2> QED
    BY <1>7, <2>5 DEF Avl!Counting!Insert
<1>9. ASSUME NEW u \in Values, NEW d, Shrunk(t, u, d, m)
      PROVE  d \in 0 .. c[u] /\ e = [c EXCEPT ![u] = c[u] - d]
  <2>1. d \in 0 .. c[u]
    BY <1>3, <1>6, <1>9, HeldShrunk
  <2>2. ASSUME NEW v \in Values PROVE e[v] = IF v = u THEN c[u] - d ELSE c[v]
    <3>1. Avl!Find(t, v) = Avl!Find(m, v) + Alone(u, d, v) /\ Avl!Find(m, v) \in Nat
      BY <1>1, <1>9, Counts DEF Shrunk
    <3> QED
      BY <1>4, <1>6, <2>1, <3>1 DEF Alone
  <2>3. e = [c EXCEPT ![u] = c[u] - d]
    BY <1>6, <2>2
  <2> QED
    BY <2>1, <2>3
<1>10. ASSUME NEW u \in Values, Avl!Remove(u) PROVE Avl!Counting!Remove(u)
  <2>1. m = Avl!NodeRemove(t, u, TRUE)
    BY <1>2, <1>10 DEF Avl!Remove
  <2>2. PICK d : d = IF TRUE /\ Avl!Find(t, u) > 1 THEN 1 ELSE Avl!Find(t, u)
    OBVIOUS
  <2>3. Shrunk(t, u, d, m)
    <3>1. TRUE \in BOOLEAN
      OBVIOUS
    <3>2. Amount(t, u, TRUE) = d
      BY <2>2, Zenon DEF Amount
    <3> QED
      BY <1>3, <1>4, <2>1, <3>1, <3>2, Removal, Zenon
  <2>4. c[u] \in Nat /\ d = IF c[u] > 1 THEN 1 ELSE c[u]
    BY <1>4, <1>6, <2>2
  <2>5. c[u] - d = IF c[u] = 0 THEN 0 ELSE c[u] - 1
    BY <2>4
  <2>6. e = [c EXCEPT ![u] = IF @ = 0 THEN 0 ELSE @ - 1]
    BY <1>9, <2>3, <2>5
  <2> QED
    BY <1>7, <2>6 DEF Avl!Counting!Remove
<1>11. ASSUME NEW u \in Values, Avl!Drop(u) PROVE Avl!Counting!Drop(u)
  <2>1. m = Avl!NodeRemove(t, u, FALSE)
    BY <1>2, <1>11 DEF Avl!Drop
  <2>2. Shrunk(t, u, c[u], m)
    <3>1. FALSE \in BOOLEAN
      OBVIOUS
    <3>2. Amount(t, u, FALSE) = c[u]
      <4>1. Avl!Find(t, u) = c[u]
        BY <1>6
      <4> QED
        BY <4>1, Zenon DEF Amount
    <3> QED
      BY <1>3, <1>4, <2>1, <3>1, <3>2, Removal, Zenon
  <2>3. c[u] \in Nat /\ c[u] - c[u] = 0
    BY <1>4, <1>6
  <2>4. e = [c EXCEPT ![u] = 0]
    BY <1>9, <2>2, <2>3
  <2> QED
    BY <1>7, <2>4 DEF Avl!Counting!Drop
<1>12. ASSUME Avl!Clear PROVE Avl!Counting!Clear
  <2>1. m = Avl!Null
    BY <1>2, <1>12 DEF Avl!Clear
  <2>2. \A v : Avl!Find(Avl!Null, v) = 0
    BY FindSteps
  <2>3. e = [v \in Values |-> 0]
    BY <1>6, <2>1, <2>2
  <2> QED
    BY <1>7, <2>3 DEF Avl!Counting!Clear
<1> QED
  BY <1>8, <1>10, <1>11, <1>12, Zenon DEF Avl!CallsCount

LEMMA CountedStep ==
  ASSUME Avl!AvlAssumption, AvlInv, [Avl!Next]_(Avl!vars)
  PROVE  [Avl!Counting!Next]_(Contents(data_))
<1>1. Avl!CallsCount
  BY CountedCalls
<1>2. ASSUME UNCHANGED Avl!vars PROVE UNCHANGED Contents(data_)
  BY <1>2 DEF Avl!vars, Contents
<1>3. CASE Avl!Clear
  BY <1>1, <1>3, Zenon DEF Avl!CallsCount, Avl!Counting!Next
<1>4. ASSUME NEW v \in Values, Avl!Insert(v) \/ Avl!Remove(v) \/ Avl!Drop(v)
      PROVE  Avl!Counting!Next
  <2>1. Avl!Counting!Insert(v) \/ Avl!Counting!Remove(v) \/ Avl!Counting!Drop(v)
    BY <1>1, <1>4, Zenon DEF Avl!CallsCount
  <2> QED
    BY <2>1, Zenon DEF Avl!Counting!Next
<1> QED
  BY <1>2, <1>3, <1>4, Zenon DEF Avl!Next

\* The tree is a multiset, call by call: insert(v) adds one occurrence of v, remove(v) takes
\* one, drop(v) all and clear() everything; no rotation and no removal of an inner node
\* loses, doubles or swaps the occurrences of another value (AVL::insert, remove, drop,
\* clear, find).  So the tree implements the specification of a multiset.
THEOREM AvlImplementsMultiset == Avl!Spec => Avl!Counting!Spec /\ CountsOccurrences
<1>1. Avl!AvlAssumption
  BY FlatAssumption
<1>2. Avl!Init => AvlInv /\ Avl!Counting!Init
  BY <1>1, AvlInitially, CountedInitially
<1>3. AvlInv /\ [Avl!Next]_(Avl!vars) => AvlInv'
  BY <1>1, AvlStep
<1>4. AvlInv /\ [Avl!Next]_(Avl!vars) => [Avl!Counting!Next]_(Contents(data_))
  BY <1>1, CountedStep
<1>5. AvlInv => (Avl!vars' # Avl!vars => Avl!CallsCount)
  BY <1>1, CountedCalls
<1> QED
  BY <1>2, <1>3, <1>4, <1>5, PTL
  DEF Avl!Spec, CountsOccurrences, Avl!CountsOccurrences, Avl!Counting!Spec, Contents
=============================================================================
