---------------------------- MODULE MovingAverage ----------------------------
(***************************************************************************)
(* The averages of src/math: the SimpleMovingAverage of the last samples,  *)
(* its optimized variant, and the CumulativeAverage of all of them.  The   *)
(* type T is an integer, signed or not.  A double is exact here: value_ is *)
(* total divided by the number of items.                                   *)
(***************************************************************************)
EXTENDS Integers, Sequences

CONSTANTS
  Samples,        \* what put() may be given
  window_size_,
  Modulus,        \* 2 ^ w, for the width w of T
  SizeModulus,    \* the same for size_t
  MaxSamples      \* bound: calls of put()

\* With a window of no items get() divides by zero; a T wider than size_t would be converted
\* the other way round
AverageAssumption ==
  /\ Samples \subseteq Int
  /\ window_size_ \in Nat \ {0} /\ MaxSamples \in Nat
  /\ Modulus \in Nat \ {0} /\ Modulus % 2 = 0
  /\ SizeModulus \in Nat /\ Modulus <= SizeModulus

VARIABLES
  signed,         \* is T signed?
  items_,         \* SimpleMovingAverage::items_
  total,          \* SMA_Optimized::value_ times the number of items
  ca_, n_,        \* CumulativeAverage: a fraction, the number of samples
  all,            \* history: all samples
  wrapped         \* history: a sample was smaller than the unsigned one it replaced

vars == <<signed, items_, total, ca_, n_, all, wrapped>>

Sum(s) == LET upTo[k \in 0 .. Len(s)] == IF k = 0 THEN 0 ELSE upTo[k - 1] + s[k]
          IN  upTo[Len(s)]

\* The conversion to T
AsT(x) == LET r == x % Modulus IN IF signed /\ 2 * r >= Modulus THEN r - Modulus ELSE r

\* Division of a double that is converted to T, towards zero
Quotient(a, b) == IF a < 0 THEN -((-a) \div b) ELSE a \div b

Init ==
  /\ signed \in BOOLEAN
  /\ items_ = <<>> /\ total = 0
  /\ ca_ = <<0, 1>> /\ n_ = 0
  /\ all = <<>> /\ wrapped = FALSE

\* SimpleMovingAverage::get(): the sum is converted to size_t for the division
Get ==
  LET n == Len(items_)
      by == IF n # 0 /\ n < window_size_ THEN n ELSE window_size_
  IN  AsT((AsT(Sum(items_)) % SizeModulus) \div by)

OptimizedGet == IF items_ = <<>> THEN 0 ELSE Quotient(total, Len(items_))

\* Mutant of Slide: one sample too many stays in the window
SlideLate(items) == IF Len(items) > window_size_ + 1 THEN Tail(items) ELSE items

\* put(): the oldest sample leaves a full window
Slide(items) == IF Len(items) > window_size_ THEN Tail(items) ELSE items

\* SMA_Optimized::put(): a window that is filling up is summed; one that is full changes
\* by the difference, which is taken in T
NextTotal(v) ==
  IF Len(items_) < window_size_ THEN Sum(Append(items_, v))
  ELSE total + (IF signed THEN v - Head(items_) ELSE AsT(v - Head(items_)))

\* CumulativeAverage::put(): ca_ + (v - ca_) / n_
NextAverage(v) ==
  LET p == ca_[1]  q == ca_[2]  n == n_ + 1 IN <<p * n + (v * q - p), q * n>>

Put(v) ==
  /\ n_ < MaxSamples
  /\ v = AsT(v)
  /\ items_' = Slide(Append(items_, v))
  /\ total' = NextTotal(v)
  /\ ca_' = NextAverage(v) /\ n_' = n_ + 1
  /\ all' = Append(all, v)
  /\ wrapped' = (wrapped \/ (~signed /\ Len(items_) = window_size_ /\ v < Head(items_)))
  /\ UNCHANGED signed

Next == \E v \in Samples : Put(v)

Spec == Init /\ [][Next]_vars

-----------------------------------------------------------------------------
(* Properties *)

TypeOK ==
  /\ signed \in BOOLEAN /\ wrapped \in BOOLEAN
  /\ items_ \in Seq(Samples) /\ Len(items_) <= window_size_
  /\ n_ \in 0 .. MaxSamples /\ total \in Int

Recent == SubSeq(all, IF Len(all) > window_size_ THEN Len(all) - window_size_ + 1 ELSE 1, Len(all))
Mean(s) == IF s = <<>> THEN 0 ELSE Quotient(Sum(s), Len(s))

\* get() is the mean of the last window_size_ samples, unless their sum is negative or no T;
\* that of the optimized variant is, unless an unsigned sample has ever been smaller than the
\* one it replaced; the cumulative average is the mean of all samples (put, get).
AveragesRight ==
  /\ Sum(Recent) >= 0 /\ AsT(Sum(Recent)) = Sum(Recent) => Get = Mean(Recent)
  /\ ~wrapped => OptimizedGet = Mean(Recent)
  /\ n_ > 0 => Quotient(ca_[1], ca_[2]) = Mean(all)
=============================================================================
