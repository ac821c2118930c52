------------------------------- MODULE Totals -------------------------------
(***************************************************************************)
(* Totals of sequences of naturals, and the induction they rest on: what a  *)
(* total is after the sequence grew, was taken from, or was cut.            *)
(***************************************************************************)
EXTENDS Tally, Integers, WellFoundedInduction, TLAPS

-----------------------------------------------------------------------------
(* Induction over a set of numbers, which no prover need instantiate.        *)

\* A set of naturals has a least member.
LEMMA Smallest ==
  ASSUME NEW T, T \subseteq Nat, T # {}
  PROVE  \E m \in T : \A n \in T : m <= n
  <1> DEFINE R == OpToRel(<, Nat)
  <1>1. IsWellFoundedOn(R, Nat)
    BY NatLessThanWellFounded
  <1>2. \A m, n \in Nat : m < n => <<m, n>> \in R
    BY DEF OpToRel
  <1> HIDE DEF R
  <1>3. PICK m \in T : \A n \in T : ~(<<n, m>> \in R)
    BY <1>1, WFMin, Zenon
  <1>4. \A n \in T : ~(n < m)
    BY <1>2, <1>3
  <1> QED BY <1>4

LEMMA Induction ==
  ASSUME NEW S, 0 \in S, \A n \in Nat : n \in S => n + 1 \in S
  PROVE  Nat \subseteq S
  <1> DEFINE T == Nat \ S
  <1>1. SUFFICES ASSUME T # {} PROVE FALSE
    OBVIOUS
  <1>2. PICK m \in T : \A n \in T : m <= n
    <2>1. T \subseteq Nat OBVIOUS
    <2> HIDE DEF T
    <2> QED BY <1>1, <2>1, Smallest
  <1>3. m - 1 \in Nat /\ m - 1 \notin T
    BY <1>2
  <1> QED BY <1>2, <1>3

-----------------------------------------------------------------------------
(* Running totals.                                                           *)

\* f is the running total of seq.
Sums(f, seq) ==
  /\ f \in [0..Len(seq) -> Nat]
  /\ f[0] = 0
  /\ \A i \in 1..Len(seq) : f[i] = f[i - 1] + seq[i]

\* There is one,
LEMMA SumsExist ==
  ASSUME NEW seq \in Seq(Nat)
  PROVE  \E f : Sums(f, seq)
  <1> DEFINE Part(f, n) == /\ f \in [0..n -> Nat] /\ f[0] = 0
                           /\ \A i \in 1..n : f[i] = f[i - 1] + seq[i]
             Has(n) == n <= Len(seq) => \E f : Part(f, n)
             S == {n \in Nat : Has(n)}
  <1>1. Has(0)
    <2>1. Part([i \in 0..0 |-> 0], 0)
      OBVIOUS
    <2> HIDE DEF Part
    <2> QED BY <2>1
  <1>2. ASSUME NEW n \in Nat, Has(n) PROVE Has(n + 1)
    <2> SUFFICES ASSUME n + 1 <= Len(seq) PROVE \E f : Part(f, n + 1)
      OBVIOUS
    <2>1. PICK f : Part(f, n)
      <3> HIDE DEF Part
      <3> QED BY <1>2
    <2> DEFINE g == [i \in 0..n + 1 |-> IF i = n + 1 THEN f[n] + seq[n + 1] ELSE f[i]]
    <2>2. seq[n + 1] \in Nat /\ f[n] \in Nat
      BY <2>1
    <2>3. g \in [0..n + 1 -> Nat] /\ g[0] = 0
      BY <2>1, <2>2
    <2>4. ASSUME NEW i \in 1..n + 1 PROVE g[i] = g[i - 1] + seq[i]
      <3>1. CASE i = n + 1
        BY <3>1
      <3>2. CASE i \in 1..n
        BY <2>1, <3>2
      <3> QED BY <3>1, <3>2
    <2> HIDE DEF g
    <2>5. Part(g, n + 1)
      BY <2>3, <2>4
    <2> HIDE DEF Part
    <2> QED BY <2>5
  <1> HIDE DEF Part
  <1>3. Has(Len(seq))
    <2> HIDE DEF Has
    <2>1. 0 \in S /\ \A n \in Nat : n \in S => n + 1 \in S
      BY <1>1, <1>2
    <2>2. Nat \subseteq S
      <3> HIDE DEF S
      <3> QED BY <2>1, Induction
    <2> QED BY <2>2
  <1>4. PICK f : Part(f, Len(seq))
    BY <1>3
  <1>5. Sums(f, seq)
    BY <1>4 DEF Part, Sums
  <1> QED BY <1>5

\* and only one,
LEMMA SumsUnique ==
  ASSUME NEW seq \in Seq(Nat), NEW f, NEW g, Sums(f, seq), Sums(g, seq)
  PROVE  f = g
  <1> DEFINE S == {n \in Nat : n <= Len(seq) => f[n] = g[n]}
  <1>1. 0 \in S
    BY DEF Sums
  <1>2. ASSUME NEW n \in Nat, n \in S PROVE n + 1 \in S
    <2> SUFFICES ASSUME n + 1 <= Len(seq) PROVE f[n + 1] = g[n + 1]
      OBVIOUS
    <2>1. n + 1 \in 1..Len(seq) /\ (n + 1) - 1 = n /\ f[n] = g[n]
      BY <1>2
    <2>2. f[n + 1] = f[(n + 1) - 1] + seq[n + 1] /\ g[n + 1] = g[(n + 1) - 1] + seq[n + 1]
      BY <2>1 DEF Sums
    <2> QED BY <2>1, <2>2
  <1>3. Nat \subseteq S
    <2> HIDE DEF S
    <2> QED BY <1>1, <1>2, Induction
  <1>4. \A n \in 0..Len(seq) : f[n] = g[n]
    BY <1>3
  <1> QED BY <1>4 DEF Sums

\* and the total is where it ends.
LEMMA TotalIsSum ==
  ASSUME NEW seq \in Seq(Nat), NEW f, Sums(f, seq)
  PROVE  Total(seq) = f[Len(seq)]
  <1> DEFINE Step(g) == [i \in 0..Len(seq) |-> IF i = 0 THEN 0 ELSE g[i - 1] + seq[i]]
             upto == CHOOSE g : g = Step(g)
  <1>1. f = Step(f)
    BY DEF Sums
  <1>2. upto = Step(upto)
    <2> HIDE DEF Step
    <2> QED BY <1>1, Zenon
  <1>3. Sums(upto, seq)
    <2> HIDE DEF upto
    <2> DEFINE S == {n \in Nat : n <= Len(seq) => upto[n] \in Nat}
    <2>0. ASSUME NEW i \in 0..Len(seq)
          PROVE  upto[i] = IF i = 0 THEN 0 ELSE upto[i - 1] + seq[i]
      BY <1>2
    <2>1. 0 \in S
      BY <2>0
    <2>2. ASSUME NEW n \in Nat, n \in S PROVE n + 1 \in S
      <3> SUFFICES ASSUME n + 1 <= Len(seq) PROVE upto[n + 1] \in Nat
        OBVIOUS
      <3>1. n + 1 \in 0..Len(seq) /\ n + 1 # 0 /\ (n + 1) - 1 = n /\ upto[n] \in Nat
            /\ seq[n + 1] \in Nat
        BY <2>2
      <3>2. upto[n + 1] = upto[(n + 1) - 1] + seq[n + 1]
        BY <2>0, <3>1
      <3> QED BY <3>1, <3>2
    <2>3. Nat \subseteq S
      <3> HIDE DEF S
      <3> QED BY <2>1, <2>2, Induction
    <2>4. \A i \in 0..Len(seq) : upto[i] \in Nat
      BY <2>3
    <2>5. upto[0] = 0 /\ \A i \in 1..Len(seq) : upto[i] = upto[i - 1] + seq[i]
      BY <2>0
    <2>6. upto \in [0..Len(seq) -> Nat]
      <3>1. \E h : upto = [i \in 0..Len(seq) |-> h[i]]
        BY <1>2
      <3> QED BY <2>4, <3>1
    <2> QED BY <2>4, <2>5, <2>6 DEF Sums
  <1>4. upto = f
    <2> HIDE DEF upto
    <2> QED BY <1>3, SumsUnique
  <1>5. Total(seq) = upto[Len(seq)]
    BY DEF Total
  <1> HIDE DEF upto
  <1> QED BY <1>4, <1>5

\* The total of nothing.
LEMMA TotalEmpty == Total(<<>>) = 0
  <1>1. Sums([i \in 0..0 |-> 0], <<>>)
    BY DEF Sums
  <1> QED BY <1>1, TotalIsSum

LEMMA TotalZeros ==
  ASSUME NEW n \in Nat
  PROVE  Total([i \in 1..n |-> 0]) = 0
  <1> DEFINE seq == [i \in 1..n |-> 0]
             f == [i \in 0..n |-> 0]
  <1>1. /\ seq \in Seq(Nat) /\ Len(seq) = n /\ (\A i \in 1..n : seq[i] = 0)
        /\ f \in [0..n -> Nat] /\ (\A i \in 0..n : f[i] = 0)
    OBVIOUS
  <1> HIDE DEF seq, f
  <1>2. Sums(f, seq) /\ f[Len(seq)] = 0
    BY <1>1 DEF Sums
  <1>3. Total(seq) = 0
    BY <1>1, <1>2, TotalIsSum
  <1> QED BY <1>3 DEF seq

LEMMA TotalNat ==
  ASSUME NEW seq \in Seq(Nat)
  PROVE  Total(seq) \in Nat
  <1>1. PICK f : Sums(f, seq)
    BY SumsExist
  <1>2. f[Len(seq)] \in Nat
    BY <1>1 DEF Sums
  <1> QED BY <1>1, <1>2, TotalIsSum

\* A sequence that grows by n.
LEMMA TotalAppend ==
  ASSUME NEW seq \in Seq(Nat), NEW n \in Nat
  PROVE  Total(Append(seq, n)) = Total(seq) + n
  <1> DEFINE s == Append(seq, n)
  <1>1. PICK f : Sums(f, seq)
    BY SumsExist
  <1> DEFINE g == [i \in 0..Len(s) |-> IF i = Len(s) THEN f[Len(seq)] + n ELSE f[i]]
  <1>2. /\ s \in Seq(Nat) /\ Len(s) = Len(seq) + 1 /\ Len(seq) \in Nat
        /\ s[Len(s)] = n /\ \A i \in 1..Len(seq) : s[i] = seq[i]
    OBVIOUS
  <1> HIDE DEF s
  <1>3. g \in [0..Len(s) -> Nat] /\ g[0] = 0 /\ g[Len(s)] = f[Len(seq)] + n
    <2>1. (\A i \in 0..Len(seq) : f[i] \in Nat) /\ f[0] = 0
      BY <1>1 DEF Sums
    <2>2. \A i \in 0..Len(s) : i # Len(s) => i \in 0..Len(seq)
      BY <1>2
    <2>3. Len(s) \in Nat /\ 0 # Len(s) /\ 0 \in 0..Len(s) /\ Len(s) \in 0..Len(s)
          /\ Len(seq) \in 0..Len(seq)
      BY <1>2
    <2>4. f[Len(seq)] + n \in Nat
      <3>1. f[Len(seq)] \in Nat
        BY <2>1, <2>3
      <3> QED BY <3>1
    <2>5. ASSUME NEW i \in 0..Len(s)
          PROVE  (IF i = Len(s) THEN f[Len(seq)] + n ELSE f[i]) \in Nat
      BY <2>1, <2>2, <2>4, Zenon
    <2>6. g \in [0..Len(s) -> Nat]
      BY <2>5
    <2>7. g[0] = f[0] /\ g[Len(s)] = f[Len(seq)] + n
      BY <2>3, Zenon
    <2> QED BY <2>1, <2>6, <2>7
  <1>4. ASSUME NEW i \in 1..Len(s) PROVE g[i] = g[i - 1] + s[i]
    <2>1. CASE i = Len(s)
      BY <1>2, <2>1
    <2>2. CASE i \in 1..Len(seq)
      <3>1. f[i] = f[i - 1] + seq[i]
        BY <1>1, <2>2 DEF Sums
      <3> QED BY <1>2, <2>2, <3>1
    <2> QED BY <1>2, <2>1, <2>2
  <1> HIDE DEF g
  <1>5. Sums(g, s)
    BY <1>3, <1>4 DEF Sums
  <1>6. Total(s) = g[Len(s)] /\ Total(seq) = f[Len(seq)]
    BY <1>1, <1>2, <1>5, TotalIsSum
  <1> QED BY <1>3, <1>6 DEF s

\* The first member and the rest.
LEMMA TotalTail ==
  ASSUME NEW seq \in Seq(Nat), seq # <<>>
  PROVE  Total(seq) = Head(seq) + Total(Tail(seq))
  <1> DEFINE t == Tail(seq)
  <1>1. /\ t \in Seq(Nat) /\ Len(seq) = Len(t) + 1 /\ Len(t) \in Nat
        /\ \A i \in 1..Len(t) : t[i] = seq[i + 1]
        /\ Head(seq) = seq[1] /\ seq[1] \in Nat
    OBVIOUS
  <1> HIDE DEF t
  <1>2. PICK g : Sums(g, t)
    BY <1>1, SumsExist
  <1> DEFINE f == [i \in 0..Len(seq) |-> IF i = 0 THEN 0 ELSE seq[1] + g[i - 1]]
  <1>3. \A i \in 0..Len(t) : g[i] \in Nat
    BY <1>2 DEF Sums
  <1>4. f \in [0..Len(seq) -> Nat] /\ f[0] = 0
    <2>1. ASSUME NEW i \in 0..Len(seq), i # 0 PROVE seq[1] + g[i - 1] \in Nat
      <3>1. i - 1 \in 0..Len(t)
        BY <1>1, <2>1
      <3>2. g[i - 1] \in Nat
        BY <1>3, <3>1
      <3>3. seq[1] \in Nat
        BY <1>1
      <3> HIDE DEF f
      <3> QED BY <3>2, <3>3
    <2> QED BY <2>1
  <1>5. ASSUME NEW i \in 1..Len(seq) PROVE f[i] = f[i - 1] + seq[i]
    <2>1. CASE i = 1
      <3>1. g[0] = 0
        BY <1>2 DEF Sums
      <3>2. f[1] = seq[1] + g[0] /\ f[0] = 0
        BY <2>1
      <3> QED BY <1>1, <2>1, <3>1, <3>2
    <2>2. CASE i # 1
      <3> DEFINE j == i - 1
      <3>1. j \in 1..Len(t) /\ j + 1 = i /\ j - 1 \in 0..Len(t) /\ j \in 0..Len(t)
        BY <1>1, <2>2
      <3>2. f[i] = seq[1] + g[j] /\ f[i - 1] = seq[1] + g[j - 1]
        BY <2>2, <3>1
      <3>3. seq[i] = t[j]
        BY <1>1, <3>1
      <3> HIDE DEF j, f
      <3>4. g[j] = g[j - 1] + t[j]
        BY <1>2, <3>1 DEF Sums
      <3>5. t[j] \in Nat /\ g[j] \in Nat /\ g[j - 1] \in Nat
        <4>1. t \in Seq(Nat)
          BY <1>1
        <4>2. t[j] \in Nat
          BY <3>1, <4>1
        <4> QED BY <1>3, <3>1, <4>2, Zenon
      <3> QED BY <1>1, <3>2, <3>3, <3>4, <3>5
    <2> QED BY <2>1, <2>2
  <1>6. f[Len(seq)] = seq[1] + g[Len(t)]
    BY <1>1
  <1> HIDE DEF f
  <1>7. Sums(f, seq)
    BY <1>4, <1>5 DEF Sums
  <1>8. Total(t) = g[Len(t)] /\ Total(seq) = f[Len(seq)]
    BY <1>1, <1>2, <1>7, TotalIsSum
  <1> QED BY <1>1, <1>6, <1>8 DEF t

\* What is left of a sequence that is cut.
LEMMA TotalPrefix ==
  ASSUME NEW seq \in Seq(Nat), NEW n \in 0..Len(seq)
  PROVE  Total(SubSeq(seq, 1, n)) <= Total(seq)
  <1> DEFINE p == SubSeq(seq, 1, n)
  <1>1. PICK f : Sums(f, seq)
    BY SumsExist
  <1> DEFINE g == [i \in 0..n |-> f[i]]
             S == {i \in Nat : n + i <= Len(seq) => f[n] <= f[n + i]}
  <1>2. p \in Seq(Nat) /\ Len(p) = n /\ \A i \in 1..n : p[i] = seq[i]
    OBVIOUS
  <1> HIDE DEF p, g, S
  <1>f. /\ \A i \in 0..Len(seq) : f[i] \in Nat
        /\ f[0] = 0
        /\ \A i \in 1..Len(seq) : f[i] = f[i - 1] + seq[i]
        /\ \A i \in 1..Len(seq) : seq[i] \in Nat
    <2>1. \A i \in 0..Len(seq) : f[i] \in Nat
      BY <1>1 DEF Sums
    <2>2. f[0] = 0 /\ \A i \in 1..Len(seq) : f[i] = f[i - 1] + seq[i]
      BY <1>1 DEF Sums
    <2>3. \A i \in 1..Len(seq) : seq[i] \in Nat
      OBVIOUS
    <2> QED BY <2>1, <2>2, <2>3
  <1> USE DEF g, S
  <1>3. Sums(g, p)
    <2>1. g \in [0..n -> Nat] /\ g[0] = 0
      BY <1>f
    <2>2. ASSUME NEW i \in 1..n PROVE g[i] = g[i - 1] + p[i]
      <3>1. g[i] = f[i] /\ g[i - 1] = f[i - 1] /\ i \in 1..Len(seq)
        OBVIOUS
      <3> QED BY <1>2, <1>f, <3>1
    <2> HIDE DEF g
    <2> QED BY <1>2, <2>1, <2>2 DEF Sums
  <1>4. f[n] <= f[Len(seq)]
    <2>1. 0 \in S
      BY <1>f
    <2>2. ASSUME NEW i \in Nat, i \in S PROVE i + 1 \in S
      <3> SUFFICES ASSUME n + (i + 1) <= Len(seq) PROVE f[n] <= f[n + (i + 1)]
        OBVIOUS
      <3> DEFINE j == n + (i + 1)
      <3>1. j \in 1..Len(seq) /\ j - 1 = n + i /\ n \in 0..Len(seq) /\ j - 1 \in 0..Len(seq)
        OBVIOUS
      <3>2. f[n] <= f[n + i]
        BY <2>2
      <3> HIDE DEF j
      <3>3. f[j] = f[j - 1] + seq[j] /\ seq[j] \in Nat /\ f[j - 1] \in Nat /\ f[n] \in Nat
        BY <1>f, <3>1
      <3>4. f[n] <= f[j]
        BY <3>1, <3>2, <3>3
      <3> QED BY <3>4 DEF j
    <2>3. Nat \subseteq S
      <3> HIDE DEF S
      <3> QED BY <2>1, <2>2, Induction
    <2>4. Len(seq) - n \in S
      BY <2>3
    <2> QED BY <2>4
  <1>5. Total(p) = f[n] /\ Total(seq) = f[Len(seq)]
    <2>1. g[n] = f[n]
      OBVIOUS
    <2> HIDE DEF g
    <2> QED BY <1>1, <1>2, <1>3, <2>1, TotalIsSum
  <1> QED BY <1>4, <1>5 DEF p

\* A sequence of which one member becomes another.
LEMMA TotalExcept ==
  ASSUME NEW seq \in Seq(Nat), NEW k \in 1..Len(seq), NEW n \in Nat
  PROVE  Total([seq EXCEPT ![k] = n]) + seq[k] = Total(seq) + n
  <1> DEFINE s == [seq EXCEPT ![k] = n]
  <1>1. PICK f : Sums(f, seq)
    BY SumsExist
  <1> DEFINE g == [i \in 0..Len(seq) |-> IF i < k THEN f[i] ELSE (f[i] - seq[k]) + n]
             S == {i \in Nat : k + i <= Len(seq) => f[k + i] >= seq[k]}
  <1>2. /\ s \in Seq(Nat) /\ Len(s) = Len(seq) /\ Len(seq) \in Nat /\ s[k] = n /\ seq[k] \in Nat
        /\ \A i \in 1..Len(seq) : i # k => s[i] = seq[i]
    OBVIOUS
  <1> HIDE DEF s, g, S
  <1>f. /\ \A i \in 0..Len(seq) : f[i] \in Nat
        /\ f[0] = 0
        /\ \A i \in 1..Len(seq) : f[i] = f[i - 1] + seq[i]
        /\ \A i \in 1..Len(seq) : seq[i] \in Nat
    <2>1. \A i \in 0..Len(seq) : f[i] \in Nat
      BY <1>1 DEF Sums
    <2>2. f[0] = 0 /\ \A i \in 1..Len(seq) : f[i] = f[i - 1] + seq[i]
      BY <1>1 DEF Sums
    <2>3. \A i \in 1..Len(seq) : seq[i] \in Nat
      OBVIOUS
    <2> QED BY <2>1, <2>2, <2>3
  <1>3. \A i \in k..Len(seq) : f[i] >= seq[k]
    <2> USE DEF S
    <2>1. 0 \in S
      <3>1. f[k] = f[k - 1] + seq[k] /\ f[k - 1] \in Nat
        BY <1>f
      <3> QED BY <1>2, <3>1
    <2>2. ASSUME NEW i \in Nat, i \in S PROVE i + 1 \in S
      <3> SUFFICES ASSUME k + (i + 1) <= Len(seq) PROVE f[k + (i + 1)] >= seq[k]
        OBVIOUS
      <3> DEFINE j == k + (i + 1)
      <3>1. j \in 1..Len(seq) /\ j - 1 = k + i /\ j - 1 \in 0..Len(seq)
        OBVIOUS
      <3>2. f[k + i] >= seq[k]
        BY <2>2
      <3> HIDE DEF j
      <3>3. f[j] = f[j - 1] + seq[j] /\ seq[j] \in Nat /\ f[j - 1] \in Nat
        BY <1>f, <3>1
      <3>4. f[j] >= seq[k]
        BY <1>2, <3>1, <3>2, <3>3
      <3> QED BY <3>4 DEF j
    <2>3. Nat \subseteq S
      <3> HIDE DEF S
      <3> QED BY <2>1, <2>2, Induction
    <2>4. ASSUME NEW i \in k..Len(seq) PROVE f[i] >= seq[k]
      <3> DEFINE j == i - k
      <3>1. j \in Nat /\ k + j = i /\ i <= Len(seq)
        OBVIOUS
      <3> HIDE DEF j
      <3>2. j \in S
        BY <2>3, <3>1
      <3> QED BY <3>1, <3>2
    <2> QED BY <2>4
  <1>4. g \in [0..Len(seq) -> Nat] /\ g[0] = 0
    <2>1. ASSUME NEW i \in 0..Len(seq)
          PROVE  (IF i < k THEN f[i] ELSE (f[i] - seq[k]) + n) \in Nat
      <3>1. f[i] \in Nat /\ seq[k] \in Nat
        BY <1>2, <1>f
      <3>2. CASE i < k
        BY <3>1, <3>2
      <3>3. CASE ~(i < k)
        <4>1. i \in k..Len(seq)
          BY <3>3
        <4>2. f[i] >= seq[k]
          BY <1>3, <4>1
        <4> QED BY <3>1, <3>3, <4>2
      <3> QED BY <3>2, <3>3
    <2> QED BY <1>f, <2>1 DEF g
  <1>5. ASSUME NEW i \in 1..Len(seq) PROVE g[i] = g[i - 1] + s[i]
    <2>1. /\ g[i] = IF i < k THEN f[i] ELSE (f[i] - seq[k]) + n
          /\ g[i - 1] = IF i - 1 < k THEN f[i - 1] ELSE (f[i - 1] - seq[k]) + n
      BY DEF g
    <2>2. f[i] = f[i - 1] + seq[i] /\ f[i] \in Nat /\ f[i - 1] \in Nat /\ seq[i] \in Nat
      BY <1>f
    <2>3. CASE i = k
      <3>1. g[i] = (f[i] - seq[k]) + n /\ g[i - 1] = f[i - 1]
        BY <2>1, <2>3
      <3>2. seq[i] = seq[k] /\ s[i] = n
        BY <1>2, <2>3
      <3>3. \A a, b \in Nat : ((a + b) - b) + n = a + n
        OBVIOUS
      <3>4. ((f[i - 1] + seq[i]) - seq[i]) + n = f[i - 1] + n
        BY <2>2, <3>3, Zenon
      <3> QED BY <2>2, <3>1, <3>2, <3>4, Zenon
    <2>4. CASE i < k
      BY <1>2, <2>1, <2>2, <2>4
    <2>5. CASE i > k
      <3>1. g[i] = (f[i] - seq[k]) + n /\ g[i - 1] = (f[i - 1] - seq[k]) + n /\ s[i] = seq[i]
        BY <1>2, <2>1, <2>5
      <3>2. f[i] = f[i - 1] + seq[i] /\ f[i - 1] \in Nat /\ seq[i] \in Nat /\ seq[k] \in Nat
        BY <1>2, <2>2
      <3>3. \A a, b, c \in Nat : ((a + b) - c) + n = ((a - c) + n) + b
        OBVIOUS
      <3>4. ((f[i - 1] + seq[i]) - seq[k]) + n = ((f[i - 1] - seq[k]) + n) + seq[i]
        BY <3>2, <3>3, Zenon
      <3> QED BY <3>1, <3>2, <3>4, Zenon
    <2> QED BY <2>3, <2>4, <2>5
  <1>6. Sums(g, s)
    BY <1>2, <1>4, <1>5 DEF Sums
  <1>7. Total(s) = g[Len(seq)] /\ Total(seq) = f[Len(seq)]
    BY <1>1, <1>2, <1>6, TotalIsSum
  <1>8. g[Len(seq)] = (f[Len(seq)] - seq[k]) + n
    BY <1>2 DEF g
  <1>9. f[Len(seq)] \in Nat
    BY <1>2, <1>f
  <1> QED BY <1>2, <1>7, <1>8, <1>9 DEF s

-----------------------------------------------------------------------------
(* What the frames of one kind in a queue carry of one stream.               *)

Weight(frame, kind, s) ==
  IF frame.kind = kind /\ frame.stream = s THEN frame.size ELSE 0

Weights(seq, kind, s) == [i \in 1..Len(seq) |-> Weight(seq[i], kind, s)]

Load(seq, kind, s) == Total(Weights(seq, kind, s))

\* Every one of frames carries a natural number of bytes.
Weighed(frames, kind, s) == \A f \in frames : Weight(f, kind, s) \in Nat

LEMMA WeightsSeq ==
  ASSUME NEW frames, NEW kind, NEW s, Weighed(frames, kind, s), NEW seq \in Seq(frames)
  PROVE  Weights(seq, kind, s) \in Seq(Nat) /\ Len(Weights(seq, kind, s)) = Len(seq)
  <1>1. ASSUME NEW i \in 1..Len(seq) PROVE Weight(seq[i], kind, s) \in Nat
    <2>1. seq[i] \in frames
      OBVIOUS
    <2> QED BY <2>1 DEF Weighed
  <1> QED BY <1>1 DEF Weights

LEMMA LoadNat ==
  ASSUME NEW frames, NEW kind, NEW s, Weighed(frames, kind, s), NEW seq \in Seq(frames)
  PROVE  Load(seq, kind, s) \in Nat
  BY WeightsSeq, TotalNat DEF Load

LEMMA LoadEmpty ==
  ASSUME NEW kind, NEW s
  PROVE  Load(<<>>, kind, s) = 0
  <1>1. Weights(<<>>, kind, s) = <<>>
    BY DEF Weights
  <1> QED BY <1>1, TotalEmpty DEF Load

LEMMA LoadAppend ==
  ASSUME NEW frames, NEW kind, NEW s, Weighed(frames, kind, s),
         NEW seq \in Seq(frames), NEW f \in frames
  PROVE  Load(Append(seq, f), kind, s) = Load(seq, kind, s) + Weight(f, kind, s)
  <1> DEFINE w == Weight(f, kind, s)
             a == Append(seq, f)
  <1>1. w \in Nat
    BY DEF Weighed
  <1>2. Weights(a, kind, s) = Append(Weights(seq, kind, s), w)
    <2>1. /\ Len(a) = Len(seq) + 1 /\ a[Len(seq) + 1] = f /\ Len(seq) \in Nat
          /\ \A i \in 1..Len(seq) : a[i] = seq[i]
      OBVIOUS
    <2> DEFINE p == Weights(a, kind, s)
               q == Append(Weights(seq, kind, s), w)
    <2>2. /\ p \in [1..Len(a) -> {p[i] : i \in 1..Len(a)}]
          /\ \A i \in 1..Len(a) : p[i] = Weight(a[i], kind, s)
      BY DEF Weights
    <2> HIDE DEF w, a
    <2>3. /\ q \in Seq(Nat) /\ Len(q) = Len(seq) + 1 /\ q[Len(seq) + 1] = w
          /\ \A i \in 1..Len(seq) : q[i] = Weights(seq, kind, s)[i]
      BY <1>1, WeightsSeq
    <2>4. \A i \in 1..Len(seq) : Weights(seq, kind, s)[i] = Weight(seq[i], kind, s)
      BY DEF Weights
    <2> HIDE DEF p, q
    <2>5. ASSUME NEW i \in 1..Len(a) PROVE p[i] = q[i]
      <3>1. CASE i = Len(seq) + 1
        BY <2>1, <2>2, <2>3, <3>1 DEF w
      <3>2. CASE i \in 1..Len(seq)
        BY <2>1, <2>2, <2>3, <2>4, <3>2
      <3> QED BY <2>1, <3>1, <3>2
    <2>6. q \in [1..Len(a) -> Nat]
      BY <2>1, <2>3
    <2>7. p = q
      BY <2>2, <2>5, <2>6
    <2> QED BY <2>7 DEF p, q
  <1> HIDE DEF w, a
  <1>3. Total(Append(Weights(seq, kind, s), w)) = Total(Weights(seq, kind, s)) + w
    BY <1>1, WeightsSeq, TotalAppend
  <1> QED BY <1>2, <1>3 DEF Load, w, a

LEMMA LoadTail ==
  ASSUME NEW frames, NEW kind, NEW s, Weighed(frames, kind, s),
         NEW seq \in Seq(frames), seq # <<>>
  PROVE  /\ Load(seq, kind, s) = Weight(Head(seq), kind, s) + Load(Tail(seq), kind, s)
         /\ Weight(Head(seq), kind, s) \in Nat /\ Load(Tail(seq), kind, s) \in Nat
  <1> DEFINE ws == Weights(seq, kind, s)
  <1>1. ws \in Seq(Nat) /\ Len(ws) = Len(seq) /\ Len(seq) > 0
    BY WeightsSeq
  <1>2. Head(ws) = Weight(Head(seq), kind, s) /\ Head(ws) \in Nat
    <2>1. ws[1] = Weight(seq[1], kind, s)
      BY <1>1 DEF Weights
    <2> HIDE DEF ws
    <2> QED BY <1>1, <2>1
  <1>3. Tail(ws) = Weights(Tail(seq), kind, s)
    <2>1. Len(Tail(seq)) = Len(seq) - 1 /\ \A i \in 1..Len(Tail(seq)) : Tail(seq)[i] = seq[i + 1]
      OBVIOUS
    <2>2. \A i \in 1..Len(seq) : ws[i] = Weight(seq[i], kind, s)
      BY DEF Weights
    <2> HIDE DEF ws
    <2>3. /\ Tail(ws) \in Seq(Nat) /\ Len(Tail(ws)) = Len(seq) - 1
          /\ \A i \in 1..Len(Tail(ws)) : Tail(ws)[i] = ws[i + 1]
      BY <1>1
    <2> DEFINE p == Weights(Tail(seq), kind, s)
    <2>4. /\ p \in [1..Len(Tail(seq)) -> {p[i] : i \in 1..Len(Tail(seq))}]
          /\ \A i \in 1..Len(Tail(seq)) : p[i] = Weight(Tail(seq)[i], kind, s)
      BY DEF Weights
    <2> HIDE DEF p
    <2>5. ASSUME NEW i \in 1..Len(Tail(seq)) PROVE p[i] = Tail(ws)[i]
      <3> DEFINE t == Tail(seq)
                 v == Tail(ws)
      <3>0. Len(seq) \in Nat
        OBVIOUS
      <3> HIDE DEF t, v
      <3>1. i + 1 \in 1..Len(seq) /\ Tail(seq)[i] = seq[i + 1] /\ Tail(ws)[i] = ws[i + 1]
        <4>1. /\ Len(t) = Len(seq) - 1 /\ i \in 1..Len(t) /\ t[i] = seq[i + 1]
          BY <2>1, <2>5 DEF t
        <4>2. Len(v) = Len(seq) - 1 /\ \A k \in 1..Len(v) : v[k] = ws[k + 1]
          BY <2>3 DEF v
        <4>3. i + 1 \in 1..Len(seq) /\ v[i] = ws[i + 1]
          BY <3>0, <4>1, <4>2
        <4> QED BY <4>1, <4>3 DEF t, v
      <3> QED BY <2>2, <2>4, <3>1
    <2>6. p = Tail(ws)
      <3> DEFINE v == Tail(ws)
                 k == Len(Tail(seq))
      <3>1. v \in Seq(Nat) /\ Len(v) = k /\ \A i \in 1..k : p[i] = v[i]
        BY <2>1, <2>3, <2>5
      <3>2. p \in [1..k -> {p[i] : i \in 1..k}]
        BY <2>4
      <3> HIDE DEF v, k
      <3>3. v \in [1..k -> Nat]
        BY <3>1
      <3>4. p \in [1..k -> Nat]
        BY <3>1, <3>2, <3>3
      <3> QED BY <3>1, <3>3, <3>4 DEF v
    <2> QED BY <2>6 DEF p
  <1>4. Total(ws) = Head(ws) + Total(Tail(ws)) /\ Total(Tail(ws)) \in Nat
    <2>1. ws # <<>> /\ Tail(ws) \in Seq(Nat)
      BY <1>1
    <2> HIDE DEF ws
    <2> QED BY <1>1, <2>1, TotalTail, TotalNat
  <1> QED BY <1>2, <1>3, <1>4 DEF Load, ws

LEMMA LoadPrefix ==
  ASSUME NEW frames, NEW kind, NEW s, Weighed(frames, kind, s),
         NEW seq \in Seq(frames), NEW n \in 0..Len(seq)
  PROVE  Load(SubSeq(seq, 1, n), kind, s) <= Load(seq, kind, s)
  <1> DEFINE ws == Weights(seq, kind, s)
  <1>1. ws \in Seq(Nat) /\ Len(ws) = Len(seq)
    BY WeightsSeq
  <1>2. SubSeq(ws, 1, n) = Weights(SubSeq(seq, 1, n), kind, s)
    <2>1. Len(SubSeq(seq, 1, n)) = n /\ \A i \in 1..n : SubSeq(seq, 1, n)[i] = seq[i]
      OBVIOUS
    <2>2. \A i \in 1..n : ws[i] = Weight(seq[i], kind, s)
      BY DEF Weights
    <2> HIDE DEF ws
    <2>3. /\ SubSeq(ws, 1, n) \in Seq(Nat) /\ Len(SubSeq(ws, 1, n)) = n
          /\ \A i \in 1..n : SubSeq(ws, 1, n)[i] = ws[i]
      BY <1>1
    <2> DEFINE p == Weights(SubSeq(seq, 1, n), kind, s)
    <2>4. /\ p \in [1..n -> {p[i] : i \in 1..n}]
          /\ \A i \in 1..n : p[i] = Weight(SubSeq(seq, 1, n)[i], kind, s)
      BY <2>1 DEF Weights
    <2> HIDE DEF p
    <2>5. \A i \in 1..n : p[i] = SubSeq(ws, 1, n)[i]
      BY <2>1, <2>2, <2>3, <2>4
    <2> DEFINE q == SubSeq(ws, 1, n)
    <2>6. q \in Seq(Nat) /\ Len(q) = n /\ \A i \in 1..n : p[i] = q[i]
      BY <2>3, <2>5
    <2> HIDE DEF q
    <2>7. p = q
      BY <2>4, <2>6
    <2> QED BY <2>7 DEF p, q
  <1>3. Total(SubSeq(ws, 1, n)) <= Total(ws)
    <2> HIDE DEF ws
    <2> QED BY <1>1, TotalPrefix
  <1> QED BY <1>2, <1>3 DEF Load, ws

-----------------------------------------------------------------------------
(* What the members of a queue weigh, by a function that says what each does. *)

Weighings(w, seq) == [i \in 1..Len(seq) |-> w[seq[i]]]

Weigh(w, seq) == Total(Weighings(w, seq))

LEMMA WeighingsSeq ==
  ASSUME NEW S, NEW w \in [S -> Nat], NEW seq \in Seq(S)
  PROVE  Weighings(w, seq) \in Seq(Nat) /\ Len(Weighings(w, seq)) = Len(seq)
  <1>1. ASSUME NEW i \in 1..Len(seq) PROVE w[seq[i]] \in Nat
    <2>1. seq[i] \in S
      OBVIOUS
    <2> QED BY <2>1
  <1> QED BY <1>1 DEF Weighings

LEMMA WeighNat ==
  ASSUME NEW S, NEW w \in [S -> Nat], NEW seq \in Seq(S)
  PROVE  Weigh(w, seq) \in Nat
  BY WeighingsSeq, TotalNat DEF Weigh

LEMMA WeighEmpty ==
  ASSUME NEW w
  PROVE  Weigh(w, <<>>) = 0
  <1>1. Weighings(w, <<>>) = <<>>
    BY DEF Weighings
  <1> QED BY <1>1, TotalEmpty DEF Weigh

LEMMA WeighAppend ==
  ASSUME NEW S, NEW w \in [S -> Nat], NEW seq \in Seq(S), NEW x \in S
  PROVE  Weigh(w, Append(seq, x)) = Weigh(w, seq) + w[x]
  <1> DEFINE a == Append(seq, x)
             p == Weighings(w, a)
             q == Append(Weighings(w, seq), w[x])
  <1>1. /\ Len(a) = Len(seq) + 1 /\ a[Len(seq) + 1] = x /\ Len(seq) \in Nat
        /\ \A i \in 1..Len(seq) : a[i] = seq[i]
    OBVIOUS
  <1> HIDE DEF a
  <1>2. /\ p \in [1..Len(a) -> {p[i] : i \in 1..Len(a)}]
        /\ \A i \in 1..Len(a) : p[i] = w[a[i]]
    BY DEF Weighings
  <1>3. /\ q \in Seq(Nat) /\ Len(q) = Len(seq) + 1 /\ q[Len(seq) + 1] = w[x]
        /\ \A i \in 1..Len(seq) : q[i] = Weighings(w, seq)[i]
    BY WeighingsSeq
  <1>4. \A i \in 1..Len(seq) : Weighings(w, seq)[i] = w[seq[i]]
    BY DEF Weighings
  <1> HIDE DEF p, q
  <1>5. ASSUME NEW i \in 1..Len(a) PROVE p[i] = q[i]
    <2>1. CASE i = Len(seq) + 1
      BY <1>1, <1>2, <1>3, <2>1
    <2>2. CASE i \in 1..Len(seq)
      <3>1. p[i] = w[a[i]] /\ a[i] = seq[i]
        BY <1>1, <1>2, <2>2
      <3> QED BY <1>3, <1>4, <2>2, <3>1, Zenon
    <2> QED BY <1>1, <2>1, <2>2
  <1>q. q \in [1..Len(a) -> Nat]
    BY <1>1, <1>3
  <1>6. p = q
    BY <1>2, <1>5, <1>q
  <1>7. Total(Append(Weighings(w, seq), w[x])) = Total(Weighings(w, seq)) + w[x]
    BY WeighingsSeq, TotalAppend
  <1> QED BY <1>6, <1>7 DEF Weigh, p, q, a

LEMMA WeighTail ==
  ASSUME NEW S, NEW w \in [S -> Nat], NEW seq \in Seq(S), seq # <<>>
  PROVE  Weigh(w, seq) = w[Head(seq)] + Weigh(w, Tail(seq)) /\ w[Head(seq)] \in Nat
  <1> DEFINE ws == Weighings(w, seq)
             p == Weighings(w, Tail(seq))
  <1>1. ws \in Seq(Nat) /\ Len(ws) = Len(seq) /\ Len(seq) > 0
    BY WeighingsSeq
  <1>2. \A i \in 1..Len(seq) : ws[i] = w[seq[i]]
    BY DEF Weighings
  <1>3. /\ Len(Tail(seq)) = Len(seq) - 1 /\ Head(seq) = seq[1] /\ Head(seq) \in S
        /\ \A i \in 1..Len(Tail(seq)) : Tail(seq)[i] = seq[i + 1]
    OBVIOUS
  <1>4. /\ p \in [1..Len(Tail(seq)) -> {p[i] : i \in 1..Len(Tail(seq))}]
        /\ \A i \in 1..Len(Tail(seq)) : p[i] = w[Tail(seq)[i]]
    BY DEF Weighings
  <1> HIDE DEF ws, p
  <1>5. /\ Tail(ws) \in Seq(Nat) /\ Len(Tail(ws)) = Len(seq) - 1 /\ ws # <<>> /\ Head(ws) = ws[1]
        /\ \A i \in 1..Len(Tail(ws)) : Tail(ws)[i] = ws[i + 1]
    BY <1>1
  <1>6. ASSUME NEW i \in 1..Len(Tail(seq)) PROVE p[i] = Tail(ws)[i]
    <2>1. i + 1 \in 1..Len(seq) /\ Tail(seq)[i] = seq[i + 1] /\ Tail(ws)[i] = ws[i + 1]
      BY <1>3, <1>5
    <2> QED BY <1>2, <1>4, <2>1
  <1>7. p = Tail(ws)
    <2> DEFINE q == Tail(ws)
    <2>1. q \in Seq(Nat) /\ Len(q) = Len(Tail(seq)) /\ \A i \in 1..Len(Tail(seq)) : p[i] = q[i]
      BY <1>3, <1>5, <1>6
    <2> HIDE DEF q
    <2>2. q \in [1..Len(Tail(seq)) -> Nat]
      BY <2>1
    <2>3. p = q
      <3>1. p = [i \in 1..Len(Tail(seq)) |-> p[i]] /\ q = [i \in 1..Len(Tail(seq)) |-> q[i]]
        BY <1>4, <2>2
      <3> QED BY <2>1, <3>1
    <2> QED BY <2>3, Zenon DEF q
  <1>8. Total(ws) = Head(ws) + Total(Tail(ws))
    BY <1>1, <1>5, TotalTail
  <1>9. Head(ws) = w[Head(seq)]
    <2>1. 1 \in 1..Len(seq)
      BY <1>1
    <2>2. ws[1] = w[seq[1]]
      BY <1>2, <2>1
    <2> QED BY <1>3, <1>5, <2>2, Zenon
  <1>10. Weigh(w, seq) = Total(ws) /\ Weigh(w, Tail(seq)) = Total(p)
    BY DEF Weigh, ws, p
  <1>11. w[Head(seq)] \in Nat
    BY <1>3
  <1>12. Total(p) = Total(Tail(ws))
    BY <1>7
  <1> QED BY <1>8, <1>9, <1>10, <1>11, <1>12, Zenon
=============================================================================
