----------------------------- MODULE WorkProofs -----------------------------
(***************************************************************************)
(* Machine-checked proofs about the work that is handed out and measured.  *)
(*                                                                         *)
(* The search space: an extranonce is dealt out to one thread and tried    *)
(* once, and the pool rebuilds the header of a share, for bytes of any     *)
(* radix, counters and slots of any width, and splits and merkle trees of  *)
(* any size.                                                               *)
(*                                                                         *)
(* The estimator: the measured rate is that of the shares in the window,   *)
(* for windows of any length, any work, and clocks of any resolution.      *)
(***************************************************************************)
EXTENDS JobSpace, ShareTargets, SequenceTheorems, WellFoundedInduction, TLAPS

-----------------------------------------------------------------------------
(***************************************************************************)
(* Induction, with a set of numbers in place of a predicate.               *)
(***************************************************************************)
LEMMA LeastNumber ==
  ASSUME NEW T \in SUBSET Nat, T # {}
  PROVE  \E x \in T : \A y \in T : x <= y
<1> DEFINE R == OpToRel(<, Nat)
<1>1. IsWellFoundedOn(R, Nat)
  BY NatLessThanWellFounded
<1>2. \A x, y \in Nat : y < x => <<y, x>> \in R
  BY DEF OpToRel
<1> HIDE DEF R
<1>3. PICK x \in T : \A y \in T : ~(<<y, x>> \in R)
  BY <1>1, WFMin
<1>4. ASSUME NEW y \in T PROVE x <= y
  <2>1. x \in Nat /\ y \in Nat /\ ~(y < x)
    BY <1>2, <1>3
  <2> QED
    BY <2>1
<1> QED
  BY <1>3, <1>4

(* What holds of 0, and of n + 1 when it holds of n, holds of every number.*)
LEMMA Induction ==
  ASSUME NEW S, 0 \in S, \A n \in Nat : n \in S => n + 1 \in S
  PROVE  \A n \in Nat : n \in S
<1> SUFFICES ASSUME Nat \ S # {} PROVE FALSE
  OBVIOUS
<1>1. PICK x \in Nat \ S : \A y \in Nat \ S : x <= y
  <2> DEFINE T == Nat \ S
  <2>1. T \in SUBSET Nat /\ T # {}
    OBVIOUS
  <2> HIDE DEF T
  <2>2. \E x \in T : \A y \in T : x <= y
    BY <2>1, LeastNumber
  <2> QED
    BY <2>2 DEF T
<1>2. x # 0 /\ x - 1 \in Nat /\ (x - 1) + 1 = x
  BY <1>1
<1>3. x - 1 \in S
  BY <1>1, <1>2
<1> QED
  BY <1>1, <1>2, <1>3

(* The first m + 1 values of a sequence defined by its start and a step.   *)
IsApprox(g, m, S, a, step) ==
  /\ g \in [0 .. m -> S] /\ g[0] = a
  /\ \A n \in 0 .. m - 1 : g[n + 1] = step[n][g[n]]

LEMMA ApproxExists ==
  ASSUME NEW S, NEW a \in S, NEW step \in [Nat -> [S -> S]], NEW m \in Nat
  PROVE  \E g : IsApprox(g, m, S, a, step)
<1> DEFINE T == {k \in Nat : \E g : IsApprox(g, k, S, a, step)}
<1>1. 0 \in T
  <2>1. IsApprox([n \in 0 .. 0 |-> a], 0, S, a, step)
    BY DEF IsApprox
  <2> QED
    BY <2>1
<1>2. ASSUME NEW k \in Nat, k \in T PROVE k + 1 \in T
  <2>1. PICK g : IsApprox(g, k, S, a, step)
    BY <1>2
  <2> DEFINE h == [n \in 0 .. k + 1 |-> IF n = k + 1 THEN step[k][g[k]] ELSE g[n]]
  <2>2. g[k] \in S
    BY <2>1 DEF IsApprox
  <2>3. h \in [0 .. k + 1 -> S]
    BY <2>1, <2>2 DEF IsApprox
  <2>4. ASSUME NEW n \in 0 .. (k + 1) - 1 PROVE h[n + 1] = step[n][h[n]]
    <3>1. CASE n = k
      <4>1. h[k + 1] = step[k][g[k]] /\ h[k] = g[k]
        OBVIOUS
      <4> QED
        BY <3>1, <4>1
    <3>2. CASE n # k
      <4>1. n \in 0 .. k - 1 /\ h[n + 1] = g[n + 1] /\ h[n] = g[n]
        BY <3>2
      <4> QED
        BY <2>1, <4>1 DEF IsApprox
    <3> QED
      BY <3>1, <3>2
  <2>5. h[0] = a
    BY <2>1 DEF IsApprox
  <2> HIDE DEF h
  <2>6. IsApprox(h, k + 1, S, a, step)
    BY <2>3, <2>4, <2>5 DEF IsApprox
  <2> QED
    BY <2>6
<1> HIDE DEF T
<1>3. m \in T
  BY <1>1, <1>2, Induction
<1> QED
  BY <1>3 DEF T

LEMMA ApproxAgree ==
  ASSUME NEW S, NEW a, NEW step, NEW m \in Nat,
         NEW g, IsApprox(g, m, S, a, step), NEW h, IsApprox(h, m + 1, S, a, step)
  PROVE  h[m] = g[m]
<1> DEFINE T == {k \in Nat : k <= m => h[k] = g[k]}
<1>1. 0 \in T
  BY DEF IsApprox
<1>2. ASSUME NEW k \in Nat, k \in T PROVE k + 1 \in T
  <2> SUFFICES ASSUME k + 1 <= m PROVE h[k + 1] = g[k + 1]
    OBVIOUS
  <2>1. h[k] = g[k] /\ k \in 0 .. m - 1 /\ k \in 0 .. (m + 1) - 1
    BY <1>2
  <2> QED
    BY <2>1 DEF IsApprox
<1> HIDE DEF T
<1>3. m \in T
  BY <1>1, <1>2, Induction
<1> QED
  BY <1>3 DEF T

Follows(g, S, a, step) ==
  g \in [Nat -> S] /\ g[0] = a /\ \A n \in Nat : g[n + 1] = step[n][g[n]]

(* A sequence of values is defined by its first value and a step.          *)
LEMMA Recursion ==
  ASSUME NEW S, NEW a \in S, NEW step \in [Nat -> [S -> S]]
  PROVE  \E g : Follows(g, S, a, step)
<1> DEFINE A(m) == CHOOSE h : IsApprox(h, m, S, a, step)
           g == [m \in Nat |-> A(m)[m]]
<1>1. ASSUME NEW m \in Nat PROVE IsApprox(A(m), m, S, a, step)
  BY ApproxExists
<1> HIDE DEF A
<1>2. ASSUME NEW m \in Nat PROVE g[m] \in S
  BY <1>1 DEF IsApprox
<1>3. g[0] = a
  BY <1>1 DEF IsApprox
<1>4. ASSUME NEW n \in Nat PROVE g[n + 1] = step[n][g[n]]
  <2>1. A(n + 1)[n] = A(n)[n]
    BY <1>1, ApproxAgree
  <2>2. n \in 0 .. (n + 1) - 1 /\ n + 1 \in Nat
    OBVIOUS
  <2>3. A(n + 1)[n + 1] = step[n][A(n + 1)[n]]
    BY <1>1, <2>2 DEF IsApprox
  <2> QED
    BY <2>1, <2>2, <2>3
<1> HIDE DEF g
<1>5. Follows(g, S, a, step)
  <2>1. g \in [Nat -> S]
    BY <1>2 DEF g
  <2> QED
    BY <1>3, <1>4, <2>1 DEF Follows
<1> QED
  BY <1>5

-----------------------------------------------------------------------------
(***************************************************************************)
(* The estimator: what its sums are.                                       *)
(***************************************************************************)
Samples == [at : Int, work : Int]

IsRunning(g, s, m) == g = [n \in 0 .. m |-> IF n = 0 THEN 0 ELSE g[n - 1] + s[n].work]

LEMMA RunningExists ==
  ASSUME NEW s, NEW m \in Nat
  PROVE  \E g : IsRunning(g, s, m)
<1> DEFINE S == {k \in Nat : \E g : IsRunning(g, s, k)}
<1>1. 0 \in S
  <2>1. IsRunning([n \in 0 .. 0 |-> 0], s, 0)
    BY DEF IsRunning
  <2> QED
    BY <2>1
<1>2. ASSUME NEW k \in Nat, k \in S PROVE k + 1 \in S
  <2>1. PICK g : IsRunning(g, s, k)
    BY <1>2
  <2> DEFINE h == [n \in 0 .. k + 1 |-> IF n = k + 1 THEN g[k] + s[k + 1].work ELSE g[n]]
  <2>2. ASSUME NEW n \in 0 .. k + 1
        PROVE  h[n] = IF n = 0 THEN 0 ELSE h[n - 1] + s[n].work
    <3>1. CASE n = 0
      BY <2>1, <3>1 DEF IsRunning
    <3>2. CASE n = k + 1
      BY <3>2
    <3>3. CASE n \in 1 .. k
      <4>1. h[n] = g[n] /\ h[n - 1] = g[n - 1] /\ n \in 0 .. k
        BY <3>3
      <4> QED
        BY <2>1, <3>3, <4>1 DEF IsRunning
    <3> QED
      BY <3>1, <3>2, <3>3
  <2>3. h = [n \in 0 .. k + 1 |-> IF n = 0 THEN 0 ELSE h[n - 1] + s[n].work]
    BY <2>2
  <2> HIDE DEF h
  <2>4. IsRunning(h, s, k + 1)
    BY <2>3 DEF IsRunning
  <2> QED
    BY <2>4
<1> HIDE DEF S
<1>3. m \in S
  BY <1>1, <1>2, Induction
<1> QED
  BY <1>3 DEF S

LEMMA RunningSteps ==
  ASSUME NEW s \in Seq(Samples)
  PROVE  /\ RunningWork(s)[0] = 0
         /\ \A n \in 1 .. Len(s) : RunningWork(s)[n] = RunningWork(s)[n - 1] + s[n].work
         /\ \A n \in 0 .. Len(s) : RunningWork(s)[n] \in Int
<1>1. Len(s) \in Nat
  OBVIOUS
<1>2. RunningWork(s) = CHOOSE g : IsRunning(g, s, Len(s))
  BY DEF RunningWork, IsRunning
<1> DEFINE f == RunningWork(s)
<1>3. IsRunning(f, s, Len(s))
  BY <1>1, <1>2, RunningExists
<1> HIDE DEF f
<1>4. f[0] = 0 /\ \A n \in 1 .. Len(s) : f[n] = f[n - 1] + s[n].work
  <2>1. \A n \in 0 .. Len(s) : f[n] = IF n = 0 THEN 0 ELSE f[n - 1] + s[n].work
    BY <1>1, <1>3 DEF IsRunning
  <2> QED
    BY <1>1, <2>1
<1>5. \A n \in Nat : n \in {k \in Nat : k <= Len(s) => f[k] \in Int}
  <2> DEFINE S == {k \in Nat : k <= Len(s) => f[k] \in Int}
  <2>1. 0 \in S
    BY <1>4
  <2>2. ASSUME NEW k \in Nat, k \in S PROVE k + 1 \in S
    <3>1. CASE k + 1 <= Len(s)
      <4>1. k + 1 \in 1 .. Len(s) /\ (k + 1) - 1 = k /\ f[k] \in Int
        BY <1>1, <2>2, <3>1
      <4>2. s[k + 1] \in Samples
        BY <4>1, ElementOfSeq
      <4>3. f[k + 1] = f[k] + s[k + 1].work
        BY <1>4, <4>1
      <4> QED
        BY <4>1, <4>2, <4>3 DEF Samples
    <3> QED
      BY <3>1
  <2> HIDE DEF S
  <2>3. \A n \in Nat : n \in S
    BY <2>1, <2>2, Induction
  <2> QED
    BY <2>3 DEF S
<1> QED
  BY <1>1, <1>4, <1>5 DEF f

(* Sequences that agree so far have the same running work.                 *)
LEMMA RunningAgrees ==
  ASSUME NEW s \in Seq(Samples), NEW t \in Seq(Samples), NEW d \in Nat, NEW m \in Nat,
         m <= Len(t), d + m <= Len(s), \A k \in 1 .. m : t[k] = s[d + k]
  PROVE  RunningWork(t)[m] = RunningWork(s)[d + m] - RunningWork(s)[d]
<1> DEFINE S == {k \in Nat : k <= m => RunningWork(t)[k] = RunningWork(s)[d + k] - RunningWork(s)[d]}
<1>0. Len(s) \in Nat /\ Len(t) \in Nat
  OBVIOUS
<1>1. 0 \in S
  <2>1. d \in 0 .. Len(s) /\ d + 0 = d
    BY <1>0
  <2> QED
    BY <2>1, RunningSteps
<1>2. ASSUME NEW k \in Nat, k \in S PROVE k + 1 \in S
  <2>1. CASE k + 1 <= m
    <3>1. /\ k + 1 \in 1 .. Len(t) /\ (k + 1) - 1 = k /\ k + 1 \in 1 .. m
          /\ d + (k + 1) \in 1 .. Len(s) /\ (d + (k + 1)) - 1 = d + k
          /\ k \in 0 .. Len(t) /\ d + k \in 0 .. Len(s) /\ d \in 0 .. Len(s)
      BY <1>0, <2>1
    <3>2. RunningWork(t)[k] = RunningWork(s)[d + k] - RunningWork(s)[d]
      BY <1>2, <2>1
    <3>3. RunningWork(t)[k + 1] = RunningWork(t)[k] + t[k + 1].work
      BY <3>1, RunningSteps
    <3>4. RunningWork(s)[d + (k + 1)] = RunningWork(s)[d + k] + s[d + (k + 1)].work
      BY <3>1, RunningSteps
    <3>5. t[k + 1] = s[d + (k + 1)] /\ s[d + (k + 1)].work \in Int
      <4>1. s[d + (k + 1)] \in Samples
        BY <3>1, ElementOfSeq
      <4> QED
        BY <3>1, <4>1 DEF Samples
    <3>6. RunningWork(s)[d + k] \in Int /\ RunningWork(s)[d] \in Int
      BY <3>1, RunningSteps
    <3>7. RunningWork(t)[k + 1] = RunningWork(s)[d + (k + 1)] - RunningWork(s)[d]
      BY <3>2, <3>3, <3>4, <3>5, <3>6, SMTT(30)
    <3> QED
      BY <3>7
  <2> QED
    BY <2>1
<1> HIDE DEF S
<1>3. m \in S
  BY <1>1, <1>2, Induction
<1> QED
  BY <1>3 DEF S

LEMMA SumTypes ==
  ASSUME NEW s \in Seq(Samples)
  PROVE  SumOfWork(s) \in Int
BY RunningSteps DEF SumOfWork

LEMMA WithoutParts ==
  ASSUME NEW s \in Seq(Samples), NEW n \in 0 .. Len(s)
  PROVE  /\ Without(s, n) \in Seq(Samples) /\ Len(Without(s, n)) = Len(s) - n
         /\ \A k \in 1 .. Len(s) - n : Without(s, n)[k] = s[n + k]
<1>1. Len(s) \in Nat /\ \A i \in n + 1 .. Len(s) : s[i] \in Samples
  BY ElementOfSeq
<1>2. /\ Without(s, n) \in Seq(Samples)
      /\ Len(Without(s, n)) = IF n + 1 <= Len(s) THEN Len(s) - (n + 1) + 1 ELSE 0
      /\ \A k \in 1 .. Len(s) - (n + 1) + 1 : Without(s, n)[k] = s[(n + 1) + k - 1]
  BY <1>1, SubSeqProperties DEF Without
<1>3. Len(Without(s, n)) = Len(s) - n
  BY <1>1, <1>2
<1>4. ASSUME NEW k \in 1 .. Len(s) - n PROVE Without(s, n)[k] = s[n + k]
  <2>1. k \in 1 .. Len(s) - (n + 1) + 1 /\ (n + 1) + k - 1 = n + k
    BY <1>1
  <2> QED
    BY <1>2, <2>1
<1> QED
  BY <1>2, <1>3, <1>4

LEMMA WithoutTwice ==
  ASSUME NEW s \in Seq(Samples), NEW n \in 0 .. Len(s), NEW m \in 0 .. Len(s) - n
  PROVE  n + m \in 0 .. Len(s) /\ Without(Without(s, n), m) = Without(s, n + m)
<1> DEFINE t == Without(s, n)
<1>1. /\ Len(s) \in Nat /\ t \in Seq(Samples) /\ Len(t) = Len(s) - n
      /\ \A k \in 1 .. Len(s) - n : t[k] = s[n + k]
  <2>1. Len(s) \in Nat
    OBVIOUS
  <2> QED
    BY <2>1, WithoutParts
<1> HIDE DEF t
<1>2. /\ Without(t, m) \in Seq(Samples) /\ Len(Without(t, m)) = Len(t) - m
      /\ \A k \in 1 .. Len(t) - m : Without(t, m)[k] = t[m + k]
  BY <1>1, WithoutParts
<1>3. n + m \in 0 .. Len(s)
  BY <1>1
<1>4. /\ Without(s, n + m) \in Seq(Samples) /\ Len(Without(s, n + m)) = Len(s) - (n + m)
      /\ \A k \in 1 .. Len(s) - (n + m) : Without(s, n + m)[k] = s[(n + m) + k]
  BY <1>3, WithoutParts
<1>5. Len(s) - (n + m) = Len(t) - m
  BY <1>1
<1>6. ASSUME NEW k \in 1 .. Len(t) - m
      PROVE  Without(t, m)[k] = Without(s, n + m)[k]
  <2>1. m + k \in 1 .. Len(s) - n /\ n + (m + k) = (n + m) + k
    BY <1>1
  <2> QED
    BY <1>1, <1>2, <1>4, <1>5, <2>1
<1>7. Without(t, m) = Without(s, n + m)
  BY <1>2, <1>4, <1>5, <1>6, SeqEqual
<1> QED
  BY <1>3, <1>7 DEF t

(* The sum of a sequence is that of its front and of the rest.             *)
LEMMA SumSplits ==
  ASSUME NEW s \in Seq(Samples), NEW n \in 0 .. Len(s)
  PROVE  SumOfWork(Without(s, n)) = SumOfWork(s) - SumOfWork(SubSeq(s, 1, n))
<1>1. Len(s) \in Nat /\ \A i \in 1 .. n : s[i] \in Samples
  BY ElementOfSeq
<1> DEFINE front == SubSeq(s, 1, n)
           rest == Without(s, n)
<1>2. front \in Seq(Samples) /\ Len(front) = n /\ \A k \in 1 .. n : front[k] = s[k]
  <2>1. /\ front \in Seq(Samples) /\ Len(front) = IF 1 <= n THEN n - 1 + 1 ELSE 0
        /\ \A k \in 1 .. n - 1 + 1 : front[k] = s[1 + k - 1]
    BY <1>1, SubSeqProperties
  <2> HIDE DEF front
  <2>2. Len(front) = n
    BY <2>1
  <2>3. \A k \in 1 .. n : k \in 1 .. n - 1 + 1 /\ 1 + k - 1 = k
    OBVIOUS
  <2> QED
    BY <2>1, <2>2, <2>3
<1>3. rest \in Seq(Samples) /\ Len(rest) = Len(s) - n /\ \A k \in 1 .. Len(s) - n : rest[k] = s[n + k]
  BY WithoutParts
<1> HIDE DEF front, rest
<1>4. RunningWork(front)[n] = RunningWork(s)[0 + n] - RunningWork(s)[0]
  <2>1. 0 + n <= Len(s) /\ n <= Len(front) /\ n \in Nat /\ \A k \in 1 .. n : front[k] = s[0 + k]
    BY <1>1, <1>2
  <2> QED
    BY <1>2, <2>1, RunningAgrees
<1>5. RunningWork(rest)[Len(s) - n] = RunningWork(s)[n + (Len(s) - n)] - RunningWork(s)[n]
  <2>1. /\ n \in Nat /\ Len(s) - n \in Nat /\ Len(s) - n <= Len(rest) /\ n + (Len(s) - n) <= Len(s)
        /\ \A k \in 1 .. Len(s) - n : rest[k] = s[n + k]
    BY <1>1, <1>3
  <2> QED
    BY <1>3, <2>1, RunningAgrees
<1>6. RunningWork(s)[0] = 0 /\ RunningWork(s)[n] \in Int /\ RunningWork(s)[Len(s)] \in Int
  BY <1>1, RunningSteps
<1>7. 0 + n = n /\ n + (Len(s) - n) = Len(s)
  BY <1>1
<1>8. SumOfWork(front) = RunningWork(s)[n]
  BY <1>2, <1>4, <1>6, <1>7 DEF SumOfWork
<1>9. SumOfWork(rest) = RunningWork(s)[Len(s)] - RunningWork(s)[n]
  BY <1>3, <1>5, <1>7 DEF SumOfWork
<1> QED
  BY <1>8, <1>9 DEF SumOfWork, front, rest

LEMMA SumAppends ==
  ASSUME NEW s \in Seq(Samples), NEW x \in Samples
  PROVE  SumOfWork(Append(s, x)) = SumOfWork(s) + x.work
<1> DEFINE t == Append(s, x)
<1>1. /\ Len(s) \in Nat /\ t \in Seq(Samples) /\ Len(t) = Len(s) + 1 /\ t[Len(s) + 1] = x
      /\ \A k \in 1 .. Len(s) : t[k] = s[k]
  BY AppendProperties
<1> HIDE DEF t
<1>2. RunningWork(s)[Len(s)] = RunningWork(t)[0 + Len(s)] - RunningWork(t)[0]
  <2>1. 0 + Len(s) <= Len(t) /\ Len(s) <= Len(s) /\ \A k \in 1 .. Len(s) : s[k] = t[0 + k]
    BY <1>1
  <2> QED
    BY <1>1, <2>1, RunningAgrees
<1>3. Len(t) \in 1 .. Len(t) /\ Len(t) - 1 = Len(s) /\ 0 + Len(s) = Len(s) /\ Len(s) \in 0 .. Len(t)
  BY <1>1
<1>4. RunningWork(t)[Len(t)] = RunningWork(t)[Len(s)] + x.work
  BY <1>1, <1>3, RunningSteps
<1>5. RunningWork(t)[0] = 0 /\ RunningWork(t)[Len(s)] \in Int
  BY <1>1, <1>3, RunningSteps
<1> QED
  BY <1>2, <1>3, <1>4, <1>5 DEF SumOfWork, t

(* prune_before stops at the first sample that is not older.               *)
LEMMA OutdatedIs ==
  ASSUME NEW s \in Seq(Samples), NEW cutoff \in Int
  PROVE  /\ Outdated(s, cutoff) \in 0 .. Len(s)
         /\ \A k \in 1 .. Outdated(s, cutoff) : s[k].at < cutoff
         /\ \/ Outdated(s, cutoff) = Len(s)
            \/ s[Outdated(s, cutoff) + 1].at >= cutoff
<1> DEFINE P(n) == /\ \A k \in 1 .. n : s[k].at < cutoff
                   /\ n = Len(s) \/ s[n + 1].at >= cutoff
           T == {k \in 1 .. Len(s) : s[k].at >= cutoff}
<1>1. Len(s) \in Nat /\ \A k \in 1 .. Len(s) : s[k].at \in Int
  <2>1. \A k \in 1 .. Len(s) : s[k] \in Samples
    BY ElementOfSeq
  <2> QED
    BY <2>1 DEF Samples
<1>2. \E n \in 0 .. Len(s) : P(n)
  <2>1. CASE T = {}
    <3>1. \A k \in 1 .. Len(s) : s[k].at < cutoff
      BY <1>1, <2>1
    <3>2. Len(s) \in 0 .. Len(s)
      BY <1>1
    <3> QED
      BY <3>1, <3>2
  <2>2. CASE T # {}
    <3>1. T \in SUBSET Nat
      OBVIOUS
    <3>2. PICK x \in T : \A y \in T : x <= y
      <4> HIDE DEF T
      <4> QED
        BY <2>2, <3>1, LeastNumber
    <3>3. x \in 1 .. Len(s) /\ s[x].at >= cutoff /\ x - 1 \in 0 .. Len(s) /\ (x - 1) + 1 = x
      BY <1>1, <3>2
    <3>4. ASSUME NEW k \in 1 .. x - 1 PROVE s[k].at < cutoff
      <4>1. k \in 1 .. Len(s) /\ k < x
        BY <1>1, <3>3
      <4>2. k \notin T
        BY <3>2, <3>3, <4>1
      <4> QED
        BY <1>1, <4>1, <4>2
    <3> QED
      BY <3>3, <3>4
  <2> QED
    BY <2>1, <2>2
<1>3. Outdated(s, cutoff) = CHOOSE n \in 0 .. Len(s) : P(n)
  BY DEF Outdated
<1> HIDE DEF P
<1>4. Outdated(s, cutoff) \in 0 .. Len(s) /\ P(Outdated(s, cutoff))
  BY <1>2, <1>3
<1> QED
  BY <1>4 DEF P

-----------------------------------------------------------------------------
(***************************************************************************)
(* Share targets: the inductive invariant.                                 *)
(***************************************************************************)
TargetTypes ==
  /\ clock \in Nat /\ samples \in Seq(Samples) /\ shares \in Seq(Samples)
  /\ total_work \in Int /\ pruned_at \in Int /\ pruned_at <= clock
  /\ declared \in Nat /\ last_target \in Nat /\ assigned \in [hashes : Int, rate : Int]

(* Shares are recorded in the order of time.                               *)
SharesInTime ==
  /\ \A k \in 1 .. Len(shares) : shares[k].at <= clock
  /\ \A j, k \in 1 .. Len(shares) : j <= k => shares[j].at <= shares[k].at

(* The shares after the n-th are the newest ones that are not older than   *)
(* the cutoff.                                                             *)
Window(n, list, cutoff) ==
  \A k \in 1 .. Len(list) : k > n <=> list[k].at >= cutoff /\ k > Len(list) - MaxSamples

(* A running or a fired alarm is about the target and the hashrate of now, *)
(* and began when they were there already.                                 *)
AlarmSteady ==
  /\ alarm.state \in {"idle", "timing", "fired"} /\ alarm.since \in Int /\ steady_since \in Int
  /\ steady_since <= clock
  /\ alarm.state # "idle" =>
       is_difficulty_too_high(last_target, declared) /\ steady_since <= alarm.since
  /\ alarm.state = "fired" => clock - alarm.since >= HIGH_DIFFICULTY_DEBOUNCE * TicksPerSecond

TargetsInv == TargetTypes /\ SharesInTime /\ EstimateOfWindow /\ AlarmSteady

Seconds == HASHRATE_WINDOW * TicksPerSecond

LEMMA SecondsType == Seconds \in Nat /\ HIGH_DIFFICULTY_DEBOUNCE * TicksPerSecond \in Nat
BY TargetBounds DEF Seconds

(* The window as it is pruned now.                                         *)
LEMMA CurrentWindow ==
  ASSUME TargetTypes, SharesInTime, EstimateOfWindow
  PROVE  /\ Current.total = SumOfWork(Current.samples) /\ Current.total \in Int
         /\ \E n \in 0 .. Len(shares) :
              Current.samples = Without(shares, n) /\ Window(n, shares, clock - Seconds)
<1>1. /\ samples \in Seq(Samples) /\ shares \in Seq(Samples) /\ Len(shares) \in Nat
      /\ clock \in Nat /\ pruned_at \in Int /\ pruned_at <= clock /\ Seconds \in Nat
      /\ total_work = SumOfWork(samples) /\ WindowStart = clock - Seconds
  BY SecondsType DEF TargetTypes, EstimateOfWindow, WindowStart, Seconds
<1> DEFINE cutoff == clock - Seconds
           m == Outdated(samples, cutoff)
<1>2. PICK n \in 0 .. Len(shares) :
        samples = Without(shares, n) /\ Window(n, shares, pruned_at - Seconds)
  BY DEF EstimateOfWindow, Window, Seconds
<1>3. /\ Len(samples) = Len(shares) - n
      /\ \A k \in 1 .. Len(shares) - n : samples[k] = shares[n + k]
  BY <1>1, <1>2, WithoutParts
<1>4. cutoff \in Int
  BY <1>1
<1>5. /\ m \in 0 .. Len(samples)
      /\ \A k \in 1 .. m : samples[k].at < cutoff
      /\ m = Len(samples) \/ samples[m + 1].at >= cutoff
  <2> HIDE DEF cutoff
  <2> QED
    BY <1>1, <1>4, OutdatedIs
<1>6. Current = [samples |-> Without(samples, m),
                 total |-> total_work - SumOfWork(SubSeq(samples, 1, m))]
  BY <1>1 DEF Current, Pruned
<1> HIDE DEF m
<1>7. Current.total = SumOfWork(Current.samples) /\ Current.total \in Int
  BY <1>1, <1>5, <1>6, SumSplits, SumTypes, WithoutParts
<1>8. n + m \in 0 .. Len(shares)
  BY <1>1, <1>3, <1>5
<1>9. Without(samples, m) = Without(shares, n + m)
  BY <1>1, <1>2, <1>3, <1>5, WithoutTwice
<1>10. Window(n + m, shares, cutoff)
  <2> SUFFICES ASSUME NEW k \in 1 .. Len(shares)
               PROVE  k > n + m <=> shares[k].at >= cutoff /\ k > Len(shares) - MaxSamples
    BY DEF Window
  <2>1. /\ \A j \in 1 .. Len(shares) : shares[j].at \in Int
        /\ \A i, j \in 1 .. Len(shares) : i <= j => shares[i].at <= shares[j].at
    <3>1. \A j \in 1 .. Len(shares) : shares[j] \in Samples
      BY <1>1, ElementOfSeq
    <3> QED
      BY <3>1 DEF SharesInTime, Samples
  <2>2. k > n <=> shares[k].at >= pruned_at - Seconds /\ k > Len(shares) - MaxSamples
    BY <1>2 DEF Window
  <2>3. CASE k <= n
    <3>1. shares[k].at >= cutoff => shares[k].at >= pruned_at - Seconds
      BY <1>1, <2>1
    <3> QED
      BY <1>1, <1>2, <1>5, <2>2, <2>3, <3>1
  <2>4. CASE k > n /\ k <= n + m
    <3>1. k - n \in 1 .. m /\ k - n \in 1 .. Len(shares) - n /\ n + (k - n) = k
      BY <1>1, <1>2, <1>3, <1>5, <2>4
    <3>2. shares[k].at < cutoff
      BY <1>3, <1>5, <3>1
    <3> QED
      BY <1>1, <1>4, <1>2, <1>5, <2>1, <2>4, <3>2
  <2>5. CASE k > n + m
    <3>1. m # Len(samples) /\ k > n /\ m + 1 \in 1 .. Len(shares) - n
      BY <1>1, <1>2, <1>3, <1>5, <2>5
    <3>2. n + (m + 1) \in 1 .. Len(shares) /\ n + (m + 1) <= k
      BY <1>1, <1>2, <1>3, <1>5, <2>5, <3>1
    <3>3. shares[n + (m + 1)].at >= cutoff
      BY <1>3, <1>5, <3>1
    <3>4. shares[n + (m + 1)].at <= shares[k].at
      BY <2>1, <3>2
    <3>5. shares[k].at >= cutoff
      BY <1>4, <2>1, <3>2, <3>3, <3>4
    <3> QED
      BY <2>2, <2>5, <3>1, <3>5
  <2> QED
    BY <1>1, <1>2, <1>5, <2>3, <2>4, <2>5
<1> QED
  BY <1>6, <1>7, <1>8, <1>9, <1>10

LEMMA PruneStep ==
  ASSUME TargetTypes, SharesInTime, EstimateOfWindow, PrunesWindow, UNCHANGED <<shares, clock>>
  PROVE  /\ EstimateOfWindow'
         /\ samples' \in Seq(Samples) /\ total_work' \in Int /\ pruned_at' = clock
<1>1. /\ samples' = Current.samples /\ total_work' = Current.total /\ pruned_at' = clock
      /\ shares \in Seq(Samples)
  BY DEF PrunesWindow, TargetTypes
<1>2. PICK n \in 0 .. Len(shares) :
        Current.samples = Without(shares, n) /\ Window(n, shares, clock - Seconds)
  BY CurrentWindow
<1>3. Current.total = SumOfWork(Current.samples) /\ Current.total \in Int
  BY CurrentWindow
<1>4. Current.samples \in Seq(Samples)
  BY <1>1, <1>2, WithoutParts
<1>5. EstimateOfWindow'
  BY <1>1, <1>2, <1>3 DEF EstimateOfWindow, Window, Seconds
<1> QED
  BY <1>1, <1>3, <1>4, <1>5

LEMMA RecordStep ==
  ASSUME TargetTypes, SharesInTime, EstimateOfWindow, NEW work \in Int, record_at(work),
         shares' = Append(shares, [at |-> clock, work |-> work]), UNCHANGED clock
  PROVE  /\ EstimateOfWindow' /\ SharesInTime'
         /\ samples' \in Seq(Samples) /\ shares' \in Seq(Samples)
         /\ total_work' \in Int /\ pruned_at' = clock
<1> DEFINE x == [at |-> clock, work |-> work]
           longer == Append(Current.samples, x)
           excess == IF Len(longer) > MaxSamples THEN Len(longer) - MaxSamples ELSE 0
<1>1. x \in Samples /\ x.at = clock /\ x.work = work /\ clock \in Nat
  BY DEF Samples, TargetTypes
<1>2. /\ samples' = Without(longer, excess) /\ pruned_at' = clock
      /\ total_work' = Current.total + work - SumOfWork(SubSeq(longer, 1, excess))
  BY DEF record_at
<1> HIDE DEF x
<1>3. shares \in Seq(Samples) /\ Len(shares) \in Nat /\ MaxSamples \in Nat /\ Seconds \in Nat
  BY TargetBounds, SecondsType DEF TargetTypes
<1>4. PICK n \in 0 .. Len(shares) :
        Current.samples = Without(shares, n) /\ Window(n, shares, clock - Seconds)
  BY CurrentWindow
<1>5. Current.total = SumOfWork(Current.samples) /\ Current.total \in Int
  BY CurrentWindow
<1> DEFINE all == Append(shares, x)
<1>6. /\ all \in Seq(Samples) /\ Len(all) = Len(shares) + 1 /\ all[Len(shares) + 1] = x
      /\ \A k \in 1 .. Len(shares) : all[k] = shares[k]
  BY <1>1, <1>3, AppendProperties
<1>7. shares' = all
  BY DEF x
<1> HIDE DEF all
<1>8. /\ Current.samples \in Seq(Samples) /\ Len(Current.samples) = Len(shares) - n
      /\ \A k \in 1 .. Len(shares) - n : Current.samples[k] = shares[n + k]
  BY <1>3, <1>4, WithoutParts
<1>9. /\ longer \in Seq(Samples) /\ Len(longer) = Len(shares) - n + 1
      /\ longer[Len(shares) - n + 1] = x
      /\ \A k \in 1 .. Len(shares) - n : longer[k] = Current.samples[k]
  BY <1>1, <1>8, AppendProperties
<1>10. SumOfWork(longer) = Current.total + work
  BY <1>1, <1>5, <1>8, SumAppends
<1> HIDE DEF longer
<1>11. excess \in 0 .. Len(longer) /\ excess \in 0 .. Len(all) - n /\ n \in 0 .. Len(all)
  BY <1>3, <1>6, <1>9
<1>12. longer = Without(all, n)
  <2>1. /\ Without(all, n) \in Seq(Samples) /\ Len(Without(all, n)) = Len(all) - n
        /\ \A k \in 1 .. Len(all) - n : Without(all, n)[k] = all[n + k]
    BY <1>6, <1>11, WithoutParts
  <2>2. Len(all) - n = Len(longer)
    BY <1>3, <1>6, <1>9
  <2>3. ASSUME NEW k \in 1 .. Len(longer) PROVE longer[k] = Without(all, n)[k]
    <3>1. CASE k = Len(shares) - n + 1
      <4>1. n + k = Len(shares) + 1
        BY <1>3, <3>1
      <4> QED
        BY <1>6, <1>9, <2>1, <2>2, <3>1, <4>1
    <3>2. CASE k # Len(shares) - n + 1
      <4>1. k \in 1 .. Len(shares) - n /\ n + k \in 1 .. Len(shares)
        BY <1>3, <1>9, <3>2
      <4> QED
        BY <1>6, <1>8, <1>9, <2>1, <2>2, <4>1
    <3> QED
      BY <3>1, <3>2
  <2> QED
    BY <1>9, <2>1, <2>2, <2>3, SeqEqual
<1>13. total_work' = SumOfWork(samples') /\ total_work' \in Int /\ samples' \in Seq(Samples)
  <2>1. Without(longer, excess) \in Seq(Samples)
    BY <1>9, <1>11, WithoutParts
  <2>2. SumOfWork(Without(longer, excess))
          = SumOfWork(longer) - SumOfWork(SubSeq(longer, 1, excess))
    BY <1>9, <1>11, SumSplits
  <2>3. SumOfWork(Without(longer, excess)) \in Int
    BY <2>1, SumTypes
  <2> HIDE DEF excess
  <2>4. total_work' = SumOfWork(longer) - SumOfWork(SubSeq(longer, 1, excess))
    <3>1. \A i \in 1 .. excess : longer[i] \in Samples
      BY <1>9, <1>11, ElementOfSeq
    <3>2. SubSeq(longer, 1, excess) \in Seq(Samples)
      BY <1>11, <3>1, SubSeqProperties
    <3>3. SumOfWork(SubSeq(longer, 1, excess)) \in Int
      BY <3>2, SumTypes
    <3> QED
      BY <1>2, <1>5, <1>10, <3>3
  <2> QED
    BY <1>2, <2>1, <2>2, <2>3, <2>4
<1>14. n + excess \in 0 .. Len(all) /\ samples' = Without(all, n + excess)
  BY <1>2, <1>6, <1>11, <1>12, WithoutTwice
<1>15. ASSUME NEW k \in 1 .. Len(all)
       PROVE  k > n + excess <=> all[k].at >= clock - Seconds /\ k > Len(all) - MaxSamples
  <2>1. n + excess = IF Len(all) - MaxSamples > n THEN Len(all) - MaxSamples ELSE n
    BY <1>3, <1>6, <1>9
  <2> HIDE DEF excess
  <2>2. CASE k = Len(shares) + 1
    <3>1. all[k].at >= clock - Seconds /\ k > n
      BY <1>1, <1>3, <1>6, <2>2
    <3> QED
      BY <1>3, <1>6, <2>1, <3>1
  <2>3. CASE k # Len(shares) + 1
    <3>1. k \in 1 .. Len(shares) /\ all[k] = shares[k]
      BY <1>3, <1>6, <2>3
    <3>2. k > n <=> shares[k].at >= clock - Seconds /\ k > Len(shares) - MaxSamples
      BY <1>4, <3>1 DEF Window
    <3>3. Len(all) - MaxSamples = Len(shares) - MaxSamples + 1
      BY <1>3, <1>6
    <3> QED
      BY <1>3, <2>1, <3>1, <3>2, <3>3
  <2> QED
    BY <2>2, <2>3
<1>16. EstimateOfWindow'
  <2>1. \A k \in 1 .. Len(all) :
          k > n + excess <=> all[k].at >= clock - Seconds /\ k > Len(all) - MaxSamples
    BY <1>15
  <2> HIDE DEF excess
  <2>2. PICK e : e = n + excess
    OBVIOUS
  <2>3. /\ e \in 0 .. Len(shares') /\ samples' = Without(shares', e)
        /\ \A k \in 1 .. Len(shares') :
             k > e <=> /\ shares'[k].at >= pruned_at' - HASHRATE_WINDOW * TicksPerSecond
                       /\ k > Len(shares') - MaxSamples
    BY <1>2, <1>7, <1>14, <2>1, <2>2 DEF Seconds
  <2> QED
    BY <1>13, <2>3 DEF EstimateOfWindow
<1>17. SharesInTime'
  <2>1. ASSUME NEW k \in 1 .. Len(all)
        PROVE  all[k].at <= clock /\ (k \in 1 .. Len(shares) \/ all[k].at = clock)
    BY <1>1, <1>3, <1>6 DEF SharesInTime
  <2>2. ASSUME NEW j \in 1 .. Len(all), NEW k \in 1 .. Len(all), j <= k
        PROVE  all[j].at <= all[k].at
    <3>1. CASE k \in 1 .. Len(shares)
      <4>1. j \in 1 .. Len(shares)
        BY <1>3, <2>2, <3>1
      <4> QED
        BY <1>6, <2>2, <3>1, <4>1 DEF SharesInTime
    <3>2. CASE k \notin 1 .. Len(shares)
      BY <2>1, <3>2
    <3> QED
      BY <3>1, <3>2
  <2> QED
    BY <1>7, <2>1, <2>2 DEF SharesInTime
<1> QED
  BY <1>2, <1>6, <1>7, <1>13, <1>16, <1>17

LEMMA TargetsStart == TargetsInit => TargetsInv
<1> SUFFICES ASSUME TargetsInit PROVE TargetsInv
  OBVIOUS
<1>1. TargetTypes /\ SharesInTime
  BY DEF TargetsInit, TargetTypes, SharesInTime, NoAssignment
<1>2. EstimateOfWindow
  <2>1. SumOfWork(<<>>) = 0
    <3>1. <<>> \in Seq(Samples) /\ Len(<<>>) = 0
      BY EmptySeq
    <3>2. RunningWork(<<>>)[0] = 0
      BY <3>1, RunningSteps
    <3> QED
      BY <3>1, <3>2 DEF SumOfWork
  <2>2. Without(<<>>, 0) = <<>>
    BY SubSeqEmpty DEF Without
  <2>3. 0 \in 0 .. Len(<<>>) /\ 1 .. Len(<<>>) = {}
    OBVIOUS
  <2> QED
    BY <2>1, <2>2, <2>3 DEF TargetsInit, EstimateOfWindow
<1>3. AlarmSteady
  BY DEF TargetsInit, AlarmSteady
<1> QED
  BY <1>1, <1>2, <1>3 DEF TargetsInv

(* The rates and targets of the scheduler are numbers.                     *)
LEMMA TargetNumbers ==
  ASSUME TargetTypes, SharesInTime, EstimateOfWindow
  PROVE  /\ AssignmentRate \in Int
         /\ \A rate, hashes \in Int : compute_scheduler_target(rate, hashes) \in Int
<1>1. hashrate_at \in Int
  <2>1. CASE Current.samples = <<>>
    BY <2>1 DEF hashrate_at
  <2>2. CASE Current.samples # <<>>
    <3> DEFINE secs == (clock - Current.samples[1].at) \div TicksPerSecond
    <3>1. PICK n \in 0 .. Len(shares) : Current.samples = Without(shares, n)
      BY CurrentWindow
    <3>2. Current.total \in Int /\ shares \in Seq(Samples) /\ Len(shares) \in Nat /\ clock \in Nat
      BY CurrentWindow DEF TargetTypes
    <3>3. Current.samples \in Seq(Samples) /\ Len(Current.samples) = Len(shares) - n
      BY <3>1, <3>2, WithoutParts
    <3>4. Len(shares) - n > 0
      BY <2>2, <3>2, <3>3, EmptySeq
    <3>5. 1 \in 1 .. Len(shares) - n /\ n + 1 \in 1 .. Len(shares)
      BY <3>2, <3>4
    <3>6. Current.samples[1] = shares[n + 1]
      BY <3>1, <3>2, <3>5, WithoutParts
    <3>7. shares[n + 1].at \in Int /\ shares[n + 1].at <= clock
      <4>1. shares[n + 1] \in Samples
        BY <3>2, <3>5, ElementOfSeq
      <4> QED
        BY <3>5, <4>1 DEF SharesInTime, Samples
    <3>8. secs \in Nat
      <4> DEFINE ticks == clock - shares[n + 1].at
      <4>1. ticks \in Nat /\ TicksPerSecond \in Nat \ {0}
        BY <3>2, <3>7, TargetBounds
      <4>2. secs = ticks \div TicksPerSecond
        BY <3>6
      <4> HIDE DEF ticks, secs
      <4> QED
        BY <4>1, <4>2
    <3> HIDE DEF secs
    <3>9. hashrate_at = IF secs = 0 THEN 0 ELSE Current.total \div secs
      BY <2>2 DEF hashrate_at, secs
    <3> QED
      BY <3>2, <3>8, <3>9
  <2> QED
    BY <2>1, <2>2
<1>2. AssignmentRate \in Int
  BY <1>1 DEF AssignmentRate, TargetTypes
<1>3. ASSUME NEW rate \in Int, NEW hashes \in Int
      PROVE  compute_scheduler_target(rate, hashes) \in Int
  <2>1. MeasurementHashes(rate) \in Int /\ FloodCapHashes(rate) \in Int
    BY DEF MeasurementHashes, FloodCapHashes
  <2> QED
    BY <2>1 DEF compute_scheduler_target
<1> QED
  BY <1>2, <1>3

(* The estimator and its history under every action.                       *)
LEMMA WindowStep ==
  ASSUME TargetsInv, [TargetsNext]_targetVars
  PROVE  TargetTypes' /\ SharesInTime' /\ EstimateOfWindow'
<1> USE DEF TargetsInv
<1>1. ASSUME UNCHANGED windowVars, clock' \in Nat, clock <= clock'
      PROVE  /\ SharesInTime' /\ EstimateOfWindow' /\ pruned_at' <= clock'
             /\ samples' \in Seq(Samples) /\ shares' \in Seq(Samples)
             /\ total_work' \in Int /\ pruned_at' \in Int
  <2>1. UNCHANGED <<samples, total_work, pruned_at, shares>>
    BY <1>1 DEF windowVars
  <2>2. \A k \in 1 .. Len(shares) : shares[k].at \in Int
    <3>1. \A k \in 1 .. Len(shares) : shares[k] \in Samples
      BY ElementOfSeq DEF TargetTypes
    <3> QED
      BY <3>1 DEF Samples
  <2>3. SharesInTime'
    BY <1>1, <2>1, <2>2 DEF SharesInTime, TargetTypes
  <2>4. EstimateOfWindow'
    BY <2>1 DEF EstimateOfWindow
  <2> QED
    BY <1>1, <2>1, <2>3, <2>4 DEF TargetTypes
<1>2. ASSUME PrunesWindow, UNCHANGED <<shares, clock>>
      PROVE  /\ SharesInTime' /\ EstimateOfWindow' /\ pruned_at' <= clock'
             /\ samples' \in Seq(Samples) /\ shares' \in Seq(Samples)
             /\ total_work' \in Int /\ pruned_at' \in Int
  BY <1>2, PruneStep DEF SharesInTime, TargetTypes
<1>3. ASSUME NEW h \in JobTargets, AssignJob(h)
      PROVE  TargetTypes' /\ SharesInTime' /\ EstimateOfWindow'
  <2>1. h \in Nat /\ h \in Int /\ last_target' = h /\ UNCHANGED <<clock, shares, declared>>
    BY <1>3, TargetBounds DEF AssignJob
  <2>2. CASE UNCHANGED <<assigned, samples, total_work, pruned_at>>
    BY <1>1, <2>1, <2>2 DEF TargetTypes, windowVars
  <2>3. CASE SetsTask(h)
    <3>1. assigned' \in [hashes : Int, rate : Int]
      BY <2>1, <2>3, TargetNumbers DEF SetsTask
    <3>2. CASE UNCHANGED <<samples, total_work, pruned_at>>
      BY <1>1, <2>1, <3>1, <3>2 DEF TargetTypes, windowVars
    <3>3. CASE PrunesWindow
      BY <1>2, <2>1, <3>1, <3>3 DEF TargetTypes
    <3> QED
      BY <2>3, <3>2, <3>3 DEF SetsTask
  <2> QED
    BY <1>3, <2>2, <2>3 DEF AssignJob
<1>4. ASSUME NEW r \in Expectations, Declare(r)
      PROVE  TargetTypes' /\ SharesInTime' /\ EstimateOfWindow'
  <2>1. r \in Nat /\ declared' = r /\ UNCHANGED <<clock, windowVars, last_target>>
    BY <1>4, TargetBounds DEF Declare
  <2>2. assigned' \in [hashes : Int, rate : Int]
    <3>1. r \in Int /\ last_target \in Int /\ compute_scheduler_target(r, last_target) \in Int
      BY <2>1, TargetNumbers DEF TargetTypes
    <3> QED
      BY <1>4, <3>1 DEF Declare, TargetTypes
  <2> QED
    BY <1>1, <2>1, <2>2 DEF TargetTypes
<1>5. CASE RecordShare
  <2>1. assigned.hashes \in Int /\ UNCHANGED <<clock, declared, last_target, assigned>>
    BY <1>5 DEF RecordShare, TargetTypes
  <2>2. /\ record_at(assigned.hashes)
        /\ shares' = Append(shares, [at |-> clock, work |-> assigned.hashes])
    BY <1>5 DEF RecordShare
  <2>3. /\ EstimateOfWindow' /\ SharesInTime'
        /\ samples' \in Seq(Samples) /\ shares' \in Seq(Samples)
        /\ total_work' \in Int /\ pruned_at' = clock
    BY <2>1, <2>2, RecordStep
  <2> QED
    BY <2>1, <2>3 DEF TargetTypes
<1>6. CASE Measure
  BY <1>2, <1>6 DEF Measure, TargetTypes
<1>7. CASE TickOn
  BY <1>1, <1>7 DEF TickOn, TargetTypes
<1>8. CASE UNCHANGED targetVars
  BY <1>1, <1>8 DEF targetVars, TargetTypes
<1> QED
  BY <1>3, <1>4, <1>5, <1>6, <1>7, <1>8 DEF TargetsNext

LEMMA AlarmStep ==
  ASSUME TargetsInv, [TargetsNext]_targetVars
  PROVE  AlarmSteady'
<1> DEFINE debounce == HIGH_DIFFICULTY_DEBOUNCE * TicksPerSecond
<1>1. /\ AlarmSteady /\ clock \in Nat /\ debounce \in Nat
      /\ last_target \in Nat /\ declared \in Nat
  BY SecondsType DEF TargetsInv, TargetTypes
<1> HIDE DEF debounce
<1>2. ASSUME UNCHANGED <<alarmVars, last_target, declared>>, clock' \in Nat, clock <= clock'
      PROVE  AlarmSteady'
  <2>1. UNCHANGED <<alarm, steady_since, last_target, declared>>
    BY <1>2 DEF alarmVars
  <2> QED
    BY <1>1, <1>2, <2>1 DEF AlarmSteady, is_difficulty_too_high, debounce
<1>3. ASSUME NEW h \in JobTargets, AssignJob(h)
      PROVE  AlarmSteady'
  <2> DEFINE high == is_difficulty_too_high(h, declared)
             before == IF h # last_target THEN Idle ELSE alarm
  <2>1. /\ last_target' = h /\ UNCHANGED <<clock, declared>>
        /\ alarm' = check(before, high)
        /\ steady_since' = IF h # last_target THEN clock ELSE steady_since
    BY <1>3 DEF AssignJob
  <2>2. is_difficulty_too_high(last_target, declared)' = high
    BY <2>1 DEF is_difficulty_too_high
  <2>3. /\ before.state \in {"idle", "timing", "fired"} /\ before.since \in Int
        /\ steady_since' \in Int /\ steady_since' <= clock
        /\ before.state # "idle" => steady_since' <= before.since
        /\ before.state = "fired" => clock - before.since >= debounce
    BY <1>1, <2>1 DEF AlarmSteady, Idle, debounce
  <2> HIDE DEF before, high
  <2>4. /\ alarm'.state \in {"idle", "timing", "fired"} /\ alarm'.since \in Int
        /\ alarm'.state # "idle" => high /\ steady_since' <= alarm'.since
        /\ alarm'.state = "fired" => clock - alarm'.since >= debounce
    <3>1. CASE ~high
      BY <2>1, <3>1 DEF check, Idle
    <3>2. CASE high /\ before.state = "idle"
      BY <1>1, <2>1, <2>3, <3>2 DEF check
    <3>3. CASE high /\ before.state = "timing"
      BY <1>1, <2>1, <2>3, <3>3 DEF check, debounce
    <3>4. CASE high /\ before.state = "fired"
      BY <1>1, <2>1, <2>3, <3>4 DEF check
    <3> QED
      BY <2>3, <3>1, <3>2, <3>3, <3>4
  <2> QED
    BY <2>1, <2>2, <2>3, <2>4 DEF AlarmSteady, debounce
<1>4. ASSUME NEW r \in Expectations, Declare(r)
      PROVE  AlarmSteady'
  BY <1>1, <1>4 DEF Declare, AlarmSteady, Idle
<1>5. CASE RecordShare \/ Measure \/ TickOn \/ UNCHANGED targetVars
  BY <1>1, <1>2, <1>5 DEF RecordShare, Measure, TickOn, targetVars
<1> QED
  BY <1>3, <1>4, <1>5 DEF TargetsNext

(* The invariant of the measurements, for every window, capacity and       *)
(* number of shares.                                                       *)
THEOREM TargetsInvariant == TargetsSpec => []TargetsInv
<1>1. TargetsInv /\ [TargetsNext]_targetVars => TargetsInv'
  BY WindowStep, AlarmStep DEF TargetsInv
<1> QED
  BY <1>1, TargetsStart, PTL DEF TargetsSpec

(* MeasuresHonest: the total that HashrateEstimator keeps up by additions  *)
(* and subtractions is the work of the newest shares within its window,    *)
(* and "Share difficulty too high" is logged only after target and         *)
(* hashrate were the same, and too high, for the whole debounce time.      *)
THEOREM MeasuresHonestCorrect == TargetsSpec => []MeasuresHonest
<1>1. TargetsInv => MeasuresHonest
  <2> SUFFICES ASSUME TargetsInv PROVE MeasuresHonest
    OBVIOUS
  <2> DEFINE debounce == HIGH_DIFFICULTY_DEBOUNCE * TicksPerSecond
  <2>1. AlarmSteady /\ clock \in Nat /\ debounce \in Nat /\ EstimateOfWindow
    BY SecondsType DEF TargetsInv, TargetTypes
  <2>2. WarningIsSteady
    <3> SUFFICES ASSUME alarm.state = "fired"
                 PROVE  is_difficulty_too_high(last_target, declared) /\ clock - steady_since >= debounce
      BY DEF WarningIsSteady
    <3>1. /\ alarm.since \in Int /\ steady_since \in Int /\ steady_since <= alarm.since
          /\ clock - alarm.since >= debounce /\ is_difficulty_too_high(last_target, declared)
      BY <2>1 DEF AlarmSteady
    <3> HIDE DEF debounce
    <3> QED
      BY <2>1, <3>1
  <2> QED
    BY <2>1, <2>2 DEF MeasuresHonest
<1> QED
  BY <1>1, TargetsInvariant, PTL
-----------------------------------------------------------------------------
(***************************************************************************)
(* The search space: powers, quotients and the bytes of a number.          *)
(***************************************************************************)
(* The powers of b follow from each other.                                 *)
LEMMA PowerSteps ==
  ASSUME NEW b \in Nat
  PROVE  /\ Power(b) \in [Nat -> Nat] /\ Power(b)[0] = 1
         /\ \A n \in Nat : Power(b)[n + 1] = b * Power(b)[n]
<1> DEFINE Is(g) == g = [n \in Nat |-> IF n = 0 THEN 1 ELSE b * g[n - 1]]
           step == [n \in Nat |-> [x \in Nat |-> b * x]]
<1>1. \E g : Is(g)
  <2>1. step \in [Nat -> [Nat -> Nat]]
    OBVIOUS
  <2>2. \A n, x \in Nat : step[n][x] = b * x
    OBVIOUS
  <2> HIDE DEF step
  <2>3. PICK g : Follows(g, Nat, 1, step)
    <3>1. 1 \in Nat
      OBVIOUS
    <3> QED
      BY <2>1, <3>1, Recursion
  <2>4. ASSUME NEW n \in Nat PROVE g[n] = IF n = 0 THEN 1 ELSE b * g[n - 1]
    <3>1. CASE n = 0
      BY <2>3, <3>1 DEF Follows
    <3>2. CASE n # 0
      <4>1. n - 1 \in Nat /\ (n - 1) + 1 = n
        BY <3>2
      <4> QED
        BY <2>2, <2>3, <3>2, <4>1 DEF Follows
    <3> QED
      BY <3>1, <3>2
  <2>5. g \in [Nat -> Nat]
    BY <2>3 DEF Follows
  <2> QED
    BY <2>4, <2>5
<1>2. Is(Power(b))
  BY <1>1 DEF Power
<1> DEFINE f == Power(b)
<1>3. \A n \in Nat : f[n] = IF n = 0 THEN 1 ELSE b * f[n - 1]
  BY <1>2
<1> HIDE DEF f
<1>4. f[0] = 1
  BY <1>3
<1>5. ASSUME NEW n \in Nat PROVE f[n + 1] = b * f[n]
  <2>1. n + 1 \in Nat /\ n + 1 # 0 /\ (n + 1) - 1 = n
    OBVIOUS
  <2> QED
    BY <1>3, <2>1
<1> DEFINE T == {n \in Nat : f[n] \in Nat}
<1>6. \A n \in Nat : f[n] \in Nat
  <2>1. 0 \in T
    BY <1>4
  <2>2. ASSUME NEW n \in Nat, n \in T PROVE n + 1 \in T
    <3>1. f[n] \in Nat
      BY <2>2
    <3> QED
      BY <1>5, <3>1
  <2> HIDE DEF T
  <2>3. \A n \in Nat : n \in T
    BY <2>1, <2>2, Induction
  <2> QED
    BY <2>3 DEF T
<1>7. f = [n \in Nat |-> IF n = 0 THEN 1 ELSE b * f[n - 1]]
  BY <1>2 DEF f
<1>8. f \in [Nat -> Nat]
  BY <1>6, <1>7
<1> QED
  BY <1>4, <1>5, <1>8 DEF f

(* No power is 0, and none is larger than a later one.                     *)
LEMMA PowerGrows ==
  ASSUME NEW b \in Nat \ {0}
  PROVE  /\ \A n \in Nat : Power(b)[n] \in Nat \ {0}
         /\ \A m, n \in Nat : m <= n => Power(b)[m] <= Power(b)[n]
<1> DEFINE f == Power(b)
<1>1. b \in Nat /\ f \in [Nat -> Nat] /\ f[0] = 1 /\ \A n \in Nat : f[n + 1] = b * f[n]
  BY PowerSteps
<1> HIDE DEF f
<1>2. ASSUME NEW n \in Nat PROVE f[n] <= f[n + 1]
  <2>1. f[n] \in Nat /\ b >= 1
    BY <1>1
  <2>2. ASSUME NEW x \in Nat PROVE x <= b * x
    BY <2>1
  <2> QED
    BY <1>1, <2>1, <2>2
<1>3. ASSUME NEW m \in Nat, NEW n \in Nat, m <= n PROVE f[m] <= f[n]
  <2> DEFINE T == {d \in Nat : f[m] <= f[m + d]}
  <2>1. 0 \in T
    <3>1. m + 0 = m /\ f[m] \in Nat
      BY <1>1
    <3> QED
      BY <3>1
  <2>2. ASSUME NEW d \in Nat, d \in T PROVE d + 1 \in T
    <3>1. m + d \in Nat /\ (m + d) + 1 = m + (d + 1)
      OBVIOUS
    <3>2. f[m] \in Nat /\ f[m + d] \in Nat /\ f[m + (d + 1)] \in Nat /\ f[m + d] <= f[m + (d + 1)]
      BY <1>1, <1>2, <3>1
    <3>3. f[m] <= f[m + d]
      BY <2>2
    <3> QED
      BY <3>2, <3>3
  <2> HIDE DEF T
  <2>3. n - m \in Nat /\ m + (n - m) = n
    BY <1>3
  <2>4. n - m \in T
    BY <2>1, <2>2, <2>3, Induction
  <2> QED
    BY <2>3, <2>4 DEF T
<1>4. ASSUME NEW n \in Nat PROVE f[n] \in Nat \ {0}
  <2>1. f[0] <= f[n] /\ f[n] \in Nat
    <3>1. 0 \in Nat /\ 0 <= n
      OBVIOUS
    <3> QED
      BY <1>1, <1>3, <3>1
  <2> QED
    BY <1>1, <2>1
<1> QED
  BY <1>3, <1>4 DEF f

-----------------------------------------------------------------------------
(* Division.                                                               *)
LEMMA Quotient ==
  ASSUME NEW a \in Nat, NEW n \in Nat \ {0}
  PROVE  /\ a \div n \in Nat /\ a % n \in Nat /\ a % n < n
         /\ a = n * (a \div n) + (a % n)
OBVIOUS

LEMMA QuotientIs ==
  ASSUME NEW n \in Nat \ {0}, NEW q \in Nat, NEW r \in Nat, r < n
  PROVE  (n * q + r) \div n = q
OBVIOUS

LEMMA TimesGrows ==
  ASSUME NEW a \in Nat, NEW b \in Nat, NEW c \in Nat, a <= b
  PROVE  c * a <= c * b
OBVIOUS

(* Dividing by a product is dividing twice.                                *)
LEMMA QuotientTwice ==
  ASSUME NEW x \in Nat, NEW p \in Nat \ {0}, NEW b \in Nat \ {0}
  PROVE  x \div (b * p) = (x \div p) \div b
<1> DEFINE q == x \div p
           c == q \div b
           s == p * (q % b) + (x % p)
<1>1. q \in Nat /\ x % p \in Nat /\ x % p < p /\ x = p * q + (x % p)
  BY Quotient
<1>2. c \in Nat /\ q % b \in Nat /\ q % b <= b - 1 /\ q = b * c + (q % b)
  BY <1>1, Quotient
<1>3. p * (q % b) \in Nat /\ p * (q % b) <= p * (b - 1) /\ p * (b - 1) = b * p - p
  <2>1. b - 1 \in Nat
    OBVIOUS
  <2> QED
    BY <1>2, <2>1, TimesGrows
<1>4. p * q = p * (b * c) + p * (q % b) /\ p * (b * c) = (b * p) * c
  BY <1>2
<1>5. b * p \in Nat \ {0}
  OBVIOUS
<1> HIDE DEF q, c
<1>6. s \in Nat /\ s < b * p
  BY <1>1, <1>2, <1>3, <1>5
<1>7. x = (b * p) * c + s
  BY <1>1, <1>2, <1>3, <1>4, <1>5
<1> HIDE DEF s
<1>8. x \div (b * p) = c
  BY <1>2, <1>5, <1>6, <1>7, QuotientIs
<1> QED
  BY <1>8 DEF q, c

-----------------------------------------------------------------------------
(* The number that bytes stand for.                                        *)
Bytes == 0 .. Radix - 1

LEMMA ValueSteps ==
  ASSUME NEW bytes \in Seq(Bytes)
  PROVE  /\ ValueOf(bytes)[0] = 0
         /\ \A n \in 0 .. Len(bytes) : ValueOf(bytes)[n] \in Nat
         /\ \A n \in 0 .. Len(bytes) - 1 :
              ValueOf(bytes)[n + 1] = ValueOf(bytes)[n] * Radix + bytes[n + 1]
<1> USE WidthsAreNat
<1> DEFINE m == Len(bytes)
           Is(g) == g = [n \in 0 .. m |-> IF n = 0 THEN 0 ELSE g[n - 1] * Radix + bytes[n]]
           add == [n \in Nat |-> IF n < m THEN bytes[n + 1] ELSE 0]
           step == [n \in Nat |-> [x \in Nat |-> x * Radix + add[n]]]
<1>1. m \in Nat /\ \A n \in 1 .. m : bytes[n] \in Nat
  BY ElementOfSeq DEF Bytes
<1>2. add \in [Nat -> Nat] /\ \A n \in 0 .. m - 1 : add[n] = bytes[n + 1]
  BY <1>1
<1> HIDE DEF add, m
<1>3. step \in [Nat -> [Nat -> Nat]] /\ \A n, x \in Nat : step[n][x] = x * Radix + add[n]
  <2>1. ASSUME NEW n \in Nat PROVE add[n] \in Nat
    BY <1>2
  <2>2. ASSUME NEW n \in Nat, NEW x \in Nat PROVE x * Radix + add[n] \in Nat
    BY <2>1
  <2> QED
    BY <2>2
<1> HIDE DEF step
<1>4. 0 \in Nat
  OBVIOUS
<1>5. PICK g : Follows(g, Nat, 0, step)
  BY <1>3, <1>4, Recursion
<1> DEFINE h == [n \in 0 .. m |-> g[n]]
<1>6. ASSUME NEW n \in 0 .. m
      PROVE  h[n] \in Nat /\ h[n] = IF n = 0 THEN 0 ELSE h[n - 1] * Radix + bytes[n]
  <2>1. h[n] \in Nat
    <3>1. n \in Nat
      BY <1>1
    <3>2. g[n] \in Nat
      BY <1>5, <3>1 DEF Follows
    <3> QED
      BY <3>2
  <2>2. CASE n = 0
    BY <1>1, <1>5, <2>1, <2>2 DEF Follows
  <2>3. CASE n # 0
    <3>1. n - 1 \in Nat /\ (n - 1) + 1 = n /\ n - 1 \in 0 .. m - 1 /\ n - 1 \in 0 .. m
      BY <1>1, <2>3
    <3>2. g[n - 1] \in Nat /\ g[n] = step[n - 1][g[n - 1]]
      BY <1>5, <3>1 DEF Follows
    <3>3. g[n] = g[n - 1] * Radix + bytes[n]
      <4>1. step[n - 1][g[n - 1]] = g[n - 1] * Radix + add[n - 1]
        BY <1>3, <3>1, <3>2
      <4>2. add[n - 1] = bytes[n]
        BY <1>2, <3>1
      <4> QED
        BY <3>2, <4>1, <4>2
    <3> QED
      BY <2>1, <2>3, <3>1, <3>3
  <2> QED
    BY <2>2, <2>3
<1>7. Is(h)
  BY <1>6
<1> HIDE DEF h
<1>8. Is(ValueOf(bytes))
  BY <1>7 DEF ValueOf, m
<1> DEFINE f == ValueOf(bytes)
<1>9. \A n \in 0 .. m : f[n] = IF n = 0 THEN 0 ELSE f[n - 1] * Radix + bytes[n]
  BY <1>8
<1> HIDE DEF f
<1>10. f[0] = 0
  BY <1>1, <1>9
<1>11. ASSUME NEW n \in 0 .. m - 1 PROVE f[n + 1] = f[n] * Radix + bytes[n + 1]
  <2>1. n + 1 \in 0 .. m /\ n + 1 # 0 /\ (n + 1) - 1 = n
    BY <1>1
  <2> QED
    BY <1>9, <2>1
<1>12. ASSUME NEW n \in 0 .. m PROVE f[n] \in Nat
  <2> DEFINE T == {k \in Nat : k <= m => f[k] \in Nat}
  <2>1. 0 \in T
    BY <1>10
  <2>2. ASSUME NEW k \in Nat, k \in T PROVE k + 1 \in T
    <3> SUFFICES ASSUME k + 1 <= m PROVE f[k + 1] \in Nat
      OBVIOUS
    <3>1. f[k] \in Nat /\ k \in 0 .. m - 1 /\ bytes[k + 1] \in Nat
      BY <1>1, <2>2
    <3>2. f[k] * Radix + bytes[k + 1] \in Nat
      BY <3>1
    <3> QED
      BY <1>11, <3>1, <3>2
  <2> HIDE DEF T
  <2>3. \A k \in Nat : k \in T
    BY <2>1, <2>2, Induction, Zenon
  <2> QED
    BY <1>1, <2>3 DEF T
<1> QED
  BY <1>10, <1>11, <1>12 DEF f, m

(* n bytes stand for less than Radix ^ n.                                  *)
LEMMA ValueBound ==
  ASSUME NEW bytes \in Seq(Bytes)
  PROVE  from_be(bytes) \in Nat /\ from_be(bytes) < Power(Radix)[Len(bytes)]
<1> USE WidthsAreNat
<1> DEFINE m == Len(bytes)
           f == ValueOf(bytes)
           p == Power(Radix)
           T == {k \in Nat : k <= m => f[k] <= p[k] - 1}
<1>1. m \in Nat /\ \A n \in 1 .. m : bytes[n] \in 0 .. Radix - 1
  BY ElementOfSeq DEF Bytes
<1>2. /\ f[0] = 0 /\ \A n \in 0 .. m : f[n] \in Nat
      /\ \A n \in 0 .. m - 1 : f[n + 1] = f[n] * Radix + bytes[n + 1]
  BY ValueSteps
<1>3. p \in [Nat -> Nat] /\ p[0] = 1 /\ \A n \in Nat : p[n + 1] = Radix * p[n]
  BY PowerSteps
<1> HIDE DEF m, f, p
<1>4. 0 \in T
  <2>1. f[0] <= p[0] - 1
    BY <1>2, <1>3
  <2> QED
    BY <2>1
<1>5. ASSUME NEW k \in Nat, k \in T PROVE k + 1 \in T
  <2> SUFFICES ASSUME k + 1 <= m PROVE f[k + 1] <= p[k + 1] - 1
    OBVIOUS
  <2>1. /\ k \in 0 .. m - 1 /\ k \in 0 .. m /\ k + 1 \in 1 .. m
    BY <1>1
  <2>2. f[k] <= p[k] - 1 /\ f[k] \in Nat /\ p[k] \in Nat /\ bytes[k + 1] \in 0 .. Radix - 1
    BY <1>1, <1>2, <1>3, <1>5, <2>1
  <2>3. ASSUME NEW x \in Nat, NEW y \in Nat, NEW c \in 0 .. Radix - 1, x <= y - 1
        PROVE  x * Radix + c <= Radix * y - 1
    <3>1. x * Radix <= (y - 1) * Radix
      BY <2>3
    <3> QED
      BY <2>3, <3>1
  <2>4. f[k] * Radix + bytes[k + 1] <= Radix * p[k] - 1
    BY <2>2, <2>3
  <2>5. f[k + 1] = f[k] * Radix + bytes[k + 1] /\ p[k + 1] = Radix * p[k]
    BY <1>2, <1>3, <2>1
  <2> QED
    BY <2>4, <2>5
<1> HIDE DEF T
<1>6. m \in T
  BY <1>1, <1>4, <1>5, Induction
<1>7. f[m] <= p[m] - 1 /\ f[m] \in Nat /\ p[m] \in Nat
  BY <1>1, <1>2, <1>3, <1>6 DEF T
<1>8. f[m] < p[m]
  BY <1>7
<1> QED
  BY <1>7, <1>8 DEF f, m, p, from_be

(* be_bytes gives n bytes.                                                 *)
LEMMA BytesOf ==
  ASSUME NEW number \in Nat, NEW n \in Nat
  PROVE  be_bytes(number, n) \in Seq(Bytes) /\ Len(be_bytes(number, n)) = n
<1> USE WidthsAreNat
<1> DEFINE b == be_bytes(number, n)
<1>1. ASSUME NEW k \in 1 .. n PROVE (number \div Power(Radix)[n - k]) % Radix \in Bytes
  <2> DEFINE p == Power(Radix)[n - k]
  <2>1. n - k \in Nat
    OBVIOUS
  <2>2. p \in Nat \ {0}
    BY <2>1, PowerGrows
  <2> HIDE DEF p
  <2>3. number \div p \in Nat
    BY <2>2, Quotient
  <2> QED
    BY <2>3, Quotient DEF p, Bytes
<1>2. b \in [1 .. n -> Bytes]
  BY <1>1 DEF be_bytes
<1> HIDE DEF b
<1>3. b \in Seq(Bytes) /\ Len(b) = n
  BY <1>2, SeqDef
<1> QED
  BY <1>3 DEF b

(* Writing a number in bytes and reading it back.                          *)
LEMMA NumberReturns ==
  ASSUME NEW number \in Nat, NEW n \in Nat, number < Power(Radix)[n]
  PROVE  from_be(be_bytes(number, n)) = number
<1> USE WidthsAreNat
<1> DEFINE bytes == be_bytes(number, n)
           f == ValueOf(bytes)
           p == Power(Radix)
           T == {k \in Nat : k <= n => f[k] = number \div p[n - k]}
<1>1. bytes \in Seq(Bytes) /\ Len(bytes) = n
  BY BytesOf
<1>2. /\ f[0] = 0 /\ \A k \in 0 .. n : f[k] \in Nat
      /\ \A k \in 0 .. n - 1 : f[k + 1] = f[k] * Radix + bytes[k + 1]
  BY <1>1, ValueSteps
<1>3. \A k \in 1 .. n : bytes[k] = (number \div p[n - k]) % Radix
  BY DEF be_bytes
<1>4. /\ p[0] = 1 /\ \A k \in Nat : p[k + 1] = Radix * p[k]
      /\ \A k \in Nat : p[k] \in Nat \ {0}
  BY PowerSteps, PowerGrows
<1> HIDE DEF bytes, f
<1>5. 0 \in T
  <2>1. number \div p[n] = 0 /\ n - 0 = n
    <3>1. p[n] \in Nat \ {0} /\ number < p[n]
      BY <1>4
    <3> HIDE DEF p
    <3>2. p[n] * 0 + number = number
      BY <3>1
    <3>3. (p[n] * 0 + number) \div p[n] = 0
      BY <3>1, QuotientIs
    <3> QED
      BY <3>2, <3>3
  <2> QED
    BY <1>2, <2>1
<1> HIDE DEF p
<1>6. ASSUME NEW k \in Nat, k \in T PROVE k + 1 \in T
  <2> SUFFICES ASSUME k + 1 <= n PROVE f[k + 1] = number \div p[n - (k + 1)]
    OBVIOUS
  <2> DEFINE j == n - (k + 1)
             y == number \div p[j]
  <2>1. /\ k \in 0 .. n - 1 /\ k + 1 \in 1 .. n /\ j \in Nat /\ n - k = j + 1
    OBVIOUS
  <2>2. f[k] = number \div p[n - k]
    BY <1>6, <2>1
  <2>3. number \div p[n - k] = y \div Radix
    <3>1. p[j] \in Nat \ {0} /\ p[n - k] = Radix * p[j]
      BY <1>4, <2>1
    <3> QED
      BY <3>1, QuotientTwice
  <2>4. bytes[k + 1] = y % Radix
    BY <1>3, <2>1
  <2>5. y \in Nat
    BY <1>4, <2>1, Quotient
  <2>6. y = Radix * (y \div Radix) + (y % Radix) /\ y \div Radix \in Nat
    BY <2>5, Quotient
  <2> HIDE DEF y
  <2>7. f[k + 1] = f[k] * Radix + bytes[k + 1]
    BY <1>2, <2>1
  <2> QED
    BY <2>2, <2>3, <2>4, <2>5, <2>6, <2>7 DEF y
<1> HIDE DEF T
<1>7. n \in T
  BY <1>5, <1>6, Induction
<1>8. f[n] = number \div p[0] /\ p[0] = 1
  <2>1. n - n = 0
    OBVIOUS
  <2> QED
    BY <1>4, <1>7, <2>1 DEF T
<1>9. f[n] = number
  BY <1>8
<1> QED
  BY <1>1, <1>9 DEF f, bytes, from_be

-----------------------------------------------------------------------------
(***************************************************************************)
(* The inductive invariant of the search space: the range is one of its    *)
(* slot's, and the iterator is at the counters that the sequence holds.    *)
(***************************************************************************)
Ranges == [first : Nat, last : Nat, width : 1 .. MAX_WIDTH]
RangeOk(r) == r \in Ranges /\ r.first <= r.last /\ r.last <= max_counter(r.width)

(* The counters from a to b, in order.                                     *)
Run(a, b) == [k \in 1 .. b - a + 1 |-> a + k - 1]

(* The iterator i is at the counters in s, none above top.                 *)
Tracks(i, s, top) ==
  \/ \E b \in Int : i = [next |-> <<>>, last |-> b] /\ s = <<>>
  \/ \E a, b \in Nat : /\ a <= b /\ b <= top
                       /\ i = [next |-> <<a>>, last |-> b] /\ s = Run(a, b)

SpaceInv ==
  /\ RangeOk(range)
  /\ Tracks(it, left, max_counter(range.width))
  /\ returned.item = returned.it

Low(width) == IF width <= COUNTER_WIDTH THEN width ELSE COUNTER_WIDTH

(* The counter fits its low bytes, and a slot holds at most CounterMax.    *)
LEMMA Limits ==
  ASSUME NEW w \in 1 .. MAX_WIDTH
  PROVE  /\ Low(w) \in Nat /\ Low(w) <= w /\ Low(w) <= COUNTER_WIDTH
         /\ Power(Radix)[Low(w)] = max_counter(w) + 1
         /\ max_counter(w) \in Nat /\ CounterMax \in Nat /\ max_counter(w) <= CounterMax
<1> USE WidthsAreNat
<1> DEFINE p == Power(Radix)
<1>1. w \in Nat /\ COUNTER_WIDTH \in Nat /\ Low(w) \in Nat /\ Low(w) <= w /\ Low(w) <= COUNTER_WIDTH
  BY DEF Low
<1>2. /\ p[Low(w)] \in Nat \ {0} /\ p[COUNTER_WIDTH] \in Nat \ {0}
      /\ p[Low(w)] <= p[COUNTER_WIDTH]
  BY <1>1, PowerGrows
<1>3. max_counter(w) = p[Low(w)] - 1 /\ CounterMax = p[COUNTER_WIDTH] - 1
  BY <1>1 DEF max_counter, CounterMax, Low
<1> HIDE DEF p
<1>4. p[Low(w)] = max_counter(w) + 1
  BY <1>2, <1>3
<1> QED
  BY <1>1, <1>2, <1>3, <1>4 DEF p

(* A range begins at an extranonce that was parsed.                        *)
LEMMA RangeBegins ==
  ASSUME NEW w \in 1 .. MAX_WIDTH, NEW c \in Nat, from_bytes(be_bytes(c, w)) # Err
  PROVE  RangeOk(starting_at(The(from_bytes(be_bytes(c, w)))))
<1> USE WidthsAreNat
<1> DEFINE bs == be_bytes(c, w)
           padding == IF Len(bs) > COUNTER_WIDTH THEN Len(bs) - COUNTER_WIDTH ELSE 0
           low == SubSeq(bs, padding + 1, Len(bs))
           e == [counter |-> from_be(low), width |-> Len(bs)]
<1>1. bs \in Seq(Bytes) /\ Len(bs) = w /\ w \in Nat
  BY BytesOf
<1> HIDE DEF bs
<1>2. low \in Seq(Bytes) /\ Len(low) = Low(w)
  <2>1. padding \in Nat /\ padding + 1 \in 1 .. w + 1 /\ w - padding = Low(w)
    BY <1>1 DEF Low
  <2> HIDE DEF padding
  <2>2. padding + 1 \in 1 .. Len(bs) + 1 /\ Len(bs) \in (padding + 1) - 1 .. Len(bs)
    BY <1>1, <2>1
  <2>3. low \in Seq(Bytes) /\ Len(low) = (IF padding + 1 <= Len(bs)
                                            THEN Len(bs) - (padding + 1) + 1 ELSE 0)
    BY <1>1, <2>2, SubSeqProperties
  <2> QED
    BY <1>1, <2>1, <2>3
<1> HIDE DEF low
<1>3. from_be(low) \in Nat /\ from_be(low) <= max_counter(w) /\ max_counter(w) \in Nat
  <2>1. from_be(low) \in Nat /\ from_be(low) < max_counter(w) + 1
    BY <1>2, Limits, ValueBound
  <2> QED
    BY <2>1, Limits
<1>4. from_bytes(bs) = <<e>>
  BY DEF from_bytes, Err, Some, bs, low
<1>5. The(from_bytes(bs)) = e
  BY <1>4 DEF The
<1>6. starting_at(e) = [first |-> from_be(low), last |-> max_counter(w), width |-> w]
  BY <1>1 DEF starting_at
<1>7. RangeOk(starting_at(e))
  BY <1>3, <1>6 DEF RangeOk, Ranges
<1> QED
  BY <1>5, <1>7 DEF bs

(* The bytes in the slot of the coinbase give the extranonce back.         *)
LEMMA ExtranonceReturns ==
  ASSUME NEW w \in 1 .. MAX_WIDTH, NEW c \in Nat, c <= max_counter(w)
  PROVE  LET e == [counter |-> c, width |-> w]
         IN from_bytes(extranonce_bytes(e)) = Some(e)
<1> USE WidthsAreNat
<1> DEFINE e == [counter |-> c, width |-> w]
           n == Low(w)
           zeros == [k \in 1 .. w - n |-> 0]
           low == SubSeq(be_bytes(c, COUNTER_WIDTH), COUNTER_WIDTH - n + 1, COUNTER_WIDTH)
           bs == zeros \o low
<1>1. /\ w \in Nat /\ n \in Nat /\ n <= w /\ n <= COUNTER_WIDTH
      /\ Power(Radix)[n] = max_counter(w) + 1 /\ max_counter(w) \in Nat
  BY Limits
<1>2. w - n = IF w > COUNTER_WIDTH THEN w - COUNTER_WIDTH ELSE 0
  BY <1>1 DEF Low
<1>3. extranonce_bytes(e) = bs
  BY DEF extranonce_bytes, Low
<1> HIDE DEF n
<1>4. low = be_bytes(c, n)
  <2> DEFINE all == be_bytes(c, COUNTER_WIDTH)
             m == COUNTER_WIDTH - n + 1
  <2>1. all \in Seq(Bytes) /\ Len(all) = COUNTER_WIDTH
    BY BytesOf
  <2>2. be_bytes(c, n) \in Seq(Bytes) /\ Len(be_bytes(c, n)) = n
    BY <1>1, BytesOf
  <2>3. m \in 1 .. Len(all) + 1 /\ COUNTER_WIDTH \in m - 1 .. Len(all)
    BY <1>1, <2>1
  <2>4. /\ low \in Seq(Bytes)
        /\ Len(low) = IF m <= COUNTER_WIDTH THEN COUNTER_WIDTH - m + 1 ELSE 0
        /\ \A k \in 1 .. COUNTER_WIDTH - m + 1 : low[k] = all[m + k - 1]
    BY <2>1, <2>3, SubSeqProperties, SMTT(30)
  <2>5. Len(low) = n /\ COUNTER_WIDTH - m + 1 = n
    BY <1>1, <2>4
  <2>6. ASSUME NEW k \in 1 .. n PROVE low[k] = be_bytes(c, n)[k]
    <3>1. m + k - 1 \in 1 .. COUNTER_WIDTH /\ COUNTER_WIDTH - (m + k - 1) = n - k
      BY <1>1
    <3>2. low[k] = all[m + k - 1]
      BY <2>4, <2>5
    <3> HIDE DEF m
    <3> QED
      BY <3>1, <3>2 DEF be_bytes
  <2> HIDE DEF low, m
  <2> QED
    BY <2>2, <2>4, <2>5, <2>6, SeqEqual
<1>5. low \in Seq(Bytes) /\ Len(low) = n
  <2>1. c \in Nat /\ n \in Nat
    BY <1>1
  <2> QED
    BY <1>4, <2>1, BytesOf, SMTT(30)
<1> HIDE DEF low
<1>6. zeros \in Seq(Bytes) /\ Len(zeros) = w - n
  <2>1. w - n \in Nat /\ 0 \in Bytes
    BY <1>1 DEF Bytes
  <2> QED
    BY <2>1
<1>7. /\ bs \in Seq(Bytes) /\ Len(bs) = w
      /\ \A k \in 1 .. w : bs[k] = IF k <= w - n THEN 0 ELSE low[k - (w - n)]
  BY <1>1, <1>5, <1>6, ConcatProperties
<1> HIDE DEF bs, zeros
<1>8. SubSeq(bs, (w - n) + 1, w) = low
  <2> DEFINE s == SubSeq(bs, (w - n) + 1, w)
  <2>1. (w - n) + 1 \in 1 .. Len(bs) + 1 /\ w \in ((w - n) + 1) - 1 .. Len(bs)
    BY <1>1, <1>7
  <2>2. /\ s \in Seq(Bytes)
        /\ Len(s) = IF (w - n) + 1 <= w THEN w - ((w - n) + 1) + 1 ELSE 0
        /\ \A k \in 1 .. w - ((w - n) + 1) + 1 : s[k] = bs[((w - n) + 1) + k - 1]
    BY <1>7, <2>1, SubSeqProperties, SMTT(30)
  <2>3. Len(s) = n /\ w - ((w - n) + 1) + 1 = n
    BY <1>1, <2>2
  <2>4. ASSUME NEW k \in 1 .. n PROVE s[k] = low[k]
    <3> DEFINE j == ((w - n) + 1) + k - 1
    <3>1. j \in 1 .. w /\ ~(j <= w - n) /\ j - (w - n) = k
      BY <1>1
    <3>2. s[k] = bs[j]
      BY <2>2, <2>3
    <3> HIDE DEF j
    <3> QED
      BY <1>7, <3>1, <3>2
  <2> HIDE DEF s
  <2> QED
    BY <1>5, <2>2, <2>3, <2>4, SeqEqual DEF s
<1>9. \A k \in 1 .. w - n : bs[k] = 0
  BY <1>1, <1>7
<1>10. from_be(low) = c
  BY <1>1, <1>4, NumberReturns
<1>11. from_bytes(bs) = Some(e)
  BY <1>1, <1>2, <1>7, <1>8, <1>9, <1>10 DEF from_bytes, check_width
<1> QED
  BY <1>3, <1>11

-----------------------------------------------------------------------------
(***************************************************************************)
(* Counters in order, and the parts of a range.                            *)
(***************************************************************************)
LEMMA RunIs ==
  ASSUME NEW a \in Int, NEW b \in Int, b >= a - 1
  PROVE  /\ Run(a, b) \in Seq(Int) /\ Len(Run(a, b)) = b - a + 1
         /\ \A k \in 1 .. b - a + 1 : Run(a, b)[k] = a + k - 1
         /\ Run(a, b) = <<>> <=> b = a - 1
<1> DEFINE s == Run(a, b)
<1>1. b - a + 1 \in Nat
  OBVIOUS
<1>2. s \in Seq(Int) /\ Len(s) = b - a + 1
  BY <1>1 DEF Run
<1>3. \A k \in 1 .. b - a + 1 : s[k] = a + k - 1
  BY <1>1 DEF Run
<1> HIDE DEF s
<1>4. s = <<>> <=> b = a - 1
  BY <1>2, EmptySeq
<1> QED
  BY <1>2, <1>3, <1>4 DEF s

(* A piece of a run is a run.                                              *)
LEMMA RunCut ==
  ASSUME NEW a \in Nat, NEW b \in Int, b >= a - 1,
         NEW m \in Nat, NEW n \in Int, m >= 1, n >= m - 1, n <= b - a + 1
  PROVE  SubSeq(Run(a, b), m, n) = Run(a + m - 1, a + n - 1)
<1> DEFINE s == Run(a, b)
           t == SubSeq(s, m, n)
           A == a + m - 1
           B == a + n - 1
           u == Run(A, B)
<1>1. /\ s \in Seq(Int) /\ Len(s) = b - a + 1
      /\ \A k \in 1 .. b - a + 1 : s[k] = a + k - 1
  BY RunIs
<1>2. A \in Int /\ B \in Int /\ B >= A - 1 /\ B - A + 1 = n - m + 1 /\ A = a + m - 1
  OBVIOUS
<1> HIDE DEF A, B
<1>3. /\ u \in Seq(Int) /\ Len(u) = n - m + 1
      /\ \A k \in 1 .. n - m + 1 : u[k] = A + k - 1
  <2>1. u \in Seq(Int) /\ Len(u) = B - A + 1 /\ \A k \in 1 .. B - A + 1 : u[k] = A + k - 1
    BY <1>2, RunIs
  <2> QED
    BY <1>2, <2>1
<1> HIDE DEF s, u
<1>4. m \in 1 .. Len(s) + 1 /\ n \in m - 1 .. Len(s)
  BY <1>1
<1>5. /\ t \in Seq(Int) /\ Len(t) = IF m <= n THEN n - m + 1 ELSE 0
      /\ \A k \in 1 .. n - m + 1 : t[k] = s[m + k - 1]
  BY <1>1, <1>4, SubSeqProperties
<1>6. Len(t) = n - m + 1 /\ n - m + 1 \in Nat
  BY <1>5
<1>7. ASSUME NEW k \in 1 .. n - m + 1 PROVE t[k] = u[k]
  <2>1. m + k - 1 \in 1 .. b - a + 1 /\ a + (m + k - 1) - 1 = A + k - 1
    BY <1>2
  <2> QED
    BY <1>1, <1>3, <1>5, <2>1
<1> HIDE DEF t
<1>8. t = u
  BY <1>3, <1>5, <1>6, <1>7, SeqEqual
<1> QED
  BY <1>8 DEF s, t, u, A, B

(* Two runs that meet are one.                                             *)
LEMMA RunJoins ==
  ASSUME NEW a \in Nat, NEW b \in Nat, NEW c \in Nat, a <= b, b <= c
  PROVE  Run(a, b - 1) \o Run(b, c - 1) = Run(a, c - 1)
<1> DEFINE s == Run(a, b - 1)
           t == Run(b, c - 1)
           u == Run(a, c - 1)
           v == s \o t
<1>1. /\ s \in Seq(Int) /\ Len(s) = b - a /\ \A k \in 1 .. b - a : s[k] = a + k - 1
  <2>1. b - 1 \in Int /\ b - 1 >= a - 1 /\ (b - 1) - a + 1 = b - a
    OBVIOUS
  <2> QED
    BY <2>1, RunIs
<1>2. /\ t \in Seq(Int) /\ Len(t) = c - b /\ \A k \in 1 .. c - b : t[k] = b + k - 1
  <2>1. c - 1 \in Int /\ c - 1 >= b - 1 /\ (c - 1) - b + 1 = c - b
    OBVIOUS
  <2> QED
    BY <2>1, RunIs
<1>3. /\ u \in Seq(Int) /\ Len(u) = c - a /\ \A k \in 1 .. c - a : u[k] = a + k - 1
  <2>1. c - 1 \in Int /\ c - 1 >= a - 1 /\ (c - 1) - a + 1 = c - a
    OBVIOUS
  <2> QED
    BY <2>1, RunIs
<1> HIDE DEF s, t, u
<1>4. /\ v \in Seq(Int) /\ Len(v) = Len(s) + Len(t)
      /\ \A k \in 1 .. Len(s) + Len(t) : v[k] = IF k <= Len(s) THEN s[k] ELSE t[k - Len(s)]
  BY <1>1, <1>2, ConcatProperties
<1>5. Len(v) = c - a
  BY <1>1, <1>2, <1>4
<1>6. ASSUME NEW k \in 1 .. c - a PROVE v[k] = u[k]
  <2>1. CASE k <= b - a
    BY <1>1, <1>2, <1>3, <1>4, <2>1
  <2>2. CASE ~(k <= b - a)
    <3>1. k - (b - a) \in 1 .. c - b /\ b + (k - (b - a)) - 1 = a + k - 1
      BY <2>2
    <3>2. k \in 1 .. Len(s) + Len(t) /\ Len(s) = b - a /\ ~(k <= Len(s))
      BY <1>1, <1>2, <2>2
    <3>3. v[k] = t[k - (b - a)]
      BY <1>4, <3>2
    <3>4. t[k - (b - a)] = b + (k - (b - a)) - 1
      BY <1>2, <3>1
    <3> QED
      BY <1>3, <3>1, <3>3, <3>4
  <2> QED
    BY <2>1, <2>2
<1> HIDE DEF v
<1>7. v = u
  BY <1>3, <1>4, <1>5, <1>6, SeqEqual
<1> QED
  BY <1>7 DEF s, t, u, v

LEMMA CountersAreRun ==
  ASSUME NEW r PROVE Counters(r) = Run(r.first, r.last)
BY DEF Counters, range_len, Run

-----------------------------------------------------------------------------
(* Runs one after the other, flattened.                                    *)
LEMMA RunsFlatten ==
  ASSUME NEW n \in Nat \ {0}, NEW F \in [0 .. n -> Nat],
         \A i \in 0 .. n - 1 : F[i] <= F[i + 1]
  PROVE  FlattenSeq([k \in 1 .. n |-> Run(F[k - 1], F[k] - 1)]) = Run(F[0], F[n] - 1)
<1> DEFINE seqs == [k \in 1 .. n |-> Run(F[k - 1], F[k] - 1)]
           Is(g) == g = [i \in 1 .. Len(seqs) |-> IF i = 1 THEN seqs[i] ELSE g[i - 1] \o seqs[i]]
           h == [i \in 1 .. n |-> Run(F[0], F[i] - 1)]
           rises == {i \in Nat : i <= n => F[0] <= F[i]}
<1>1. Len(seqs) = n /\ \A k \in 1 .. n : seqs[k] = Run(F[k - 1], F[k] - 1)
  OBVIOUS
<1> HIDE DEF seqs
<1>2. ASSUME NEW i \in 0 .. n PROVE F[0] <= F[i]
  <2>1. 0 \in rises
    <3>1. F[0] \in Nat
      OBVIOUS
    <3> QED
      BY <3>1
  <2>2. ASSUME NEW k \in Nat, k \in rises PROVE k + 1 \in rises
    <3> SUFFICES ASSUME k + 1 <= n PROVE F[0] <= F[k + 1]
      OBVIOUS
    <3>1. k \in 0 .. n - 1 /\ k \in 0 .. n /\ k + 1 \in 0 .. n /\ 0 \in 0 .. n
      OBVIOUS
    <3>2. F[0] \in Nat /\ F[k] \in Nat /\ F[k + 1] \in Nat
      BY <3>1
    <3> QED
      BY <2>2, <3>1, <3>2
  <2> HIDE DEF rises
  <2>3. i \in Nat /\ i <= n
    OBVIOUS
  <2>4. i \in rises
    BY <2>1, <2>2, <2>3, Induction
  <2> QED
    BY <2>3, <2>4 DEF rises
<1>3. ASSUME NEW i \in 1 .. n
      PROVE  Run(F[0], F[i] - 1) = IF i = 1 THEN seqs[i] ELSE Run(F[0], F[i - 1] - 1) \o seqs[i]
  <2>1. /\ i \in 0 .. n /\ i - 1 \in 0 .. n /\ i - 1 \in 0 .. n - 1 /\ (i - 1) + 1 = i
        /\ 0 \in 0 .. n
    OBVIOUS
  <2>2. F[0] \in Nat /\ F[i] \in Nat /\ F[i - 1] \in Nat /\ F[0] <= F[i - 1] /\ F[i - 1] <= F[i]
    BY <1>2, <2>1
  <2>3. Run(F[0], F[i - 1] - 1) \o Run(F[i - 1], F[i] - 1) = Run(F[0], F[i] - 1)
    BY <2>2, RunJoins
  <2>4. CASE i = 1
    <3>1. i - 1 = 0
      BY <2>4
    <3> QED
      BY <1>1, <2>4, <3>1
  <2>5. CASE i # 1
    BY <1>1, <2>3, <2>5
  <2> QED
    BY <2>4, <2>5
<1>4. \A i \in 1 .. n : h[i] = Run(F[0], F[i] - 1)
  OBVIOUS
<1>5. Is(h)
  <2>1. ASSUME NEW i \in 1 .. n PROVE h[i] = IF i = 1 THEN seqs[i] ELSE h[i - 1] \o seqs[i]
    <3>1. CASE i = 1
      BY <1>3, <3>1
    <3>2. CASE i # 1
      <4>1. i - 1 \in 1 .. n
        BY <3>2
      <4> QED
        BY <1>3, <1>4, <3>2, <4>1
    <3> QED
      BY <3>1, <3>2
  <2>2. h = [i \in 1 .. n |-> h[i]]
    OBVIOUS
  <2> HIDE DEF h
  <2> QED
    BY <1>1, <2>1, <2>2
<1> DEFINE f == CHOOSE g : Is(g)
           T == {i \in Nat : 1 <= i /\ i <= n => f[i] = h[i]}
<1>6. FlattenSeq(seqs) = f[n]
  BY <1>1 DEF FlattenSeq
<1>7. Is(f)
  <2> HIDE DEF h
  <2> QED
    BY <1>5
<1>8. \A i \in 1 .. n : f[i] = IF i = 1 THEN seqs[i] ELSE f[i - 1] \o seqs[i]
  BY <1>1, <1>7
<1> HIDE DEF f
<1>9. n \in T
  <2>1. 0 \in T
    OBVIOUS
  <2>2. ASSUME NEW k \in Nat, k \in T PROVE k + 1 \in T
    <3> SUFFICES ASSUME k + 1 <= n PROVE f[k + 1] = h[k + 1]
      OBVIOUS
    <3>1. k + 1 \in 1 .. n /\ (k + 1) - 1 = k
      OBVIOUS
    <3>2. CASE k = 0
      BY <1>3, <1>4, <1>8, <3>1, <3>2
    <3>3. CASE k # 0
      <4>1. k \in 1 .. n /\ k + 1 # 1
        BY <3>3
      <4>2. f[k] = h[k]
        BY <2>2, <4>1
      <4> HIDE DEF h
      <4>3. f[k + 1] = f[k] \o seqs[k + 1]
        BY <1>8, <3>1, <4>1
      <4>4. h[k + 1] = h[k] \o seqs[k + 1]
        BY <1>3, <1>4, <3>1, <4>1
      <4> QED
        BY <4>2, <4>3, <4>4
    <3> QED
      BY <3>2, <3>3
  <2> HIDE DEF T
  <2> QED
    BY <2>1, <2>2, Induction
<1>10. f[n] = h[n] /\ h[n] = Run(F[0], F[n] - 1)
  <2>1. n \in 1 .. n
    OBVIOUS
  <2> QED
    BY <1>4, <1>9, <2>1
<1> QED
  BY <1>6, <1>10 DEF seqs

(* The borders of the parts: part i goes from F[i] to just before F[i + 1].*)
Borders(F, r, n) ==
  /\ F \in [0 .. n -> Nat] /\ F[0] = r.first /\ F[n] = r.last + 1
  /\ \A i \in 0 .. n - 1 : /\ F[i] < F[i + 1] /\ F[i + 1] <= r.last + 1
                           /\ part_firsts(r, n)[i] = F[i]
                           /\ F[i + 1] = F[i] + part_span(r, n, i) + 1

(* split's loop walks along the borders: none of its sums wraps before the *)
(* last part is made.                                                      *)
LEMMA PartBorders ==
  ASSUME NEW r, RangeOk(r), NEW n \in Nat \ {0}, n <= range_len(r)
  PROVE  \E F : Borders(F, r, n)
<1> USE WidthsAreNat
<1> DEFINE len == range_len(r)
           base == len \div n
           extra == len % n
           F == [i \in 0 .. n |-> r.first + i * base + (IF i < extra THEN i ELSE extra)]
           Is(g) == g = [i \in 0 .. n |-> IF i = 0 THEN r.first
                         ELSE (g[i - 1] + part_span(r, n, i - 1) + 1) % (CounterMax + 1)]
<1>1. /\ r.first \in Nat /\ r.last \in Nat /\ r.first <= r.last
      /\ len = r.last - r.first + 1 /\ len \in Nat \ {0} /\ n <= len
  BY DEF RangeOk, Ranges, range_len
<1>2. CounterMax \in Nat /\ r.last <= CounterMax
  BY <1>1, Limits DEF RangeOk, Ranges
<1> HIDE DEF len
<1>3. base \in Nat /\ extra \in Nat /\ extra < n /\ len = n * base + extra
  BY <1>1, Quotient
<1>4. base # 0
  BY <1>1, <1>3
<1>5. \A i \in Int : part_span(r, n, i) = base + (IF i < extra THEN 1 ELSE 0) - 1
  BY DEF part_span, len
<1> HIDE DEF base, extra
<1>6. \A i \in 0 .. n : i * base \in Nat /\ F[i] = r.first + i * base + (IF i < extra THEN i ELSE extra)
  BY <1>3
<1>7. F \in [0 .. n -> Nat]
  BY <1>1, <1>3, <1>6
<1> HIDE DEF F
<1>8. F[0] = r.first
  BY <1>1, <1>3, <1>6
<1>9. F[n] = r.last + 1
  BY <1>1, <1>3, <1>6
<1>10. ASSUME NEW i \in 0 .. n - 1
       PROVE  /\ F[i + 1] = F[i] + base + (IF i < extra THEN 1 ELSE 0)
              /\ F[i + 1] = F[i] + part_span(r, n, i) + 1
              /\ F[i] < F[i + 1] /\ F[i + 1] <= r.last + 1
  <2>1. i \in 0 .. n /\ i + 1 \in 0 .. n /\ n - (i + 1) \in Nat
    OBVIOUS
  <2>2. (i + 1) * base = i * base + base
    BY <1>3
  <2>3. F[i] \in Nat /\ F[i + 1] \in Nat
    BY <1>7, <2>1
  <2>4. F[i + 1] = F[i] + base + (IF i < extra THEN 1 ELSE 0)
    BY <1>1, <1>3, <1>6, <2>1, <2>2
  <2>5. (n - (i + 1)) * base \in Nat /\ (n - (i + 1)) * base = n * base - (i + 1) * base
    BY <1>3, <2>1
  <2>6. F[i + 1] <= F[n]
    <3> DEFINE x == (i + 1) * base
               y == n * base
               c == IF i + 1 < extra THEN i + 1 ELSE extra
    <3>1. n \in 0 .. n /\ ~(n < extra)
      BY <1>3
    <3>2. F[i + 1] = r.first + x + c /\ x \in Nat
      BY <1>6, <2>1
    <3>3. F[n] = r.first + y + extra /\ y \in Nat
      BY <1>6, <3>1
    <3>4. y - x \in Nat
      BY <2>5
    <3>5. c \in Nat /\ c <= extra /\ extra \in Nat
      BY <1>3, <2>1
    <3> HIDE DEF x, y, c
    <3> QED
      BY <1>1, <3>2, <3>3, <3>4, <3>5
  <2> QED
    BY <1>1, <1>3, <1>4, <1>5, <1>9, <2>3, <2>4, <2>6
<1> DEFINE h == [i \in 0 .. n |-> IF i = n THEN (r.last + 1) % (CounterMax + 1) ELSE F[i]]
           f == part_firsts(r, n)
           T == {i \in Nat : i <= n - 1 => f[i] = F[i]}
<1>11. ASSUME NEW i \in 0 .. n - 1
       PROVE  (F[i] + part_span(r, n, i) + 1) % (CounterMax + 1) = h[i + 1]
  <2>1. i + 1 \in 0 .. n /\ F[i + 1] = F[i] + part_span(r, n, i) + 1
    BY <1>10
  <2>2. CASE i + 1 = n
    BY <1>9, <2>1, <2>2
  <2>3. CASE i + 1 # n
    <3>1. i + 1 \in 0 .. n - 1 /\ h[i + 1] = F[i + 1] /\ F[i + 1] \in Nat /\ F[(i + 1) + 1] \in Nat
      BY <1>7, <2>3
    <3>2. F[i + 1] < F[(i + 1) + 1] /\ F[(i + 1) + 1] <= r.last + 1
      BY <1>10, <3>1
    <3>3. F[i + 1] < CounterMax + 1
      BY <1>1, <1>2, <3>1, <3>2
    <3>4. F[i + 1] % (CounterMax + 1) = F[i + 1]
      BY <1>2, <3>1, <3>3
    <3> QED
      BY <2>1, <3>1, <3>4
  <2> QED
    BY <2>2, <2>3
<1>12. Is(h)
  <2>1. ASSUME NEW i \in 0 .. n
        PROVE  h[i] = IF i = 0 THEN r.first
                      ELSE (h[i - 1] + part_span(r, n, i - 1) + 1) % (CounterMax + 1)
    <3>1. CASE i = 0
      BY <1>8, <3>1
    <3>2. CASE i # 0
      <4>1. i - 1 \in 0 .. n - 1 /\ (i - 1) + 1 = i /\ h[i - 1] = F[i - 1]
        BY <3>2
      <4> QED
        BY <1>11, <3>2, <4>1
    <3> QED
      BY <3>1, <3>2
  <2> QED
    BY <2>1
<1> HIDE DEF h
<1>13. Is(f)
  BY <1>12 DEF part_firsts
<1>14. \A i \in 0 .. n : f[i] = IF i = 0 THEN r.first
                ELSE (f[i - 1] + part_span(r, n, i - 1) + 1) % (CounterMax + 1)
  BY <1>13
<1> HIDE DEF f
<1>15. \A i \in 0 .. n - 1 : h[i] = F[i]
  BY DEF h
<1>16. ASSUME NEW i \in 0 .. n - 1 PROVE f[i] = F[i]
  <2>1. 0 \in T
    BY <1>8, <1>14
  <2>2. ASSUME NEW k \in Nat, k \in T PROVE k + 1 \in T
    <3> SUFFICES ASSUME k + 1 <= n - 1 PROVE f[k + 1] = F[k + 1]
      OBVIOUS
    <3>1. k \in 0 .. n - 1 /\ k + 1 \in 0 .. n /\ k + 1 \in 0 .. n - 1 /\ k + 1 # 0 /\ (k + 1) - 1 = k
      OBVIOUS
    <3>2. f[k] = F[k]
      BY <2>2, <3>1
    <3>3. f[k + 1] = (f[k] + part_span(r, n, k) + 1) % (CounterMax + 1)
      BY <1>14, <3>1
    <3> QED
      BY <1>11, <1>15, <3>1, <3>2, <3>3
  <2> HIDE DEF T
  <2>3. i \in Nat /\ i <= n - 1
    OBVIOUS
  <2>4. i \in T
    BY <2>1, <2>2, <2>3, Induction
  <2> QED
    BY <2>3, <2>4 DEF T
<1>17. Borders(F, r, n)
  BY <1>7, <1>8, <1>9, <1>10, <1>16 DEF Borders, f
<1> QED
  BY <1>17

(* Each part is a range of the same slot.                                  *)
LEMMA PartsAre ==
  ASSUME NEW r, RangeOk(r), NEW n \in Nat \ {0}, n <= range_len(r), NEW F, Borders(F, r, n),
         NEW k \in 1 .. n
  PROVE  /\ parts_of(r, n)[k] = [first |-> F[k - 1], last |-> F[k] - 1, width |-> r.width]
         /\ RangeOk(parts_of(r, n)[k])
         /\ range_len(parts_of(r, n)[k]) = part_span(r, n, k - 1) + 1
<1> DEFINE q == parts_of(r, n)[k]
<1>1. k - 1 \in 0 .. n - 1 /\ (k - 1) + 1 = k /\ k \in 0 .. n /\ k - 1 \in 0 .. n
  OBVIOUS
<1>2. /\ F[k - 1] \in Nat /\ F[k] \in Nat /\ F[k - 1] < F[k] /\ F[k] <= r.last + 1
      /\ part_firsts(r, n)[k - 1] = F[k - 1] /\ F[k] = F[k - 1] + part_span(r, n, k - 1) + 1
  BY <1>1 DEF Borders
<1>3. part_span(r, n, k - 1) \in Int
  <2>1. range_len(r) \in Nat
    BY DEF RangeOk, Ranges, range_len
  <2> DEFINE len == range_len(r)
  <2> HIDE DEF len
  <2>2. len \div n \in Nat /\ len % n \in Nat
    BY <2>1, Quotient DEF len
  <2> QED
    BY <2>2 DEF part_span, len
<1>4. q = [first |-> F[k - 1], last |-> F[k - 1] + part_span(r, n, k - 1), width |-> r.width]
  BY <1>2 DEF parts_of
<1>5. F[k - 1] + part_span(r, n, k - 1) = F[k] - 1
  BY <1>2, <1>3
<1>6. q = [first |-> F[k - 1], last |-> F[k] - 1, width |-> r.width]
  BY <1>4, <1>5
<1> HIDE DEF q
<1>7. RangeOk(q)
  <2>1. r.width \in 1 .. MAX_WIDTH /\ r.last \in Nat /\ r.last <= max_counter(r.width)
    BY DEF RangeOk, Ranges
  <2>2. max_counter(r.width) \in Nat
    BY <2>1, Limits
  <2>3. F[k] - 1 \in Nat /\ F[k - 1] <= F[k] - 1 /\ F[k] - 1 <= max_counter(r.width)
    BY <1>2, <2>1, <2>2
  <2> QED
    BY <1>2, <1>6, <2>1, <2>3 DEF RangeOk, Ranges
<1>8. range_len(q) = part_span(r, n, k - 1) + 1
  BY <1>2, <1>3, <1>6 DEF range_len
<1> QED
  BY <1>6, <1>7, <1>8 DEF q

(* The parts are all of the range, once.                                   *)
LEMMA SplitPartitions ==
  ASSUME RangeOk(range), NEW n \in Nat
  PROVE  Partitions(n)
<1> DEFINE len == range_len(range)
           parts == parts_of(range, n)
<1>1. len \in Nat
  BY DEF RangeOk, Ranges, range_len
<1>2. CASE n = 0 \/ n > len
  BY <1>2 DEF Partitions, split
<1>3. CASE ~(n = 0 \/ n > len)
  <2>1. n \in Nat \ {0} /\ n <= len
    BY <1>1, <1>3
  <2>2. PICK F : Borders(F, range, n)
    BY <2>1, PartBorders
  <2>3. split(range, n) = <<parts>>
    BY <1>3 DEF split, Some
  <2>4. split(range, n) # None /\ The(split(range, n)) = parts
    BY <2>3 DEF None, The
  <2>5. \A k \in 1 .. n :
          /\ parts[k] = [first |-> F[k - 1], last |-> F[k] - 1, width |-> range.width]
          /\ range_len(parts[k]) = part_span(range, n, k - 1) + 1
    BY <2>1, <2>2, PartsAre
  <2> HIDE DEF parts
  <2>6. FlattenSeq([k \in 1 .. n |-> Counters(parts[k])]) = Counters(range)
    <3>1. ASSUME NEW k \in 1 .. n PROVE Counters(parts[k]) = Run(F[k - 1], F[k] - 1)
      <4>1. parts[k].first = F[k - 1] /\ parts[k].last = F[k] - 1
        <5>1. parts[k] = [first |-> F[k - 1], last |-> F[k] - 1, width |-> range.width]
          BY <2>5
        <5> QED
          BY <5>1
      <4>2. Counters(parts[k]) = Run(parts[k].first, parts[k].last)
        BY CountersAreRun
      <4> QED
        BY <4>1, <4>2
    <3>2. [k \in 1 .. n |-> Counters(parts[k])] = [k \in 1 .. n |-> Run(F[k - 1], F[k] - 1)]
      BY <3>1
    <3>3. F \in [0 .. n -> Nat] /\ \A i \in 0 .. n - 1 : F[i] <= F[i + 1]
      <4>1. F \in [0 .. n -> Nat]
        BY <2>2 DEF Borders
      <4>2. ASSUME NEW i \in 0 .. n - 1 PROVE F[i] <= F[i + 1]
        <5>1. F[i] \in Nat /\ F[i + 1] \in Nat /\ F[i] < F[i + 1]
          BY <2>1, <2>2, <4>1 DEF Borders
        <5> QED
          BY <5>1
      <4> QED
        BY <4>1, <4>2
    <3>4. F[0] = range.first /\ F[n] - 1 = range.last
      BY <2>1, <2>2 DEF Borders, RangeOk, Ranges
    <3> QED
      BY <2>1, <3>2, <3>3, <3>4, RunsFlatten, CountersAreRun
  <2>7. /\ \A k \in 1 .. n : /\ range_len(parts[k]) > 0
                             /\ range_len(parts[k]) \in {range_len(parts[n]), range_len(parts[n]) + 1}
        /\ \A k \in 2 .. n : range_len(parts[k]) <= range_len(parts[k - 1])
    <3> DEFINE base == len \div n
               extra == len % n
               size(k) == base + (IF k - 1 < extra THEN 1 ELSE 0)
    <3>1. base \in Nat /\ extra \in Nat /\ extra < n /\ len = n * base + extra
      BY <1>1, <2>1, Quotient
    <3>2. base # 0
      BY <2>1, <3>1
    <3>3. \A i \in Int : part_span(range, n, i) = base + (IF i < extra THEN 1 ELSE 0) - 1
      BY DEF part_span
    <3> HIDE DEF base, extra
    <3>4. ASSUME NEW k \in 1 .. n PROVE range_len(parts[k]) = size(k)
      <4>1. k - 1 \in Int
        OBVIOUS
      <4>2. part_span(range, n, k - 1) = base + (IF k - 1 < extra THEN 1 ELSE 0) - 1
        BY <3>3, <4>1
      <4>3. range_len(parts[k]) = part_span(range, n, k - 1) + 1
        BY <2>5
      <4> QED
        BY <3>1, <4>1, <4>2, <4>3
    <3>5. n \in 1 .. n /\ \A k \in 2 .. n : k \in 1 .. n /\ k - 1 \in 1 .. n
      BY <2>1
    <3>6. \A k \in 1 .. n : size(k) > 0 /\ size(k) \in {size(n), size(n) + 1}
      BY <2>1, <3>1, <3>2
    <3>7. \A k \in 2 .. n : size(k) <= size(k - 1)
      BY <2>1, <3>1, <3>2
    <3> QED
      BY <3>4, <3>5, <3>6, <3>7
  <2> QED
    BY <2>4, <2>6, <2>7 DEF Partitions
<1> QED
  BY <1>2, <1>3

-----------------------------------------------------------------------------
(***************************************************************************)
(* The iterator returns what the sequence of its counters returns.         *)
(***************************************************************************)
LEMMA RunOf ==
  ASSUME NEW a \in Nat, NEW b \in Nat, a <= b
  PROVE  /\ Run(a, b) \in Seq(Int) /\ Len(Run(a, b)) = b - a + 1 /\ Run(a, b) # <<>>
         /\ \A k \in 1 .. b - a + 1 : Run(a, b)[k] = a + k - 1
<1>1. a \in Int /\ b \in Int /\ b >= a - 1 /\ b # a - 1
  OBVIOUS
<1> QED
  BY <1>1, RunIs

LEMMA RunPiece ==
  ASSUME NEW a \in Nat, NEW b \in Nat, NEW c \in Nat, NEW d \in Int,
         a <= c, c <= d + 1, d <= b
  PROVE  SubSeq(Run(a, b), c - a + 1, d - a + 1) = Run(c, d)
<1> DEFINE m == c - a + 1
           n == d - a + 1
<1>1. b \in Int /\ b >= a - 1 /\ m \in Nat /\ n \in Int /\ m >= 1 /\ n >= m - 1 /\ n <= b - a + 1
  OBVIOUS
<1>2. a + m - 1 = c /\ a + n - 1 = d
  OBVIOUS
<1> HIDE DEF m, n
<1>3. SubSeq(Run(a, b), m, n) = Run(a + m - 1, a + n - 1)
  <2>1. \A x \in Nat, y \in Int, i \in Nat, j \in Int :
          y >= x - 1 /\ i >= 1 /\ j >= i - 1 /\ j <= y - x + 1 =>
            SubSeq(Run(x, y), i, j) = Run(x + i - 1, x + j - 1)
    BY RunCut
  <2> QED
    BY <1>1, <2>1, Zenon
<1> QED
  BY <1>2, <1>3 DEF m, n

LEMMA RunEnds ==
  ASSUME NEW a \in Nat, NEW b \in Nat, a <= b
  PROVE  /\ Head(Run(a, b)) = a /\ Tail(Run(a, b)) = Run(a + 1, b)
         /\ Last(Run(a, b)) = b /\ Front(Run(a, b)) = Run(a, b - 1)
<1> DEFINE s == Run(a, b)
<1>1. /\ s \in Seq(Int) /\ Len(s) = b - a + 1 /\ s # <<>>
      /\ \A k \in 1 .. b - a + 1 : s[k] = a + k - 1
  BY RunOf
<1>2. SubSeq(s, 2, Len(s)) = Run(a + 1, b)
  <2> DEFINE c == a + 1
  <2>1. /\ c \in Nat /\ b \in Int /\ a <= c /\ c <= b + 1 /\ b <= b
        /\ 2 = c - a + 1 /\ Len(s) = b - a + 1
    BY <1>1
  <2> HIDE DEF c
  <2>2. SubSeq(Run(a, b), c - a + 1, b - a + 1) = Run(c, b)
    BY <2>1, RunPiece
  <2> QED
    BY <2>1, <2>2 DEF c
<1>3. SubSeq(s, 1, Len(s) - 1) = Run(a, b - 1)
  <2> DEFINE d == b - 1
  <2>1. /\ d \in Int /\ a <= a /\ a <= d + 1 /\ d <= b
        /\ 1 = a - a + 1 /\ Len(s) - 1 = d - a + 1
    BY <1>1
  <2> HIDE DEF d
  <2>2. SubSeq(Run(a, b), a - a + 1, d - a + 1) = Run(a, d)
    BY <2>1, RunPiece
  <2> QED
    BY <2>1, <2>2 DEF d
<1>4. 1 \in 1 .. b - a + 1 /\ b - a + 1 \in 1 .. b - a + 1
  OBVIOUS
<1> HIDE DEF s
<1>5. Head(s) = a /\ Last(s) = b
  <2>1. s[1] = a + 1 - 1 /\ s[b - a + 1] = a + (b - a + 1) - 1
    BY <1>1, <1>4
  <2>2. Head(s) = s[1]
    BY <1>1
  <2> QED
    BY <1>1, <2>1, <2>2 DEF Last
<1>6. Tail(s) = SubSeq(s, 2, Len(s))
  BY <1>1, TailIsSubSeq
<1> QED
  BY <1>2, <1>3, <1>5, <1>6 DEF s, Front

(* next takes the first counter.                                           *)
LEMMA NextTracks ==
  ASSUME NEW i, NEW s, NEW top \in Nat, Tracks(i, s, top)
  PROVE  /\ Tracks(next(i).it, IF s = <<>> THEN <<>> ELSE Tail(s), top)
         /\ next(i).item = IF s = <<>> THEN None ELSE Some(Head(s))
<1>1. CASE \E b \in Int : i = [next |-> <<>>, last |-> b] /\ s = <<>>
  <2>1. next(i).it = i /\ next(i).item = <<>>
    BY <1>1 DEF next, Ended, Gives, None
  <2> QED
    BY <1>1, <2>1 DEF None
<1>2. ASSUME NEW a \in Nat, NEW b \in Nat, a <= b, b <= top,
             i = [next |-> <<a>>, last |-> b], s = Run(a, b)
      PROVE  /\ Tracks(next(i).it, IF s = <<>> THEN <<>> ELSE Tail(s), top)
             /\ next(i).item = IF s = <<>> THEN None ELSE Some(Head(s))
  <2>1. /\ s \in Seq(Int) /\ Len(s) = b - a + 1 /\ s # <<>>
        /\ \A k \in 1 .. b - a + 1 : s[k] = a + k - 1
    BY <1>2, RunOf
  <2>2. Head(s) = a
    BY <1>2, RunEnds
  <2>3. Tail(s) = Run(a + 1, b)
    BY <1>2, RunEnds
  <2>4. /\ next(i).item = <<a>>
        /\ next(i).it = [next |-> IF a < b THEN <<a + 1>> ELSE <<>>, last |-> b]
    BY <1>2 DEF next, Ended, Gives, None, The, Some
  <2>5. Tracks(next(i).it, Tail(s), top)
    <3>1. CASE a < b
      BY <1>2, <2>3, <2>4, <3>1 DEF Tracks
    <3>2. CASE ~(a < b)
      <4>1. a + 1 \in Int /\ b >= (a + 1) - 1 /\ b = (a + 1) - 1
        BY <1>2, <3>2
      <4>2. Run(a + 1, b) = <<>>
        BY <4>1, RunIs
      <4> QED
        BY <1>2, <2>3, <2>4, <3>2, <4>2, SMTT(30) DEF Tracks
    <3> QED
      BY <3>1, <3>2
  <2> QED
    BY <2>1, <2>2, <2>4, <2>5 DEF Some
<1> QED
  BY <1>1, <1>2 DEF Tracks

(* next_back takes the last counter.                                       *)
LEMMA NextBackTracks ==
  ASSUME NEW i, NEW s, NEW top \in Nat, Tracks(i, s, top)
  PROVE  /\ Tracks(next_back(i).it, IF s = <<>> THEN <<>> ELSE Front(s), top)
         /\ next_back(i).item = IF s = <<>> THEN None ELSE Some(Last(s))
<1>1. CASE \E b \in Int : i = [next |-> <<>>, last |-> b] /\ s = <<>>
  <2>1. next_back(i).it = i /\ next_back(i).item = <<>>
    BY <1>1 DEF next_back, Ended, Gives, None
  <2> QED
    BY <1>1, <2>1 DEF None
<1>2. ASSUME NEW a \in Nat, NEW b \in Nat, a <= b, b <= top,
             i = [next |-> <<a>>, last |-> b], s = Run(a, b)
      PROVE  /\ Tracks(next_back(i).it, IF s = <<>> THEN <<>> ELSE Front(s), top)
             /\ next_back(i).item = IF s = <<>> THEN None ELSE Some(Last(s))
  <2>1. /\ s \in Seq(Int) /\ Len(s) = b - a + 1 /\ s # <<>>
        /\ \A k \in 1 .. b - a + 1 : s[k] = a + k - 1
    BY <1>2, RunOf
  <2>2. Last(s) = b
    BY <1>2, RunEnds
  <2>3. Front(s) = Run(a, b - 1)
    BY <1>2, RunEnds
  <2>4. /\ next_back(i).item = <<b>>
        /\ next_back(i).it = IF b = a THEN [next |-> <<>>, last |-> b]
                             ELSE [next |-> <<a>>, last |-> b - 1]
    BY <1>2 DEF next_back, Ended, Gives, None, The, Some
  <2>5. Tracks(next_back(i).it, Front(s), top)
    <3>1. CASE b = a
      <4>1. Run(a, b - 1) = <<>>
        BY <1>2, <3>1, RunIs
      <4> QED
        BY <1>2, <2>3, <2>4, <3>1, <4>1 DEF Tracks
    <3>2. CASE b # a
      <4>1. b - 1 \in Nat /\ a <= b - 1 /\ b - 1 <= top
        BY <1>2, <3>2
      <4> QED
        BY <1>2, <2>3, <2>4, <3>2, <4>1 DEF Tracks
    <3> QED
      BY <3>1, <3>2
  <2> QED
    BY <2>1, <2>2, <2>4, <2>5 DEF Some
<1> QED
  BY <1>1, <1>2 DEF Tracks

(* nth skips n counters and takes the next.                                *)
LEMMA NthTracks ==
  ASSUME NEW i, NEW s, NEW top \in Nat, Tracks(i, s, top), top <= CounterMax, CounterMax \in Nat,
         NEW n \in Nat
  PROVE  /\ Tracks(nth(i, n).it, SubSeq(s, n + 2, Len(s)), top)
         /\ nth(i, n).item = IF n < Len(s) THEN Some(s[n + 1]) ELSE None
<1>1. CASE \E b \in Int : i = [next |-> <<>>, last |-> b] /\ s = <<>>
  <2>1. nth(i, n).it = i /\ nth(i, n).item = <<>>
    BY <1>1 DEF nth, Ended, Gives, None
  <2>2. Len(s) = 0 /\ SubSeq(s, n + 2, Len(s)) = <<>>
    BY <1>1, SubSeqEmpty
  <2> QED
    BY <1>1, <2>1, <2>2 DEF None, Tracks
<1>2. ASSUME NEW a \in Nat, NEW b \in Nat, a <= b, b <= top,
             i = [next |-> <<a>>, last |-> b], s = Run(a, b)
      PROVE  /\ Tracks(nth(i, n).it, SubSeq(s, n + 2, Len(s)), top)
             /\ nth(i, n).item = IF n < Len(s) THEN Some(s[n + 1]) ELSE None
  <2>1. /\ s \in Seq(Int) /\ Len(s) = b - a + 1
        /\ \A k \in 1 .. b - a + 1 : s[k] = a + k - 1
    BY <1>2, RunOf
  <2>2. CASE a + n <= b
    <3> DEFINE j == [next |-> <<a + n>>, last |-> b]
    <3>1. nth(i, n) = next(j)
      <4>1. a + n <= CounterMax
        BY <1>2, <2>2
      <4> QED
        BY <1>2, <2>2, <4>1 DEF nth, Ended, None, The, Some
    <3>2. Tracks(j, Run(a + n, b), top)
      BY <1>2, <2>2 DEF Tracks
    <3> HIDE DEF j
    <3>3. a + n \in Nat
      OBVIOUS
    <3>4. Run(a + n, b) # <<>>
      BY <2>2, <3>3, RunOf
    <3>5. Head(Run(a + n, b)) = a + n
      BY <2>2, <3>3, RunEnds
    <3>6. Tail(Run(a + n, b)) = SubSeq(s, n + 2, Len(s))
      <4>1. Tail(Run(a + n, b)) = Run((a + n) + 1, b)
        BY <2>2, <3>3, RunEnds
      <4> DEFINE c == (a + n) + 1
      <4>2. n + 2 = c - a + 1 /\ Len(s) = b - a + 1
        BY <2>1
      <4>3. c \in Nat /\ b \in Int /\ a <= c /\ c <= b + 1 /\ b <= b
        BY <2>2
      <4> HIDE DEF c
      <4>4. SubSeq(Run(a, b), c - a + 1, b - a + 1) = Run(c, b)
        BY <4>3, RunPiece
      <4> QED
        BY <1>2, <4>1, <4>2, <4>4 DEF c
    <3>7. n < Len(s) /\ s[n + 1] = a + n
      <4>1. n + 1 \in 1 .. b - a + 1 /\ a + (n + 1) - 1 = a + n
        BY <2>2
      <4> QED
        BY <2>1, <4>1
    <3> QED
      BY <3>1, <3>2, <3>4, <3>5, <3>6, <3>7, NextTracks
  <2>3. CASE ~(a + n <= b)
    <3>1. nth(i, n).it = [next |-> <<>>, last |-> b] /\ nth(i, n).item = <<>>
      BY <1>2, <2>3 DEF nth, Ended, None, The, Some, Exhaust, Gives
    <3>2. SubSeq(s, n + 2, Len(s)) = <<>>
      <4>1. n + 2 > Len(s) /\ Len(s) \in Nat
        BY <2>1, <2>3
      <4> QED
        BY <2>1, <4>1, SubSeqEmpty
    <3>3. ~(n < Len(s))
      BY <2>1, <2>3
    <3> QED
      BY <3>1, <3>2, <3>3 DEF Tracks, None
  <2> QED
    BY <2>2, <2>3
<1> QED
  BY <1>1, <1>2 DEF Tracks

(* nth_back skips n counters at the back and takes the one before.         *)
LEMMA NthBackTracks ==
  ASSUME NEW i, NEW s, NEW top \in Nat, Tracks(i, s, top), NEW n \in Nat
  PROVE  /\ Tracks(nth_back(i, n).it, SubSeq(s, 1, Len(s) - n - 1), top)
         /\ nth_back(i, n).item = IF n < Len(s) THEN Some(s[Len(s) - n]) ELSE None
<1>1. CASE \E b \in Int : i = [next |-> <<>>, last |-> b] /\ s = <<>>
  <2>1. nth_back(i, n).it = i /\ nth_back(i, n).item = <<>>
    BY <1>1 DEF nth_back, Ended, Gives, None
  <2>2. Len(s) = 0 /\ SubSeq(s, 1, Len(s) - n - 1) = <<>>
    <3>1. Len(s) = 0 /\ s \in Seq(Int)
      BY <1>1
    <3>2. Len(s) - n - 1 \in Int /\ 1 > Len(s) - n - 1
      BY <3>1
    <3> QED
      BY <3>1, <3>2, SubSeqEmpty
  <2> QED
    BY <1>1, <2>1, <2>2 DEF None, Tracks
<1>2. ASSUME NEW a \in Nat, NEW b \in Nat, a <= b, b <= top,
             i = [next |-> <<a>>, last |-> b], s = Run(a, b)
      PROVE  /\ Tracks(nth_back(i, n).it, SubSeq(s, 1, Len(s) - n - 1), top)
             /\ nth_back(i, n).item = IF n < Len(s) THEN Some(s[Len(s) - n]) ELSE None
  <2>1. /\ s \in Seq(Int) /\ Len(s) = b - a + 1
        /\ \A k \in 1 .. b - a + 1 : s[k] = a + k - 1
    BY <1>2, RunOf
  <2>2. CASE a <= b - n
    <3> DEFINE c == b - n
               j == [next |-> <<a>>, last |-> c]
    <3>1. c \in Nat /\ a <= c /\ c <= top /\ c >= a - 1 /\ c # a - 1
      BY <1>2, <2>2
    <3>2. nth_back(i, n) = next_back(j)
      BY <1>2, <2>2, <3>1 DEF nth_back, Ended, None, The, Some
    <3> HIDE DEF c
    <3>3. Tracks(j, Run(a, c), top)
      BY <3>1 DEF Tracks
    <3> HIDE DEF j
    <3>4. Run(a, c) # <<>>
      BY <3>1, RunOf
    <3>5. Last(Run(a, c)) = c
      BY <3>1, RunEnds
    <3>6. Front(Run(a, c)) = SubSeq(s, 1, Len(s) - n - 1)
      <4>1. Front(Run(a, c)) = Run(a, c - 1)
        BY <3>1, RunEnds
      <4> DEFINE d == c - 1
      <4>2. /\ d \in Int /\ a <= a /\ a <= d + 1 /\ d <= b
            /\ 1 = a - a + 1 /\ Len(s) - n - 1 = d - a + 1
        BY <2>1, <2>2, <3>1 DEF c
      <4> HIDE DEF d
      <4>3. SubSeq(s, a - a + 1, d - a + 1) = Run(a, d)
        BY <1>2, <4>2, RunPiece, Zenon
      <4> QED
        BY <4>1, <4>2, <4>3 DEF d
    <3>7. n < Len(s) /\ s[Len(s) - n] = c
      <4>1. Len(s) - n \in 1 .. b - a + 1 /\ a + (Len(s) - n) - 1 = c /\ n < Len(s)
        BY <2>1, <2>2 DEF c
      <4> QED
        BY <2>1, <4>1
    <3>8. /\ Tracks(next_back(j).it, Front(Run(a, c)), top)
          /\ next_back(j).item = Some(Last(Run(a, c)))
      BY <3>3, <3>4, NextBackTracks
    <3> QED
      BY <3>2, <3>5, <3>6, <3>7, <3>8
  <2>3. CASE ~(a <= b - n)
    <3>1. nth_back(i, n).it = [next |-> <<>>, last |-> b] /\ nth_back(i, n).item = <<>>
      BY <1>2, <2>3 DEF nth_back, Ended, None, The, Some, Exhaust, Gives
    <3>2. SubSeq(s, 1, Len(s) - n - 1) = <<>>
      <4>1. Len(s) - n - 1 \in Int /\ 1 > Len(s) - n - 1
        BY <2>1, <2>3
      <4> QED
        BY <2>1, <4>1, SubSeqEmpty
    <3>3. ~(n < Len(s))
      BY <2>1, <2>3
    <3> QED
      BY <3>1, <3>2, <3>3 DEF Tracks, None
  <2> QED
    BY <2>2, <2>3
<1> QED
  BY <1>1, <1>2 DEF Tracks

LEMMA HoldsTracks ==
  ASSUME NEW r, RangeOk(r)
  PROVE  Tracks(iter(r), Counters(r), max_counter(r.width))
<1>1. Counters(r) = Run(r.first, r.last)
  BY CountersAreRun
<1>2. iter(r) = [next |-> <<r.first>>, last |-> r.last]
  BY DEF iter, Some
<1> QED
  BY <1>1, <1>2 DEF Tracks, RangeOk, Ranges

LEMMA SpaceStart == SpaceInit => SpaceInv
<1> SUFFICES ASSUME SpaceInit PROVE SpaceInv
  OBVIOUS
<1>1. PICK w \in 1 .. MAX_WIDTH, c \in 0 .. CounterMax :
         /\ from_bytes(be_bytes(c, w)) # Err
         /\ Holds(starting_at(The(from_bytes(be_bytes(c, w)))))
  BY DEF SpaceInit
<1> DEFINE r == starting_at(The(from_bytes(be_bytes(c, w))))
<1>2. c \in Nat
  BY Limits
<1>3. RangeOk(r)
  BY <1>1, <1>2, RangeBegins
<1>4. Holds(r)
  BY <1>1
<1> HIDE DEF r
<1> QED
  BY <1>3, <1>4, HoldsTracks DEF Holds, SpaceInv, Gives, None

LEMMA SplitStep ==
  ASSUME SpaceInv, NEW n \in Nat, NEW k \in 1 .. n, SplitFor(n, k)
  PROVE  SpaceInv'
<1> DEFINE q == parts_of(range, n)[k]
<1>1. range_len(range) \in Nat /\ RangeOk(range)
  BY DEF SpaceInv, RangeOk, Ranges, range_len
<1>2. n \in Nat \ {0} /\ n <= range_len(range) /\ split(range, n) = <<parts_of(range, n)>>
  BY <1>1 DEF SplitFor, split, None, Some
<1>3. range' = q
  BY <1>2 DEF SplitFor, The
<1>4. RangeOk(q)
  <2>1. PICK F : Borders(F, range, n)
    BY <1>1, <1>2, PartBorders
  <2> QED
    BY <1>1, <1>2, <2>1, PartsAre
<1> HIDE DEF q
<1>5. it' = iter(q) /\ left' = Counters(q) /\ returned' = Gives(None, None)
  BY <1>3 DEF SplitFor
<1>6. Tracks(it', left', max_counter(range'.width))
  BY <1>3, <1>4, <1>5, HoldsTracks
<1>7. RangeOk(range') /\ returned'.item = returned'.it
  BY <1>3, <1>4, <1>5 DEF Gives
<1> QED
  BY <1>6, <1>7 DEF SpaceInv, Tracks, RangeOk, Ranges, max_counter, Run, CounterMax

(* What a call leaves, and what it returned.                               *)
LEMMA CallStep ==
  ASSUME SpaceInv, NEW call, NEW item, NEW rest, Calls(call, item, rest), call.item = item,
         Tracks(call.it, rest, max_counter(range.width))
  PROVE  SpaceInv'
<1>1. range' = range /\ it' = call.it /\ left' = rest /\ returned' = Gives(call.item, item)
  BY DEF Calls
<1>2. Tracks(it', left', max_counter(range'.width))
  BY <1>1
<1>3. RangeOk(range') /\ returned'.item = returned'.it
  BY <1>1 DEF Gives, SpaceInv
<1> QED
  BY <1>2, <1>3 DEF SpaceInv, Tracks, RangeOk, Ranges, max_counter, Run, CounterMax

LEMMA SpaceStep == SpaceInv /\ [SpaceNext]_spaceVars => SpaceInv'
<1> SUFFICES ASSUME SpaceInv, [SpaceNext]_spaceVars PROVE SpaceInv'
  OBVIOUS
<1> USE WidthsAreNat
<1> DEFINE top == max_counter(range.width)
<1>1. /\ top \in Nat /\ CounterMax \in Nat /\ top <= CounterMax /\ Tracks(it, left, top)
  BY Limits DEF SpaceInv, RangeOk, Ranges
<1> HIDE DEF top
<1>2. CASE \E n \in 1 .. MaxParts : \E k \in 1 .. n : SplitFor(n, k)
  BY <1>2, SplitStep
<1>3. ASSUME NEW n \in 0 .. CounterMax + 1, CallNth(n) PROVE SpaceInv'
  <2>1. n \in Nat
    BY <1>1
  <2> QED
    BY <1>1, <1>3, <2>1, NthTracks, CallStep DEF CallNth, top
<1>4. ASSUME NEW n \in 0 .. CounterMax + 1, CallNthBack(n) PROVE SpaceInv'
  <2>1. n \in Nat
    BY <1>1
  <2> QED
    BY <1>1, <1>4, <2>1, NthBackTracks, CallStep DEF CallNthBack, top
<1>5. CASE CallNext
  BY <1>1, <1>5, NextTracks, CallStep DEF CallNext, top
<1>6. CASE CallNextBack
  BY <1>1, <1>6, NextBackTracks, CallStep DEF CallNextBack, top
<1>7. CASE UNCHANGED spaceVars
  <2>1. range' = range /\ it' = it /\ left' = left /\ returned' = returned
    BY <1>7 DEF spaceVars
  <2> QED
    BY <2>1 DEF SpaceInv, Tracks, RangeOk, Ranges, max_counter, Run, CounterMax
<1> QED
  BY <1>2, <1>3, <1>4, <1>5, <1>6, <1>7 DEF SpaceNext

(* The invariant of the search space: from its parsed start on, through    *)
(* every split and every call of next, nth, next_back and nth_back, the    *)
(* ExtranonceIter is at the counters that are left of its range.           *)
THEOREM SpaceInvariant == SpaceSpec => []SpaceInv
BY SpaceStart, SpaceStep, PTL DEF SpaceSpec

(* EachExtranonceOnce, for every radix, counter width and number of parts: *)
(* ExtranonceRange::split deals the counters out without gap or overlap,   *)
(* also where the successor of the last part wraps, and ExtranonceIter     *)
(* returns from both ends what the sequence of the counters returns.       *)
THEOREM EachExtranonceOnceCorrect == SpaceSpec => []EachExtranonceOnce
<1>1. SpaceInv => EachExtranonceOnce
  <2> SUFFICES ASSUME SpaceInv PROVE EachExtranonceOnce
    OBVIOUS
  <2>1. \A n \in 0 .. MaxParts : Partitions(n)
    BY WidthsAreNat, SplitPartitions DEF SpaceInv
  <2>2. remaining(it) = Len(left) /\ iter_last(it) = IF left = <<>> THEN None ELSE Some(Last(left))
    <3>1. CASE \E b \in Int : it = [next |-> <<>>, last |-> b] /\ left = <<>>
      BY <3>1 DEF remaining, iter_last, Ended, None
    <3>2. ASSUME NEW a \in Nat, NEW b \in Nat, a <= b,
                 it = [next |-> <<a>>, last |-> b], left = Run(a, b)
          PROVE  /\ remaining(it) = Len(left)
                 /\ iter_last(it) = IF left = <<>> THEN None ELSE Some(Last(left))
      <4>1. Len(left) = b - a + 1 /\ left # <<>> /\ Last(left) = b
        BY <3>2, RunOf, RunEnds
      <4> QED
        BY <3>2, <4>1 DEF remaining, iter_last, Ended, None, The
    <3> QED
      BY <3>1, <3>2 DEF SpaceInv, Tracks
  <2> QED
    BY <2>1, <2>2 DEF SpaceInv, EachExtranonceOnce
<1> QED
  BY <1>1, SpaceInvariant, PTL

-----------------------------------------------------------------------------
(***************************************************************************)
(* What the pool rebuilds.                                                 *)
(***************************************************************************)
(* The levels of a merkle tree up to level m.                              *)
IsLevels(g, leaves, height, m) ==
  g = [h \in 0 .. m |->
         IF h = 0 THEN leaves
         ELSE [k \in 1 .. Power(2)[height - h] |-> sha256d(g[h - 1][2 * k - 1], g[h - 1][2 * k])]]

LEMMA LevelsExist ==
  ASSUME NEW leaves, NEW height, NEW m \in Nat
  PROVE  \E g : IsLevels(g, leaves, height, m)
<1> DEFINE S == {j \in Nat : \E g : IsLevels(g, leaves, height, j)}
           up(row, h) == [k \in 1 .. Power(2)[height - h] |-> sha256d(row[2 * k - 1], row[2 * k])]
<1>1. 0 \in S
  <2>1. IsLevels([h \in 0 .. 0 |-> leaves], leaves, height, 0)
    BY DEF IsLevels
  <2> QED
    BY <2>1
<1>2. ASSUME NEW j \in Nat, j \in S PROVE j + 1 \in S
  <2>1. PICK g : IsLevels(g, leaves, height, j)
    BY <1>2
  <2>2. g = [h \in 0 .. j |-> IF h = 0 THEN leaves ELSE up(g[h - 1], h)]
    BY <2>1 DEF IsLevels
  <2> HIDE DEF up
  <2> DEFINE f == [h \in 0 .. j + 1 |-> IF h = j + 1 THEN up(g[j], j + 1) ELSE g[h]]
  <2>3. ASSUME NEW h \in 0 .. j + 1
        PROVE  f[h] = IF h = 0 THEN leaves ELSE up(f[h - 1], h)
    <3>1. CASE h = 0
      BY <2>2, <3>1
    <3>2. CASE h = j + 1
      <4>1. f[j + 1] = up(g[j], j + 1) /\ f[j] = g[j] /\ (j + 1) - 1 = j /\ h # 0
        BY <3>2
      <4> QED
        BY <3>2, <4>1
    <3>3. CASE h \in 1 .. j
      <4>1. f[h] = g[h] /\ f[h - 1] = g[h - 1] /\ h \in 0 .. j /\ h # 0
        BY <3>3
      <4> QED
        BY <2>2, <4>1
    <3> QED
      BY <3>1, <3>2, <3>3
  <2>4. f = [h \in 0 .. j + 1 |-> IF h = 0 THEN leaves ELSE up(f[h - 1], h)]
    BY <2>3
  <2> HIDE DEF f
  <2>5. IsLevels(f, leaves, height, j + 1)
    BY <2>4 DEF IsLevels, up
  <2> QED
    BY <2>5
<1> HIDE DEF S
<1>3. m \in S
  BY <1>1, <1>2, Induction
<1> QED
  BY <1>3 DEF S

(* Each level is made of the one below.                                    *)
LEMMA LevelSteps ==
  ASSUME NEW leaves, NEW height \in Nat
  PROVE  /\ Levels(leaves, height)[0] = leaves
         /\ \A h \in 0 .. height - 1 :
              Levels(leaves, height)[h + 1] =
                [k \in 1 .. Power(2)[height - (h + 1)] |->
                   sha256d(Levels(leaves, height)[h][2 * k - 1], Levels(leaves, height)[h][2 * k])]
<1> DEFINE f == Levels(leaves, height)
           up(row, h) == [k \in 1 .. Power(2)[height - h] |-> sha256d(row[2 * k - 1], row[2 * k])]
<1>1. f = CHOOSE g : IsLevels(g, leaves, height, height)
  BY DEF Levels, IsLevels
<1> HIDE DEF f
<1>2. IsLevels(f, leaves, height, height)
  BY <1>1, LevelsExist
<1>3. f = [h \in 0 .. height |-> IF h = 0 THEN leaves ELSE up(f[h - 1], h)]
  BY <1>2 DEF IsLevels
<1> HIDE DEF up
<1>4. \A h \in 0 .. height : f[h] = IF h = 0 THEN leaves ELSE up(f[h - 1], h)
  BY <1>3
<1>5. f[0] = leaves
  BY <1>4
<1>6. ASSUME NEW h \in 0 .. height - 1 PROVE f[h + 1] = up(f[h], h + 1)
  <2>1. h + 1 \in 0 .. height /\ h + 1 # 0 /\ (h + 1) - 1 = h
    OBVIOUS
  <2> QED
    BY <1>4, <2>1
<1> QED
  BY <1>5, <1>6 DEF f, up

IsClimb(g, leaf, branches, m) ==
  g = [h \in 0 .. m |-> IF h = 0 THEN leaf ELSE sha256d(g[h - 1], branches[h])]

(* A row of nodes, each made of the one below and its branch, is the climb.*)
LEMMA ClimbIs ==
  ASSUME NEW leaf, NEW branches, Len(branches) \in Nat, NEW row,
         row[0] = leaf,
         \A h \in 0 .. Len(branches) - 1 : row[h + 1] = sha256d(row[h], branches[h + 1])
  PROVE  Climb(leaf, branches)[Len(branches)] = row[Len(branches)]
<1> DEFINE m == Len(branches)
           r == [h \in 0 .. m |-> row[h]]
           f == Climb(leaf, branches)
           T == {h \in Nat : h <= m => f[h] = row[h]}
<1> HIDE DEF m
<1>1. m \in Nat
  BY DEF m
<1>2. IsClimb(r, leaf, branches, m)
  <2>1. ASSUME NEW h \in 0 .. m
        PROVE  r[h] = IF h = 0 THEN leaf ELSE sha256d(r[h - 1], branches[h])
    <3>1. CASE h = 0
      BY <1>1, <3>1
    <3>2. CASE h # 0
      <4>1. h - 1 \in 0 .. m - 1 /\ h - 1 \in 0 .. m /\ (h - 1) + 1 = h
        BY <1>1, <3>2
      <4>2. row[h] = sha256d(row[h - 1], branches[h])
        BY <4>1 DEF m
      <4> QED
        BY <3>2, <4>1, <4>2
    <3> QED
      BY <3>1, <3>2
  <2>2. r = [h \in 0 .. m |-> r[h]]
    OBVIOUS
  <2> HIDE DEF r
  <2> QED
    BY <2>1, <2>2 DEF IsClimb
<1> HIDE DEF r
<1>3. f = CHOOSE g : IsClimb(g, leaf, branches, m)
  BY DEF Climb, IsClimb, m
<1> HIDE DEF f
<1>4. IsClimb(f, leaf, branches, m)
  BY <1>2, <1>3
<1>5. \A h \in 0 .. m : f[h] = IF h = 0 THEN leaf ELSE sha256d(f[h - 1], branches[h])
  BY <1>4 DEF IsClimb
<1>6. 0 \in T
  BY <1>1, <1>5
<1>7. ASSUME NEW h \in Nat, h \in T PROVE h + 1 \in T
  <2> SUFFICES ASSUME h + 1 <= m PROVE f[h + 1] = row[h + 1]
    OBVIOUS
  <2>1. h + 1 \in 0 .. m /\ h + 1 # 0 /\ (h + 1) - 1 = h /\ h \in 0 .. m - 1 /\ f[h] = row[h]
    BY <1>1, <1>7
  <2>2. f[h + 1] = sha256d(f[h], branches[h + 1])
    BY <1>5, <2>1
  <2>3. row[h + 1] = sha256d(row[h], branches[h + 1])
    BY <2>1 DEF m
  <2> QED
    BY <2>1, <2>2, <2>3
<1> HIDE DEF T
<1>8. m \in T
  BY <1>1, <1>6, <1>7, Induction
<1>9. f[m] = row[m]
  BY <1>1, <1>8 DEF T
<1> QED
  BY <1>9 DEF f, m

(* Only the first node of a level depends on the first leaf.               *)
LEMMA SiblingsSame ==
  ASSUME NEW height \in Nat, NEW f, NEW g,
         \A k \in 2 .. Power(2)[height] : f[k] = g[k]
  PROVE  \A h \in 0 .. height : \A k \in 2 .. Power(2)[height - h] :
           Levels(f, height)[h][k] = Levels(g, height)[h][k]
<1> DEFINE F == Levels(f, height)
           G == Levels(g, height)
           p == Power(2)
           T == {h \in Nat : h <= height => \A k \in 2 .. p[height - h] : F[h][k] = G[h][k]}
<1>1. /\ F[0] = f /\ \A h \in 0 .. height - 1 :
           F[h + 1] = [k \in 1 .. p[height - (h + 1)] |-> sha256d(F[h][2 * k - 1], F[h][2 * k])]
  BY LevelSteps, SMTT(30)
<1>2. /\ G[0] = g /\ \A h \in 0 .. height - 1 :
           G[h + 1] = [k \in 1 .. p[height - (h + 1)] |-> sha256d(G[h][2 * k - 1], G[h][2 * k])]
  BY LevelSteps
<1>3. p \in [Nat -> Nat] /\ \A n \in Nat : p[n + 1] = 2 * p[n]
  BY PowerSteps
<1>4. \A k \in 2 .. p[height] : f[k] = g[k]
  OBVIOUS
<1> HIDE DEF F, G, p
<1>5. 0 \in T
  <2>1. height - 0 = height
    OBVIOUS
  <2> QED
    BY <1>1, <1>2, <1>4, <2>1
<1>6. ASSUME NEW h \in Nat, h \in T PROVE h + 1 \in T
  <2> SUFFICES ASSUME h + 1 <= height, NEW k \in 2 .. p[height - (h + 1)]
               PROVE  F[h + 1][k] = G[h + 1][k]
    OBVIOUS
  <2> DEFINE n == height - (h + 1)
  <2>1. h \in 0 .. height - 1 /\ n \in Nat /\ height - h = n + 1
    OBVIOUS
  <2>2. p[n] \in Nat /\ p[height - h] = 2 * p[n]
    BY <1>3, <2>1
  <2>3. 2 * k - 1 \in 2 .. p[height - h] /\ 2 * k \in 2 .. p[height - h] /\ k \in 1 .. p[n]
    BY <2>2
  <2>4. F[h][2 * k - 1] = G[h][2 * k - 1] /\ F[h][2 * k] = G[h][2 * k]
    BY <1>6, <2>1, <2>3
  <2>5. F[h + 1][k] = sha256d(F[h][2 * k - 1], F[h][2 * k])
    BY <1>1, <2>1, <2>3
  <2>6. G[h + 1][k] = sha256d(G[h][2 * k - 1], G[h][2 * k])
    BY <1>2, <2>1, <2>3
  <2> QED
    BY <2>4, <2>5, <2>6
<1> HIDE DEF T
<1>7. \A h \in 0 .. height : h \in Nat /\ h \in T
  BY <1>5, <1>6, Induction
<1> QED
  BY <1>7 DEF T, F, G, p

(* The coinbase and the branches give the root of the whole tree.          *)
LEMMA RootRebuilt ==
  ASSUME NEW height \in Nat, NEW c, NEW f, NEW g, NEW branches,
         f[1] = c, \A k \in 2 .. Power(2)[height] : f[k] = g[k], Len(branches) = height,
         \A h \in 1 .. height : branches[h] = Levels(g, height)[h - 1][2]
  PROVE  Climb(c, branches)[height] = Levels(f, height)[height][1]
<1> DEFINE F == Levels(f, height)
           G == Levels(g, height)
           p == Power(2)
           row == [h \in 0 .. height |-> F[h][1]]
<1>1. Len(branches) = height /\ \A h \in 1 .. height : branches[h] = G[h - 1][2]
  OBVIOUS
<1>2. \A n \in Nat : p[n] \in Nat \ {0} /\ p[n + 1] = 2 * p[n]
  <2>1. 2 \in Nat /\ 2 \in Nat \ {0}
    OBVIOUS
  <2>2. \A n \in Nat : p[n + 1] = 2 * p[n]
    BY <2>1, PowerSteps
  <2>3. \A n \in Nat : p[n] \in Nat \ {0}
    BY <2>1, PowerGrows
  <2> QED
    BY <2>2, <2>3
<1>3. \A h \in 0 .. height : \A k \in 2 .. p[height - h] : F[h][k] = G[h][k]
  BY SiblingsSame
<1>4. F[0] = f /\ \A h \in 0 .. height - 1 :
        F[h + 1] = [k \in 1 .. p[height - (h + 1)] |-> sha256d(F[h][2 * k - 1], F[h][2 * k])]
  BY LevelSteps, SMTT(30)
<1>5. F[0][1] = c
  BY <1>4
<1> HIDE DEF F, G, p
<1>6. ASSUME NEW h \in 0 .. height - 1
      PROVE  F[h + 1][1] = sha256d(F[h][1], branches[h + 1])
  <2> DEFINE n == height - (h + 1)
  <2>1. /\ n \in Nat /\ height - h = n + 1 /\ h \in 0 .. height /\ h + 1 \in 1 .. height
        /\ (h + 1) - 1 = h
    OBVIOUS
  <2>2. p[n] \in Nat \ {0} /\ p[height - h] = 2 * p[n]
    BY <1>2, <2>1
  <2>3. 1 \in 1 .. p[n] /\ 2 \in 2 .. p[height - h]
    BY <2>2
  <2>4. F[h + 1][1] = sha256d(F[h][2 * 1 - 1], F[h][2 * 1])
    <3>1. F[h + 1] = [k \in 1 .. p[n] |-> sha256d(F[h][2 * k - 1], F[h][2 * k])]
      BY <1>4
    <3> QED
      BY <2>3, <3>1
  <2>5. F[h][2] = G[h][2]
    BY <1>3, <2>1, <2>3
  <2>6. branches[h + 1] = G[h][2]
    BY <1>1, <2>1
  <2>7. 2 * 1 - 1 = 1 /\ 2 * 1 = 2
    OBVIOUS
  <2> QED
    BY <2>4, <2>5, <2>6, <2>7
<1>7. row[0] = c /\ \A h \in 0 .. height - 1 : row[h + 1] = sha256d(row[h], branches[h + 1])
  <2>1. row[0] = F[0][1]
    OBVIOUS
  <2>2. ASSUME NEW h \in 0 .. height - 1 PROVE row[h] = F[h][1] /\ row[h + 1] = F[h + 1][1]
    OBVIOUS
  <2> HIDE DEF row
  <2> QED
    BY <1>5, <1>6, <2>1, <2>2
<1>8. row[height] = F[height][1]
  OBVIOUS
<1> HIDE DEF row
<1>9. Climb(c, branches)[height] = row[height]
  <2>1. /\ Len(branches) \in Nat
        /\ \A h \in 0 .. Len(branches) - 1 : row[h + 1] = sha256d(row[h], branches[h + 1])
    BY <1>1, <1>7
  <2>2. Climb(c, branches)[Len(branches)] = row[Len(branches)]
    BY <1>7, <2>1, ClimbIs
  <2> QED
    BY <1>1, <2>2
<1> QED
  BY <1>1, <1>8, <1>9 DEF F

(* The version: the pool's bits outside the mask, the share's inside.      *)
LEMMA VersionRebuilt ==
  ASSUME NEW base, NEW b, NEW bits, contains(gp_mask(b), bits)
  PROVE  apply_to_version(bits, base) = (base \ b) \cup (apply_to_version(bits, base) \cap b)
<1>1. ASSUME NEW x \in bits PROVE x + GpLow \in b
  <2>1. PICK y \in b \cap GpArea : x = y - GpLow
    BY DEF contains, gp_mask
  <2>2. y \in Int /\ GpLow \in Int
    BY BitsFit, <2>1 DEF GpArea
  <2> QED
    BY <2>1, <2>2
<1> QED
  BY <1>1 DEF apply_to_version

(* PoolRebuildsHeader, for every slot and counter width, every mask and    *)
(* set of general purpose bits, and merkle trees of any height: what       *)
(* share_to_submit_params sends is enough to rebuild the extranonce, the   *)
(* merkle root and the version of the header that was hashed.              *)
THEOREM PoolRebuildsHeaderCorrect == SpaceSpec => []PoolRebuildsHeader
<1>1. SpaceInv => PoolRebuildsHeader
  <2> SUFFICES ASSUME SpaceInv, ~Ended(it),
                      NEW mask \in {Some(b) : b \in SUBSET Bit} \cup {None},
                      NEW base \in SUBSET (Bit \ GpArea), NEW bits \in SUBSET GpBit,
                      NEW height \in 0 .. MaxBranches
               PROVE
        LET tree(coinbase) ==
              Levels([k \in 1 .. Power(2)[height] |-> IF k = 1 THEN coinbase ELSE txid(<<k>>)],
                     height)
            session == [mask |-> mask, extranonce1 |-> <<1>>, extranonce2_size |-> range.width]
            notify == [version |-> base, coinbase1 |-> <<0>>, coinbase2 |-> <<1, 0>>,
                       branches |-> [h \in 1 .. height |-> tree(txid(<<>>))[h - 1][2]]]
            job == The(job_to_template(session, notify))
            rolled == apply_gp_bits(job.version, bits)
            e == [counter |-> The(it.next), width |-> range.width]
            submit == share_to_submit_params(session, [extranonce |-> Some(e),
                                                       version |-> The(rolled)])
            coinbase == txid(<<0>> \o <<1>> \o submit.extranonce2 \o <<1, 0>>)
        IN rolled # Err =>
             /\ from_bytes(submit.extranonce2) = Some(e)
             /\ compute_merkle_root(job, e) = Some(tree(coinbase)[height][1])
             /\ The(rolled) = IF mask = None THEN base
                              ELSE (base \ The(mask)) \cup The(submit.version_bits)
    BY DEF PoolRebuildsHeader
  <2> DEFINE
        leaves(coinbase) ==
          [k \in 1 .. Power(2)[height] |-> IF k = 1 THEN coinbase ELSE txid(<<k>>)]
        tree(coinbase) == Levels(leaves(coinbase), height)
        session == [mask |-> mask, extranonce1 |-> <<1>>, extranonce2_size |-> range.width]
        branches == [h \in 1 .. height |-> tree(txid(<<>>))[h - 1][2]]
        notify == [version |-> base, coinbase1 |-> <<0>>, coinbase2 |-> <<1, 0>>,
                   branches |-> branches]
        gp == IF mask = None THEN {} ELSE gp_mask(The(mask))
        job == The(job_to_template(session, notify))
        rolled == apply_gp_bits(job.version, bits)
        e == [counter |-> The(it.next), width |-> range.width]
        submit == share_to_submit_params(session, [extranonce |-> Some(e),
                                                   version |-> The(rolled)])
        bytes == extranonce_bytes(e)
        coinbase == txid(<<0>> \o <<1>> \o bytes \o <<1, 0>>)
  <2>1. range.width \in 1 .. MAX_WIDTH /\ height \in Nat
    BY WidthsAreNat DEF SpaceInv, RangeOk, Ranges
  <2>2. from_bytes(bytes) = Some(e)
    <3>1. PICK a \in Nat, b \in Nat : a <= b /\ b <= max_counter(range.width)
                                      /\ it = [next |-> <<a>>, last |-> b]
      BY DEF SpaceInv, Tracks, Ended, None
    <3>2. The(it.next) = a /\ a <= max_counter(range.width)
      BY <2>1, <3>1, Limits DEF The
    <3> QED
      BY <2>1, <3>2, ExtranonceReturns
  <2>3. /\ job.version = [base |-> base, gp_bits_mask |-> gp]
        /\ job.root = "computed" /\ job.deserializes = TRUE
        /\ job.coinbase1 = <<0>> /\ job.extranonce1 = <<1>> /\ job.coinbase2 = <<1, 0>>
        /\ job.branches = branches
    <3>1. VersionTemplate(base, gp) = <<[base |-> base, gp_bits_mask |-> gp]>>
      BY DEF VersionTemplate, Some
    <3>2. check_width(range.width)
      BY <2>1 DEF check_width
    <3> HIDE DEF branches, gp
    <3>3. The(VersionTemplate(base, gp)) = [base |-> base, gp_bits_mask |-> gp]
          /\ VersionTemplate(base, gp) # Err
      BY <3>1 DEF The, Err
    <3>4. job_to_template(session, notify) =
            <<[version |-> The(VersionTemplate(base, gp)),
               range |-> full(range.width), root |-> "computed", deserializes |-> TRUE,
               coinbase1 |-> <<0>>, extranonce1 |-> <<1>>,
               coinbase2 |-> <<1, 0>>, branches |-> branches]>>
      BY <3>2, <3>3 DEF job_to_template, Some, gp
    <3>5. job = [version |-> [base |-> base, gp_bits_mask |-> gp],
                 range |-> full(range.width), root |-> "computed", deserializes |-> TRUE,
                 coinbase1 |-> <<0>>, extranonce1 |-> <<1>>,
                 coinbase2 |-> <<1, 0>>, branches |-> branches]
      BY <3>3, <3>4 DEF The
    <3> QED
      BY <3>5
  <2>4. submit.extranonce2 = bytes
    BY DEF share_to_submit_params, Some, None, The
  <2>5. compute_merkle_root(job, e) = Some(tree(coinbase)[height][1])
    <3>1. Len(branches) = height /\ Climb(coinbase, branches)[height] = tree(coinbase)[height][1]
      <4> DEFINE f == leaves(coinbase)
                 g == leaves(txid(<<>>))
      <4>1. Power(2)[height] \in Nat \ {0}
        <5>1. 2 \in Nat \ {0}
          OBVIOUS
        <5> QED
          BY <2>1, <5>1, PowerGrows
      <4>2. Len(branches) = height /\ \A h \in 1 .. height : branches[h] = Levels(g, height)[h - 1][2]
        BY <2>1
      <4> HIDE DEF coinbase, branches
      <4>3. f[1] = coinbase
        BY <4>1
      <4>4. \A k \in 2 .. Power(2)[height] : f[k] = g[k]
        <5>1. \A k \in 2 .. Power(2)[height] : k \in 1 .. Power(2)[height] /\ k # 1
          BY <4>1
        <5> QED
          BY <5>1
      <4>5. tree(coinbase) = Levels(f, height)
        OBVIOUS
      <4> HIDE DEF f, g, tree
      <4>6. height \in Nat /\ Len(branches) = height
        BY <2>1, <4>2
      <4>7. \A h \in 1 .. height : branches[h] = Levels(g, height)[h - 1][2]
        BY <4>2
      <4>8. Climb(coinbase, branches)[height] = Levels(f, height)[height][1]
        BY <4>3, <4>4, <4>6, <4>7, RootRebuilt, SMTT(30)
      <4> QED
        BY <4>5, <4>6, <4>8
    <3> HIDE DEF branches, tree, job, bytes
    <3> QED
      BY <2>3, <3>1 DEF compute_merkle_root, bytes
  <2>6. ASSUME rolled # Err
        PROVE  The(rolled) = IF mask = None THEN base
                             ELSE (base \ The(mask)) \cup The(submit.version_bits)
    <3> HIDE DEF job, gp
    <3>1. contains(gp, bits) /\ The(rolled) = apply_to_version(bits, base)
      BY <2>3, <2>6 DEF apply_gp_bits, Some, The
    <3>2. CASE mask = None
      BY <3>1, <3>2 DEF gp, contains, apply_to_version
    <3>3. ASSUME NEW b \in SUBSET Bit, mask = Some(b)
          PROVE  The(rolled) = (base \ The(mask)) \cup The(submit.version_bits) /\ mask # None
      <4>1. The(mask) = b /\ mask # None
        BY <3>3 DEF The, Some, None
      <4>2. submit.version_bits = <<The(rolled) \cap b>>
        <5> HIDE DEF rolled
        <5> QED
          BY <4>1 DEF share_to_submit_params, Some
      <4>3. contains(gp_mask(b), bits)
        BY <3>1, <4>1 DEF gp
      <4>4. apply_to_version(bits, base) = (base \ b) \cup (apply_to_version(bits, base) \cap b)
        BY <4>3, VersionRebuilt
      <4> HIDE DEF submit
      <4>5. The(submit.version_bits) = The(rolled) \cap b
        BY <4>2 DEF The
      <4> QED
        BY <3>1, <4>1, <4>4, <4>5
    <3> QED
      BY <3>2, <3>3
  <2> HIDE DEF branches, job, bytes
  <2> QED
    BY <2>2, <2>4, <2>5, <2>6 DEF branches, job
<1> QED
  BY <1>1, SpaceInvariant, PTL
=============================================================================
