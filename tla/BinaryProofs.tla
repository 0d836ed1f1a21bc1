---------------------------- MODULE BinaryProofs ----------------------------
(***************************************************************************)
(* What the proofs of this project need of numbers: induction and          *)
(* recursion, division, powers of 2 and the bits of a number.              *)
(***************************************************************************)
EXTENDS Binary, FiniteSetTheorems, TLAPS

-----------------------------------------------------------------------------
(* Numbers and recursion.                                                  *)

\* A set of natural numbers that is not empty has a least element.
LEMMA LeastNatural ==
    ASSUME NEW S \in SUBSET Nat, S # {}
    PROVE  \E m \in S : \A k \in S : m <= k
  <1> DEFINE segments == {1 .. k : k \in S}
  <1>1. segments \subseteq FiniteSubsetsOf(Nat) /\ segments # {}
    <2>1. \A k \in S : IsFiniteSet(1 .. k) /\ 1 .. k \in SUBSET Nat
      BY FS_Interval
    <2> QED
      BY <2>1 DEF FiniteSubsetsOf
  <1> HIDE DEF segments
  <1>2. PICK x \in segments : \A y \in segments : <<y, x>> \notin StrictSubsetOrdering(Nat)
    BY <1>1, FS_StrictSubsetOrderingWellFounded, WFMin
  <1>3. PICK m \in S : x = 1 .. m
    BY DEF segments
  <1>4. ASSUME NEW k \in S, k < m PROVE FALSE
    <2>1. 1 .. k \subseteq 1 .. m /\ 1 .. k # 1 .. m /\ 1 .. k \in SUBSET Nat /\ 1 .. m \in SUBSET Nat
      BY <1>4
    <2>2. <<1 .. k, x>> \in StrictSubsetOrdering(Nat)
      BY <1>3, <2>1 DEF StrictSubsetOrdering
    <2>3. 1 .. k \in segments
      BY DEF segments
    <2> QED
      BY <1>2, <2>2, <2>3
  <1> QED
    BY <1>4

\* Induction up to n: what holds of 0 and is handed on holds of all numbers of S.
LEMMA Induction ==
    ASSUME NEW n \in Nat, NEW S, 0 \in S, \A k \in 1 .. n : k - 1 \in S => k \in S
    PROVE  \A k \in 0 .. n : k \in S
  <1> SUFFICES ASSUME {k \in 0 .. n : k \notin S} # {} PROVE FALSE
    OBVIOUS
  <1>1. PICK m \in {k \in 0 .. n : k \notin S} : \A k \in {j \in 0 .. n : j \notin S} : m <= k
    <2>1. {k \in 0 .. n : k \notin S} \in SUBSET Nat
      OBVIOUS
    <2> QED
      BY <2>1, LeastNatural
  <1>2. m \in 0 .. n /\ m \notin S /\ m # 0
    OBVIOUS
  <1>3. m - 1 \in 0 .. n /\ m \in 1 .. n /\ ~(m <= m - 1)
    BY <1>2
  <1> QED
    BY <1>1, <1>2, <1>3

\* A function on the numbers up to n that begins with x and goes on as H says.
Recursed(n, X, x, H) ==
    \E g \in [0 .. n -> X] : g[0] = x /\ \A k \in 1 .. n : g[k] = H[<<k, g[k - 1]>>]

\* A function on the numbers up to n may be defined by recursion.
LEMMA Recursion ==
    ASSUME NEW n \in Nat, NEW X, NEW x \in X, NEW H \in [(1 .. n) \X X -> X]
    PROVE  Recursed(n, X, x, H)
  <1> DEFINE Defined(m, g) ==
          g \in [0 .. m -> X] /\ g[0] = x /\ \A k \in 1 .. m : g[k] = H[<<k, g[k - 1]>>]
  <1>1. \E g : Defined(0, g)
    <2>1. Defined(0, [k \in 0 .. 0 |-> x])
      OBVIOUS
    <2> QED
      BY <2>1
  <1>2. ASSUME NEW m \in 1 .. n, NEW g, Defined(m - 1, g) PROVE \E h : Defined(m, h)
    <2> DEFINE h == [k \in 0 .. m |-> IF k = m THEN H[<<m, g[m - 1]>>] ELSE g[k]]
    <2>1. m - 1 \in 0 .. m - 1 /\ g[m - 1] \in X
      BY <1>2
    <2>2. <<m, g[m - 1]>> \in (1 .. n) \X X
      BY <2>1
    <2>3. H[<<m, g[m - 1]>>] \in X
      BY <2>2
    <2>4. \A k \in 0 .. m : h[k] = IF k = m THEN H[<<m, g[m - 1]>>] ELSE g[k]
      OBVIOUS
    <2>5. \A k \in 0 .. m : k # m => k \in 0 .. m - 1
      OBVIOUS
    <2>6. h \in [0 .. m -> X]
      BY <1>2, <2>3, <2>5
    <2>7. h[0] = x
      BY <1>2, <2>4
    <2>8. ASSUME NEW k \in 1 .. m PROVE h[k] = H[<<k, h[k - 1]>>]
      <3>1. k \in 0 .. m /\ k - 1 \in 0 .. m /\ k - 1 # m
        OBVIOUS
      <3>2. h[k - 1] = g[k - 1]
        BY <2>4, <3>1
      <3>3. k # m => g[k] = H[<<k, g[k - 1]>>]
        BY <1>2
      <3> QED
        BY <2>4, <3>1, <3>2, <3>3
    <2> HIDE DEF h
    <2> QED
      BY <2>6, <2>7, <2>8
  <1> HIDE DEF Defined
  <1>3. \A k \in 0 .. n : k \in {m \in 0 .. n : \E g : Defined(m, g)}
    <2>1. \A k \in 1 .. n : k \in 0 .. n /\ k - 1 \in 0 .. n
      OBVIOUS
    <2>2. 0 \in 0 .. n
      OBVIOUS
    <2> DEFINE S == {m \in 0 .. n : \E g : Defined(m, g)}
    <2>3. 0 \in S
      BY <1>1, <2>2
    <2>4. \A k \in 1 .. n : k - 1 \in S => k \in S
      BY <1>2, <2>1
    <2> HIDE DEF S
    <2>5. \A k \in 0 .. n : k \in S
      BY <2>3, <2>4, Induction
    <2> QED
      BY <2>5 DEF S
  <1>4. n \in 0 .. n
    OBVIOUS
  <1>5. \E g : Defined(n, g)
    BY <1>3, <1>4
  <1> QED
    BY <1>5 DEF Defined, Recursed

\* What grows by at most 1 in a step grows by at most k in k steps.
LEMMA Growth ==
    ASSUME NEW n \in Nat, NEW f \in [0 .. n -> Nat],
           \A k \in 1 .. n : f[k] <= f[k - 1] + 1
    PROVE  \A k \in 0 .. n : f[k] <= f[0] + k
  <1> DEFINE S == {k \in 0 .. n : f[k] <= f[0] + k}
  <1>1. 0 \in S
    OBVIOUS
  <1>2. ASSUME NEW k \in 1 .. n, k - 1 \in S PROVE k \in S
    <2>1. k \in 0 .. n /\ k - 1 \in 0 .. n /\ 0 \in 0 .. n
      OBVIOUS
    <2>2. f[k] \in Nat /\ f[k - 1] \in Nat /\ f[0] \in Nat /\ f[k] <= f[k - 1] + 1
      BY <2>1
    <2>3. f[k - 1] <= f[0] + (k - 1)
      BY <1>2
    <2> QED
      BY <2>1, <2>2, <2>3
  <1> HIDE DEF S
  <1>3. \A k \in 0 .. n : k \in S
    BY <1>1, <1>2, Induction
  <1> QED
    BY <1>3 DEF S

\* What shrinks by at most 1 in a step was at most n - k more k steps before n.
LEMMA Descent ==
    ASSUME NEW n \in Nat, NEW f \in [0 .. n -> Nat],
           \A k \in 1 .. n : f[k - 1] <= f[k] + 1
    PROVE  \A k \in 0 .. n : f[k] <= f[n] + (n - k)
  <1> DEFINE back == [k \in 0 .. n |-> f[n - k]]
  <1>1. \A k \in 0 .. n : n - k \in 0 .. n /\ back[k] = f[n - k]
    OBVIOUS
  <1>2. back \in [0 .. n -> Nat]
    BY <1>1
  <1>3. ASSUME NEW k \in 1 .. n PROVE back[k] <= back[k - 1] + 1
    <2>1. k \in 0 .. n /\ k - 1 \in 0 .. n /\ n - (k - 1) \in 1 .. n
          /\ n - (k - 1) - 1 = n - k
      OBVIOUS
    <2>2. back[k] = f[n - k] /\ back[k - 1] = f[n - (k - 1)]
      BY <1>1, <2>1
    <2>3. f[n - (k - 1) - 1] <= f[n - (k - 1)] + 1
      BY <2>1
    <2> QED
      BY <2>1, <2>2, <2>3
  <1> HIDE DEF back
  <1>4. \A k \in 0 .. n : back[k] <= back[0] + k
    BY <1>2, <1>3, Growth
  <1>5. ASSUME NEW k \in 0 .. n PROVE f[k] <= f[n] + (n - k)
    <2>1. n - k \in 0 .. n /\ n - (n - k) = k /\ 0 \in 0 .. n /\ n - 0 = n
      OBVIOUS
    <2>2. back[n - k] = f[k] /\ back[0] = f[n]
      BY <1>1, <2>1
    <2> QED
      BY <1>4, <2>1, <2>2
  <1> QED
    BY <1>5

\* The same on all natural numbers.
RecursedOnNat(X, x, H) ==
    \E f \in [Nat -> X] : f[0] = x /\ \A k \in Nat \ {0} : f[k] = H[<<k, f[k - 1]>>]

\* A function on all natural numbers may be defined by recursion.
LEMMA RecursionOnNat ==
    ASSUME NEW X, NEW x \in X, NEW H \in [Nat \X X -> X]
    PROVE  RecursedOnNat(X, x, H)
  <1> DEFINE Goes(n, g) ==
          g \in [0 .. n -> X] /\ g[0] = x /\ \A k \in 1 .. n : g[k] = H[<<k, g[k - 1]>>]
  <1>1. \A n \in Nat : \E g : Goes(n, g)
    <2> SUFFICES ASSUME NEW n \in Nat PROVE \E g : Goes(n, g)
      OBVIOUS
    <2> DEFINE HN == [p \in (1 .. n) \X X |-> H[p]]
    <2>1. \A p \in (1 .. n) \X X : p \in Nat \X X
      OBVIOUS
    <2>2. HN \in [(1 .. n) \X X -> X]
      BY <2>1
    <2>3. \A p \in (1 .. n) \X X : HN[p] = H[p]
      OBVIOUS
    <2> HIDE DEF HN
    <2>0. Recursed(n, X, x, HN)
      BY <2>2, Recursion
    <2>4. PICK g \in [0 .. n -> X] : g[0] = x /\ \A k \in 1 .. n : g[k] = HN[<<k, g[k - 1]>>]
      BY <2>0 DEF Recursed
    <2>5. ASSUME NEW k \in 1 .. n PROVE g[k] = H[<<k, g[k - 1]>>]
      <3>1. k - 1 \in 0 .. n
        OBVIOUS
      <3>2. g[k - 1] \in X
        BY <3>1
      <3>3. <<k, g[k - 1]>> \in (1 .. n) \X X
        BY <3>2
      <3> QED
        BY <2>3, <2>4, <3>3
    <2> QED
      BY <2>4, <2>5
  <1> DEFINE gs == [n \in Nat |-> CHOOSE g : Goes(n, g)]
             f == [n \in Nat |-> gs[n][n]]
  <1>2. \A n \in Nat : Goes(n, gs[n])
    BY <1>1
  <1>a. \A n \in Nat : f[n] = gs[n][n]
    OBVIOUS
  <1>b. f = [n \in Nat |-> f[n]]
    OBVIOUS
  <1> HIDE DEF gs, f
  <1>3. ASSUME NEW n \in Nat, NEW m \in Nat, m <= n PROVE gs[n][m] = f[m]
    <2> DEFINE S == {k \in 0 .. m : gs[n][k] = gs[m][k]}
    <2>0. gs[n][0] = x /\ gs[m][0] = x
      BY <1>2
    <2>1. 0 \in S
      BY <2>0
    <2>2. ASSUME NEW k \in 1 .. m, k - 1 \in S PROVE k \in S
      <3>1. k \in 1 .. n /\ k \in 0 .. m
        BY <1>3
      <3>2. gs[n][k] = H[<<k, gs[n][k - 1]>>] /\ gs[m][k] = H[<<k, gs[m][k - 1]>>]
        BY <1>2, <3>1
      <3> QED
        BY <2>2, <3>1, <3>2
    <2> HIDE DEF S
    <2>3. \A k \in 0 .. m : k \in S
      BY <2>1, <2>2, Induction
    <2>4. m \in S
      BY <2>3
    <2> QED
      BY <1>a, <2>4 DEF S
  <1>4. ASSUME NEW n \in Nat PROVE f[n] \in X
    <2>1. f[n] = gs[n][n] /\ gs[n] \in [0 .. n -> X] /\ n \in 0 .. n
      BY <1>2, <1>a
    <2> QED
      BY <2>1
  <1>5. ASSUME NEW k \in Nat \ {0} PROVE f[k] = H[<<k, f[k - 1]>>]
    <2>1. k \in 1 .. k /\ k - 1 \in Nat /\ k - 1 <= k /\ k \in Nat /\ k <= k
      OBVIOUS
    <2>2. gs[k][k] = H[<<k, gs[k][k - 1]>>]
      BY <1>2, <2>1
    <2>3. gs[k][k - 1] = f[k - 1]
      BY <1>3, <2>1
    <2>4. gs[k][k] = f[k]
      BY <1>a
    <2> QED
      BY <2>2, <2>3, <2>4
  <1>6. f[0] = x
    BY <1>2, <1>a
  <1>7. f \in [Nat -> X]
    BY <1>4, <1>b
  <1> QED
    BY <1>5, <1>6, <1>7 DEF RecursedOnNat

-----------------------------------------------------------------------------
(* Division.                                                               *)

\* The quotient and the rest are what they should be, and nothing else is.
LEMMA Division ==
    ASSUME NEW a \in Int, NEW b \in Nat \ {0}
    PROVE  /\ a \div b \in Int /\ a % b \in 0 .. b - 1
           /\ a = (a \div b) * b + (a % b)
  OBVIOUS

LEMMA DivisionUnique ==
    ASSUME NEW b \in Nat \ {0}, NEW q \in Int, NEW r \in 0 .. b - 1, NEW a \in Int,
           a = q * b + r
    PROVE  a \div b = q /\ a % b = r
  <1> DEFINE p == a \div b
             s == a % b
  <1>1. p \in Int /\ s \in 0 .. b - 1 /\ a = p * b + s
    BY Division
  <1> HIDE DEF p, s
  <1>2. (p - q) * b = r - s
    BY <1>1
  <1>3. r - s < b /\ s - r < b /\ r - s \in Int
    BY <1>1
  <1>4. p - q < 1
    <2> SUFFICES ASSUME p - q >= 1 PROVE FALSE
      BY <1>1
    <2>1. (p - q) * b >= 1 * b
      BY <1>1
    <2> QED
      BY <1>1, <1>2, <1>3, <2>1
  <1>5. q - p < 1
    <2> SUFFICES ASSUME q - p >= 1 PROVE FALSE
      BY <1>1
    <2>1. (q - p) * b >= 1 * b
      BY <1>1
    <2>2. (q - p) * b = s - r
      BY <1>1
    <2> QED
      BY <1>1, <1>3, <2>1, <2>2
  <1>6. p = q
    BY <1>1, <1>4, <1>5
  <1>7. s = r
    BY <1>1, <1>6
  <1> QED
    BY <1>6, <1>7 DEF p, s

LEMMA DivisionInSteps ==
    ASSUME NEW a \in Int, NEW b \in Nat \ {0}, NEW c \in Nat \ {0}
    PROVE  b * c \in Nat \ {0} /\ a \div (b * c) = (a \div b) \div c
  <1> DEFINE q == a \div b
             r == a % b
             t == q \div c
             u == q % c
  <1>1. q \in Int /\ r \in 0 .. b - 1 /\ a = q * b + r
    BY Division
  <1>2. t \in Int /\ u \in 0 .. c - 1 /\ q = t * c + u
    BY <1>1, Division
  <1> HIDE DEF q, r, t, u
  <1>3. b * c \in Nat \ {0}
    OBVIOUS
  <1>4. a = t * (b * c) + (u * b + r)
    <2>1. q * b = (t * c + u) * b
      BY <1>2
    <2>2. (t * c + u) * b = t * (b * c) + u * b
      BY <1>2
    <2> QED
      BY <1>1, <1>2, <2>1, <2>2
  <1>5. u * b + r \in 0 .. b * c - 1
    <2>1. u * b >= 0 /\ u * b <= (c - 1) * b
      BY <1>2
    <2>2. (c - 1) * b = b * c - b
      OBVIOUS
    <2> QED
      BY <1>1, <1>2, <2>1, <2>2
  <1>6. a \div (b * c) = t
    BY <1>2, <1>3, <1>4, <1>5, DivisionUnique
  <1> QED
    BY <1>3, <1>6 DEF t, q

LEMMA RestInSteps ==
    ASSUME NEW a \in Int, NEW b \in Nat \ {0}, NEW c \in Nat \ {0}
    PROVE  a % (b * c) = ((a \div b) % c) * b + (a % b)
  <1> DEFINE q == a \div b
             r == a % b
             t == q \div c
             u == q % c
  <1>1. q \in Int /\ r \in 0 .. b - 1 /\ a = q * b + r
    BY Division
  <1>2. t \in Int /\ u \in 0 .. c - 1 /\ q = t * c + u
    BY <1>1, Division
  <1> HIDE DEF q, r, t, u
  <1>3. b * c \in Nat \ {0}
    OBVIOUS
  <1>4. a = t * (b * c) + (u * b + r)
    <2>1. q * b = (t * c + u) * b
      BY <1>2
    <2>2. (t * c + u) * b = t * (b * c) + u * b
      BY <1>2
    <2> QED
      BY <1>1, <1>2, <2>1, <2>2
  <1>5. u * b + r \in 0 .. b * c - 1
    <2>1. u * b >= 0 /\ u * b <= (c - 1) * b
      BY <1>2
    <2>2. (c - 1) * b = b * c - b
      OBVIOUS
    <2> QED
      BY <1>1, <1>2, <2>1, <2>2
  <1>6. a % (b * c) = u * b + r
    <2> DEFINE product == b * c
               rest == u * b + r
    <2>1. product \in Nat \ {0} /\ rest \in 0 .. product - 1 /\ a = t * product + rest
      BY <1>3, <1>4, <1>5
    <2> HIDE DEF product, rest
    <2>2. a % product = rest
      BY <1>2, <2>1, DivisionUnique
    <2> QED
      BY <2>2 DEF product, rest
  <1> QED
    BY <1>6 DEF q, r, u

LEMMA DivisionOfSum ==
    ASSUME NEW a \in Int, NEW b \in Nat \ {0}, NEW c \in Int
    PROVE  (a + c * b) \div b = a \div b + c /\ (a + c * b) % b = a % b
  <1> DEFINE q == a \div b
             r == a % b
  <1>1. q \in Int /\ r \in 0 .. b - 1 /\ a = q * b + r
    BY Division
  <1> HIDE DEF q, r
  <1>2. a + c * b = (q + c) * b + r /\ q + c \in Int /\ a + c * b \in Int
    BY <1>1
  <1>3. (a + c * b) \div b = q + c /\ (a + c * b) % b = r
    BY <1>1, <1>2, DivisionUnique
  <1> QED
    BY <1>3 DEF q, r

LEMMA MultipleRest ==
    ASSUME NEW b \in Nat \ {0}, NEW q \in Int
    PROVE  (q * b) % b = 0
  <1>1. q * b \in Int /\ q * b = q * b + 0 /\ 0 \in 0 .. b - 1
    OBVIOUS
  <1>2. \A r \in 0 .. b - 1 : q * b = q * b + r => (q * b) % b = r
    BY <1>1, DivisionUnique
  <1> QED
    BY <1>1, <1>2

LEMMA DivisionBelow ==
    ASSUME NEW b \in Nat \ {0}, NEW a \in 0 .. b - 1
    PROVE  a \div b = 0 /\ a % b = a
  BY DivisionUnique, a = 0 * b + a

-----------------------------------------------------------------------------
(* Powers of 2.                                                            *)

LEMMA Powers ==
    /\ Power \in [Nat -> Nat \ {0}]
    /\ Power[0] = 1
    /\ \A n \in Nat : Power[n + 1] = 2 * Power[n]
  <1> DEFINE H == [p \in Nat \X (Nat \ {0}) |-> 2 * p[2]]
             Body(f) == [n \in Nat |-> IF n = 0 THEN 1 ELSE 2 * f[n - 1]]
  <1>1. H \in [Nat \X (Nat \ {0}) -> Nat \ {0}] /\ 1 \in Nat \ {0}
    OBVIOUS
  <1>2. \A k \in Nat, v \in Nat \ {0} : H[<<k, v>>] = 2 * v
    OBVIOUS
  <1> HIDE DEF H
  <1> DEFINE X == Nat \ {0}
  <1>0. H \in [Nat \X X -> X] /\ 1 \in X
    BY <1>1
  <1> HIDE DEF X
  <1>x. RecursedOnNat(X, 1, H)
    BY <1>0, RecursionOnNat
  <1>3. PICK f \in [Nat -> X] : f[0] = 1 /\ \A k \in Nat \ {0} : f[k] = H[<<k, f[k - 1]>>]
    BY <1>x DEF RecursedOnNat
  <1> USE DEF X
  <1>4. \A k \in Nat \ {0} : k - 1 \in Nat /\ f[k - 1] \in Nat \ {0} /\ f[k] = 2 * f[k - 1]
    <2>1. \A k \in Nat \ {0} : k - 1 \in Nat
      OBVIOUS
    <2> QED
      BY <1>2, <1>3, <2>1
  <1>5. f = Body(f)
    BY <1>3, <1>4
  <1>6. Power = Body(Power)
    <2>1. Power = CHOOSE g : g = Body(g)
      BY DEF Power
    <2> HIDE DEF Body
    <2> QED
      BY <1>5, <2>1
  <1>7. Power[0] = 1 /\ \A n \in Nat : Power[n + 1] = 2 * Power[n]
    <2>1. \A n \in Nat : Power[n] = IF n = 0 THEN 1 ELSE 2 * Power[n - 1]
      BY <1>6
    <2>2. \A n \in Nat : n + 1 \in Nat /\ n + 1 # 0 /\ (n + 1) - 1 = n
      OBVIOUS
    <2> QED
      BY <2>1, <2>2
  <1>8. ASSUME NEW n \in Nat PROVE Power[n] \in Nat \ {0}
    <2> DEFINE S == {k \in Nat : Power[k] \in Nat \ {0}}
    <2>1. 0 \in S
      BY <1>7
    <2>2. ASSUME NEW k \in 1 .. n, k - 1 \in S PROVE k \in S
      <3>1. k - 1 \in Nat /\ (k - 1) + 1 = k
        OBVIOUS
      <3>2. Power[k] = 2 * Power[k - 1]
        BY <1>7, <3>1
      <3> QED
        BY <2>2, <3>2
    <2> HIDE DEF S
    <2>3. n \in S
      BY <2>1, <2>2, Induction
    <2> QED
      BY <2>3 DEF S
  <1>9. Power = [n \in Nat |-> Power[n]]
    BY <1>6
  <1> QED
    BY <1>7, <1>8, <1>9

LEMMA PowerOfSum ==
    ASSUME NEW a \in Nat, NEW b \in Nat
    PROVE  Power[a + b] = Power[a] * Power[b]
  <1> DEFINE S == {k \in Nat : Power[a + k] = Power[a] * Power[k]}
  <1>1. 0 \in S
    BY Powers
  <1>2. ASSUME NEW k \in 1 .. b, k - 1 \in S PROVE k \in S
    <2>1. k - 1 \in Nat /\ (k - 1) + 1 = k /\ a + (k - 1) \in Nat /\ (a + (k - 1)) + 1 = a + k
      OBVIOUS
    <2>2. Power[k] = 2 * Power[k - 1] /\ Power[a + k] = 2 * Power[a + (k - 1)]
      BY <2>1, Powers
    <2>3. Power[a] \in Nat /\ Power[k - 1] \in Nat
      BY <2>1, Powers
    <2>4. Power[a + (k - 1)] = Power[a] * Power[k - 1]
      BY <1>2
    <2>5. 2 * (Power[a] * Power[k - 1]) = Power[a] * (2 * Power[k - 1])
      BY <2>3
    <2> QED
      BY <2>2, <2>4, <2>5
  <1> HIDE DEF S
  <1>3. b \in S
    BY <1>1, <1>2, Induction
  <1> QED
    BY <1>3 DEF S

-----------------------------------------------------------------------------
(* Bits.                                                                   *)

LEMMA BitRange ==
    ASSUME NEW v \in Int, NEW k \in Nat
    PROVE  v \div Power[k] \in Int /\ BitIn(v, k) \in {0, 1}
  <1>1. Power[k] \in Nat \ {0}
    BY Powers
  <1>2. v \div Power[k] \in Int
    BY <1>1, Division
  <1>3. (v \div Power[k]) % 2 \in 0 .. 2 - 1
    BY <1>2, Division
  <1> QED
    BY <1>2, <1>3 DEF BitIn

LEMMA BitOfZero == \A k \in Nat : BitIn(0, k) = 0
  <1> SUFFICES ASSUME NEW k \in Nat PROVE BitIn(0, k) = 0
    OBVIOUS
  <1>1. 0 \in 0 .. Power[k] - 1 /\ Power[k] \in Nat \ {0}
    BY Powers
  <1>2. 0 \div Power[k] = 0
    BY <1>1, DivisionBelow
  <1> QED
    BY <1>2 DEF BitIn

\* The bits above k are those of what is left when k bits are taken away.
LEMMA BitAbove ==
    ASSUME NEW v \in Int, NEW k \in Nat
    PROVE  /\ v \div Power[k + 1] = (v \div Power[k]) \div 2
           /\ v \div Power[k] = 2 * (v \div Power[k + 1]) + BitIn(v, k)
  <1>1. Power[k + 1] = Power[k] * 2 /\ Power[k] \in Nat \ {0}
    BY Powers
  <1>2. v \div Power[k + 1] = (v \div Power[k]) \div 2
    BY <1>1, DivisionInSteps
  <1>3. v \div Power[k] \in Int
    BY <1>1, Division
  <1>4. v \div Power[k] = ((v \div Power[k]) \div 2) * 2 + ((v \div Power[k]) % 2)
    BY <1>3, Division
  <1> QED
    BY <1>2, <1>3, <1>4 DEF BitIn

\* A bit that is set or cleared leaves what is above it alone.
LEMMA AboveChangedBit ==
    ASSUME NEW v \in Int, NEW e \in Nat, NEW c \in {-1, 0, 1}, BitIn(v, e) + c \in {0, 1},
           NEW f \in Nat, f > e
    PROVE  (v + c * Power[e]) \div Power[f] = v \div Power[f]
  <1> DEFINE w == v + c * Power[e]
             q == v \div Power[e]
  <1>1. Power[e] \in Nat \ {0} /\ Power[e + 1] \in Nat \ {0} /\ c \in Int /\ e + 1 \in Nat
    BY Powers
  <1>2. w \in Int /\ w \div Power[e] = q + c /\ q \in Int
    <2>1. (v + c * Power[e]) \div Power[e] = v \div Power[e] + c
      BY <1>1, DivisionOfSum
    <2> QED
      BY <1>1, <2>1, BitRange
  <1>3. (q % 2) + c \in {0, 1}
    BY DEF BitIn
  <1>4. (q + c) \div 2 = q \div 2
    BY <1>2, <1>3
  <1>5. w \div Power[e + 1] = v \div Power[e + 1]
    BY <1>2, <1>4, BitAbove
  <1> DEFINE d == f - (e + 1)
  <1>6. d \in Nat /\ f = (e + 1) + d /\ Power[d] \in Nat \ {0}
    BY Powers
  <1>7. Power[f] = Power[e + 1] * Power[d]
    BY <1>1, <1>6, PowerOfSum
  <1> HIDE DEF w, d
  <1>8. w \div Power[f] = (w \div Power[e + 1]) \div Power[d]
        /\ v \div Power[f] = (v \div Power[e + 1]) \div Power[d]
    BY <1>1, <1>2, <1>6, <1>7, DivisionInSteps
  <1> QED
    BY <1>5, <1>8 DEF w

\* A bit that is set or cleared leaves every other one alone.
LEMMA BitChanged ==
    ASSUME NEW v \in Int, NEW e \in Nat, NEW c \in {-1, 0, 1}, BitIn(v, e) + c \in {0, 1},
           NEW f \in Nat
    PROVE  BitIn(v + c * Power[e], f) = IF f = e THEN BitIn(v, e) + c ELSE BitIn(v, f)
  <1> DEFINE w == v + c * Power[e]
  <1>1. Power[e] \in Nat \ {0} /\ Power[f] \in Nat \ {0} /\ c \in Int /\ w \in Int
    BY Powers
  <1>2. CASE f = e
    <2>1. w \div Power[e] = v \div Power[e] + c /\ v \div Power[e] \in Int
      BY <1>1, DivisionOfSum, Division
    <2>2. ((v \div Power[e]) % 2) + c \in {0, 1}
      BY DEF BitIn
    <2>3. (v \div Power[e] + c) % 2 = ((v \div Power[e]) % 2) + c
      BY <2>1, <2>2
    <2> QED
      BY <1>2, <2>1, <2>3 DEF BitIn
  <1>3. CASE f > e
    BY <1>3, AboveChangedBit DEF BitIn
  <1>4. CASE f < e
    <2> DEFINE d == e - (f + 1)
    <2>1. d \in Nat /\ e = d + (f + 1) /\ Power[d] \in Nat \ {0} /\ f + 1 \in Nat
      BY <1>4, Powers
    <2>2. Power[e] = Power[d] * Power[f + 1] /\ Power[f + 1] = 2 * Power[f]
      BY <2>1, PowerOfSum, Powers
    <2> HIDE DEF d
    <2>3. c * Power[e] = ((c * Power[d]) * 2) * Power[f] /\ c * Power[d] \in Int
      BY <1>1, <2>1, <2>2
    <2> DEFINE t == c * Power[d]
    <2>a. t \in Int /\ t * 2 \in Int /\ c * Power[e] = (t * 2) * Power[f]
      BY <1>1, <2>3
    <2> HIDE DEF t
    <2>4. w \div Power[f] = v \div Power[f] + t * 2 /\ v \div Power[f] \in Int
      <3>1. (v + (t * 2) * Power[f]) \div Power[f] = v \div Power[f] + t * 2
        BY <1>1, <2>a, DivisionOfSum
      <3> QED
        BY <2>a, <3>1, BitRange
    <2>5. (v \div Power[f] + t * 2) % 2 = (v \div Power[f]) % 2
      BY <2>a, <2>4, DivisionOfSum
    <2> QED
      BY <1>4, <2>4, <2>5 DEF BitIn
  <1> QED
    BY <1>2, <1>3, <1>4

\* A number of n bits remains one.
LEMMA ChangedRange ==
    ASSUME NEW n \in Nat, NEW v \in 0 .. Power[n] - 1, NEW e \in 0 .. n - 1,
           NEW c \in {-1, 0, 1}, BitIn(v, e) + c \in {0, 1}
    PROVE  v + c * Power[e] \in 0 .. Power[n] - 1
  <1> DEFINE w == v + c * Power[e]
  <1>1. Power[n] \in Nat \ {0} /\ Power[e] \in Nat \ {0} /\ v \in Int /\ c \in Int /\ w \in Int
    BY Powers
  <1>2. v \div Power[n] = 0
    BY <1>1, DivisionBelow
  <1>3. w \div Power[n] = 0
    BY <1>1, <1>2, AboveChangedBit
  <1> HIDE DEF w
  <1>4. w = (w \div Power[n]) * Power[n] + (w % Power[n]) /\ w % Power[n] \in 0 .. Power[n] - 1
    BY <1>1, Division
  <1>5. w = w % Power[n]
    BY <1>1, <1>3, <1>4
  <1>6. w \in 0 .. Power[n] - 1
    BY <1>4, <1>5
  <1> QED
    BY <1>6 DEF w

\* The lowest n bits are those of the rest.
LEMMA BitsOfRest ==
    ASSUME NEW v \in Int, NEW n \in Nat, NEW k \in 0 .. n - 1
    PROVE  BitIn(v % Power[n], k) = BitIn(v, k)
  <1> DEFINE q == v \div Power[n]
             r == v % Power[n]
             d == n - (k + 1)
             t == q * Power[d]
  <1>1. Power[n] \in Nat \ {0} /\ Power[k] \in Nat \ {0}
    BY Powers
  <1>2. q \in Int /\ r \in Int /\ v = q * Power[n] + r
    <2>1. v = (v \div Power[n]) * Power[n] + (v % Power[n])
      BY <1>1, Division
    <2>2. v \div Power[n] \in Int /\ v % Power[n] \in 0 .. Power[n] - 1
      BY <1>1, Division
    <2> QED
      BY <2>1, <2>2
  <1>3. d \in Nat /\ n = d + (k + 1) /\ Power[d] \in Nat \ {0} /\ k + 1 \in Nat
    BY Powers
  <1> HIDE DEF q, r, d
  <1>4. Power[n] = Power[d] * Power[k + 1] /\ Power[k + 1] = 2 * Power[k]
    <2>1. Power[d + (k + 1)] = Power[d] * Power[k + 1]
      BY <1>3, PowerOfSum
    <2>2. k \in Nat
      OBVIOUS
    <2>3. Power[k + 1] = 2 * Power[k]
      BY <2>2, Powers
    <2> QED
      BY <1>3, <2>1, <2>3
  <1>5. v = r + (t * 2) * Power[k] /\ t \in Int
    BY <1>1, <1>2, <1>3, <1>4
  <1> HIDE DEF t
  <1>6. v \div Power[k] = r \div Power[k] + t * 2 /\ r \div Power[k] \in Int
    <2>0. t * 2 \in Int
      BY <1>5
    <2>1. (r + (t * 2) * Power[k]) \div Power[k] = r \div Power[k] + t * 2
      BY <1>1, <1>2, <2>0, DivisionOfSum
    <2> QED
      BY <1>2, <1>5, <2>1, BitRange
  <1>7. (r \div Power[k] + t * 2) % 2 = (r \div Power[k]) % 2
    BY <1>5, <1>6, DivisionOfSum
  <1> QED
    BY <1>6, <1>7 DEF BitIn, r

\* Numbers of n bits with the same bits are the same.
LEMMA SameBits ==
    ASSUME NEW n \in Nat, NEW v \in 0 .. Power[n] - 1, NEW w \in 0 .. Power[n] - 1,
           \A k \in 0 .. n - 1 : BitIn(v, k) = BitIn(w, k)
    PROVE  v = w
  <1> DEFINE S == {j \in 0 .. n : v \div Power[n - j] = w \div Power[n - j]}
  <1>1. Power[n] \in Nat \ {0} /\ v \in Int /\ w \in Int
    BY Powers
  <1>2. 0 \in S
    <2>1. v \div Power[n] = 0 /\ w \div Power[n] = 0
      BY <1>1, DivisionBelow
    <2> QED
      BY <2>1
  <1>3. ASSUME NEW j \in 1 .. n, j - 1 \in S PROVE j \in S
    <2>1. n - j \in 0 .. n - 1 /\ (n - j) + 1 = n - (j - 1) /\ n - j \in Nat
      OBVIOUS
    <2>2. v \div Power[n - (j - 1)] = w \div Power[n - (j - 1)]
      BY <1>3
    <2>3. BitIn(v, n - j) = BitIn(w, n - j)
      BY <2>1
    <2>4. /\ v \div Power[n - j] = 2 * (v \div Power[n - (j - 1)]) + BitIn(v, n - j)
          /\ w \div Power[n - j] = 2 * (w \div Power[n - (j - 1)]) + BitIn(w, n - j)
      BY <1>1, <2>1, BitAbove
    <2>5. v \div Power[n - j] = w \div Power[n - j]
      BY <2>2, <2>3, <2>4
    <2> QED
      BY <2>5
  <1> HIDE DEF S
  <1>4. n \in S
    <2>1. \A j \in 0 .. n : j \in S
      BY <1>2, <1>3, Induction
    <2> QED
      BY <2>1
  <1>5. v \div Power[0] = w \div Power[0]
    BY <1>4 DEF S
  <1>6. Power[0] = 1 /\ v \div 1 = v /\ w \div 1 = w
    BY <1>1, Powers
  <1> QED
    BY <1>5, <1>6

=============================================================================
