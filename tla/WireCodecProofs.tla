--------------------------- MODULE WireCodecProofs ---------------------------
(***************************************************************************)
(* Theorems on WireCodec, for every width and every sequence of bytes.     *)
(*                                                                         *)
(* Its functions are recursive, so each is shown to exist before anything  *)
(* is proved of it.  The provers cannot instantiate the library's          *)
(* induction theorems, which are about operators; induction is stated here *)
(* for sets, and recursion for functions.                                  *)
(***************************************************************************)
EXTENDS WireCodec, SequenceTheorems, WellFoundedInduction, TLAPS

-----------------------------------------------------------------------------
(* Induction and recursion *)

LEMMA LessThanWellFounded == IsWellFoundedOn({ss \in Nat \X Nat : ss[1] < ss[2]}, Nat)
BY NatLessThanWellFounded, Zenon DEF OpToRel

\* A set of natural numbers has a least element.
LEMMA LeastNumber ==
    ASSUME NEW T, T \subseteq Nat, T # {}
    PROVE  \E n \in T : \A m \in T : n <= m
<1> DEFINE R == {ss \in Nat \X Nat : ss[1] < ss[2]}
<1>1. \A x, y \in Nat : y < x => <<y, x>> \in R
  OBVIOUS
<1>2. IsWellFoundedOn(R, Nat)
  BY LessThanWellFounded
<1> HIDE DEF R
<1>3. PICK x \in T : \A y \in T : ~(<<y, x>> \in R)
  BY <1>2, WFMin
<1>4. \A y \in T : ~(y < x)
  BY <1>1, <1>3
<1>5. QED
  BY <1>4

\* Induction over the natural numbers.
LEMMA Induction ==
    ASSUME NEW S, 0 \in S, \A n \in Nat : n \in S => n + 1 \in S
    PROVE  \A n \in Nat : n \in S
<1> DEFINE T == {n \in Nat : n \notin S}
<1> SUFFICES ASSUME T # {} PROVE FALSE
  OBVIOUS
<1>1. PICK n \in T : \A m \in T : n <= m
  BY LeastNumber
<1>2. n # 0 /\ n - 1 \in Nat /\ n - 1 \notin T
  BY <1>1
<1>3. QED
  BY <1>1, <1>2

\* f is a at 0 and goes on as d says.
GoesOn(f, S, a, d) ==
    f \in [Nat -> S] /\ f[0] = a /\ \A n \in Nat : f[n + 1] = d[<<f[n], n>>]

\* A function may be defined by what it is at 0 and how it goes on.
LEMMA PrimitiveRecursion ==
    ASSUME NEW S, NEW a \in S, NEW d \in [S \X Nat -> S]
    PROVE  \E f : GoesOn(f, S, a, d)
<1> DEFINE Upto(n, g) == g \in [0..n -> S] /\ g[0] = a
                         /\ \A i \in Nat : i < n => g[i + 1] = d[<<g[i], i>>]
           Exists == {n \in Nat : \E g : Upto(n, g)}
<1>1. \A n \in Nat : n \in Exists
  <2>1. 0 \in Exists
    <3>1. Upto(0, [i \in 0..0 |-> a])
      OBVIOUS
    <3>2. QED
      BY <3>1
  <2>2. ASSUME NEW n \in Nat, n \in Exists PROVE n + 1 \in Exists
    <3>1. PICK g : Upto(n, g)
      BY <2>2
    <3> DEFINE h == [i \in 0..(n + 1) |-> IF i <= n THEN g[i] ELSE d[<<g[n], n>>]]
    <3>2. h \in [0..(n + 1) -> S] /\ h[0] = a
      BY <3>1
    <3>3. ASSUME NEW i \in Nat, i < n + 1 PROVE h[i + 1] = d[<<h[i], i>>]
      <4>1. CASE i = n
        BY <4>1, SMTT(30)
      <4>2. CASE i < n
        <5>1. h[i + 1] = g[i + 1] /\ h[i] = g[i]
          BY <4>2
        <5>2. QED
          BY <3>1, <4>2, <5>1
      <4>3. QED
        BY <3>3, <4>1, <4>2
    <3> HIDE DEF h
    <3>4. Upto(n + 1, h)
      BY <3>2, <3>3
    <3>5. QED
      BY <3>4
  <2> HIDE DEF Exists
  <2>3. QED
    BY <2>1, <2>2, Induction
<1> DEFINE G(n) == CHOOSE g : Upto(n, g)
<1>2. \A n \in Nat : Upto(n, G(n))
  BY <1>1, Zenon
<1> HIDE DEF G
<1> DEFINE Agree == {i \in Nat : \A n, m \in Nat : i <= n /\ i <= m => G(n)[i] = G(m)[i]}
<1>3. \A i \in Nat : i \in Agree
  <2>1. 0 \in Agree
    BY <1>2
  <2>2. ASSUME NEW i \in Nat, i \in Agree PROVE i + 1 \in Agree
    <3> SUFFICES ASSUME NEW n \in Nat, NEW m \in Nat, i + 1 <= n, i + 1 <= m
                 PROVE  G(n)[i + 1] = G(m)[i + 1]
      OBVIOUS
    <3>1. G(n)[i] = G(m)[i]
      BY <2>2
    <3>2. Upto(n, G(n)) /\ Upto(m, G(m))
      BY <1>2
    <3>3. G(n)[i + 1] = d[<<G(n)[i], i>>] /\ G(m)[i + 1] = d[<<G(m)[i], i>>]
      BY <3>2
    <3>4. QED
      BY <3>1, <3>3
  <2> HIDE DEF Agree
  <2>3. QED
    BY <2>1, <2>2, Induction
<1> DEFINE f == [n \in Nat |-> G(n)[n]]
<1>4. f \in [Nat -> S]
  BY <1>2
<1>5. f[0] = a
  BY <1>2
<1>6. ASSUME NEW n \in Nat PROVE f[n + 1] = d[<<f[n], n>>]
  <2>1. G(n + 1)[n] = G(n)[n]
    <3>1. n \in Agree /\ n <= n + 1 /\ n <= n /\ n + 1 \in Nat
      BY <1>3
    <3>2. QED
      BY <3>1
  <2>2. G(n + 1)[n + 1] = d[<<G(n + 1)[n], n>>]
    BY <1>2
  <2>3. QED
    BY <2>1, <2>2
<1> HIDE DEF f
<1>7. GoesOn(f, S, a, d)
  BY <1>4, <1>5, <1>6 DEF GoesOn
<1>8. QED
  BY <1>7

\* On D, f calls itself at p[x] and makes h of it; elsewhere it is e.
CallsItself(f, S, D, p, h, e) ==
    /\ f \in [Nat -> S]
    /\ \A x \in Nat : f[x] = IF x \in D THEN h[<<x, f[p[x]]>>] ELSE e[x]

\* A function on the natural numbers may be defined by a call of itself at an
\* argument with a smaller measure.
LEMMA MeasuredRecursion ==
    ASSUME NEW S, NEW e \in [Nat -> S], NEW D \in SUBSET Nat,
           NEW p \in [D -> Nat], NEW h \in [D \X S -> S], NEW m \in [Nat -> Nat],
           \A x \in D : m[p[x]] < m[x]
    PROVE  \E f : CallsItself(f, S, D, p, h, e)
<1> DEFINE T == [Nat -> S]
           Turn(g) == [x \in Nat |-> IF x \in D THEN h[<<x, g[p[x]]>>] ELSE e[x]]
           d == [q \in T \X Nat |-> Turn(q[1])]
<1>1. \A g \in T : Turn(g) \in T
  OBVIOUS
<1>2. d \in [T \X Nat -> T]
  BY <1>1
<1>3. \A g \in T, n \in Nat : d[<<g, n>>] = Turn(g)
  OBVIOUS
<1>4. PICK F : GoesOn(F, T, e, d)
  <2> HIDE DEF d, T
  <2>1. e \in T
    BY DEF T
  <2>2. QED
    BY <1>2, <2>1, PrimitiveRecursion
<1>5. \A n \in Nat : F[n] \in T /\ F[n + 1] = Turn(F[n])
  <2> HIDE DEF d, T, Turn
  <2>1. QED
    BY <1>3, <1>4 DEF GoesOn
<1>6. ASSUME NEW n \in Nat, NEW x \in Nat
      PROVE  F[n + 1][x] = IF x \in D THEN h[<<x, F[n][p[x]]>>] ELSE e[x]
  <2>1. F[n + 1][x] = Turn(F[n])[x]
    BY <1>5, Zenon
  <2>2. QED
    BY <2>1, Zenon
<1> HIDE DEF d, Turn
<1> DEFINE Stable == {n \in Nat : \A x, k \in Nat : m[x] < n /\ n <= k => F[k][x] = F[n][x]}
<1>7. \A n \in Nat : n \in Stable
  <2>1. 0 \in Stable
    OBVIOUS
  <2>2. ASSUME NEW n \in Nat, n \in Stable PROVE n + 1 \in Stable
    <3> SUFFICES ASSUME NEW x \in Nat, NEW k \in Nat, m[x] < n + 1, n + 1 <= k
                 PROVE  F[k][x] = F[n + 1][x]
      OBVIOUS
    <3>1. k - 1 \in Nat /\ n <= k - 1 /\ k = (k - 1) + 1
      OBVIOUS
    <3>2. F[k][x] = IF x \in D THEN h[<<x, F[k - 1][p[x]]>>] ELSE e[x]
      BY <1>6, <3>1
    <3>3. x \in D => p[x] \in Nat /\ m[p[x]] < n
      OBVIOUS
    <3>4. x \in D => F[k - 1][p[x]] = F[n][p[x]]
      BY <2>2, <3>1, <3>3
    <3>5. QED
      BY <1>6, <3>2, <3>4
  <2> HIDE DEF Stable
  <2>3. QED
    BY <2>1, <2>2, Induction
<1> DEFINE f == [x \in Nat |-> F[m[x] + 1][x]]
<1>8. f \in [Nat -> S]
  BY <1>5
<1>9. ASSUME NEW x \in Nat PROVE f[x] = IF x \in D THEN h[<<x, f[p[x]]>>] ELSE e[x]
  <2>1. f[x] = IF x \in D THEN h[<<x, F[m[x]][p[x]]>>] ELSE e[x]
    BY <1>6
  <2>2. CASE x \in D
    <3>1. p[x] \in Nat /\ m[p[x]] + 1 <= m[x] /\ m[p[x]] < m[p[x]] + 1 /\ m[p[x]] + 1 \in Nat /\ m[x] \in Nat
      BY <2>2
    <3>2. m[p[x]] + 1 \in Stable
      BY <1>7, <3>1
    <3>3. F[m[x]][p[x]] = F[m[p[x]] + 1][p[x]]
      BY <3>1, <3>2
    <3>4. QED
      BY <2>1, <3>1, <3>3
  <2>3. QED
    BY <2>1, <2>2
<1> HIDE DEF f
<1>10. CallsItself(f, S, D, p, h, e)
  BY <1>8, <1>9 DEF CallsItself
<1>11. QED
  BY <1>10

-----------------------------------------------------------------------------
(* Powers of two *)

LEMMA Pow2Def ==
    /\ Pow2 \in [Nat -> Nat \ {0}]
    /\ Pow2[0] = 1
    /\ \A n \in Nat : Pow2[n + 1] = 2 * Pow2[n]
<1> DEFINE S == Nat \ {0}
           d == [q \in S \X Nat |-> 2 * q[1]]
<1>1. d \in [S \X Nat -> S] /\ 1 \in S
  OBVIOUS
<1>2. \A v \in S, n \in Nat : d[<<v, n>>] = 2 * v
  OBVIOUS
<1> HIDE DEF d, S
<1>3. PICK f : GoesOn(f, S, 1, d)
  BY <1>1, PrimitiveRecursion
<1>4. f \in [Nat -> S] /\ f[0] = 1 /\ \A n \in Nat : f[n + 1] = 2 * f[n]
  BY <1>2, <1>3 DEF GoesOn
<1>5. ASSUME NEW n \in Nat PROVE f[n] = IF n = 0 THEN 1 ELSE 2 * f[n - 1]
  <2>1. CASE n # 0
    <3>1. n - 1 \in Nat /\ n = (n - 1) + 1
      BY <2>1
    <3>2. QED
      BY <1>4, <2>1, <3>1
  <2>2. QED
    BY <1>4, <2>1
<1>6. f = [n \in Nat |-> IF n = 0 THEN 1 ELSE 2 * f[n - 1]]
  BY <1>4, <1>5
<1>7. Pow2 = [n \in Nat |-> IF n = 0 THEN 1 ELSE 2 * Pow2[n - 1]]
  BY <1>6, Zenon DEF Pow2
<1> HIDE DEF Pow2
<1>8. Pow2[0] = 1 /\ \A n \in Nat : Pow2[n + 1] = 2 * Pow2[n]
  <2>1. Pow2[0] = 1
    BY <1>7
  <2>2. ASSUME NEW n \in Nat PROVE Pow2[n + 1] = 2 * Pow2[n]
    <3>1. n + 1 \in Nat /\ n + 1 # 0 /\ (n + 1) - 1 = n
      OBVIOUS
    <3>2. Pow2[n + 1] = IF n + 1 = 0 THEN 1 ELSE 2 * Pow2[(n + 1) - 1]
      BY <1>7, <3>1
    <3>3. QED
      BY <3>1, <3>2
  <2>3. QED
    BY <2>1, <2>2
<1> DEFINE P == {n \in Nat : Pow2[n] \in Nat \ {0}}
<1>9. \A n \in Nat : n \in P
  <2>1. 0 \in P
    BY <1>8
  <2>2. ASSUME NEW n \in Nat, n \in P PROVE n + 1 \in P
    BY <1>8, <2>2
  <2> HIDE DEF P
  <2>3. QED
    BY <2>1, <2>2, Induction
<1>10. DOMAIN Pow2 = Nat /\ Pow2 = [n \in Nat |-> Pow2[n]]
  BY <1>7, Zenon
<1>11. QED
  BY <1>8, <1>9, <1>10

LEMMA Pow2Sum == \A m, n \in Nat : Pow2[m + n] = Pow2[m] * Pow2[n]
<1> SUFFICES ASSUME NEW m \in Nat PROVE \A n \in Nat : Pow2[m + n] = Pow2[m] * Pow2[n]
  OBVIOUS
<1> DEFINE P == {n \in Nat : Pow2[m + n] = Pow2[m] * Pow2[n]}
<1>1. 0 \in P
  BY Pow2Def
<1>2. ASSUME NEW n \in Nat, n \in P PROVE n + 1 \in P
  <2>1. m + (n + 1) = (m + n) + 1 /\ m + n \in Nat
    OBVIOUS
  <2>2. Pow2[m + (n + 1)] = 2 * Pow2[m + n] /\ Pow2[n + 1] = 2 * Pow2[n]
    BY <2>1, Pow2Def
  <2>3. Pow2[m] \in Nat /\ Pow2[n] \in Nat /\ Pow2[m + n] = Pow2[m] * Pow2[n]
    BY <1>2, Pow2Def
  <2>4. QED
    BY <2>2, <2>3
<1> HIDE DEF P
<1>3. \A n \in Nat : n \in P
  BY <1>1, <1>2, Induction
<1>4. QED
  BY <1>3 DEF P

LEMMA Pow2Monotone == ASSUME NEW m \in Nat, NEW n \in Nat, m <= n PROVE Pow2[m] <= Pow2[n]
<1>1. n - m \in Nat /\ m + (n - m) = n
  OBVIOUS
<1>2. Pow2[n] = Pow2[m] * Pow2[n - m]
  BY <1>1, Pow2Sum
<1>3. Pow2[m] \in Nat /\ Pow2[n - m] \in Nat \ {0}
  BY <1>1, Pow2Def
<1>4. \A a \in Nat, b \in Nat \ {0} : a <= a * b
  OBVIOUS
<1>5. QED
  BY <1>2, <1>3, <1>4

-----------------------------------------------------------------------------
(* Sums *)

\* What a function sums up to when it adds term after term.
AddsUp(f, terms, n) ==
    /\ f \in [0..n -> Nat] /\ f[0] = 0
    /\ \A i \in 1..n : f[i] = f[i - 1] + terms[i]

LEMMA AddsUpExists ==
    ASSUME NEW n \in Nat, NEW terms, \A i \in 1..n : terms[i] \in Nat
    PROVE  \E f : AddsUp(f, terms, n)
<1> DEFINE Term(i) == IF i + 1 \in 1..n THEN terms[i + 1] ELSE 0
           d == [q \in Nat \X Nat |-> q[1] + Term(q[2])]
<1>1. d \in [Nat \X Nat -> Nat] /\ 0 \in Nat
  OBVIOUS
<1>2. \A v, i \in Nat : d[<<v, i>>] = v + Term(i)
  OBVIOUS
<1> HIDE DEF d
<1>3. PICK g : GoesOn(g, Nat, 0, d)
  BY <1>1, PrimitiveRecursion
<1>4. g \in [Nat -> Nat] /\ g[0] = 0 /\ \A i \in Nat : g[i + 1] = g[i] + Term(i)
  BY <1>2, <1>3 DEF GoesOn
<1> DEFINE f == [i \in 0..n |-> g[i]]
<1>5. f \in [0..n -> Nat] /\ f[0] = 0
  BY <1>4
<1>6. ASSUME NEW i \in 1..n PROVE f[i] = f[i - 1] + terms[i]
  <2>1. i - 1 \in Nat /\ i = (i - 1) + 1 /\ i \in 0..n /\ i - 1 \in 0..n
    OBVIOUS
  <2>2. g[i] = g[i - 1] + Term(i - 1)
    BY <1>4, <2>1
  <2>3. QED
    BY <2>1, <2>2
<1> HIDE DEF f
<1>7. AddsUp(f, terms, n)
  BY <1>5, <1>6 DEF AddsUp
<1>8. QED
  BY <1>7

\* Two functions that add the same terms up agree.
LEMMA AddsUpUnique ==
    ASSUME NEW n \in Nat, NEW m \in Nat, NEW t, NEW u, \A i \in 1..n : i <= m => t[i] = u[i],
           NEW f, AddsUp(f, t, n), NEW g, AddsUp(g, u, m)
    PROVE  \A i \in 0..n : i <= m => f[i] = g[i]
<1> DEFINE P == {i \in Nat : i <= n /\ i <= m => f[i] = g[i]}
<1>1. 0 \in P
  BY DEF AddsUp
<1>2. ASSUME NEW i \in Nat, i \in P PROVE i + 1 \in P
  <2> SUFFICES ASSUME i + 1 <= n, i + 1 <= m PROVE f[i + 1] = g[i + 1]
    OBVIOUS
  <2>1. i + 1 \in 1..n /\ i + 1 \in 1..m /\ (i + 1) - 1 = i
    OBVIOUS
  <2>2. f[i + 1] = f[i] + t[i + 1] /\ g[i + 1] = g[i] + u[i + 1]
    BY <2>1 DEF AddsUp
  <2>3. f[i] = g[i] /\ t[i + 1] = u[i + 1]
    BY <1>2, <2>1
  <2>4. QED
    BY <2>2, <2>3
<1> HIDE DEF P
<1>3. \A i \in Nat : i \in P
  BY <1>1, <1>2, Induction
<1>4. QED
  BY <1>3 DEF P

\* Total is what such a function ends with.
LEMMA TotalAddsUp ==
    ASSUME NEW n \in Nat, NEW terms, \A i \in 1..n : terms[i] \in Nat
    PROVE  \E f : AddsUp(f, terms, n) /\ Total(terms, n) = f[n]
<1> DEFINE Sum(g) == [i \in 0..n |-> IF i = 0 THEN 0 ELSE g[i - 1] + terms[i]]
           sum == CHOOSE g : g = Sum(g)
<1>1. PICK f : AddsUp(f, terms, n)
  BY AddsUpExists
<1>2. f = Sum(f)
  BY <1>1 DEF AddsUp
<1>3. sum = Sum(sum)
  BY <1>2, Zenon
<1>4. Total(terms, n) = sum[n]
  BY Zenon DEF Total
<1> HIDE DEF sum
<1>5. \A i \in 0..n : sum[i] = IF i = 0 THEN 0 ELSE sum[i - 1] + terms[i]
  BY <1>3, Zenon
<1> DEFINE P == {i \in Nat : i <= n => sum[i] = f[i]}
<1>6. \A i \in Nat : i \in P
  <2>1. 0 \in P
    BY <1>1, <1>5 DEF AddsUp
  <2>2. ASSUME NEW i \in Nat, i \in P PROVE i + 1 \in P
    <3> SUFFICES ASSUME i + 1 <= n PROVE sum[i + 1] = f[i + 1]
      OBVIOUS
    <3>1. i + 1 \in 1..n /\ i + 1 \in 0..n /\ (i + 1) - 1 = i /\ i + 1 # 0
      OBVIOUS
    <3>2. f[i + 1] = f[i] + terms[i + 1]
      BY <1>1, <3>1 DEF AddsUp
    <3>3. sum[i + 1] = sum[i] + terms[i + 1]
      BY <1>5, <3>1
    <3>4. QED
      BY <2>2, <3>2, <3>3
  <2> HIDE DEF P
  <2>3. QED
    BY <2>1, <2>2, Induction
<1>7. QED
  BY <1>1, <1>4, <1>6

\* Total term by term.
LEMMA TotalDef ==
    ASSUME NEW n \in Nat, NEW terms, \A i \in 1..n : terms[i] \in Nat
    PROVE  /\ Total(terms, n) \in Nat
           /\ n = 0 => Total(terms, n) = 0
           /\ n # 0 => Total(terms, n) = Total(terms, n - 1) + terms[n]
<1>1. PICK f : AddsUp(f, terms, n) /\ Total(terms, n) = f[n]
  BY TotalAddsUp
<1>2. f[n] \in Nat /\ (n = 0 => f[n] = 0)
  BY <1>1 DEF AddsUp
<1>3. ASSUME n # 0 PROVE Total(terms, n) = Total(terms, n - 1) + terms[n]
  <2>1. n - 1 \in Nat /\ n \in 1..n /\ \A i \in 1..(n - 1) : terms[i] \in Nat
    BY <1>3
  <2>2. PICK g : AddsUp(g, terms, n - 1) /\ Total(terms, n - 1) = g[n - 1]
    BY <2>1, TotalAddsUp
  <2>3. g[n - 1] = f[n - 1]
    BY <1>1, <2>1, <2>2, AddsUpUnique
  <2>4. QED
    BY <1>1, <2>1, <2>2, <2>3 DEF AddsUp
<1>4. QED
  BY <1>1, <1>2, <1>3

\* Total depends on the first n terms only.
LEMMA TotalFrame ==
    ASSUME NEW n \in Nat, NEW t, NEW u, \A i \in 1..n : t[i] \in Nat /\ t[i] = u[i]
    PROVE  Total(t, n) = Total(u, n)
<1>1. PICK f : AddsUp(f, t, n) /\ Total(t, n) = f[n]
  BY TotalAddsUp
<1>2. PICK g : AddsUp(g, u, n) /\ Total(u, n) = g[n]
  BY TotalAddsUp
<1>3. QED
  BY <1>1, <1>2, AddsUpUnique, SMTT(30)

-----------------------------------------------------------------------------
(* Numbers *)

LEMMA MinFacts ==
    ASSUME NEW T, T \subseteq Nat, T # {}
    PROVE  Min(T) \in T /\ \A y \in T : Min(T) <= y
<1>1. \E x \in T : \A y \in T : x <= y
  BY LeastNumber
<1>2. QED
  BY <1>1, Zenon DEF Min

LEMMA DivMod ==
    ASSUME NEW a \in Int, NEW b \in Nat \ {0}
    PROVE  /\ a \div b \in Int /\ a % b \in 0..(b - 1)
           /\ a = b * (a \div b) + (a % b)
           /\ a \in Nat => a \div b \in Nat
           /\ a \in 0..(b - 1) => a \div b = 0 /\ a % b = a
<1>1. a \div b \in Int /\ a % b \in 0..(b - 1)
  OBVIOUS
<1>2. a = b * (a \div b) + (a % b)
  OBVIOUS
<1>3. a \in Nat => a \div b \in Nat
  OBVIOUS
<1>4. a \in 0..(b - 1) => a \div b = 0 /\ a % b = a
  OBVIOUS
<1>5. QED
  BY <1>1, <1>2, <1>3, <1>4

LEMMA ModType ==
    ASSUME NEW a \in Int, NEW b \in Nat, b # 0
    PROVE  a \div b \in Int /\ a % b \in 0..(b - 1) /\ a % b \in Nat
OBVIOUS

LEMMA DivModUnique ==
    ASSUME NEW b \in Nat \ {0}, NEW q \in Int, NEW r \in 0..(b - 1)
    PROVE  (b * q + r) \div b = q /\ (b * q + r) % b = r
OBVIOUS

LEMMA WidthFacts ==
    /\ Base \in Nat /\ Base >= 2 /\ Word \in Nat /\ Word >= 2
    /\ Bytes = 0..(2 * Base - 1) /\ MaxShift \in Nat /\ Groups \in Nat \ {0}
<1>1. ASSUME NEW n \in Nat \ {0} PROVE Pow2[n] \in Nat /\ Pow2[n] >= 2
  <2>1. n - 1 \in Nat /\ (n - 1) + 1 = n
    OBVIOUS
  <2>2. Pow2[n] = 2 * Pow2[n - 1] /\ Pow2[n - 1] \in Nat \ {0}
    BY <2>1, Pow2Def
  <2>3. QED
    BY <2>2
<1>2. MaxShift \in Nat /\ MaxShift \div GroupBits \in Nat
  BY WidthAssumption, DivMod DEF MaxShift
<1>3. QED
  BY <1>1, <1>2, WidthAssumption DEF Base, Word, Bytes, Groups

LEMMA ContributionType ==
    ASSUME NEW byte \in Bytes, NEW shift \in Nat
    PROVE  Contribution(byte, shift) \in 0..(Word - 1)
<1>1. byte \in Int /\ Base \in Nat /\ Base # 0 /\ Word \in Nat /\ Word # 0
  BY WidthFacts
<1>2. byte % Base \in Nat /\ Pow2[shift] \in Nat
  BY <1>1, ModType, Pow2Def
<1> DEFINE product == (byte % Base) * Pow2[shift]
<1>3. product \in Int
  BY <1>2
<1> HIDE DEF product
<1>4. product % Word \in 0..(Word - 1)
  BY <1>1, <1>3, ModType
<1>5. QED
  BY <1>4 DEF Contribution, product

-----------------------------------------------------------------------------
(* Reader *)

\* Where a varint ends.
LEMMA VarintLengthFacts ==
    ASSUME NEW bytes \in Seq(Bytes), NEW offset \in Nat
    PROVE  LET n == VarintLength(bytes, offset)
           IN  /\ n \in 0..Groups
               /\ n # 0 => /\ offset + n <= Len(bytes)
                           /\ bytes[offset + n] < Base
                           /\ \A k \in 1..(n - 1) : bytes[offset + k] >= Base
               /\ n = 0 => \A k \in 1..Groups : offset + k <= Len(bytes) => bytes[offset + k] >= Base
<1> DEFINE ends == {n \in 1..Groups : offset + n <= Len(bytes) /\ bytes[offset + n] < Base}
           n == VarintLength(bytes, offset)
<1>1. n = IF ends = {} THEN 0 ELSE Min(ends)
  BY DEF VarintLength
<1>2. \A k \in 1..Groups : offset + k <= Len(bytes) => bytes[offset + k] \in Int
  BY WidthFacts
<1>3. CASE ends = {}
  <2>1. n = 0
    BY <1>1, <1>3
  <2>2. \A k \in 1..Groups : offset + k <= Len(bytes) => bytes[offset + k] >= Base
    <3> SUFFICES ASSUME NEW k \in 1..Groups, offset + k <= Len(bytes)
                 PROVE  bytes[offset + k] >= Base
      OBVIOUS
    <3>1. k \notin ends
      BY <1>3
    <3>2. QED
      BY <1>2, <3>1, WidthFacts
  <2> HIDE DEF n, ends
  <2>3. QED
    BY <2>1, <2>2, WidthFacts DEF n
<1>4. CASE ends # {}
  <2>1. ends \subseteq Nat
    BY WidthFacts
  <2>2. n \in ends /\ \A y \in ends : n <= y
    <3> HIDE DEF ends
    <3>1. QED
      BY <1>1, <1>4, <2>1, MinFacts
  <2>3. ASSUME NEW k \in 1..(n - 1) PROVE bytes[offset + k] >= Base
    <3>1. k \in 1..Groups /\ offset + k <= Len(bytes) /\ ~(n <= k)
      BY <2>2, WidthFacts
    <3>2. k \notin ends
      BY <2>2, <3>1
    <3>3. QED
      BY <1>2, <3>1, <3>2, WidthFacts
  <2>4. n # 0 /\ n \in 0..Groups /\ offset + n <= Len(bytes) /\ bytes[offset + n] < Base
    BY <2>2, WidthFacts
  <2> HIDE DEF n, ends
  <2>5. QED
    BY <2>3, <2>4 DEF n
<1>5. QED
  BY <1>3, <1>4

LEMMA VarintValueType ==
    ASSUME NEW bytes \in Seq(Bytes), NEW offset \in Nat, NEW n \in Nat, offset + n <= Len(bytes)
    PROVE  /\ VarintValue(bytes, offset, n) \in Nat
           /\ n = 0 => VarintValue(bytes, offset, n) = 0
           /\ n # 0 => VarintValue(bytes, offset, n) =
                          VarintValue(bytes, offset, n - 1)
                          + Contribution(bytes[offset + n], GroupBits * (n - 1))
<1> DEFINE T(i) == Contribution(bytes[offset + i], GroupBits * (i - 1))
           t == [i \in 1..n |-> T(i)]
           u == [i \in 1..(n - 1) |-> T(i)]
<1>1. ASSUME NEW i \in 1..n PROVE T(i) \in Nat
  <2>1. bytes[offset + i] \in Bytes /\ GroupBits * (i - 1) \in Nat
    BY WidthAssumption
  <2>2. T(i) \in 0..(Word - 1)
    BY <2>1, ContributionType
  <2>3. QED
    BY <2>2
<1>2. VarintValue(bytes, offset, n) = Total(t, n) /\ VarintValue(bytes, offset, n - 1) = Total(u, n - 1)
  BY DEF VarintValue
<1>3. \A i \in 1..n : t[i] \in Nat
  BY <1>1
<1>4. n # 0 => t[n] = T(n)
  OBVIOUS
<1>5. n # 0 => n - 1 \in Nat /\ \A i \in 1..(n - 1) : t[i] \in Nat /\ t[i] = u[i]
  BY <1>1
<1> HIDE DEF t, u, T
<1>6. n # 0 => Total(t, n - 1) = Total(u, n - 1)
  BY <1>5, TotalFrame
<1>7. QED
  BY <1>2, <1>3, <1>4, <1>6, TotalDef DEF T

FieldSet ==
    [number : 1..(Pow2[NumberBits] - 1), type : 0..7, varint : Nat, bytes : Seq(Bytes)]

LEMMA ReadVarintFacts ==
    ASSUME NEW bytes \in Seq(Bytes), NEW offset \in Nat
    PROVE  LET r == ReadVarint(bytes, offset)
           IN  /\ r.ok \in BOOLEAN /\ r.value \in Nat /\ r.offset \in Nat
               /\ r.ok => offset < r.offset /\ r.offset <= Len(bytes)
               /\ r.ok <=> VarintLength(bytes, offset) # 0
               /\ r.offset = offset + VarintLength(bytes, offset)
               /\ r.value = VarintValue(bytes, offset, VarintLength(bytes, offset))
<1> DEFINE n == VarintLength(bytes, offset)
<1>1. n \in Nat /\ (n # 0 => offset + n <= Len(bytes))
  BY VarintLengthFacts, WidthFacts, SMTT(30)
<1> HIDE DEF n
<1>2. VarintValue(bytes, offset, n) \in Nat
  <2>1. CASE n # 0
    BY <1>1, <2>1, VarintValueType
  <2>2. CASE n = 0
    <3>1. VarintValue(bytes, offset, 0) = Total([i \in 1..0 |-> Contribution(bytes[offset + i], GroupBits * (i - 1))], 0)
      BY DEF VarintValue
    <3>2. QED
      BY <2>2, <3>1, TotalDef
  <2>3. QED
    BY <2>1, <2>2
<1>3. ReadVarint(bytes, offset) = [ok |-> n # 0, value |-> VarintValue(bytes, offset, n), offset |-> offset + n]
  BY DEF ReadVarint, VarintOf, n
<1> DEFINE r == ReadVarint(bytes, offset)
<1>4. /\ r.ok = (n # 0) /\ r.value = VarintValue(bytes, offset, n) /\ r.offset = offset + n
      /\ r.ok \in BOOLEAN
  BY <1>3
<1> HIDE DEF r
<1>5. /\ r.value \in Nat /\ r.offset \in Nat
      /\ n # 0 => offset < r.offset /\ r.offset <= Len(bytes)
  BY <1>1, <1>2, <1>4
<1>6. QED
  BY <1>4, <1>5, Zenon DEF n, r

Numbers == 1..(Pow2[NumberBits] - 1)
Steps == [found : {TRUE}, field : FieldSet, offset : Nat]

\* A step of the reader that ends no later than the message.
IsStep(s, bytes, offset) ==
    \/ s = NoField
    \/ s \in Steps /\ offset < s.offset /\ s.offset <= Len(bytes)

LEMMA IsStepFacts ==
    ASSUME NEW s, NEW bytes, NEW offset, IsStep(s, bytes, offset)
    PROVE  /\ s.found \in BOOLEAN
           /\ s.found => s \in Steps /\ offset < s.offset /\ s.offset <= Len(bytes)
<1>1. CASE s = NoField
  <2>1. s.found = FALSE
    BY <1>1 DEF NoField
  <2>2. QED
    BY <2>1, Zenon
<1>2. CASE s \in Steps /\ offset < s.offset /\ s.offset <= Len(bytes)
  <2>1. s.found \in {TRUE}
    BY <1>2 DEF Steps
  <2>2. QED
    BY <1>2, <2>1, Zenon
<1>3. QED
  BY <1>1, <1>2, Zenon DEF IsStep

LEMMA SpanFacts ==
    ASSUME NEW bytes \in Seq(Bytes), NEW start, NEW offset \in Nat, NEW size \in Nat,
           offset <= Len(bytes), start \in Nat, start < offset,
           NEW number \in Numbers, NEW type \in 0..7
    PROVE  IsStep(Span(number, type, bytes, offset, size), bytes, start)
<1> DEFINE contents == SubSeq(bytes, offset + 1, offset + size)
<1>1. CASE size > Len(bytes) - offset
  BY <1>1 DEF Span, IsStep
<1>2. CASE ~(size > Len(bytes) - offset)
  <2>1. offset + size <= Len(bytes) /\ offset + size \in Nat /\ start < offset + size
    BY <1>2
  <2>2. contents \in Seq(Bytes)
    <3>1. \A i \in (offset + 1)..(offset + size) : bytes[i] \in Bytes
      BY <2>1
    <3>2. QED
      BY <3>1, SubSeqProperties
  <2>3. Span(number, type, bytes, offset, size) =
          [found  |-> TRUE,
           field  |-> [number |-> number, type |-> type, varint |-> 0, bytes |-> contents],
           offset |-> offset + size]
    BY <1>2 DEF Span
  <2> HIDE DEF contents
  <2>4. QED
    BY <2>1, <2>2, <2>3 DEF IsStep, Steps, FieldSet, Numbers
<1>3. QED
  BY <1>1, <1>2

LEMMA KeyFacts ==
    ASSUME NEW v \in Nat
    PROVE  /\ Pow2[NumberBits] \in Nat /\ Pow2[NumberBits] # 0
           /\ v \div 8 \in Nat /\ v % 8 \in 0..7
           /\ (v \div 8) % Pow2[NumberBits] \in 0..(Pow2[NumberBits] - 1)
<1>1. NumberBits \in Nat
  BY WidthAssumption
<1>2. Pow2[NumberBits] \in Nat /\ Pow2[NumberBits] # 0
  BY <1>1, Pow2Def
<1>3. v \div 8 \in Nat /\ v % 8 \in 0..7
  OBVIOUS
<1> DEFINE q == v \div 8
           w == Pow2[NumberBits]
<1>4. q \in Int /\ w \in Nat /\ w # 0
  BY <1>2, <1>3
<1> HIDE DEF q, w
<1>5. q % w \in 0..(w - 1)
  BY <1>4, ModType
<1>6. QED
  BY <1>2, <1>3, <1>5 DEF q, w

\* One call of Reader::next moves on, and stays inside the message.
LEMMA ReaderNextFacts ==
    ASSUME NEW bytes \in Seq(Bytes), NEW offset \in Nat
    PROVE  IsStep(ReaderNext(bytes, offset), bytes, offset)
<1> DEFINE key == ReadVarint(bytes, offset)
           number == (key.value \div 8) % Pow2[NumberBits]
           type == key.value % 8
           word == ReadVarint(bytes, key.offset)
<1>1. CASE offset >= Len(bytes) \/ ~key.ok \/ number = 0
  BY <1>1 DEF ReaderNext, FieldWithKey, IsStep
<1>2. CASE ~(offset >= Len(bytes) \/ ~key.ok \/ number = 0)
  <2>1. /\ key.value \in Nat /\ key.offset \in Nat
        /\ offset < key.offset /\ key.offset <= Len(bytes)
    BY <1>2, ReadVarintFacts
  <2>2. /\ word.value \in Nat /\ word.offset \in Nat
        /\ word.ok => key.offset < word.offset /\ word.offset <= Len(bytes)
    BY <2>1, ReadVarintFacts
  <2>3. number \in Numbers /\ type \in 0..7
    <3>1. /\ number \in 0..(Pow2[NumberBits] - 1) /\ type \in 0..7
          /\ number # 0 /\ Pow2[NumberBits] \in Nat
      BY <1>2, <2>1, KeyFacts
    <3> HIDE DEF number, type
    <3>2. QED
      BY <3>1 DEF Numbers
  <2>4. ReaderNext(bytes, offset) = FieldAfter(bytes, key, number, type, word)
    BY <1>2 DEF ReaderNext, FieldWithKey
  <2> HIDE DEF key, number, type, word
  <2>5. CASE type = VarintType /\ word.ok
    <3>1. FieldAfter(bytes, key, number, type, word) =
            [found  |-> TRUE,
             field  |-> [number |-> number, type |-> type, varint |-> word.value, bytes |-> <<>>],
             offset |-> word.offset]
      BY <2>5 DEF FieldAfter, VarintType, LengthDelimited, Fixed64, Fixed32
    <3>2. QED
      BY <2>1, <2>2, <2>3, <2>4, <2>5, <3>1 DEF IsStep, Steps, FieldSet, Numbers
  <2>6. CASE type = LengthDelimited /\ word.ok
    <3>1. FieldAfter(bytes, key, number, type, word) =
            Span(number, type, bytes, word.offset, word.value)
      BY <2>6 DEF FieldAfter, VarintType, LengthDelimited, Fixed64, Fixed32
    <3>2. offset < word.offset /\ word.offset <= Len(bytes)
      BY <2>1, <2>2, <2>6
    <3>3. QED
      BY <2>2, <2>3, <2>4, <3>1, <3>2, SpanFacts
  <2>7. CASE type \in {Fixed64, Fixed32}
    <3> DEFINE size == IF type = Fixed64 THEN Fixed64Size ELSE Fixed32Size
    <3>1. FieldAfter(bytes, key, number, type, word) =
            Span(number, type, bytes, key.offset, size)
      BY <2>7 DEF FieldAfter, VarintType, LengthDelimited, Fixed64, Fixed32
    <3>2. size \in Nat
      BY WidthAssumption
    <3> HIDE DEF size
    <3>3. QED
      BY <2>1, <2>3, <2>4, <3>1, <3>2, SpanFacts
  <2>8. CASE /\ ~(type = VarintType /\ word.ok) /\ ~(type = LengthDelimited /\ word.ok)
             /\ ~(type \in {Fixed64, Fixed32})
    <3>1. FieldAfter(bytes, key, number, type, word) = NoField
      BY <2>8 DEF FieldAfter
    <3>2. QED
      BY <2>4, <3>1 DEF IsStep
  <2>9. QED
    BY <2>5, <2>6, <2>7, <2>8
<1>3. QED
  BY <1>1, <1>2

\* The loop around Reader::next, turn by turn.
LEMMA WalkFromDef ==
    ASSUME NEW bytes \in Seq(Bytes), NEW offset \in Nat
    PROVE  LET next == ReaderNext(bytes, offset)
           IN  /\ WalkFrom(bytes, offset) \in Seq(Steps)
               /\ WalkFrom(bytes, offset) =
                     IF next.found THEN <<next>> \o WalkFrom(bytes, next.offset) ELSE <<>>
<1> DEFINE N(o) == ReaderNext(bytes, o)
           S == Seq(Steps)
           D == {o \in Nat : N(o).found}
           p == [o \in D |-> N(o).offset]
           h == [q \in D \X S |-> <<N(q[1])>> \o q[2]]
           e == [o \in Nat |-> <<>>]
           m == [o \in Nat |-> IF o <= Len(bytes) THEN Len(bytes) - o ELSE 0]
           Turn(g) == [o \in Nat |-> IF N(o).found THEN <<N(o)>> \o g[N(o).offset] ELSE <<>>]
           from == CHOOSE g : g = Turn(g)
<1>1. \A o \in Nat : IsStep(N(o), bytes, o)
  BY ReaderNextFacts
<1>2. \A o \in D : N(o) \in Steps /\ N(o).offset \in Nat /\ o < N(o).offset /\ N(o).offset <= Len(bytes)
  <2> HIDE DEF N
  <2>1. \A o \in D : N(o) \in Steps /\ o < N(o).offset /\ N(o).offset <= Len(bytes)
    BY <1>1, IsStepFacts
  <2>2. QED
    BY <2>1 DEF Steps
<1> HIDE DEF N
<1>3. D \in SUBSET Nat /\ e \in [Nat -> S]
  OBVIOUS
<1>4. p \in [D -> Nat]
  BY <1>2
<1>5. h \in [D \X S -> S]
  BY <1>2
<1>6. m \in [Nat -> Nat]
  OBVIOUS
<1>7. \A o \in D : m[p[o]] < m[o]
  BY <1>2
<1>8. \A o \in D, s \in S : h[<<o, s>>] = <<N(o)>> \o s
  OBVIOUS
<1>9. \A o \in D : p[o] = N(o).offset
  OBVIOUS
<1>10. \A o \in Nat : e[o] = <<>> /\ (o \in D <=> N(o).found)
  OBVIOUS
<1> HIDE DEF S, D, p, h, e, m
<1>11. PICK f : CallsItself(f, S, D, p, h, e)
  BY <1>3, <1>4, <1>5, <1>6, <1>7, MeasuredRecursion
<1>12. ASSUME NEW o \in Nat PROVE f[o] = IF N(o).found THEN <<N(o)>> \o f[N(o).offset] ELSE <<>>
  <2>1. f[o] = IF o \in D THEN h[<<o, f[p[o]]>>] ELSE e[o]
    BY <1>11 DEF CallsItself
  <2>2. CASE o \in D
    <3>1. f[N(o).offset] \in S
      BY <1>2, <1>11, <2>2 DEF CallsItself
    <3>2. QED
      BY <1>8, <1>9, <1>10, <2>1, <2>2, <3>1
  <2>3. QED
    BY <1>10, <2>1, <2>2
<1>13. f \in [Nat -> S]
  BY <1>11 DEF CallsItself
<1>14. f = Turn(f)
  BY <1>12, <1>13
<1>15. from = Turn(from)
  BY <1>14, Zenon
<1>16. \A o \in Nat : WalkFrom(bytes, o) = from[o]
  BY Zenon DEF WalkFrom, N
<1> HIDE DEF from
<1>17. ASSUME NEW o \in Nat PROVE from[o] = IF N(o).found THEN <<N(o)>> \o from[N(o).offset] ELSE <<>>
  BY <1>15, Zenon
<1> DEFINE P == {n \in Nat : \A o \in Nat : m[o] < n => from[o] \in Seq(Steps)}
<1>18. \A n \in Nat : n \in P
  <2>1. 0 \in P
    BY <1>6
  <2>2. ASSUME NEW n \in Nat, n \in P PROVE n + 1 \in P
    <3> SUFFICES ASSUME NEW o \in Nat, m[o] < n + 1 PROVE from[o] \in Seq(Steps)
      OBVIOUS
    <3>1. CASE o \in D
      <4>0. N(o) \in Steps /\ N(o).offset \in Nat /\ p[o] = N(o).offset
        BY <1>2, <1>9, <3>1
      <4>a. m[o] \in Nat /\ m[p[o]] \in Nat /\ m[p[o]] < m[o]
        BY <1>6, <1>7, <3>1, <4>0
      <4>1. N(o) \in Steps /\ N(o).offset \in Nat /\ m[N(o).offset] < n
        BY <4>0, <4>a
      <4>2. from[N(o).offset] \in Seq(Steps)
        BY <2>2, <4>1
      <4>3. from[o] = <<N(o)>> \o from[N(o).offset]
        BY <1>10, <1>17, <3>1
      <4>4. QED
        BY <4>1, <4>2, <4>3
    <3>2. CASE o \notin D
      <4>1. from[o] = <<>>
        BY <1>10, <1>17, <3>2
      <4>2. QED
        BY <4>1
    <3>3. QED
      BY <3>1, <3>2
  <2> HIDE DEF P
  <2>3. QED
    BY <2>1, <2>2, Induction
<1>19. from[offset] \in Seq(Steps)
  <2>0. m[offset] \in Nat
    BY <1>6
  <2>1. m[offset] + 1 \in Nat /\ m[offset] < m[offset] + 1
    BY <2>0
  <2>2. m[offset] + 1 \in P
    BY <1>18, <2>1
  <2>3. QED
    BY <2>1, <2>2
<1>20. CASE N(offset).found
  <2>1. N(offset).offset \in Nat
    BY <1>2, <1>10, <1>20
  <2>2. QED
    BY <1>16, <1>17, <1>19, <1>20, <2>1 DEF N
<1>21. CASE ~N(offset).found
  BY <1>16, <1>17, <1>19, <1>21 DEF N
<1>22. QED
  BY <1>20, <1>21

\* The offsets after the fields rise, from the one the reader starts at, and
\* none is beyond the end.
Rises(walk, bytes, offset) ==
    \A k \in DOMAIN walk :
        /\ walk[k].offset \in Nat /\ walk[k].offset <= Len(bytes)
        /\ IF k = 1 THEN offset < walk[k].offset ELSE walk[k - 1].offset < walk[k].offset

LEMMA WalkRises ==
    ASSUME NEW bytes \in Seq(Bytes), NEW offset \in Nat
    PROVE  Rises(WalkFrom(bytes, offset), bytes, offset)
<1> DEFINE P == {n \in Nat : \A o \in Nat : Len(bytes) < o + n => Rises(WalkFrom(bytes, o), bytes, o)}
<1>0. Len(bytes) \in Nat
  OBVIOUS
<1>1. ASSUME NEW o \in Nat, ~ReaderNext(bytes, o).found PROVE Rises(WalkFrom(bytes, o), bytes, o)
  <2>1. WalkFrom(bytes, o) = <<>>
    BY <1>1, WalkFromDef
  <2>2. QED
    BY <2>1 DEF Rises
<1>2. ASSUME NEW o \in Nat, LET next == ReaderNext(bytes, o)
                            IN  next.found /\ Rises(WalkFrom(bytes, next.offset), bytes, next.offset)
      PROVE Rises(WalkFrom(bytes, o), bytes, o)
  <2> DEFINE next == ReaderNext(bytes, o)
             rest == WalkFrom(bytes, next.offset)
             walk == <<next>> \o rest
  <2>1. next.found /\ Rises(rest, bytes, next.offset)
    BY <1>2
  <2>2. next \in Steps /\ o < next.offset /\ next.offset <= Len(bytes)
    BY <2>1, ReaderNextFacts, IsStepFacts
  <2>3. next.offset \in Nat
    BY <2>2 DEF Steps
  <2>4. rest \in Seq(Steps)
    BY <2>3, WalkFromDef
  <2>5. WalkFrom(bytes, o) = walk
    BY <2>1, WalkFromDef
  <2> HIDE DEF next, rest
  <2>6. /\ DOMAIN walk = 1..(Len(rest) + 1) /\ walk[1] = next
        /\ \A k \in 2..(Len(rest) + 1) : walk[k] = rest[k - 1]
        /\ DOMAIN rest = 1..Len(rest) /\ Len(rest) \in Nat
    BY <2>4
  <2> HIDE DEF walk
  <2>7. ASSUME NEW k \in DOMAIN walk
        PROVE  /\ walk[k].offset \in Nat /\ walk[k].offset <= Len(bytes)
               /\ IF k = 1 THEN o < walk[k].offset ELSE walk[k - 1].offset < walk[k].offset
    <3>1. CASE k = 1
      BY <2>2, <2>3, <2>6, <3>1
    <3>2. CASE k # 1
      <4>1. k \in 2..(Len(rest) + 1) /\ k - 1 \in DOMAIN rest /\ walk[k] = rest[k - 1]
        BY <2>6, <3>2
      <4>2. /\ rest[k - 1].offset \in Nat /\ rest[k - 1].offset <= Len(bytes)
            /\ IF k - 1 = 1 THEN next.offset < rest[k - 1].offset
               ELSE rest[(k - 1) - 1].offset < rest[k - 1].offset
        BY <2>1, <4>1 DEF Rises
      <4>3. CASE k = 2
        BY <2>6, <4>1, <4>2, <4>3
      <4>4. CASE k # 2
        <5>1. k - 1 \in 2..(Len(rest) + 1)
          BY <2>6, <4>1, <4>4
        <5>2. walk[k - 1] = rest[(k - 1) - 1]
          BY <2>6, <5>1
        <5>3. k - 1 # 1
          BY <4>1, <4>4
        <5>4. QED
          BY <3>2, <4>1, <4>2, <5>2, <5>3
      <4>5. QED
        BY <4>3, <4>4
    <3>3. QED
      BY <3>1, <3>2
  <2>8. QED
    BY <2>5, <2>7 DEF Rises
<1>3. \A n \in Nat : n \in P
  <2>1. 0 \in P
    <3> SUFFICES ASSUME NEW o \in Nat, Len(bytes) < o PROVE Rises(WalkFrom(bytes, o), bytes, o)
      OBVIOUS
    <3>1. ReaderNext(bytes, o) = NoField
      BY <1>0 DEF ReaderNext
    <3>2. ~ReaderNext(bytes, o).found
      BY <3>1 DEF NoField
    <3>3. QED
      BY <1>1, <3>2
  <2>2. ASSUME NEW n \in Nat, n \in P PROVE n + 1 \in P
    <3> SUFFICES ASSUME NEW o \in Nat, Len(bytes) < o + (n + 1)
                 PROVE Rises(WalkFrom(bytes, o), bytes, o)
      OBVIOUS
    <3> DEFINE next == ReaderNext(bytes, o)
    <3>1. CASE next.found
      <4>1. next \in Steps /\ o < next.offset
        BY <3>1, ReaderNextFacts, IsStepFacts
      <4>2. next.offset \in Nat
        BY <4>1 DEF Steps
      <4> HIDE DEF next
      <4>3. Len(bytes) < next.offset + n
        BY <1>0, <4>1, <4>2
      <4>4. Rises(WalkFrom(bytes, next.offset), bytes, next.offset)
        BY <2>2, <4>2, <4>3
      <4>5. QED
        BY <1>2, <3>1, <4>4 DEF next
    <3>2. CASE ~next.found
      BY <1>1, <3>2
    <3>3. QED
      BY <3>1, <3>2
  <2> HIDE DEF P
  <2>3. QED
    BY <2>1, <2>2, Induction
<1>4. QED
  <2>1. Len(bytes) + 1 \in Nat /\ Len(bytes) < offset + (Len(bytes) + 1)
    BY <1>0
  <2>2. Len(bytes) + 1 \in P
    BY <1>3, <2>1
  <2>3. QED
    BY <2>1, <2>2

\* Reader, whatever bytes it is given: every call of next that returns true
\* moves on and stays inside the message, so the loops of parseRemote,
\* findVarint, findBytes and hasField end.
THEOREM ReaderIsBounded == \A bytes \in Seq(Bytes) : StaysInside(bytes)
<1> SUFFICES ASSUME NEW bytes \in Seq(Bytes) PROVE StaysInside(bytes)
  OBVIOUS
<1> DEFINE walk == Walk(bytes)
           ends == <<0>> \o [k \in DOMAIN walk |-> walk[k].offset]
<1>1. walk \in Seq(Steps) /\ Rises(walk, bytes, 0)
  BY WalkFromDef, WalkRises DEF Walk
<1> HIDE DEF walk
<1>2. [k \in DOMAIN walk |-> walk[k].offset] \in Seq(Nat)
  <2>1. \A k \in 1..Len(walk) : walk[k].offset \in Nat
    BY <1>1 DEF Rises
  <2>2. Len(walk) \in Nat /\ DOMAIN walk = 1..Len(walk)
    BY <1>1
  <2>3. QED
    BY <2>1, <2>2
<1>3. /\ Len(walk) \in Nat /\ DOMAIN walk = 1..Len(walk)
      /\ Len(ends) = Len(walk) + 1 /\ ends[1] = 0
      /\ \A k \in 1..Len(walk) : ends[k + 1] = walk[k].offset
  BY <1>1, <1>2
<1> HIDE DEF ends
<1>4. ends[Len(ends)] <= Len(bytes)
  <2>1. CASE Len(walk) = 0
    BY <1>3, <2>1
  <2>2. CASE Len(walk) # 0
    <3>1. Len(walk) \in DOMAIN walk
      BY <1>3, <2>2
    <3>2. walk[Len(walk)].offset <= Len(bytes)
      BY <1>1, <3>1 DEF Rises
    <3>3. QED
      BY <1>3, <3>1, <3>2
  <2>3. QED
    BY <2>1, <2>2
<1>5. ASSUME NEW k \in 1..(Len(ends) - 1) PROVE ends[k] < ends[k + 1]
  <2>1. k \in DOMAIN walk
    BY <1>3
  <2>2. IF k = 1 THEN 0 < walk[k].offset ELSE walk[k - 1].offset < walk[k].offset
    BY <1>1, <2>1 DEF Rises
  <2>3. CASE k = 1
    BY <1>3, <2>1, <2>2, <2>3
  <2>4. CASE k # 1
    <3>1. k - 1 \in 1..Len(walk) /\ (k - 1) + 1 = k
      BY <1>3, <2>1, <2>4
    <3>2. ends[k] = walk[k - 1].offset
      BY <1>3, <3>1
    <3>3. QED
      BY <1>3, <2>1, <2>2, <2>4, <3>2
  <2>5. QED
    BY <2>3, <2>4
<1>6. QED
  BY <1>4, <1>5 DEF StaysInside, walk, ends

-----------------------------------------------------------------------------
(* What a varint stands for *)

\* The first n bytes from offset, when no bit is lost.
Worth(bytes, offset, n) ==
    Total([i \in 1..n |-> (bytes[offset + i] % Base) * Pow2[GroupBits * (i - 1)]], n)

\* Is s in these bytes, at offset?
Holds(bytes, offset, s) ==
    /\ offset + Len(s) <= Len(bytes)
    /\ \A i \in 1..Len(s) : bytes[offset + i] = s[i]

LEMMA GroupType == ASSUME NEW byte \in Bytes PROVE byte % Base \in 0..(Base - 1) /\ byte % Base \in Nat
<1>1. byte \in Int /\ Base \in Nat /\ Base # 0
  BY WidthFacts
<1>2. QED
  BY <1>1, ModType

LEMMA TermType ==
    ASSUME NEW byte \in Bytes, NEW i \in Nat, i # 0
    PROVE  /\ byte % Base \in 0..(Base - 1) /\ Pow2[GroupBits * (i - 1)] \in Nat \ {0}
           /\ (byte % Base) * Pow2[GroupBits * (i - 1)] \in Nat
<1>1. byte \in Int /\ Base \in Nat /\ Base # 0
  BY WidthFacts
<1>2. byte % Base \in 0..(Base - 1)
  BY <1>1, ModType
<1>3. GroupBits * (i - 1) \in Nat
  BY WidthAssumption
<1>4. Pow2[GroupBits * (i - 1)] \in Nat \ {0}
  BY <1>3, Pow2Def
<1> DEFINE a == byte % Base
           b == Pow2[GroupBits * (i - 1)]
<1>5. a \in Nat /\ b \in Nat
  BY <1>1, <1>2, <1>4
<1> HIDE DEF a, b
<1>6. a * b \in Nat
  BY <1>5
<1>7. QED
  BY <1>2, <1>4, <1>6 DEF a, b

LEMMA WorthDef ==
    ASSUME NEW bytes \in Seq(Bytes), NEW offset \in Nat, NEW n \in Nat, offset + n <= Len(bytes)
    PROVE  /\ Worth(bytes, offset, n) \in Nat
           /\ n = 0 => Worth(bytes, offset, n) = 0
           /\ n # 0 => Worth(bytes, offset, n) =
                          Worth(bytes, offset, n - 1)
                          + ((bytes[offset + n] % Base) * Pow2[GroupBits * (n - 1)])
<1> DEFINE T(i) == (bytes[offset + i] % Base) * Pow2[GroupBits * (i - 1)]
           t == [i \in 1..n |-> T(i)]
           u == [i \in 1..(n - 1) |-> T(i)]
<1>1. ASSUME NEW i \in 1..n PROVE T(i) \in Nat
  <2>1. bytes[offset + i] \in Bytes /\ i \in Nat /\ i # 0
    OBVIOUS
  <2>2. QED
    BY <2>1, TermType
<1>2. Worth(bytes, offset, n) = Total(t, n) /\ Worth(bytes, offset, n - 1) = Total(u, n - 1)
  BY DEF Worth
<1>3. \A i \in 1..n : t[i] \in Nat
  BY <1>1
<1>4. n # 0 => t[n] = T(n)
  OBVIOUS
<1>5. n # 0 => n - 1 \in Nat /\ \A i \in 1..(n - 1) : t[i] \in Nat /\ t[i] = u[i]
  BY <1>1
<1> HIDE DEF t, u, T
<1>6. n # 0 => Total(t, n - 1) = Total(u, n - 1)
  BY <1>5, TotalFrame
<1>7. QED
  BY <1>2, <1>3, <1>4, <1>6, TotalDef DEF T

\* The n bytes of a from o are those of b from p.
Agree(a, o, b, p, n) ==
    /\ a \in Seq(Bytes) /\ b \in Seq(Bytes) /\ o \in Nat /\ p \in Nat /\ n \in Nat
    /\ o + n <= Len(a) /\ p + n <= Len(b) /\ \A i \in 1..n : a[o + i] = b[p + i]

LEMMA WorthFrame ==
    ASSUME NEW a, NEW b, NEW o, NEW p, NEW n, Agree(a, o, b, p, n)
    PROVE  Worth(a, o, n) = Worth(b, p, n)
<1> USE DEF Agree
<1> DEFINE t == [i \in 1..n |-> (a[o + i] % Base) * Pow2[GroupBits * (i - 1)]]
           u == [i \in 1..n |-> (b[p + i] % Base) * Pow2[GroupBits * (i - 1)]]
<1>1. ASSUME NEW i \in 1..n PROVE t[i] \in Nat /\ t[i] = u[i]
  <2>1. a[o + i] \in Bytes /\ i \in Nat /\ i # 0 /\ a[o + i] = b[p + i]
    OBVIOUS
  <2>2. (a[o + i] % Base) * Pow2[GroupBits * (i - 1)] \in Nat
    BY <2>1, TermType
  <2>3. QED
    BY <2>1, <2>2
<1>2. Worth(a, o, n) = Total(t, n) /\ Worth(b, p, n) = Total(u, n)
  BY DEF Worth
<1> HIDE DEF t, u
<1>3. QED
  BY <1>1, <1>2, TotalFrame

\* The first byte is the lowest group.
LEMMA WorthCons ==
    ASSUME NEW s \in Seq(Bytes), NEW o \in Nat, NEW n \in Nat, o + (n + 1) <= Len(s)
    PROVE  Worth(s, o, n + 1) = (s[o + 1] % Base) + (Base * Worth(s, o + 1, n))
<1> DEFINE P == {k \in Nat : o + (k + 1) <= Len(s) =>
                               Worth(s, o, k + 1) = (s[o + 1] % Base) + (Base * Worth(s, o + 1, k))}
<1>0. Len(s) \in Nat /\ Base \in Nat
  BY WidthFacts
<1>1. 0 \in P
  <2> SUFFICES ASSUME o + 1 <= Len(s)
               PROVE  Worth(s, o, 1) = (s[o + 1] % Base) + (Base * Worth(s, o + 1, 0))
    OBVIOUS
  <2>1. Worth(s, o, 1) = Worth(s, o, 0) + ((s[o + 1] % Base) * Pow2[GroupBits * 0])
    BY <1>0, WorthDef
  <2>2. Worth(s, o, 0) = 0 /\ Worth(s, o + 1, 0) = 0
    BY <1>0, WorthDef
  <2>3. GroupBits * 0 = 0 /\ Pow2[0] = 1
    BY WidthAssumption, Pow2Def
  <2>4. s[o + 1] \in Bytes
    BY <1>0
  <2>5. s[o + 1] % Base \in Nat
    BY <2>4, GroupType
  <2>6. QED
    BY <1>0, <2>1, <2>2, <2>3, <2>5
<1>2. ASSUME NEW k \in Nat, k \in P PROVE k + 1 \in P
  <2> SUFFICES ASSUME o + ((k + 1) + 1) <= Len(s)
               PROVE  Worth(s, o, (k + 1) + 1) = (s[o + 1] % Base) + (Base * Worth(s, o + 1, k + 1))
    OBVIOUS
  <2> DEFINE q == s[o + (k + 2)] % Base
             lower == Pow2[GroupBits * k]
             upper == Pow2[GroupBits * (k + 1)]
             first == s[o + 1] % Base
             low == Worth(s, o + 1, k)
  <2>1. /\ o + (k + 1) <= Len(s) /\ (o + 1) + k <= Len(s) /\ (o + 1) + (k + 1) <= Len(s)
        /\ k + 2 \in Nat /\ k + 1 \in Nat /\ k + 1 # 0 /\ k + 2 # 0 /\ (k + 2) - 1 = k + 1 /\ (k + 1) - 1 = k
        /\ (o + 1) + (k + 1) = o + (k + 2) /\ (k + 1) + 1 = k + 2 /\ o + (k + 2) <= Len(s) /\ o + 1 \in Nat
        /\ o + (k + 2) \in 1..Len(s) /\ o + 1 \in 1..Len(s)
    BY <1>0
  <2>2. Worth(s, o, k + 1) = first + (Base * low)
    BY <1>2, <2>1
  <2>3. Worth(s, o, k + 2) = Worth(s, o, k + 1) + (q * upper)
    BY <2>1, WorthDef
  <2>4. Worth(s, o + 1, k + 1) = low + (q * lower)
    BY <2>1, WorthDef
  <2>5. low \in Nat
    BY <2>1, WorthDef
  <2>6. s[o + (k + 2)] \in Bytes /\ s[o + 1] \in Bytes
    BY <2>1
  <2>7. q \in Nat /\ first \in Nat
    BY <2>6, GroupType
  <2>8. upper = Base * lower /\ lower \in Nat
    <3>1. GroupBits * k \in Nat /\ GroupBits \in Nat /\ GroupBits * (k + 1) = GroupBits + (GroupBits * k)
      BY WidthAssumption
    <3>2. QED
      BY <3>1, Pow2Sum, Pow2Def DEF Base
  <2> HIDE DEF q, lower, upper, first, low
  <2>9. Base * (low + (q * lower)) = (Base * low) + (q * (Base * lower))
    BY <1>0, <2>5, <2>7, <2>8
  <2>10. QED
    BY <1>0, <2>1, <2>2, <2>3, <2>4, <2>5, <2>7, <2>8, <2>9 DEF first
<1> HIDE DEF P
<1>3. \A k \in Nat : k \in P
  BY <1>1, <1>2, Induction
<1>4. QED
  BY <1>3 DEF P

\* More bytes are worth no less, and none is worth more than all.
LEMMA WorthRises ==
    ASSUME NEW s \in Seq(Bytes), NEW o \in Nat, NEW n \in Nat, NEW k \in Nat, k <= n, o + n <= Len(s)
    PROVE  /\ Worth(s, o, k) <= Worth(s, o, n)
           /\ k # 0 => ((s[o + k] % Base) * Pow2[GroupBits * (k - 1)]) <= Worth(s, o, n)
<1> DEFINE P == {j \in Nat : k + j <= n => Worth(s, o, k) <= Worth(s, o, k + j)}
<1>0. Len(s) \in Nat
  OBVIOUS
<1>1. 0 \in P
  <2>1. o + k <= Len(s) /\ k + 0 = k
    BY <1>0
  <2>2. Worth(s, o, k) \in Nat
    BY <2>1, WorthDef
  <2>3. QED
    BY <2>1, <2>2
<1>2. ASSUME NEW j \in Nat, j \in P PROVE j + 1 \in P
  <2> SUFFICES ASSUME k + (j + 1) <= n PROVE Worth(s, o, k) <= Worth(s, o, k + (j + 1))
    OBVIOUS
  <2> DEFINE e == k + (j + 1)
             more == (s[o + e] % Base) * Pow2[GroupBits * (e - 1)]
  <2>1. /\ e \in Nat /\ e # 0 /\ e - 1 = k + j /\ k + j <= n /\ o + e <= Len(s) /\ o + k <= Len(s)
        /\ k + j \in Nat /\ o + (k + j) <= Len(s) /\ o + e \in 1..Len(s)
    BY <1>0
  <2>2. Worth(s, o, k) <= Worth(s, o, k + j)
    BY <1>2, <2>1
  <2>3. more \in Nat
    BY <2>1, TermType
  <2>4. Worth(s, o, e) = Worth(s, o, e - 1) + more
    BY <2>1, WorthDef
  <2>5. Worth(s, o, k) \in Nat /\ Worth(s, o, k + j) \in Nat
    BY <2>1, WorthDef
  <2> HIDE DEF more, e
  <2>6. Worth(s, o, k) <= Worth(s, o, e)
    BY <2>1, <2>2, <2>3, <2>4, <2>5
  <2>7. QED
    BY <2>6 DEF e
<1> HIDE DEF P
<1>3. \A j \in Nat : j \in P
  BY <1>1, <1>2, Induction
<1>4. Worth(s, o, k) <= Worth(s, o, n)
  <2>1. n - k \in Nat /\ k + (n - k) = n /\ k + (n - k) <= n
    OBVIOUS
  <2>2. QED
    BY <1>3, <2>1 DEF P
<1>5. ASSUME k # 0 PROVE ((s[o + k] % Base) * Pow2[GroupBits * (k - 1)]) <= Worth(s, o, n)
  <2> DEFINE more == (s[o + k] % Base) * Pow2[GroupBits * (k - 1)]
  <2>1. o + k <= Len(s) /\ o + k \in 1..Len(s) /\ k - 1 \in Nat /\ o + (k - 1) <= Len(s)
    BY <1>0, <1>5
  <2>2. more \in Nat
    BY <1>5, <2>1, TermType
  <2>3. Worth(s, o, k) = Worth(s, o, k - 1) + more
    BY <1>5, <2>1, WorthDef
  <2>4. Worth(s, o, k) \in Nat /\ Worth(s, o, k - 1) \in Nat /\ Worth(s, o, n) \in Nat
    BY <2>1, WorthDef
  <2> HIDE DEF more
  <2>5. more <= Worth(s, o, n)
    BY <1>4, <2>2, <2>3, <2>4
  <2>6. QED
    BY <2>5 DEF more
<1>6. QED
  BY <1>4, <1>5

\* Writer::varint, byte by byte.
LEMMA VarintDef ==
    ASSUME NEW v \in Nat
    PROVE  /\ Varint(v) \in Seq(Bytes)
           /\ v < Base => Varint(v) = <<v>>
           /\ ~(v < Base) => /\ Varint(v) = <<(v % Base) + Base>> \o Varint(v \div Base)
                             /\ v \div Base \in Nat /\ v \div Base < v
<1> DEFINE S == Seq(Bytes)
           D == {x \in Nat : ~(x < Base)}
           B(x) == <<(x % Base) + Base>>
           p == [x \in D |-> x \div Base]
           h == [q \in D \X S |-> B(q[1]) \o q[2]]
           e == [x \in Nat |-> IF x < Base THEN <<x>> ELSE <<>>]
           m == [x \in Nat |-> x]
           Turn(g) == [x \in Nat |-> IF x < Base THEN <<x>> ELSE B(x) \o g[x \div Base]]
           rest == CHOOSE g : g = Turn(g)
<1>1. Base \in Nat /\ Base >= 2 /\ Bytes = 0..(2 * Base - 1)
  BY WidthFacts
<1>2. ASSUME NEW x \in Nat, ~(x < Base) PROVE x \div Base \in Nat /\ x \div Base < x
  <2> DEFINE q == x \div Base
             r == x % Base
  <2>1. q \in Nat /\ r \in 0..(Base - 1) /\ x = (Base * q) + r
    <3>1. x \in Int /\ Base \in Nat \ {0}
      BY <1>1
    <3>2. QED
      BY <3>1, DivMod
  <2> HIDE DEF q, r
  <2>2. x > 0 /\ r \in Nat /\ (q = 0 => x = r)
    BY <1>1, <1>2, <2>1
  <2>3. q > 0
    BY <1>1, <1>2, <2>1, <2>2
  <2>4. Base * q >= 2 * q
    BY <1>1, <2>1
  <2>5. q < x
    BY <1>1, <2>1, <2>2, <2>3, <2>4
  <2>6. QED
    BY <2>1, <2>5 DEF q
<1>3. ASSUME NEW x \in Nat PROVE (x % Base) + Base \in Bytes
  <2>1. x \in Int /\ Base # 0
    BY <1>1
  <2>2. x % Base \in 0..(Base - 1)
    BY <1>1, <2>1, ModType
  <2>3. QED
    BY <1>1, <2>2
<1>4. \A x \in Nat : B(x) \in S
  <2> SUFFICES ASSUME NEW x \in Nat PROVE B(x) \in S
    OBVIOUS
  <2> DEFINE b == (x % Base) + Base
  <2>1. b \in Bytes
    BY <1>3
  <2> HIDE DEF b
  <2>2. <<b>> \in Seq(Bytes)
    BY <2>1
  <2>3. QED
    BY <2>2 DEF b
<1> HIDE DEF B
<1>5. D \in SUBSET Nat
  OBVIOUS
<1>6. e \in [Nat -> S]
  <2>1. \A x \in Nat : x < Base => <<x>> \in S
    BY <1>1
  <2>2. QED
    BY <2>1
<1>7. p \in [D -> Nat]
  BY <1>2
<1>8. h \in [D \X S -> S]
  <2>1. ASSUME NEW q \in D \X S PROVE B(q[1]) \o q[2] \in S
    <3>1. B(q[1]) \in Seq(Bytes) /\ q[2] \in Seq(Bytes)
      BY <1>4
    <3>2. QED
      BY <3>1
  <2>2. QED
    BY <2>1
<1>9. m \in [Nat -> Nat]
  OBVIOUS
<1>10. \A x \in D : m[p[x]] < m[x]
  BY <1>2
<1>11. \A x \in D, s \in S : h[<<x, s>>] = B(x) \o s
  OBVIOUS
<1>12. \A x \in D : p[x] = x \div Base
  OBVIOUS
<1>13. \A x \in Nat : (x \in D <=> ~(x < Base)) /\ (x < Base => e[x] = <<x>>)
  OBVIOUS
<1> HIDE DEF S, D, p, h, e, m
<1>14. PICK f : CallsItself(f, S, D, p, h, e)
  BY <1>5, <1>6, <1>7, <1>8, <1>9, <1>10, MeasuredRecursion
<1>15. f \in [Nat -> S]
  BY <1>14 DEF CallsItself
<1>16. ASSUME NEW x \in Nat PROVE f[x] = IF x < Base THEN <<x>> ELSE B(x) \o f[x \div Base]
  <2>1. f[x] = IF x \in D THEN h[<<x, f[p[x]]>>] ELSE e[x]
    BY <1>14 DEF CallsItself
  <2>2. CASE x < Base
    BY <1>13, <2>1, <2>2
  <2>3. CASE ~(x < Base)
    <3>1. x \in D /\ f[x \div Base] \in S /\ p[x] = x \div Base
      BY <1>2, <1>12, <1>13, <1>15, <2>3
    <3>2. QED
      BY <1>11, <2>1, <2>3, <3>1
  <2>4. QED
    BY <2>2, <2>3
<1>17. f = Turn(f)
  BY <1>15, <1>16
<1>18. rest = Turn(rest)
  BY <1>17, Zenon
<1>19. \A x \in Nat : Varint(x) = rest[x]
  BY Zenon DEF Varint, B
<1> HIDE DEF rest
<1>20. ASSUME NEW x \in Nat PROVE rest[x] = IF x < Base THEN <<x>> ELSE B(x) \o rest[x \div Base]
  BY <1>18, Zenon
<1> DEFINE P == {n \in Nat : \A x \in Nat : x < n => rest[x] \in Seq(Bytes)}
<1>21. \A n \in Nat : n \in P
  <2>1. 0 \in P
    OBVIOUS
  <2>2. ASSUME NEW n \in Nat, n \in P PROVE n + 1 \in P
    <3> SUFFICES ASSUME NEW x \in Nat, x < n + 1 PROVE rest[x] \in Seq(Bytes)
      OBVIOUS
    <3>1. CASE x < Base
      <4>1. rest[x] = <<x>>
        BY <1>20, <3>1
      <4>2. x \in Bytes
        BY <1>1, <3>1
      <4>3. QED
        BY <4>1, <4>2
    <3>2. CASE ~(x < Base)
      <4> DEFINE q == x \div Base
      <4>1. q \in Nat /\ q < x
        BY <1>2, <3>2
      <4>2. rest[x] = B(x) \o rest[q] /\ B(x) \in Seq(Bytes)
        BY <1>4, <1>20, <3>2 DEF S
      <4> HIDE DEF q
      <4>3. q < n
        BY <4>1
      <4>4. rest[q] \in Seq(Bytes)
        BY <2>2, <4>1, <4>3
      <4>5. QED
        BY <4>2, <4>4
    <3>3. QED
      BY <3>1, <3>2
  <2> HIDE DEF P
  <2>3. QED
    BY <2>1, <2>2, Induction
<1>22. Varint(v) \in Seq(Bytes)
  <2>0. v + 1 \in Nat /\ v < v + 1
    OBVIOUS
  <2>1. v + 1 \in P
    BY <1>21, <2>0
  <2>2. rest[v] \in Seq(Bytes)
    BY <2>1
  <2>3. QED
    BY <1>19, <2>2
<1>23. v < Base => Varint(v) = <<v>>
  BY <1>19, <1>20
<1>24. ASSUME ~(v < Base)
       PROVE  /\ Varint(v) = <<(v % Base) + Base>> \o Varint(v \div Base)
              /\ v \div Base \in Nat /\ v \div Base < v
  <2>1. v \div Base \in Nat /\ v \div Base < v
    BY <1>2, <1>24
  <2>2. Varint(v) = B(v) \o Varint(v \div Base)
    BY <1>19, <1>20, <1>24, <2>1
  <2>3. QED
    BY <2>1, <2>2 DEF B
<1>25. QED
  BY <1>22, <1>23, <1>24

\* The bytes s are a varint of v, and no shorter one would do.
Shaped(s, v) ==
    /\ s \in Seq(Bytes) /\ Len(s) # 0
    /\ s[Len(s)] < Base /\ \A i \in 1..(Len(s) - 1) : s[i] >= Base
    /\ Worth(s, 0, Len(s)) = v
    /\ Len(s) # 1 => Pow2[GroupBits * (Len(s) - 1)] <= v

LEMMA OneByte == ASSUME NEW v \in Nat, v < Base PROVE Shaped(<<v>>, v)
<1> DEFINE s == <<v>>
<1>1. v \in Bytes /\ Base \in Nat
  BY WidthFacts
<1>2. s \in Seq(Bytes) /\ Len(s) = 1 /\ s[1] = v
  BY <1>1
<1> HIDE DEF s
<1>3. Worth(s, 0, 1) = Worth(s, 0, 0) + ((v % Base) * Pow2[GroupBits * 0])
  BY <1>2, WorthDef
<1>4. Worth(s, 0, 0) = 0
  BY <1>2, WorthDef
<1>5. GroupBits * 0 = 0 /\ Pow2[0] = 1
  BY WidthAssumption, Pow2Def
<1>6. v % Base = v
  <2>1. v \in Int /\ Base \in Nat \ {0} /\ v \in 0..(Base - 1)
    BY <1>1
  <2>2. QED
    BY <2>1, DivMod
<1>7. Worth(s, 0, 1) = v
  BY <1>3, <1>4, <1>5, <1>6
<1>8. Shaped(s, v)
  BY <1>2, <1>7 DEF Shaped
<1>9. QED
  BY <1>8 DEF s

LEMMA MoreBytes ==
    ASSUME NEW q \in Nat, NEW r \in 0..(Base - 1), NEW t, Shaped(t, q), q # 0
    PROVE  Shaped(<<r + Base>> \o t, (Base * q) + r)
<1> DEFINE b == r + Base
           s == <<b>> \o t
           n == Len(t)
           v == (Base * q) + r
<1>1. Base \in Nat /\ Base >= 2 /\ Bytes = 0..(2 * Base - 1)
  BY WidthFacts
<1>2. /\ t \in Seq(Bytes) /\ n \in Nat /\ n # 0 /\ t[n] < Base /\ Worth(t, 0, n) = q
      /\ \A i \in 1..(n - 1) : t[i] >= Base
      /\ n # 1 => Pow2[GroupBits * (n - 1)] <= q
  BY DEF Shaped
<1>3. b \in Bytes
  BY <1>1
<1> HIDE DEF b
<1>4. /\ s \in Seq(Bytes) /\ Len(s) = n + 1 /\ s[1] = b
      /\ \A i \in 1..n : s[i + 1] = t[i]
  BY <1>2, <1>3
<1>5. b % Base = r
  <2>1. Base \in Nat \ {0} /\ 1 \in Int /\ b = (Base * 1) + r
    BY <1>1 DEF b
  <2>2. QED
    BY <2>1, DivModUnique
<1> HIDE DEF n, s
<1>6. \A i \in 1..n : s[1 + i] = t[0 + i]
  BY <1>2, <1>4
<1>7. Worth(s, 1, n) = q
  <2>1. Agree(s, 1, t, 0, n)
    BY <1>2, <1>4, <1>6 DEF n, Agree
  <2>2. Worth(s, 1, n) = Worth(t, 0, n)
    BY <2>1, WorthFrame
  <2>3. QED
    BY <1>2, <2>2
<1>8. Worth(s, 0, n + 1) = r + (Base * q)
  <2>1. 0 + (n + 1) <= Len(s) /\ 0 + 1 = 1
    BY <1>2, <1>4
  <2>2. Worth(s, 0, n + 1) = (s[0 + 1] % Base) + (Base * Worth(s, 0 + 1, n))
    BY <1>2, <1>4, <2>1, WorthCons
  <2>3. QED
    BY <1>4, <1>5, <1>7, <2>2
<1>9. Base * q \in Nat /\ r \in Nat
  BY <1>1
<1>10. s[n + 1] < Base
  BY <1>2, <1>4
<1>11. ASSUME NEW i \in 1..n PROVE s[i] >= Base
  <2>1. CASE i = 1
    BY <1>1, <1>4, <2>1 DEF b
  <2>2. CASE i # 1
    <3>1. i - 1 \in 1..(n - 1) /\ i - 1 \in 1..n /\ (i - 1) + 1 = i
      BY <1>2, <2>2
    <3>2. s[i] = t[i - 1]
      BY <1>4, <3>1
    <3>3. QED
      BY <1>2, <3>1, <3>2
  <2>3. QED
    BY <2>1, <2>2
<1>12. Pow2[GroupBits * n] <= v
  <2>1. CASE n = 1
    <3>1. Pow2[GroupBits * n] = Base
      BY <2>1, WidthAssumption DEF Base
    <3>2. Base * q >= Base
      BY <1>1
    <3>3. QED
      BY <1>1, <1>9, <3>1, <3>2
  <2>2. CASE n # 1
    <3> DEFINE lower == Pow2[GroupBits * (n - 1)]
    <3>1. lower <= q /\ lower \in Nat
      <4>1. GroupBits * (n - 1) \in Nat
        BY <1>2, WidthAssumption
      <4>2. QED
        BY <1>2, <2>2, <4>1, Pow2Def
    <3>2. Pow2[GroupBits * n] = Base * lower
      <4>1. GroupBits * (n - 1) \in Nat /\ GroupBits \in Nat /\ GroupBits * n = GroupBits + (GroupBits * (n - 1))
        BY <1>2, WidthAssumption
      <4>2. QED
        BY <4>1, Pow2Sum DEF Base
    <3> HIDE DEF lower
    <3>3. Base * lower <= Base * q
      BY <1>1, <3>1
    <3>4. Base * lower \in Nat
      BY <1>1, <3>1
    <3>5. QED
      BY <1>9, <3>2, <3>3, <3>4
  <2>3. QED
    BY <2>1, <2>2
<1>13. /\ Len(s) # 0 /\ Len(s) - 1 = n /\ Worth(s, 0, Len(s)) = v
  BY <1>2, <1>4, <1>8, <1>9
<1> HIDE DEF v
<1>14. Shaped(s, v)
  BY <1>4, <1>10, <1>11, <1>12, <1>13 DEF Shaped
<1>15. QED
  BY <1>14 DEF s, b, v

LEMMA VarintIsShaped == ASSUME NEW v \in Nat PROVE Shaped(Varint(v), v)
<1> DEFINE P == {n \in Nat : \A x \in Nat : x < n => Shaped(Varint(x), x)}
<1>0. Base \in Nat /\ Base >= 2
  BY WidthFacts
<1>1. 0 \in P
  OBVIOUS
<1>2. ASSUME NEW n \in Nat, n \in P PROVE n + 1 \in P
  <2> SUFFICES ASSUME NEW x \in Nat, x < n + 1 PROVE Shaped(Varint(x), x)
    OBVIOUS
  <2>1. CASE x < Base
    BY <2>1, VarintDef, OneByte
  <2>2. CASE ~(x < Base)
    <3> DEFINE q == x \div Base
               r == x % Base
    <3>1. Varint(x) = <<r + Base>> \o Varint(q) /\ q \in Nat /\ q < x
      BY <2>2, VarintDef
    <3>2. r \in 0..(Base - 1) /\ x = (Base * q) + r
      <4>1. x \in Int /\ Base \in Nat \ {0}
        BY <1>0
      <4>2. QED
        BY <4>1, DivMod
    <3> HIDE DEF q, r
    <3>3. q < n
      BY <3>1
    <3>4. Shaped(Varint(q), q)
      BY <1>2, <3>1, <3>3
    <3>5. q # 0
      BY <1>0, <2>2, <3>2
    <3>6. Shaped(<<r + Base>> \o Varint(q), (Base * q) + r)
      BY <3>1, <3>2, <3>4, <3>5, MoreBytes
    <3>7. QED
      BY <3>1, <3>2, <3>6
  <2>3. QED
    BY <2>1, <2>2
<1> HIDE DEF P
<1>3. \A n \in Nat : n \in P
  BY <1>1, <1>2, Induction
<1>4. v + 1 \in Nat /\ v < v + 1
  OBVIOUS
<1>5. v + 1 \in P
  BY <1>3, <1>4
<1>6. QED
  BY <1>4, <1>5 DEF P

LEMMA TimesLess ==
    ASSUME NEW c \in Nat \ {0}, NEW a \in Int, NEW b \in Int
    PROVE  /\ a <= b => c * a <= c * b
           /\ a < b => c * a < c * b
           /\ c * a < c * b => a < b
           /\ c * a <= c * b => a <= b
<1>1. \A x, y \in Int : x <= y => c * x <= c * y
  OBVIOUS
<1>2. \A x, y \in Int : x < y => c * x < c * y
  OBVIOUS
<1>3. c * a \in Int /\ c * b \in Int
  OBVIOUS
<1>4. ASSUME c * a < c * b PROVE a < b
  <2>1. CASE b <= a
    <3>1. c * b <= c * a
      BY <1>1, <2>1
    <3>2. QED
      BY <1>3, <1>4, <3>1
  <2>2. QED
    BY <2>1
<1>5. ASSUME c * a <= c * b PROVE a <= b
  <2>1. CASE b < a
    <3>1. c * b < c * a
      BY <1>2, <2>1
    <3>2. QED
      BY <1>3, <1>5, <3>1
  <2>2. QED
    BY <2>1
<1>6. QED
  BY <1>1, <1>2, <1>4, <1>5

\* A group lies in the word, with its lowest bit at least, as long as there
\* are no more than Groups of them.
LEMMA GroupsFit == ASSUME NEW k \in Nat PROVE GroupBits * k <= MaxShift <=> k + 1 <= Groups
<1> DEFINE g == MaxShift \div GroupBits
           r == MaxShift % GroupBits
<1>1. GroupBits \in Nat \ {0} /\ MaxShift \in Nat
  BY WidthAssumption, WidthFacts
<1>2. g \in Nat /\ r \in 0..(GroupBits - 1) /\ MaxShift = (GroupBits * g) + r
  <2>1. MaxShift \in Int
    BY <1>1
  <2>2. QED
    BY <1>1, <2>1, DivMod
<1>3. Groups = g + 1
  BY DEF Groups
<1> HIDE DEF g, r
<1>4. GroupBits * (g + 1) = (GroupBits * g) + GroupBits
  BY <1>1, <1>2
<1>5. MaxShift < GroupBits * (g + 1) /\ GroupBits * g <= MaxShift
  <2>1. GroupBits * g \in Nat
    BY <1>1, <1>2
  <2>2. QED
    BY <1>1, <1>2, <1>4, <2>1
<1>6. GroupBits * k \in Nat /\ GroupBits * g \in Nat /\ GroupBits * (g + 1) \in Nat /\ g + 1 \in Int
  BY <1>1, <1>2
<1>7. ASSUME GroupBits * k <= MaxShift PROVE k + 1 <= Groups
  <2>1. GroupBits * k < GroupBits * (g + 1)
    BY <1>1, <1>5, <1>6, <1>7
  <2>2. k < g + 1
    BY <1>1, <1>6, <2>1, TimesLess
  <2>3. QED
    BY <1>2, <1>3, <2>2
<1>8. ASSUME k + 1 <= Groups PROVE GroupBits * k <= MaxShift
  <2>1. k <= g
    BY <1>2, <1>3, <1>8
  <2>2. GroupBits * k <= GroupBits * g
    BY <1>1, <1>2, <2>1, TimesLess
  <2>3. QED
    BY <1>1, <1>5, <1>6, <2>2
<1>9. QED
  BY <1>7, <1>8

LEMMA FewGroups ==
    ASSUME NEW n \in Nat, n # 0, n # 1 => Pow2[GroupBits * (n - 1)] < Word
    PROVE  n <= Groups
<1>1. CASE n = 1
  BY <1>1, WidthFacts
<1>2. CASE n # 1
  <2> DEFINE shift == GroupBits * (n - 1)
  <2>1. n - 1 \in Nat /\ shift \in Nat /\ WordBits \in Nat
    BY WidthAssumption
  <2>2. Pow2[shift] < Pow2[WordBits] /\ Pow2[shift] \in Nat /\ Pow2[WordBits] \in Nat
    BY <1>2, <2>1, Pow2Def DEF Word
  <2> HIDE DEF shift
  <2>3. ~(WordBits <= shift)
    <3>1. WordBits <= shift => Pow2[WordBits] <= Pow2[shift]
      BY <2>1, Pow2Monotone
    <3>2. QED
      BY <2>2, <3>1
  <2>4. shift <= MaxShift
    BY <2>1, <2>3 DEF MaxShift
  <2>5. (n - 1) + 1 <= Groups
    BY <2>1, <2>4, GroupsFit DEF shift
  <2>6. QED
    BY <2>5
<1>3. QED
  BY <1>1, <1>2

\* Reader::readVarint loses nothing of a value that a word has room for.
LEMMA Lossless ==
    ASSUME NEW bytes \in Seq(Bytes), NEW o \in Nat, NEW n \in Nat, o + n <= Len(bytes),
           Worth(bytes, o, n) < Word
    PROVE  VarintValue(bytes, o, n) = Worth(bytes, o, n)
<1> DEFINE P == {k \in Nat : k <= n => VarintValue(bytes, o, k) = Worth(bytes, o, k)}
<1>0. Len(bytes) \in Nat /\ Word \in Nat
  BY WidthFacts
<1>1. 0 \in P
  <2>1. VarintValue(bytes, o, 0) = 0 /\ Worth(bytes, o, 0) = 0
    BY <1>0, VarintValueType, WorthDef
  <2>2. QED
    BY <2>1
<1>2. ASSUME NEW k \in Nat, k \in P PROVE k + 1 \in P
  <2> SUFFICES ASSUME k + 1 <= n PROVE VarintValue(bytes, o, k + 1) = Worth(bytes, o, k + 1)
    OBVIOUS
  <2> DEFINE j == k + 1
             term == (bytes[o + j] % Base) * Pow2[GroupBits * (j - 1)]
  <2>1. /\ j \in Nat /\ j # 0 /\ j <= n /\ j - 1 = k /\ o + j <= Len(bytes) /\ k <= n
        /\ o + j \in 1..Len(bytes)
    BY <1>0
  <2>2. VarintValue(bytes, o, j) = VarintValue(bytes, o, j - 1) + Contribution(bytes[o + j], GroupBits * (j - 1))
    BY <2>1, VarintValueType
  <2>3. Worth(bytes, o, j) = Worth(bytes, o, j - 1) + term
    BY <2>1, WorthDef
  <2>4. term <= Worth(bytes, o, n) /\ Worth(bytes, o, n) \in Nat
    BY <2>1, WorthRises, WorthDef
  <2>5. term \in Nat
    <3>1. bytes[o + j] \in Bytes
      BY <2>1
    <3>2. QED
      BY <2>1, <3>1, TermType
  <2>6. Contribution(bytes[o + j], GroupBits * (j - 1)) = term % Word
    BY DEF Contribution
  <2> HIDE DEF j, term
  <2>7. term % Word = term
    <3>1. term \in Int /\ Word \in Nat \ {0} /\ term \in 0..(Word - 1)
      BY <1>0, <2>4, <2>5
    <3>2. QED
      BY <3>1, DivMod
  <2>8. VarintValue(bytes, o, j) = Worth(bytes, o, j)
    BY <1>2, <2>1, <2>2, <2>3, <2>6, <2>7
  <2>9. QED
    BY <2>8 DEF j
<1> HIDE DEF P
<1>3. \A k \in Nat : k \in P
  BY <1>1, <1>2, Induction
<1>4. QED
  BY <1>3 DEF P

\* A varint ends where its first byte without the upper bit is.
LEMMA VarintEnds ==
    ASSUME NEW bytes \in Seq(Bytes), NEW o \in Nat, NEW n \in Nat, n # 0, n <= Groups,
           o + n <= Len(bytes), bytes[o + n] < Base, \A i \in 1..(n - 1) : bytes[o + i] >= Base
    PROVE  VarintLength(bytes, o) = n
<1> DEFINE k == VarintLength(bytes, o)
<1>1. /\ k \in 0..Groups /\ Groups \in Nat
      /\ k # 0 => bytes[o + k] < Base /\ o + k <= Len(bytes) /\ \A i \in 1..(k - 1) : bytes[o + i] >= Base
      /\ k = 0 => \A i \in 1..Groups : o + i <= Len(bytes) => bytes[o + i] >= Base
  BY VarintLengthFacts, WidthFacts
<1>2. \A i \in 1..Len(bytes) : bytes[i] \in Int
  BY WidthFacts
<1>3. Base \in Int /\ Len(bytes) \in Nat
  BY WidthFacts
<1> HIDE DEF k
<1>4. k # 0
  <2> SUFFICES ASSUME k = 0 PROVE FALSE
    OBVIOUS
  <2>1. n \in 1..Groups /\ o + n \in 1..Len(bytes)
    BY <1>1, <1>3
  <2>2. bytes[o + n] >= Base /\ bytes[o + n] \in Int
    BY <1>1, <1>2, <2>1
  <2>3. QED
    BY <1>3, <2>2
<1>5. ~(k < n)
  <2> SUFFICES ASSUME k < n PROVE FALSE
    OBVIOUS
  <2>1. k \in 1..(n - 1) /\ o + k \in 1..Len(bytes)
    BY <1>1, <1>3, <1>4
  <2>2. bytes[o + k] >= Base /\ bytes[o + k] \in Int /\ bytes[o + k] < Base
    BY <1>1, <1>2, <1>4, <2>1
  <2>3. QED
    BY <1>3, <2>2
<1>6. ~(n < k)
  <2> SUFFICES ASSUME n < k PROVE FALSE
    OBVIOUS
  <2>1. n \in 1..(k - 1) /\ o + n \in 1..Len(bytes)
    BY <1>1, <1>3, <1>4
  <2>2. bytes[o + n] >= Base /\ bytes[o + n] \in Int
    BY <1>1, <1>2, <1>4, <2>1
  <2>3. QED
    BY <1>3, <2>2
<1>7. k = n
  BY <1>1, <1>4, <1>5, <1>6
<1>8. QED
  BY <1>7 DEF k

LEMMA VarintBytes == ASSUME NEW v \in Nat PROVE Varint(v) \in Seq(Bytes) /\ Len(Varint(v)) \in Nat \ {0}
<1>1. Shaped(Varint(v), v)
  BY VarintIsShaped
<1>2. QED
  BY <1>1 DEF Shaped

\* What Writer::varint writes, Reader::readVarint reads, wherever it stands.
LEMMA ReadsBack ==
    ASSUME NEW bytes \in Seq(Bytes), NEW o \in Nat, NEW v \in Nat, v < Word, Holds(bytes, o, Varint(v))
    PROVE  /\ VarintLength(bytes, o) = Len(Varint(v)) /\ Len(Varint(v)) <= Groups
           /\ VarintValue(bytes, o, Len(Varint(v))) = v
           /\ ReadVarint(bytes, o) = [ok |-> TRUE, value |-> v, offset |-> o + Len(Varint(v))]
<1> DEFINE s == Varint(v)
           n == Len(s)
<1>1. /\ s \in Seq(Bytes) /\ n \in Nat /\ n # 0 /\ s[n] < Base /\ \A i \in 1..(n - 1) : s[i] >= Base
      /\ Worth(s, 0, n) = v
      /\ n # 1 => Pow2[GroupBits * (n - 1)] <= v
  <2>1. Shaped(s, v)
    BY VarintIsShaped
  <2> HIDE DEF s
  <2>2. QED
    BY <2>1 DEF Shaped
<1>2. o + n <= Len(bytes) /\ \A i \in 1..n : bytes[o + i] = s[i]
  BY DEF Holds
<1> HIDE DEF s, n
<1>3. Word \in Nat /\ Len(bytes) \in Nat
  BY WidthFacts
<1>4. n <= Groups
  <2>1. n # 1 => Pow2[GroupBits * (n - 1)] < Word
    <3> SUFFICES ASSUME n # 1 PROVE Pow2[GroupBits * (n - 1)] < Word
      OBVIOUS
    <3>0. n - 1 \in Nat
      BY <1>1
    <3>1. GroupBits * (n - 1) \in Nat
      BY <3>0, WidthAssumption
    <3>2. Pow2[GroupBits * (n - 1)] \in Nat
      BY <3>1, Pow2Def
    <3>3. QED
      BY <1>1, <1>3, <3>2
  <2>2. QED
    BY <1>1, <2>1, FewGroups
<1>5. VarintLength(bytes, o) = n
  <2>1. bytes[o + n] < Base
    BY <1>1, <1>2
  <2>2. ASSUME NEW i \in 1..(n - 1) PROVE bytes[o + i] >= Base
    <3>1. i \in 1..n
      BY <1>1
    <3>2. QED
      BY <1>1, <1>2, <3>1
  <2>3. QED
    BY <1>1, <1>2, <1>4, <2>1, <2>2, VarintEnds
<1>6. Worth(bytes, o, n) = v
  <2>1. Agree(bytes, o, s, 0, n)
    BY <1>1, <1>2 DEF Agree, n
  <2>2. QED
    BY <1>1, <2>1, WorthFrame
<1>7. VarintValue(bytes, o, n) = v
  BY <1>1, <1>2, <1>6, Lossless
<1>8. ReadVarint(bytes, o) = [ok |-> TRUE, value |-> v, offset |-> o + n]
  <2>1. n # 0
    BY <1>1
  <2>2. QED
    BY <1>5, <1>7, <2>1 DEF ReadVarint, VarintOf
<1>9. QED
  BY <1>4, <1>5, <1>7, <1>8 DEF s, n

-----------------------------------------------------------------------------
(* Writing and reading a field *)

LEMMA HoldsParts ==
    ASSUME NEW bytes \in Seq(Bytes), NEW o \in Nat, NEW s \in Seq(Bytes), NEW t \in Seq(Bytes),
           Holds(bytes, o, s \o t)
    PROVE  /\ Holds(bytes, o, s) /\ Holds(bytes, o + Len(s), t)
           /\ o + Len(s) \in Nat /\ (o + Len(s)) + Len(t) = o + Len(s \o t)
<1> DEFINE st == s \o t
<1>1. /\ Len(s) \in Nat /\ Len(t) \in Nat /\ Len(bytes) \in Nat /\ Len(st) = Len(s) + Len(t)
      /\ \A i \in 1..Len(s) : st[i] = s[i]
      /\ \A i \in 1..Len(t) : st[Len(s) + i] = t[i]
  OBVIOUS
<1>2. o + Len(st) <= Len(bytes) /\ \A i \in 1..Len(st) : bytes[o + i] = st[i]
  BY DEF Holds
<1> HIDE DEF st
<1>3. ASSUME NEW i \in 1..Len(s) PROVE bytes[o + i] = s[i]
  <2>1. i \in 1..Len(st)
    BY <1>1
  <2>2. QED
    BY <1>1, <1>2, <2>1
<1>4. ASSUME NEW i \in 1..Len(t) PROVE bytes[(o + Len(s)) + i] = t[i]
  <2>1. Len(s) + i \in 1..Len(st) /\ o + (Len(s) + i) = (o + Len(s)) + i
    BY <1>1
  <2>2. QED
    BY <1>1, <1>2, <2>1
<1>5. o + Len(s) <= Len(bytes) /\ (o + Len(s)) + Len(t) <= Len(bytes)
  BY <1>1, <1>2
<1>6. QED
  BY <1>1, <1>3, <1>4, <1>5 DEF Holds, st

LEMMA HoldsSelf == ASSUME NEW s \in Seq(Bytes) PROVE Holds(s, 0, s)
BY DEF Holds

LEMMA HoldsSpan ==
    ASSUME NEW bytes \in Seq(Bytes), NEW o \in Nat, NEW s \in Seq(Bytes), Holds(bytes, o, s)
    PROVE  SubSeq(bytes, o + 1, o + Len(s)) = s
<1> DEFINE b == SubSeq(bytes, o + 1, o + Len(s))
<1>1. /\ o + Len(s) <= Len(bytes) /\ \A i \in 1..Len(s) : bytes[o + i] = s[i]
      /\ Len(s) \in Nat /\ Len(bytes) \in Nat
  BY DEF Holds
<1>2. ASSUME NEW i \in (o + 1)..(o + Len(s)) PROVE bytes[i] \in Bytes
  <2>1. i \in 1..Len(bytes)
    BY <1>1
  <2>2. QED
    BY <2>1
<1>3. /\ b \in Seq(Bytes) /\ Len(b) = Len(s)
      /\ \A i \in 1..Len(s) : b[i] = bytes[o + i]
  <2>1. o + 1 \in Int /\ o + Len(s) \in Int /\ o + 1 \in Nat \ {0} /\ o + 1 <= o + Len(s) + 1
    BY <1>1
  <2>2. QED
    BY <1>1, <1>2, <2>1
<1> HIDE DEF b
<1>4. \A i \in 1..Len(s) : b[i] = s[i]
  BY <1>1, <1>3
<1>5. b = s
  BY <1>3, <1>4, SeqEqual
<1>6. QED
  BY <1>5 DEF b

LEMMA KeyRoom ==
    ASSUME NEW number \in Numbers, NEW type \in 0..7
    PROVE  LET v == number * 8 + type
           IN  /\ v \in Nat /\ v < Word /\ v % 8 = type /\ v \div 8 = number
               /\ number % Pow2[NumberBits] = number
<1> DEFINE w == Pow2[NumberBits]
<1>1. NumberBits \in Nat /\ WordBits \in Nat /\ 3 \in Nat /\ NumberBits + 3 \in Nat /\ NumberBits + 3 <= WordBits
  BY WidthAssumption
<1>2. w \in Nat \ {0}
  BY <1>1, Pow2Def
<1>3. Pow2[3] = 8
  <2>1. Pow2[0 + 1] = 2 * Pow2[0] /\ Pow2[1 + 1] = 2 * Pow2[1] /\ Pow2[2 + 1] = 2 * Pow2[2] /\ Pow2[0] = 1
    BY Pow2Def
  <2>2. QED
    BY <2>1
<1>4. Pow2[NumberBits + 3] = w * 8 /\ Pow2[NumberBits + 3] <= Word
  BY <1>1, <1>3, Pow2Sum, Pow2Monotone DEF Word
<1>5. Word \in Nat
  BY WidthFacts
<1>6. number \in 1..(w - 1)
  BY DEF Numbers
<1> HIDE DEF w
<1>7. number \in Nat /\ number < w
  BY <1>2, <1>6
<1>8. number * 8 + type \in Nat /\ number * 8 + type < Word
  BY <1>2, <1>4, <1>5, <1>7
<1>9. (number * 8 + type) % 8 = type /\ (number * 8 + type) \div 8 = number
  BY <1>7
<1>10. number % w = number
  <2>1. number \in Int /\ number \in 0..(w - 1)
    BY <1>2, <1>6
  <2>2. QED
    BY <1>2, <2>1, DivMod
<1>11. QED
  BY <1>8, <1>9, <1>10 DEF w

LEMMA KeyBytes ==
    ASSUME NEW number \in Numbers, NEW type \in 0..7
    PROVE  Key(number, type) \in Seq(Bytes) /\ Len(Key(number, type)) \in Nat \ {0}
<1>1. number * 8 + type \in Nat
  BY KeyRoom
<1>2. QED
  BY <1>1, VarintBytes DEF Key

\* A call of Reader::next at a key.
LEMMA NextAtKey ==
    ASSUME NEW bytes \in Seq(Bytes), NEW o \in Nat, NEW number \in Numbers, NEW type \in 0..7,
           Holds(bytes, o, Key(number, type))
    PROVE  LET key == ReadVarint(bytes, o)
           IN  /\ ReaderNext(bytes, o) =
                    FieldAfter(bytes, key, number, type, ReadVarint(bytes, key.offset))
               /\ key.offset = o + Len(Key(number, type))
<1> DEFINE v == number * 8 + type
           key == ReadVarint(bytes, o)
           n == Len(Key(number, type))
<1>1. v \in Nat /\ v < Word /\ v % 8 = type /\ v \div 8 = number /\ number % Pow2[NumberBits] = number
  BY KeyRoom
<1>2. Holds(bytes, o, Varint(v)) /\ n = Len(Varint(v))
  BY DEF Key
<1>3. n \in Nat /\ n # 0
  BY KeyBytes
<1> HIDE DEF v, n
<1>4. key = [ok |-> TRUE, value |-> v, offset |-> o + n]
  BY <1>1, <1>2, ReadsBack
<1>5. key.ok = TRUE /\ key.value = v /\ key.offset = o + n
  BY <1>4
<1>6. o < Len(bytes)
  BY <1>2, <1>3 DEF Holds
<1>7. number # 0
  BY DEF Numbers
<1> HIDE DEF key
<1>8. FieldWithKey(bytes, key) = FieldAfter(bytes, key, number, type, ReadVarint(bytes, key.offset))
  BY <1>1, <1>5, <1>7 DEF FieldWithKey
<1>9. ReaderNext(bytes, o) = FieldWithKey(bytes, key)
  BY <1>6 DEF ReaderNext, key
<1>10. QED
  BY <1>5, <1>8, <1>9 DEF key, n

\* The fields of the three kinds that a writer knows.
VarintIs(number, value) ==
    [number |-> number, type |-> VarintType, varint |-> value, bytes |-> <<>>]
BytesAre(number, type, bytes) ==
    [number |-> number, type |-> type, varint |-> 0, bytes |-> bytes]

\* A call of next on s returns f and moves to the end of s.
IsReadAs(s, f) ==
    /\ s \in Seq(Bytes) /\ f \in FieldSet
    /\ \A bytes \in Seq(Bytes), o \in Nat :
          Holds(bytes, o, s) =>
              ReaderNext(bytes, o) = [found |-> TRUE, field |-> f, offset |-> o + Len(s)]

LEMMA VarintFieldIsRead ==
    ASSUME NEW number \in Numbers, NEW v \in Nat, v < Word
    PROVE  IsReadAs(VarintField(number, v), VarintIs(number, v))
<1> DEFINE k == Key(number, VarintType)
           s == VarintField(number, v)
           f == VarintIs(number, v)
<1>1. VarintType \in 0..7
  BY DEF VarintType
<1>2. k \in Seq(Bytes) /\ Varint(v) \in Seq(Bytes) /\ s = k \o Varint(v)
  BY <1>1, KeyBytes, VarintBytes DEF VarintField
<1>3. f \in FieldSet
  BY DEF VarintIs, FieldSet, Numbers, VarintType
<1> HIDE DEF k
<1>4. ASSUME NEW bytes \in Seq(Bytes), NEW o \in Nat, Holds(bytes, o, s)
      PROVE  ReaderNext(bytes, o) = [found |-> TRUE, field |-> f, offset |-> o + Len(s)]
  <2> DEFINE key == ReadVarint(bytes, o)
             p == o + Len(k)
             word == ReadVarint(bytes, p)
  <2>1. Holds(bytes, o, k) /\ Holds(bytes, p, Varint(v)) /\ p \in Nat /\ p + Len(Varint(v)) = o + Len(s)
    BY <1>2, <1>4, HoldsParts
  <2>2. ReaderNext(bytes, o) = FieldAfter(bytes, key, number, VarintType, ReadVarint(bytes, key.offset))
        /\ key.offset = p
    BY <1>1, <2>1, NextAtKey DEF k
  <2>3. word = [ok |-> TRUE, value |-> v, offset |-> p + Len(Varint(v))]
    BY <2>1, ReadsBack
  <2> HIDE DEF key, p
  <2>4. word.ok = TRUE /\ word.value = v /\ word.offset = o + Len(s)
    BY <2>1, <2>3
  <2> HIDE DEF word
  <2>5. FieldAfter(bytes, key, number, VarintType, word) =
            [found |-> TRUE, field |-> f, offset |-> o + Len(s)]
    BY <2>4 DEF FieldAfter, VarintType, LengthDelimited, Fixed64, Fixed32, VarintIs
  <2>6. QED
    BY <2>2, <2>5 DEF word
<1>5. s \in Seq(Bytes)
  BY <1>2
<1>6. QED
  BY <1>3, <1>4, <1>5 DEF IsReadAs

LEMMA BytesFieldIsRead ==
    ASSUME NEW number \in Numbers, NEW b \in Seq(Bytes), Len(b) < Word
    PROVE  IsReadAs(BytesField(number, b), BytesAre(number, LengthDelimited, b))
<1> DEFINE k == Key(number, LengthDelimited)
           l == Varint(Len(b))
           s == BytesField(number, b)
           f == BytesAre(number, LengthDelimited, b)
<1>1. LengthDelimited \in 0..7
  BY DEF LengthDelimited
<1>2. k \in Seq(Bytes) /\ l \in Seq(Bytes) /\ s = (k \o l) \o b /\ k \o l \in Seq(Bytes)
  <2>1. k \in Seq(Bytes) /\ l \in Seq(Bytes)
    <3>1. Len(b) \in Nat
      OBVIOUS
    <3>2. QED
      BY <1>1, <3>1, KeyBytes, VarintBytes
  <2>2. s = k \o l \o b
    BY DEF BytesField
  <2> HIDE DEF k, l, s
  <2>3. QED
    BY <2>1, <2>2
<1>3. f \in FieldSet
  BY DEF BytesAre, FieldSet, Numbers, LengthDelimited
<1> HIDE DEF k, l
<1>4. ASSUME NEW bytes \in Seq(Bytes), NEW o \in Nat, Holds(bytes, o, s)
      PROVE  ReaderNext(bytes, o) = [found |-> TRUE, field |-> f, offset |-> o + Len(s)]
  <2> DEFINE key == ReadVarint(bytes, o)
             p == o + Len(k)
             word == ReadVarint(bytes, p)
             q == p + Len(l)
  <2>1. /\ Holds(bytes, o, k \o l) /\ Holds(bytes, o + Len(k \o l), b)
        /\ (o + Len(k \o l)) + Len(b) = o + Len(s)
    <3> HIDE DEF s
    <3> DEFINE kl == k \o l
    <3>1. kl \in Seq(Bytes) /\ s = kl \o b /\ Holds(bytes, o, kl \o b)
      BY <1>2, <1>4
    <3> HIDE DEF kl
    <3>2. Holds(bytes, o, kl) /\ Holds(bytes, o + Len(kl), b) /\ (o + Len(kl)) + Len(b) = o + Len(kl \o b)
      BY <3>1, HoldsParts
    <3>3. QED
      BY <3>1, <3>2 DEF kl
  <2>2. /\ Holds(bytes, o, k) /\ Holds(bytes, p, l) /\ p \in Nat /\ q = o + Len(k \o l)
    BY <1>2, <2>1, HoldsParts
  <2>3. Holds(bytes, q, b) /\ q \in Nat /\ q + Len(b) = o + Len(s)
    BY <1>2, <2>1, <2>2
  <2>4. ReaderNext(bytes, o) = FieldAfter(bytes, key, number, LengthDelimited, ReadVarint(bytes, key.offset))
        /\ key.offset = p
    BY <1>1, <2>2, NextAtKey DEF k
  <2>5. word = [ok |-> TRUE, value |-> Len(b), offset |-> q]
    <3>1. Len(b) \in Nat /\ Holds(bytes, p, Varint(Len(b))) /\ q = p + Len(Varint(Len(b)))
      BY <2>2 DEF l
    <3>2. QED
      BY <2>2, <3>1, ReadsBack
  <2> HIDE DEF key, p, q
  <2>6. word.ok = TRUE /\ word.value = Len(b) /\ word.offset = q
    BY <2>5
  <2>7. SubSeq(bytes, q + 1, q + Len(b)) = b
    BY <2>3, HoldsSpan
  <2>8. ~(Len(b) > Len(bytes) - q)
    BY <2>3 DEF Holds
  <2> HIDE DEF word
  <2>9. Span(number, LengthDelimited, bytes, q, Len(b)) =
            [found |-> TRUE, field |-> f, offset |-> q + Len(b)]
    BY <2>7, <2>8 DEF Span, BytesAre
  <2>10. FieldAfter(bytes, key, number, LengthDelimited, word) =
            Span(number, LengthDelimited, bytes, word.offset, word.value)
    BY <2>6 DEF FieldAfter, VarintType, LengthDelimited, Fixed64, Fixed32
  <2>11. QED
    BY <2>3, <2>4, <2>6, <2>9, <2>10 DEF word
<1>5. s \in Seq(Bytes)
  BY <1>2
<1>6. QED
  BY <1>3, <1>4, <1>5 DEF IsReadAs

\* As many bytes as a fixed field of this type has.
Fills(type, b) == Len(b) = IF type = Fixed64 THEN Fixed64Size ELSE Fixed32Size

LEMMA FixedFieldIsRead ==
    ASSUME NEW number \in Numbers, NEW type \in {Fixed64, Fixed32}, NEW b \in Seq(Bytes),
           Fills(type, b)
    PROVE  IsReadAs(Key(number, type) \o b, BytesAre(number, type, b))
<1> DEFINE k == Key(number, type)
           s == k \o b
           f == BytesAre(number, type, b)
<1>1. type \in 0..7
  BY DEF Fixed64, Fixed32
<1>2. k \in Seq(Bytes)
  BY <1>1, KeyBytes
<1>3. f \in FieldSet
  BY <1>1 DEF BytesAre, FieldSet, Numbers
<1>0. s = k \o b /\ s \in Seq(Bytes)
  BY <1>2
<1> HIDE DEF k, s, f
<1>4. ASSUME NEW bytes \in Seq(Bytes), NEW o \in Nat, Holds(bytes, o, s)
      PROVE  ReaderNext(bytes, o) = [found |-> TRUE, field |-> f, offset |-> o + Len(s)]
  <2> DEFINE key == ReadVarint(bytes, o)
             p == o + Len(k)
             word == ReadVarint(bytes, key.offset)
  <2>1. Holds(bytes, o, k) /\ Holds(bytes, p, b) /\ p \in Nat /\ p + Len(b) = o + Len(s)
    BY <1>0, <1>2, <1>4, HoldsParts
  <2>2. ReaderNext(bytes, o) = FieldAfter(bytes, key, number, type, word) /\ key.offset = p
    BY <1>1, <2>1, NextAtKey DEF k
  <2> HIDE DEF key, p, word
  <2>3. SubSeq(bytes, p + 1, p + Len(b)) = b
    BY <2>1, HoldsSpan
  <2>4. ~(Len(b) > Len(bytes) - p)
    BY <2>1 DEF Holds
  <2>5. Span(number, type, bytes, p, Len(b)) = [found |-> TRUE, field |-> f, offset |-> p + Len(b)]
    BY <2>3, <2>4 DEF Span, BytesAre, f
  <2>6. FieldAfter(bytes, key, number, type, word) = Span(number, type, bytes, key.offset, Len(b))
    BY DEF FieldAfter, VarintType, LengthDelimited, Fixed64, Fixed32, Fills
  <2>7. QED
    BY <2>1, <2>2, <2>5, <2>6
<1>5. IsReadAs(s, f)
  BY <1>0, <1>3, <1>4 DEF IsReadAs
<1>6. QED
  BY <1>5 DEF k, s, f

\* The fields from an offset on.
FieldsFrom(bytes, offset) == FieldsIn(WalkFrom(bytes, offset))

LEMMA FieldsInParts ==
    ASSUME NEW step \in Steps, NEW walk \in Seq(Steps)
    PROVE  FieldsIn(<<step>> \o walk) = <<step.field>> \o FieldsIn(walk) /\ FieldsIn(walk) \in Seq(FieldSet)
<1> DEFINE all == <<step>> \o walk
           n == Len(walk)
           left == FieldsIn(all)
           rest == FieldsIn(walk)
           right == <<step.field>> \o rest
<1>1. /\ all \in Seq(Steps) /\ Len(all) = n + 1 /\ n \in Nat /\ all[1] = step
      /\ \A i \in 2..(n + 1) : all[i] = walk[i - 1]
      /\ DOMAIN walk = 1..n /\ DOMAIN all = 1..(n + 1)
  OBVIOUS
<1>2. \A i \in 1..n : walk[i] \in Steps
  OBVIOUS
<1>3. step.field \in FieldSet /\ \A i \in 1..n : walk[i].field \in FieldSet
  BY <1>2 DEF Steps
<1> HIDE DEF all, n
<1>4. rest \in Seq(FieldSet) /\ Len(rest) = n /\ \A i \in 1..n : rest[i] = walk[i].field
  BY <1>1, <1>3 DEF FieldsIn
<1> HIDE DEF rest
<1>5. /\ right \in Seq(FieldSet) /\ Len(right) = n + 1 /\ right[1] = step.field
      /\ \A i \in 2..(n + 1) : right[i] = rest[i - 1]
  BY <1>1, <1>3, <1>4
<1>6. ASSUME NEW i \in 1..(n + 1) PROVE all[i].field = right[i] /\ all[i].field \in FieldSet
  <2>1. CASE i = 1
    BY <1>1, <1>3, <1>5, <2>1
  <2>2. CASE i # 1
    <3>1. i \in 2..(n + 1) /\ i - 1 \in 1..n
      BY <1>1, <2>2
    <3>2. QED
      BY <1>1, <1>3, <1>4, <1>5, <3>1
  <2>3. QED
    BY <2>1, <2>2
<1>7. left = [i \in 1..(n + 1) |-> all[i].field]
  BY <1>1 DEF FieldsIn
<1>8. left \in Seq(FieldSet) /\ Len(left) = n + 1 /\ \A i \in 1..(n + 1) : left[i] = all[i].field
  BY <1>1, <1>6, <1>7
<1> HIDE DEF left, right
<1>9. left = right
  BY <1>5, <1>6, <1>8, SeqEqual
<1>10. QED
  BY <1>4, <1>9 DEF left, right, rest, all

LEMMA FieldsFromDef ==
    ASSUME NEW bytes \in Seq(Bytes), NEW o \in Nat
    PROVE  LET next == ReaderNext(bytes, o)
           IN  /\ FieldsFrom(bytes, o) \in Seq(FieldSet)
               /\ next.found => FieldsFrom(bytes, o) = <<next.field>> \o FieldsFrom(bytes, next.offset)
               /\ ~next.found => FieldsFrom(bytes, o) = <<>>
<1> DEFINE next == ReaderNext(bytes, o)
<1>1. WalkFrom(bytes, o) \in Seq(Steps)
  BY WalkFromDef
<1>2. CASE next.found
  <2>1. next \in Steps
    BY <1>2, ReaderNextFacts, IsStepFacts
  <2>2. next.offset \in Nat
    BY <2>1 DEF Steps
  <2>3. WalkFrom(bytes, next.offset) \in Seq(Steps)
    BY <2>2, WalkFromDef
  <2>4. WalkFrom(bytes, o) = <<next>> \o WalkFrom(bytes, next.offset)
    BY <1>2, WalkFromDef
  <2> HIDE DEF next
  <2>5. /\ FieldsFrom(bytes, o) = <<next.field>> \o FieldsFrom(bytes, next.offset)
        /\ FieldsFrom(bytes, next.offset) \in Seq(FieldSet)
    BY <2>1, <2>3, <2>4, FieldsInParts DEF FieldsFrom
  <2>6. next.field \in FieldSet
    BY <2>1 DEF Steps
  <2>7. FieldsFrom(bytes, o) \in Seq(FieldSet)
    BY <2>5, <2>6
  <2>8. QED
    BY <1>2, <2>5, <2>7 DEF next
<1>3. CASE ~next.found
  <2>1. WalkFrom(bytes, o) = <<>>
    BY <1>3, WalkFromDef
  <2>2. FieldsFrom(bytes, o) = <<>>
    BY <2>1 DEF FieldsFrom, FieldsIn
  <2>3. QED
    BY <1>3, <2>2
<1>4. QED
  BY <1>2, <1>3

\* Wherever s stands in a message, the reader finds the fields fs in it and
\* goes on behind it.
Encodes(s, fs) ==
    /\ s \in Seq(Bytes) /\ fs \in Seq(FieldSet)
    /\ \A bytes \in Seq(Bytes), o \in Nat :
          Holds(bytes, o, s) => FieldsFrom(bytes, o) = fs \o FieldsFrom(bytes, o + Len(s))

LEMMA EncodesNone == Encodes(<<>>, <<>>)
<1>1. ASSUME NEW bytes \in Seq(Bytes), NEW o \in Nat
      PROVE  FieldsFrom(bytes, o) = <<>> \o FieldsFrom(bytes, o + Len(<<>>))
  <2>1. FieldsFrom(bytes, o) \in Seq(FieldSet)
    BY FieldsFromDef
  <2>2. o + Len(<<>>) = o
    OBVIOUS
  <2>3. QED
    BY <2>1, <2>2
<1>2. QED
  BY <1>1 DEF Encodes

LEMMA EncodesOne == ASSUME NEW s, NEW f, IsReadAs(s, f) PROVE Encodes(s, <<f>>)
<1>1. s \in Seq(Bytes) /\ f \in FieldSet /\ <<f>> \in Seq(FieldSet)
  BY DEF IsReadAs
<1>2. ASSUME NEW bytes \in Seq(Bytes), NEW o \in Nat, Holds(bytes, o, s)
      PROVE  FieldsFrom(bytes, o) = <<f>> \o FieldsFrom(bytes, o + Len(s))
  <2> DEFINE next == ReaderNext(bytes, o)
  <2>1. next = [found |-> TRUE, field |-> f, offset |-> o + Len(s)]
    BY <1>2 DEF IsReadAs
  <2>2. next.found = TRUE /\ next.field = f /\ next.offset = o + Len(s)
    BY <2>1
  <2>3. next.found => FieldsFrom(bytes, o) = <<next.field>> \o FieldsFrom(bytes, next.offset)
    BY FieldsFromDef
  <2> HIDE DEF next
  <2>4. QED
    BY <2>2, <2>3
<1>3. QED
  BY <1>1, <1>2 DEF Encodes

LEMMA EncodesBoth ==
    ASSUME NEW s, NEW t, NEW fs, NEW gs, Encodes(s, fs), Encodes(t, gs)
    PROVE  Encodes(s \o t, fs \o gs)
<1>1. s \in Seq(Bytes) /\ t \in Seq(Bytes) /\ fs \in Seq(FieldSet) /\ gs \in Seq(FieldSet)
  BY DEF Encodes
<1>2. ASSUME NEW bytes \in Seq(Bytes), NEW o \in Nat, Holds(bytes, o, s \o t)
      PROVE  FieldsFrom(bytes, o) = (fs \o gs) \o FieldsFrom(bytes, o + Len(s \o t))
  <2> DEFINE p == o + Len(s)
             e == o + Len(s \o t)
  <2>1. Holds(bytes, o, s) /\ Holds(bytes, p, t) /\ p \in Nat /\ p + Len(t) = e
    BY <1>1, <1>2, HoldsParts
  <2>2. FieldsFrom(bytes, o) = fs \o FieldsFrom(bytes, p)
    BY <2>1 DEF Encodes
  <2> HIDE DEF p, e
  <2>3. FieldsFrom(bytes, p) = gs \o FieldsFrom(bytes, e)
    BY <2>1 DEF Encodes
  <2>4. e \in Nat
    BY <1>1, <2>1
  <2>5. FieldsFrom(bytes, e) \in Seq(FieldSet)
    BY <2>4, FieldsFromDef
  <2> DEFINE hs == FieldsFrom(bytes, e)
  <2> HIDE DEF hs
  <2>6. fs \o (gs \o hs) = (fs \o gs) \o hs
    BY <1>1, <2>5 DEF hs
  <2>7. QED
    BY <2>2, <2>3, <2>6 DEF hs, e
<1>3. s \o t \in Seq(Bytes) /\ fs \o gs \in Seq(FieldSet)
  BY <1>1
<1>4. QED
  BY <1>2, <1>3 DEF Encodes

\* What is written field by field is read field by field.
LEMMA EncodesAll == ASSUME NEW s, NEW fs, Encodes(s, fs) PROVE Fields(s) = fs
<1>1. s \in Seq(Bytes) /\ fs \in Seq(FieldSet) /\ Len(s) \in Nat
  BY DEF Encodes
<1>2. FieldsFrom(s, 0) = fs \o FieldsFrom(s, 0 + Len(s))
  BY <1>1, HoldsSelf DEF Encodes
<1>3. 0 + Len(s) = Len(s)
  BY <1>1
<1>4. ReaderNext(s, Len(s)) = NoField
  BY <1>1 DEF ReaderNext
<1>5. ~ReaderNext(s, Len(s)).found
  BY <1>4 DEF NoField
<1>6. FieldsFrom(s, Len(s)) = <<>>
  BY <1>1, <1>5, FieldsFromDef
<1>7. FieldsFrom(s, 0) = fs
  BY <1>1, <1>2, <1>3, <1>6
<1>8. QED
  BY <1>7 DEF FieldsFrom, Fields, Walk

-----------------------------------------------------------------------------
(* Finding fields *)

\* The first and the last field that is in M.
Finding(fs, M) == First(fs, {i \in DOMAIN fs : fs[i] \in M})
FindingLast(fs, M) ==
    LET places == {i \in DOMAIN fs : fs[i] \in M}
    IN  IF places = {} THEN <<>> ELSE <<fs[Max(places)]>>

\* f is at place i of fs, and none of M before it; or none after it.
IsFirst(fs, M, i) == i \in DOMAIN fs /\ fs[i] \in M /\ \A j \in DOMAIN fs : j < i => fs[j] \notin M
IsLast(fs, M, i)  == i \in DOMAIN fs /\ fs[i] \in M /\ \A j \in DOMAIN fs : j > i => fs[j] \notin M

LEMMA MaxFacts ==
    ASSUME NEW n \in Nat, NEW T, T \subseteq 1..n, T # {}
    PROVE  Max(T) \in T /\ \A y \in T : Max(T) >= y
<1> DEFINE D == {n - x : x \in T}
<1>1. D \subseteq Nat /\ D # {}
  <2>1. \A x \in T : n - x \in Nat
    OBVIOUS
  <2>2. QED
    BY <2>1
<1>2. PICK d \in D : \A e \in D : d <= e
  BY <1>1, LeastNumber
<1>3. PICK x \in T : d = n - x
  BY <1>2
<1>4. ASSUME NEW y \in T PROVE x >= y
  <2>1. n - y \in D /\ x \in Nat /\ y \in Nat
    OBVIOUS
  <2>2. n - x <= n - y
    BY <1>2, <1>3, <2>1
  <2>3. QED
    BY <2>1, <2>2
<1>5. \E z \in T : \A y \in T : z >= y
  BY <1>4
<1>6. QED
  BY <1>5, Zenon DEF Max

LEMMA FindingIs ==
    ASSUME NEW fs \in Seq(FieldSet), NEW M
    PROVE  /\ (\A i \in DOMAIN fs : fs[i] \notin M) => Finding(fs, M) = <<>> /\ FindingLast(fs, M) = <<>>
           /\ \A i : IsFirst(fs, M, i) => Finding(fs, M) = <<fs[i]>>
           /\ \A i : IsLast(fs, M, i) => FindingLast(fs, M) = <<fs[i]>>
           /\ (\E i \in DOMAIN fs : fs[i] \in M) => (\E i : IsFirst(fs, M, i)) /\ (\E i : IsLast(fs, M, i))
<1> DEFINE P == {i \in DOMAIN fs : fs[i] \in M}
<1>1. Len(fs) \in Nat /\ DOMAIN fs = 1..Len(fs) /\ P \subseteq 1..Len(fs) /\ P \subseteq Nat
  OBVIOUS
<1>2. /\ Finding(fs, M) = IF P = {} THEN <<>> ELSE <<fs[Min(P)]>>
      /\ FindingLast(fs, M) = IF P = {} THEN <<>> ELSE <<fs[Max(P)]>>
  BY DEF Finding, FindingLast, First
<1>3. \A i : i \in P <=> i \in DOMAIN fs /\ fs[i] \in M
  OBVIOUS
<1> HIDE DEF P
<1>4. P # {} => /\ Min(P) \in P /\ \A y \in P : Min(P) <= y
                /\ Max(P) \in P /\ \A y \in P : Max(P) >= y
  BY <1>1, MinFacts, MaxFacts
<1>5. ASSUME \A i \in DOMAIN fs : fs[i] \notin M
      PROVE  Finding(fs, M) = <<>> /\ FindingLast(fs, M) = <<>>
  BY <1>2, <1>3, <1>5
<1>6. ASSUME NEW i, IsFirst(fs, M, i) PROVE Finding(fs, M) = <<fs[i]>>
  <2>1. i \in P /\ P # {} /\ \A j \in P : ~(j < i)
    BY <1>3, <1>6 DEF IsFirst
  <2>2. Min(P) \in P /\ Min(P) <= i /\ ~(Min(P) < i) /\ Min(P) \in Nat /\ i \in Nat
    BY <1>1, <1>4, <2>1
  <2>3. Min(P) = i
    BY <2>2
  <2>4. QED
    BY <1>2, <2>1, <2>3
<1>7. ASSUME NEW i, IsLast(fs, M, i) PROVE FindingLast(fs, M) = <<fs[i]>>
  <2>1. i \in P /\ P # {} /\ \A j \in P : ~(j > i)
    BY <1>3, <1>7 DEF IsLast
  <2>2. Max(P) \in P /\ Max(P) >= i /\ ~(Max(P) > i) /\ Max(P) \in Nat /\ i \in Nat
    BY <1>1, <1>4, <2>1
  <2>3. Max(P) = i
    BY <2>2
  <2>4. QED
    BY <1>2, <2>1, <2>3
<1>8. ASSUME \E i \in DOMAIN fs : fs[i] \in M
      PROVE  (\E i : IsFirst(fs, M, i)) /\ (\E i : IsLast(fs, M, i))
  <2>1. P # {}
    BY <1>3, <1>8
  <2>2. ASSUME NEW j \in DOMAIN fs PROVE (j < Min(P) => fs[j] \notin M) /\ (j > Max(P) => fs[j] \notin M)
    <3>0. Min(P) \in P /\ Max(P) \in P /\ j \in 1..Len(fs)
      BY <1>1, <1>4, <2>1
    <3>a. Min(P) \in Nat /\ Max(P) \in Nat
      BY <1>1, <3>0, Zenon
    <3>1. Min(P) \in Nat /\ Max(P) \in Nat /\ j \in Nat
      BY <1>1, <3>0, <3>a
    <3>2. j \in P => Min(P) <= j /\ Max(P) >= j
      BY <1>4, <2>1
    <3>3. QED
      BY <1>3, <3>1, <3>2
  <2>3. IsFirst(fs, M, Min(P)) /\ IsLast(fs, M, Max(P))
    BY <1>3, <1>4, <2>1, <2>2 DEF IsFirst, IsLast
  <2>4. QED
    BY <2>3
<1>9. QED
  BY <1>5, <1>6, <1>7, <1>8

LEMMA FindingNone == \A M : Finding(<<>>, M) = <<>> /\ FindingLast(<<>>, M) = <<>>
BY DEF Finding, FindingLast, First

LEMMA FindingOne ==
    ASSUME NEW f \in FieldSet, NEW M
    PROVE  /\ f \in M => Finding(<<f>>, M) = <<f>> /\ FindingLast(<<f>>, M) = <<f>>
           /\ f \notin M => Finding(<<f>>, M) = <<>> /\ FindingLast(<<f>>, M) = <<>>
<1> DEFINE fs == <<f>>
<1>1. fs \in Seq(FieldSet) /\ DOMAIN fs = {1} /\ fs[1] = f
  OBVIOUS
<1> HIDE DEF fs
<1>2. f \in M => IsFirst(fs, M, 1) /\ IsLast(fs, M, 1)
  BY <1>1 DEF IsFirst, IsLast
<1>3. f \notin M => \A i \in DOMAIN fs : fs[i] \notin M
  BY <1>1
<1>4. (f \in M => Finding(fs, M) = <<fs[1]>> /\ FindingLast(fs, M) = <<fs[1]>>)
  BY <1>1, <1>2, FindingIs
<1>5. (f \notin M => Finding(fs, M) = <<>> /\ FindingLast(fs, M) = <<>>)
  BY <1>1, <1>3, FindingIs
<1>6. QED
  BY <1>1, <1>4, <1>5 DEF fs

LEMMA FindingBoth ==
    ASSUME NEW fs \in Seq(FieldSet), NEW gs \in Seq(FieldSet), NEW M
    PROVE  /\ Finding(fs \o gs, M) = IF Finding(fs, M) = <<>> THEN Finding(gs, M) ELSE Finding(fs, M)
           /\ FindingLast(fs \o gs, M) =
                 IF FindingLast(gs, M) = <<>> THEN FindingLast(fs, M) ELSE FindingLast(gs, M)
<1> DEFINE all == fs \o gs
           m == Len(fs)
           n == Len(gs)
<1>1. /\ all \in Seq(FieldSet) /\ m \in Nat /\ n \in Nat
      /\ DOMAIN fs = 1..m /\ DOMAIN gs = 1..n /\ DOMAIN all = 1..(m + n)
      /\ \A i \in 1..m : all[i] = fs[i]
      /\ \A i \in 1..n : all[m + i] = gs[i]
  OBVIOUS
<1> HIDE DEF all, m, n
<1>2. ASSUME NEW i, IsFirst(fs, M, i) PROVE Finding(all, M) = Finding(fs, M) /\ Finding(fs, M) # <<>>
  <2>1. i \in 1..m /\ i \in 1..(m + n) /\ fs[i] \in M /\ \A j \in 1..m : j < i => fs[j] \notin M
    <3>1. i \in 1..m /\ fs[i] \in M
      BY <1>1, <1>2 DEF IsFirst
    <3>2. \A j \in 1..m : j < i => fs[j] \notin M
      BY <1>1, <1>2, Zenon DEF IsFirst
    <3>3. i \in 1..(m + n)
      BY <1>1, <3>1
    <3>4. QED
      BY <3>1, <3>2, <3>3
  <2>2. ASSUME NEW j \in 1..(m + n), j < i PROVE all[j] \notin M
    BY <1>1, <2>1, <2>2
  <2>3. IsFirst(all, M, i)
    BY <1>1, <2>1, <2>2 DEF IsFirst
  <2>4. Finding(all, M) = <<all[i]>> /\ Finding(fs, M) = <<fs[i]>>
    BY <1>1, <1>2, <2>3, FindingIs
  <2>5. QED
    BY <1>1, <2>1, <2>4
<1>3. ASSUME NEW i, IsLast(gs, M, i) PROVE FindingLast(all, M) = FindingLast(gs, M) /\ FindingLast(gs, M) # <<>>
  <2>1. i \in 1..n /\ m + i \in 1..(m + n) /\ gs[i] \in M /\ \A j \in 1..n : j > i => gs[j] \notin M
    <3>1. i \in 1..n /\ gs[i] \in M
      BY <1>1, <1>3 DEF IsLast
    <3>2. \A j \in 1..n : j > i => gs[j] \notin M
      BY <1>1, <1>3, Zenon DEF IsLast
    <3>3. m + i \in 1..(m + n)
      BY <1>1, <3>1
    <3>4. QED
      BY <3>1, <3>2, <3>3
  <2>2. ASSUME NEW j \in 1..(m + n), j > m + i PROVE all[j] \notin M
    <3>1. j - m \in 1..n /\ j - m > i /\ m + (j - m) = j
      BY <1>1, <2>1, <2>2
    <3>2. all[j] = gs[j - m]
      BY <1>1, <3>1
    <3>3. QED
      BY <2>1, <3>1, <3>2
  <2>3. IsLast(all, M, m + i)
    BY <1>1, <2>1, <2>2 DEF IsLast
  <2>4. FindingLast(all, M) = <<all[m + i]>> /\ FindingLast(gs, M) = <<gs[i]>>
    BY <1>1, <1>3, <2>3, FindingIs
  <2>5. QED
    BY <1>1, <2>1, <2>4
<1>4. ASSUME \A i \in DOMAIN fs : fs[i] \notin M PROVE Finding(all, M) = Finding(gs, M) /\ Finding(fs, M) = <<>>
  <2>1. Finding(fs, M) = <<>>
    BY <1>4, FindingIs
  <2>2. CASE \A i \in DOMAIN gs : gs[i] \notin M
    <3>1. ASSUME NEW i \in 1..(m + n) PROVE all[i] \notin M
      <4>1. CASE i \in 1..m
        BY <1>1, <1>4, <4>1
      <4>2. CASE i \notin 1..m
        <5>1. i - m \in 1..n /\ m + (i - m) = i
          BY <1>1, <4>2
        <5>2. QED
          BY <1>1, <2>2, <5>1
      <4>3. QED
        BY <4>1, <4>2
    <3>2. Finding(all, M) = <<>> /\ Finding(gs, M) = <<>>
      BY <1>1, <2>2, <3>1, FindingIs
    <3>3. QED
      BY <2>1, <3>2
  <2>3. CASE \E i \in DOMAIN gs : gs[i] \in M
    <3>1. PICK i : IsFirst(gs, M, i)
      BY <2>3, FindingIs
    <3>2. i \in 1..n /\ m + i \in 1..(m + n) /\ gs[i] \in M /\ \A j \in 1..n : j < i => gs[j] \notin M
      <4>1. i \in 1..n /\ gs[i] \in M
        BY <1>1, <3>1 DEF IsFirst
      <4>2. \A j \in 1..n : j < i => gs[j] \notin M
        BY <1>1, <3>1, Zenon DEF IsFirst
      <4>3. m + i \in 1..(m + n)
        BY <1>1, <4>1
      <4>4. QED
        BY <4>1, <4>2, <4>3
    <3>3. ASSUME NEW j \in 1..(m + n), j < m + i PROVE all[j] \notin M
      <4>1. CASE j \in 1..m
        BY <1>1, <1>4, <4>1
      <4>2. CASE j \notin 1..m
        <5>1. j - m \in 1..n /\ j - m < i /\ m + (j - m) = j
          BY <1>1, <3>2, <3>3, <4>2
        <5>2. all[j] = gs[j - m]
          BY <1>1, <5>1
        <5>3. QED
          BY <3>2, <5>1, <5>2
      <4>3. QED
        BY <4>1, <4>2
    <3>4. IsFirst(all, M, m + i)
      BY <1>1, <3>2, <3>3 DEF IsFirst
    <3>5. Finding(all, M) = <<all[m + i]>> /\ Finding(gs, M) = <<gs[i]>>
      BY <1>1, <3>1, <3>4, FindingIs
    <3>6. QED
      BY <1>1, <2>1, <3>2, <3>5
  <2>4. QED
    BY <2>2, <2>3
<1>5. ASSUME \A i \in DOMAIN gs : gs[i] \notin M
      PROVE  FindingLast(all, M) = FindingLast(fs, M) /\ FindingLast(gs, M) = <<>>
  <2>1. FindingLast(gs, M) = <<>>
    BY <1>5, FindingIs
  <2>2. ASSUME NEW i \in 1..(m + n), i \notin 1..m PROVE all[i] \notin M
    <3>1. i - m \in 1..n /\ m + (i - m) = i
      BY <1>1, <2>2
    <3>2. QED
      BY <1>1, <1>5, <3>1
  <2>3. CASE \A i \in DOMAIN fs : fs[i] \notin M
    <3>1. ASSUME NEW i \in 1..(m + n) PROVE all[i] \notin M
      BY <1>1, <2>2, <2>3
    <3>2. FindingLast(all, M) = <<>> /\ FindingLast(fs, M) = <<>>
      BY <1>1, <2>3, <3>1, FindingIs
    <3>3. QED
      BY <2>1, <3>2
  <2>4. CASE \E i \in DOMAIN fs : fs[i] \in M
    <3>1. PICK i : IsLast(fs, M, i)
      BY <2>4, FindingIs
    <3>2. i \in 1..m /\ i \in 1..(m + n) /\ fs[i] \in M /\ \A j \in 1..m : j > i => fs[j] \notin M
      BY <1>1, <3>1, SMTT(30) DEF IsLast
    <3>3. ASSUME NEW j \in 1..(m + n), j > i PROVE all[j] \notin M
      <4>1. CASE j \in 1..m
        BY <1>1, <3>2, <3>3, <4>1
      <4>2. CASE j \notin 1..m
        BY <2>2, <4>2
      <4>3. QED
        BY <4>1, <4>2
    <3>4. IsLast(all, M, i)
      BY <1>1, <3>2, <3>3 DEF IsLast
    <3>5. FindingLast(all, M) = <<all[i]>> /\ FindingLast(fs, M) = <<fs[i]>>
      BY <1>1, <3>1, <3>4, FindingIs
    <3>6. QED
      BY <1>1, <2>1, <3>2, <3>5
  <2>5. QED
    BY <2>3, <2>4
<1>6. Finding(all, M) = IF Finding(fs, M) = <<>> THEN Finding(gs, M) ELSE Finding(fs, M)
  <2>1. CASE \E i \in DOMAIN fs : fs[i] \in M
    <3>1. PICK i : IsFirst(fs, M, i)
      BY <2>1, FindingIs
    <3>2. QED
      BY <1>2, <3>1
  <2>2. QED
    BY <1>4, <2>1
<1>7. FindingLast(all, M) = IF FindingLast(gs, M) = <<>> THEN FindingLast(fs, M) ELSE FindingLast(gs, M)
  <2>1. CASE \E i \in DOMAIN gs : gs[i] \in M
    <3>1. PICK i : IsLast(gs, M, i)
      BY <2>1, FindingIs
    <3>2. QED
      BY <1>3, <3>1
  <2>2. QED
    BY <1>5, <2>1
<1>8. QED
  BY <1>6, <1>7 DEF all

Matches(number, type) == {f \in FieldSet : f.number = number /\ f.type = type}

LEMMA PlacesAre ==
    ASSUME NEW fs \in Seq(FieldSet), NEW number, NEW type
    PROVE  /\ Places(fs, number, type) = {i \in DOMAIN fs : fs[i] \in Matches(number, type)}
           /\ FirstOf(fs, number, type) = Finding(fs, Matches(number, type))
<1>1. \A i \in DOMAIN fs : fs[i] \in FieldSet
  OBVIOUS
<1>2. \A i \in DOMAIN fs : fs[i] \in Matches(number, type) <=> fs[i].number = number /\ fs[i].type = type
  BY <1>1 DEF Matches
<1>3. Places(fs, number, type) = {i \in DOMAIN fs : fs[i] \in Matches(number, type)}
  BY <1>2 DEF Places
<1>4. QED
  BY <1>3 DEF FirstOf, Finding

-----------------------------------------------------------------------------
(* Messages and frames, with a bound of their size *)

LEMMA VarintSize == ASSUME NEW v \in Nat, v < Word PROVE Len(Varint(v)) \in 1..Groups
<1>1. Varint(v) \in Seq(Bytes) /\ Len(Varint(v)) \in Nat \ {0}
  BY VarintBytes
<1>2. Holds(Varint(v), 0, Varint(v))
  BY <1>1, HoldsSelf
<1>3. Len(Varint(v)) <= Groups
  BY <1>1, <1>2, ReadsBack
<1>4. QED
  BY <1>1, <1>3, WidthFacts

\* s is written for the fields fs and has no more than n bytes.
Writes(s, fs, n) == Encodes(s, fs) /\ n \in Nat /\ Len(s) <= n

LEMMA WritesBytes == ASSUME NEW s, NEW fs, NEW n, Writes(s, fs, n)
                     PROVE  s \in Seq(Bytes) /\ fs \in Seq(FieldSet) /\ n \in Nat /\ Len(s) <= n /\ Fields(s) = fs
BY EncodesAll DEF Writes, Encodes

LEMMA WritesNone == Writes(<<>>, <<>>, 0)
BY EncodesNone DEF Writes

LEMMA WritesVarint ==
    ASSUME NEW number \in Numbers, NEW v \in Nat, v < Word
    PROVE  Writes(VarintField(number, v), <<VarintIs(number, v)>>, 2 * Groups)
<1> DEFINE k == Key(number, VarintType)
<1>1. VarintType \in 0..7 /\ Groups \in Nat
  BY WidthFacts DEF VarintType
<1>2. Len(k) \in 1..Groups
  <2>1. number * 8 + VarintType \in Nat /\ number * 8 + VarintType < Word
    BY <1>1, KeyRoom
  <2>2. QED
    BY <2>1, VarintSize DEF Key
<1>3. Len(Varint(v)) \in 1..Groups
  BY VarintSize
<1>4. k \in Seq(Bytes) /\ Varint(v) \in Seq(Bytes)
  BY <1>1, KeyBytes, VarintBytes
<1> HIDE DEF k
<1>5. Len(k \o Varint(v)) = Len(k) + Len(Varint(v))
  BY <1>4
<1>6. Len(VarintField(number, v)) <= 2 * Groups /\ 2 * Groups \in Nat
  BY <1>1, <1>2, <1>3, <1>5 DEF VarintField, k
<1>7. Encodes(VarintField(number, v), <<VarintIs(number, v)>>)
  BY VarintFieldIsRead, EncodesOne
<1>8. QED
  BY <1>6, <1>7 DEF Writes

LEMMA WritesMessage ==
    ASSUME NEW number \in Numbers, NEW b \in Seq(Bytes), NEW n \in Nat, Len(b) <= n, n < Word
    PROVE  Writes(BytesField(number, b), <<BytesAre(number, LengthDelimited, b)>>, n + 2 * Groups)
<1> DEFINE k == Key(number, LengthDelimited)
           l == Varint(Len(b))
<1>1. LengthDelimited \in 0..7 /\ Groups \in Nat /\ Word \in Nat
  BY WidthFacts DEF LengthDelimited
<1>0. Len(b) \in Nat /\ Len(b) < Word
  BY <1>1
<1>2. Len(k) \in 1..Groups
  <2>1. number * 8 + LengthDelimited \in Nat /\ number * 8 + LengthDelimited < Word
    BY <1>1, KeyRoom
  <2>2. QED
    BY <2>1, VarintSize DEF Key
<1>3. Len(l) \in 1..Groups
  BY <1>0, VarintSize
<1>4. k \in Seq(Bytes) /\ l \in Seq(Bytes)
  BY <1>0, <1>1, KeyBytes, VarintBytes
<1> HIDE DEF k, l
<1>5. Len(k \o l \o b) = Len(k) + Len(l) + Len(b)
  BY <1>4
<1>6. Len(BytesField(number, b)) = Len(k) + Len(l) + Len(b)
  BY <1>5 DEF BytesField, k, l
<1>7. Len(BytesField(number, b)) <= n + 2 * Groups /\ n + 2 * Groups \in Nat
  BY <1>0, <1>1, <1>2, <1>3, <1>6
<1>8. Encodes(BytesField(number, b), <<BytesAre(number, LengthDelimited, b)>>)
  BY <1>0, BytesFieldIsRead, EncodesOne
<1>9. QED
  BY <1>7, <1>8 DEF Writes

LEMMA WritesBoth ==
    ASSUME NEW s, NEW t, NEW fs, NEW gs, NEW m, NEW n, Writes(s, fs, m), Writes(t, gs, n)
    PROVE  Writes(s \o t, fs \o gs, m + n)
<1>1. Encodes(s \o t, fs \o gs)
  BY EncodesBoth DEF Writes
<1>2. s \in Seq(Bytes) /\ t \in Seq(Bytes) /\ m \in Nat /\ n \in Nat /\ Len(s) <= m /\ Len(t) <= n
  BY WritesBytes
<1>3. Len(s \o t) = Len(s) + Len(t) /\ Len(s) \in Nat /\ Len(t) \in Nat
  BY <1>2
<1>4. Len(s \o t) <= m + n /\ m + n \in Nat
  BY <1>2, <1>3
<1>5. QED
  BY <1>1, <1>4 DEF Writes

\* What frame() returns is read as it was meant: a length and as many bytes.
FrameReads(payload) ==
    LET f == Frame(payload)
        n == VarintLength(f, 0)
    IN  /\ n # 0 /\ VarintValue(f, 0, n) = Len(f) - n
        /\ SubSeq(f, n + 1, Len(f)) = payload

LEMMA FrameParts ==
    ASSUME NEW payload \in Seq(Bytes), Len(payload) < Word
    PROVE  LET l == Varint(Len(payload))
               f == Frame(payload)
           IN  /\ f = l \o payload /\ f \in Seq(Bytes) /\ l \in Seq(Bytes)
               /\ Len(payload) \in Nat /\ Len(l) \in Nat /\ Len(l) # 0 /\ Len(f) = Len(l) + Len(payload)
               /\ Holds(f, 0, l) /\ Holds(f, Len(l), payload)
<1> DEFINE l == Varint(Len(payload))
           f == Frame(payload)
<1>1. Len(payload) \in Nat
  OBVIOUS
<1>2. l \in Seq(Bytes) /\ Len(l) \in Nat /\ Len(l) # 0
  BY <1>1, VarintBytes
<1>3. f = l \o payload
  BY DEF Frame
<1> HIDE DEF l, f
<1>4. f \in Seq(Bytes) /\ Len(f) = Len(l) + Len(payload)
  BY <1>2, <1>3
<1>5. Holds(f, 0, l \o payload)
  BY <1>3, <1>4, HoldsSelf
<1>6. Holds(f, 0, l) /\ Holds(f, 0 + Len(l), payload)
  BY <1>2, <1>4, <1>5, HoldsParts
<1>7. 0 + Len(l) = Len(l)
  BY <1>2
<1>8. QED
  BY <1>1, <1>2, <1>3, <1>4, <1>6, <1>7 DEF l, f

\* frame, readVarint and what follows: whatever the payload, a frame is taken
\* apart as it was put together.
THEOREM FramesReadBack == \A payload \in Seq(Bytes) : Len(payload) < Word => FrameReads(payload)
<1> SUFFICES ASSUME NEW payload \in Seq(Bytes), Len(payload) < Word PROVE FrameReads(payload)
  OBVIOUS
<1> DEFINE l == Varint(Len(payload))
           f == Frame(payload)
<1>1. /\ f = l \o payload /\ f \in Seq(Bytes) /\ l \in Seq(Bytes)
      /\ Len(payload) \in Nat /\ Len(l) \in Nat /\ Len(l) # 0 /\ Len(f) = Len(l) + Len(payload)
      /\ Holds(f, 0, l) /\ Holds(f, Len(l), payload)
  BY FrameParts
<1>2. VarintLength(f, 0) = Len(l) /\ VarintValue(f, 0, Len(l)) = Len(payload)
  <2> HIDE DEF f
  <2>1. QED
    BY <1>1, ReadsBack
<1> HIDE DEF f, l
<1>3. SubSeq(f, Len(l) + 1, Len(l) + Len(payload)) = payload
  BY <1>1, HoldsSpan
<1>4. Len(payload) = Len(f) - Len(l)
  BY <1>1
<1>5. QED
  BY <1>1, <1>2, <1>3, <1>4 DEF FrameReads, f

-----------------------------------------------------------------------------
(* Any number of fields, one after the other *)

JoinsUp(f, S, parts, n) ==
    /\ f \in [0..n -> Seq(S)] /\ f[0] = <<>>
    /\ \A i \in 1..n : f[i] = f[i - 1] \o parts[i]

LEMMA JoinsUpExists ==
    ASSUME NEW n \in Nat, NEW S, NEW parts, \A i \in 1..n : parts[i] \in Seq(S)
    PROVE  \E f : JoinsUp(f, S, parts, n)
<1> DEFINE T == Seq(S)
           Part(i) == IF i + 1 \in 1..n THEN parts[i + 1] ELSE <<>>
           d == [q \in T \X Nat |-> q[1] \o Part(q[2])]
<1>1. \A i \in Nat : Part(i) \in T
  OBVIOUS
<1>2. d \in [T \X Nat -> T] /\ <<>> \in T
  <2>1. ASSUME NEW q \in T \X Nat PROVE q[1] \o Part(q[2]) \in T
    <3>1. q[1] \in Seq(S) /\ Part(q[2]) \in Seq(S)
      BY <1>1
    <3> HIDE DEF Part
    <3>2. QED
      BY <3>1
  <2>2. QED
    BY <2>1
<1>3. \A v \in T, i \in Nat : d[<<v, i>>] = v \o Part(i)
  OBVIOUS
<1> HIDE DEF d, T
<1>4. PICK g : GoesOn(g, T, <<>>, d)
  BY <1>2, PrimitiveRecursion
<1>5. g \in [Nat -> T] /\ g[0] = <<>> /\ \A i \in Nat : g[i + 1] = g[i] \o Part(i)
  BY <1>3, <1>4 DEF GoesOn
<1> DEFINE f == [i \in 0..n |-> g[i]]
<1>6. f \in [0..n -> T] /\ f[0] = <<>>
  BY <1>5
<1>7. ASSUME NEW i \in 1..n PROVE f[i] = f[i - 1] \o parts[i]
  <2>1. i - 1 \in Nat /\ i = (i - 1) + 1 /\ i \in 0..n /\ i - 1 \in 0..n
    OBVIOUS
  <2>2. g[i] = g[i - 1] \o Part(i - 1)
    BY <1>5, <2>1
  <2>3. QED
    BY <2>1, <2>2
<1> HIDE DEF f
<1>8. JoinsUp(f, S, parts, n)
  BY <1>6, <1>7 DEF JoinsUp, T
<1>9. QED
  BY <1>8

LEMMA JoinsUpUnique ==
    ASSUME NEW n \in Nat, NEW m \in Nat, NEW S, NEW t, NEW u, \A i \in 1..n : i <= m => t[i] = u[i],
           NEW f, JoinsUp(f, S, t, n), NEW g, JoinsUp(g, S, u, m)
    PROVE  \A i \in 0..n : i <= m => f[i] = g[i]
<1> DEFINE P == {i \in Nat : i <= n /\ i <= m => f[i] = g[i]}
<1>1. 0 \in P
  BY DEF JoinsUp
<1>2. ASSUME NEW i \in Nat, i \in P PROVE i + 1 \in P
  <2> SUFFICES ASSUME i + 1 <= n, i + 1 <= m PROVE f[i + 1] = g[i + 1]
    OBVIOUS
  <2>1. i + 1 \in 1..n /\ i + 1 \in 1..m /\ (i + 1) - 1 = i
    OBVIOUS
  <2>2. f[i + 1] = f[i] \o t[i + 1] /\ g[i + 1] = g[i] \o u[i + 1]
    BY <2>1 DEF JoinsUp
  <2>3. f[i] = g[i] /\ t[i + 1] = u[i + 1]
    BY <1>2, <2>1
  <2>4. QED
    BY <2>2, <2>3
<1> HIDE DEF P
<1>3. \A i \in Nat : i \in P
  BY <1>1, <1>2, Induction
<1>4. QED
  BY <1>3 DEF P

LEMMA JoinedJoinsUp ==
    ASSUME NEW n \in Nat, NEW S, NEW parts, \A i \in 1..n : parts[i] \in Seq(S)
    PROVE  \E f : JoinsUp(f, S, parts, n) /\ Joined(parts, n) = f[n]
<1> DEFINE Join(g) == [i \in 0..n |-> IF i = 0 THEN <<>> ELSE g[i - 1] \o parts[i]]
           upTo == CHOOSE g : g = Join(g)
<1>1. PICK f : JoinsUp(f, S, parts, n)
  BY JoinsUpExists
<1>2. f = Join(f)
  <2>1. f \in [0..n -> Seq(S)]
    BY <1>1 DEF JoinsUp
  <2>2. ASSUME NEW i \in 0..n PROVE f[i] = IF i = 0 THEN <<>> ELSE f[i - 1] \o parts[i]
    <3>1. i # 0 => i \in 1..n
      OBVIOUS
    <3>2. QED
      BY <1>1, <3>1 DEF JoinsUp
  <2>3. QED
    BY <2>1, <2>2
<1>3. upTo = Join(upTo)
  BY <1>2, Zenon
<1>4. Joined(parts, n) = upTo[n]
  BY Zenon DEF Joined
<1> HIDE DEF upTo
<1>5. \A i \in 0..n : upTo[i] = IF i = 0 THEN <<>> ELSE upTo[i - 1] \o parts[i]
  BY <1>3, Zenon
<1> DEFINE P == {i \in Nat : i <= n => upTo[i] = f[i]}
<1>6. \A i \in Nat : i \in P
  <2>1. 0 \in P
    BY <1>1, <1>5 DEF JoinsUp
  <2>2. ASSUME NEW i \in Nat, i \in P PROVE i + 1 \in P
    <3> SUFFICES ASSUME i + 1 <= n PROVE upTo[i + 1] = f[i + 1]
      OBVIOUS
    <3>1. i + 1 \in 1..n /\ i + 1 \in 0..n /\ (i + 1) - 1 = i /\ i + 1 # 0
      OBVIOUS
    <3>2. f[i + 1] = f[i] \o parts[i + 1]
      BY <1>1, <3>1 DEF JoinsUp
    <3>3. upTo[i + 1] = upTo[i] \o parts[i + 1]
      BY <1>5, <3>1
    <3>4. upTo[i] = f[i]
      BY <2>2
    <3>5. QED
      BY <3>2, <3>3, <3>4
  <2> HIDE DEF P
  <2>3. QED
    BY <2>1, <2>2, Induction
<1>7. QED
  BY <1>1, <1>4, <1>6

\* Joined part by part.
LEMMA JoinedDef ==
    ASSUME NEW n \in Nat, NEW S, NEW parts, \A i \in 1..n : parts[i] \in Seq(S)
    PROVE  /\ Joined(parts, n) \in Seq(S)
           /\ n = 0 => Joined(parts, n) = <<>>
           /\ n # 0 => Joined(parts, n) = Joined(parts, n - 1) \o parts[n]
<1>1. PICK f : JoinsUp(f, S, parts, n) /\ Joined(parts, n) = f[n]
  BY JoinedJoinsUp
<1>2. f[n] \in Seq(S) /\ (n = 0 => f[n] = <<>>)
  BY <1>1 DEF JoinsUp
<1>3. ASSUME n # 0 PROVE Joined(parts, n) = Joined(parts, n - 1) \o parts[n]
  <2>1. n - 1 \in Nat /\ n \in 1..n /\ \A i \in 1..(n - 1) : parts[i] \in Seq(S)
    BY <1>3
  <2>2. PICK g : JoinsUp(g, S, parts, n - 1) /\ Joined(parts, n - 1) = g[n - 1]
    BY <2>1, JoinedJoinsUp
  <2>3. g[n - 1] = f[n - 1]
    BY <1>1, <2>1, <2>2, JoinsUpUnique
  <2>4. QED
    BY <1>1, <2>1, <2>2, <2>3 DEF JoinsUp
<1>4. QED
  BY <1>1, <1>2, <1>3

LEMMA JoinedFrame ==
    ASSUME NEW n \in Nat, NEW S, NEW t, NEW u, \A i \in 1..n : t[i] \in Seq(S) /\ t[i] = u[i]
    PROVE  Joined(t, n) = Joined(u, n)
<1>1. PICK f : JoinsUp(f, S, t, n) /\ Joined(t, n) = f[n]
  BY JoinedJoinsUp
<1>2. PICK g : JoinsUp(g, S, u, n) /\ Joined(u, n) = g[n]
  BY JoinedJoinsUp
<1>3. QED
  BY <1>1, <1>2, JoinsUpUnique

\* The fields a Writer can be asked to write: varintField and bytesField.
Writable ==
    {f \in FieldSet : \/ f.type = VarintType /\ f.varint < Word /\ f.bytes = <<>>
                      \/ f.type = LengthDelimited /\ f.varint = 0 /\ Len(f.bytes) < Word}

Written(f) == IF f.type = VarintType THEN VarintField(f.number, f.varint) ELSE BytesField(f.number, f.bytes)

WrittenAll(fs) == Joined([i \in 1..Len(fs) |-> Written(fs[i])], Len(fs))

LEMMA WrittenEncodes == ASSUME NEW f \in Writable PROVE Encodes(Written(f), <<f>>)
<1>1. /\ f \in FieldSet /\ f.number \in Numbers /\ f.varint \in Nat /\ f.bytes \in Seq(Bytes)
      /\ f = [number |-> f.number, type |-> f.type, varint |-> f.varint, bytes |-> f.bytes]
  BY DEF Writable, FieldSet, Numbers
<1>2. CASE f.type = VarintType /\ f.varint < Word /\ f.bytes = <<>>
  <2>1. Written(f) = VarintField(f.number, f.varint) /\ f = VarintIs(f.number, f.varint)
    BY <1>1, <1>2 DEF Written, VarintIs
  <2>2. IsReadAs(VarintField(f.number, f.varint), VarintIs(f.number, f.varint))
    BY <1>1, <1>2, VarintFieldIsRead
  <2>3. QED
    BY <2>1, <2>2, EncodesOne
<1>3. CASE f.type = LengthDelimited /\ f.varint = 0 /\ Len(f.bytes) < Word
  <2>1. Written(f) = BytesField(f.number, f.bytes) /\ f = BytesAre(f.number, LengthDelimited, f.bytes)
    BY <1>1, <1>3 DEF Written, BytesAre, VarintType, LengthDelimited
  <2>2. IsReadAs(BytesField(f.number, f.bytes), BytesAre(f.number, LengthDelimited, f.bytes))
    BY <1>1, <1>3, BytesFieldIsRead
  <2>3. QED
    BY <2>1, <2>2, EncodesOne
<1>4. QED
  BY <1>2, <1>3 DEF Writable

\* Writer and Reader agree on every message: any sequence of varint and
\* length-delimited fields comes back as it was written, in order and with
\* nothing lost, whatever the numbers, the values and the contents.
THEOREM CodecRoundTrip == \A fs \in Seq(Writable) : Fields(WrittenAll(fs)) = fs
<1> SUFFICES ASSUME NEW fs \in Seq(Writable) PROVE Fields(WrittenAll(fs)) = fs
  OBVIOUS
<1> DEFINE n == Len(fs)
           parts == [i \in 1..n |-> Written(fs[i])]
           P == {k \in Nat : k <= n => Encodes(Joined(parts, k), SubSeq(fs, 1, k))}
<1>1. n \in Nat /\ \A i \in 1..n : fs[i] \in Writable
  OBVIOUS
<1>2. \A i \in 1..n : Encodes(Written(fs[i]), <<fs[i]>>)
  BY <1>1, WrittenEncodes
<1>3. \A i \in 1..n : parts[i] = Written(fs[i]) /\ parts[i] \in Seq(Bytes)
  BY <1>2 DEF Encodes
<1>4. Writable \subseteq FieldSet /\ fs \in Seq(FieldSet)
  <2>1. Writable \subseteq FieldSet
    BY DEF Writable
  <2>2. QED
    BY <2>1
<1> HIDE DEF parts
<1>5. 0 \in P
  <2>1. Joined(parts, 0) = <<>>
    <3>1. \A i \in 1..0 : parts[i] \in Seq(Bytes)
      OBVIOUS
    <3>2. QED
      BY <3>1, JoinedDef
  <2>2. SubSeq(fs, 1, 0) = <<>>
    OBVIOUS
  <2>3. QED
    BY <2>1, <2>2, EncodesNone
<1>6. ASSUME NEW k \in Nat, k \in P PROVE k + 1 \in P
  <2> SUFFICES ASSUME k + 1 <= n PROVE Encodes(Joined(parts, k + 1), SubSeq(fs, 1, k + 1))
    OBVIOUS
  <2>1. k <= n /\ k + 1 \in Nat /\ k + 1 # 0 /\ (k + 1) - 1 = k /\ k + 1 \in 1..n
    BY <1>1
  <2>2. Joined(parts, k + 1) = Joined(parts, k) \o parts[k + 1]
    <3>1. \A i \in 1..(k + 1) : parts[i] \in Seq(Bytes)
      BY <1>3, <2>1
    <3>2. QED
      BY <2>1, <3>1, JoinedDef
  <2>3. SubSeq(fs, 1, k + 1) = SubSeq(fs, 1, k) \o <<fs[k + 1]>>
    BY <1>1, <1>4, <2>1
  <2>4. Encodes(Joined(parts, k), SubSeq(fs, 1, k)) /\ Encodes(parts[k + 1], <<fs[k + 1]>>)
    BY <1>2, <1>3, <1>6, <2>1
  <2>5. Encodes(Joined(parts, k) \o parts[k + 1], SubSeq(fs, 1, k) \o <<fs[k + 1]>>)
    BY <2>4, EncodesBoth
  <2>6. QED
    BY <2>2, <2>3, <2>5
<1> HIDE DEF P
<1>7. \A k \in Nat : k \in P
  BY <1>5, <1>6, Induction
<1>8. n \in P
  BY <1>1, <1>7
<1>9. Encodes(Joined(parts, n), SubSeq(fs, 1, n))
  BY <1>1, <1>8 DEF P
<1>10. SubSeq(fs, 1, n) = fs
  BY <1>1
<1>11. Encodes(WrittenAll(fs), fs)
  BY <1>9, <1>10 DEF WrittenAll, parts
<1>12. QED
  BY <1>11, EncodesAll

=============================================================================
