---------------------------- MODULE ChecksProofs ----------------------------
(***************************************************************************)
(* Lemmas about the operators of DocumentChecks and BiometricChecks: that  *)
(* their loops, written as recursive functions, compute what they say, and *)
(* what the Verhoeff checksum of an id number detects.                     *)
(*                                                                         *)
(* Induction over the passes of a loop is the least element of a set of    *)
(* numbers: a set that holds 0 and, with k, k + 1 holds them all.          *)
(***************************************************************************)
EXTENDS DocumentChecks, BiometricChecks, FiniteSetTheorems, WellFoundedInduction, TLAPS

LEMMA LeastElement ==
  ASSUME NEW S \in SUBSET Nat, S # {}
  PROVE  Min(S) \in S /\ \A y \in S : Min(S) <= y
<1>1. PICK x \in S : \A y \in S : <<y, x>> \notin OpToRel(<, Nat)
  BY NatLessThanWellFounded, WFMin, Zenon
<1>2. \A y \in S : y \in Nat /\ x \in Nat /\ ~ (y < x)
  <2> SUFFICES ASSUME NEW y \in S, y < x PROVE FALSE
    OBVIOUS
  <2>1. <<y, x>> \in OpToRel(<, Nat)
    BY Zenon DEF OpToRel
  <2> QED
    BY <1>1, <2>1
<1>3. \A y \in S : x <= y
  BY <1>2
<1> QED
  BY <1>3 DEF Min

\* A set that holds m and, with every k below n, k + 1, holds all from m to n.
LEMMA UpTo ==
  ASSUME NEW m \in Nat, NEW n \in Nat, NEW S, m \in S,
         \A k \in m .. n - 1 : k \in S => k + 1 \in S
  PROVE  m .. n \subseteq S
<1> DEFINE missing == {k \in m .. n : k \notin S}
<1> SUFFICES ASSUME missing # {} PROVE FALSE
  OBVIOUS
<1>1. missing \in SUBSET Nat
  OBVIOUS
<1>2. PICK k \in missing : \A j \in missing : k <= j
  BY <1>1, LeastElement
<1>3. k \in m .. n /\ k \notin S /\ k # m
  OBVIOUS
<1>4. k - 1 \in m .. n - 1 /\ k - 1 \notin missing
  BY <1>2, <1>3
<1>5. k - 1 \in S
  BY <1>3, <1>4
<1>6. (k - 1) + 1 \in S
  BY <1>4, <1>5
<1> QED
  BY <1>3, <1>6

-----------------------------------------------------------------------------
(* Loops.                                                                  *)

\* f is the states of a loop of n passes from z on, of which pass i takes x to g[i][x].
Loops(f, n, z, g) == f[0] = z /\ \A i \in 1 .. n : f[i] = g[i][f[i - 1]]

\* A loop over states in S has a run.
LEMMA LoopHasRun ==
  ASSUME NEW n \in Nat, NEW S, NEW z \in S, NEW g \in [1 .. n -> [S -> S]]
  PROVE  \E f \in [0 .. n -> S] : Loops(f, n, z, g)
<1> USE DEF Loops
<1> DEFINE Run(k) == {f \in [0 .. k -> S] : Loops(f, k, z, g)}
           long == {k \in 0 .. n : Run(k) # {}}
<1>1. 0 \in long
  <2>1. [i \in 0 .. 0 |-> z] \in Run(0)
    OBVIOUS
  <2> QED
    BY <2>1
<1>2. ASSUME NEW k \in 0 .. n - 1, k \in long PROVE k + 1 \in long
  <2>1. PICK f \in Run(k) : TRUE
    BY <1>2
  <2> DEFINE h == [i \in 0 .. k + 1 |-> IF i = k + 1 THEN g[k + 1][f[k]] ELSE f[i]]
  <2>2. f[k] \in S /\ g[k + 1][f[k]] \in S
    BY <2>1
  <2>3. h \in [0 .. k + 1 -> S] /\ h[0] = z
    BY <2>1, <2>2
  <2>4. ASSUME NEW i \in 1 .. k + 1 PROVE h[i] = g[i][h[i - 1]]
    <3>1. CASE i = k + 1
      <4>1. k \in 0 .. k + 1 /\ k + 1 \in 0 .. k + 1 /\ k # k + 1 /\ i - 1 = k
        BY <3>1
      <4>2. h[k] = f[k] /\ h[k + 1] = g[k + 1][f[k]]
        BY <4>1
      <4> QED
        BY <3>1, <4>1, <4>2
    <3>2. CASE i # k + 1
      <4>1. i \in 1 .. k /\ i - 1 \in 0 .. k + 1 /\ i - 1 # k + 1
        BY <3>2
      <4>2. h[i] = f[i] /\ h[i - 1] = f[i - 1]
        BY <4>1
      <4> QED
        BY <2>1, <4>1, <4>2
    <3> QED
      BY <3>1, <3>2
  <2>5. h \in Run(k + 1)
    BY <2>3, <2>4
  <2>6. k + 1 \in 0 .. n
    OBVIOUS
  <2> HIDE DEF Run, h
  <2> QED
    BY <2>5, <2>6
<1> HIDE DEF long
<1>3. 0 .. n \subseteq long
  BY <1>1, <1>2, UpTo
<1>4. n \in long
  BY <1>3
<1> QED
  BY <1>4 DEF long

-----------------------------------------------------------------------------
(* Sums.                                                                   *)

\* The recursive function of Total adds one number after the other.
IsSum(t, f, n) == t[0] = 0 /\ \A i \in 1 .. n : t[i] = t[i - 1] + f[i]

LEMMA TotalRuns ==
  ASSUME NEW n \in Nat, NEW f \in [1 .. n -> Nat]
  PROVE  \E t : IsSum(t, f, n) /\ Total(f, n) = t[n]
<1> DEFINE g == [i \in 1 .. n |-> [x \in Nat |-> x + f[i]]]
           body(t) == [i \in 0 .. n |-> IF i = 0 THEN 0 ELSE t[i - 1] + f[i]]
           t == CHOOSE t : t = body(t)
<1>1. Total(f, n) = t[n]
  BY Zenon DEF Total
<1>2. \E s : s = body(s)
  <2>1. g \in [1 .. n -> [Nat -> Nat]] /\ \A i \in 1 .. n, x \in Nat : g[i][x] = x + f[i]
    OBVIOUS
  <2> HIDE DEF g
  <2>2. PICK s \in [0 .. n -> Nat] : Loops(s, n, 0, g)
    BY <2>1, LoopHasRun
  <2>3. ASSUME NEW i \in 0 .. n PROVE s[i] = IF i = 0 THEN 0 ELSE s[i - 1] + f[i]
    <3>1. CASE i = 0
      BY <2>2, <3>1 DEF Loops
    <3>2. CASE i \in 1 .. n
      <4>1. s[i - 1] \in Nat
        BY <2>2, <3>2
      <4>2. s[i] = g[i][s[i - 1]]
        BY <2>2, <3>2 DEF Loops
      <4>3. g[i][s[i - 1]] = s[i - 1] + f[i]
        BY <2>1, <3>2, <4>1, Zenon
      <4> QED
        BY <3>2, <4>2, <4>3
    <3> QED
      BY <3>1, <3>2
  <2>4. s = [i \in 0 .. n |-> s[i]]
    BY <2>2
  <2>5. s = body(s)
    BY <2>3, <2>4, Zenon
  <2> QED
    BY <2>5
<1>3. t = body(t)
  BY <1>2, Zenon
<1> HIDE DEF t
<1>4. \A i \in 0 .. n : t[i] = IF i = 0 THEN 0 ELSE t[i - 1] + f[i]
  BY <1>3
<1>5. IsSum(t, f, n)
  BY <1>4 DEF IsSum
<1> QED
  BY <1>1, <1>5

\* A sum of n numbers none of which exceeds b.
LEMMA TotalAtMost ==
  ASSUME NEW n \in Nat, NEW f \in [1 .. n -> Nat], NEW b \in Nat, \A i \in 1 .. n : f[i] <= b
  PROVE  Total(f, n) \in Nat /\ Total(f, n) <= b * n
<1>1. PICK t : IsSum(t, f, n) /\ Total(f, n) = t[n]
  BY TotalRuns
<1> DEFINE low == {i \in 0 .. n : t[i] \in Nat /\ t[i] <= b * i}
<1>2. 0 \in low
  BY <1>1 DEF IsSum
<1>3. ASSUME NEW k \in 0 .. n - 1, k \in low PROVE k + 1 \in low
  <2>1. k + 1 \in 1 .. n /\ k + 1 \in 0 .. n /\ (k + 1) - 1 = k
    OBVIOUS
  <2>2. t[k + 1] = t[k] + f[k + 1] /\ f[k + 1] \in Nat /\ f[k + 1] <= b
    BY <1>1, <2>1 DEF IsSum
  <2>3. t[k] \in Nat /\ t[k] <= b * k /\ b * (k + 1) = b * k + b /\ b * k \in Nat
    BY <1>3
  <2>4. t[k + 1] \in Nat /\ t[k + 1] <= b * (k + 1)
    BY <2>2, <2>3
  <2> QED
    BY <2>1, <2>4
<1> HIDE DEF low
<1>4. 0 .. n \subseteq low
  BY <1>2, <1>3, UpTo
<1>5. n \in low
  BY <1>4
<1> QED
  BY <1>1, <1>5 DEF low

-----------------------------------------------------------------------------
(* The tables of the checksum: D is the multiplication of a group, a row   *)
(* of P a permutation.                                                     *)

Digits == 0 .. 9

LEMMA EachDigit ==
  \A x \in Digits : \/ x = 0 \/ x = 1 \/ x = 2 \/ x = 3 \/ x = 4
                    \/ x = 5 \/ x = 6 \/ x = 7 \/ x = 8 \/ x = 9
  BY DEF Digits

\* D and P, for the state c of the loop and the digit a at place r from the right.
Times(a, b) == D[a + 1][b + 1]
Permuted(r, a) == P[r + 1][a + 1]

LEMMA TimesType == ASSUME NEW a \in Digits, NEW b \in Digits PROVE Times(a, b) \in Digits
  BY EachDigit DEF Times, D, Digits

LEMMA TimesAssociative ==
  ASSUME NEW a \in Digits, NEW b \in Digits, NEW c \in Digits
  PROVE  Times(Times(a, b), c) = Times(a, Times(b, c))
  BY EachDigit, SMTT(60) DEF Times, D

LEMMA TimesCancels ==
  ASSUME NEW a \in Digits, NEW b \in Digits, NEW c \in Digits
  PROVE  /\ Times(a, b) = Times(a, c) => b = c
         /\ Times(b, a) = Times(c, a) => b = c
  BY EachDigit, SMTT(60) DEF Times, D

LEMMA EachRow ==
  \A r \in 0 .. 7 : \/ r = 0 \/ r = 1 \/ r = 2 \/ r = 3
                    \/ r = 4 \/ r = 5 \/ r = 6 \/ r = 7
  OBVIOUS

LEMMA PermutedType ==
  ASSUME NEW r \in 0 .. 7, NEW a \in Digits PROVE Permuted(r, a) \in Digits
  BY EachDigit, EachRow, SMTT(60) DEF Permuted, P, Digits

LEMMA PermutedCancels ==
  ASSUME NEW r \in 0 .. 7, NEW a \in Digits, NEW b \in Digits, Permuted(r, a) = Permuted(r, b)
  PROVE  a = b
  BY EachDigit, EachRow, SMTT(60) DEF Permuted, P

\* Two neighbours that change places change the product.
LEMMA NeighboursDiffer ==
  ASSUME NEW r \in 0 .. 7, NEW a \in Digits, NEW b \in Digits,
         Times(Permuted(r, a), Permuted((r + 1) % 8, b))
           = Times(Permuted(r, b), Permuted((r + 1) % 8, a))
  PROVE  a = b
  BY EachDigit, EachRow, SMTT(60) DEF Times, Permuted, D, P

-----------------------------------------------------------------------------
(* The checksum.                                                           *)

\* The digit that is looked at i places from the right, and the state after it.
FromRight(num, n, i) == num[n + 1 - i]
After(c, num, n, i) == Times(c, Permuted((i - 1) % 8, FromRight(num, n, i)))

IsRun(c, num, n) ==
  /\ c \in [0 .. n -> Digits]
  /\ c[0] = 0
  /\ \A i \in 1 .. n : c[i] = After(c[i - 1], num, n, i)

LEMMA AfterType ==
  ASSUME NEW n \in Nat, NEW num \in [1 .. n -> Digits], NEW i \in 1 .. n, NEW c \in Digits
  PROVE  /\ (i - 1) % 8 \in 0 .. 7
         /\ FromRight(num, n, i) \in Digits
         /\ Permuted((i - 1) % 8, FromRight(num, n, i)) \in Digits
         /\ After(c, num, n, i) \in Digits
<1>1. (i - 1) % 8 \in 0 .. 7 /\ n + 1 - i \in 1 .. n
  OBVIOUS
<1>2. FromRight(num, n, i) \in Digits
  BY <1>1 DEF FromRight
<1>3. Permuted((i - 1) % 8, FromRight(num, n, i)) \in Digits
  BY <1>1, <1>2, PermutedType
<1>4. After(c, num, n, i) \in Digits
  BY <1>3, TimesType DEF After
<1> QED
  BY <1>1, <1>2, <1>3, <1>4

\* The recursive function of verhoeff_validate is a run of its loop.
LEMMA ChecksumRuns ==
  ASSUME NEW n \in Nat, NEW num \in [1 .. n -> Digits], Len(num) = n
  PROVE  \E c : IsRun(c, num, n) /\ (verhoeff_validate(num) <=> c[n] = 0)
<1> DEFINE g == [i \in 1 .. n |-> [c \in Digits |-> After(c, num, n, i)]]
           next(c, i) == D[c[i - 1] + 1][P[Row(i - 1)][num[Len(num) + 1 - i] + 1] + 1]
           body(c) == [i \in 0 .. Len(num) |-> IF i = 0 THEN 0 ELSE next(c, i)]
           c == CHOOSE c : c = body(c)
<1>1. \A f, i : next(f, i) = After(f[i - 1], num, n, i)
  BY DEF After, Times, Permuted, FromRight, Row
<1>2. verhoeff_validate(num) <=> c[Len(num)] = 0
  BY Zenon DEF verhoeff_validate
<1> HIDE DEF next
<1>3. \E f : f = body(f)
  <2>1. g \in [1 .. n -> [Digits -> Digits]] /\ 0 \in Digits
    BY AfterType DEF Digits
  <2>2. \A i \in 1 .. n, x \in Digits : g[i][x] = After(x, num, n, i)
    OBVIOUS
  <2> HIDE DEF g
  <2>3. PICK f \in [0 .. n -> Digits] : Loops(f, n, 0, g)
    BY <2>1, LoopHasRun
  <2>4. ASSUME NEW i \in 1 .. n PROVE f[i] = next(f, i)
    <3>1. f[i - 1] \in Digits
      BY <2>3
    <3>2. g[i][f[i - 1]] = After(f[i - 1], num, n, i)
      BY <2>2, <3>1
    <3> QED
      BY <1>1, <2>3, <3>2 DEF Loops
  <2>5. ASSUME NEW i \in 0 .. Len(num) PROVE f[i] = IF i = 0 THEN 0 ELSE next(f, i)
    BY <2>3, <2>4 DEF Loops
  <2>6. f = [i \in 0 .. Len(num) |-> f[i]]
    BY <2>3
  <2>7. f = body(f)
    BY <2>5, <2>6, Zenon
  <2> QED
    BY <2>7
<1>4. c = body(c)
  BY <1>3, Zenon
<1> HIDE DEF c
<1>5. c[0] = 0 /\ \A i \in 1 .. n : c[i] = After(c[i - 1], num, n, i)
  <2>1. \A i \in 0 .. n : c[i] = IF i = 0 THEN 0 ELSE next(c, i)
    BY <1>4
  <2> QED
    BY <1>1, <2>1
<1>6. 0 .. n \subseteq {i \in 0 .. n : c[i] \in Digits}
  <2> DEFINE typed == {i \in 0 .. n : c[i] \in Digits}
  <2>1. 0 \in typed
    BY <1>5 DEF Digits
  <2>2. ASSUME NEW k \in 0 .. n - 1, k \in typed PROVE k + 1 \in typed
    <3>1. k + 1 \in 1 .. n /\ (k + 1) - 1 = k /\ c[k] \in Digits
      BY <2>2
    <3>2. c[k + 1] = After(c[k], num, n, k + 1)
      BY <1>5, <3>1
    <3>3. c[k + 1] \in Digits
      BY <3>1, <3>2, AfterType
    <3> QED
      BY <3>1, <3>3
  <2> HIDE DEF typed
  <2>3. 0 .. n \subseteq typed
    BY <2>1, <2>2, UpTo
  <2> QED
    BY <2>3 DEF typed
<1>7. DOMAIN c = 0 .. n /\ c = [i \in 0 .. n |-> c[i]]
  BY <1>4
<1> QED
  BY <1>2, <1>5, <1>6, <1>7 DEF IsRun

\* Runs over two numbers that agree up to place j agree so far.
LEMMA RunsAgree ==
  ASSUME NEW n \in Nat, NEW p, NEW q, NEW c, NEW d, IsRun(c, p, n), IsRun(d, q, n),
         NEW j \in 0 .. n, \A i \in 1 .. j : FromRight(p, n, i) = FromRight(q, n, i)
  PROVE  c[j] = d[j]
<1> DEFINE same == {i \in 0 .. j : c[i] = d[i]}
<1>1. 0 \in same
  BY DEF IsRun
<1>2. ASSUME NEW k \in 0 .. j - 1, k \in same PROVE k + 1 \in same
  <2>1. k + 1 \in 1 .. n /\ k + 1 \in 1 .. j /\ (k + 1) - 1 = k /\ c[k] = d[k]
    BY <1>2
  <2>2. c[k + 1] = After(c[k], p, n, k + 1) /\ d[k + 1] = After(d[k], q, n, k + 1)
    BY <2>1 DEF IsRun
  <2>3. c[k + 1] = d[k + 1]
    BY <2>1, <2>2 DEF After
  <2> QED
    BY <2>1, <2>3
<1> HIDE DEF same
<1>3. 0 .. j \subseteq same
  BY <1>1, <1>2, UpTo
<1> QED
  BY <1>3 DEF same

\* Once they differ, they differ until the numbers do again.
LEMMA RunsStayApart ==
  ASSUME NEW n \in Nat, NEW p \in [1 .. n -> Digits], NEW q \in [1 .. n -> Digits],
         NEW c, NEW d, IsRun(c, p, n), IsRun(d, q, n),
         NEW j \in 0 .. n, c[j] # d[j],
         \A i \in j + 1 .. n : FromRight(p, n, i) = FromRight(q, n, i)
  PROVE  c[n] # d[n]
<1> DEFINE apart == {i \in j .. n : c[i] # d[i]}
<1>1. j \in apart
  OBVIOUS
<1>2. ASSUME NEW k \in j .. n - 1, k \in apart PROVE k + 1 \in apart
  <2>1. /\ k \in 0 .. n /\ k + 1 \in 1 .. n /\ k + 1 \in j + 1 .. n /\ k + 1 \in j .. n
        /\ (k + 1) - 1 = k /\ c[k] # d[k]
    BY <1>2
  <2>2. c[k + 1] = After(c[k], p, n, k + 1) /\ d[k + 1] = After(d[k], q, n, k + 1)
    BY <2>1 DEF IsRun
  <2>3. FromRight(p, n, k + 1) = FromRight(q, n, k + 1)
    BY <2>1
  <2>4. /\ c[k] \in Digits /\ d[k] \in Digits
        /\ Permuted(((k + 1) - 1) % 8, FromRight(p, n, k + 1)) \in Digits
    BY <2>1, AfterType DEF IsRun
  <2>5. c[k + 1] # d[k + 1]
    BY <2>1, <2>2, <2>3, <2>4, TimesCancels DEF After
  <2> QED
    BY <2>1, <2>5
<1> HIDE DEF apart
<1> j \in Nat
  OBVIOUS
<1>3. j .. n \subseteq apart
  BY <1>1, <1>2, UpTo
<1>4. n \in j .. n
  OBVIOUS
<1> QED
  BY <1>3, <1>4 DEF apart

\* Of two numbers that differ in one digit at most one is valid.
THEOREM WrongDigitDetected ==
  ASSUME NEW n \in Nat, NEW p \in [1 .. n -> Digits], NEW q \in [1 .. n -> Digits],
         Len(p) = n, Len(q) = n,
         NEW k \in 1 .. n, p[k] # q[k], \A i \in (1 .. n) \ {k} : p[i] = q[i]
  PROVE  ~ (verhoeff_validate(p) /\ verhoeff_validate(q))
<1>1. PICK c : IsRun(c, p, n) /\ (verhoeff_validate(p) <=> c[n] = 0)
  BY ChecksumRuns
<1>2. PICK d : IsRun(d, q, n) /\ (verhoeff_validate(q) <=> d[n] = 0)
  BY ChecksumRuns
<1> DEFINE j == n + 1 - k
           r == (j - 1) % 8
<1>3. j \in 1 .. n /\ j - 1 \in 0 .. n /\ j \in 0 .. n /\ n + 1 - j = k
  OBVIOUS
<1>4. \A i \in 1 .. n : i # j => FromRight(p, n, i) = FromRight(q, n, i)
  <2> SUFFICES ASSUME NEW i \in 1 .. n, i # j PROVE p[n + 1 - i] = q[n + 1 - i]
    BY DEF FromRight
  <2>1. n + 1 - i \in (1 .. n) \ {k}
    OBVIOUS
  <2> QED
    BY <2>1
<1>5. FromRight(p, n, j) = p[k] /\ FromRight(q, n, j) = q[k]
  BY <1>3 DEF FromRight
<1> HIDE DEF j
<1>6. c[j - 1] = d[j - 1]
  <2>1. \A i \in 1 .. j - 1 : FromRight(p, n, i) = FromRight(q, n, i)
    BY <1>3, <1>4
  <2> QED
    BY <1>1, <1>2, <1>3, <2>1, RunsAgree
<1>7. r \in 0 .. 7 /\ c[j - 1] \in Digits
  BY <1>1, <1>3 DEF IsRun
<1>8. /\ c[j] = Times(c[j - 1], Permuted(r, p[k]))
      /\ d[j] = Times(c[j - 1], Permuted(r, q[k]))
  BY <1>1, <1>2, <1>3, <1>5, <1>6 DEF IsRun, After
<1> HIDE DEF r
<1>9. Permuted(r, p[k]) # Permuted(r, q[k])
  BY <1>7, PermutedCancels
<1>10. c[j] # d[j]
  BY <1>7, <1>8, <1>9, PermutedType, TimesCancels
<1>11. c[n] # d[n]
  <2>1. \A i \in j + 1 .. n : FromRight(p, n, i) = FromRight(q, n, i)
    BY <1>3, <1>4
  <2> QED
    BY <1>1, <1>2, <1>3, <1>10, <2>1, RunsStayApart
<1> QED
  BY <1>1, <1>2, <1>11

\* Of two numbers that differ in two neighbours changing places at most one is valid.
THEOREM SwappedDigitsDetected ==
  ASSUME NEW n \in Nat, NEW p \in [1 .. n -> Digits], NEW q \in [1 .. n -> Digits],
         Len(p) = n, Len(q) = n,
         NEW k \in 1 .. n - 1, p[k] # p[k + 1], q[k] = p[k + 1], q[k + 1] = p[k],
         \A i \in (1 .. n) \ {k, k + 1} : p[i] = q[i]
  PROVE  ~ (verhoeff_validate(p) /\ verhoeff_validate(q))
<1>1. PICK c : IsRun(c, p, n) /\ (verhoeff_validate(p) <=> c[n] = 0)
  BY ChecksumRuns
<1>2. PICK d : IsRun(d, q, n) /\ (verhoeff_validate(q) <=> d[n] = 0)
  BY ChecksumRuns
<1> DEFINE j == n - k
           r == (j - 1) % 8
           x == p[k + 1]
           y == p[k]
<1>3. /\ j \in 1 .. n /\ j + 1 \in 1 .. n /\ j - 1 \in 0 .. n /\ j + 1 \in 0 .. n
      /\ n + 1 - j = k + 1 /\ n + 1 - (j + 1) = k /\ (j + 1) - 1 = j
  OBVIOUS
<1>4. \A i \in 1 .. n : i # j /\ i # j + 1 => FromRight(p, n, i) = FromRight(q, n, i)
  <2> SUFFICES ASSUME NEW i \in 1 .. n, i # j, i # j + 1 PROVE p[n + 1 - i] = q[n + 1 - i]
    BY DEF FromRight
  <2>1. n + 1 - i \in (1 .. n) \ {k, k + 1}
    OBVIOUS
  <2> QED
    BY <2>1
<1>5. /\ FromRight(p, n, j) = x /\ FromRight(q, n, j) = y
      /\ FromRight(p, n, j + 1) = y /\ FromRight(q, n, j + 1) = x
  BY <1>3 DEF FromRight
<1>6. x \in Digits /\ y \in Digits /\ x # y
  <2>1. k \in 1 .. n /\ k + 1 \in 1 .. n
    OBVIOUS
  <2> QED
    BY <2>1
<1>7. j \in Nat \ {0} /\ j - 1 \in Nat
  BY <1>3
<1> HIDE DEF j, x, y
<1>8. r \in 0 .. 7 /\ j % 8 = (r + 1) % 8 /\ (r + 1) % 8 \in 0 .. 7
  BY <1>7
<1>9. c[j - 1] = d[j - 1] /\ c[j - 1] \in Digits
  <2>1. \A i \in 1 .. j - 1 : FromRight(p, n, i) = FromRight(q, n, i)
    BY <1>3, <1>4
  <2>2. c[j - 1] = d[j - 1]
    BY <1>1, <1>2, <1>3, <2>1, RunsAgree
  <2> QED
    BY <1>1, <1>3, <2>2 DEF IsRun
<1> DEFINE s == c[j - 1]
           u == (r + 1) % 8
<1>10. /\ c[j] = Times(s, Permuted(r, x)) /\ d[j] = Times(s, Permuted(r, y))
       /\ c[j + 1] = Times(c[j], Permuted(u, y)) /\ d[j + 1] = Times(d[j], Permuted(u, x))
  <2>1. /\ c[j] = After(c[j - 1], p, n, j) /\ d[j] = After(d[j - 1], q, n, j)
        /\ c[j + 1] = After(c[(j + 1) - 1], p, n, j + 1)
        /\ d[j + 1] = After(d[(j + 1) - 1], q, n, j + 1)
    BY <1>1, <1>2, <1>3 DEF IsRun
  <2>2. ((j + 1) - 1) % 8 = u
    BY <1>3, <1>8
  <2> QED
    BY <1>3, <1>5, <1>9, <2>1, <2>2 DEF After
<1>11. s \in Digits /\ r \in 0 .. 7 /\ u = (r + 1) % 8 /\ u \in 0 .. 7
  BY <1>8, <1>9
<1> HIDE DEF r, s, u
<1>12. /\ Permuted(r, x) \in Digits /\ Permuted(r, y) \in Digits
       /\ Permuted(u, x) \in Digits /\ Permuted(u, y) \in Digits
  BY <1>6, <1>11, PermutedType
<1>13. /\ c[j + 1] = Times(s, Times(Permuted(r, x), Permuted(u, y)))
       /\ d[j + 1] = Times(s, Times(Permuted(r, y), Permuted(u, x)))
  BY <1>10, <1>11, <1>12, TimesAssociative
<1>14. Times(Permuted(r, x), Permuted(u, y)) # Times(Permuted(r, y), Permuted(u, x))
  BY <1>6, <1>11, NeighboursDiffer
<1>15. c[j + 1] # d[j + 1]
  BY <1>11, <1>12, <1>13, <1>14, TimesType, TimesCancels
<1>16. c[n] # d[n]
  <2>1. \A i \in (j + 1) + 1 .. n : FromRight(p, n, i) = FromRight(q, n, i)
    BY <1>3, <1>4
  <2> QED
    BY <1>1, <1>2, <1>3, <1>15, <2>1, RunsStayApart
<1> QED
  BY <1>1, <1>2, <1>16
=============================================================================
