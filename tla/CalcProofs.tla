------------------------------ MODULE CalcProofs ------------------------------
(***************************************************************************)
(* The quoting engine for every plan, price and CAC value the tables may   *)
(* hold, the verdict on a polygon of any number of vertices, and the       *)
(* partitions of the events table over any number of years and runs.  A    *)
(* sum over a schedule or over the edges of a polygon is a fold: what it   *)
(* amounts to is shown from a smallest counterexample, which the order of  *)
(* the naturals and of the subsets of a finite set provides.               *)
(***************************************************************************)
EXTENDS MCCalc, Functions, FiniteSetTheorems, SequenceTheorems, TLAPS

-----------------------------------------------------------------------------
(* Sums over a finite domain.                                               *)

\* A set of naturals has a least element.
LEMMA NatLeast ==
    ASSUME NEW T, T \subseteq Nat, T # {}
    PROVE  \E x \in T : \A y \in T : x <= y
<1>1. PICK x \in T : \A y \in T : ~(<<y, x>> \in OpToRel(<,Nat))
    BY NatLessThanWellFounded, WFMin
<1>2. \A y \in T : ~(y < x) BY <1>1 DEF OpToRel
<1>3. QED BY <1>2

\* A set of subsets of a finite set has a minimal one.
LEMMA SetLeast ==
    ASSUME NEW S, IsFiniteSet(S), NEW T, T \subseteq SUBSET S, T # {}
    PROVE  \E x \in T : \A y \in T : ~(y \subseteq x /\ y # x)
<1>1. T \subseteq FiniteSubsetsOf(S) BY FS_FiniteSubsetsOfFinite
<1>2. \E x \in T : \A y \in T : ~(<<y, x>> \in StrictSubsetOrdering(S))
    BY <1>1, FS_StrictSubsetOrderingWellFounded, WFMin
<1>3. QED BY <1>2, <1>1 DEF StrictSubsetOrdering, FiniteSubsetsOf

\* What QuoteEngine's Total folds.
Sum(f) == FoldFunction(+, 0, f)

\* The element the fold takes out of a set.
Some(s) == CHOOSE x \in s : TRUE

\* g[s] is the sum of f over s, one element after the other.
Adds(g, f, S) ==
    g = [s \in SUBSET S |-> IF s = {} THEN 0 ELSE f[Some(s)] + g[s \ {Some(s)}]]

\* A sum is such a function at the whole domain.
LEMMA SumUnfolds == \A f : Sum(f) = (CHOOSE g : Adds(g, f, DOMAIN f))[DOMAIN f]
  BY DEF Sum, FoldFunction, FoldFunctionOnSet, MapThenFoldSet, Adds, Some

\* One step of it.
LEMMA AddsStep ==
    ASSUME NEW g, NEW f, NEW S, Adds(g, f, S)
    PROVE  \A s \in SUBSET S :
               /\ s = {} => g[s] = 0
               /\ s # {} => Some(s) \in s /\ g[s] = f[Some(s)] + g[s \ {Some(s)}]
  BY DEF Adds, Some

\* The sum over a set depends on the values there and on nothing else.
LEMMA AddsOnly ==
    ASSUME NEW S, NEW T, NEW f, NEW e, NEW g, NEW h, Adds(g, f, S), Adds(h, e, T),
           NEW r, r \subseteq S, r \subseteq T, IsFiniteSet(r), \A x \in r : f[x] = e[x]
    PROVE  g[r] = h[r]
<1> DEFINE Differ == {s \in SUBSET r : g[s] # h[s]}
<1>1. SUFFICES ASSUME Differ # {} PROVE FALSE OBVIOUS
<1>2. PICK s \in Differ : \A t \in Differ : ~(t \subseteq s /\ t # s)
    <2>1. Differ \subseteq SUBSET r OBVIOUS
    <2> HIDE DEF Differ
    <2>2. QED BY <1>1, <2>1, SetLeast
<1>a. \A v \in SUBSET S :
          /\ v = {} => g[v] = 0
          /\ v # {} => Some(v) \in v /\ g[v] = f[Some(v)] + g[v \ {Some(v)}]
    BY AddsStep, SMTT(30)
<1>b. \A v \in SUBSET T :
          /\ v = {} => h[v] = 0
          /\ v # {} => Some(v) \in v /\ h[v] = e[Some(v)] + h[v \ {Some(v)}]
    BY AddsStep
<1>3. s \in SUBSET S /\ s \in SUBSET T /\ s \in SUBSET r /\ g[s] # h[s] OBVIOUS
<1>4. s # {} BY <1>3, <1>a, <1>b
<1>5. /\ Some(s) \in s /\ g[s] = f[Some(s)] + g[s \ {Some(s)}]
    BY <1>3, <1>4, <1>a
<1>6. h[s] = e[Some(s)] + h[s \ {Some(s)}]
    BY <1>3, <1>4, <1>b
<1>7. s \ {Some(s)} \notin Differ BY <1>2, <1>5
<1>8. g[s \ {Some(s)}] = h[s \ {Some(s)}] BY <1>3, <1>7
<1>9. QED BY <1>3, <1>5, <1>6, <1>8

\* Over a finite set there is such a sum.
LEMMA AddsExists ==
    ASSUME NEW S, IsFiniteSet(S), NEW f
    PROVE  \E g : Adds(g, f, S)
<1> DEFINE Bad == {T \in SUBSET S : ~\E g : Adds(g, f, T)}
<1>1. SUFFICES ASSUME Bad # {} PROVE FALSE OBVIOUS
<1>2. PICK T \in Bad : \A t \in Bad : ~(t \subseteq T /\ t # T)
    <2>1. Bad \subseteq SUBSET S OBVIOUS
    <2> HIDE DEF Bad
    <2>2. QED BY <1>1, <2>1, SetLeast
<1> DEFINE piece(s) == (CHOOSE g : Adds(g, f, s))[s]
           g == [s \in SUBSET T |->
                    IF s = {} THEN 0
                    ELSE IF s = T THEN f[Some(s)] + piece(s \ {Some(s)}) ELSE piece(s)]
<1>3. \A s \in SUBSET T : s # T => \E h : Adds(h, f, s) BY <1>2
<1>4. \A s \in SUBSET T : s # T => Adds(CHOOSE h : Adds(h, f, s), f, s) BY <1>3
<1>5. ASSUME NEW s \in SUBSET T, s # {}
      PROVE  g[s] = f[Some(s)] + g[s \ {Some(s)}]
    <2> DEFINE t == s \ {Some(s)}
    <2>1. Some(s) \in s BY <1>5 DEF Some
    <2>2. t \in SUBSET T /\ t # T /\ t \subseteq s /\ IsFiniteSet(t)
        BY <2>1, FS_Subset
    <2>3. g[t] = piece(t)
        <3>1. CASE t = {}
            <4>1. Adds(CHOOSE h : Adds(h, f, t), f, t) BY <1>4, <2>2
            <4>2. piece(t) = 0 BY <3>1, <4>1, AddsStep
            <4>3. QED BY <2>2, <3>1, <4>2
        <3>2. CASE t # {} BY <2>2, <3>2
        <3>3. QED BY <3>1, <3>2
    <2>4. CASE s = T BY <1>5, <2>3, <2>4
    <2>5. CASE s # T
        <3>1. Adds(CHOOSE h : Adds(h, f, s), f, s) BY <1>4, <2>5
        <3>2. Adds(CHOOSE h : Adds(h, f, t), f, t) BY <1>4, <2>2
        <3>3. piece(s) = f[Some(s)] + (CHOOSE h : Adds(h, f, s))[t]
            BY <1>5, <3>1, AddsStep
        <3>4. (CHOOSE h : Adds(h, f, s))[t] = piece(t)
            BY <2>2, <3>1, <3>2, AddsOnly
        <3>5. g[s] = piece(s) BY <1>5, <2>5
        <3>6. QED BY <2>3, <3>3, <3>4, <3>5
    <2>6. QED BY <2>4, <2>5
<1>6. g[{}] = 0 OBVIOUS
<1>7. DOMAIN g = SUBSET T /\ g = [s \in SUBSET T |-> g[s]] OBVIOUS
<1> HIDE DEF g
<1>8. g = [s \in SUBSET T |-> IF s = {} THEN 0 ELSE f[Some(s)] + g[s \ {Some(s)}]]
    BY <1>5, <1>6, <1>7
<1>9. Adds(g, f, T) BY <1>8 DEF Adds
<1>10. QED BY <1>2, <1>9

\* So the sum over a finite domain is one.
LEMMA SumAdds ==
    ASSUME NEW f, IsFiniteSet(DOMAIN f)
    PROVE  \E g : Adds(g, f, DOMAIN f) /\ Sum(f) = g[DOMAIN f]
<1>1. \E g : Adds(g, f, DOMAIN f) BY AddsExists
<1>2. Adds(CHOOSE g : Adds(g, f, DOMAIN f), f, DOMAIN f) BY <1>1
<1>3. QED BY <1>2, SumUnfolds

\* Any element may be taken first.
LEMMA AddsAny ==
    ASSUME NEW S, IsFiniteSet(S), NEW f, \A x \in S : f[x] \in Int, NEW g, Adds(g, f, S)
    PROVE  \A s \in SUBSET S : g[s] \in Int /\ \A x \in s : g[s] = f[x] + g[s \ {x}]
<1> DEFINE Good(s) == g[s] \in Int /\ \A x \in s : g[s] = f[x] + g[s \ {x}]
           Bad == {s \in SUBSET S : ~Good(s)}
<1>1. SUFFICES ASSUME Bad # {} PROVE FALSE OBVIOUS
<1>2. PICK s \in Bad : \A t \in Bad : ~(t \subseteq s /\ t # s)
    <2>1. Bad \subseteq SUBSET S OBVIOUS
    <2> HIDE DEF Bad
    <2>2. QED BY <1>1, <2>1, SetLeast
<1>a. \A v \in SUBSET S :
          /\ v = {} => g[v] = 0
          /\ v # {} => Some(v) \in v /\ g[v] = f[Some(v)] + g[v \ {Some(v)}]
    BY AddsStep
<1>3. s \in SUBSET S /\ ~Good(s) OBVIOUS
<1>4. \A t \in SUBSET s : t # s => Good(t) BY <1>2
<1>5. s # {}
    <2>1. g[{}] = 0 BY <1>a
    <2>2. Good({}) BY <2>1
    <2>3. QED BY <1>3, <2>2
<1> DEFINE c == Some(s)
<1>6. c \in s /\ g[s] = f[c] + g[s \ {c}] BY <1>3, <1>5, <1>a
<1>7. Good(s \ {c}) BY <1>4, <1>6
<1>8. g[s] \in Int
    <2>1. f[c] \in Int /\ g[s \ {c}] \in Int BY <1>3, <1>6, <1>7
    <2> HIDE DEF c
    <2>2. QED BY <1>6, <2>1
<1>9. ASSUME NEW x \in s PROVE g[s] = f[x] + g[s \ {x}]
    <2>1. CASE x = c BY <1>6, <2>1
    <2>2. CASE x # c
        <3>1. Good(s \ {x}) /\ c \in s \ {x} /\ x \in s \ {c} BY <1>4, <1>6, <2>2
        <3>2. g[s \ {c}] = f[x] + g[(s \ {c}) \ {x}] BY <1>7, <3>1
        <3>3. g[s \ {x}] = f[c] + g[(s \ {x}) \ {c}] BY <3>1
        <3>4. (s \ {c}) \ {x} = (s \ {x}) \ {c} OBVIOUS
        <3>5. Good((s \ {x}) \ {c}) BY <1>4, <3>1
        <3>6. f[x] \in Int /\ f[c] \in Int BY <1>3, <1>6
        <3> DEFINE d == g[(s \ {c}) \ {x}]
        <3>7. d \in Int BY <3>4, <3>5
        <3>8. g[s \ {c}] = f[x] + d /\ g[s \ {x}] = f[c] + d BY <3>2, <3>3, <3>4
        <3> HIDE DEF d
        <3>9. QED BY <1>6, <3>6, <3>7, <3>8
    <2>3. QED BY <2>1, <2>2
<1>10. QED BY <1>3, <1>8, <1>9

\* The sum of nothing is zero; of anything else, an element and the rest.
LEMMA SumNone ==
    ASSUME NEW f, DOMAIN f = {}
    PROVE  Sum(f) = 0
<1>1. IsFiniteSet(DOMAIN f) BY FS_EmptySet
<1>2. PICK g : Adds(g, f, DOMAIN f) /\ Sum(f) = g[DOMAIN f] BY <1>1, SumAdds
<1>3. QED BY <1>2, AddsStep

LEMMA SumSplits ==
    ASSUME NEW S, IsFiniteSet(S), NEW f \in [S -> Int]
    PROVE  /\ Sum(f) \in Int
           /\ \A x \in S : /\ Sum([s \in S \ {x} |-> f[s]]) \in Int
                           /\ Sum(f) = f[x] + Sum([s \in S \ {x} |-> f[s]])
<1>1. DOMAIN f = S /\ \A x \in S : f[x] \in Int OBVIOUS
<1>2. PICK g : Adds(g, f, S) /\ Sum(f) = g[S] BY <1>1, SumAdds
<1>3. S \in SUBSET S OBVIOUS
<1>4. \A s \in SUBSET S : g[s] \in Int /\ \A x \in s : g[s] = f[x] + g[s \ {x}]
    BY <1>1, <1>2, AddsAny
<1>5. ASSUME NEW x \in S
      PROVE  Sum([s \in S \ {x} |-> f[s]]) = g[S \ {x}]
    <2> DEFINE e == [s \in S \ {x} |-> f[s]]
    <2>1. DOMAIN e = S \ {x} /\ \A y \in S \ {x} : f[y] = e[y] OBVIOUS
    <2>2. IsFiniteSet(S \ {x}) BY FS_Subset
    <2> HIDE DEF e
    <2>3. PICK h : Adds(h, e, S \ {x}) /\ Sum(e) = h[S \ {x}] BY <2>1, <2>2, SumAdds
    <2>4. g[S \ {x}] = h[S \ {x}] BY <1>2, <2>1, <2>2, <2>3, AddsOnly
    <2>5. QED BY <2>3, <2>4 DEF e
<1>6. QED BY <1>2, <1>3, <1>4, <1>5

-----------------------------------------------------------------------------
(* Amounts.                                                                 *)

\* The quotient and the remainder of a division by an instalment count.
LEMMA DivMod ==
    ASSUME NEW a \in Nat, NEW n \in Nat \ {0}
    PROVE  /\ a \div n \in Nat
           /\ a - (a \div n) * n \in 0..(n - 1)
  BY SMT

\* allocateCuotas: n whole non-negative amounts, all of them the floor of an
\* even split but the last, which takes the remainder, less than one dollar
\* per instalment; together (n - 1 equal ones and the last) they are the
\* balance, to the dollar.
THEOREM CuotasReconcile ==
    ASSUME NEW saldo \in Nat, NEW n \in Nat \ {0}
    PROVE  LET c == Engine!AllocateCuotas(saldo, n)
           IN /\ c \in [1..n -> Nat]
              /\ \A i \in 1..(n - 1) : c[i] = saldo \div n
              /\ c[n] - saldo \div n \in 0..(n - 1)
              /\ (n - 1) * (saldo \div n) + c[n] = saldo
<1> DEFINE base == saldo \div n
           resto == saldo - base * n
           c == Engine!AllocateCuotas(saldo, n)
<1>1. base \in Nat /\ resto \in 0..(n - 1) BY DivMod
<1>2. c = [i \in 1..n |-> IF i = n THEN base + resto ELSE base] BY DEF Engine!AllocateCuotas
<1> HIDE DEF base, resto, c
<1>3. n \in 1..n /\ \A i \in 1..(n - 1) : i \in 1..n /\ i # n OBVIOUS
<1>4. c \in [1..n -> Nat] BY <1>1, <1>2
<1>5. c[n] = base + resto BY <1>2, <1>3
<1>6. \A i \in 1..(n - 1) : c[i] = base BY <1>2, <1>3
<1>7. c[n] - base \in 0..(n - 1) BY <1>1, <1>5
<1>8. (n - 1) * base + c[n] = saldo
    <2>1. (n - 1) * base = n * base - base BY <1>1
    <2>2. base * n = n * base /\ n * base \in Nat BY <1>1
    <2>3. resto = saldo - n * base BY <2>2 DEF resto
    <2>4. QED BY <1>1, <1>5, <2>1, <2>2, <2>3
<1>9. QED BY <1>4, <1>6, <1>7, <1>8 DEF base, c

\* roundHalfUpUsd: the anticipo is the nearest dollar, a half going up, and
\* for a percentage up to 100 it never exceeds the price, so that the balance
\* only the refuerzos can turn negative.
THEOREM AnticipoIsNearest ==
    ASSUME NEW precio \in Nat, NEW pct \in Nat, pct <= 10000, NEW a, a = Engine!RoundHalfUpUsd(precio, pct)
    PROVE  /\ a \in 0..precio
           /\ 20000 * a <= 2 * precio * pct + 10000
           /\ 2 * precio * pct < 20000 * a + 10000
<1> DEFINE x == precio * pct
           y == 2 * precio * pct
<1>1. x \in Nat /\ x <= 10000 * precio OBVIOUS
<1>2. y = 2 * x OBVIOUS
<1>3. a = (y + 10000) \div 20000 BY DEF Engine!RoundHalfUpUsd
<1> HIDE DEF x, y
<1>4. a \in Int /\ 20000 * a <= y + 10000 /\ y + 10000 < 20000 * a + 20000
    BY <1>1, <1>2, <1>3
<1>5. y < 20000 * a + 10000 BY <1>1, <1>2, <1>4
<1>6. a \in 0..precio BY <1>1, <1>2, <1>4
<1>7. QED BY <1>4, <1>5, <1>6 DEF y

-----------------------------------------------------------------------------
\* The two folds are one.
LEMMA TotalIsSum == \A f : Engine!Total(f) = Sum(f)
  BY DEF Engine!Total, Sum, Engine!FoldFunction, Engine!FoldFunctionOnSet, Engine!MapThenFoldSet,
         FoldFunction, FoldFunctionOnSet, MapThenFoldSet

\* A sum over 1..n is the last element and the sum of the others.
LEMMA SumLast ==
    ASSUME NEW n \in Nat, NEW f \in [1..n -> Int]
    PROVE  /\ Sum(f) \in Int
           /\ n = 0 => Sum(f) = 0
           /\ n # 0 => Sum(f) = f[n] + Sum([i \in 1..(n - 1) |-> f[i]])
<1>1. IsFiniteSet(1..n) BY FS_Interval
<1>2. Sum(f) \in Int BY <1>1, SumSplits
<1>3. ASSUME n = 0 PROVE Sum(f) = 0
    <2>1. DOMAIN f = {} BY <1>3
    <2>2. QED BY <2>1, SumNone
<1>4. ASSUME n # 0 PROVE Sum(f) = f[n] + Sum([i \in 1..(n - 1) |-> f[i]])
    <2>1. n \in 1..n /\ (1..n) \ {n} = 1..(n - 1) BY <1>4
    <2> DEFINE S == 1..n
    <2>2. f \in [S -> Int] /\ IsFiniteSet(S) /\ n \in S BY <1>1, <2>1
    <2> HIDE DEF S
    <2>3. Sum(f) = f[n] + Sum([i \in S \ {n} |-> f[i]]) BY <2>2, SumSplits, ZenonT(60)
    <2>4. S \ {n} = 1..(n - 1) BY <2>1 DEF S
    <2>5. QED BY <2>3, <2>4
<1>5. QED BY <1>2, <1>3, <1>4

\* The sum of n equal amounts.
LEMMA SumOfEqual ==
    ASSUME NEW a \in Int
    PROVE  \A n \in Nat : Sum([i \in 1..n |-> a]) = n * a
<1> DEFINE f(n) == [i \in 1..n |-> a]
           Bad == {n \in Nat : Sum(f(n)) # n * a}
<1>1. SUFFICES ASSUME Bad # {} PROVE FALSE OBVIOUS
<1>2. PICK n \in Bad : \A m \in Bad : n <= m
    <2>1. Bad \subseteq Nat OBVIOUS
    <2> HIDE DEF Bad
    <2>2. QED BY <1>1, <2>1, NatLeast
<1>3. n \in Nat /\ f(n) \in [1..n -> Int] OBVIOUS
<1>4. n # 0
    <2>1. ASSUME n = 0 PROVE Sum(f(n)) = n * a
        <3>1. Sum(f(n)) = 0 BY <1>3, <2>1, SumLast
        <3>2. QED BY <2>1, <3>1
    <2>2. QED BY <2>1
<1>5. n - 1 \in Nat /\ n - 1 \notin Bad BY <1>2, <1>4
<1>6. Sum(f(n - 1)) = (n - 1) * a BY <1>5
<1>7. Sum(f(n)) = f(n)[n] + Sum([i \in 1..(n - 1) |-> f(n)[i]])
    <2> DEFINE e == f(n)
    <2>1. e \in [1..n -> Int] BY <1>3
    <2> HIDE DEF e
    <2>2. Sum(e) = e[n] + Sum([i \in 1..(n - 1) |-> e[i]]) BY <1>3, <1>4, <2>1, SumLast
    <2>3. QED BY <2>2 DEF e
<1>8. [i \in 1..(n - 1) |-> f(n)[i]] = f(n - 1) /\ f(n)[n] = a BY <1>3, <1>4
<1>9. Sum(f(n)) = a + (n - 1) * a
    <2> HIDE DEF f
    <2>1. QED BY <1>6, <1>7, <1>8
<1>10. a + (n - 1) * a = n * a BY <1>3
<1>11. Sum(f(n)) # n * a OBVIOUS
<1>12. QED
    <2> HIDE DEF f
    <2>1. QED BY <1>9, <1>10, <1>11

\* What is added up of amounts that are each off by at most d is off by at
\* most d for each of them.
LEMMA SumDrifts ==
    ASSUME NEW k \in Int
    PROVE  \A n \in Nat : \A f, g \in [1..n -> Int] :
               (\A i \in 1..n : 100 * f[i] - g[i] * k \in (-50)..50)
                   => 100 * Sum(f) - Sum(g) * k \in (-50 * n)..(50 * n)
<1> DEFINE Off(n, f, g) == 100 * Sum(f) - Sum(g) * k \in (-50 * n)..(50 * n)
           Close(n, f, g) == \A i \in 1..n : 100 * f[i] - g[i] * k \in (-50)..50
           Bad == {n \in Nat : \E f, g \in [1..n -> Int] : Close(n, f, g) /\ ~Off(n, f, g)}
<1>1. SUFFICES ASSUME Bad # {} PROVE FALSE OBVIOUS
<1>2. PICK n \in Bad : \A m \in Bad : n <= m
    <2>1. Bad \subseteq Nat OBVIOUS
    <2> HIDE DEF Bad
    <2>2. QED BY <1>1, <2>1, NatLeast
<1>3. n \in Nat OBVIOUS
<1>4. PICK f \in [1..n -> Int], g \in [1..n -> Int] : Close(n, f, g) /\ ~Off(n, f, g) OBVIOUS
<1>5. Sum(f) \in Int /\ Sum(g) \in Int BY <1>3, SumLast
<1>6. n # 0
    <2>1. ASSUME n = 0 PROVE Off(n, f, g)
        <3>1. Sum(f) = 0 /\ Sum(g) = 0 BY <1>3, <2>1, SumLast
        <3>2. QED BY <2>1, <3>1
    <2>2. QED BY <1>4, <2>1
<1> DEFINE e == [i \in 1..(n - 1) |-> f[i]]
           h == [i \in 1..(n - 1) |-> g[i]]
<1>7. n - 1 \in Nat /\ n - 1 \notin Bad
    <2>1. n - 1 \in Nat /\ ~(n <= n - 1) BY <1>3, <1>6
    <2> HIDE DEF Bad
    <2>2. QED BY <1>2, <2>1
<1>8. e \in [1..(n - 1) -> Int] /\ h \in [1..(n - 1) -> Int] /\ Close(n - 1, e, h)
    BY <1>3, <1>4, <1>6
<1>9. Off(n - 1, e, h)
    <2> HIDE DEF e, h, Off, Close
    <2>1. QED BY <1>7, <1>8
<1>10. Sum(f) = f[n] + Sum(e) BY <1>3, <1>6, SumLast
<1>11. Sum(g) = g[n] + Sum(h) BY <1>3, <1>6, SumLast
<1>12. f[n] \in Int /\ g[n] \in Int /\ 100 * f[n] - g[n] * k \in (-50)..50
    BY <1>3, <1>4, <1>6
<1>13. 100 * Sum(e) - Sum(h) * k \in (-50 * (n - 1))..(50 * (n - 1)) BY <1>9
<1>14. Sum(e) \in Int /\ Sum(h) \in Int
    <2> HIDE DEF e, h
    <2>1. QED BY <1>7, <1>8, SumLast
<1>15. ASSUME NEW s \in Int, NEW t \in Int, NEW x \in Int, NEW y \in Int,
              100 * x - y * k \in (-50)..50,
              100 * s - t * k \in (-50 * (n - 1))..(50 * (n - 1))
       PROVE  100 * (x + s) - (y + t) * k \in (-50 * n)..(50 * n)
    <2>1. (y + t) * k = y * k + t * k OBVIOUS
    <2>2. y * k \in Int /\ t * k \in Int OBVIOUS
    <2> DEFINE p == y * k
               q == t * k
    <2> HIDE DEF p, q
    <2>3. p \in Int /\ q \in Int /\ (y + t) * k = p + q BY <2>1, <2>2 DEF p, q
    <2>4. 100 * x - p \in (-50)..50 /\ 100 * s - q \in (-50 * (n - 1))..(50 * (n - 1))
        BY <1>15 DEF p, q
    <2>5. 100 * (x + s) - (p + q) \in (-50 * n)..(50 * n)
        <3>1. -50 <= 100 * x - p /\ 100 * x - p <= 50
            <4> DEFINE d == 100 * x - p
            <4>1. d \in (-50)..50 BY <2>4
            <4> HIDE DEF d
            <4>2. -50 <= d /\ d <= 50 BY <4>1
            <4>3. QED BY <4>2 DEF d
        <3>2. -50 * (n - 1) <= 100 * s - q /\ 100 * s - q <= 50 * (n - 1) BY <2>4
        <3>3. 100 * (x + s) - (p + q) = (100 * x - p) + (100 * s - q) BY <1>15, <2>3
        <3>4. -50 * n = -50 + -50 * (n - 1) /\ 50 * n = 50 + 50 * (n - 1) BY <1>3
        <3> DEFINE u == 100 * x - p
                   v == 100 * s - q
                   l == -50 * (n - 1)
                   m == 50 * (n - 1)
        <3>5. u \in Int /\ v \in Int /\ l \in Int /\ m \in Int BY <1>3, <1>15, <2>3
        <3> HIDE DEF u, v, l, m
        <3>6. -50 <= u /\ u <= 50 /\ l <= v /\ v <= m BY <3>1, <3>2 DEF u, v, l, m
        <3>7. u + v \in (-50 + l)..(50 + m) BY <3>5, <3>6
        <3>8. QED BY <3>3, <3>4, <3>7 DEF u, v, l, m
    <2>6. QED BY <2>3, <2>5
<1>16. 100 * (f[n] + Sum(e)) - (g[n] + Sum(h)) * k \in (-50 * n)..(50 * n)
    <2> HIDE DEF e, h
    <2>1. QED BY <1>12, <1>13, <1>14, <1>15
<1>17. Off(n, f, g)
    <2> HIDE DEF e, h
    <2>1. QED BY <1>10, <1>11, <1>16
<1>18. QED BY <1>4, <1>17

\* The instalments add up to the balance.
LEMMA SumOfCuotas ==
    ASSUME NEW saldo \in Nat, NEW n \in Nat \ {0}
    PROVE  Sum(Engine!AllocateCuotas(saldo, n)) = saldo
<1> DEFINE c == Engine!AllocateCuotas(saldo, n)
           a == saldo \div n
<1>1. /\ c \in [1..n -> Nat] /\ \A i \in 1..(n - 1) : c[i] = a
      /\ (n - 1) * a + c[n] = saldo
    BY CuotasReconcile
<1>2. a \in Nat BY DivMod
<1> HIDE DEF a, c
<1>3. c \in [1..n -> Int] /\ n - 1 \in Nat /\ c[n] \in Int BY <1>1
<1>4. Sum(c) = c[n] + Sum([i \in 1..(n - 1) |-> c[i]]) BY <1>3, SumLast
<1>5. [i \in 1..(n - 1) |-> c[i]] = [i \in 1..(n - 1) |-> a] BY <1>1
<1>6. Sum([i \in 1..(n - 1) |-> a]) = (n - 1) * a BY <1>2, <1>3, SumOfEqual
<1>7. (n - 1) * a \in Int BY <1>2, <1>3
<1>8. Sum(c) = saldo BY <1>1, <1>3, <1>4, <1>5, <1>6, <1>7
<1>9. QED BY <1>8 DEF c

-----------------------------------------------------------------------------
(* What the engine answers.                                                 *)

\* What the three tables hold.
LEMMA EngineFacts ==
    /\ Precios \subseteq Nat /\ Cacs \subseteq Nat
    /\ \A p \in Plans : /\ p.anticipoPct \in Int /\ p.cuotas \in Int
                        /\ p.ajuste \in {"CAC", "fijo"}
                        /\ p.refuerzos \in Seq([cuota: Int, montoUsd: Int])
  BY CalcAssumption DEF Engine!EngineAssumption

\* A missing row is answered before calcQuote is called.
LEMMA IncompleteAnswer ==
    ASSUME NEW r \in Engine!Requests, NEW a \in Engine!ResolveAndQuote(r), Engine!Incomplete(r)
    PROVE  a = Engine!Refusal("PRECONDITION_FAILED")
<1>1. r.plan = {} \/ r.contado = {} \/ r.financiado = {} \/ Engine!CacMissing(r)
    BY DEF Engine!Incomplete, Engine!CacMissing
<1>2. QED BY <1>1 DEF Engine!ResolveAndQuote

\* Otherwise the answer comes from the one plan, the two prices and, for a
\* plan that needs it, the one CAC value.
LEMMA CompleteAnswer ==
    ASSUME NEW r \in Engine!Requests, NEW a \in Engine!ResolveAndQuote(r), ~Engine!Incomplete(r)
    PROVE  \E p \in Plans, c \in Precios, precio \in Precios :
               /\ r.plan = {p} /\ r.contado = {c} /\ r.financiado = {precio}
               /\ r.modalidad = "contado" => a = [kind |-> "contado", precioUsd |-> c]
               /\ r.modalidad = "financiado" =>
                      /\ a = Engine!Financiado(precio, p, r.cac)
                      /\ p.ajuste = "CAC" => \E v \in Cacs : r.cac = {v}
<1>1. /\ r.modalidad \in {"contado", "financiado"} /\ r.plan \in Engine!AtMostOne(Plans)
      /\ r.contado \in Engine!AtMostOne(Precios) /\ r.financiado \in Engine!AtMostOne(Precios)
      /\ r.cac \in Engine!AtMostOne(Cacs)
    BY DEF Engine!Requests
<1>2. ~(r.plan = {} \/ r.contado = {} \/ r.financiado = {} \/ Engine!CacMissing(r))
    BY DEF Engine!Incomplete, Engine!CacMissing
<1>3. PICK p \in Plans : r.plan = {p} BY <1>1, <1>2 DEF Engine!AtMostOne
<1>4. PICK precio \in Precios : r.financiado = {precio} BY <1>1, <1>2 DEF Engine!AtMostOne
<1>5. PICK c \in Precios : r.contado = {c} BY <1>1, <1>2 DEF Engine!AtMostOne
<1>6. a \in Engine!CalcQuote(r.modalidad, c, precio, r.plan, r.cac)
    BY <1>2, <1>4, <1>5 DEF Engine!ResolveAndQuote
<1>7. r.modalidad = "contado" => a = [kind |-> "contado", precioUsd |-> c]
    BY <1>6 DEF Engine!CalcQuote
<1>8. r.modalidad = "financiado" => a = Engine!Financiado(precio, p, r.cac)
    BY <1>3, <1>6 DEF Engine!CalcQuote
<1>9. r.modalidad = "financiado" /\ p.ajuste = "CAC" => \E v \in Cacs : r.cac = {v}
    BY <1>1, <1>2, <1>3 DEF Engine!CacMissing, Engine!AtMostOne
<1>10. QED BY <1>3, <1>4, <1>5, <1>7, <1>8, <1>9

\* A schedule is an answer of calcQuote to a request for one.
LEMMA FinancedAnswer ==
    ASSUME NEW r \in Engine!Requests, NEW a \in Engine!ResolveAndQuote(r), a.kind = "financiado"
    PROVE  \E p \in Plans, precio \in Precios :
               /\ r.plan = {p} /\ r.financiado = {precio}
               /\ a = Engine!Financiado(precio, p, r.cac)
               /\ p.ajuste = "CAC" => \E v \in Cacs : r.cac = {v}
<1>1. ~Engine!Incomplete(r)
    <2>1. a # Engine!Refusal("PRECONDITION_FAILED") BY DEF Engine!Refusal
    <2>2. QED BY <2>1, IncompleteAnswer
<1>2. PICK p \in Plans, c \in Precios, precio \in Precios :
               /\ r.plan = {p} /\ r.contado = {c} /\ r.financiado = {precio}
               /\ r.modalidad = "contado" => a = [kind |-> "contado", precioUsd |-> c]
               /\ r.modalidad = "financiado" =>
                      /\ a = Engine!Financiado(precio, p, r.cac)
                      /\ p.ajuste = "CAC" => \E v \in Cacs : r.cac = {v}
    BY <1>1, CompleteAnswer
<1>3. r.modalidad = "financiado"
    <2>1. r.modalidad \in {"contado", "financiado"} BY DEF Engine!Requests
    <2>2. a # [kind |-> "contado", precioUsd |-> c] OBVIOUS
    <2>3. QED BY <1>2, <2>1, <2>2
<1>4. QED BY <1>2, <1>3

\* The refuerzos add up to a whole number of dollars.
LEMMA RefuerzosType ==
    ASSUME NEW p \in Plans
    PROVE  /\ Engine!RefuerzosTotal(p) \in Int
           /\ \E k \in Nat : DOMAIN p.refuerzos = 1..k
           /\ \A i \in DOMAIN p.refuerzos : p.refuerzos[i] \in [cuota: Int, montoUsd: Int]
<1> DEFINE k == Len(p.refuerzos)
<1>1. k \in Nat /\ p.refuerzos \in [1..k -> [cuota: Int, montoUsd: Int]]
    <2> DEFINE s == p.refuerzos
               R == [cuota: Int, montoUsd: Int]
    <2>1. s \in Seq(R) BY EngineFacts
    <2> HIDE DEF s, R
    <2>2. Len(s) \in Nat /\ s \in [1..Len(s) -> R] BY <2>1
    <2>3. QED BY <2>2 DEF s, R
<1> DEFINE f == [i \in DOMAIN p.refuerzos |-> p.refuerzos[i].montoUsd]
           S == DOMAIN p.refuerzos
<1>2. S = 1..k /\ \A i \in S : p.refuerzos[i] \in [cuota: Int, montoUsd: Int] BY <1>1
<1>3. f \in [S -> Int] BY <1>2
<1>4. IsFiniteSet(S) BY <1>2, FS_Interval
<1>5. Engine!RefuerzosTotal(p) = Sum(f) BY TotalIsSum DEF Engine!RefuerzosTotal
<1> HIDE DEF f, S
<1>6. Sum(f) \in Int BY <1>3, <1>4, SumSplits
<1>7. QED BY <1>2, <1>5, <1>6 DEF S

\* The anticipo is a whole number of dollars whatever the percentage.
LEMMA AnticipoType ==
    ASSUME NEW precio \in Nat, NEW pct \in Int
    PROVE  Engine!RoundHalfUpUsd(precio, pct) \in Int
<1> DEFINE y == 2 * precio * pct
<1>1. y \in Int OBVIOUS
<1>2. Engine!RoundHalfUpUsd(precio, pct) = (y + 10000) \div 20000 BY DEF Engine!RoundHalfUpUsd
<1> HIDE DEF y
<1>3. QED BY <1>1, <1>2

\* The loop stops at no refuerzo exactly when their instalments are within the
\* plan and distinct.
LEMMA RefuerzosLoop ==
    ASSUME NEW p \in Plans
    PROVE  LET cuotas == [i \in DOMAIN p.refuerzos |-> p.refuerzos[i].cuota]
           IN /\ "REFUERZO_FUERA_DE_PLAZO" \in Engine!RefuerzosRefused(p)
                     => ~(Engine!Range(cuotas) \subseteq 1..p.cuotas)
              /\ "REFUERZO_DUPLICADO" \in Engine!RefuerzosRefused(p)
                     => ~Engine!IsInjective(cuotas)
              /\ Engine!RefuerzosRefused(p) \subseteq {"REFUERZO_FUERA_DE_PLAZO", "REFUERZO_DUPLICADO"}
              /\ Engine!RefuerzosRefused(p) = {}
                     => Engine!Range(cuotas) \subseteq 1..p.cuotas /\ Engine!IsInjective(cuotas)
<1> DEFINE cuotas == [i \in DOMAIN p.refuerzos |-> p.refuerzos[i].cuota]
           Faulty(i) == Engine!FueraDePlazo(p, i) \/ Engine!Duplicado(p, i)
           First == {i \in DOMAIN p.refuerzos :
                        Faulty(i) /\ \A j \in 1..(i - 1) : ~Engine!FueraDePlazo(p, j) /\ ~Engine!Duplicado(p, j)}
<1>1. PICK k \in Nat : DOMAIN p.refuerzos = 1..k BY RefuerzosType
<1>2. Engine!RefuerzosRefused(p)
        = {IF Engine!FueraDePlazo(p, i) THEN "REFUERZO_FUERA_DE_PLAZO" ELSE "REFUERZO_DUPLICADO" :
               i \in First}
    BY DEF Engine!RefuerzosRefused
<1>3. ASSUME NEW i \in 1..k, Engine!FueraDePlazo(p, i)
      PROVE ~(Engine!Range(cuotas) \subseteq 1..p.cuotas)
    <2>1. cuotas[i] \in Engine!Range(cuotas) /\ cuotas[i] \notin 1..p.cuotas
        BY <1>1, <1>3 DEF Engine!Range, Engine!FueraDePlazo
    <2>2. QED BY <2>1
<1>4. ASSUME NEW i \in 1..k, Engine!Duplicado(p, i)
      PROVE ~Engine!IsInjective(cuotas)
    <2>1. PICK j \in 1..(i - 1) : p.refuerzos[j].cuota = p.refuerzos[i].cuota
        BY <1>4 DEF Engine!Duplicado
    <2>2. j \in 1..k /\ j # i BY <1>1
    <2>3. cuotas[i] = cuotas[j] BY <1>1, <2>1, <2>2
    <2>4. QED BY <1>1, <2>2, <2>3 DEF Engine!IsInjective
<1>5. ASSUME NEW c \in Engine!RefuerzosRefused(p)
      PROVE  \E i \in 1..k : \/ c = "REFUERZO_FUERA_DE_PLAZO" /\ Engine!FueraDePlazo(p, i)
                             \/ c = "REFUERZO_DUPLICADO" /\ Engine!Duplicado(p, i)
    <2>1. PICK i \in First : c = IF Engine!FueraDePlazo(p, i) THEN "REFUERZO_FUERA_DE_PLAZO"
                                                               ELSE "REFUERZO_DUPLICADO"
        BY <1>2, <1>5
    <2>2. i \in 1..k /\ Faulty(i) BY <1>1, <2>1
    <2>3. QED BY <2>1, <2>2
<1>6. ASSUME Engine!RefuerzosRefused(p) = {} PROVE \A i \in 1..k : ~Faulty(i)
    <2> DEFINE T == {i \in 1..k : Faulty(i)}
    <2>1. SUFFICES ASSUME T # {} PROVE FALSE OBVIOUS
    <2>2. PICK i \in T : \A j \in T : i <= j
        <3>1. T \subseteq Nat OBVIOUS
        <3> HIDE DEF T
        <3>2. QED BY <2>1, <3>1, NatLeast
    <2>3. i \in 1..k /\ Faulty(i) OBVIOUS
    <2>4. ASSUME NEW j \in 1..(i - 1) PROVE ~Faulty(j)
        <3>1. j \in 1..k /\ ~(i <= j) BY <1>1, <2>3
        <3>2. j \notin T
            <4> HIDE DEF T
            <4>1. QED BY <2>2, <3>1
        <3>3. QED BY <3>1, <3>2
    <2>5. i \in First BY <1>1, <2>3, <2>4
    <2> HIDE DEF First
    <2>6. QED BY <1>2, <1>6, <2>5
<1>7. ASSUME \A i \in 1..k : ~Faulty(i)
      PROVE  Engine!Range(cuotas) \subseteq 1..p.cuotas /\ Engine!IsInjective(cuotas)
    <2>1. \A i \in 1..k : cuotas[i] \in 1..p.cuotas BY <1>1, <1>7 DEF Engine!FueraDePlazo
    <2>2. ASSUME NEW i \in 1..k, NEW j \in 1..k, i < j PROVE cuotas[i] # cuotas[j]
        <3>1. i \in 1..(j - 1) BY <2>2
        <3>2. QED BY <1>1, <1>7, <2>2, <3>1 DEF Engine!Duplicado
    <2>3. \A i, j \in 1..k : cuotas[i] = cuotas[j] => i = j BY <2>2
    <2>4. DOMAIN cuotas = 1..k BY <1>1
    <2> HIDE DEF cuotas
    <2>5. QED BY <2>1, <2>3, <2>4 DEF Engine!Range, Engine!IsInjective
<1>8. "REFUERZO_FUERA_DE_PLAZO" # "REFUERZO_DUPLICADO" OBVIOUS
<1> HIDE DEF Faulty, First
<1>9. QED BY <1>3, <1>4, <1>5, <1>6, <1>7, <1>8

\* A peso amount is within half a cent of the amount it converts.
LEMMA PesosClose ==
    ASSUME NEW c \in Int, NEW v \in Int
    PROVE  Engine!Decimal2(c, v) \in Int /\ 100 * Engine!Decimal2(c, v) - c * v \in (-50)..50
<1> DEFINE x == c * v
           y == 2 * c * v
           a == (y + 100) \div 200
<1>1. x \in Int /\ y = 2 * x OBVIOUS
<1>2. Engine!Decimal2(c, v) = a BY DEF Engine!Decimal2
<1> HIDE DEF x, y
<1>3. a \in Int /\ 200 * a <= y + 100 /\ y + 100 < 200 * a + 200 BY <1>1
<1> HIDE DEF a
<1>4. 100 * a - x \in (-50)..50 BY <1>1, <1>3
<1>5. QED BY <1>2, <1>3, <1>4 DEF x

\* What Financiado answers is a documented refusal or the schedule of a plan
\* that has none of the faults but, perhaps, a balance that is not positive.
LEMMA FinanciadoCases ==
    ASSUME NEW precio \in Precios, NEW p \in Plans, NEW cac,
           cac = {} => p.ajuste # "CAC",
           NEW a, a = Engine!Financiado(precio, p, cac)
    PROVE  \/ a = Engine!Refusal("ANTICIPO_PCT_FUERA_DE_RANGO") /\ (p.anticipoPct < 0 \/ p.anticipoPct > 10000)
           \/ a = Engine!Refusal("CUOTAS_INVALIDAS") /\ p.cuotas < 1
           \/ \E c \in Engine!RefuerzosRefused(p) : a = Engine!Refusal(c)
           \/ /\ 0 <= p.anticipoPct /\ p.anticipoPct <= 10000 /\ p.cuotas \in Nat \ {0}
              /\ Engine!RefuerzosRefused(p) = {} /\ a = Engine!Schedule(precio, p, cac)
<1> DEFINE pct == p.anticipoPct
           n == p.cuotas
           refused == Engine!RefuerzosRefused(p)
           noCac == p.ajuste = "CAC" /\ cac = {}
           code == CHOOSE c \in refused : TRUE
<1>1. pct \in Int /\ n \in Int BY EngineFacts
<1>2. a = IF pct < 0 \/ pct > 10000 THEN Engine!Refusal("ANTICIPO_PCT_FUERA_DE_RANGO")
          ELSE IF n < 1 THEN Engine!Refusal("CUOTAS_INVALIDAS")
          ELSE IF noCac THEN Engine!Refusal("CAC_REQUERIDO")
          ELSE IF refused # {} THEN Engine!Refusal(code)
          ELSE Engine!Schedule(precio, p, cac)
    BY DEF Engine!Financiado
<1>0. ~noCac OBVIOUS
<1> HIDE DEF pct, n, refused, noCac, code
<1>3. CASE pct < 0 \/ pct > 10000
    <2>1. a = Engine!Refusal("ANTICIPO_PCT_FUERA_DE_RANGO") BY <1>2, <1>3
    <2>2. QED BY <1>3, <2>1 DEF pct
<1>4. CASE ~(pct < 0 \/ pct > 10000)
    <2>1. 0 <= pct /\ pct <= 10000 BY <1>1, <1>4
    <2>2. CASE n < 1
        <3>1. a = Engine!Refusal("CUOTAS_INVALIDAS") BY <1>2, <1>4, <2>2
        <3>2. QED BY <2>2, <3>1 DEF n
    <2>3. CASE ~(n < 1) /\ refused # {}
        <3>1. a = Engine!Refusal(code) BY <1>0, <1>2, <1>4, <2>3
        <3>2. code \in refused BY <2>3 DEF code
        <3>3. QED BY <3>1, <3>2 DEF refused
    <2>4. CASE ~(n < 1) /\ refused = {}
        <3>1. a = Engine!Schedule(precio, p, cac) BY <1>0, <1>2, <1>4, <2>4
        <3>2. n \in Nat \ {0} BY <1>1, <2>4
        <3>3. QED BY <2>1, <2>4, <3>1, <3>2 DEF pct, n, refused
    <2>5. QED BY <2>2, <2>3, <2>4
<1>5. QED BY <1>3, <1>4

\* The schedule of a plan without those faults: a refusal when the balance is
\* not positive, the amounts otherwise.
LEMMA ScheduleCases ==
    ASSUME NEW precio \in Precios, NEW p \in Plans, NEW cac, NEW a, a = Engine!Schedule(precio, p, cac),
           NEW saldo, saldo = precio - Engine!RoundHalfUpUsd(precio, p.anticipoPct) - Engine!RefuerzosTotal(p)
    PROVE  /\ saldo \in Int
           /\ \/ saldo <= 0 /\ a = Engine!Refusal("SALDO_NO_POSITIVO")
              \/ /\ saldo > 0 /\ a.kind = "financiado" /\ a.precioUsd = precio
                 /\ a.anticipoUsd = Engine!RoundHalfUpUsd(precio, p.anticipoPct)
                 /\ a.refuerzosUsd = Engine!RefuerzosTotal(p) /\ a.saldoUsd = saldo
                 /\ a.cuotas = Engine!AllocateCuotas(saldo, p.cuotas)
                 /\ a.totalUsd = a.anticipoUsd + Engine!Total(a.cuotas) + a.refuerzosUsd
                 /\ p.ajuste = "CAC" => a.ars = [i \in DOMAIN a.cuotas |->
                        {Engine!Decimal2(a.cuotas[i], valor) : valor \in cac}]
<1> DEFINE anticipo == Engine!RoundHalfUpUsd(precio, p.anticipoPct)
           refuerzos == Engine!RefuerzosTotal(p)
           cuotas == Engine!AllocateCuotas(saldo, p.cuotas)
           cac1 == IF p.ajuste = "CAC" THEN cac ELSE {}
           ars == [i \in DOMAIN cuotas |-> {Engine!Decimal2(cuotas[i], valor) : valor \in cac1}]
           whole == [kind |-> "financiado", precioUsd |-> precio, anticipoUsd |-> anticipo,
                     saldoUsd |-> saldo, cuotas |-> cuotas, refuerzosUsd |-> refuerzos,
                     ars |-> ars, totalUsd |-> anticipo + Engine!Total(cuotas) + refuerzos]
<1>1. precio \in Nat /\ anticipo \in Int /\ refuerzos \in Int
    BY EngineFacts, AnticipoType, RefuerzosType
<1>2. saldo \in Int
    <2>1. saldo = precio - anticipo - refuerzos OBVIOUS
    <2> HIDE DEF anticipo, refuerzos
    <2>2. QED BY <1>1, <2>1
<1>3. a = IF saldo <= 0 THEN Engine!Refusal("SALDO_NO_POSITIVO") ELSE whole
    BY Zenon DEF Engine!Schedule
<1>4. p.ajuste = "CAC" => ars = [i \in DOMAIN cuotas |-> {Engine!Decimal2(cuotas[i], valor) : valor \in cac}]
    BY Zenon
<1> HIDE DEF anticipo, refuerzos, cuotas, ars
<1>5. /\ whole.kind = "financiado" /\ whole.precioUsd = precio /\ whole.anticipoUsd = anticipo
      /\ whole.saldoUsd = saldo /\ whole.cuotas = cuotas /\ whole.refuerzosUsd = refuerzos
      /\ whole.ars = ars /\ whole.totalUsd = anticipo + Engine!Total(cuotas) + refuerzos
    OBVIOUS
<1> HIDE DEF whole
<1>6. CASE saldo <= 0 BY <1>2, <1>3, <1>6
<1>7. CASE saldo > 0
    <2>1. ~(saldo <= 0) BY <1>2, <1>7
    <2>2. a = whole BY <1>3, <2>1
    <2>3. /\ a.kind = "financiado" /\ a.precioUsd = precio /\ a.anticipoUsd = anticipo
          /\ a.saldoUsd = saldo /\ a.cuotas = cuotas /\ a.refuerzosUsd = refuerzos
          /\ a.ars = ars /\ a.totalUsd = a.anticipoUsd + Engine!Total(a.cuotas) + a.refuerzosUsd
        BY <1>5, <2>2
    <2>4. p.ajuste = "CAC" => a.ars = [i \in DOMAIN a.cuotas |-> {Engine!Decimal2(a.cuotas[i], valor) : valor \in cac}]
        BY <1>4, <2>3
    <2>5. QED BY <1>2, <1>7, <2>3, <2>4 DEF anticipo, refuerzos, cuotas
<1>8. QED BY <1>2, <1>6, <1>7

\* The instalments are equal but for the last, which has the few dollars over.
LEMMA CuotasEven ==
    ASSUME NEW saldo \in Nat, NEW n \in Nat \ {0}, NEW c, c = Engine!AllocateCuotas(saldo, n)
    PROVE  /\ c \in [1..n -> Nat] /\ Engine!Total(c) = saldo
           /\ \A i \in 1..(n - 1) : c[i] = c[1]
           /\ c[n] - c[1] \in 0..(n - 1)
<1> DEFINE base == saldo \div n
<1>1. /\ c \in [1..n -> Nat] /\ \A i \in 1..(n - 1) : c[i] = base
      /\ c[n] - base \in 0..(n - 1)
    BY CuotasReconcile
<1>2. Engine!Total(c) = saldo BY SumOfCuotas, TotalIsSum
<1> HIDE DEF base
<1>3. CASE n = 1
    <2>1. c[n] \in Nat /\ c[n] - c[1] = 0 BY <1>1, <1>3
    <2>2. QED BY <1>1, <1>2, <1>3, <2>1
<1>4. CASE n # 1
    <2>1. 1 \in 1..(n - 1) BY <1>4
    <2>2. c[1] = base BY <1>1, <2>1
    <2>3. QED BY <1>1, <1>2, <2>2
<1>5. QED BY <1>3, <1>4

\* The pesos of the instalments drift from the balance by at most half a cent
\* for each.
LEMMA PesosDrift ==
    ASSUME NEW n \in Nat, NEW c \in [1..n -> Int], NEW v \in Int
    PROVE  100 * Engine!Total([i \in 1..n |-> Engine!Decimal2(c[i], v)]) - Engine!Total(c) * v
                \in (-50 * n)..(50 * n)
<1> DEFINE f == [i \in 1..n |-> Engine!Decimal2(c[i], v)]
<1>1. \A i \in 1..n : f[i] \in Int /\ 100 * f[i] - c[i] * v \in (-50)..50 BY PesosClose
<1>2. f \in [1..n -> Int] BY PesosClose
<1> HIDE DEF f
<1>3. 100 * Sum(f) - Sum(c) * v \in (-50 * n)..(50 * n) BY <1>1, <1>2, SumDrifts
<1>4. QED BY <1>3, TotalIsSum DEF f

-----------------------------------------------------------------------------
(* The two properties of a quote.                                           *)

\* The answer is one that resolveAndQuote gives for the request.
EngineInv ==
    part = "quote" =>
        /\ request \in Engine!Requests
        /\ answer \in {Engine!NoAnswer} \cup Engine!ResolveAndQuote(request)

\* The one step of quotes.compute keeps it, and the other two parts leave it.
LEMMA EngineInvHolds == CalcSpec => []EngineInv
<1>1. CalcInit => EngineInv BY DEF CalcInit, EngineInv, Engine!Init
<1>2. EngineInv /\ [CalcNext]_<<part, vars, request, answer, points>> => EngineInv'
    <2> SUFFICES ASSUME EngineInv, [CalcNext]_<<part, vars, request, answer, points>>
                 PROVE  EngineInv'
        OBVIOUS
    <2>1. CASE part = "quote" /\ Engine!Next /\ UNCHANGED <<part, vars, points>>
        BY <2>1 DEF EngineInv, Engine!Next, Engine!Compute
    <2>2. CASE part = "polygon" /\ Drawn!Next /\ UNCHANGED <<part, vars, request, answer>>
        BY <2>2 DEF EngineInv
    <2>3. CASE part = "events" /\ Next /\ UNCHANGED <<part, request, answer, points>>
        BY <2>3 DEF EngineInv
    <2>4. CASE UNCHANGED <<part, vars, request, answer, points>> BY <2>4 DEF EngineInv
    <2>5. QED BY <2>1, <2>2, <2>3, <2>4 DEF CalcNext
<1>3. QED BY <1>1, <1>2, PTL DEF CalcSpec

\* A schedule comes from FinanciadoCases and ScheduleCases; its sums from
\* CuotasEven and PesosDrift.
LEMMA AnswerReconciles == EngineInv => QuoteReconciles
<1> SUFFICES ASSUME EngineInv, part = "quote" PROVE Engine!QuoteReconciles BY DEF QuoteReconciles
<1> SUFFICES ASSUME answer.kind = "financiado" PROVE Engine!QuoteReconciles
    BY DEF Engine!QuoteReconciles
<1>1. answer # Engine!NoAnswer BY DEF Engine!NoAnswer
<1>2. request \in Engine!Requests /\ answer \in Engine!ResolveAndQuote(request)
    BY <1>1 DEF EngineInv
<1>3. PICK p \in Plans, precio \in Precios :
           /\ request.plan = {p} /\ request.financiado = {precio}
           /\ answer = Engine!Financiado(precio, p, request.cac)
           /\ p.ajuste = "CAC" => \E v \in Cacs : request.cac = {v}
    BY <1>2, FinancedAnswer
<1> DEFINE n == p.cuotas
           pct == p.anticipoPct
           anticipo == Engine!RoundHalfUpUsd(precio, pct)
           refuerzos == Engine!RefuerzosTotal(p)
           saldo == precio - anticipo - refuerzos
           c == Engine!AllocateCuotas(saldo, n)
<1>4. request.cac = {} => p.ajuste # "CAC" BY <1>3
<1>5. \A code : answer # Engine!Refusal(code) BY DEF Engine!Refusal
<1>6. /\ 0 <= p.anticipoPct /\ p.anticipoPct <= 10000 /\ p.cuotas \in Nat \ {0}
      /\ answer = Engine!Schedule(precio, p, request.cac)
    BY <1>3, <1>4, <1>5, FinanciadoCases
<1>7. precio \in Nat /\ pct \in Int /\ p.ajuste \in {"CAC", "fijo"} /\ Cacs \subseteq Nat
    BY EngineFacts
<1>8. /\ saldo \in Int /\ saldo > 0 /\ answer.precioUsd = precio /\ answer.anticipoUsd = anticipo
      /\ answer.refuerzosUsd = refuerzos /\ answer.saldoUsd = saldo /\ answer.cuotas = c
      /\ answer.totalUsd = answer.anticipoUsd + Engine!Total(answer.cuotas) + answer.refuerzosUsd
      /\ p.ajuste = "CAC" => answer.ars = [i \in DOMAIN answer.cuotas |->
             {Engine!Decimal2(answer.cuotas[i], valor) : valor \in request.cac}]
    BY <1>5, <1>6, ScheduleCases
<1>9. anticipo \in Int /\ refuerzos \in Int BY <1>7, AnticipoType, RefuerzosType
<1>10. anticipo + saldo + refuerzos = precio
    <2> HIDE DEF anticipo, refuerzos
    <2>1. QED BY <1>7, <1>9
<1>11. saldo \in Nat /\ n \in Nat \ {0} BY <1>6, <1>8
<1>12. /\ c \in [1..n -> Nat] /\ Engine!Total(c) = saldo
       /\ \A i \in 1..(n - 1) : c[i] = c[1]
       /\ c[n] - c[1] \in 0..(n - 1)
    <2> HIDE DEF saldo, n
    <2>1. QED BY <1>11, CuotasEven
<1>13. 20000 * anticipo <= 2 * precio * pct + 10000 /\ 2 * precio * pct < 20000 * anticipo + 10000
    <2>1. pct \in Nat /\ pct <= 10000 BY <1>6, <1>7
    <2> HIDE DEF pct
    <2>2. QED BY <1>7, <2>1, AnticipoIsNearest
<1>14. ASSUME p.ajuste = "CAC", NEW v \in request.cac
       PROVE  100 * Engine!Total([i \in 1..n |-> CHOOSE a \in answer.ars[i] : TRUE])
                  - answer.saldoUsd * v \in (-50 * n)..(50 * n)
    <2> HIDE DEF c, saldo, n
    <2>1. request.cac = {v} /\ v \in Int BY <1>3, <1>7, <1>14
    <2>2. DOMAIN c = 1..n /\ c \in [1..n -> Int] BY <1>12
    <2>3. answer.ars = [i \in 1..n |-> {Engine!Decimal2(c[i], valor) : valor \in {v}}]
        <3> HIDE DEF anticipo, refuerzos, pct
        <3>1. answer.cuotas = c BY <1>8
        <3>2. answer.ars = [i \in DOMAIN answer.cuotas |->
                 {Engine!Decimal2(answer.cuotas[i], valor) : valor \in request.cac}]
            BY <1>8, <1>14
        <3>3. DOMAIN c = 1..n /\ request.cac = {v} BY <2>1, <2>2
        <3>4. QED BY <3>1, <3>2, <3>3, Zenon
    <2>4. \A i \in 1..n : answer.ars[i] = {Engine!Decimal2(c[i], v)} BY <2>3
    <2>5. \A i \in 1..n : (CHOOSE a \in answer.ars[i] : TRUE) = Engine!Decimal2(c[i], v) BY <2>4
    <2>6. [i \in 1..n |-> CHOOSE a \in answer.ars[i] : TRUE]
            = [i \in 1..n |-> Engine!Decimal2(c[i], v)]
        BY <2>5
    <2>7. 100 * Engine!Total([i \in 1..n |-> Engine!Decimal2(c[i], v)]) - Engine!Total(c) * v
              \in (-50 * n)..(50 * n)
        BY <1>11, <2>1, <2>2, PesosDrift
    <2>8. QED BY <1>8, <1>12, <2>6, <2>7
<1> HIDE DEF c, saldo, anticipo, refuerzos
<1>16. answer.totalUsd = answer.precioUsd
    <2>1. answer.totalUsd = anticipo + saldo + refuerzos BY <1>8, <1>12
    <2>2. QED BY <1>8, <1>10, <2>1
<1>17. answer.anticipoUsd + answer.saldoUsd + answer.refuerzosUsd = answer.precioUsd BY <1>8, <1>10
<1>18. /\ DOMAIN answer.cuotas = 1..n
       /\ \A i \in 1..(n - 1) : answer.cuotas[i] = answer.cuotas[1]
       /\ answer.cuotas[n] - answer.cuotas[1] \in 0..(n - 1)
    BY <1>8, <1>12
<1>19. /\ 20000 * answer.anticipoUsd <= 2 * answer.precioUsd * pct + 10000
       /\ 2 * answer.precioUsd * pct < 20000 * answer.anticipoUsd + 10000
    BY <1>8, <1>13
<1>20. \A plan \in request.plan : plan = p BY <1>3
<1> DEFINE Holds(plan) ==
               /\ answer.totalUsd = answer.precioUsd
               /\ answer.anticipoUsd + answer.saldoUsd + answer.refuerzosUsd = answer.precioUsd
               /\ DOMAIN answer.cuotas = 1..plan.cuotas
               /\ \A i \in 1..(plan.cuotas - 1) : answer.cuotas[i] = answer.cuotas[1]
               /\ answer.cuotas[plan.cuotas] - answer.cuotas[1] \in 0..(plan.cuotas - 1)
               /\ 20000 * answer.anticipoUsd <= 2 * answer.precioUsd * plan.anticipoPct + 10000
               /\ 2 * answer.precioUsd * plan.anticipoPct < 20000 * answer.anticipoUsd + 10000
               /\ plan.ajuste = "CAC" =>
                    \A cac \in request.cac :
                        100 * Engine!Total([i \in 1..plan.cuotas |-> CHOOSE a \in answer.ars[i] : TRUE])
                            - answer.saldoUsd * cac \in (-50 * plan.cuotas)..(50 * plan.cuotas)
<1>21. Holds(p) BY <1>14, <1>16, <1>17, <1>18, <1>19
<1>22. Engine!QuoteReconciles <=> (answer.kind = "financiado" => \A plan \in request.plan : Holds(plan))
    BY DEF Engine!QuoteReconciles
<1> HIDE DEF Holds
<1>23. QED BY <1>20, <1>21, <1>22

\* The documented conditions, one by one.
LEMMA DegenerateParts ==
    ASSUME NEW precio \in Precios, NEW p \in Plans
    PROVE  LET cuotas == [i \in DOMAIN p.refuerzos |-> p.refuerzos[i].cuota]
               faults == Engine!Degenerate(precio, p)
           IN /\ p.anticipoPct < 0 \/ p.anticipoPct > 10000 => "ANTICIPO_PCT_FUERA_DE_RANGO" \in faults
              /\ p.cuotas < 1 => "CUOTAS_INVALIDAS" \in faults
              /\ ~(Engine!Range(cuotas) \subseteq 1..p.cuotas) => "REFUERZO_FUERA_DE_PLAZO" \in faults
              /\ ~Engine!IsInjective(cuotas) => "REFUERZO_DUPLICADO" \in faults
              /\ ~(precio > Engine!RoundHalfUpUsd(precio, p.anticipoPct) + Engine!RefuerzosTotal(p))
                     => "SALDO_NO_POSITIVO" \in faults
              /\ (/\ 0 <= p.anticipoPct /\ p.anticipoPct <= 10000 /\ ~(p.cuotas < 1)
                  /\ Engine!Range(cuotas) \subseteq 1..p.cuotas /\ Engine!IsInjective(cuotas)
                  /\ precio > Engine!RoundHalfUpUsd(precio, p.anticipoPct) + Engine!RefuerzosTotal(p))
                     => faults = {}
<1> DEFINE cuotas == [i \in DOMAIN p.refuerzos |-> p.refuerzos[i].cuota]
           faults == Engine!Degenerate(precio, p)
           pct == p.anticipoPct
           hundred == 10000
           within == pct \in 0..hundred
           outside == pct \notin 0..hundred
           few == p.cuotas < 1
           inPlan == Engine!Range(cuotas) \subseteq 1..p.cuotas
           distinct == Engine!IsInjective(cuotas)
           positive == precio > Engine!RoundHalfUpUsd(precio, pct) + Engine!RefuerzosTotal(p)
<1>1. faults = (IF outside THEN {"ANTICIPO_PCT_FUERA_DE_RANGO"} ELSE {})
               \cup (IF few THEN {"CUOTAS_INVALIDAS"} ELSE {})
               \cup (IF inPlan THEN {} ELSE {"REFUERZO_FUERA_DE_PLAZO"})
               \cup (IF distinct THEN {} ELSE {"REFUERZO_DUPLICADO"})
               \cup (IF positive THEN {} ELSE {"SALDO_NO_POSITIVO"})
    BY DEF Engine!Degenerate
<1>a. outside <=> ~within
    <2> HIDE DEF hundred, pct
    <2>1. QED OBVIOUS
<1>2. pct \in Int BY EngineFacts
<1>3. within <=> 0 <= pct /\ pct <= 10000
    <2> HIDE DEF pct
    <2>1. ASSUME within PROVE 0 <= pct /\ pct <= 10000 BY <2>1
    <2>2. ASSUME 0 <= pct, pct <= 10000 PROVE within BY <1>2, <2>2, SMTT(30)
    <2> HIDE DEF within
    <2>3. QED BY <2>1, <2>2
<1> HIDE DEF faults, within, outside, few, inPlan, distinct, positive, cuotas, pct
<1>4. /\ ~within => "ANTICIPO_PCT_FUERA_DE_RANGO" \in faults
      /\ few => "CUOTAS_INVALIDAS" \in faults
      /\ ~inPlan => "REFUERZO_FUERA_DE_PLAZO" \in faults
      /\ ~distinct => "REFUERZO_DUPLICADO" \in faults
      /\ ~positive => "SALDO_NO_POSITIVO" \in faults
      /\ within /\ ~few /\ inPlan /\ distinct /\ positive => faults = {}
    BY <1>1, <1>a
<1>5. pct < 0 \/ pct > 10000 => ~within BY <1>2, <1>3
<1>6. QED BY <1>3, <1>4, <1>5 DEF faults, few, inPlan, distinct, positive, cuotas, pct

\* None of them is the operator's to fix.
LEMMA EnginesCodes ==
    ASSUME NEW precio \in Precios, NEW p \in Plans
    PROVE  "PRECONDITION_FAILED" \notin Engine!Degenerate(precio, p)
<1> DEFINE outside == p.anticipoPct \notin 0..10000
           few == p.cuotas < 1
           inPlan == Engine!Range([i \in DOMAIN p.refuerzos |-> p.refuerzos[i].cuota]) \subseteq 1..p.cuotas
           distinct == Engine!IsInjective([i \in DOMAIN p.refuerzos |-> p.refuerzos[i].cuota])
           positive == precio > Engine!RoundHalfUpUsd(precio, p.anticipoPct) + Engine!RefuerzosTotal(p)
<1>1. Engine!Degenerate(precio, p)
         = (IF outside THEN {"ANTICIPO_PCT_FUERA_DE_RANGO"} ELSE {})
           \cup (IF few THEN {"CUOTAS_INVALIDAS"} ELSE {})
           \cup (IF inPlan THEN {} ELSE {"REFUERZO_FUERA_DE_PLAZO"})
           \cup (IF distinct THEN {} ELSE {"REFUERZO_DUPLICADO"})
           \cup (IF positive THEN {} ELSE {"SALDO_NO_POSITIVO"})
    BY DEF Engine!Degenerate
<1> HIDE DEF outside, few, inPlan, distinct, positive
<1>2. QED BY <1>1

\* A refusal is traced back through the same cases.
LEMMA FinancedRefuses ==
    ASSUME NEW precio \in Precios, NEW p \in Plans, NEW cac,
           p.ajuste = "CAC" => \E v \in Cacs : cac = {v},
           NEW a, a = Engine!Financiado(precio, p, cac)
    PROVE  LET faults == Engine!Degenerate(precio, p)
           IN IF faults = {} THEN a.kind = "financiado" ELSE \E code \in faults : a = Engine!Refusal(code)
<1>1. ASSUME cac = {}, p.ajuste = "CAC" PROVE FALSE
    <2>1. PICK v \in Cacs : cac = {v} BY <1>1
    <2>2. QED BY <1>1, <2>1
<1> DEFINE faults == Engine!Degenerate(precio, p)
           cuotas == [i \in DOMAIN p.refuerzos |-> p.refuerzos[i].cuota]
           anticipo == Engine!RoundHalfUpUsd(precio, p.anticipoPct)
           refuerzos == Engine!RefuerzosTotal(p)
           saldo == precio - anticipo - refuerzos
<1>2. /\ p.anticipoPct < 0 \/ p.anticipoPct > 10000 => "ANTICIPO_PCT_FUERA_DE_RANGO" \in faults
      /\ p.cuotas < 1 => "CUOTAS_INVALIDAS" \in faults
      /\ ~(Engine!Range(cuotas) \subseteq 1..p.cuotas) => "REFUERZO_FUERA_DE_PLAZO" \in faults
      /\ ~Engine!IsInjective(cuotas) => "REFUERZO_DUPLICADO" \in faults
      /\ ~(precio > anticipo + refuerzos) => "SALDO_NO_POSITIVO" \in faults
      /\ (/\ 0 <= p.anticipoPct /\ p.anticipoPct <= 10000 /\ ~(p.cuotas < 1)
          /\ Engine!Range(cuotas) \subseteq 1..p.cuotas /\ Engine!IsInjective(cuotas)
          /\ precio > anticipo + refuerzos) => faults = {}
    BY DegenerateParts
<1>3. CASE \/ a = Engine!Refusal("ANTICIPO_PCT_FUERA_DE_RANGO") /\ (p.anticipoPct < 0 \/ p.anticipoPct > 10000)
           \/ a = Engine!Refusal("CUOTAS_INVALIDAS") /\ p.cuotas < 1
    <2>1. PICK code \in {"ANTICIPO_PCT_FUERA_DE_RANGO", "CUOTAS_INVALIDAS"} :
              a = Engine!Refusal(code) /\ code \in faults
        BY <1>2, <1>3
    <2>2. faults # {} BY <2>1
    <2>3. QED BY <2>1, <2>2
<1>4. CASE \E c \in Engine!RefuerzosRefused(p) : a = Engine!Refusal(c)
    <2>1. PICK c \in Engine!RefuerzosRefused(p) : a = Engine!Refusal(c) BY <1>4
    <2>2. \/ c = "REFUERZO_FUERA_DE_PLAZO" /\ ~(Engine!Range(cuotas) \subseteq 1..p.cuotas)
          \/ c = "REFUERZO_DUPLICADO" /\ ~Engine!IsInjective(cuotas)
        BY RefuerzosLoop
    <2>3. c \in faults BY <2>2, <1>2
    <2>4. QED BY <2>1, <2>3
<1>5. CASE /\ 0 <= p.anticipoPct /\ p.anticipoPct <= 10000 /\ p.cuotas \in Nat \ {0}
           /\ Engine!RefuerzosRefused(p) = {} /\ a = Engine!Schedule(precio, p, cac)
    <2>1. precio \in Nat /\ anticipo \in Int /\ refuerzos \in Int
        BY EngineFacts, AnticipoType, RefuerzosType
    <2>2. saldo > 0 <=> precio > anticipo + refuerzos
        <3> HIDE DEF anticipo, refuerzos
        <3>1. QED BY <2>1
    <2>3. Engine!Range(cuotas) \subseteq 1..p.cuotas /\ Engine!IsInjective(cuotas)
        BY <1>5, RefuerzosLoop
    <2>4. \/ saldo \in Int /\ saldo <= 0 /\ a = Engine!Refusal("SALDO_NO_POSITIVO")
          \/ saldo > 0 /\ a.kind = "financiado"
        <3>1. /\ saldo \in Int
              /\ \/ saldo <= 0 /\ a = Engine!Refusal("SALDO_NO_POSITIVO")
                 \/ /\ saldo > 0 /\ a.kind = "financiado" /\ a.precioUsd = precio
                    /\ a.anticipoUsd = anticipo
                    /\ a.refuerzosUsd = refuerzos /\ a.saldoUsd = saldo
                    /\ a.cuotas = Engine!AllocateCuotas(saldo, p.cuotas)
                    /\ a.totalUsd = a.anticipoUsd + Engine!Total(a.cuotas) + a.refuerzosUsd
                    /\ p.ajuste = "CAC" => a.ars = [i \in DOMAIN a.cuotas |->
                           {Engine!Decimal2(a.cuotas[i], valor) : valor \in cac}]
            BY <1>5, ScheduleCases
        <3> HIDE DEF saldo
        <3>2. QED BY <3>1
    <2>5. CASE saldo \in Int /\ saldo <= 0 /\ a = Engine!Refusal("SALDO_NO_POSITIVO")
        <3>1. ~(saldo > 0)
            <4> HIDE DEF saldo
            <4>1. QED BY <2>5
        <3>2. "SALDO_NO_POSITIVO" \in faults
            <4> HIDE DEF saldo, faults, anticipo, refuerzos, cuotas
            <4>1. QED BY <1>2, <2>2, <3>1
        <3>3. QED BY <2>5, <3>2
    <2>6. CASE saldo > 0 /\ a.kind = "financiado"
        <3>1. ~(p.cuotas < 1) BY <1>5
        <3>2. faults = {}
            <4> HIDE DEF saldo, faults, anticipo, refuerzos, cuotas
            <4>1. QED BY <1>2, <1>5, <2>2, <2>3, <2>6, <3>1
        <3>3. QED BY <2>6, <3>2
    <2>7. QED BY <2>4, <2>5, <2>6
<1>6. QED BY <1>1, <1>3, <1>4, <1>5, FinanciadoCases

\* An incomplete request is answered before the engine is asked, a complete
\* one by FinancedRefuses, whose codes are not the operator's to fix.
LEMMA AnswerRefuses == EngineInv => RefusesExactlyTheDegenerate
<1> SUFFICES ASSUME EngineInv, part = "quote", answer # Engine!NoAnswer
             PROVE  Engine!RefusesExactlyTheDegenerate
    BY DEF RefusesExactlyTheDegenerate, Engine!RefusesExactlyTheDegenerate
<1>1. request \in Engine!Requests /\ answer \in Engine!ResolveAndQuote(request)
    BY DEF EngineInv
<1>2. request.modalidad \in {"contado", "financiado"} BY <1>1 DEF Engine!Requests
<1>3. CASE Engine!Incomplete(request)
    <2>1. answer = Engine!Refusal("PRECONDITION_FAILED") BY <1>1, <1>3, IncompleteAnswer
    <2>2. QED BY <1>3, <2>1 DEF Engine!RefusesExactlyTheDegenerate
<1>4. CASE ~Engine!Incomplete(request)
    <2>1. PICK p \in Plans, c \in Precios, precio \in Precios :
              /\ request.plan = {p} /\ request.contado = {c} /\ request.financiado = {precio}
              /\ request.modalidad = "contado" => answer = [kind |-> "contado", precioUsd |-> c]
              /\ request.modalidad = "financiado" =>
                     /\ answer = Engine!Financiado(precio, p, request.cac)
                     /\ p.ajuste = "CAC" => \E v \in Cacs : request.cac = {v}
        BY <1>1, <1>4, CompleteAnswer
    <2>2. CASE request.modalidad = "contado"
        <3>1. answer = [kind |-> "contado", precioUsd |-> c] BY <2>1, <2>2
        <3>2. answer # Engine!Refusal("PRECONDITION_FAILED") BY <3>1 DEF Engine!Refusal
        <3>3. QED BY <1>4, <2>1, <2>2, <3>1, <3>2 DEF Engine!RefusesExactlyTheDegenerate
    <2>3. CASE request.modalidad = "financiado"
        <3> DEFINE faults == Engine!Degenerate(precio, p)
        <3>1. IF faults = {} THEN answer.kind = "financiado"
              ELSE \E code \in faults : answer = Engine!Refusal(code)
            BY <2>1, <2>3, FinancedRefuses
        <3>2. "PRECONDITION_FAILED" \notin faults BY EnginesCodes
        <3>3. answer # Engine!Refusal("PRECONDITION_FAILED")
            <4> HIDE DEF faults
            <4>1. QED BY <3>1, <3>2 DEF Engine!Refusal
        <3>4. QED BY <1>4, <2>1, <2>3, <3>1, <3>3 DEF Engine!RefusesExactlyTheDegenerate
    <2>4. QED BY <1>2, <2>2, <2>3
<1>5. QED BY <1>3, <1>4

\* Anticipo, instalments and refuerzos add up to the price to the dollar, the
\* instalments differ only in the last, the anticipo is the nearest dollar and
\* the pesos drift by at most half a cent per instalment: for every plan,
\* every price, every number of instalments and every CAC value.
THEOREM QuotesReconcile == CalcSpec => []QuoteReconciles
  BY EngineInvHolds, AnswerReconciles, PTL

\* A request is refused as incomplete exactly if a row is missing; a complete
\* one is refused exactly if a condition of errors.ts holds, and with the code
\* of one that does: for every plan and price, the two checks of the loop
\* over the refuerzos included.
THEOREM RefusalsAreDocumented == CalcSpec => []RefusesExactlyTheDegenerate
  BY EngineInvHolds, AnswerRefuses, PTL

-----------------------------------------------------------------------------
(* The polygon.                                                             *)

Points == [x: Int, y: Int]

\* The vertex after the ith of n.
After(i, n) == IF i = n THEN 1 ELSE i + 1

\* A remainder of what is less than twice the divisor.
LEMMA ModWithin ==
    ASSUME NEW n \in Nat \ {0}, NEW a \in Nat, a < n
    PROVE  a % n = a /\ (a + n) % n = a
<1>1. a % n = a BY SMT
<1>2. (a + n) % n = a BY SMT
<1>3. QED BY <1>1, <1>2

\* At goes round.
LEMMA AtTurns ==
    ASSUME NEW ps, NEW n \in Nat \ {0}, Len(ps) = n, NEW i \in 1..n
    PROVE  Drawn!At(ps, i) = ps[i] /\ Drawn!At(ps, i + n) = ps[i]
<1>1. (i - 1) % n = i - 1 /\ ((i - 1) + n) % n = i - 1
    <2>1. i - 1 \in Nat /\ i - 1 < n OBVIOUS
    <2>2. QED BY <2>1, ModWithin
<1>2. (i + n) - 1 = (i - 1) + n OBVIOUS
<1>3. (i - 1) + 1 = i OBVIOUS
<1>4. QED BY <1>1, <1>2, <1>3 DEF Drawn!At

\* The two ends of an edge.
LEMMA AtAfter ==
    ASSUME NEW ps, NEW n \in Nat \ {0}, Len(ps) = n, NEW i \in 1..n
    PROVE  Drawn!At(ps, i) = ps[i] /\ Drawn!At(ps, i + 1) = ps[After(i, n)]
<1>1. Drawn!At(ps, i) = ps[i] BY AtTurns
<1>2. CASE i = n
    <2>1. 1 \in 1..n BY <1>2
    <2>2. Drawn!At(ps, 1 + n) = ps[1] BY <2>1, AtTurns
    <2>3. i + 1 = 1 + n BY <1>2
    <2>4. QED BY <1>1, <1>2, <2>2, <2>3 DEF After
<1>3. CASE i # n
    <2>1. i + 1 \in 1..n BY <1>3
    <2>2. Drawn!At(ps, i + 1) = ps[i + 1] BY <2>1, AtTurns
    <2>3. QED BY <1>1, <1>3, <2>2 DEF After
<1>4. QED BY <1>2, <1>3

-----------------------------------------------------------------------------
(* The crossing of two edges.                                               *)

\* Two differences multiplied.
LEMMA Distributes ==
    ASSUME NEW a \in Int, NEW b \in Int, NEW c \in Int, NEW d \in Int
    PROVE  (a - b) * (c - d) = a * c - a * d - b * c + b * d
  BY SMT

\* The four products of differences that decide it: den, t and u of Cross
\* are the orientations the code compares.
LEMMA Orientations ==
    ASSUME NEW a \in Points, NEW b \in Points, NEW c \in Points, NEW d \in Points,
           NEW den, den = (b.x - a.x) * (d.y - c.y) - (b.y - a.y) * (d.x - c.x),
           NEW t, t = (c.x - a.x) * (d.y - c.y) - (c.y - a.y) * (d.x - c.x),
           NEW u, u = (c.x - a.x) * (b.y - a.y) - (c.y - a.y) * (b.x - a.x)
    PROVE  /\ den \in Int /\ t \in Int /\ u \in Int
           /\ Drawn!Orientation(c, d, a) = t /\ Drawn!Orientation(c, d, b) = t - den
           /\ Drawn!Orientation(a, b, c) = -u /\ Drawn!Orientation(a, b, d) = den - u
<1>1. /\ a.x \in Int /\ a.y \in Int /\ b.x \in Int /\ b.y \in Int
      /\ c.x \in Int /\ c.y \in Int /\ d.x \in Int /\ d.y \in Int
    BY DEF Points
<1>2. den \in Int /\ t \in Int /\ u \in Int BY <1>1
<1>3. Drawn!Orientation(c, d, a) = t BY <1>1, Distributes DEF Drawn!Orientation
<1>4. Drawn!Orientation(c, d, b) = t - den BY <1>1, Distributes DEF Drawn!Orientation
<1>5. Drawn!Orientation(a, b, c) = -u BY <1>1, Distributes DEF Drawn!Orientation
<1>6. Drawn!Orientation(a, b, d) = den - u BY <1>1, Distributes DEF Drawn!Orientation
<1>7. QED BY <1>2, <1>3, <1>4, <1>5, <1>6

\* An edge does not cross itself nor one it shares a vertex with; which of
\* two edges comes first, and which way they are drawn, does not matter; and
\* the code compares orientations that say the same.
LEMMA CrossingEdges ==
    ASSUME NEW a \in Points, NEW b \in Points, NEW c \in Points, NEW d \in Points
    PROVE  /\ (c = a /\ d = b) \/ c = b \/ d = a => ~Drawn!Cross(a, b, c, d)
           /\ Drawn!Cross(a, b, c, d) <=> Drawn!Cross(c, d, a, b)
           /\ Drawn!Cross(a, b, c, d) <=> Drawn!Cross(b, a, d, c)
           /\ Drawn!Cross(a, b, c, d) <=> Drawn!SegmentsProperlyIntersect(a, b, c, d)
<1> DEFINE den(p, q, r, s) == (q.x - p.x) * (s.y - r.y) - (q.y - p.y) * (s.x - r.x)
           t(p, q, r, s) == (r.x - p.x) * (s.y - r.y) - (r.y - p.y) * (s.x - r.x)
           u(p, q, r, s) == (r.x - p.x) * (q.y - p.y) - (r.y - p.y) * (q.x - p.x)
<1>1. /\ a.x \in Int /\ a.y \in Int /\ b.x \in Int /\ b.y \in Int
      /\ c.x \in Int /\ c.y \in Int /\ d.x \in Int /\ d.y \in Int
    BY DEF Points
<1>2. ASSUME NEW p, NEW q, NEW r, NEW s,
             den(p, q, r, s) \in Int, t(p, q, r, s) \in Int, u(p, q, r, s) \in Int
      PROVE  Drawn!Cross(p, q, r, s) <=>
                 \/ /\ 0 < t(p, q, r, s) /\ t(p, q, r, s) < den(p, q, r, s)
                    /\ 0 < u(p, q, r, s) /\ u(p, q, r, s) < den(p, q, r, s)
                 \/ /\ 0 > t(p, q, r, s) /\ t(p, q, r, s) > den(p, q, r, s)
                    /\ 0 > u(p, q, r, s) /\ u(p, q, r, s) > den(p, q, r, s)
    <2> DEFINE e == den(p, q, r, s)
               v == t(p, q, r, s)
               w == u(p, q, r, s)
    <2>1. Drawn!Cross(p, q, r, s) <=>
              LET z == IF e < 0 THEN -1 ELSE 1
              IN e # 0 /\ 0 < z * v /\ z * v < z * e /\ 0 < z * w /\ z * w < z * e
        BY DEF Drawn!Cross
    <2>2. e \in Int /\ v \in Int /\ w \in Int BY <1>2
    <2> HIDE DEF e, v, w
    <2>3. Drawn!Cross(p, q, r, s) <=> \/ 0 < v /\ v < e /\ 0 < w /\ w < e
                                      \/ 0 > v /\ v > e /\ 0 > w /\ w > e
        <3>1. ASSUME e < 0
              PROVE  Drawn!Cross(p, q, r, s) <=> \/ 0 < v /\ v < e /\ 0 < w /\ w < e
                                                 \/ 0 > v /\ v > e /\ 0 > w /\ w > e
            BY <2>1, <2>2, <3>1
        <3>2. ASSUME ~(e < 0)
              PROVE  Drawn!Cross(p, q, r, s) <=> \/ 0 < v /\ v < e /\ 0 < w /\ w < e
                                                 \/ 0 > v /\ v > e /\ 0 > w /\ w > e
            BY <2>1, <2>2, <3>2
        <3>3. QED BY <3>1, <3>2
    <2>4. QED BY <2>3 DEF e, v, w
<1> DEFINE D == den(a, b, c, d)
           T == t(a, b, c, d)
           U == u(a, b, c, d)
<1>3. D \in Int /\ T \in Int /\ U \in Int BY <1>1
<1>4. /\ den(c, d, a, b) = -D /\ t(c, d, a, b) = -U /\ u(c, d, a, b) = -T
    <2>1. den(c, d, a, b) = -D BY <1>1, Distributes
    <2>2. t(c, d, a, b) = -U BY <1>1, Distributes
    <2>3. u(c, d, a, b) = -T BY <1>1, Distributes
    <2>4. QED BY <2>1, <2>2, <2>3
<1>5. /\ den(b, a, d, c) = D /\ t(b, a, d, c) = D - T /\ u(b, a, d, c) = D - U
    BY <1>1, Distributes
<1>6. /\ Drawn!Orientation(c, d, a) = T /\ Drawn!Orientation(c, d, b) = T - D
      /\ Drawn!Orientation(a, b, c) = -U /\ Drawn!Orientation(a, b, d) = D - U
    BY Orientations
<1>7. ASSUME c = a, d = b PROVE D = 0 BY <1>1, <1>7, Distributes
<1>8. ASSUME c = b PROVE T = D BY <1>1, <1>8, Distributes
<1>9. ASSUME d = a PROVE U = D BY <1>1, <1>9, Distributes
<1>10. Drawn!Cross(a, b, c, d) <=> \/ 0 < T /\ T < D /\ 0 < U /\ U < D
                                   \/ 0 > T /\ T > D /\ 0 > U /\ U > D
    BY <1>2, <1>3
<1>11. Drawn!Cross(c, d, a, b) <=> \/ 0 < -U /\ -U < -D /\ 0 < -T /\ -T < -D
                                   \/ 0 > -U /\ -U > -D /\ 0 > -T /\ -T > -D
    <2>1. den(c, d, a, b) \in Int /\ t(c, d, a, b) \in Int /\ u(c, d, a, b) \in Int
        BY <1>1
    <2> HIDE DEF den, t, u, D, T, U
    <2>2. QED BY <1>2, <1>4, <2>1
<1>12. Drawn!Cross(b, a, d, c) <=> \/ 0 < D - T /\ D - T < D /\ 0 < D - U /\ D - U < D
                                   \/ 0 > D - T /\ D - T > D /\ 0 > D - U /\ D - U > D
    <2>1. den(b, a, d, c) \in Int /\ t(b, a, d, c) \in Int /\ u(b, a, d, c) \in Int
        BY <1>1
    <2> HIDE DEF den, t, u, D, T, U
    <2>2. QED BY <1>2, <1>5, <2>1
<1>13. Drawn!SegmentsProperlyIntersect(a, b, c, d) <=>
           /\ (T > 0 /\ T - D < 0) \/ (T < 0 /\ T - D > 0)
           /\ (-U > 0 /\ D - U < 0) \/ (-U < 0 /\ D - U > 0)
    <2> HIDE DEF D, T, U
    <2>1. QED BY <1>6 DEF Drawn!SegmentsProperlyIntersect, Drawn!Opposite
<1> HIDE DEF D, T, U
<1>14. (c = a /\ d = b) \/ c = b \/ d = a => ~Drawn!Cross(a, b, c, d)
    BY <1>3, <1>7, <1>8, <1>9, <1>10
<1>15. QED BY <1>3, <1>10, <1>11, <1>12, <1>13, <1>14

-----------------------------------------------------------------------------
(* The edges of a drawing.                                                  *)

\* Two edges of a drawing cross.
LEMMA CrossedEdges ==
    ASSUME NEW n \in Nat \ {0}, NEW ps, Len(ps) = n
    PROVE  Drawn!Crossed(ps) <=>
               \E i, j \in 1..n : Drawn!Cross(ps[i], ps[After(i, n)], ps[j], ps[After(j, n)])
<1>1. ASSUME NEW i \in 1..n
      PROVE  Drawn!At(ps, i) = ps[i] /\ Drawn!At(ps, i + 1) = ps[After(i, n)]
    BY AtAfter
<1>2. QED BY <1>1, Zenon DEF Drawn!Crossed

\* The code looks at each pair of edges without a common vertex once; that
\* finds every crossing.
LEMMA SelfIntersects ==
    ASSUME NEW n \in Nat \ {0}, NEW ps \in [1..n -> Points], Len(ps) = n, n >= 3
    PROVE  Drawn!HasSelfIntersection(ps) <=> Drawn!Crossed(ps)
<1> DEFINE to(i) == ps[After(i, n)]
<1>1. ASSUME NEW i \in 1..n
      PROVE  /\ ps[i] \in Points /\ After(i, n) \in 1..n /\ to(i) \in Points
             /\ Drawn!At(ps, i) = ps[i] /\ Drawn!At(ps, i + 1) = to(i)
    <2>1. After(i, n) \in 1..n BY DEF After
    <2>2. QED BY <2>1, AtAfter
<1>2. Drawn!Crossed(ps) <=> \E i, j \in 1..n : Drawn!Cross(ps[i], to(i), ps[j], to(j))
    BY CrossedEdges
<1>3. Drawn!HasSelfIntersection(ps) <=>
          \E i \in 1..n : \E j \in (i + 2)..n :
              ~(i = 1 /\ j = n) /\ Drawn!Cross(ps[i], to(i), ps[j], to(j))
    <2>1. ASSUME NEW i \in 1..n, NEW j \in (i + 2)..n
          PROVE  Drawn!SegmentsProperlyIntersect(Drawn!At(ps, i), Drawn!At(ps, i + 1),
                                                 Drawn!At(ps, j), Drawn!At(ps, j + 1))
                 <=> Drawn!Cross(ps[i], to(i), ps[j], to(j))
        <3>1. j \in 1..n OBVIOUS
        <3> HIDE DEF to
        <3>2. Drawn!Cross(ps[i], to(i), ps[j], to(j)) <=>
              Drawn!SegmentsProperlyIntersect(ps[i], to(i), ps[j], to(j))
            BY <1>1, <3>1, CrossingEdges
        <3>3. QED BY <1>1, <3>1, <3>2
    <2> HIDE DEF to
    <2>2. QED BY <2>1, Zenon DEF Drawn!HasSelfIntersection
<1>4. ASSUME NEW i \in 1..n, NEW j \in 1..n, i <= j, Drawn!Cross(ps[i], to(i), ps[j], to(j))
      PROVE  j \in (i + 2)..n /\ ~(i = 1 /\ j = n)
    <2>1. ~(ps[j] = ps[i] /\ to(j) = to(i)) /\ ps[j] # to(i) /\ to(j) # ps[i]
        <3> HIDE DEF to
        <3>1. QED BY <1>1, <1>4, CrossingEdges
    <2>2. i # j BY <2>1
    <2>3. j # After(i, n) /\ After(j, n) # i BY <2>1
    <2>4. QED BY <1>4, <2>2, <2>3 DEF After
<1>5. ASSUME NEW i \in 1..n, NEW j \in 1..n, Drawn!Cross(ps[i], to(i), ps[j], to(j))
      PROVE  Drawn!Cross(ps[j], to(j), ps[i], to(i))
    <2> HIDE DEF to
    <2>1. QED BY <1>1, <1>5, CrossingEdges
<1> HIDE DEF to
<1>6. ASSUME Drawn!HasSelfIntersection(ps) PROVE Drawn!Crossed(ps)
    <2>1. PICK i \in 1..n : \E j \in (i + 2)..n : Drawn!Cross(ps[i], to(i), ps[j], to(j))
        BY <1>3, <1>6
    <2>2. PICK j \in (i + 2)..n : Drawn!Cross(ps[i], to(i), ps[j], to(j)) BY <2>1
    <2>3. j \in 1..n OBVIOUS
    <2>4. QED BY <1>2, <2>2, <2>3
<1>7. ASSUME Drawn!Crossed(ps) PROVE Drawn!HasSelfIntersection(ps)
    <2>1. PICK i \in 1..n, j \in 1..n : Drawn!Cross(ps[i], to(i), ps[j], to(j))
        BY <1>2, <1>7
    <2>2. CASE i <= j
        <3>1. j \in (i + 2)..n /\ ~(i = 1 /\ j = n) BY <1>4, <2>1, <2>2
        <3>2. QED BY <1>3, <2>1, <3>1
    <2>3. CASE j <= i
        <3>1. Drawn!Cross(ps[j], to(j), ps[i], to(i)) BY <1>5, <2>1
        <3>2. i \in (j + 2)..n /\ ~(j = 1 /\ i = n) BY <1>4, <2>3, <3>1
        <3>3. QED BY <1>3, <3>1, <3>2
    <2>4. QED BY <2>2, <2>3
<1>8. QED BY <1>6, <1>7

\* qs is the figure of ps: its ith edge is the edge turn[i] of ps, drawn the
\* other way if back.
SameEdges(ps, qs, n, turn, back) ==
    \A i \in 1..n :
        IF back THEN qs[i] = ps[After(turn[i], n)] /\ qs[After(i, n)] = ps[turn[i]]
        ELSE qs[i] = ps[turn[i]] /\ qs[After(i, n)] = ps[After(turn[i], n)]

\* turn goes through S, each element once.
Permutes(turn, S) ==
    /\ turn \in [S -> S]
    /\ \A x, y \in S : turn[x] = turn[y] => x = y
    /\ \A y \in S : \E x \in S : turn[x] = y

\* Such a figure has crossing edges exactly if the other has.
LEMMA SameCrossings ==
    ASSUME NEW n \in Nat \ {0}, NEW ps \in [1..n -> Points], Len(ps) = n,
           NEW qs \in [1..n -> Points], Len(qs) = n,
           NEW back \in BOOLEAN, NEW turn, Permutes(turn, 1..n), SameEdges(ps, qs, n, turn, back)
    PROVE  Drawn!Crossed(qs) <=> Drawn!Crossed(ps)
<1> DEFINE to(i) == ps[After(i, n)]
           go(i) == qs[After(i, n)]
<1>1. ASSUME NEW i \in 1..n
      PROVE  /\ ps[i] \in Points /\ to(i) \in Points /\ qs[i] \in Points /\ go(i) \in Points
    <2>1. After(i, n) \in 1..n BY DEF After
    <2>2. QED BY <2>1
<1>2. Drawn!Crossed(ps) <=> \E i, j \in 1..n : Drawn!Cross(ps[i], to(i), ps[j], to(j))
    BY CrossedEdges
<1>3. Drawn!Crossed(qs) <=> \E i, j \in 1..n : Drawn!Cross(qs[i], go(i), qs[j], go(j))
    BY CrossedEdges
<1>4. ASSUME NEW i \in 1..n, NEW j \in 1..n
      PROVE  Drawn!Cross(qs[i], go(i), qs[j], go(j)) <=>
             Drawn!Cross(ps[turn[i]], to(turn[i]), ps[turn[j]], to(turn[j]))
    <2>1. turn[i] \in 1..n /\ turn[j] \in 1..n BY DEF Permutes
    <2>2. CASE back
        <3>1. /\ qs[i] = to(turn[i]) /\ go(i) = ps[turn[i]]
              /\ qs[j] = to(turn[j]) /\ go(j) = ps[turn[j]]
            BY <2>2 DEF SameEdges
        <3> HIDE DEF to, go
        <3>2. Drawn!Cross(ps[turn[i]], to(turn[i]), ps[turn[j]], to(turn[j])) <=>
              Drawn!Cross(to(turn[i]), ps[turn[i]], to(turn[j]), ps[turn[j]])
            BY <1>1, <2>1, CrossingEdges
        <3>3. QED BY <3>1, <3>2
    <2>3. CASE ~back
        <3>1. /\ qs[i] = ps[turn[i]] /\ go(i) = to(turn[i])
              /\ qs[j] = ps[turn[j]] /\ go(j) = to(turn[j])
            BY <2>3 DEF SameEdges
        <3>2. QED BY <3>1
    <2>4. QED BY <2>2, <2>3
<1> HIDE DEF to, go
<1>5. ASSUME NEW i \in 1..n, NEW j \in 1..n, Drawn!Cross(ps[i], to(i), ps[j], to(j))
      PROVE  Drawn!Crossed(qs)
    <2>1. PICK k \in 1..n : turn[k] = i BY DEF Permutes
    <2>2. PICK m \in 1..n : turn[m] = j BY DEF Permutes
    <2>3. Drawn!Cross(qs[k], go(k), qs[m], go(m)) BY <1>4, <1>5, <2>1, <2>2
    <2>4. QED BY <1>3, <2>3
<1>6. ASSUME NEW i \in 1..n, NEW j \in 1..n, Drawn!Cross(qs[i], go(i), qs[j], go(j))
      PROVE  Drawn!Crossed(ps)
    <2>1. turn[i] \in 1..n /\ turn[j] \in 1..n BY DEF Permutes
    <2>2. QED BY <1>2, <1>4, <1>6, <2>1
<1>7. QED BY <1>2, <1>3, <1>5, <1>6

-----------------------------------------------------------------------------
(* The area of a drawing.                                                   *)

Signed(minus, v) == IF minus THEN -v ELSE v

\* The terms of f and e are the same, in another order and of that sign.
SameTerms(f, e, S, turn, minus) == \A x \in S : e[x] = Signed(minus, f[turn[x]])

\* g[s] is the sum of f over s, whichever element comes first.
PartSums(g, f, S) ==
    /\ Sum(f) = g[S]
    /\ g[{}] = 0
    /\ \A s \in SUBSET S : g[s] \in Int /\ \A x \in s : g[s] = f[x] + g[s \ {x}]

\* Every sum over a finite set of integers has its parts.
LEMMA SumParts ==
    ASSUME NEW S, IsFiniteSet(S), NEW f \in [S -> Int]
    PROVE  \E g : PartSums(g, f, S)
<1>1. DOMAIN f = S /\ \A x \in S : f[x] \in Int OBVIOUS
<1>2. PICK g : Adds(g, f, S) /\ Sum(f) = g[S] BY <1>1, SumAdds
<1>3. \A s \in SUBSET S : g[s] \in Int /\ \A x \in s : g[s] = f[x] + g[s \ {x}]
    BY <1>1, <1>2, AddsAny
<1>4. g[{}] = 0 BY <1>2, AddsStep
<1>5. QED BY <1>2, <1>3, <1>4 DEF PartSums

\* What is added up in another order is the same sum, and of the opposite
\* numbers the opposite one.
LEMMA SumPermutes ==
    ASSUME NEW S, IsFiniteSet(S), NEW f \in [S -> Int], NEW e \in [S -> Int],
           NEW turn, Permutes(turn, S), NEW minus \in BOOLEAN, SameTerms(f, e, S, turn, minus)
    PROVE  Sum(f) \in Int /\ Sum(e) = Signed(minus, Sum(f))
<1>b. /\ turn \in [S -> S]
      /\ \A x, y \in S : turn[x] = turn[y] => x = y
      /\ \A y \in S : \E x \in S : turn[x] = y
    BY DEF Permutes
<1>c. \A x \in S : e[x] = Signed(minus, f[turn[x]]) BY DEF SameTerms
<1> DEFINE image(s) == {turn[x] : x \in s}
<1>1. PICK g : PartSums(g, f, S) BY SumParts
<1>2. PICK h : PartSums(h, e, S) BY SumParts
<1>3. \A s \in SUBSET S : g[s] \in Int /\ \A x \in s : g[s] = f[x] + g[s \ {x}]
    BY <1>1 DEF PartSums
<1>4. \A s \in SUBSET S : h[s] \in Int /\ \A x \in s : h[s] = e[x] + h[s \ {x}]
    BY <1>2 DEF PartSums
<1>a. Sum(f) = g[S] /\ g[{}] = 0 /\ Sum(e) = h[S] /\ h[{}] = 0 BY <1>1, <1>2 DEF PartSums
<1>5. image(S) = S BY <1>b
<1> DEFINE Bad == {s \in SUBSET S : h[s] # Signed(minus, g[image(s)])}
<1>6. ASSUME Bad # {} PROVE FALSE
    <2>1. PICK s \in Bad : \A t \in Bad : ~(t \subseteq s /\ t # s)
        <3>1. Bad \subseteq SUBSET S OBVIOUS
        <3> HIDE DEF Bad
        <3>2. QED BY <1>6, <3>1, SetLeast
    <2>2. s \in SUBSET S /\ h[s] # Signed(minus, g[image(s)]) OBVIOUS
    <2>3. s # {}
        <3>1. ASSUME s = {} PROVE h[s] = Signed(minus, g[image(s)])
            <4>1. image(s) = {} BY <3>1
            <4>2. h[s] = 0 BY <1>a, <3>1
            <4>3. g[image(s)] = 0 BY <1>a, <4>1
            <4> HIDE DEF image
            <4>4. QED BY <4>2, <4>3 DEF Signed
        <3>2. QED BY <2>2, <3>1
    <2>4. PICK x \in s : TRUE BY <2>3
    <2>5. x \in S /\ turn[x] \in S /\ image(s) \in SUBSET S /\ turn[x] \in image(s) BY <1>b, <2>2
    <2>6. image(s \ {x}) = image(s) \ {turn[x]} BY <1>b, <2>2, <2>5
    <2>7. s \ {x} \notin Bad BY <2>1
    <2>8. h[s \ {x}] = Signed(minus, g[image(s \ {x})]) BY <2>2, <2>7
    <2> DEFINE rest == image(s) \ {turn[x]}
    <2>9. h[s] = e[x] + h[s \ {x}] BY <1>4, <2>2, <2>4
    <2>10. g[image(s)] = f[turn[x]] + g[rest] BY <1>3, <2>5, Zenon
    <2>11. h[s \ {x}] = Signed(minus, g[rest]) BY <2>6, <2>8
    <2>12. g[rest] \in Int /\ f[turn[x]] \in Int BY <1>3, <2>5
    <2>13. e[x] = Signed(minus, f[turn[x]]) BY <1>c, <2>5
    <2> HIDE DEF rest, image
    <2>14. h[s] = Signed(minus, g[image(s)])
        BY <2>9, <2>10, <2>11, <2>12, <2>13 DEF Signed
    <2>15. QED BY <2>2, <2>14
<1>7. h[S] = Signed(minus, g[image(S)]) BY <1>6
<1>8. g[S] \in Int BY <1>3
<1> HIDE DEF image
<1>9. QED BY <1>a, <1>5, <1>7, <1>8

\* The terms of the shoelace.
Terms(ps, n) == [i \in 1..n |-> ps[i].x * ps[After(i, n)].y - ps[After(i, n)].x * ps[i].y]

\* The signed area is their sum.
LEMMA AreaIsSum ==
    ASSUME NEW n \in Nat \ {0}, NEW ps, Len(ps) = n
    PROVE  Drawn!SignedDoubleArea(ps) = Sum(Terms(ps, n))
<1>1. [i \in 1..n |-> Drawn!At(ps, i).x * Drawn!At(ps, i + 1).y
                      - Drawn!At(ps, i + 1).x * Drawn!At(ps, i).y] = Terms(ps, n)
    BY AtAfter, Zenon DEF Terms
<1>2. \A f : Drawn!FoldFunction(+, 0, f) = Sum(f)
    BY DEF Sum, Drawn!FoldFunction, Drawn!FoldFunctionOnSet, Drawn!MapThenFoldSet,
           FoldFunction, FoldFunctionOnSet, MapThenFoldSet
<1>3. QED BY <1>1, <1>2 DEF Drawn!SignedDoubleArea

\* The area of the other figure is below the bound exactly if this one is.
LEMMA SameArea ==
    ASSUME NEW n \in Nat \ {0}, NEW ps \in [1..n -> Points], Len(ps) = n,
           NEW qs \in [1..n -> Points], Len(qs) = n,
           NEW back \in BOOLEAN, NEW turn, Permutes(turn, 1..n), SameEdges(ps, qs, n, turn, back)
    PROVE  Drawn!SignedDoubleArea(qs) \in -1..1 <=> Drawn!SignedDoubleArea(ps) \in -1..1
<1>1. ASSUME NEW i \in 1..n
      PROVE  /\ turn[i] \in 1..n /\ After(i, n) \in 1..n
             /\ ps[i].x \in Int /\ ps[i].y \in Int /\ qs[i].x \in Int /\ qs[i].y \in Int
    <2>1. turn[i] \in 1..n BY DEF Permutes
    <2>2. After(i, n) \in 1..n BY DEF After
    <2>3. ps[i] \in Points /\ qs[i] \in Points OBVIOUS
    <2>4. QED BY <2>1, <2>2, <2>3 DEF Points
<1>2. Terms(ps, n) \in [1..n -> Int] /\ Terms(qs, n) \in [1..n -> Int]
    <2>1. ASSUME NEW rs, NEW i \in 1..n, \A j \in 1..n : rs[j].x \in Int /\ rs[j].y \in Int
          PROVE  rs[i].x * rs[After(i, n)].y - rs[After(i, n)].x * rs[i].y \in Int
        <3>1. After(i, n) \in 1..n BY <1>1
        <3>2. /\ rs[i].x \in Int /\ rs[i].y \in Int
              /\ rs[After(i, n)].x \in Int /\ rs[After(i, n)].y \in Int
            BY <2>1, <3>1
        <3>3. QED BY <3>2
    <2>2. QED BY <1>1, <2>1, Zenon DEF Terms
<1>3. ASSUME NEW i \in 1..n PROVE Terms(qs, n)[i] = Signed(back, Terms(ps, n)[turn[i]])
    <2> DEFINE j == turn[i]
               p == ps[j]
               q == ps[After(j, n)]
    <2>1. j \in 1..n /\ After(j, n) \in 1..n /\ p.x \in Int /\ p.y \in Int /\ q.x \in Int /\ q.y \in Int
        BY <1>1
    <2>2. Terms(ps, n)[j] = p.x * q.y - q.x * p.y BY <2>1 DEF Terms
    <2>3. Terms(qs, n)[i] = qs[i].x * qs[After(i, n)].y - qs[After(i, n)].x * qs[i].y
        BY DEF Terms
    <2>4. CASE back
        <3>1. qs[i] = q /\ qs[After(i, n)] = p BY <2>4 DEF SameEdges
        <3> HIDE DEF p, q, j
        <3>2. Terms(qs, n)[i] = q.x * p.y - p.x * q.y BY <2>3, <3>1
        <3>3. q.x * p.y - p.x * q.y = -(p.x * q.y - q.x * p.y) BY <2>1
        <3>4. Terms(qs, n)[i] = Signed(back, Terms(ps, n)[j])
            BY <2>2, <2>4, <3>2, <3>3 DEF Signed
        <3>5. QED BY <3>4 DEF j
    <2>5. CASE ~back
        <3>1. qs[i] = p /\ qs[After(i, n)] = q BY <2>5 DEF SameEdges
        <3> HIDE DEF p, q, j
        <3>2. Terms(qs, n)[i] = Terms(ps, n)[j] BY <2>2, <2>3, <3>1
        <3>3. QED BY <2>5, <3>2 DEF Signed, j
    <2>6. QED BY <2>4, <2>5
<1>4. ASSUME NEW S, S = 1..n, NEW f, f = Terms(ps, n), NEW e, e = Terms(qs, n)
      PROVE  Sum(f) \in Int /\ Sum(e) = Signed(back, Sum(f))
    <2>1. IsFiniteSet(S) BY <1>4, FS_Interval
    <2>2. f \in [S -> Int] /\ e \in [S -> Int] BY <1>2, <1>4
    <2>3. Permutes(turn, S) BY <1>4
    <2>4. SameTerms(f, e, S, turn, back) BY <1>3, <1>4, Zenon DEF SameTerms
    <2>5. QED BY <2>1, <2>2, <2>3, <2>4, SumPermutes
<1>5. Sum(Terms(ps, n)) \in Int /\ Sum(Terms(qs, n)) = Signed(back, Sum(Terms(ps, n)))
    BY <1>4
<1>6. QED BY <1>5, AreaIsSum DEF Signed

-----------------------------------------------------------------------------
(* The verdict.                                                             *)

\* The same figure has the same verdict, reason by reason.
LEMMA SameVerdict ==
    ASSUME NEW n \in Nat \ {0}, NEW ps \in [1..n -> Points], Len(ps) = n,
           NEW qs \in [1..n -> Points], Len(qs) = n,
           NEW back \in BOOLEAN, NEW turn, Permutes(turn, 1..n),
           SameEdges(ps, qs, n, turn, back)
    PROVE  Drawn!ValidatePolygon(qs) = Drawn!ValidatePolygon(ps)
<1> DEFINE Outside(p) == ~Drawn!IsValidCoord(p.x) \/ ~Drawn!IsValidCoord(p.y)
<1>1. ASSUME NEW i \in 1..n
      PROVE  After(i, n) \in 1..n /\ \E k \in 1..n : qs[i] = ps[k]
    <2>1. After(i, n) \in 1..n BY DEF After
    <2>2. turn[i] \in 1..n BY DEF Permutes
    <2>3. After(turn[i], n) \in 1..n BY <2>2 DEF After
    <2>4. QED BY <2>1, <2>2, <2>3 DEF SameEdges
<1>2. ASSUME NEW k \in 1..n PROVE \E i \in 1..n : qs[i] = ps[k]
    <2>1. PICK i \in 1..n : turn[i] = k BY DEF Permutes
    <2>2. CASE back
        <3>1. qs[After(i, n)] = ps[k] BY <2>1, <2>2 DEF SameEdges
        <3>2. QED BY <1>1, <3>1
    <2>3. CASE ~back BY <2>1, <2>3 DEF SameEdges
    <2>4. QED BY <2>2, <2>3
<1>3. (\E i \in 1..n : Outside(qs[i])) <=> \E i \in 1..n : Outside(ps[i])
    <2> HIDE DEF Outside
    <2>1. QED BY <1>1, <1>2
<1>4. CASE n < 3
    BY <1>4 DEF Drawn!ValidatePolygon
<1>5. CASE ~(n < 3)
    <2>1. Drawn!HasSelfIntersection(qs) <=> Drawn!HasSelfIntersection(ps)
        <3>1. Drawn!HasSelfIntersection(qs) <=> Drawn!Crossed(qs) BY <1>5, SelfIntersects
        <3>2. Drawn!HasSelfIntersection(ps) <=> Drawn!Crossed(ps) BY <1>5, SelfIntersects
        <3>3. Drawn!Crossed(qs) <=> Drawn!Crossed(ps) BY SameCrossings
        <3>4. QED BY <3>1, <3>2, <3>3
    <2>2. Drawn!SignedDoubleArea(qs) \in -1..1 <=> Drawn!SignedDoubleArea(ps) \in -1..1
        BY SameArea
    <2> DEFINE Flat(rs) == Drawn!SignedDoubleArea(rs) \in -1..1
               Out(rs) == \E i \in 1..n : Outside(rs[i])
               Verdict(rs) == IF Out(rs) THEN "out_of_bounds"
                              ELSE IF Drawn!HasSelfIntersection(rs) THEN "self_intersecting"
                              ELSE IF Flat(rs) THEN "degenerate"
                              ELSE "ok"
    <2>3. Drawn!ValidatePolygon(qs) = Verdict(qs) BY <1>5 DEF Drawn!ValidatePolygon
    <2>4. Drawn!ValidatePolygon(ps) = Verdict(ps) BY <1>5 DEF Drawn!ValidatePolygon
    <2>5. (Out(qs) <=> Out(ps)) /\ (Flat(qs) <=> Flat(ps)) BY <1>3, <2>2
    <2> HIDE DEF Flat, Out
    <2>6. Verdict(qs) = Verdict(ps) BY <2>1, <2>5
    <2>7. QED BY <2>3, <2>4, <2>6
<1>6. QED BY <1>4, <1>5

\* A drawing is as long as its list of vertices.
LEMMA Listed ==
    ASSUME NEW n \in Nat, NEW qs \in [1..n -> Points]
    PROVE  qs \in Seq(Points) /\ Len(qs) = n
<1>1. qs \in Seq(Points) BY SeqDef
<1>2. DOMAIN qs = 1..n OBVIOUS
<1>3. Len(qs) \in Nat /\ 1..Len(qs) = 1..n BY <1>1, <1>2, LenProperties
<1>4. Len(qs) = n BY <1>3
<1>5. QED BY <1>1, <1>4

\* From another first vertex.
LEMMA TurnedVerdict ==
    ASSUME NEW n \in Nat \ {0}, NEW ps \in [1..n -> Points], Len(ps) = n, NEW k \in 1..n
    PROVE  Drawn!ValidatePolygon([i \in 1..n |-> Drawn!At(ps, i + k)]) = Drawn!ValidatePolygon(ps)
<1> DEFINE qs == [i \in 1..n |-> Drawn!At(ps, i + k)]
           turn == [i \in 1..n |-> IF i + k <= n THEN i + k ELSE i + k - n]
<1>1. ASSUME NEW i \in 1..n
      PROVE  turn[i] \in 1..n /\ qs[i] = ps[turn[i]]
    <2>1. CASE i + k <= n
        <3>1. i + k \in 1..n BY <2>1
        <3>2. Drawn!At(ps, i + k) = ps[i + k] BY <3>1, AtTurns
        <3>3. QED BY <2>1, <3>1, <3>2
    <2>2. CASE ~(i + k <= n)
        <3>1. i + k - n \in 1..n /\ (i + k - n) + n = i + k BY <2>2
        <3>2. Drawn!At(ps, (i + k - n) + n) = ps[i + k - n] BY <3>1, AtTurns
        <3>3. QED BY <2>2, <3>1, <3>2
    <2>3. QED BY <2>1, <2>2
<1>2. Permutes(turn, 1..n)
    <2>1. turn \in [1..n -> 1..n] BY <1>1
    <2>2. \A x, y \in 1..n : turn[x] = turn[y] => x = y OBVIOUS
    <2>3. ASSUME NEW y \in 1..n PROVE \E x \in 1..n : turn[x] = y
        <3>1. CASE y > k
            <4>1. y - k \in 1..n /\ turn[y - k] = y BY <3>1
            <4>2. QED BY <4>1
        <3>2. CASE ~(y > k)
            <4>1. y - k + n \in 1..n /\ turn[y - k + n] = y BY <3>2
            <4>2. QED BY <4>1
        <3>3. QED BY <3>1, <3>2
    <2> HIDE DEF turn
    <2>4. QED BY <2>1, <2>2, <2>3 DEF Permutes
<1>3. qs \in [1..n -> Points]
    <2>1. \A i \in 1..n : qs[i] \in Points BY <1>1, SMTT(30)
    <2>2. QED BY <2>1
<1>4. Len(qs) = n BY <1>3, Listed
<1>5. SameEdges(ps, qs, n, turn, FALSE)
    <2>1. ASSUME NEW i \in 1..n
          PROVE  qs[i] = ps[turn[i]] /\ qs[After(i, n)] = ps[After(turn[i], n)]
        <3>1. After(i, n) \in 1..n BY DEF After
        <3>2. turn[After(i, n)] = After(turn[i], n) BY <1>1, <3>1 DEF After
        <3>3. QED BY <1>1, <3>1, <3>2
    <2> HIDE DEF qs, turn
    <2>2. QED BY <2>1 DEF SameEdges
<1> HIDE DEF qs, turn
<1>6. Drawn!ValidatePolygon(qs) = Drawn!ValidatePolygon(ps) BY <1>2, <1>3, <1>4, <1>5, SameVerdict
<1>7. QED BY <1>6 DEF qs

\* In the other direction.
LEMMA ReversedVerdict ==
    ASSUME NEW n \in Nat \ {0}, NEW ps \in [1..n -> Points], Len(ps) = n
    PROVE  Drawn!ValidatePolygon(Drawn!Reverse(ps)) = Drawn!ValidatePolygon(ps)
<1> DEFINE qs == [i \in 1..n |-> ps[(n - i) + 1]]
           turn == [i \in 1..n |-> IF i = n THEN n ELSE n - i]
<1>1. Drawn!Reverse(ps) = qs BY DEF Drawn!Reverse
<1>2. qs \in [1..n -> Points] OBVIOUS
<1>3. Len(qs) = n BY <1>2, Listed
<1>4. Permutes(turn, 1..n)
    <2>1. turn \in [1..n -> 1..n] OBVIOUS
    <2>2. \A x, y \in 1..n : turn[x] = turn[y] => x = y OBVIOUS
    <2>3. ASSUME NEW y \in 1..n PROVE turn[turn[y]] = y OBVIOUS
    <2> HIDE DEF turn
    <2>4. QED BY <2>1, <2>2, <2>3 DEF Permutes
<1>5. SameEdges(ps, qs, n, turn, TRUE)
    <2>1. ASSUME NEW i \in 1..n
          PROVE  qs[i] = ps[After(turn[i], n)] /\ qs[After(i, n)] = ps[turn[i]]
        <3>1. CASE i = n BY <3>1 DEF After
        <3>2. CASE i # n BY <3>2 DEF After
        <3>3. QED BY <3>1, <3>2
    <2> HIDE DEF qs, turn
    <2>2. QED BY <2>1 DEF SameEdges
<1> HIDE DEF qs, turn
<1>6. Drawn!ValidatePolygon(qs) = Drawn!ValidatePolygon(ps) BY <1>2, <1>3, <1>4, <1>5, SameVerdict
<1>7. QED BY <1>1, <1>6

\* The drawing is a list of points.
DrawnInv == points \in Seq(Points)

\* What is drawn are points.
LEMMA DrawnFacts == Vertices \subseteq Points
  BY CalcAssumption DEF Drawn!PolygonAssumption, Points

\* Adding, dragging and deleting a vertex leave such a list.
LEMMA DrawnInvHolds == CalcSpec => []DrawnInv
<1>1. CalcInit => DrawnInv BY EmptySeq DEF CalcInit, DrawnInv, Drawn!Init
<1>2. DrawnInv /\ [CalcNext]_<<part, vars, request, answer, points>> => DrawnInv'
    <2> SUFFICES ASSUME DrawnInv, [CalcNext]_<<part, vars, request, answer, points>>
                 PROVE  DrawnInv'
        OBVIOUS
    <2>1. ASSUME NEW p \in Vertices, Drawn!AddVertex(p) PROVE DrawnInv'
        BY <2>1, DrawnFacts DEF DrawnInv, Drawn!AddVertex
    <2>2. ASSUME NEW p \in Vertices, NEW i \in DOMAIN points, Drawn!DragVertex(i, p)
          PROVE  DrawnInv'
        <3>1. i \in 1..Len(points) /\ p \in Points
            BY LenProperties, DrawnFacts DEF DrawnInv
        <3>2. points' = [points EXCEPT ![i] = p] BY <2>2 DEF Drawn!DragVertex
        <3>3. QED BY <3>1, <3>2, ExceptSeq DEF DrawnInv
    <2>3. ASSUME NEW i \in DOMAIN points, Drawn!DeleteVertex(i) PROVE DrawnInv'
        <3>1. i \in 1..Len(points) /\ Len(points) \in Nat
            BY LenProperties DEF DrawnInv
        <3>2. points' = SubSeq(points, 1, i - 1) \o SubSeq(points, i + 1, Len(points))
            BY <2>3 DEF Drawn!DeleteVertex, Drawn!RemoveAt
        <3>3. \A j \in 1..Len(points) : points[j] \in Points BY ElementOfSeq DEF DrawnInv
        <3>4. SubSeq(points, 1, i - 1) \in Seq(Points)
            BY <3>1, <3>3, SubSeqProperties
        <3>5. SubSeq(points, i + 1, Len(points)) \in Seq(Points)
            BY <3>1, <3>3, SubSeqProperties
        <3>6. QED BY <3>2, <3>4, <3>5, ConcatProperties DEF DrawnInv
    <2>4. CASE UNCHANGED points BY <2>4 DEF DrawnInv
    <2>5. QED BY <2>1, <2>2, <2>3, <2>4 DEF CalcNext, Drawn!Next
<1>3. QED BY <1>1, <1>2, PTL DEF CalcSpec

\* On any list of points the verdict is geometric.
LEMMA VerdictOfDrawing == DrawnInv => VerdictIsGeometric
<1> SUFFICES ASSUME DrawnInv PROVE Drawn!VerdictIsGeometric BY DEF VerdictIsGeometric
<1> DEFINE n == Len(points)
           verdict == Drawn!ValidatePolygon(points)
<1>1. n \in Nat /\ points \in [1..n -> Points] BY LenProperties DEF DrawnInv
<1>2. ASSUME NEW k \in 1..n
      PROVE  Drawn!ValidatePolygon([i \in 1..n |-> Drawn!At(points, i + k)]) = verdict
    <2>1. n \in Nat \ {0} BY <1>1
    <2>2. QED BY <1>1, <2>1, TurnedVerdict
<1>3. Drawn!ValidatePolygon(Drawn!Reverse(points)) = verdict
    <2>1. CASE n = 0
        <3>1. Drawn!Reverse(points) \in [1..n -> Points] BY <1>1, <2>1 DEF Drawn!Reverse
        <3>2. Len(Drawn!Reverse(points)) = n BY <1>1, <3>1, Listed
        <3>3. QED BY <2>1, <3>2 DEF Drawn!ValidatePolygon
    <2>2. CASE n # 0
        <3>1. n \in Nat \ {0} BY <1>1, <2>2
        <3>2. QED BY <1>1, <3>1, ReversedVerdict
    <2>3. QED BY <2>1, <2>2
<1>4. ASSUME verdict \in {"ok", "degenerate", "self_intersecting"}
      PROVE  Drawn!Crossed(points) <=> verdict = "self_intersecting"
    <2>1. n >= 3 /\ n \in Nat \ {0} BY <1>1, <1>4 DEF Drawn!ValidatePolygon
    <2>2. verdict = "self_intersecting" <=> Drawn!HasSelfIntersection(points)
        BY <1>4 DEF Drawn!ValidatePolygon
    <2>3. Drawn!HasSelfIntersection(points) <=> Drawn!Crossed(points)
        BY <1>1, <2>1, SelfIntersects
    <2>4. QED BY <2>2, <2>3
<1> HIDE DEF n, verdict
<1>5. QED BY <1>2, <1>3, <1>4 DEF Drawn!VerdictIsGeometric, n, verdict

\* The verdict on a drawing of any number of vertices anywhere in a frame of any
\* size depends on the figure only: neither on its first vertex nor on its
\* direction; it is self_intersecting exactly when two edges cross inside both.
THEOREM VerdictOfFigure == CalcSpec => []VerdictIsGeometric
  BY DrawnInvHolds, VerdictOfDrawing, PTL

-----------------------------------------------------------------------------
(* The events table.                                                        *)

Parts == [name: Months, from: Months, to: Months]

TypeInv ==
    /\ now \in Months /\ parts \in SUBSET Parts /\ inDefault \in SUBSET Months
    /\ due \in BOOLEAN /\ runs \in [Runs -> Months \cup {Idle}] /\ served \in SUBSET Months

\* A partition is the month of its name.
OneMonthEach == \A p \in parts : p.from = p.name /\ p.to = Following(p.name)

\* What DEFAULT keeps has no partition and is not of the future.
DefaultInv == \A m \in inDefault : ~Before(now, m) /\ \A p \in parts : p.name # m

\* A month before which a run ended well has its partition.
ServedInv == \A m \in served : \E p \in parts : p.name = Following(m)

PartitionsInv == TypeInv /\ OneMonthEach /\ DefaultInv /\ ServedInv

-----------------------------------------------------------------------------
(* Months.                                                                  *)

\* The month after a month is a month, and later.
LEMMA FollowingMonth ==
    ASSUME NEW m \in Months
    PROVE  Following(m) \in Months /\ Before(m, Following(m)) /\ ~Before(Following(m), m)
<1>1. CASE m.month = 12
    BY <1>1, SMT DEF Following, Months, Before
<1>2. CASE m.month # 12
    <2>1. m.month + 1 \in 1..12 BY <1>2 DEF Months
    <2>2. Following(m) = [m EXCEPT !.month = m.month + 1] BY <1>2 DEF Following
    <2>3. Following(m).year = m.year /\ Following(m).month = m.month + 1 BY <2>2 DEF Months
    <2>4. Following(m) \in Months BY <2>1, <2>2 DEF Months
    <2>5. Before(m, Following(m)) /\ ~Before(Following(m), m)
        BY <2>3 DEF Before, Months
    <2>6. QED BY <2>4, <2>5
<1>3. QED BY <1>1, <1>2

\* Nothing lies between a month and the next one.
LEMMA NothingBetween ==
    ASSUME NEW a \in Months, NEW b \in Months
    PROVE  Before(a, Following(b)) <=> ~Before(b, a)
<1>1. /\ a.year \in Nat /\ a.month \in 1..12 /\ b.year \in Nat /\ b.month \in 1..12
    BY DEF Months
<1>2. CASE b.month = 12
    <2>1. Following(b).year = b.year + 1 /\ Following(b).month = 1 BY <1>2 DEF Following
    <2>2. QED BY <1>1, <1>2, <2>1 DEF Before
<1>3. CASE b.month # 12
    <2>1. Following(b).year = b.year /\ Following(b).month = b.month + 1
        BY <1>3 DEF Following, Months
    <2>2. QED BY <1>1, <1>3, <2>1 DEF Before
<1>4. QED BY <1>2, <1>3

\* Months are ordered.
LEMMA Trichotomy ==
    ASSUME NEW a \in Months, NEW b \in Months, ~Before(a, b), ~Before(b, a)
    PROVE  a = b
<1>1. a.year = b.year /\ a.month = b.month BY DEF Before, Months
<1>2. a = [year |-> a.year, month |-> a.month] /\ b = [year |-> b.year, month |-> b.month]
    BY DEF Months
<1>3. QED BY <1>1, <1>2

\* Nothing is before itself, and what is later than the later is later.
LEMMA Order ==
    ASSUME NEW a \in Months, NEW b \in Months, NEW c \in Months
    PROVE  ~Before(a, a) /\ (~Before(b, a) /\ Before(b, c) => Before(a, c))
    BY DEF Before, Months

\* A partition of one month takes that month and no other, and two of them
\* overlap only under one name.
LEMMA Covering ==
    ASSUME NEW p \in Parts, p.from = p.name, p.to = Following(p.name)
    PROVE  /\ \A m \in Months : Covers(p, m) <=> m = p.name
           /\ \A q \in Parts : q.from = q.name /\ q.to = Following(q.name) /\ Overlap(p, q)
                                 => p.name = q.name
<1>1. p.name \in Months BY DEF Parts
<1>2. ASSUME NEW m \in Months PROVE Covers(p, m) <=> m = p.name
    <2>1. Covers(p, m) <=> ~Before(m, p.name) /\ ~Before(p.name, m)
        BY <1>1, NothingBetween DEF Covers
    <2>2. QED BY <1>1, <2>1, Trichotomy, Order
<1>3. ASSUME NEW q \in Parts, q.from = q.name, q.to = Following(q.name), Overlap(p, q)
      PROVE p.name = q.name
    <2>1. q.name \in Months BY DEF Parts
    <2>2. ~Before(q.name, p.name) /\ ~Before(p.name, q.name)
        BY <1>1, <1>3, <2>1, NothingBetween DEF Overlap
    <2>3. QED BY <1>1, <2>1, <2>2, Trichotomy
<1>4. QED BY <1>2, <1>3

\* What nextMonthPartitionSpec computes is the month after, over any turn of
\* the year.
LEMMA SpecIsFollowing ==
    ASSUME NEW m \in Months
    PROVE  LET spec == NextMonthPartitionSpec(m)
           IN spec \in Parts /\ spec.name = Following(m) /\ spec.from = spec.name
              /\ spec.to = Following(spec.name)
<1>1. Following(m) \in Months /\ Following(Following(m)) \in Months BY FollowingMonth
<1>2. QED BY <1>1 DEF NextMonthPartitionSpec, Parts

-----------------------------------------------------------------------------
(* The inductive invariant.                                                 *)

LEMMA InitInv == Init => PartitionsInv
<1> SUFFICES ASSUME Init PROVE PartitionsInv OBVIOUS
<1>1. June2026 \in Months BY DEF June2026, Months
<1>2. ASSUME NEW p \in Migrated
      PROVE p \in Parts /\ p.from = p.name /\ p.to = Following(p.name)
    <2>1. PICK k \in 5..8 : p = NextMonthPartitionSpec([year |-> 2026, month |-> k])
        BY <1>2 DEF Migrated
    <2>2. [year |-> 2026, month |-> k] \in Months BY DEF Months
    <2>3. QED BY <2>1, <2>2, SpecIsFollowing
<1>3. TypeInv BY <1>1, <1>2 DEF Init, TypeInv
<1>4. OneMonthEach BY <1>2 DEF Init, OneMonthEach
<1>5. DefaultInv /\ ServedInv BY DEF Init, DefaultInv, ServedInv
<1>6. QED BY <1>3, <1>4, <1>5 DEF PartitionsInv

LEMMA MonthPassesInv == PartitionsInv /\ MonthPasses => PartitionsInv'
<1> SUFFICES ASSUME PartitionsInv, MonthPasses PROVE PartitionsInv' OBVIOUS
<1>1. TypeInv /\ OneMonthEach /\ DefaultInv /\ ServedInv BY DEF PartitionsInv
<1>2. now \in Months /\ now' = Following(now) /\ now' \in Months /\ Before(now, now')
    BY <1>1, FollowingMonth DEF TypeInv, MonthPasses
<1>3. TypeInv' BY <1>1, <1>2 DEF TypeInv, MonthPasses
<1>4. OneMonthEach' /\ ServedInv' BY <1>1 DEF OneMonthEach, ServedInv, MonthPasses
<1>5. ASSUME NEW m \in inDefault PROVE ~Before(now', m)
    <2>1. m \in Months /\ ~Before(now, m) BY <1>1 DEF TypeInv, DefaultInv
    <2>2. QED BY <1>2, <2>1 DEF Before, Months
<1>6. DefaultInv' BY <1>1, <1>5 DEF DefaultInv, MonthPasses
<1>7. QED BY <1>3, <1>4, <1>6 DEF PartitionsInv

\* Starting, failing and losing the lock only move a run.
LEMMA RunMovesInv ==
    ASSUME PartitionsInv, NEW r \in Runs, StartRun(r) \/ RunFails(r) \/ LoseLock(r)
    PROVE  PartitionsInv'
<1>1. TypeInv /\ OneMonthEach /\ DefaultInv /\ ServedInv BY DEF PartitionsInv
<1>2. UNCHANGED <<now, parts, inDefault, served>> BY DEF StartRun, RunFails, LoseLock
<1>3. runs' \in [Runs -> Months \cup {Idle}] /\ due' \in BOOLEAN
    BY <1>1 DEF TypeInv, StartRun, RunFails, LoseLock
<1>4. TypeInv' BY <1>1, <1>2, <1>3 DEF TypeInv
<1>5. OneMonthEach' /\ DefaultInv' /\ ServedInv'
    BY <1>1, <1>2 DEF OneMonthEach, DefaultInv, ServedInv
<1>6. QED BY <1>4, <1>5 DEF PartitionsInv

LEMMA EnsurePartitionInv ==
    ASSUME PartitionsInv, NEW r \in Runs, EnsurePartition(r)
    PROVE  PartitionsInv'
<1> DEFINE spec == NextMonthPartitionSpec(runs[r])
<1>1. TypeInv /\ OneMonthEach /\ DefaultInv /\ ServedInv BY DEF PartitionsInv
<1>2. runs[r] \in Months BY <1>1 DEF TypeInv, EnsurePartition
<1>3. /\ spec \in Parts /\ spec.name = Following(runs[r])
      /\ spec.from = spec.name /\ spec.to = Following(spec.name)
    BY <1>2, SpecIsFollowing
<1>4. /\ UNCHANGED <<now, inDefault, due>> /\ served' = served \cup {runs[r]}
      /\ runs' = [runs EXCEPT ![r] = Idle]
      /\ \/ (\E p \in parts : p.name = spec.name) /\ parts' = parts
         \/ (\A m \in inDefault : ~Covers(spec, m)) /\ parts' = parts \cup {spec}
    BY DEF EnsurePartition
<1> HIDE DEF spec
<1>5. TypeInv'
    <2>1. runs' \in [Runs -> Months \cup {Idle}] BY <1>1, <1>4 DEF TypeInv
    <2>2. parts' \in SUBSET Parts BY <1>1, <1>3, <1>4 DEF TypeInv
    <2>3. served' \in SUBSET Months BY <1>1, <1>2, <1>4 DEF TypeInv
    <2>4. QED BY <1>1, <1>4, <2>1, <2>2, <2>3 DEF TypeInv
<1>6. OneMonthEach' BY <1>1, <1>3, <1>4 DEF OneMonthEach
<1>7. DefaultInv'
    <2>1. ASSUME NEW m \in inDefault, \A k \in inDefault : ~Covers(spec, k)
          PROVE spec.name # m
        <3>1. m \in Months BY <1>1 DEF TypeInv
        <3>2. QED BY <1>3, <2>1, <3>1, Covering
    <2>2. QED BY <1>1, <1>4, <2>1 DEF DefaultInv
<1>8. ServedInv'
    <2>1. \E p \in parts' : p.name = Following(runs[r]) BY <1>3, <1>4
    <2>2. parts \subseteq parts' BY <1>4
    <2>3. QED BY <1>1, <1>4, <2>1, <2>2 DEF ServedInv
<1>9. QED BY <1>5, <1>6, <1>7, <1>8 DEF PartitionsInv

LEMMA InsertEventInv ==
    ASSUME PartitionsInv, NEW m \in Months, InsertEvent(m)
    PROVE  PartitionsInv'
<1>1. TypeInv /\ OneMonthEach /\ DefaultInv /\ ServedInv BY DEF PartitionsInv
<1>2. /\ UNCHANGED <<now, parts, due, runs, served>>
      /\ inDefault' = IF \E p \in parts : Covers(p, m) THEN inDefault ELSE inDefault \cup {m}
    BY DEF InsertEvent
<1>3. TypeInv' BY <1>1, <1>2 DEF TypeInv, InsertEvent
<1>4. OneMonthEach' /\ ServedInv' BY <1>1 DEF OneMonthEach, ServedInv, InsertEvent
<1>5. ~Before(now, m)
    <2>1. now \in Months BY <1>1 DEF TypeInv
    <2>2. m = now \/ Following(m) = now BY DEF InsertEvent
    <2>3. QED BY <2>1, <2>2, FollowingMonth, Order
<1>6. ASSUME NEW p \in parts, ~Covers(p, m) PROVE p.name # m
    <2>1. p \in Parts /\ p.from = p.name /\ p.to = Following(p.name)
        BY <1>1 DEF TypeInv, OneMonthEach
    <2>2. QED BY <1>6, <2>1, Covering
<1>7. now' = now /\ parts' = parts /\ inDefault' \subseteq inDefault \cup {m}
      /\ (m \in inDefault' => m \in inDefault \/ \A p \in parts : ~Covers(p, m))
    BY DEF InsertEvent
<1>8. DefaultInv' BY <1>1, <1>5, <1>6, <1>7 DEF DefaultInv
<1>9. QED BY <1>3, <1>4, <1>8 DEF PartitionsInv

LEMMA StepInv == PartitionsInv /\ [Next]_vars => PartitionsInv'
<1> SUFFICES ASSUME PartitionsInv, [Next]_vars PROVE PartitionsInv' OBVIOUS
<1>1. CASE MonthPasses BY <1>1, MonthPassesInv
<1>2. ASSUME NEW r \in Runs, StartRun(r) \/ RunFails(r) \/ LoseLock(r) PROVE PartitionsInv'
    BY <1>2, RunMovesInv
<1>3. ASSUME NEW r \in Runs, EnsurePartition(r) PROVE PartitionsInv' BY <1>3, EnsurePartitionInv
<1>4. ASSUME NEW m \in [year: 2026..LastMonth.year, month: 1..12], InsertEvent(m)
      PROVE PartitionsInv'
    <2>1. m \in Months BY PartitionsAssumption DEF Months
    <2>2. QED BY <1>4, <2>1, InsertEventInv
<1>5. CASE UNCHANGED vars
    BY <1>5 DEF vars, PartitionsInv, TypeInv, OneMonthEach, DefaultInv, ServedInv
<1>6. QED BY <1>1, <1>2, <1>3, <1>4, <1>5 DEF Next

-----------------------------------------------------------------------------
(* What it shows.                                                           *)

LEMMA InvCurrentRun == PartitionsInv => CurrentRunSucceeds
<1> DEFINE spec == NextMonthPartitionSpec(now)
<1> SUFFICES ASSUME PartitionsInv, \A p \in parts : p.name # spec.name
             PROVE  (\A p \in parts : ~Overlap(p, spec)) /\ \A m \in inDefault : ~Covers(spec, m)
    BY DEF CurrentRunSucceeds
<1>1. TypeInv /\ OneMonthEach /\ DefaultInv BY DEF PartitionsInv
<1>2. now \in Months BY <1>1 DEF TypeInv
<1>3. /\ spec \in Parts /\ spec.name = Following(now)
      /\ spec.from = spec.name /\ spec.to = Following(spec.name)
    BY <1>2, SpecIsFollowing
<1>4. \A p \in parts : p.name # spec.name OBVIOUS
<1> HIDE DEF spec
<1>5. ASSUME NEW p \in parts PROVE ~Overlap(p, spec)
    <2>1. p \in Parts /\ p.from = p.name /\ p.to = Following(p.name)
        BY <1>1 DEF TypeInv, OneMonthEach
    <2>2. QED BY <1>3, <1>4, <2>1, Covering
<1>6. ASSUME NEW m \in inDefault PROVE ~Covers(spec, m)
    <2>1. m \in Months /\ ~Before(now, m) BY <1>1 DEF TypeInv, DefaultInv
    <2>2. Before(now, spec.name) BY <1>2, <1>3, FollowingMonth
    <2>3. m # spec.name BY <2>1, <2>2
    <2>4. QED BY <1>3, <2>1, <2>3, Covering
<1>7. QED BY <1>5, <1>6

LEMMA InvEvents == PartitionsInv => EventsFindTheirMonth
<1> SUFFICES ASSUME PartitionsInv PROVE EventsFindTheirMonth OBVIOUS
<1>1. TypeInv /\ OneMonthEach /\ DefaultInv /\ ServedInv BY DEF PartitionsInv
<1>2. ASSUME NEW p \in parts
      PROVE p \in Parts /\ p.from = p.name /\ p.to = Following(p.name)
    BY <1>1 DEF TypeInv, OneMonthEach
<1>3. ASSUME NEW p \in parts, NEW m \in inDefault PROVE ~Covers(p, m)
    <2>1. m \in Months /\ p.name # m BY <1>1 DEF TypeInv, DefaultInv
    <2>2. QED BY <1>2, <2>1, Covering
<1>4. ASSUME NEW p \in parts, NEW q \in parts, p # q PROVE p.name # q.name /\ ~Overlap(p, q)
    <2>1. ASSUME p.name = q.name PROVE FALSE
        <3>1. p = [name |-> p.name, from |-> p.from, to |-> p.to]
              /\ q = [name |-> q.name, from |-> q.from, to |-> q.to]
            BY <1>2 DEF Parts
        <3>2. QED BY <1>2, <1>4, <2>1, <3>1
    <2>2. QED BY <1>2, <2>1, Covering
<1>5. ASSUME NEW m \in served
      PROVE /\ Following(m) \notin inDefault
            /\ \E p \in parts : p.name = Following(m) /\ Covers(p, Following(m))
    <2>1. m \in Months /\ Following(m) \in Months BY <1>1, FollowingMonth DEF TypeInv
    <2>2. PICK p \in parts : p.name = Following(m) BY <1>1 DEF ServedInv
    <2>3. Covers(p, Following(m)) BY <1>2, <2>1, <2>2, Covering
    <2>4. QED BY <1>3, <2>2, <2>3
<1>6. QED BY <1>2, <1>3, <1>4, <1>5, InvCurrentRun DEF EventsFindTheirMonth

\* The partitions are disjoint months; a month before which a run ended well
\* has all its events in its own; only runs overtaken by the clock are refused:
\* for any number of years, runs and events.
THEOREM EventsPartitioned == Spec => []EventsFindTheirMonth
<1>1. Spec => []PartitionsInv BY InitInv, StepInv, PTL DEF Spec
<1>2. QED BY <1>1, InvEvents, PTL

=============================================================================
