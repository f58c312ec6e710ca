------------------------------- MODULE Induction -------------------------------
(***************************************************************************)
(* Induction over the natural numbers, with a set in place of a predicate, *)
(* functions that are defined by recursion over them, and over finite sets, *)
(* with sums.  All of it rests on the library's theorem that the strict     *)
(* subsets of finite sets are well-founded: of the intervals that start     *)
(* with 1, one is the smallest.                                             *)
(***************************************************************************)
EXTENDS Naturals, FiniteSetTheorems, TLAPS

LEMMA Least ==
    ASSUME NEW T \in SUBSET Nat, T # {}
    PROVE  \E x \in T : \A y \in T : x <= y
<1>1. PICK F : F = {1 .. n : n \in T}
    OBVIOUS
<1>2. PICK R : R = StrictSubsetOrdering(Nat)
    OBVIOUS
<1>3. IsWellFoundedOn(R, FiniteSubsetsOf(Nat))
    BY <1>2, FS_StrictSubsetOrderingWellFounded
<1>4. F \subseteq FiniteSubsetsOf(Nat) /\ F # {}
    <2>1. ASSUME NEW n \in T
          PROVE  1 .. n \in FiniteSubsetsOf(Nat)
        <3>1. IsFiniteSet(1 .. n)
            BY FS_Interval
        <3>2. 1 .. n \in SUBSET Nat
            OBVIOUS
        <3> QED
            BY <3>1, <3>2 DEF FiniteSubsetsOf
    <2> QED
        BY <1>1, <2>1
<1>5. PICK I \in F : \A J \in F : <<J, I>> \notin R
    BY <1>3, <1>4, WFMin
<1>6. PICK x \in T : I = 1 .. x
    BY <1>1
<1>7. ASSUME NEW y \in T, ~(x <= y)
      PROVE  FALSE
    <2>1. 1 .. y \in F
        BY <1>1
    <2>2. 1 .. y \subseteq 1 .. x /\ 1 .. y # 1 .. x
        <3>1. x \in 1 .. x /\ x \notin 1 .. y
            BY <1>7
        <3> QED
            BY <3>1, <1>7
    <2>3. <<1 .. y, I>> \in R
        BY <1>2, <1>6, <2>2 DEF StrictSubsetOrdering
    <2> QED
        BY <1>5, <2>1, <2>3
<1> QED
    BY <1>7

\* A set of naturals with 0, and the successor of each, has them all.
LEMMA ByInduction ==
    ASSUME NEW T \in SUBSET Nat, 0 \in T, \A n \in T : n + 1 \in T
    PROVE  T = Nat
<1>1. PICK U : U = Nat \ T
    OBVIOUS
<1>2. SUFFICES ASSUME U # {}
               PROVE  FALSE
    BY <1>1
<1>3. PICK x \in U : \A y \in U : x <= y
    BY <1>1, <1>2, Least
<1>4. x \in Nat /\ x # 0 /\ x - 1 \in Nat /\ x - 1 \notin U
    BY <1>1, <1>3
<1>5. x - 1 \in T /\ (x - 1) + 1 = x
    BY <1>1, <1>4
<1> QED
    BY <1>1, <1>3, <1>5

\* What is got from x by applying g again and again.
AreIterates(h, X, g, x) ==
    h \in [Nat -> X] /\ h[0] = x /\ \A n \in Nat : h[n + 1] = g[h[n]]

LEMMA Iterates ==
    ASSUME NEW X, NEW g \in [X -> X], NEW x \in X
    PROVE  \E h : AreIterates(h, X, g, x)
<1> DEFINE Start(n, f) == f[0] = x /\ \A k \in 0 .. n : k < n => f[k + 1] = g[f[k]]
<1> DEFINE T == {n \in Nat : \E f \in [0 .. n -> X] : Start(n, f)}
<1>1. T = Nat
    <2>1. 0 \in T
        <3>1. PICK f : f = [k \in 0 .. 0 |-> x]
            OBVIOUS
        <3>2. f \in [0 .. 0 -> X] /\ Start(0, f)
            BY <3>1
        <3> QED
            BY <3>2
    <2>2. ASSUME NEW n \in T
          PROVE  n + 1 \in T
        <3>1. PICK f \in [0 .. n -> X] : Start(n, f)
            OBVIOUS
        <3>2. n \in Nat /\ n + 1 \in Nat
            OBVIOUS
        <3>3. PICK e : e = [k \in 0 .. n + 1 |-> IF k = n + 1 THEN g[f[n]] ELSE f[k]]
            OBVIOUS
        <3>4. f[n] \in X /\ g[f[n]] \in X
            BY <3>2
        <3>5. e \in [0 .. n + 1 -> X]
            BY <3>2, <3>3, <3>4
        <3>6. e[n + 1] = g[f[n]] /\ \A k \in 0 .. n : e[k] = f[k]
            BY <3>2, <3>3
        <3>7. e[0] = x
            BY <3>1, <3>2, <3>6
        <3>8. ASSUME NEW k \in 0 .. n + 1, k < n + 1
              PROVE  e[k + 1] = g[e[k]]
            <4>1. CASE k = n
                BY <4>1, <3>2, <3>6
            <4>2. CASE k < n
                <5>1. k \in 0 .. n /\ k + 1 \in 0 .. n /\ f[k + 1] = g[f[k]]
                    BY <4>2, <3>1, <3>2
                <5> QED
                    BY <5>1, <3>6
            <4> QED
                BY <4>1, <4>2, <3>2, <3>8
        <3>9. Start(n + 1, e)
            BY <3>7, <3>8
        <3> QED
            BY <3>2, <3>5, <3>9
    <2>3. T \in SUBSET Nat
        OBVIOUS
    <2> HIDE DEF T
    <2> QED
        BY <2>1, <2>2, <2>3, ByInduction
<1>2. PICK c : c = [n \in Nat |-> CHOOSE f \in [0 .. n -> X] : Start(n, f)]
    OBVIOUS
<1>3. ASSUME NEW n \in Nat
      PROVE  c[n] \in [0 .. n -> X] /\ Start(n, c[n])
    <2>1. n \in T
        BY <1>1
    <2>2. \E f \in [0 .. n -> X] : Start(n, f)
        BY <2>1
    <2>3. c[n] = CHOOSE f \in [0 .. n -> X] : Start(n, f)
        BY <1>2
    <2> HIDE DEF Start
    <2> QED
        BY <2>2, <2>3
<1>4. ASSUME NEW n \in Nat
      PROVE  c[n + 1][n] = c[n][n]
    <2> DEFINE S == {k \in Nat : k <= n => c[n + 1][k] = c[n][k]}
    <2>1. /\ c[n] \in [0 .. n -> X] /\ Start(n, c[n])
          /\ c[n + 1] \in [0 .. n + 1 -> X] /\ Start(n + 1, c[n + 1])
        <3>1. n + 1 \in Nat
            OBVIOUS
        <3> HIDE DEF Start
        <3> QED
            BY <3>1, <1>3
    <2>2. 0 \in S
        BY <2>1
    <2>3. ASSUME NEW k \in S
          PROVE  k + 1 \in S
        <3>1. SUFFICES ASSUME k + 1 <= n
                       PROVE  c[n + 1][k + 1] = c[n][k + 1]
            OBVIOUS
        <3>2. k \in 0 .. n /\ k < n /\ k \in 0 .. n + 1 /\ k < n + 1 /\ c[n + 1][k] = c[n][k]
            BY <3>1
        <3>3. c[n][k + 1] = g[c[n][k]] /\ c[n + 1][k + 1] = g[c[n + 1][k]]
            BY <2>1, <3>2
        <3> QED
            BY <3>2, <3>3
    <2>4. S \in SUBSET Nat
        OBVIOUS
    <2>5. n \in S
        <3> HIDE DEF S
        <3> QED
            BY <2>2, <2>3, <2>4, ByInduction
    <2> QED
        BY <2>5
<1>5. PICK h : h = [n \in Nat |-> c[n][n]]
    OBVIOUS
<1>6. ASSUME NEW n \in Nat
      PROVE  h[n] \in X /\ h[n + 1] = g[h[n]]
    <2>1. c[n] \in [0 .. n -> X] /\ n \in 0 .. n /\ h[n] = c[n][n] /\ h[n + 1] = c[n + 1][n + 1]
        BY <1>3, <1>5
    <2>2. n + 1 \in Nat /\ Start(n + 1, c[n + 1])
        BY <1>3
    <2>3. n \in 0 .. n + 1 /\ n < n + 1
        OBVIOUS
    <2>4. c[n + 1][n + 1] = g[c[n + 1][n]]
        BY <2>2, <2>3
    <2> QED
        BY <2>1, <2>4, <1>4
<1>7. h[0] = x
    BY <1>3, <1>5
<1>8. h \in [Nat -> X]
    BY <1>5, <1>6
<1> QED
    BY <1>6, <1>7, <1>8 DEF AreIterates
-----------------------------------------------------------------------------
(***************************************************************************)
(* Sums over finite sets, as the folds of the community modules have them:  *)
(* by a function over the subsets, which takes one chosen element away and  *)
(* so depends on what is chosen, until this is shown to make no difference. *)
(***************************************************************************)

Some(s) == CHOOSE x \in s : TRUE

IsSum(f, S, g) ==
    f = [s \in SUBSET S |-> IF s = {} THEN 0 ELSE f[s \ {Some(s)}] + g[Some(s)]]

Sum(S, g) == (CHOOSE f : IsSum(f, S, g))[S]

\* A subset of a finite set has one element less when one is taken away.
LEMMA OneLess ==
    ASSUME NEW S, IsFiniteSet(S), NEW s \in SUBSET S, NEW x \in s, NEW n \in Nat,
           Cardinality(s) = n + 1
    PROVE  Cardinality(s \ {x}) = n
<1>1. IsFiniteSet(s) /\ Cardinality(s) \in Nat
    BY FS_Subset, FS_CardinalityType
<1>2. Cardinality(s \ {x}) = Cardinality(s) - 1
    BY <1>1, FS_RemoveElement
<1> QED
    BY <1>2

LEMMA SomeOf == ASSUME NEW s, s # {} PROVE Some(s) \in s
BY DEF Some

LEMMA SumExists ==
    ASSUME NEW S, IsFiniteSet(S), NEW g, \A x \in S : g[x] \in Nat
    PROVE  \E f \in [SUBSET S -> Nat] : IsSum(f, S, g)
<1> DEFINE Maps == [SUBSET S -> Nat]
           Next(m) == [s \in SUBSET S |-> IF s = {} THEN 0 ELSE m[s \ {Some(s)}] + g[Some(s)]]
           Step == [m \in Maps |-> Next(m)]
           Zero == [s \in SUBSET S |-> 0]
<1>1. ASSUME NEW m \in Maps
      PROVE  Next(m) \in Maps
    <2>1. ASSUME NEW s \in SUBSET S, s # {}
          PROVE  m[s \ {Some(s)}] + g[Some(s)] \in Nat
        <3>1. Some(s) \in S /\ s \ {Some(s)} \in SUBSET S
            BY <2>1, SomeOf
        <3>2. m[s \ {Some(s)}] \in Nat /\ g[Some(s)] \in Nat
            BY <3>1
        <3> QED
            BY <3>2
    <2> QED
        BY <2>1
<1>2. Step \in [Maps -> Maps] /\ Zero \in Maps
    <2>1. Zero \in Maps
        OBVIOUS
    <2> HIDE DEF Maps, Next
    <2> QED
        BY <1>1, <2>1
<1>3. PICK h \in [Nat -> Maps] : h[0] = Zero /\ \A n \in Nat : h[n + 1] = Step[h[n]]
    <2>1. \E h : AreIterates(h, Maps, Step, Zero)
        <3> HIDE DEF Maps, Step, Zero
        <3> QED
            BY <1>2, Iterates
    <2> HIDE DEF Maps, Step, Zero
    <2> QED
        BY <2>1 DEF AreIterates
<1>4. ASSUME NEW n \in Nat
      PROVE  h[n + 1] = Next(h[n]) /\ h[n] \in Maps
    <2> HIDE DEF Maps, Next
    <2> QED
        BY <1>3
<1>5. PICK f : f = [s \in SUBSET S |-> h[Cardinality(s)][s]]
    OBVIOUS
<1>6. \A s \in SUBSET S : Cardinality(s) \in Nat /\ IsFiniteSet(s)
    BY FS_Subset, FS_CardinalityType
<1>7. f \in [SUBSET S -> Nat]
    BY <1>4, <1>5, <1>6
<1>8. ASSUME NEW s \in SUBSET S
      PROVE  f[s] = IF s = {} THEN 0 ELSE f[s \ {Some(s)}] + g[Some(s)]
    <2>1. CASE s = {}
        <3>1. Cardinality(s) = 0
            BY <2>1, FS_EmptySet
        <3> QED
            BY <1>3, <1>5, <2>1, <3>1
    <2>2. CASE s # {}
        <3>1. PICK x \in s : x = Some(s)
            BY <2>2, SomeOf
        <3>2. Cardinality(s) # 0
            BY <1>6, <2>2, FS_EmptySet
        <3>3. PICK n \in Nat : Cardinality(s) = n + 1
            <4>1. PICK k \in Nat : k = Cardinality(s) /\ k # 0
                BY <1>6, <3>2
            <4>2. k - 1 \in Nat /\ k = (k - 1) + 1
                BY <4>1
            <4> QED
                BY <4>1, <4>2
        <3>4. Cardinality(s \ {x}) = n /\ s \ {x} \in SUBSET S
            BY <3>3, OneLess
        <3>5. h[n + 1][s] = h[n][s \ {x}] + g[x]
            BY <1>4, <2>2, <3>1
        <3>6. f[s] = h[n + 1][s] /\ f[s \ {x}] = h[n][s \ {x}]
            BY <1>5, <3>3, <3>4
        <3> QED
            BY <2>2, <3>1, <3>5, <3>6
    <2> QED
        BY <2>1, <2>2
<1>9. IsSum(f, S, g)
    <2>1. f = [s \in SUBSET S |-> f[s]]
        BY <1>7
    <2>2. [s \in SUBSET S |-> f[s]]
             = [s \in SUBSET S |-> IF s = {} THEN 0 ELSE f[s \ {Some(s)}] + g[Some(s)]]
        BY <1>8
    <2> QED
        BY <2>1, <2>2 DEF IsSum
<1> QED
    BY <1>7, <1>9

LEMMA SumEquations ==
    ASSUME NEW S, NEW g, NEW f, IsSum(f, S, g)
    PROVE  /\ f[{}] = 0
           /\ \A s \in SUBSET S : s # {} => f[s] = f[s \ {Some(s)}] + g[Some(s)]
<1>1. {} \in SUBSET S
    OBVIOUS
<1>2. \A s \in SUBSET S : f[s] = IF s = {} THEN 0 ELSE f[s \ {Some(s)}] + g[Some(s)]
    BY DEF IsSum
<1> QED
    BY <1>1, <1>2

\* Of two of them, on subsets of both.
LEMMA SumsAgree ==
    ASSUME NEW S, NEW g, NEW f, IsSum(f, S, g), NEW R \in SUBSET S, IsFiniteSet(R),
           NEW h, IsSum(h, R, g)
    PROVE  \A s \in SUBSET R : f[s] = h[s]
<1> DEFINE T == {n \in Nat : \A s \in SUBSET R : Cardinality(s) = n => f[s] = h[s]}
<1>1. \A s \in SUBSET R : IsFiniteSet(s) /\ Cardinality(s) \in Nat /\ s \in SUBSET S
    BY FS_Subset, FS_CardinalityType
<1>2. 0 \in T
    <2> SUFFICES ASSUME NEW s \in SUBSET R, Cardinality(s) = 0
                 PROVE  f[s] = h[s]
        OBVIOUS
    <2>1. s = {}
        BY <1>1, FS_EmptySet
    <2> QED
        BY <2>1, SumEquations
<1>3. ASSUME NEW n \in T
      PROVE  n + 1 \in T
    <2> SUFFICES ASSUME NEW s \in SUBSET R, Cardinality(s) = n + 1
                 PROVE  f[s] = h[s]
        OBVIOUS
    <2>1. s # {}
        <3>1. n \in Nat /\ n + 1 # 0
            OBVIOUS
        <3> QED
            BY <3>1, FS_EmptySet
    <2>2. PICK c \in s : c = Some(s)
        BY <2>1, SomeOf
    <2>3. f[s] = f[s \ {c}] + g[c] /\ h[s] = h[s \ {c}] + g[c]
        <3>1. f[s] = f[s \ {c}] + g[c]
            <4>1. s \in SUBSET S
                OBVIOUS
            <4>2. \A t \in SUBSET S : t # {} => f[t] = f[t \ {Some(t)}] + g[Some(t)]
                <5>1. IsSum(f, S, g)
                    OBVIOUS
                <5> HIDE DEF T
                <5> QED
                    BY <5>1, SumEquations
            <4> QED
                BY <2>1, <2>2, <4>1, <4>2
        <3>2. h[s] = h[s \ {c}] + g[c]
            BY <2>1, <2>2, SumEquations
        <3> QED
            BY <3>1, <3>2
    <2>4. s \ {c} \in SUBSET R /\ Cardinality(s \ {c}) = n
        BY OneLess
    <2>5. f[s \ {c}] = h[s \ {c}]
        BY <2>4
    <2> QED
        BY <2>3, <2>5
<1>4. T = Nat
    <2>1. T \in SUBSET Nat
        OBVIOUS
    <2> HIDE DEF T
    <2> QED
        BY <1>2, <1>3, <2>1, ByInduction
<1>5. ASSUME NEW s \in SUBSET R
      PROVE  f[s] = h[s]
    <2>1. Cardinality(s) \in T
        BY <1>1, <1>4
    <2> QED
        BY <2>1
<1> QED
    BY <1>5

Additive(f, S, g) == \A s \in SUBSET S : \A x \in s : f[s] = f[s \ {x}] + g[x]

\* Whichever element is taken away.
LEMMA AnyElement ==
    ASSUME NEW S, IsFiniteSet(S), NEW g, \A x \in S : g[x] \in Nat,
           NEW f \in [SUBSET S -> Nat], IsSum(f, S, g)
    PROVE  Additive(f, S, g)
<1> DEFINE Is(s) == \A x \in s : f[s] = f[s \ {x}] + g[x]
           T == {n \in Nat : \A s \in SUBSET S : Cardinality(s) = n => Is(s)}
<1>1. \A s \in SUBSET S : IsFiniteSet(s) /\ Cardinality(s) \in Nat
    BY FS_Subset, FS_CardinalityType
<1>2. 0 \in T
    <2> SUFFICES ASSUME NEW s \in SUBSET S, Cardinality(s) = 0
                 PROVE  Is(s)
        OBVIOUS
    <2>1. s = {}
        BY <1>1, FS_EmptySet
    <2> QED
        BY <2>1
<1>3. ASSUME NEW n \in T
      PROVE  n + 1 \in T
    <2> SUFFICES ASSUME NEW s \in SUBSET S, Cardinality(s) = n + 1, NEW x \in s
                 PROVE  f[s] = f[s \ {x}] + g[x]
        OBVIOUS
    <2>1. \A t \in SUBSET S : Cardinality(t) = n => Is(t)
        OBVIOUS
    <2>2. PICK c \in s : c = Some(s)
        BY SomeOf
    <2>3. f[s] = f[s \ {c}] + g[c]
        BY <2>2, SumEquations
    <2>4. CASE x = c
        BY <2>3, <2>4
    <2>5. CASE x # c
        <3>1. /\ s \ {x} \in SUBSET S /\ Cardinality(s \ {x}) = n
              /\ s \ {c} \in SUBSET S /\ Cardinality(s \ {c}) = n
            BY OneLess
        <3>2. Is(s \ {x}) /\ Is(s \ {c})
            <4> HIDE DEF Is
            <4> QED
                BY <2>1, <3>1
        <3>3. PICK r : r = f[(s \ {x}) \ {c}]
            OBVIOUS
        <3>4. (s \ {c}) \ {x} = (s \ {x}) \ {c}
            OBVIOUS
        <3>5. f[s \ {c}] = r + g[x] /\ f[s \ {x}] = r + g[c]
            BY <2>5, <3>2, <3>3, <3>4
        <3>6. r \in Nat /\ g[x] \in Nat /\ g[c] \in Nat
            BY <3>3
        <3> QED
            BY <2>3, <3>5, <3>6
    <2> QED
        BY <2>4, <2>5
<1>4. T = Nat
    <2>1. T \in SUBSET Nat
        OBVIOUS
    <2> HIDE DEF T
    <2> QED
        BY <1>2, <1>3, <2>1, ByInduction
<1>5. ASSUME NEW s \in SUBSET S
      PROVE  Is(s)
    <2>1. Cardinality(s) \in T
        BY <1>1, <1>4
    <2> HIDE DEF Is
    <2> QED
        BY <2>1
<1> QED
    BY <1>5 DEF Additive

\* What is left of the folding: a sum is a natural number, of nothing it is 0,
\* and an element more adds its value.
LEMMA Sums ==
    ASSUME NEW S, IsFiniteSet(S), NEW g, \A x \in S : g[x] \in Nat
    PROVE  /\ Sum({}, g) = 0
           /\ \A s \in SUBSET S : Sum(s, g) \in Nat
           /\ \A s \in SUBSET S : \A x \in S \ s : Sum(s \cup {x}, g) = Sum(s, g) + g[x]
<1>1. PICK f \in [SUBSET S -> Nat] : IsSum(f, S, g)
    BY SumExists
<1>2. ASSUME NEW R \in SUBSET S
      PROVE  Sum(R, g) = f[R]
    <2>1. IsFiniteSet(R) /\ \A x \in R : g[x] \in Nat
        BY FS_Subset
    <2>2. \E h : IsSum(h, R, g)
        BY <2>1, SumExists
    <2>3. PICK h : h = CHOOSE e : IsSum(e, R, g)
        OBVIOUS
    <2>4. IsSum(h, R, g)
        BY <2>2, <2>3
    <2>5. f[R] = h[R]
        BY <1>1, <2>1, <2>4, SumsAgree
    <2> QED
        BY <2>3, <2>5 DEF Sum
<1>3. {} \in SUBSET S /\ f[{}] = 0
    BY <1>1, SumEquations
<1>4. Additive(f, S, g)
    BY <1>1, AnyElement
<1>5. ASSUME NEW s \in SUBSET S, NEW x \in S \ s
      PROVE  Sum(s \cup {x}, g) = Sum(s, g) + g[x]
    <2>1. s \cup {x} \in SUBSET S /\ x \in s \cup {x} /\ (s \cup {x}) \ {x} = s
        OBVIOUS
    <2>2. PICK t \in SUBSET S : t = s \cup {x}
        BY <2>1
    <2>3. f[t] = f[t \ {x}] + g[x]
        BY <1>4, <2>1, <2>2 DEF Additive
    <2>4. f[t] = f[s] + g[x]
        BY <2>1, <2>2, <2>3
    <2> QED
        BY <1>2, <2>2, <2>4
<1> QED
    BY <1>1, <1>2, <1>3, <1>5

\* A set of subsets that has the empty one, and each of its subsets with an
\* element more, has them all, if the whole is finite.
LEMMA FiniteInduction ==
    ASSUME NEW S, IsFiniteSet(S), NEW T \in SUBSET (SUBSET S), {} \in T,
           \A s \in T : \A x \in S \ s : s \cup {x} \in T
    PROVE  T = SUBSET S
<1> DEFINE N == {n \in Nat : \A s \in SUBSET S : Cardinality(s) = n => s \in T}
<1>1. \A s \in SUBSET S : IsFiniteSet(s) /\ Cardinality(s) \in Nat
    BY FS_Subset, FS_CardinalityType
<1>2. 0 \in N
    BY <1>1, FS_EmptySet
<1>3. ASSUME NEW n \in N
      PROVE  n + 1 \in N
    <2> SUFFICES ASSUME NEW s \in SUBSET S, Cardinality(s) = n + 1
                 PROVE  s \in T
        OBVIOUS
    <2>1. n \in Nat /\ n + 1 # 0
        OBVIOUS
    <2>2. PICK x : x \in s
        BY <2>1, FS_EmptySet
    <2>3. s \ {x} \in SUBSET S /\ Cardinality(s \ {x}) = n
        BY <2>1, <2>2, OneLess
    <2>4. s \ {x} \in T
        BY <2>3
    <2>5. x \in S \ (s \ {x}) /\ (s \ {x}) \cup {x} = s
        BY <2>2
    <2> QED
        BY <2>4, <2>5
<1>4. N = Nat
    <2>1. N \in SUBSET Nat
        OBVIOUS
    <2> HIDE DEF N
    <2> QED
        BY <1>2, <1>3, <2>1, ByInduction
<1> QED
    BY <1>1, <1>4

\* The sizes of disjoint sets add up to that of their union.
LEMMA DisjointParts ==
    ASSUME NEW D, IsFiniteSet(D), NEW P, \A x \in D : IsFiniteSet(P[x]),
           \A x, y \in D : x # y => P[x] \cap P[y] = {},
           NEW g, \A x \in D : g[x] = Cardinality(P[x])
    PROVE  /\ Sum(D, g) = Cardinality(UNION {P[x] : x \in D})
           /\ IsFiniteSet(UNION {P[x] : x \in D})
<1> DEFINE Whole(s) == UNION {P[x] : x \in s}
           T == {s \in SUBSET D : IsFiniteSet(Whole(s)) /\ Sum(s, g) = Cardinality(Whole(s))}
<1>1. \A x \in D : g[x] \in Nat
    BY FS_CardinalityType
<1>2. /\ Sum({}, g) = 0
      /\ \A s \in SUBSET D : \A x \in D \ s : Sum(s \cup {x}, g) = Sum(s, g) + g[x]
    BY <1>1, Sums
<1>3. {} \in T
    <2>1. Whole({}) = {}
        OBVIOUS
    <2>2. IsFiniteSet({}) /\ Cardinality({}) = 0
        BY FS_EmptySet
    <2> QED
        BY <1>2, <2>1, <2>2
<1>4. ASSUME NEW s \in T, NEW x \in D \ s
      PROVE  s \cup {x} \in T
    <2>1. Whole(s \cup {x}) = Whole(s) \cup P[x] /\ Whole(s) \cap P[x] = {}
        OBVIOUS
    <2>2. IsFiniteSet(Whole(s)) /\ IsFiniteSet(P[x]) /\ Sum(s, g) = Cardinality(Whole(s))
        OBVIOUS
    <2>3. PICK W : W = Whole(s)
        OBVIOUS
    <2>4. /\ IsFiniteSet(W \cup P[x])
          /\ Cardinality(W \cup P[x]) = Cardinality(W) + Cardinality(P[x]) - Cardinality(W \cap P[x])
        BY <2>2, <2>3, FS_Union
    <2>5. Cardinality(W \cap P[x]) = 0 /\ Cardinality(W) \in Nat /\ Cardinality(P[x]) \in Nat
        BY <2>1, <2>2, <2>3, FS_EmptySet, FS_CardinalityType
    <2>6. Cardinality(W \cup P[x]) = Cardinality(W) + Cardinality(P[x])
        BY <2>4, <2>5
    <2>7. Sum(s \cup {x}, g) = Cardinality(W) + Cardinality(P[x])
        BY <1>2, <2>2, <2>3
    <2>8. s \cup {x} \in SUBSET D
        OBVIOUS
    <2> QED
        BY <2>1, <2>3, <2>4, <2>6, <2>7, <2>8
<1>5. T = SUBSET D
    <2>1. T \in SUBSET (SUBSET D)
        OBVIOUS
    <2> HIDE DEF T
    <2> QED
        BY <1>3, <1>4, <2>1, FiniteInduction
<1>6. D \in T
    BY <1>5
<1> QED
    BY <1>6

LEMMA EqualSums ==
    ASSUME NEW S, IsFiniteSet(S), NEW g, NEW h, \A x \in S : g[x] \in Nat /\ g[x] = h[x]
    PROVE  Sum(S, g) = Sum(S, h)
<1> DEFINE T == {s \in SUBSET S : Sum(s, g) = Sum(s, h)}
<1>1. /\ Sum({}, g) = 0
      /\ \A s \in SUBSET S : \A x \in S \ s : Sum(s \cup {x}, g) = Sum(s, g) + g[x]
    BY Sums
<1>2. \A x \in S : h[x] \in Nat
    OBVIOUS
<1>3. /\ Sum({}, h) = 0
      /\ \A s \in SUBSET S : \A x \in S \ s : Sum(s \cup {x}, h) = Sum(s, h) + h[x]
    BY <1>2, Sums
<1>4. {} \in T
    BY <1>1, <1>3
<1>5. ASSUME NEW s \in T, NEW x \in S \ s
      PROVE  s \cup {x} \in T
    BY <1>1, <1>3
<1>6. T \in SUBSET (SUBSET S)
    OBVIOUS
<1>7. T = SUBSET S
    <2> HIDE DEF T
    <2> QED
        BY <1>4, <1>5, <1>6, FiniteInduction
<1> QED
    BY <1>7

-----------------------------------------------------------------------------
\* What step says of x depends only on what it is given for those of lower rank.
LooksDown(step, M, S, rank) ==
    \A m, n \in M : \A x \in S :
        (\A y \in S : rank[y] < rank[x] => m[y] = n[y]) => step[m][x] = step[n][x]

\* A function defined by recursion over a rank exists.
Recursive(step, M, S, V, rank) ==
    /\ V # {} /\ rank \in [S -> Nat] /\ M = [S -> V] /\ step \in [M -> M]
    /\ LooksDown(step, M, S, rank)

LEMMA Recursion ==
    ASSUME NEW S, NEW V, NEW rank, NEW M, NEW step, Recursive(step, M, S, V, rank)
    PROVE  \E f \in M : f = step[f]
<1> SUFFICES ASSUME V # {}, rank \in [S -> Nat], M = [S -> V], step \in [M -> M],
                    LooksDown(step, M, S, rank)
             PROVE  \E f \in M : f = step[f]
    BY DEF Recursive
<1>1. PICK v \in V : TRUE
    OBVIOUS
<1>2. PICK zero \in M : TRUE
    <2>1. [x \in S |-> v] \in M
        BY <1>1
    <2> QED
        BY <2>1
<1>3. PICK h \in [Nat -> M] : \A n \in Nat : h[n + 1] = step[h[n]]
    <2>1. \E h : AreIterates(h, M, step, zero)
        BY <1>2, Iterates
    <2> QED
        BY <2>1 DEF AreIterates
<1> DEFINE Settled(n) == \A x \in S : rank[x] < n => h[n][x] = h[n + 1][x]
           T == {n \in Nat : Settled(n)}
<1>4. T = Nat
    <2>1. 0 \in T
        OBVIOUS
    <2>2. ASSUME NEW n \in T
          PROVE  n + 1 \in T
        <3> SUFFICES ASSUME NEW x \in S, rank[x] < n + 1
                     PROVE  h[n + 1][x] = h[(n + 1) + 1][x]
            OBVIOUS
        <3>1. n \in Nat /\ n + 1 \in Nat /\ h[n] \in M /\ h[n + 1] \in M
            OBVIOUS
        <3>2. \A y \in S : rank[y] < rank[x] => h[n][y] = h[n + 1][y]
            <4>1. \A y \in S : rank[y] \in Nat
                OBVIOUS
            <4> QED
                BY <3>1, <4>1
        <3>3. step[h[n]][x] = step[h[n + 1]][x]
            BY <3>1, <3>2 DEF LooksDown
        <3> QED
            BY <1>3, <3>1, <3>3
    <2>3. T \in SUBSET Nat
        OBVIOUS
    <2> HIDE DEF T
    <2> QED
        BY <2>1, <2>2, <2>3, ByInduction
<1>5. ASSUME NEW k \in Nat, NEW x \in S, rank[x] < k
      PROVE  h[rank[x] + 1][x] = h[k][x]
    <2> DEFINE U == {n \in Nat : rank[x] < n => h[rank[x] + 1][x] = h[n][x]}
    <2>1. PICK r \in Nat : r = rank[x]
        OBVIOUS
    <2>2. 0 \in U
        <3>1. ~(rank[x] < 0)
            BY <2>1
        <3> QED
            BY <3>1
    <2>3. ASSUME NEW n \in U
          PROVE  n + 1 \in U
        <3>1. n \in Nat /\ n + 1 \in Nat /\ Settled(n)
            <4>1. n \in T
                <5> HIDE DEF T
                <5> QED
                    BY <1>4
            <4> QED
                BY <4>1
        <3>2. CASE r < n
            BY <2>1, <3>1, <3>2
        <3>3. CASE ~(r < n)
            <4>1. r < n + 1 => n = r
                BY <3>1, <3>3
            <4> QED
                BY <2>1, <3>1, <4>1
        <3> QED
            BY <3>2, <3>3
    <2>4. U \in SUBSET Nat
        OBVIOUS
    <2>5. k \in U
        <3> HIDE DEF U
        <3> QED
            BY <2>2, <2>3, <2>4, ByInduction
    <2> QED
        BY <2>5, <1>5
<1>6. PICK f : f = [x \in S |-> h[rank[x] + 1][x]]
    OBVIOUS
<1>7. f \in M
    <2>1. ASSUME NEW x \in S
          PROVE  h[rank[x] + 1][x] \in V
        <3>1. rank[x] + 1 \in Nat
            OBVIOUS
        <3> QED
            BY <3>1
    <2> QED
        BY <1>6, <2>1
<1>8. ASSUME NEW x \in S
      PROVE  f[x] = step[f][x]
    <2>1. PICK r \in Nat : r = rank[x]
        OBVIOUS
    <2>2. h[r] \in M /\ \A y \in S : rank[y] < rank[x] => f[y] = h[r][y]
        BY <1>5, <1>6, <2>1
    <2>3. step[f][x] = step[h[r]][x]
        BY <1>7, <2>2 DEF LooksDown
    <2> QED
        BY <1>3, <1>6, <2>1, <2>3
<1>9. f = step[f]
    <2>1. step[f] \in M
        BY <1>7
    <2> QED
        BY <1>7, <1>8, <2>1
<1> QED
    BY <1>7, <1>9
=============================================================================
