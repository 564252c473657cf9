------------------------------- MODULE SumProofs -------------------------------
(***************************************************************************)
(* Facts about the folds of the community modules, for any finite domain:  *)
(* what SumFunction adds up and how a change of one value changes the sum, *)
(* that what a FoldLeft builds stays in the set its steps stay in, and what*)
(* it makes of a sequence that grows by an element; and how many elements  *)
(* of a sequence are in a set.  They are the inductions over finite sets   *)
(* that other proofs rest on, each made by a smallest subset that would    *)
(* refute it.                                                              *)
(***************************************************************************)
EXTENDS Integers, Sequences, FiniteSets, SequencesExt, FiniteSetTheorems, SequenceTheorems,
        TLAPS

(***************************************************************************)
(* Sums.  SumFunction adds the values in an order it chooses; a Tally adds *)
(* them up in any order, for every subset of the domain.                   *)
(***************************************************************************)
Tally(f, S, t) ==
  /\ t \in [SUBSET S -> Int]
  /\ t[{}] = 0
  /\ \A T \in SUBSET S : \A x \in T : t[T] = f[x] + t[T \ {x}]

\* What the fold computes for every subset of the domain.
FirstOf(T) == CHOOSE x \in T : TRUE
Chosen(f, S, t) ==
  t = [T \in SUBSET S |-> IF T = {} THEN 0 ELSE f[FirstOf(T)] + t[T \ {FirstOf(T)}]]

LEMMA MinimalSubset ==
  ASSUME NEW S, IsFiniteSet(S), NEW B, B \subseteq SUBSET S, B # {}
  PROVE  \E T \in B : \A U \in SUBSET T : U # T => U \notin B
<1> DEFINE R == StrictSubsetOrdering(S)
<1>1. IsWellFoundedOn(R, SUBSET S)
  BY FS_StrictSubsetOrderingWellFounded, FS_FiniteSubsetsOfFinite
<1> HIDE DEF R
<1>2. PICK T \in B : \A U \in B : ~ (<<U, T>> \in R)
  BY <1>1, WFMin
<1>3. ASSUME NEW U \in SUBSET T, U # T
      PROVE  U \notin B
  <2>1. <<U, T>> \in R
    BY <1>3 DEF R, StrictSubsetOrdering
  <2>2. QED
    BY <1>2, <2>1
<1>4. QED
  BY <1>3

LEMMA TallyExists ==
  ASSUME NEW S, IsFiniteSet(S), NEW f, \A x \in S : f[x] \in Int
  PROVE  \E t : Tally(f, S, t)
<1> DEFINE B == {T \in SUBSET S : ~ \E t : Tally(f, T, t)}
<1>1. SUFFICES ASSUME B # {} PROVE FALSE
  <2>1. S \in SUBSET S
    OBVIOUS
  <2>2. QED
    BY <1>1, <2>1
<1>2. PICK T \in B : \A U \in SUBSET T : U # T => U \notin B
  <2> HIDE DEF B
  <2>1. B \subseteq SUBSET S
    BY DEF B
  <2>2. QED
    BY <1>1, <2>1, MinimalSubset
<1>3. CASE T = {}
  <2> DEFINE t == [U \in SUBSET {} |-> 0]
  <2>1. Tally(f, {}, t)
    BY DEF Tally
  <2>2. QED
    BY <1>2, <1>3, <2>1
<1>4. ASSUME NEW a \in T
      PROVE  FALSE
  <2> DEFINE Rest == T \ {a}
  <2>1. Rest \in SUBSET T /\ Rest # T /\ Rest \in SUBSET S
    BY <1>2, <1>4
  <2>2. PICK t : Tally(f, Rest, t)
    BY <1>2, <2>1
  <2> DEFINE n == [U \in SUBSET T |-> IF a \in U THEN f[a] + t[U \ {a}] ELSE t[U]]
  <2>3. f[a] \in Int
    BY <1>2, <1>4
  <2>4. n \in [SUBSET T -> Int]
    <3>1. \A U \in SUBSET T : /\ U \ {a} \in SUBSET Rest
                              /\ a \notin U => U \in SUBSET Rest
      OBVIOUS
    <3> HIDE DEF Rest
    <3>2. \A V \in SUBSET Rest : t[V] \in Int
      BY <2>2 DEF Tally
    <3>3. ASSUME NEW U \in SUBSET T
          PROVE  (IF a \in U THEN f[a] + t[U \ {a}] ELSE t[U]) \in Int
      BY <2>3, <3>1, <3>2
    <3>4. QED
      BY <3>3
  <2>5. n[{}] = 0
    BY <2>2 DEF Tally
  <2>6. ASSUME NEW U \in SUBSET T, NEW x \in U
        PROVE  n[U] = f[x] + n[U \ {x}]
    <3>1. CASE x = a
      <4>1. n[U \ {a}] = t[U \ {a}]
        OBVIOUS
      <4>2. n[U] = f[a] + t[U \ {a}]
        BY <2>6, <3>1
      <4>3. QED
        BY <3>1, <4>1, <4>2
    <3>2. CASE x # a /\ a \in U
      <4> DEFINE V == U \ {a}
                 W == (U \ {x}) \ {a}
      <4>1. V \in SUBSET Rest /\ x \in V /\ V \ {x} = W /\ W \in SUBSET Rest
        BY <2>6, <3>2
      <4>2. n[U] = f[a] + t[V] /\ n[U \ {x}] = f[a] + t[W]
        BY <2>6, <3>2
      <4>3. f[x] \in Int
        BY <1>2, <2>6
      <4> HIDE DEF n, V, W, Rest
      <4>4. t[V] = f[x] + t[W] /\ t[V] \in Int /\ t[W] \in Int
        BY <2>2, <4>1 DEF Tally
      <4>5. QED
        BY <2>3, <4>2, <4>3, <4>4
    <3>3. CASE a \notin U
      <4>1. U \in SUBSET Rest /\ a \notin U \ {x}
        BY <3>3
      <4>2. n[U] = t[U] /\ n[U \ {x}] = t[U \ {x}]
        BY <3>3, <4>1
      <4> HIDE DEF n, Rest
      <4>3. QED
        BY <2>2, <2>6, <4>1, <4>2 DEF Tally
    <3>4. QED
      BY <3>1, <3>2, <3>3
  <2> HIDE DEF n
  <2>7. Tally(f, T, n)
    BY <2>4, <2>5, <2>6 DEF Tally
  <2>8. QED
    BY <1>2, <2>7
<1>5. QED
  BY <1>3, <1>4

LEMMA TallyIsChosen ==
  ASSUME NEW S, NEW f, NEW t, Tally(f, S, t)
  PROVE  Chosen(f, S, t)
<1>1. \A T \in SUBSET S : T # {} => FirstOf(T) \in T
  BY DEF FirstOf
<1>2. \A T \in SUBSET S : t[T] = IF T = {} THEN 0 ELSE f[FirstOf(T)] + t[T \ {FirstOf(T)}]
  BY <1>1 DEF Tally
<1>3. t = [T \in SUBSET S |-> t[T]]
  BY DEF Tally
<1>4. QED
  BY <1>2, <1>3 DEF Chosen

\* Two of them agree where their functions do.
LEMMA ChosenAgree ==
  ASSUME NEW S, IsFiniteSet(S), NEW f, NEW g, NEW t, NEW u,
         Chosen(f, S, t), Chosen(g, S, u),
         NEW D \in SUBSET S, \A x \in D : f[x] = g[x]
  PROVE  t[D] = u[D]
<1> DEFINE B == {T \in SUBSET D : t[T] # u[T]}
<1>1. SUFFICES ASSUME B # {} PROVE FALSE
  <2>1. D \in SUBSET D
    OBVIOUS
  <2>2. QED
    BY <1>1, <2>1
<1>2. IsFiniteSet(D)
  BY FS_Subset
<1>3. PICK T \in B : \A U \in SUBSET T : U # T => U \notin B
  <2> HIDE DEF B
  <2>1. B \subseteq SUBSET D
    BY DEF B
  <2>2. QED
    BY <1>1, <1>2, <2>1, MinimalSubset
<1>4. /\ t[T] = IF T = {} THEN 0 ELSE f[FirstOf(T)] + t[T \ {FirstOf(T)}]
      /\ u[T] = IF T = {} THEN 0 ELSE g[FirstOf(T)] + u[T \ {FirstOf(T)}]
  BY DEF Chosen
<1>5. CASE T # {}
  <2>1. FirstOf(T) \in T
    BY <1>5 DEF FirstOf
  <2> DEFINE U == T \ {FirstOf(T)}
  <2>2. U \in SUBSET T /\ U # T /\ U \in SUBSET D
    BY <2>1
  <2>3. t[U] = u[U]
    BY <1>3, <2>2
  <2>4. f[FirstOf(T)] = g[FirstOf(T)]
    BY <2>1
  <2>5. QED
    BY <1>3, <1>4, <1>5, <2>3, <2>4
<1>6. QED
  BY <1>3, <1>4, <1>5

\* SumFunction gives the tally of the whole domain.
LEMMA SumIsTally ==
  ASSUME NEW f, IsFiniteSet(DOMAIN f), NEW t, Tally(f, DOMAIN f, t)
  PROVE  SumFunction(f) = t[DOMAIN f]
<1> DEFINE S == DOMAIN f
           it == CHOOSE u : Chosen(f, S, u)
<1>1. SumFunction(f) = it[S]
  BY DEF SumFunction, SumFunctionOnSet, FoldFunctionOnSet, MapThenFoldSet, Chosen, FirstOf
<1>2. Chosen(f, S, t)
  BY TallyIsChosen
<1>3. Chosen(f, S, it)
  <2> HIDE DEF S
  <2>1. QED
    BY <1>2
<1> HIDE DEF it, S
<1>4. IsFiniteSet(S)
  BY DEF S
<1>5. it[S] = t[S]
  BY <1>2, <1>3, <1>4, ChosenAgree
<1>6. QED
  BY <1>1, <1>5 DEF S

LEMMA SumIsInt ==
  ASSUME NEW S, IsFiniteSet(S), NEW f \in [S -> Int]
  PROVE  SumFunction(f) \in Int
<1>1. PICK t : Tally(f, S, t)
  BY TallyExists
<1>2. t[S] \in Int
  BY <1>1 DEF Tally
<1>3. QED
  BY <1>1, <1>2, SumIsTally

LEMMA SumOfZeros ==
  ASSUME NEW S, IsFiniteSet(S)
  PROVE  SumFunction([x \in S |-> 0]) = 0
<1> DEFINE f == [x \in S |-> 0]
           t == [T \in SUBSET S |-> 0]
<1>1. Tally(f, S, t)
  BY DEF Tally
<1>2. DOMAIN f = S /\ t[S] = 0
  OBVIOUS
<1> HIDE DEF f, t
<1>3. SumFunction(f) = t[S]
  BY <1>1, <1>2, SumIsTally
<1>4. QED
  BY <1>2, <1>3 DEF f

\* g is f but for the value v of a.
Changed(S, f, a, v, g) == f \in [S -> Int] /\ g = [f EXCEPT ![a] = v]

\* A sum follows the value that is changed.
LEMMA SumUpdated ==
  ASSUME NEW S, IsFiniteSet(S), NEW f, NEW a \in S, NEW v \in Int,
         NEW g, Changed(S, f, a, v, g)
  PROVE  SumFunction(g) = SumFunction(f) - f[a] + v
<1> DEFINE Rest == S \ {a}
<1>1. /\ f \in [S -> Int] /\ g \in [S -> Int] /\ g[a] = v
      /\ \A x \in Rest : f[x] = g[x]
  BY DEF Changed
<1>2. PICK t : Tally(f, S, t)
  BY <1>1, TallyExists
<1>3. PICK u : Tally(g, S, u)
  BY <1>1, TallyExists
<1>4. Rest \in SUBSET S
  OBVIOUS
<1>5. t[S] = f[a] + t[Rest] /\ u[S] = v + u[Rest]
  BY <1>1, <1>2, <1>3 DEF Tally
<1>6. t[Rest] \in Int /\ t[S] \in Int
  BY <1>2, <1>4 DEF Tally
<1> HIDE DEF Rest
<1>7. t[Rest] = u[Rest]
  <2>1. Chosen(f, S, t) /\ Chosen(g, S, u)
    BY <1>2, <1>3, TallyIsChosen
  <2>2. QED
    BY <1>1, <1>4, <2>1, ChosenAgree
<1>8. SumFunction(f) = t[S] /\ SumFunction(g) = u[S]
  BY <1>1, <1>2, <1>3, SumIsTally
<1>9. f[a] \in Int
  BY <1>1
<1>10. QED
  BY <1>5, <1>6, <1>7, <1>8, <1>9

\* g is f on a larger domain, and zero where it is new.
Extended(S, f, T, g) ==
  /\ S \subseteq T /\ f \in [S -> Int] /\ g \in [T -> Int]
  /\ \A x \in S : g[x] = f[x]
  /\ \A x \in T \ S : g[x] = 0

\* Zeros do not change a sum.
LEMMA SumExtended ==
  ASSUME NEW S, NEW T, IsFiniteSet(T), NEW f, NEW g, Extended(S, f, T, g)
  PROVE  SumFunction(g) = SumFunction(f)
<1>1. /\ S \subseteq T /\ f \in [S -> Int] /\ g \in [T -> Int]
      /\ \A x \in S : g[x] = f[x]
      /\ \A x \in T \ S : g[x] = 0
  BY DEF Extended
<1>2. PICK t : Tally(g, T, t)
  BY <1>1, TallyExists
<1>3. /\ t \in [SUBSET T -> Int] /\ t[{}] = 0
      /\ \A U \in SUBSET T : \A x \in U : t[U] = g[x] + t[U \ {x}]
  BY <1>2 DEF Tally
<1> DEFINE u == [U \in SUBSET S |-> t[U]]
<1>4. Tally(f, S, u)
  <2>1. u \in [SUBSET S -> Int] /\ u[{}] = 0
    BY <1>1, <1>3
  <2>2. ASSUME NEW U \in SUBSET S, NEW x \in U
        PROVE  u[U] = f[x] + u[U \ {x}]
    <3>1. U \in SUBSET T /\ U \ {x} \in SUBSET S /\ g[x] = f[x]
      BY <1>1
    <3>2. QED
      BY <1>3, <3>1
  <2> HIDE DEF u
  <2>3. QED
    BY <2>1, <2>2 DEF Tally
<1>5. u[S] = t[S]
  OBVIOUS
<1> HIDE DEF u
<1>6. IsFiniteSet(S)
  BY <1>1, FS_Subset
<1>7. SumFunction(g) = t[T] /\ SumFunction(f) = t[S]
  BY <1>1, <1>2, <1>4, <1>5, <1>6, SumIsTally
<1> DEFINE B == {U \in SUBSET T : S \subseteq U /\ t[U] # t[S]}
<1>8. SUFFICES ASSUME B # {} PROVE FALSE
  BY <1>1, <1>7, <1>8
<1>9. PICK U \in B : \A W \in SUBSET U : W # U => W \notin B
  <2> HIDE DEF B
  <2>1. B \subseteq SUBSET T
    BY DEF B
  <2>2. QED
    BY <1>8, <2>1, MinimalSubset
<1>10. PICK x \in U : x \notin S
  BY <1>9
<1>11. t[U \ {x}] = t[S]
  BY <1>1, <1>9, <1>10
<1>12. t[U] = g[x] + t[U \ {x}] /\ g[x] = 0 /\ t[S] \in Int
  BY <1>1, <1>3, <1>9, <1>10
<1>13. QED
  BY <1>9, <1>11, <1>12

-----------------------------------------------------------------------------
(***************************************************************************)
(* Folds over a sequence.  FoldLeft takes the last element first off the   *)
(* domain, so that a fold over a subset is one over the rest and its       *)
(* largest index.                                                          *)
(***************************************************************************)
LEMMA HasLargest ==
  ASSUME NEW S, IsFiniteSet(S), S # {}, S \subseteq Int
  PROVE  Max(S) \in S /\ \A x \in S : Max(S) >= x
<1> DEFINE Large(T) == \E m \in T : \A x \in T : m >= x
           B == {T \in SUBSET S : T # {} /\ ~Large(T)}
<1>1. SUFFICES Large(S)
  <2>1. Max(S) = CHOOSE m \in S : \A x \in S : m >= x
    BY DEF Max
  <2>2. QED
    BY <1>1, <2>1
<1>2. SUFFICES ASSUME B # {} PROVE FALSE
  BY <1>2
<1>3. PICK T \in B : \A U \in SUBSET T : U # T => U \notin B
  <2> HIDE DEF B
  <2>1. B \subseteq SUBSET S
    BY DEF B
  <2>2. QED
    BY <1>2, <2>1, MinimalSubset
<1>4. PICK a \in T : TRUE
  BY <1>3
<1>5. CASE T \ {a} = {}
  BY <1>3, <1>4, <1>5
<1>6. CASE T \ {a} # {}
  <2> DEFINE Rest == T \ {a}
  <2>1. Rest \in SUBSET T /\ Rest # T /\ Rest # {} /\ Rest \in SUBSET S
    BY <1>3, <1>4, <1>6
  <2>2. Large(Rest)
    <3> HIDE DEF Rest, Large
    <3>1. QED
      BY <1>3, <2>1
  <2>3. PICK m \in Rest : \A x \in Rest : m >= x
    BY <2>2
  <2>4. T \subseteq Int
    BY <1>3
  <2>5. Large(T)
    <3>1. CASE m >= a
      BY <2>3, <2>4, <3>1
    <3>2. CASE ~(m >= a)
      <4>1. \A x \in T : a >= x
        BY <1>4, <2>3, <2>4, <3>2
      <4>2. QED
        BY <1>4, <4>1
    <3>3. QED
      BY <3>1, <3>2
  <2>6. QED
    BY <1>3, <2>5
<1>7. QED
  BY <1>5, <1>6

\* What is computed of every set of indices, when each step g stays within V.
StepsOf(D, V, base, g, it) ==
  /\ it \in [SUBSET D -> V]
  /\ \A s \in SUBSET D :
       it[s] = IF s = {} THEN base ELSE g[<<it[s \ {Max(s)}], Max(s)>>]

LEMMA StepsExist ==
  ASSUME NEW D, IsFiniteSet(D), D \subseteq Int, NEW V, NEW base \in V, NEW g,
         \A v \in V, i \in D : g[<<v, i>>] \in V
  PROVE  \E it : StepsOf(D, V, base, g, it)
<1> USE DEF StepsOf
<1> DEFINE Steps(T, it) == StepsOf(T, V, base, g, it)
           B == {T \in SUBSET D : ~ \E it : Steps(T, it)}
<1>1. SUFFICES ASSUME B # {} PROVE FALSE
  <2>1. D \in SUBSET D
    OBVIOUS
  <2>2. \E it : Steps(D, it)
    BY <1>1, <2>1
  <2>3. QED
    BY <2>2
<1>2. PICK T \in B : \A U \in SUBSET T : U # T => U \notin B
  <2> HIDE DEF B
  <2>1. B \subseteq SUBSET D
    BY DEF B
  <2>2. QED
    BY <1>1, <2>1, MinimalSubset
<1>3. CASE T = {}
  <2>1. Steps({}, [s \in SUBSET {} |-> base])
    OBVIOUS
  <2> HIDE DEF Steps
  <2>2. QED
    BY <1>2, <1>3, <2>1
<1>4. CASE T # {}
  <2> DEFINE m == Max(T)
             Rest == T \ {m}
  <2>1. T \in SUBSET D /\ T \subseteq Int /\ IsFiniteSet(T)
    BY <1>2, FS_Subset
  <2>2. m \in T /\ \A x \in T : m >= x
    BY <1>4, <2>1, HasLargest
  <2>3. \A s \in SUBSET T : m \in s => Max(s) = m
    <3>1. SUFFICES ASSUME NEW s \in SUBSET T, m \in s PROVE Max(s) = m
      OBVIOUS
    <3> HIDE DEF m
    <3>2. IsFiniteSet(s) /\ s # {} /\ s \subseteq Int
      BY <2>1, <3>1, FS_Subset
    <3>3. Max(s) \in s /\ Max(s) >= m
      BY <3>1, <3>2, HasLargest
    <3>4. Max(s) \in Int /\ m \in Int /\ m >= Max(s)
      BY <2>1, <2>2, <3>2, <3>3
    <3>5. QED
      BY <3>3, <3>4
  <2> HIDE DEF m
  <2>4. Rest \in SUBSET T /\ Rest # T /\ Rest \in SUBSET D
    BY <2>1, <2>2
  <2>5. PICK t : Steps(Rest, t)
    BY <1>2, <2>4
  <2> DEFINE n == [s \in SUBSET T |-> IF m \in s THEN g[<<t[s \ {m}], m>>] ELSE t[s]]
  <2>6. \A s \in SUBSET T : /\ s \ {m} \in SUBSET Rest
                            /\ m \notin s => s \in SUBSET Rest
    OBVIOUS
  <2> HIDE DEF Rest
  <2>7. \A s \in SUBSET Rest : t[s] \in V
    BY <2>5
  <2>8. n \in [SUBSET T -> V]
    <3>1. ASSUME NEW s \in SUBSET T
          PROVE  (IF m \in s THEN g[<<t[s \ {m}], m>>] ELSE t[s]) \in V
      BY <2>1, <2>2, <2>6, <2>7
    <3>2. QED
      BY <3>1
  <2>9. ASSUME NEW s \in SUBSET T
        PROVE  n[s] = IF s = {} THEN base ELSE g[<<n[s \ {Max(s)}], Max(s)>>]
    <3>1. CASE m \in s
      <4>1. Max(s) = m /\ s # {} /\ s \ {m} \in SUBSET T
        BY <2>3, <3>1
      <4>2. n[s] = g[<<t[s \ {m}], m>>] /\ n[s \ {m}] = t[s \ {m}]
        BY <3>1, <4>1
      <4>3. QED
        BY <4>1, <4>2
    <3>2. CASE m \notin s
      <4>1. s \ {Max(s)} \in SUBSET T /\ m \notin s \ {Max(s)} /\ s \in SUBSET Rest
        BY <2>6, <3>2
      <4>2. n[s] = t[s] /\ n[s \ {Max(s)}] = t[s \ {Max(s)}]
        BY <3>2, <4>1
      <4>3. t[s] = IF s = {} THEN base ELSE g[<<t[s \ {Max(s)}], Max(s)>>]
        BY <2>5, <4>1
      <4>4. QED
        BY <4>2, <4>3
    <3>3. QED
      BY <3>1, <3>2
  <2> HIDE DEF n
  <2>10. Steps(T, n)
    BY <2>8, <2>9
  <2> HIDE DEF Steps
  <2>11. QED
    BY <1>2, <2>10
<1>5. QED
  BY <1>3, <1>4

LEMMA StepsStay ==
  ASSUME NEW D, IsFiniteSet(D), D \subseteq Int, NEW V, NEW u, u[{}] \in V,
         \A s \in SUBSET D : s # {} /\ u[s \ {Max(s)}] \in V => u[s] \in V
  PROVE  u[D] \in V
<1> DEFINE B == {s \in SUBSET D : u[s] \notin V}
<1>1. SUFFICES ASSUME B # {} PROVE FALSE
  <2>1. D \in SUBSET D
    OBVIOUS
  <2>2. QED
    BY <1>1, <2>1
<1>2. PICK T \in B : \A U \in SUBSET T : U # T => U \notin B
  <2> HIDE DEF B
  <2>1. B \subseteq SUBSET D
    BY DEF B
  <2>2. QED
    BY <1>1, <2>1, MinimalSubset
<1>3. T # {} /\ T \in SUBSET D
  BY <1>2
<1>4. IsFiniteSet(T) /\ T \subseteq Int
  BY <1>3, FS_Subset
<1>5. Max(T) \in T
  BY <1>3, <1>4, HasLargest
<1> DEFINE m == Max(T)
           U == T \ {m}
<1>6. U \in SUBSET T /\ U # T /\ U \in SUBSET D
  <2>1. m \in T
    BY <1>5
  <2> HIDE DEF m
  <2>2. QED
    BY <1>3, <2>1
<1>7. u[U] \in V
  BY <1>2, <1>6
<1>8. QED
  BY <1>2, <1>3, <1>7

-----------------------------------------------------------------------------
(***************************************************************************)
(* Sequences that grow at their end.                                       *)
(***************************************************************************)
\* What holds of the empty sequence and survives an Append holds of all.
LEMMA GrowsToAll ==
  ASSUME NEW T, NEW X, <<>> \in X,
         \A q \in Seq(T), t \in T : q \in X => Append(q, t) \in X
  PROVE  Seq(T) \subseteq X
<1> SUFFICES ASSUME NEW q \in Seq(T), q \notin X PROVE FALSE
  OBVIOUS
<1> DEFINE n == Len(q)
           B == {U \in SUBSET (1..n) : \E k \in 0..n : U = 1..k /\ SubSeq(q, 1, k) \notin X}
<1>1. n \in Nat /\ IsFiniteSet(1..n)
  BY FS_Interval, LenProperties
<1>2. 1..n \in B
  <2>1. SubSeq(q, 1, n) = q /\ n \in 0..n /\ 1..n \in SUBSET (1..n)
    BY <1>1, SubSeqFull
  <2>2. QED
    BY <2>1
<1>3. PICK U \in B : \A W \in SUBSET U : W # U => W \notin B
  <2> HIDE DEF B
  <2>1. B \subseteq SUBSET (1..n)
    BY DEF B
  <2>2. B # {}
    BY <1>2
  <2>3. QED
    BY <1>1, <2>1, <2>2, MinimalSubset
<1>4. PICK k \in 0..n : U = 1..k /\ SubSeq(q, 1, k) \notin X
  BY <1>3
<1>5. k # 0
  <2>1. SubSeq(q, 1, 0) = <<>>
    BY SubSeqEmpty
  <2>2. QED
    BY <1>4, <2>1
<1> DEFINE m == k - 1
<1>6. m \in 0..n /\ 1..m \in SUBSET U /\ 1..m # U /\ 1..m \in SUBSET (1..n)
  <2>1. k \in 1..n /\ k \in Int
    BY <1>1, <1>4, <1>5
  <2>2. k \in U /\ k \notin 1..m
    BY <1>4, <2>1
  <2>3. 1..m \subseteq 1..k /\ 1..m \subseteq 1..n
    BY <1>1, <2>1
  <2>4. QED
    BY <1>1, <1>4, <2>1, <2>2, <2>3
<1>7. SubSeq(q, 1, m) \in X
  BY <1>3, <1>6
<1>8. SubSeq(q, 1, k) = Append(SubSeq(q, 1, m), q[k]) /\ q[k] \in T /\ SubSeq(q, 1, m) \in Seq(T)
  <2>1. k \in 1..n
    BY <1>1, <1>4, <1>5
  <2>2. QED
    BY <1>1, <1>5, <1>6, <2>1
<1>9. QED
  BY <1>4, <1>7, <1>8

\* What a fold computes of each set of indices, as long as it stays in V.
Iterates(q, base, g, V, it) ==
  /\ it[{}] = base
  /\ \A s \in SUBSET DOMAIN q :
       s # {} /\ it[s \ {Max(s)}] \in V => it[s] = g[<<it[s \ {Max(s)}], q[Max(s)]>>]

\* A fold from base by steps g over elements of T that stays in V.
StaysIn(T, V, base, g) == base \in V /\ \A v \in V, t \in T : g[<<v, t>>] \in V
FoldOf(q, base, g, V, it) ==
  /\ it \in [SUBSET DOMAIN q -> V]
  /\ \A s \in SUBSET DOMAIN q :
       it[s] = IF s = {} THEN base ELSE g[<<it[s \ {Max(s)}], q[Max(s)]>>]
IsFold(T, V, base, g, fold) ==
  \A q \in Seq(T) : \E it : Iterates(q, base, g, V, it) /\ fold[q] = it[DOMAIN q]

LEMMA Indices ==
  ASSUME NEW T, NEW q \in Seq(T)
  PROVE  /\ IsFiniteSet(DOMAIN q) /\ DOMAIN q \subseteq Int /\ Len(q) \in Nat
         /\ DOMAIN q = 1..Len(q) /\ \A n \in DOMAIN q : q[n] \in T
         /\ \A s \in SUBSET DOMAIN q : s # {} => Max(s) \in s /\ Max(s) \in DOMAIN q
<1>1. Len(q) \in Nat /\ DOMAIN q = 1..Len(q) /\ \A n \in DOMAIN q : q[n] \in T
  BY LenProperties
<1>2. IsFiniteSet(DOMAIN q) /\ DOMAIN q \subseteq Int
  BY <1>1, FS_Interval
<1>3. ASSUME NEW s \in SUBSET DOMAIN q, s # {}
      PROVE  Max(s) \in s /\ Max(s) \in DOMAIN q
  <2>1. IsFiniteSet(s) /\ s \subseteq Int
    BY <1>2, FS_Subset
  <2>2. Max(s) \in s
    BY <1>3, <2>1, HasLargest
  <2>3. QED
    BY <2>2
<1>4. QED
  BY <1>1, <1>2, <1>3

\* A fold whose steps stay in V exists,
LEMMA FoldExists ==
  ASSUME NEW T, NEW V, NEW base, NEW g, StaysIn(T, V, base, g), NEW q \in Seq(T)
  PROVE  \E it : FoldOf(q, base, g, V, it)
<1> USE DEF StaysIn
<1> DEFINE D == DOMAIN q
           h == [p \in V \X D |-> g[<<p[1], q[p[2]]>>]]
<1>1. \A v \in V, n \in D : h[<<v, n>>] = g[<<v, q[n]>>] /\ h[<<v, n>>] \in V
  BY Indices
<1>2. IsFiniteSet(D) /\ D \subseteq Int /\ \A s \in SUBSET D : s # {} => Max(s) \in D
  BY Indices
<1> HIDE DEF D, h
<1>3. PICK it : StepsOf(D, V, base, h, it)
  BY <1>1, <1>2, StepsExist
<1>4. ASSUME NEW s \in SUBSET D
      PROVE  it[s] = IF s = {} THEN base ELSE g[<<it[s \ {Max(s)}], q[Max(s)]>>]
  <2>1. it[s] = IF s = {} THEN base ELSE h[<<it[s \ {Max(s)}], Max(s)>>]
    BY <1>3 DEF StepsOf
  <2>2. s # {} => it[s \ {Max(s)}] \in V
    BY <1>3 DEF StepsOf
  <2>3. QED
    BY <1>1, <1>2, <2>1, <2>2
<1>5. QED
  BY <1>3, <1>4 DEF FoldOf, StepsOf, D

\* and takes a step for each element that is appended.
LEMMA FoldGrows ==
  ASSUME NEW T, NEW V, NEW base, NEW g, StaysIn(T, V, base, g),
         NEW fold, IsFold(T, V, base, g, fold)
  PROVE  /\ fold[<<>>] = base
         /\ \A q \in Seq(T) : fold[q] \in V
         /\ \A q \in Seq(T), t \in T : fold[Append(q, t)] = g[<<fold[q], t>>]
<1> USE DEF StaysIn, IsFold
<1>1. fold[<<>>] = base
  <2>1. <<>> \in Seq(T) /\ DOMAIN <<>> = {}
    OBVIOUS
  <2>2. PICK it : Iterates(<<>>, base, g, V, it) /\ fold[<<>>] = it[DOMAIN <<>>]
    BY <2>1
  <2>3. QED
    BY <2>1, <2>2 DEF Iterates
<1>2. ASSUME NEW q \in Seq(T), NEW a, NEW ia, NEW iq, \A n \in DOMAIN q : a[n] = q[n],
             DOMAIN q \subseteq DOMAIN a,
             Iterates(q, base, g, V, iq), Iterates(a, base, g, V, ia)
      PROVE  ia[DOMAIN q] = iq[DOMAIN q] /\ iq[DOMAIN q] \in V
  <2> DEFINE D == DOMAIN q
             B == {s \in SUBSET D : ia[s] # iq[s] \/ iq[s] \notin V}
  <2>1. SUFFICES ASSUME B # {} PROVE FALSE
    <3>1. D \in SUBSET D
      OBVIOUS
    <3>2. QED
      BY <2>1, <3>1
  <2>2. PICK s \in B : \A W \in SUBSET s : W # s => W \notin B
    <3> HIDE DEF B
    <3>1. B \subseteq SUBSET D /\ IsFiniteSet(D)
      BY Indices DEF B
    <3>2. QED
      BY <2>1, <3>1, MinimalSubset
  <2>3. s # {}
    BY <1>2, <2>2 DEF Iterates
  <2> DEFINE m == Max(s)
             r == s \ {m}
  <2>4. m \in s /\ m \in D /\ q[m] \in T /\ s \in SUBSET D
    BY <2>2, <2>3, Indices
  <2> HIDE DEF m
  <2>5. r \in SUBSET s /\ r # s /\ r \in SUBSET D
    BY <2>4
  <2>6. ia[r] = iq[r] /\ iq[r] \in V
    BY <2>2, <2>5
  <2>7. iq[s] = g[<<iq[r], q[m]>>]
    BY <1>2, <2>3, <2>4, <2>6 DEF Iterates, m
  <2>8. ia[s] = g[<<ia[r], a[m]>>]
    <3>1. s \in SUBSET DOMAIN a /\ ia[r] \in V
      BY <1>2, <2>4, <2>6
    <3>2. QED
      BY <1>2, <2>3, <3>1 DEF Iterates, m
  <2>9. g[<<iq[r], q[m]>>] \in V
    BY <2>4, <2>6
  <2>10. QED
    BY <1>2, <2>2, <2>4, <2>6, <2>7, <2>8, <2>9
<1>3. ASSUME NEW q \in Seq(T) PROVE fold[q] \in V
  <2>1. PICK iq : Iterates(q, base, g, V, iq) /\ fold[q] = iq[DOMAIN q]
    OBVIOUS
  <2>2. QED
    BY <1>2, <2>1
<1>4. ASSUME NEW q \in Seq(T), NEW t \in T
      PROVE  fold[Append(q, t)] = g[<<fold[q], t>>]
  <2> DEFINE a == Append(q, t)
             n == Len(q) + 1
             E == DOMAIN a
  <2>1. /\ a \in Seq(T) /\ a[n] = t /\ E = 1..n /\ Len(q) \in Nat
        /\ DOMAIN q = 1..Len(q) /\ \A i \in DOMAIN q : a[i] = q[i]
    BY AppendProperties, LenProperties
  <2>2. PICK iq : Iterates(q, base, g, V, iq) /\ fold[q] = iq[DOMAIN q]
    OBVIOUS
  <2> HIDE DEF a
  <2>3. PICK ia : Iterates(a, base, g, V, ia) /\ fold[a] = ia[E]
    BY <2>1
  <2>4. ia[DOMAIN q] = iq[DOMAIN q] /\ iq[DOMAIN q] \in V
    <3>1. DOMAIN q \subseteq DOMAIN a
      BY <2>1
    <3>2. QED
      BY <1>2, <2>1, <2>2, <2>3, <3>1
  <2>5. Max(E) = n /\ E # {} /\ E \ {n} = DOMAIN q
    <3>1. n \in E /\ IsFiniteSet(E) /\ E \subseteq Int
      BY <2>1, FS_Interval
    <3>2. Max(E) \in E /\ \A x \in E : Max(E) >= x
      BY <3>1, HasLargest
    <3>3. Max(E) \in 1..n /\ Max(E) >= n
      BY <2>1, <3>1, <3>2
    <3> DEFINE m == Max(E)
    <3>4. m \in 1..n /\ m >= n
      BY <3>3
    <3> HIDE DEF m
    <3>5. m = n
      BY <2>1, <3>4
    <3>6. E \ {n} = DOMAIN q
      BY <2>1
    <3>7. QED
      BY <3>1, <3>5, <3>6 DEF m
  <2>6. ia[E] = g[<<ia[DOMAIN q], a[n]>>]
    <3>1. E \in SUBSET DOMAIN a /\ ia[E \ {Max(E)}] \in V
      BY <2>4, <2>5
    <3>2. ia[E] = g[<<ia[E \ {Max(E)}], a[Max(E)]>>]
      BY <2>3, <2>5, <3>1 DEF Iterates
    <3>3. QED
      BY <2>5, <3>2
  <2>7. QED
    BY <2>1, <2>2, <2>3, <2>4, <2>6 DEF a
<1>5. QED
  BY <1>1, <1>3, <1>4

-----------------------------------------------------------------------------
(***************************************************************************)
(* How many elements of a sequence are in a set.                           *)
(***************************************************************************)
Count(q, X) == Cardinality({i \in DOMAIN q : q[i] \in X})

LEMMA CountOfNone ==
  ASSUME NEW X
  PROVE  Count(<<>>, X) = 0
<1>1. {i \in DOMAIN <<>> : <<>>[i] \in X} = {}
  OBVIOUS
<1>2. QED
  BY <1>1, FS_EmptySet DEF Count

LEMMA CountIsNat ==
  ASSUME NEW T, NEW q \in Seq(T), NEW X
  PROVE  Count(q, X) \in Nat
<1>1. IsFiniteSet({i \in DOMAIN q : q[i] \in X})
  BY Indices, FS_Subset
<1>2. QED
  BY <1>1, FS_CardinalityType DEF Count

LEMMA CountAppended ==
  ASSUME NEW T, NEW q \in Seq(T), NEW t \in T, NEW X
  PROVE  Count(Append(q, t), X) = Count(q, X) + IF t \in X THEN 1 ELSE 0
<1> DEFINE S == {i \in DOMAIN q : q[i] \in X}
           a == Append(q, t)
           n == Len(q) + 1
           R == {i \in DOMAIN a : a[i] \in X}
<1>1. IsFiniteSet(S) /\ n \notin S /\ Cardinality(S) \in Nat
  <2>1. DOMAIN q = 1..Len(q) /\ Len(q) \in Nat
    BY Indices
  <2>2. IsFiniteSet(S)
    BY Indices, FS_Subset
  <2>3. QED
    BY <2>1, <2>2, FS_CardinalityType
<1>2. R = IF t \in X THEN S \cup {n} ELSE S
  <2>1. DOMAIN a = 1..n /\ DOMAIN q = 1..Len(q) /\ Len(q) \in Nat /\ a[n] = t
    BY AppendProperties, LenProperties
  <2>2. \A i \in DOMAIN q : a[i] = q[i]
    BY AppendProperties, LenProperties
  <2>3. DOMAIN a = DOMAIN q \cup {n}
    BY <2>1
  <2> HIDE DEF a, n
  <2>4. QED
    BY <2>1, <2>2, <2>3
<1> HIDE DEF S, R
<1>3. Cardinality(R) = Cardinality(S) + IF t \in X THEN 1 ELSE 0
  <2>1. CASE t \in X
    BY <1>1, <1>2, <2>1, FS_AddElement
  <2>2. CASE t \notin X
    BY <1>1, <1>2, <2>2
  <2>3. QED
    BY <2>1, <2>2
<1>4. QED
  BY <1>3 DEF Count, S, R

LEMMA CountJoined ==
  ASSUME NEW T, NEW q \in Seq(T), NEW r \in Seq(T), NEW X
  PROVE  Count(q \o r, X) = Count(q, X) + Count(r, X)
<1> DEFINE Y == {p \in Seq(T) : Count(q \o p, X) = Count(q, X) + Count(p, X)}
<1>1. <<>> \in Y
  <2>1. q \o <<>> = q /\ <<>> \in Seq(T)
    BY ConcatEmptySeq
  <2>2. QED
    BY <2>1, CountOfNone, CountIsNat
<1>2. ASSUME NEW p \in Seq(T), NEW t \in T, p \in Y
      PROVE  Append(p, t) \in Y
  <2>1. q \o Append(p, t) = Append(q \o p, t) /\ q \o p \in Seq(T) /\ Append(p, t) \in Seq(T)
    OBVIOUS
  <2>2. /\ Count(Append(q \o p, t), X) = Count(q \o p, X) + IF t \in X THEN 1 ELSE 0
        /\ Count(Append(p, t), X) = Count(p, X) + IF t \in X THEN 1 ELSE 0
    BY <2>1, CountAppended
  <2>3. Count(q \o p, X) = Count(q, X) + Count(p, X) /\ Count(q, X) \in Nat /\ Count(p, X) \in Nat
    BY <1>2, CountIsNat
  <2>4. Count(q \o Append(p, t), X) = Count(q, X) + Count(Append(p, t), X)
    BY <2>1, <2>2, <2>3
  <2>5. QED
    BY <2>1, <2>4
<1> HIDE DEF Y
<1>3. Seq(T) \subseteq Y
  BY <1>1, <1>2, GrowsToAll
<1>4. QED
  BY <1>3 DEF Y

LEMMA CountOfOne ==
  ASSUME NEW T, NEW t \in T, NEW X
  PROVE  Count(<<t>>, X) = IF t \in X THEN 1 ELSE 0
<1>1. Append(<<>>, t) = <<t>> /\ <<>> \in Seq(T)
  OBVIOUS
<1>2. Count(Append(<<>>, t), X) = Count(<<>>, X) + IF t \in X THEN 1 ELSE 0
  BY <1>1, CountAppended
<1>3. QED
  BY <1>1, <1>2, CountOfNone

\* An element that is inserted is the only change.
LEMMA InsertedAt ==
  ASSUME NEW T, NEW q \in Seq(T), NEW t \in T, NEW k \in 1..(Len(q) + 1)
  PROVE  /\ InsertAt(q, k, t) \in Seq(T) /\ Len(InsertAt(q, k, t)) = Len(q) + 1
         /\ \A i \in 1..(Len(q) + 1) :
              InsertAt(q, k, t)[i] = IF i < k THEN q[i] ELSE IF i = k THEN t ELSE q[i - 1]
         /\ \A X : Count(InsertAt(q, k, t), X) = Count(q, X) + IF t \in X THEN 1 ELSE 0
<1> DEFINE a == SubSeq(q, 1, k - 1)
           b == SubSeq(q, k, Len(q))
           r == InsertAt(q, k, t)
<1>1. Len(q) \in Nat /\ k \in Int
  BY LenProperties
<1>2. /\ a \in Seq(T) /\ Len(a) = k - 1 /\ \A i \in 1..(k - 1) : a[i] = q[i]
      /\ b \in Seq(T) /\ Len(b) = Len(q) - k + 1
      /\ \A i \in 1..(Len(q) - k + 1) : b[i] = q[k + i - 1]
  <2>1. \A i \in 1..(k - 1) : q[i] \in T
    BY <1>1, LenProperties
  <2>2. \A i \in k..Len(q) : q[i] \in T
    BY <1>1, LenProperties
  <2>3. a \in Seq(T) /\ Len(a) = k - 1 /\ \A i \in 1..(k - 1) : a[i] = q[i]
    BY <1>1, <2>1
  <2>4. b \in Seq(T) /\ Len(b) = Len(q) - k + 1
    BY <1>1, <2>2
  <2>5. \A i \in 1..(Len(q) - k + 1) : b[i] = q[k + i - 1]
    BY <1>1
  <2>6. QED
    BY <2>3, <2>4, <2>5
<1>3. r = (a \o <<t>>) \o b
  BY DEF InsertAt
<1>4. q = a \o b
  <2>1. a \o b \in Seq(T) /\ Len(a \o b) = Len(q)
    <3> HIDE DEF a, b
    <3>1. QED
      BY <1>1, <1>2
  <2>2. ASSUME NEW i \in 1..Len(q) PROVE (a \o b)[i] = q[i]
    <3> HIDE DEF a, b
    <3>1. CASE i < k
      BY <1>1, <1>2, <3>1
    <3>2. CASE i >= k
      <4>1. (a \o b)[i] = b[i - (k - 1)] /\ i - (k - 1) \in 1..(Len(q) - k + 1)
        BY <1>1, <1>2, <3>2
      <4>2. b[i - (k - 1)] = q[k + (i - (k - 1)) - 1] /\ k + (i - (k - 1)) - 1 = i
        BY <1>1, <1>2, <4>1
      <4>3. QED
        BY <4>1, <4>2
    <3>3. i < k \/ i >= k
      BY <1>1
    <3>4. QED
      BY <3>1, <3>2, <3>3
  <2> HIDE DEF a, b
  <2>3. QED
    BY <2>1, <2>2, SeqEqual
<1> HIDE DEF a, b, r
<1>5. r \in Seq(T) /\ Len(r) = Len(q) + 1 /\ a \o <<t>> \in Seq(T) /\ <<t>> \in Seq(T)
  <2>1. <<t>> \in Seq(T) /\ Len(<<t>>) = 1
    OBVIOUS
  <2>2. a \o <<t>> \in Seq(T) /\ Len(a \o <<t>>) = k
    BY <1>1, <1>2, <2>1, ConcatProperties
  <2>3. r \in Seq(T) /\ Len(r) = k + Len(b)
    BY <1>2, <1>3, <2>2, ConcatProperties
  <2>4. QED
    BY <1>1, <1>2, <2>1, <2>2, <2>3
<1>6. ASSUME NEW i \in 1..(Len(q) + 1)
      PROVE  r[i] = IF i < k THEN q[i] ELSE IF i = k THEN t ELSE q[i - 1]
  <2>1. CASE i < k
    BY <1>1, <1>2, <1>3, <2>1
  <2>2. CASE i = k
    BY <1>1, <1>2, <1>3, <2>2
  <2>3. CASE i > k
    <3>1. r[i] = b[i - k] /\ i - k \in 1..(Len(q) - k + 1)
      BY <1>1, <1>2, <1>3, <2>3
    <3>2. b[i - k] = q[k + (i - k) - 1] /\ k + (i - k) - 1 = i - 1
      BY <1>1, <1>2, <3>1
    <3>3. QED
      BY <1>1, <2>3, <3>1, <3>2
  <2>4. QED
    BY <1>1, <2>1, <2>2, <2>3
<1>7. ASSUME NEW X
      PROVE  Count(r, X) = Count(q, X) + IF t \in X THEN 1 ELSE 0
  <2>1. Count(r, X) = Count(a \o <<t>>, X) + Count(b, X)
    BY <1>2, <1>3, <1>5, CountJoined
  <2>2. Count(a \o <<t>>, X) = Count(a, X) + Count(<<t>>, X)
    BY <1>2, <1>5, CountJoined
  <2>3. Count(<<t>>, X) = IF t \in X THEN 1 ELSE 0
    BY CountOfOne
  <2>4. Count(q, X) = Count(a, X) + Count(b, X)
    BY <1>2, <1>4, CountJoined
  <2>5. Count(a, X) \in Nat /\ Count(b, X) \in Nat
    BY <1>2, CountIsNat
  <2>6. QED
    BY <2>1, <2>2, <2>3, <2>4, <2>5
<1>8. QED
  BY <1>5, <1>6, <1>7 DEF r
================================================================================
