-------------------------------- MODULE Sums --------------------------------
(***************************************************************************)
(* What the bounds of the upload store and of attachments rest on: a sum   *)
(* over a finite set is its parts together, in any order.  Sums are folds, *)
(* so these are inductions; each is done by looking at a least set on      *)
(* which the claim fails.                                                  *)
(***************************************************************************)
EXTENDS Functions, FiniteSetTheorems, TLAPS

Pick(s) == CHOOSE x \in s : TRUE

(* The recursion behind a sum, over the subsets of S.                      *)
IsSum(it, f, S) ==
  it = [s \in SUBSET S |-> IF s = {} THEN 0 ELSE f[Pick(s)] + it[s \ {Pick(s)}]]

SumsUpTo(f, S) == CHOOSE it : IsSum(it, f, S)

(* The sum of the library is the value of that recursion.                  *)
LEMMA SumIs == ASSUME NEW f, NEW S PROVE SumFunctionOnSet(f, S) = SumsUpTo(f, S)[S]
BY DEF SumFunctionOnSet, FoldFunctionOnSet, MapThenFoldSet, SumsUpTo, IsSum, Pick

(* Among finite sets, one has none of the others inside it.                *)
LEMMA Least ==
  ASSUME NEW S, NEW T \in SUBSET FiniteSubsetsOf(S), T # {}
  PROVE  \E x \in T : \A y \in T : y \subseteq x => y = x
<1>1. \A y, x \in FiniteSubsetsOf(S) : y \subseteq x /\ y # x => <<y, x>> \in StrictSubsetOrdering(S)
  BY DEF StrictSubsetOrdering, FiniteSubsetsOf
<1>2. PICK x \in T : \A y \in T : ~(<<y, x>> \in StrictSubsetOrdering(S))
  BY FS_StrictSubsetOrderingWellFounded, WFMin
<1> QED
  BY <1>1, <1>2

(* What is taken from a set is in it, and the rest is smaller.             *)
LEMMA Picked ==
  ASSUME NEW s, s # {}
  PROVE  Pick(s) \in s /\ s \ {Pick(s)} \subseteq s /\ s \ {Pick(s)} # s
BY DEF Pick

(* Two recursions agree where both are defined.                            *)
LEMMA Unique ==
  ASSUME NEW f, NEW A, NEW B, NEW i, NEW j, IsSum(i, f, A), IsSum(j, f, B),
         NEW s, s \subseteq A, s \subseteq B, IsFiniteSet(s)
  PROVE  i[s] = j[s]
<1> DEFINE T == {t \in FiniteSubsetsOf(s) : i[t] # j[t]}
<1>1. SUFFICES ASSUME T # {} PROVE FALSE
  <2>1. s \in FiniteSubsetsOf(s)
    BY DEF FiniteSubsetsOf
  <2> QED
    BY <2>1
<1>2. PICK t \in T : \A u \in T : u \subseteq t => u = t
  <2>1. T \in SUBSET FiniteSubsetsOf(s)
    OBVIOUS
  <2> HIDE DEF T
  <2> QED
    BY <1>1, <2>1, Least
<1>3. t \subseteq s /\ IsFiniteSet(t) /\ i[t] # j[t]
  BY DEF FiniteSubsetsOf
<1>4. CASE t = {}
  BY <1>3, <1>4 DEF IsSum
<1>5. CASE t # {}
  <2> DEFINE u == t \ {Pick(t)}
  <2>1. u \subseteq t /\ u # t /\ IsFiniteSet(u)
    BY <1>3, <1>5, Picked, FS_Subset
  <2>2. i[u] = j[u]
    BY <1>2, <1>3, <2>1 DEF FiniteSubsetsOf
  <2>3. i[t] = f[Pick(t)] + i[u] /\ j[t] = f[Pick(t)] + j[u]
    BY <1>3, <1>5 DEF IsSum
  <2> QED
    BY <1>3, <2>2, <2>3
<1> QED
  BY <1>4, <1>5

(* Over a finite set there is such a recursion.                            *)
LEMMA Exists ==
  ASSUME NEW f, NEW S, IsFiniteSet(S)
  PROVE  IsSum(SumsUpTo(f, S), f, S)
<1> DEFINE T == {t \in FiniteSubsetsOf(S) : ~IsSum(SumsUpTo(f, t), f, t)}
<1>1. SUFFICES ASSUME T # {} PROVE FALSE
  <2>1. S \in FiniteSubsetsOf(S)
    BY DEF FiniteSubsetsOf
  <2> QED
    BY <2>1
<1>2. PICK t \in T : \A u \in T : u \subseteq t => u = t
  <2>1. T \in SUBSET FiniteSubsetsOf(S)
    OBVIOUS
  <2> HIDE DEF T
  <2> QED
    BY <1>1, <2>1, Least
<1>3. t \subseteq S /\ IsFiniteSet(t) /\ ~IsSum(SumsUpTo(f, t), f, t)
  BY DEF FiniteSubsetsOf
<1>4. ASSUME NEW u, u \subseteq t, u # t
      PROVE  IsSum(SumsUpTo(f, u), f, u) /\ IsFiniteSet(u)
  BY <1>2, <1>3, <1>4, FS_Subset DEF FiniteSubsetsOf
<1> DEFINE rest(s) == s \ {Pick(s)}
           it == [s \in SUBSET t |-> IF s = {} THEN 0 ELSE f[Pick(s)] + SumsUpTo(f, rest(s))[rest(s)]]
<1>5. ASSUME NEW s \in SUBSET t, s # {}
      PROVE  it[rest(s)] = SumsUpTo(f, rest(s))[rest(s)]
  <2> DEFINE u == rest(s)
             v == rest(u)
  <2>1. u \subseteq t /\ u # t /\ u \in SUBSET t
    BY <1>5, Picked
  <2>2. IsSum(SumsUpTo(f, u), f, u)
    BY <1>4, <2>1
  <2>3. CASE u = {}
    BY <2>1, <2>2, <2>3 DEF IsSum
  <2>4. CASE u # {}
    <3>1. v \subseteq u /\ v # u
      BY <2>4, Picked
    <3>2. v \subseteq t /\ v # t
      BY <2>1, <3>1
    <3>3. SumsUpTo(f, u)[u] = f[Pick(u)] + SumsUpTo(f, u)[v]
      BY <2>2, <2>4 DEF IsSum
    <3>4. SumsUpTo(f, u)[v] = SumsUpTo(f, v)[v]
      <4>1. IsSum(SumsUpTo(f, v), f, v) /\ IsFiniteSet(v)
        BY <1>4, <3>2
      <4>2. v \subseteq u /\ v \subseteq v
        BY <3>1
      <4> HIDE DEF u, v
      <4> QED
        BY <2>2, <4>1, <4>2, Unique
    <3>5. it[u] = f[Pick(u)] + SumsUpTo(f, v)[v]
      BY <2>1, <2>4
    <3> QED
      BY <3>3, <3>4, <3>5
  <2> QED
    BY <2>3, <2>4
<1>6. it = [s \in SUBSET t |-> IF s = {} THEN 0 ELSE f[Pick(s)] + it[s \ {Pick(s)}]]
  BY <1>5
<1>7. IsSum(it, f, t)
  BY <1>6 DEF IsSum
<1> HIDE DEF it
<1> QED
  BY <1>3, <1>7 DEF SumsUpTo

(* The sum of a set, from the sum of what is left of it.                   *)
LEMMA SumStep ==
  ASSUME NEW f, NEW S, IsFiniteSet(S)
  PROVE  SumFunctionOnSet(f, S) =
           IF S = {} THEN 0 ELSE f[Pick(S)] + SumFunctionOnSet(f, S \ {Pick(S)})
<1>1. IsSum(SumsUpTo(f, S), f, S)
  BY Exists
<1>2. CASE S = {}
  BY <1>1, <1>2, SumIs DEF IsSum
<1>3. CASE S # {}
  <2> DEFINE u == S \ {Pick(S)}
  <2>1. u \subseteq S /\ IsFiniteSet(u)
    BY FS_Subset
  <2>2. IsSum(SumsUpTo(f, u), f, u)
    BY <2>1, Exists
  <2>3. SumsUpTo(f, S)[u] = SumsUpTo(f, u)[u]
    BY <1>1, <2>1, <2>2, Unique
  <2>4. SumsUpTo(f, S)[S] = f[Pick(S)] + SumsUpTo(f, S)[u]
    BY <1>1, <1>3 DEF IsSum
  <2> QED
    BY <1>3, <2>3, <2>4, SumIs
<1> QED
  BY <1>2, <1>3

-----------------------------------------------------------------------------
(* The numbers that are summed are natural.                                *)
Naturals(f, S) == \A x \in S : f[x] \in Nat

(* Any element may be counted first, and a sum of natural numbers is one.  *)
LEMMA SumTake ==
  ASSUME NEW f, NEW S, IsFiniteSet(S), Naturals(f, S)
  PROVE  /\ SumFunctionOnSet(f, S) \in Nat
         /\ \A x \in S : SumFunctionOnSet(f, S) = f[x] + SumFunctionOnSet(f, S \ {x})
<1> DEFINE Sum(s) == SumFunctionOnSet(f, s)
           Good(s) == Sum(s) \in Nat /\ \A x \in s : Sum(s) = f[x] + Sum(s \ {x})
           T == {t \in FiniteSubsetsOf(S) : ~Good(t)}
<1>1. SUFFICES ASSUME T # {} PROVE FALSE
  <2>1. S \in FiniteSubsetsOf(S)
    BY DEF FiniteSubsetsOf
  <2> QED
    BY <2>1
<1>2. PICK t \in T : \A u \in T : u \subseteq t => u = t
  <2>1. T \in SUBSET FiniteSubsetsOf(S)
    OBVIOUS
  <2> HIDE DEF T
  <2> QED
    BY <1>1, <2>1, Least
<1>3. t \subseteq S /\ IsFiniteSet(t) /\ ~Good(t)
  BY DEF FiniteSubsetsOf
<1>4. ASSUME NEW u, u \subseteq t, u # t
      PROVE  Good(u)
  <2>1. u \in FiniteSubsetsOf(S)
    BY <1>3, <1>4, FS_Subset DEF FiniteSubsetsOf
  <2> QED
    BY <1>2, <1>4, <2>1
<1> HIDE DEF Sum, T
<1>5. CASE t = {}
  BY <1>3, <1>5, SumStep DEF Sum
<1>6. CASE t # {}
  <2> DEFINE c == Pick(t)
  <2>1. c \in t /\ Sum(t) = f[c] + Sum(t \ {c})
    BY <1>3, <1>6, SumStep, Picked DEF Sum
  <2> HIDE DEF c
  <2>2. Good(t \ {c}) /\ f[c] \in Nat
    BY <1>3, <1>4, <2>1 DEF Naturals
  <2>3. ASSUME NEW x \in t
        PROVE  Sum(t) = f[x] + Sum(t \ {x})
    <3>1. CASE x = c
      BY <2>1, <3>1
    <3>2. CASE x # c
      <4>1. Good(t \ {x}) /\ f[x] \in Nat
        BY <1>3, <1>4, <2>3 DEF Naturals
      <4>2. Sum(t \ {c}) = f[x] + Sum((t \ {c}) \ {x})
        BY <2>2, <2>3, <3>2
      <4>3. Sum(t \ {x}) = f[c] + Sum((t \ {x}) \ {c})
        BY <2>1, <3>2, <4>1
      <4>4. (t \ {c}) \ {x} = (t \ {x}) \ {c}
        OBVIOUS
      <4>5. Good((t \ {x}) \ {c})
        BY <1>4, <2>1
      <4>6. /\ f[c] \in Nat /\ f[x] \in Nat /\ Sum(t \ {c}) \in Nat /\ Sum(t \ {x}) \in Nat
            /\ Sum((t \ {x}) \ {c}) \in Nat
        BY <2>2, <4>1, <4>5
      <4>7. Sum((t \ {c}) \ {x}) = Sum((t \ {x}) \ {c})
        BY <4>4
      <4> HIDE DEF Good
      <4> QED
        BY <2>1, <4>2, <4>3, <4>6, <4>7
    <3> QED
      BY <3>1, <3>2
  <2>4. Sum(t) \in Nat
    BY <2>1, <2>2
  <2> QED
    BY <1>3, <2>3, <2>4
<1> QED
  BY <1>5, <1>6

(* The sum tells nothing but the numbers that are summed.                  *)
LEMMA SumSame ==
  ASSUME NEW f, NEW g, NEW S, IsFiniteSet(S), \A x \in S : f[x] = g[x]
  PROVE  SumFunctionOnSet(f, S) = SumFunctionOnSet(g, S)
<1> DEFINE T == {t \in FiniteSubsetsOf(S) : SumFunctionOnSet(f, t) # SumFunctionOnSet(g, t)}
<1>1. SUFFICES ASSUME T # {} PROVE FALSE
  <2>1. S \in FiniteSubsetsOf(S)
    BY DEF FiniteSubsetsOf
  <2> QED
    BY <2>1
<1>2. PICK t \in T : \A u \in T : u \subseteq t => u = t
  <2>1. T \in SUBSET FiniteSubsetsOf(S)
    OBVIOUS
  <2> HIDE DEF T
  <2> QED
    BY <1>1, <2>1, Least
<1>3. t \subseteq S /\ IsFiniteSet(t) /\ SumFunctionOnSet(f, t) # SumFunctionOnSet(g, t)
  BY DEF FiniteSubsetsOf
<1>4. CASE t = {}
  BY <1>3, <1>4, SumStep
<1>5. CASE t # {}
  <2> DEFINE u == t \ {Pick(t)}
  <2>1. u \subseteq t /\ u # t /\ IsFiniteSet(u) /\ Pick(t) \in t
    BY <1>3, <1>5, Picked, FS_Subset
  <2>2. SumFunctionOnSet(f, u) = SumFunctionOnSet(g, u)
    BY <1>2, <1>3, <2>1 DEF FiniteSubsetsOf
  <2>3. f[Pick(t)] = g[Pick(t)]
    BY <1>3, <2>1
  <2> QED
    BY <1>3, <1>5, <2>2, <2>3, SumStep
<1> QED
  BY <1>4, <1>5

(* Less is summed over less.                                               *)
LEMMA SumSubset ==
  ASSUME NEW f, NEW S, IsFiniteSet(S), Naturals(f, S), NEW R, R \subseteq S
  PROVE  SumFunctionOnSet(f, R) <= SumFunctionOnSet(f, S)
<1> DEFINE Sum(s) == SumFunctionOnSet(f, s)
           T == {t \in FiniteSubsetsOf(S) : R \subseteq t /\ ~(Sum(R) <= Sum(t))}
<1>0. Sum(R) \in Nat
  BY FS_Subset, SumTake DEF Naturals
<1>1. SUFFICES ASSUME T # {} PROVE FALSE
  <2>1. S \in FiniteSubsetsOf(S)
    BY DEF FiniteSubsetsOf
  <2> QED
    BY <2>1
<1>2. PICK t \in T : \A u \in T : u \subseteq t => u = t
  <2>1. T \in SUBSET FiniteSubsetsOf(S)
    OBVIOUS
  <2> HIDE DEF T
  <2> QED
    BY <1>1, <2>1, Least
<1>3. t \subseteq S /\ IsFiniteSet(t) /\ R \subseteq t /\ ~(Sum(R) <= Sum(t))
  BY DEF FiniteSubsetsOf
<1>4. PICK x \in t : x \notin R
  BY <1>0, <1>3
<1> DEFINE u == t \ {x}
<1>5. u \in FiniteSubsetsOf(S) /\ R \subseteq u /\ u \subseteq t /\ u # t
  BY <1>3, <1>4, FS_Subset DEF FiniteSubsetsOf
<1>6. Sum(R) <= Sum(u)
  BY <1>2, <1>5
<1>7. Sum(t) = f[x] + Sum(u) /\ f[x] \in Nat /\ Sum(u) \in Nat
  <2>1. IsFiniteSet(u) /\ Naturals(f, t) /\ Naturals(f, u) /\ f[x] \in Nat
    BY <1>3, <1>4, <1>5 DEF Naturals, FiniteSubsetsOf
  <2> QED
    BY <1>3, <1>4, <2>1, SumTake
<1> QED
  BY <1>0, <1>3, <1>6, <1>7
-----------------------------------------------------------------------------
(* The same for a function that is summed over its whole domain.           *)
Numbers(f) == IsFiniteSet(DOMAIN f) /\ Naturals(f, DOMAIN f)

(* Nothing sums to zero, numbers to a number.                              *)
LEMMA SumType ==
  ASSUME NEW f, Numbers(f)
  PROVE  SumFunction(f) \in Nat /\ (DOMAIN f = {} => SumFunction(f) = 0)
BY SumTake, SumStep DEF Numbers, SumFunction

(* One more number adds itself.                                            *)
LEMMA SumMore ==
  ASSUME NEW f, Numbers(f), NEW g, NEW x, x \notin DOMAIN f, DOMAIN g = DOMAIN f \cup {x},
         \A y \in DOMAIN f : g[y] = f[y], g[x] \in Nat
  PROVE  Numbers(g) /\ SumFunction(g) = SumFunction(f) + g[x]
<1>1. Numbers(g)
  BY FS_AddElement DEF Numbers, Naturals
<1>2. SumFunctionOnSet(g, DOMAIN g) = g[x] + SumFunctionOnSet(g, (DOMAIN g) \ {x})
  BY <1>1, SumTake DEF Numbers
<1>3. (DOMAIN g) \ {x} = DOMAIN f
  OBVIOUS
<1>4. SumFunctionOnSet(g, DOMAIN f) = SumFunctionOnSet(f, DOMAIN f)
  BY SumSame DEF Numbers
<1>5. SumFunctionOnSet(f, DOMAIN f) \in Nat
  BY SumTake DEF Numbers
<1> QED
  BY <1>1, <1>2, <1>3, <1>4, <1>5 DEF SumFunction

(* Some of the numbers sum to no more than all of them.                    *)
LEMMA SumFewer ==
  ASSUME NEW f, Numbers(f), NEW g, DOMAIN g \subseteq DOMAIN f, \A y \in DOMAIN g : g[y] = f[y]
  PROVE  Numbers(g) /\ SumFunction(g) <= SumFunction(f)
<1>1. Numbers(g)
  BY FS_Subset DEF Numbers, Naturals
<1>2. SumFunctionOnSet(g, DOMAIN g) = SumFunctionOnSet(f, DOMAIN g)
  BY <1>1, SumSame DEF Numbers
<1>3. SumFunctionOnSet(f, DOMAIN g) <= SumFunctionOnSet(f, DOMAIN f)
  BY SumSubset DEF Numbers
<1> QED
  BY <1>1, <1>2, <1>3 DEF SumFunction
=============================================================================
