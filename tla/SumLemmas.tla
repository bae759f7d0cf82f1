------------------------------ MODULE SumLemmas ------------------------------
(***************************************************************************)
(* What the proofs about reports need to know of SumFunction, for any      *)
(* function on a finite set.                                               *)
(***************************************************************************)
EXTENDS Integers, Functions, FiniteSetTheorems, TLAPS

(* Induction over the subsets of a finite set, for a property given as the *)
(* set P of those that have it.                                            *)
LEMMA SubsetInduction ==
  ASSUME NEW S, IsFiniteSet(S), NEW P,
         \A T \in SUBSET S :
           (\A U \in SUBSET T : U # T => U \in P) => T \in P
  PROVE  \A T \in SUBSET S : T \in P
<1> DEFINE Bad == (SUBSET S) \ P
<1> SUFFICES ASSUME Bad # {} PROVE FALSE
  OBVIOUS
<1>1. Bad \subseteq FiniteSubsetsOf(S)
  BY FS_FiniteSubsetsOfFinite
<1>2. PICK T \in Bad : \A U \in Bad : <<U, T>> \notin StrictSubsetOrdering(S)
  <2> HIDE DEF Bad
  <2> QED
    BY <1>1, FS_StrictSubsetOrderingWellFounded, WFMin
<1>3. \A U \in SUBSET T : U # T => U \in P
  <2> SUFFICES ASSUME NEW U \in SUBSET T, U # T, U \in Bad PROVE FALSE
    OBVIOUS
  <2> QED
    BY <1>2 DEF StrictSubsetOrdering
<1> QED
  BY <1>2, <1>3

-----------------------------------------------------------------------------
(* The fold is well defined.                                               *)

(* Some member of a set, the one the fold takes first.                     *)
First(s) == CHOOSE x \in s : TRUE

(* g gives every subset of T the sum of f over it.                         *)
SumsUp(g, f, T) ==
  g = [s \in SUBSET T |-> IF s = {} THEN 0 ELSE f[First(s)] + g[s \ {First(s)}]]

LEMMA SumExpanded ==
  ASSUME NEW f, NEW S
  PROVE  SumFunctionOnSet(f, S) = (CHOOSE g : SumsUp(g, f, S))[S]
  BY DEF SumFunctionOnSet, FoldFunctionOnSet, MapThenFoldSet, SumsUp, First

LEMMA SumOfNone ==
  ASSUME NEW g, NEW f, NEW T, SumsUp(g, f, T) PROVE g[{}] = 0
<1> DEFINE val(s) == IF s = {} THEN 0 ELSE f[First(s)] + g[s \ {First(s)}]
<1>1. g = [s \in SUBSET T |-> val(s)]
  BY DEF SumsUp
<1>2. {} \in SUBSET T /\ val({}) = 0
  OBVIOUS
<1> HIDE DEF val
<1> QED
  BY <1>1, <1>2

LEMMA SumOfSome ==
  ASSUME NEW g, NEW f, NEW T, SumsUp(g, f, T), NEW s, s \subseteq T, s # {}
  PROVE  /\ First(s) \in s
         /\ g[s] = f[First(s)] + g[s \ {First(s)}]
<1> DEFINE val(u) == IF u = {} THEN 0 ELSE f[First(u)] + g[u \ {First(u)}]
<1>1. g = [u \in SUBSET T |-> val(u)]
  BY DEF SumsUp
<1>2. s \in SUBSET T /\ val(s) = f[First(s)] + g[s \ {First(s)}]
  OBVIOUS
<1> HIDE DEF val
<1>3. g[s] = val(s)
  BY <1>1, <1>2
<1>4. First(s) \in s
  BY DEF First
<1> QED
  BY <1>2, <1>3, <1>4

(* Two that sum up the same function agree where both are defined.         *)
LEMMA SumsAgree ==
  ASSUME NEW f, NEW T, IsFiniteSet(T), NEW A, NEW B, NEW g, NEW h,
         SumsUp(g, f, A), SumsUp(h, f, B), T \subseteq A, T \subseteq B
  PROVE  g[T] = h[T]
<1> DEFINE P == {s \in SUBSET T : g[s] = h[s]}
<1>1. ASSUME NEW s \in SUBSET T, \A u \in SUBSET s : u # s => u \in P
      PROVE  s \in P
  <2>1. CASE s = {}
    BY <2>1, SumOfNone
  <2>2. CASE s # {}
    <3>1. s \subseteq A /\ s \subseteq B
      OBVIOUS
    <3>2. /\ First(s) \in s
          /\ g[s] = f[First(s)] + g[s \ {First(s)}]
      BY <2>2, <3>1, SumOfSome
    <3>3. h[s] = f[First(s)] + h[s \ {First(s)}]
      BY <2>2, <3>1, SumOfSome
    <3>4. s \ {First(s)} \in P
      BY <1>1, <3>2
    <3> QED
      BY <3>2, <3>3, <3>4
  <2> QED
    BY <2>1, <2>2
<1>2. \A s \in SUBSET T : s \in P
  <2> HIDE DEF P
  <2> QED
    BY <1>1, SubsetInduction
<1> QED
  BY <1>2

LEMMA SumsExist ==
  ASSUME NEW f, NEW S, IsFiniteSet(S)
  PROVE  \E g : SumsUp(g, f, S)
<1> DEFINE P == {T \in SUBSET S : \E g : SumsUp(g, f, T)}
<1>1. ASSUME NEW T \in SUBSET S, \A U \in SUBSET T : U # T => U \in P
      PROVE  T \in P
  <2> DEFINE part(x) == CHOOSE g : SumsUp(g, f, T \ {x})
             h == [s \in SUBSET T |->
                     IF s = {} THEN 0
                     ELSE f[First(s)] + part(First(s))[s \ {First(s)}]]
  <2>1. \A x \in T : SumsUp(part(x), f, T \ {x})
    <3> SUFFICES ASSUME NEW x \in T PROVE \E g : SumsUp(g, f, T \ {x})
      OBVIOUS
    <3>1. T \ {x} \in P
      BY <1>1
    <3> QED
      BY <3>1
  <2> HIDE DEF part
  <2>2. ASSUME NEW s \in SUBSET T, s # {}
        PROVE  part(First(s))[s \ {First(s)}] = h[s \ {First(s)}]
    <3> DEFINE x == First(s)
               u == s \ {x}
    <3>1. x \in s /\ x \in T /\ u \in SUBSET T
      BY <2>2 DEF First
    <3>2. SumsUp(part(x), f, T \ {x})
      BY <2>1, <3>1
    <3>3. CASE u = {}
      <4>1. h[u] = 0
        BY <3>1, <3>3
      <4>2. part(x)[{}] = 0
        BY <3>2, SumOfNone
      <4> QED
        BY <3>3, <4>1, <4>2
    <3>4. CASE u # {}
      <4> DEFINE y == First(u)
                 w == u \ {y}
      <4>1. y \in u /\ y \in T
        BY <3>1, <3>4 DEF First
      <4>2. h[u] = f[y] + part(y)[w]
        BY <3>1, <3>4
      <4>3. part(x)[u] = f[y] + part(x)[w]
        <5>1. u \subseteq T \ {x}
          BY <3>1
        <5> DEFINE p == part(x)
        <5>2. SumsUp(p, f, T \ {x})
          BY <3>2
        <5> HIDE DEF p, u, x
        <5>3. p[u] = f[First(u)] + p[u \ {First(u)}]
          BY <3>4, <5>1, <5>2, SumOfSome
        <5> QED
          BY <5>3 DEF p
      <4>4. SumsUp(part(y), f, T \ {y})
        BY <2>1, <4>1
      <4>5. IsFiniteSet(w)
        BY <3>1, FS_Subset
      <4>6. w \subseteq T \ {x} /\ w \subseteq T \ {y}
        BY <3>1
      <4>7. part(x)[w] = part(y)[w]
        <5> HIDE DEF w, h
        <5>1. \A A, B, g, k : /\ SumsUp(g, f, A) /\ SumsUp(k, f, B)
                              /\ w \subseteq A /\ w \subseteq B
                              => g[w] = k[w]
          BY <4>5, SumsAgree
        <5> QED
          BY <3>2, <4>4, <4>6, <5>1
      <4> QED
        BY <4>2, <4>3, <4>7
    <3> QED
      BY <3>3, <3>4
  <2>3. SumsUp(h, f, T)
    <3> DEFINE val(s) == IF s = {} THEN 0 ELSE f[First(s)] + h[s \ {First(s)}]
    <3>1. \A s \in SUBSET T : h[s] = val(s)
      <4> SUFFICES ASSUME NEW s \in SUBSET T PROVE h[s] = val(s)
        OBVIOUS
      <4>1. CASE s = {}
        BY <4>1
      <4>2. CASE s # {}
        <5>1. h[s] = f[First(s)] + part(First(s))[s \ {First(s)}]
          BY <4>2
        <5> HIDE DEF h
        <5> QED
          BY <2>2, <4>2, <5>1
      <4> QED
        BY <4>1, <4>2
    <3>2. h = [s \in SUBSET T |-> h[s]]
      OBVIOUS
    <3> HIDE DEF h
    <3>3. h = [s \in SUBSET T |-> val(s)]
      <4> HIDE DEF val
      <4> QED
        BY <3>1, <3>2
    <3> QED
      BY <3>3 DEF SumsUp
  <2> QED
    BY <2>3
<1>2. \A T \in SUBSET S : T \in P
  <2> HIDE DEF P
  <2> QED
    BY <1>1, SubsetInduction
<1> QED
  BY <1>2

LEMMA SumRecurs ==
  ASSUME NEW f, IsFiniteSet(DOMAIN f)
  PROVE  \E g : SumsUp(g, f, DOMAIN f) /\ SumFunction(f) = g[DOMAIN f]
<1> DEFINE g == CHOOSE h : SumsUp(h, f, DOMAIN f)
<1>1. SumsUp(g, f, DOMAIN f)
  BY SumsExist
<1>2. SumFunction(f) = g[DOMAIN f]
  BY SumExpanded DEF SumFunction
<1> HIDE DEF g
<1> QED
  BY <1>1, <1>2

-----------------------------------------------------------------------------
(* What it adds up to.                                                     *)
LEMMA SumOfIntegers ==
  ASSUME NEW S, IsFiniteSet(S), NEW f \in [S -> Int]
  PROVE  SumFunction(f) \in Int
<1>1. PICK g : SumsUp(g, f, S) /\ SumFunction(f) = g[S]
  BY SumRecurs
<1> DEFINE P == {s \in SUBSET S : g[s] \in Int}
<1>2. ASSUME NEW s \in SUBSET S, \A u \in SUBSET s : u # s => u \in P
      PROVE  s \in P
  <2>1. CASE s = {}
    BY <1>1, <2>1, SumOfNone
  <2>2. CASE s # {}
    <3>1. First(s) \in s /\ g[s] = f[First(s)] + g[s \ {First(s)}]
      <4>1. SumsUp(g, f, S) /\ s \subseteq S
        BY <1>1
      <4> QED
        BY <2>2, <4>1, SumOfSome
    <3>2. s \ {First(s)} \in P
      BY <1>2, <3>1
    <3> QED
      BY <3>1, <3>2
  <2> QED
    BY <2>1, <2>2
<1>3. \A s \in SUBSET S : s \in P
  <2> HIDE DEF P
  <2> QED
    BY <1>2, SubsetInduction
<1> QED
  BY <1>1, <1>3

(* No less than each of its parts, if they are naturals.                   *)
LEMMA SumOfNaturals ==
  ASSUME NEW S, IsFiniteSet(S), NEW f \in [S -> Nat]
  PROVE  SumFunction(f) \in Nat /\ \A c \in S : f[c] <= SumFunction(f)
<1>1. PICK g : SumsUp(g, f, S) /\ SumFunction(f) = g[S]
  BY SumRecurs
<1> DEFINE P == {s \in SUBSET S : g[s] \in Nat /\ \A c \in s : f[c] <= g[s]}
<1>2. ASSUME NEW s \in SUBSET S, \A u \in SUBSET s : u # s => u \in P
      PROVE  s \in P
  <2>1. CASE s = {}
    BY <1>1, <2>1, SumOfNone
  <2>2. CASE s # {}
    <3>1. First(s) \in s /\ g[s] = f[First(s)] + g[s \ {First(s)}]
      BY <1>1, <2>2, SumOfSome
    <3> DEFINE u == s \ {First(s)}
    <3>2. u \in P
      BY <1>2, <3>1
    <3>3. /\ g[u] \in Nat /\ \A c \in u : f[c] <= g[u]
          /\ g[s] = f[First(s)] + g[u] /\ \A c \in s : c \in u \/ c = First(s)
          /\ \A c \in s : f[c] \in Nat
      BY <3>1, <3>2
    <3> HIDE DEF u
    <3>4. g[s] \in Nat /\ \A c \in s : f[c] <= g[s]
      BY <3>1, <3>3
    <3> QED
      BY <3>4
  <2> QED
    BY <2>1, <2>2
<1>3. \A s \in SUBSET S : s \in P
  <2> HIDE DEF P
  <2> QED
    BY <1>2, SubsetInduction
<1> QED
  BY <1>1, <1>3

LEMMA SumMonotone ==
  ASSUME NEW S, IsFiniteSet(S), NEW f \in [S -> Int], NEW h \in [S -> Int],
         \A c \in S : f[c] <= h[c]
  PROVE  SumFunction(f) <= SumFunction(h)
<1>1. PICK g : SumsUp(g, f, S) /\ SumFunction(f) = g[S]
  BY SumRecurs
<1>2. PICK k : SumsUp(k, h, S) /\ SumFunction(h) = k[S]
  BY SumRecurs
<1> DEFINE P == {s \in SUBSET S : g[s] \in Int /\ k[s] \in Int /\ g[s] <= k[s]}
<1>3. ASSUME NEW s \in SUBSET S, \A u \in SUBSET s : u # s => u \in P
      PROVE  s \in P
  <2>1. CASE s = {}
    <3>1. g[{}] = 0 /\ k[{}] = 0
      BY <1>1, <1>2, SumOfNone
    <3> QED
      BY <2>1, <3>1
  <2>2. CASE s # {}
    <3>1. First(s) \in s /\ g[s] = f[First(s)] + g[s \ {First(s)}]
      BY <1>1, <2>2, SumOfSome
    <3>2. k[s] = h[First(s)] + k[s \ {First(s)}]
      BY <1>2, <2>2, SumOfSome
    <3>3. s \ {First(s)} \in P
      BY <1>3, <3>1
    <3> QED
      BY <3>1, <3>2, <3>3
  <2> QED
    BY <2>1, <2>2
<1>4. \A s \in SUBSET S : s \in P
  <2> HIDE DEF P
  <2> QED
    BY <1>3, SubsetInduction
<1> QED
  BY <1>1, <1>2, <1>4

(* It changes by what one part of it changes.                              *)
LEMMA SumChange ==
  ASSUME NEW S, IsFiniteSet(S), NEW f \in [S -> Int], NEW h \in [S -> Int],
         NEW c \in S, \A d \in S \ {c} : h[d] = f[d]
  PROVE  SumFunction(h) = SumFunction(f) + (h[c] - f[c])
<1>1. PICK g : SumsUp(g, f, S) /\ SumFunction(f) = g[S]
  BY SumRecurs
<1>2. PICK k : SumsUp(k, h, S) /\ SumFunction(h) = k[S]
  BY SumRecurs
<1> DEFINE gain(s) == IF c \in s THEN h[c] - f[c] ELSE 0
           P == {s \in SUBSET S : g[s] \in Int /\ k[s] = g[s] + gain(s)}
<1>3. ASSUME NEW s \in SUBSET S, \A u \in SUBSET s : u # s => u \in P
      PROVE  s \in P
  <2>1. CASE s = {}
    <3>1. g[{}] = 0 /\ k[{}] = 0
      BY <1>1, <1>2, SumOfNone
    <3> QED
      BY <2>1, <3>1
  <2>2. CASE s # {}
    <3> DEFINE x == First(s)
               u == s \ {x}
    <3>1. x \in s /\ g[s] = f[x] + g[u]
      BY <1>1, <2>2, SumOfSome
    <3>2. k[s] = h[x] + k[u]
      BY <1>2, <2>2, SumOfSome
    <3>3. u \in P
      BY <1>3, <3>1
    <3>4. c \in s <=> c \in u \/ c = x
      BY <3>1
    <3>5. x \notin u
      OBVIOUS
    <3> HIDE DEF x, u
    <3>6. f[x] \in Int /\ h[x] \in Int /\ f[c] \in Int /\ h[c] \in Int
      BY <3>1
    <3>7. x # c => h[x] = f[x]
      BY <3>1
    <3> QED
      BY <3>1, <3>2, <3>3, <3>4, <3>5, <3>6, <3>7
  <2> QED
    BY <2>1, <2>2
<1>4. \A s \in SUBSET S : s \in P
  <2> HIDE DEF P
  <2> QED
    BY <1>3, SubsetInduction
<1> QED
  BY <1>1, <1>2, <1>4

LEMMA SumOfZeros ==
  ASSUME NEW S, IsFiniteSet(S), NEW f \in [S -> Int], \A c \in S : f[c] = 0
  PROVE  SumFunction(f) = 0
<1>1. PICK g : SumsUp(g, f, S) /\ SumFunction(f) = g[S]
  BY SumRecurs
<1> DEFINE P == {s \in SUBSET S : g[s] = 0}
<1>2. ASSUME NEW s \in SUBSET S, \A u \in SUBSET s : u # s => u \in P
      PROVE  s \in P
  <2>1. CASE s = {}
    BY <1>1, <2>1, SumOfNone
  <2>2. CASE s # {}
    <3>1. First(s) \in s /\ g[s] = f[First(s)] + g[s \ {First(s)}]
      BY <1>1, <2>2, SumOfSome
    <3>2. s \ {First(s)} \in P
      BY <1>2, <3>1
    <3> QED
      BY <3>1, <3>2
  <2> QED
    BY <2>1, <2>2
<1>3. \A s \in SUBSET S : s \in P
  <2> HIDE DEF P
  <2> QED
    BY <1>2, SubsetInduction
<1> QED
  BY <1>1, <1>3
=============================================================================
