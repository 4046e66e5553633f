------------------------------ MODULE FiniteSums ------------------------------
(***************************************************************************)
(* Lemmas about finite sets of numbers and about sums over finite sets,    *)
(* for the modules whose numbers are sums.  The library's induction        *)
(* theorems cannot be instantiated here; an induction over finite sets is  *)
(* a smallest exception instead.                                           *)
(***************************************************************************)
EXTENDS Ordering, SequencesExt, FiniteSetTheorems, SequenceTheorems, TLAPS

\* Among sets of elements of a finite set there is one that holds no other.
LEMMA SmallestSet ==
    ASSUME NEW S, IsFiniteSet(S), NEW E \in SUBSET SUBSET S, E # {}
    PROVE  \E T \in E : IsFiniteSet(T) /\ \A U \in E : U \subseteq T => U = T
<1> DEFINE less == StrictSubsetOrdering(S)
<1>1. \A T \in E : IsFiniteSet(T) /\ T \in FiniteSubsetsOf(S)
  BY FS_Subset DEF FiniteSubsetsOf
<1>2. IsWellFoundedOn(less, FiniteSubsetsOf(S))
  BY FS_StrictSubsetOrderingWellFounded
<1>3. \E T \in E : \A U \in E : ~ (<<U, T>> \in less)
  <2> HIDE DEF less
  <2>1. QED
    BY <1>1, <1>2, WFMin
<1>4. PICK T \in E : \A U \in E : ~ (<<U, T>> \in less)
  BY <1>3
<1>5. ASSUME NEW U \in E, U \subseteq T, U # T
      PROVE  FALSE
  BY <1>4, <1>5 DEF StrictSubsetOrdering
<1>6. QED
  BY <1>1, <1>4, <1>5

-----------------------------------------------------------------------------
(* The fold behind a sum or a product. *)

\* One element more.
Joined(op, a, b) == IF op = "sum" THEN a + b ELSE a * b
Neutral(op) == IF op = "sum" THEN 0 ELSE 1

\* g is what the fold of f computes for each subset of S.
Folded(op, g, f, S) ==
    g = [s \in SUBSET S |->
            IF s = {} THEN Neutral(op)
            ELSE Joined(op, f[CHOOSE x \in s : TRUE], g[s \ {CHOOSE x \in s : TRUE}])]

\* The fold of a set holds the folds of its subsets.
LEMMA FoldedBelow ==
    ASSUME NEW op, NEW f, NEW S, NEW g, Folded(op, g, f, S), NEW T \in SUBSET S
    PROVE  Folded(op, [s \in SUBSET T |-> g[s]], f, T)
<1> DEFINE h == [s \in SUBSET T |-> g[s]]
<1>1. ASSUME NEW s \in SUBSET T
      PROVE  h[s] = IF s = {} THEN Neutral(op)
                    ELSE Joined(op, f[CHOOSE x \in s : TRUE], h[s \ {CHOOSE x \in s : TRUE}])
  <2>1. s \in SUBSET S /\ s \ {CHOOSE x \in s : TRUE} \in SUBSET T
    OBVIOUS
  <2>2. g[s] = IF s = {} THEN Neutral(op)
               ELSE Joined(op, f[CHOOSE x \in s : TRUE], g[s \ {CHOOSE x \in s : TRUE}])
    BY <2>1 DEF Folded
  <2>3. QED
    BY <2>1, <2>2
<1>2. h = [s \in SUBSET T |->
            IF s = {} THEN Neutral(op)
            ELSE Joined(op, f[CHOOSE x \in s : TRUE], h[s \ {CHOOSE x \in s : TRUE}])]
  BY <1>1
<1>3. QED
  BY <1>2 DEF Folded

\* There is one fold at most.
LEMMA FoldedOnce ==
    ASSUME NEW op, NEW f, NEW S, IsFiniteSet(S), NEW g, NEW h,
           Folded(op, g, f, S), Folded(op, h, f, S)
    PROVE  g = h
<1> DEFINE E == {s \in SUBSET S : g[s] # h[s]}
<1>1. DOMAIN g = SUBSET S /\ DOMAIN h = SUBSET S
  BY DEF Folded
<1>2. E = {}
  <2> SUFFICES ASSUME E # {} PROVE FALSE
    OBVIOUS
  <2>1. PICK T \in E : \A U \in E : U \subseteq T => U = T
    <3> HIDE DEF E
    <3>1. E \in SUBSET SUBSET S
      BY DEF E
    <3>2. QED
      BY <3>1, SmallestSet
  <2> DEFINE c == CHOOSE x \in T : TRUE
  <2>2. T \in SUBSET S /\ g[T] # h[T]
    OBVIOUS
  <2>3. /\ g[T] = IF T = {} THEN Neutral(op) ELSE Joined(op, f[c], g[T \ {c}])
        /\ h[T] = IF T = {} THEN Neutral(op) ELSE Joined(op, f[c], h[T \ {c}])
    BY <2>2 DEF Folded
  <2>4. T # {} /\ g[T \ {c}] # h[T \ {c}]
    BY <2>2, <2>3
  <2>5. c \in T /\ T \ {c} \in SUBSET S
    BY <2>2, <2>4
  <2>6. QED
    BY <2>1, <2>4, <2>5
<1>3. g = [s \in SUBSET S |-> g[s]] /\ h = [s \in SUBSET S |-> h[s]]
  BY DEF Folded
<1>4. QED
  BY <1>1, <1>2, <1>3

\* And there is one.
LEMMA FoldedExists ==
    ASSUME NEW op, NEW f, NEW S, IsFiniteSet(S)
    PROVE  \E g : Folded(op, g, f, S)
<1> DEFINE E == {T \in SUBSET S : ~ \E g : Folded(op, g, f, T)}
<1> SUFFICES ASSUME E # {} PROVE FALSE
  OBVIOUS
<1>1. PICK T \in E : IsFiniteSet(T) /\ \A U \in E : U \subseteq T => U = T
  <2> HIDE DEF E
  <2>1. E \in SUBSET SUBSET S
    BY DEF E
  <2>2. QED
    BY <2>1, SmallestSet
<1> DEFINE fold(s) == CHOOSE k : Folded(op, k, f, s)
           c == CHOOSE x \in T : TRUE
           it == [s \in SUBSET T |->
                    IF s = T
                      THEN IF T = {} THEN Neutral(op) ELSE Joined(op, f[c], fold(T \ {c})[T \ {c}])
                      ELSE fold(s)[s]]
<1>2. ASSUME NEW s \in SUBSET T, s # T
      PROVE  Folded(op, fold(s), f, s)
  BY <1>1, <1>2
<1>3. ASSUME NEW s \in SUBSET T
      PROVE  it[s] = IF s = {} THEN Neutral(op)
                     ELSE Joined(op, f[CHOOSE x \in s : TRUE], it[s \ {CHOOSE x \in s : TRUE}])
  <2> DEFINE d == CHOOSE x \in s : TRUE
  <2>1. CASE s = {}
    <3>1. s # T => fold(s)[s] = Neutral(op)
      <4> HIDE DEF fold
      <4>1. QED
        BY <1>2, <2>1 DEF Folded
    <3>2. QED
      BY <2>1, <3>1
  <2>2. CASE s # {}
    <3>1. d \in s /\ s \ {d} \in SUBSET T /\ s \ {d} # T /\ s \ {d} # s
      BY <2>2
    <3>2. it[s \ {d}] = fold(s \ {d})[s \ {d}]
      BY <3>1
    <3>3. CASE s = T
      BY <2>2, <3>2, <3>3
    <3>4. CASE s # T
      <4> HIDE DEF fold, d
      <4>1. Folded(op, fold(s), f, s) /\ Folded(op, fold(s \ {d}), f, s \ {d})
        BY <1>2, <3>1, <3>4
      <4>2. Folded(op, [u \in SUBSET (s \ {d}) |-> fold(s)[u]], f, s \ {d})
        BY <4>1, FoldedBelow
      <4>3. IsFiniteSet(s \ {d})
        BY <1>1, <3>1, FS_Subset
      <4>4. fold(s \ {d}) = [u \in SUBSET (s \ {d}) |-> fold(s)[u]]
        BY <4>1, <4>2, <4>3, FoldedOnce
      <4>5. fold(s \ {d})[s \ {d}] = fold(s)[s \ {d}]
        BY <4>4
      <4>6. fold(s)[s] = Joined(op, f[d], fold(s)[s \ {d}])
        BY <2>2, <4>1 DEF Folded, d
      <4>7. it[s] = fold(s)[s]
        BY <3>4
      <4>8. QED
        BY <2>2, <3>2, <4>5, <4>6, <4>7 DEF d
    <3>5. QED
      BY <3>3, <3>4
  <2>3. QED
    BY <2>1, <2>2
<1>4. it = [s \in SUBSET T |->
            IF s = {} THEN Neutral(op)
            ELSE Joined(op, f[CHOOSE x \in s : TRUE], it[s \ {CHOOSE x \in s : TRUE}])]
  <2> HIDE DEF it
  <2>1. it = [s \in SUBSET T |-> it[s]]
    BY DEF it
  <2>2. QED
    BY <1>3, <2>1
<1>5. Folded(op, it, f, T)
  BY <1>4 DEF Folded
<1>6. QED
  BY <1>1, <1>5

\* A fold takes one element after the other, in an order of its own.
LEMMA FoldTakes ==
    ASSUME NEW op, NEW f, NEW S, IsFiniteSet(S), S # {}, NEW g, NEW h, Folded(op, g, f, S)
    PROVE  LET c == CHOOSE x \in S : TRUE IN
           Folded(op, h, f, S \ {c}) => g[S] = Joined(op, f[c], h[S \ {c}])
<1> DEFINE c == CHOOSE x \in S : TRUE
<1> SUFFICES ASSUME Folded(op, h, f, S \ {c})
             PROVE  g[S] = Joined(op, f[c], h[S \ {c}])
  OBVIOUS
<1> DEFINE T == S \ {c}
<1>1. c \in S /\ T \in SUBSET S /\ IsFiniteSet(T)
  BY FS_Subset
<1>2. Folded(op, h, f, T)
  OBVIOUS
<1> HIDE DEF T
<1>3. Folded(op, [s \in SUBSET T |-> g[s]], f, T)
  BY <1>1, FoldedBelow
<1>4. h = [s \in SUBSET T |-> g[s]]
  BY <1>1, <1>2, <1>3, FoldedOnce
<1>5. h[T] = g[T]
  BY <1>4
<1>6. g[S] = Joined(op, f[c], g[S \ {c}])
  BY <1>1 DEF Folded
<1>7. QED
  BY <1>5, <1>6 DEF T

-----------------------------------------------------------------------------
(* Sums. *)

\* g is what SumFunctionOnSet computes for each subset of S.
Added(g, f, S) ==
    g = [s \in SUBSET S |->
            IF s = {} THEN 0
            ELSE f[CHOOSE x \in s : TRUE] + g[s \ {CHOOSE x \in s : TRUE}]]

\* It is a fold.
LEMMA AddedFolds ==
    ASSUME NEW f, NEW S, NEW g
    PROVE  \A op : op = "sum" => (Added(g, f, S) <=> Folded(op, g, f, S))
  BY DEF Added, Folded, Joined, Neutral

\* And there is one.
LEMMA SumIsOf ==
    ASSUME NEW f, NEW S, IsFiniteSet(S)
    PROVE  \E g : Added(g, f, S) /\ SumFunctionOnSet(f, S) = g[S]
<1> DEFINE g == CHOOSE k : Added(k, f, S)
<1>1. PICK op : op = "sum"
  OBVIOUS
<1>2. PICK h : Folded(op, h, f, S)
  BY FoldedExists
<1>3. Added(h, f, S)
  BY <1>1, <1>2, AddedFolds
<1>4. Added(g, f, S)
  BY <1>3
<1>5. SumFunctionOnSet(f, S) = g[S]
  BY DEF SumFunctionOnSet, FoldFunctionOnSet, MapThenFoldSet, Added
<1>6. QED
  BY <1>4, <1>5

\* The sum over no element.
LEMMA SumOfNothing ==
    ASSUME NEW f
    PROVE  SumFunctionOnSet(f, {}) = 0
<1>1. IsFiniteSet({})
  BY FS_EmptySet
<1>2. PICK g : Added(g, f, {}) /\ SumFunctionOnSet(f, {}) = g[{}]
  BY <1>1, SumIsOf
<1>3. QED
  BY <1>2 DEF Added

\* A sum takes one element after the other, in an order of its own.
LEMMA SumTakes ==
    ASSUME NEW f, NEW S, IsFiniteSet(S), S # {}
    PROVE  LET c == CHOOSE x \in S : TRUE IN
           SumFunctionOnSet(f, S) = f[c] + SumFunctionOnSet(f, S \ {c})
<1> DEFINE c == CHOOSE x \in S : TRUE
<1>2. IsFiniteSet(S \ {c})
  BY FS_Subset
<1>3. PICK g : Added(g, f, S) /\ SumFunctionOnSet(f, S) = g[S]
  BY SumIsOf
<1>4. PICK h : Added(h, f, S \ {c}) /\ SumFunctionOnSet(f, S \ {c}) = h[S \ {c}]
  BY <1>2, SumIsOf
<1>5. PICK op : op = "sum"
  OBVIOUS
<1>6. Folded(op, g, f, S) /\ Folded(op, h, f, S \ {c})
  BY <1>3, <1>4, <1>5, AddedFolds
<1>7. g[S] = Joined(op, f[c], h[S \ {c}])
  BY <1>6, FoldTakes
<1>8. SumFunctionOnSet(f, S) = f[c] + SumFunctionOnSet(f, S \ {c})
  BY <1>3, <1>4, <1>5, <1>7 DEF Joined
<1>9. QED
  BY <1>8

\* Integers add up to an integer.
LEMMA SumIsInt ==
    ASSUME NEW f, NEW S, IsFiniteSet(S), \A x \in S : f[x] \in Int
    PROVE  SumFunctionOnSet(f, S) \in Int
<1> DEFINE E == {T \in SUBSET S : SumFunctionOnSet(f, T) \notin Int}
<1> SUFFICES ASSUME E # {} PROVE FALSE
  OBVIOUS
<1>1. PICK T \in E : IsFiniteSet(T) /\ \A U \in E : U \subseteq T => U = T
  <2> HIDE DEF E
  <2>1. E \in SUBSET SUBSET S
    BY DEF E
  <2>2. QED
    BY <2>1, SmallestSet
<1> DEFINE c == CHOOSE x \in T : TRUE
<1>2. T # {}
  BY SumOfNothing
<1>3. c \in T /\ f[c] \in Int /\ SumFunctionOnSet(f, T \ {c}) \in Int
  BY <1>1, <1>2
<1>4. SumFunctionOnSet(f, T) = f[c] + SumFunctionOnSet(f, T \ {c})
  BY <1>1, <1>2, SumTakes
<1>5. QED
  BY <1>3, <1>4

\* An element can be taken out first.
LEMMA SumWithout ==
    ASSUME NEW f, NEW S, IsFiniteSet(S), \A y \in S : f[y] \in Int, NEW x \in S
    PROVE  SumFunctionOnSet(f, S) = f[x] + SumFunctionOnSet(f, S \ {x})
<1> DEFINE E == {T \in SUBSET S : \E y \in T :
                    SumFunctionOnSet(f, T) # f[y] + SumFunctionOnSet(f, T \ {y})}
<1> SUFFICES ASSUME E # {} PROVE FALSE
  OBVIOUS
<1>1. PICK T \in E : IsFiniteSet(T) /\ \A U \in E : U \subseteq T => U = T
  <2> HIDE DEF E
  <2>1. E \in SUBSET SUBSET S
    BY DEF E
  <2>2. QED
    BY <2>1, SmallestSet
<1>2. PICK y \in T : SumFunctionOnSet(f, T) # f[y] + SumFunctionOnSet(f, T \ {y})
  BY <1>1
<1> DEFINE c == CHOOSE z \in T : TRUE
<1>3. c \in T /\ T \in SUBSET S /\ f[c] \in Int /\ f[y] \in Int
  BY <1>2
<1>4. SumFunctionOnSet(f, T) = f[c] + SumFunctionOnSet(f, T \ {c})
  BY <1>1, <1>2, SumTakes
<1>5. c # y
  BY <1>2, <1>4
<1>6. SumFunctionOnSet(f, T \ {c}) = f[y] + SumFunctionOnSet(f, (T \ {c}) \ {y})
  BY <1>1, <1>3, <1>5
<1>7. SumFunctionOnSet(f, T \ {y}) = f[c] + SumFunctionOnSet(f, (T \ {y}) \ {c})
  BY <1>1, <1>2, <1>3, <1>5
<1>8. (T \ {c}) \ {y} = (T \ {y}) \ {c}
  OBVIOUS
<1>9. SumFunctionOnSet(f, (T \ {y}) \ {c}) \in Int
  <2>1. IsFiniteSet((T \ {y}) \ {c}) /\ \A z \in (T \ {y}) \ {c} : f[z] \in Int
    BY <1>1, <1>3, FS_Subset
  <2>2. QED
    BY <2>1, SumIsInt
<1>10. QED
  BY <1>2, <1>3, <1>4, <1>6, <1>7, <1>8, <1>9

\* One element more.
LEMMA SumWith ==
    ASSUME NEW f, NEW S, IsFiniteSet(S), NEW x, x \notin S,
           \A y \in S \cup {x} : f[y] \in Int
    PROVE  SumFunctionOnSet(f, S \cup {x}) = SumFunctionOnSet(f, S) + f[x]
<1>1. IsFiniteSet(S \cup {x})
  BY FS_AddElement
<1>2. SumFunctionOnSet(f, S \cup {x}) = f[x] + SumFunctionOnSet(f, (S \cup {x}) \ {x})
  BY <1>1, SumWithout
<1>3. (S \cup {x}) \ {x} = S
  OBVIOUS
<1>4. SumFunctionOnSet(f, S) \in Int /\ f[x] \in Int
  BY SumIsInt
<1>5. SumFunctionOnSet(f, S \cup {x}) = f[x] + SumFunctionOnSet(f, S)
  BY <1>2, <1>3
<1>6. QED
  BY <1>4, <1>5

\* Summands that are nowhere larger add up to no more.
LEMMA SumMonotone ==
    ASSUME NEW f, NEW g, NEW S, IsFiniteSet(S),
           \A x \in S : f[x] \in Int /\ g[x] \in Int /\ f[x] <= g[x]
    PROVE  SumFunctionOnSet(f, S) <= SumFunctionOnSet(g, S)
<1> DEFINE E == {T \in SUBSET S : ~(SumFunctionOnSet(f, T) <= SumFunctionOnSet(g, T))}
<1> SUFFICES ASSUME E # {} PROVE FALSE
  OBVIOUS
<1>1. PICK T \in E : IsFiniteSet(T) /\ \A U \in E : U \subseteq T => U = T
  <2> HIDE DEF E
  <2>1. E \in SUBSET SUBSET S
    BY DEF E
  <2>2. QED
    BY <2>1, SmallestSet
<1> DEFINE c == CHOOSE z \in T : TRUE
<1>2. T # {}
  <2>1. SumFunctionOnSet(f, {}) = 0 /\ SumFunctionOnSet(g, {}) = 0
    BY SumOfNothing
  <2>2. ASSUME T = {} PROVE FALSE
    BY <1>1, <2>1, <2>2
  <2>3. QED
    BY <2>2
<1>3. /\ c \in T /\ T \in SUBSET S /\ f[c] \in Int /\ g[c] \in Int /\ f[c] <= g[c]
      /\ SumFunctionOnSet(f, T \ {c}) <= SumFunctionOnSet(g, T \ {c})
      /\ ~(SumFunctionOnSet(f, T) <= SumFunctionOnSet(g, T))
  BY <1>1, <1>2
<1> HIDE DEF E
<1>4. /\ SumFunctionOnSet(f, T) = f[c] + SumFunctionOnSet(f, T \ {c})
      /\ SumFunctionOnSet(g, T) = g[c] + SumFunctionOnSet(g, T \ {c})
  <2>1. SumFunctionOnSet(f, T) = f[c] + SumFunctionOnSet(f, T \ {c})
    BY <1>1, <1>2, SumTakes
  <2>2. SumFunctionOnSet(g, T) = g[c] + SumFunctionOnSet(g, T \ {c})
    BY <1>1, <1>2, SumTakes
  <2>3. QED
    BY <2>1, <2>2
<1>5. SumFunctionOnSet(f, T \ {c}) \in Int /\ SumFunctionOnSet(g, T \ {c}) \in Int
  <2>1. IsFiniteSet(T \ {c}) /\ \A z \in T \ {c} : f[z] \in Int /\ g[z] \in Int
    BY <1>1, <1>3, FS_Subset
  <2>2. QED
    BY <2>1, SumIsInt
<1>6. QED
  BY <1>1, <1>3, <1>4, <1>5

\* Equal summands add up to the same.
LEMMA SumEqual ==
    ASSUME NEW f, NEW g, NEW S, IsFiniteSet(S), \A x \in S : f[x] = g[x]
    PROVE  SumFunctionOnSet(f, S) = SumFunctionOnSet(g, S)
<1> DEFINE E == {T \in SUBSET S : SumFunctionOnSet(f, T) # SumFunctionOnSet(g, T)}
<1> SUFFICES ASSUME E # {} PROVE FALSE
  OBVIOUS
<1>1. PICK T \in E : IsFiniteSet(T) /\ \A U \in E : U \subseteq T => U = T
  <2> HIDE DEF E
  <2>1. E \in SUBSET SUBSET S
    BY DEF E
  <2>2. QED
    BY <2>1, SmallestSet
<1> DEFINE c == CHOOSE z \in T : TRUE
<1>2. T # {}
  BY SumOfNothing
<1>3. /\ c \in T /\ T \in SUBSET S /\ f[c] = g[c]
      /\ SumFunctionOnSet(f, T \ {c}) = SumFunctionOnSet(g, T \ {c})
  BY <1>1, <1>2
<1>4. /\ SumFunctionOnSet(f, T) = f[c] + SumFunctionOnSet(f, T \ {c})
      /\ SumFunctionOnSet(g, T) = g[c] + SumFunctionOnSet(g, T \ {c})
  BY <1>1, <1>2, SumTakes
<1>5. QED
  BY <1>1, <1>3, <1>4

\* Zeros add up to zero.
LEMMA SumOfZeros ==
    ASSUME NEW f, NEW S, IsFiniteSet(S), \A x \in S : f[x] = 0
    PROVE  SumFunctionOnSet(f, S) = 0
<1> DEFINE E == {T \in SUBSET S : SumFunctionOnSet(f, T) # 0}
<1> SUFFICES ASSUME E # {} PROVE FALSE
  OBVIOUS
<1>1. PICK T \in E : IsFiniteSet(T) /\ \A U \in E : U \subseteq T => U = T
  <2> HIDE DEF E
  <2>1. E \in SUBSET SUBSET S
    BY DEF E
  <2>2. QED
    BY <2>1, SmallestSet
<1> DEFINE c == CHOOSE z \in T : TRUE
<1>2. T # {}
  BY SumOfNothing
<1>3. c \in T /\ T \in SUBSET S /\ f[c] = 0 /\ SumFunctionOnSet(f, T \ {c}) = 0
  BY <1>1, <1>2
<1>4. SumFunctionOnSet(f, T) = f[c] + SumFunctionOnSet(f, T \ {c})
  BY <1>1, <1>2, SumTakes
<1>5. QED
  BY <1>1, <1>3, <1>4

\* Two summands each.
LEMMA SumOfSums ==
    ASSUME NEW f, NEW g, NEW h, NEW S, IsFiniteSet(S),
           \A x \in S : f[x] \in Int /\ g[x] \in Int /\ h[x] = f[x] + g[x]
    PROVE  SumFunctionOnSet(h, S) = SumFunctionOnSet(f, S) + SumFunctionOnSet(g, S)
<1> DEFINE E == {T \in SUBSET S : SumFunctionOnSet(h, T)
                                    # SumFunctionOnSet(f, T) + SumFunctionOnSet(g, T)}
<1> SUFFICES ASSUME E # {} PROVE FALSE
  OBVIOUS
<1>1. PICK T \in E : IsFiniteSet(T) /\ \A U \in E : U \subseteq T => U = T
  <2> HIDE DEF E
  <2>1. E \in SUBSET SUBSET S
    BY DEF E
  <2>2. QED
    BY <2>1, SmallestSet
<1> DEFINE c == CHOOSE z \in T : TRUE
           sum(k) == SumFunctionOnSet(k, T \ {c})
<1>2. T # {}
  <2>1. /\ SumFunctionOnSet(f, {}) = 0 /\ SumFunctionOnSet(g, {}) = 0
        /\ SumFunctionOnSet(h, {}) = 0
    BY SumOfNothing
  <2>2. ASSUME T = {} PROVE FALSE
    BY <1>1, <2>1, <2>2
  <2>3. QED
    BY <2>2
<1>3. /\ c \in T /\ T \in SUBSET S /\ f[c] \in Int /\ g[c] \in Int /\ h[c] = f[c] + g[c]
      /\ sum(h) = sum(f) + sum(g)
      /\ SumFunctionOnSet(h, T) # SumFunctionOnSet(f, T) + SumFunctionOnSet(g, T)
  BY <1>1, <1>2
<1> HIDE DEF E
<1>4. /\ SumFunctionOnSet(f, T) = f[c] + sum(f)
      /\ SumFunctionOnSet(g, T) = g[c] + sum(g)
      /\ SumFunctionOnSet(h, T) = h[c] + sum(h)
  <2>1. SumFunctionOnSet(f, T) = f[c] + sum(f)
    BY <1>1, <1>2, SumTakes
  <2>2. SumFunctionOnSet(g, T) = g[c] + sum(g)
    BY <1>1, <1>2, SumTakes
  <2>3. SumFunctionOnSet(h, T) = h[c] + sum(h)
    BY <1>1, <1>2, SumTakes
  <2>4. QED
    BY <2>1, <2>2, <2>3
<1>5. sum(f) \in Int /\ sum(g) \in Int
  <2>1. IsFiniteSet(T \ {c}) /\ \A z \in T \ {c} : f[z] \in Int /\ g[z] \in Int
    BY <1>1, <1>3, FS_Subset
  <2>2. QED
    BY <2>1, SumIsInt
<1>6. QED
  BY <1>3, <1>4, <1>5

\* The sum over two sets that share no element.
LEMMA SumOfBoth ==
    ASSUME NEW f, NEW S, NEW T, IsFiniteSet(S), IsFiniteSet(T), S \cap T = {},
           \A x \in S \cup T : f[x] \in Int
    PROVE  SumFunctionOnSet(f, S \cup T) = SumFunctionOnSet(f, S) + SumFunctionOnSet(f, T)
<1> DEFINE E == {U \in SUBSET T : SumFunctionOnSet(f, S \cup U)
                                    # SumFunctionOnSet(f, S) + SumFunctionOnSet(f, U)}
<1> SUFFICES ASSUME E # {} PROVE FALSE
  OBVIOUS
<1>1. PICK U \in E : IsFiniteSet(U) /\ \A V \in E : V \subseteq U => V = U
  <2> HIDE DEF E
  <2>1. E \in SUBSET SUBSET T
    BY DEF E
  <2>2. QED
    BY <2>1, SmallestSet
<1>2. SumFunctionOnSet(f, S) \in Int
  BY SumIsInt
<1>3. U # {}
  <2>1. S \cup {} = S
    OBVIOUS
  <2>2. QED
    BY <1>2, <2>1, SumOfNothing
<1>4. PICK c \in U : TRUE
  BY <1>3
<1>5. /\ U \in SUBSET T /\ c \notin S /\ f[c] \in Int
      /\ IsFiniteSet(U \ {c}) /\ IsFiniteSet(S \cup (U \ {c}))
      /\ \A z \in S \cup U : f[z] \in Int
  BY <1>1, <1>4, FS_Subset, FS_Union
<1>6. SumFunctionOnSet(f, S \cup (U \ {c}))
        = SumFunctionOnSet(f, S) + SumFunctionOnSet(f, U \ {c})
  BY <1>1, <1>4, <1>5
<1>7. SumFunctionOnSet(f, U) = f[c] + SumFunctionOnSet(f, U \ {c})
  BY <1>1, <1>4, <1>5, SumWithout
<1>8. SumFunctionOnSet(f, S \cup U) = SumFunctionOnSet(f, S \cup (U \ {c})) + f[c]
  <2>1. S \cup U = (S \cup (U \ {c})) \cup {c} /\ c \notin S \cup (U \ {c})
    BY <1>4, <1>5
  <2> DEFINE V == S \cup (U \ {c})
  <2>2. IsFiniteSet(V) /\ c \notin V /\ \A z \in V \cup {c} : f[z] \in Int
    BY <1>5, <2>1
  <2>3. SumFunctionOnSet(f, V \cup {c}) = SumFunctionOnSet(f, V) + f[c]
    <3> HIDE DEF V
    <3>1. QED
      BY <2>2, SumWith
  <2>4. QED
    BY <2>1, <2>3
<1>9. SumFunctionOnSet(f, U \ {c}) \in Int
  BY <1>5, SumIsInt
<1>10. QED
  BY <1>1, <1>2, <1>5, <1>6, <1>7, <1>8, <1>9

\* A sum with one summand changed.
LEMMA SumChanged ==
    ASSUME NEW f, NEW g, NEW S, IsFiniteSet(S), NEW x \in S,
           \A y \in S : f[y] \in Int, g[x] \in Int,
           \A y \in S : y # x => g[y] = f[y]
    PROVE  SumFunctionOnSet(g, S) = SumFunctionOnSet(f, S) - f[x] + g[x]
<1>1. IsFiniteSet(S \ {x}) /\ \A y \in S : g[y] \in Int
  BY FS_Subset
<1>2. /\ SumFunctionOnSet(f, S) = f[x] + SumFunctionOnSet(f, S \ {x})
      /\ SumFunctionOnSet(g, S) = g[x] + SumFunctionOnSet(g, S \ {x})
  BY <1>1, SumWithout
<1>3. SumFunctionOnSet(f, S \ {x}) = SumFunctionOnSet(g, S \ {x})
  BY <1>1, SumEqual
<1>4. SumFunctionOnSet(f, S \ {x}) \in Int
  BY <1>1, SumIsInt
<1>5. QED
  BY <1>2, <1>3, <1>4

\* Numbers that are not negative add up to such a number, and no summand
\* exceeds it.
LEMMA SumOfNaturals ==
    ASSUME NEW f, NEW S, IsFiniteSet(S), \A x \in S : f[x] \in Nat
    PROVE  /\ SumFunctionOnSet(f, S) \in Nat
           /\ \A x \in S : f[x] <= SumFunctionOnSet(f, S)
<1>1. ASSUME NEW T \in SUBSET S
      PROVE  SumFunctionOnSet(f, T) \in Nat
  <2> DEFINE zero == [x \in T |-> 0]
  <2>1. IsFiniteSet(T) /\ \A x \in T : f[x] \in Int /\ zero[x] \in Int /\ zero[x] <= f[x]
    BY FS_Subset
  <2>2. SumFunctionOnSet(zero, T) = 0 /\ SumFunctionOnSet(zero, T) <= SumFunctionOnSet(f, T)
    <3>1. \A x \in T : zero[x] = 0
      OBVIOUS
    <3>2. QED
      <4> HIDE DEF zero
      <4>1. QED
        BY <2>1, <3>1, SumOfZeros, SumMonotone
  <2>3. SumFunctionOnSet(f, T) \in Int
    BY <2>1, SumIsInt
  <2>4. QED
    BY <2>2, <2>3
<1>2. ASSUME NEW x \in S
      PROVE  f[x] <= SumFunctionOnSet(f, S)
  <2>1. SumFunctionOnSet(f, S) = f[x] + SumFunctionOnSet(f, S \ {x})
    BY SumWithout
  <2>2. SumFunctionOnSet(f, S \ {x}) \in Nat
    BY <1>1
  <2>3. QED
    BY <2>1, <2>2
<1>3. QED
  BY <1>1, <1>2

\* A common factor.
LEMMA SumScaled ==
    ASSUME NEW f, NEW g, NEW S, IsFiniteSet(S), NEW k \in Int,
           \A x \in S : f[x] \in Int /\ g[x] = k * f[x]
    PROVE  SumFunctionOnSet(g, S) = k * SumFunctionOnSet(f, S)
<1> DEFINE E == {T \in SUBSET S : SumFunctionOnSet(g, T) # k * SumFunctionOnSet(f, T)}
<1> SUFFICES ASSUME E # {} PROVE FALSE
  OBVIOUS
<1>1. PICK T \in E : IsFiniteSet(T) /\ \A U \in E : U \subseteq T => U = T
  <2> HIDE DEF E
  <2>1. E \in SUBSET SUBSET S
    BY DEF E
  <2>2. QED
    BY <2>1, SmallestSet
<1> DEFINE c == CHOOSE z \in T : TRUE
           sum(h) == SumFunctionOnSet(h, T \ {c})
<1>2. T # {}
  <2>1. SumFunctionOnSet(f, {}) = 0 /\ SumFunctionOnSet(g, {}) = 0 /\ k * 0 = 0
    BY SumOfNothing
  <2>2. ASSUME T = {} PROVE FALSE
    BY <1>1, <2>1, <2>2
  <2>3. QED
    BY <2>2
<1>3. /\ c \in T /\ T \in SUBSET S /\ f[c] \in Int /\ g[c] = k * f[c]
      /\ sum(g) = k * sum(f)
      /\ SumFunctionOnSet(g, T) # k * SumFunctionOnSet(f, T)
  BY <1>1, <1>2
<1> HIDE DEF E
<1>4. SumFunctionOnSet(f, T) = f[c] + sum(f)
  BY <1>1, <1>2, SumTakes
<1>5. SumFunctionOnSet(g, T) = g[c] + sum(g)
  BY <1>1, <1>2, SumTakes
<1>6. sum(f) \in Int
  <2>1. IsFiniteSet(T \ {c}) /\ \A z \in T \ {c} : f[z] \in Int
    BY <1>1, <1>3, FS_Subset
  <2>2. QED
    BY <2>1, SumIsInt
<1>7. k * (f[c] + sum(f)) = k * f[c] + k * sum(f)
  BY <1>3, <1>6
<1>8. QED
  BY <1>3, <1>4, <1>5, <1>7

\* The same summand for every element.
LEMMA SumOfConstants ==
    ASSUME NEW f, NEW S, IsFiniteSet(S), NEW k \in Int, \A x \in S : f[x] = k
    PROVE  SumFunctionOnSet(f, S) = Cardinality(S) * k
<1> DEFINE E == {T \in SUBSET S : SumFunctionOnSet(f, T) # Cardinality(T) * k}
<1> SUFFICES ASSUME E # {} PROVE FALSE
  OBVIOUS
<1>1. PICK T \in E : IsFiniteSet(T) /\ \A U \in E : U \subseteq T => U = T
  <2> HIDE DEF E
  <2>1. E \in SUBSET SUBSET S
    BY DEF E
  <2>2. QED
    BY <2>1, SmallestSet
<1> DEFINE c == CHOOSE z \in T : TRUE
<1>2. T # {}
  <2>1. SumFunctionOnSet(f, {}) = 0 /\ Cardinality({}) = 0 /\ 0 * k = 0
    BY SumOfNothing, FS_EmptySet
  <2>2. ASSUME T = {} PROVE FALSE
    BY <1>1, <2>1, <2>2
  <2>3. QED
    BY <2>2
<1>3. /\ c \in T /\ T \in SUBSET S /\ f[c] = k
      /\ SumFunctionOnSet(f, T \ {c}) = Cardinality(T \ {c}) * k
      /\ SumFunctionOnSet(f, T) # Cardinality(T) * k
  BY <1>1, <1>2
<1> HIDE DEF E
<1>4. SumFunctionOnSet(f, T) = f[c] + SumFunctionOnSet(f, T \ {c})
  BY <1>1, <1>2, SumTakes
<1>5. Cardinality(T) \in Nat /\ Cardinality(T \ {c}) = Cardinality(T) - 1
  BY <1>1, <1>3, FS_RemoveElement, FS_CardinalityType
<1>6. k + (Cardinality(T) - 1) * k = Cardinality(T) * k
  BY <1>5
<1>7. QED
  BY <1>3, <1>4, <1>5, <1>6

\* The summands of S with one key.
OfKey(S, key, c) == {x \in S : key[x] = c}

\* What the parts of S by key add up to is what S adds up to.
LEMMA SumOfParts ==
    ASSUME NEW S, IsFiniteSet(S), NEW K, IsFiniteSet(K), NEW key, \A x \in S : key[x] \in K,
           NEW f, \A x \in S : f[x] \in Int,
           NEW g, \A c \in K : g[c] = SumFunctionOnSet(f, OfKey(S, key, c))
    PROVE  SumFunctionOnSet(g, K) = SumFunctionOnSet(f, S)
<1> DEFINE parts(T) == [c \in K |-> SumFunctionOnSet(f, OfKey(T, key, c))]
           E == {T \in SUBSET S : SumFunctionOnSet(parts(T), K) # SumFunctionOnSet(f, T)}
<1>1. E = {}
  <2> SUFFICES ASSUME E # {} PROVE FALSE
    OBVIOUS
  <2>1. PICK T \in E : IsFiniteSet(T) /\ \A U \in E : U \subseteq T => U = T
    <3> HIDE DEF E
    <3>1. E \in SUBSET SUBSET S
      BY DEF E
    <3>2. QED
      BY <3>1, SmallestSet
  <2>2. T \in SUBSET S /\ SumFunctionOnSet(parts(T), K) # SumFunctionOnSet(f, T)
    BY <2>1
  <2>3. \A U \in SUBSET T : U # T => SumFunctionOnSet(parts(U), K) = SumFunctionOnSet(f, U)
    BY <2>1, <2>2
  <2> HIDE DEF E
  <2>4. T # {}
    <3> SUFFICES ASSUME T = {} PROVE FALSE
      OBVIOUS
    <3>1. \A c : OfKey(T, key, c) = {}
      BY DEF OfKey
    <3>2. SumFunctionOnSet(f, {}) = 0
      BY SumOfNothing
    <3>3. \A c \in K : parts(T)[c] = 0
      BY <3>1, <3>2
    <3> HIDE DEF parts
    <3>4. SumFunctionOnSet(parts(T), K) = 0
      BY <3>3, SumOfZeros
    <3>5. QED
      BY <2>2, <3>2, <3>4
  <2>5. PICK y \in T : TRUE
    BY <2>4
  <2> DEFINE U == T \ {y}
             k == key[y]
  <2>6. /\ k \in K /\ y \in S /\ f[y] \in Int /\ U \in SUBSET T /\ U # T /\ y \notin U
        /\ \A x \in S : f[x] \in Int
    BY <2>2, <2>5
  <2>7. \A c \in K : /\ IsFiniteSet(OfKey(U, key, c)) /\ OfKey(U, key, c) \subseteq S
                     /\ parts(U)[c] \in Int
    <3> SUFFICES ASSUME NEW c \in K
                 PROVE  /\ IsFiniteSet(OfKey(U, key, c)) /\ OfKey(U, key, c) \subseteq S
                        /\ parts(U)[c] \in Int
      OBVIOUS
    <3> DEFINE P == OfKey(U, key, c)
    <3>1. P \subseteq S
      BY <2>2 DEF OfKey
    <3> HIDE DEF P, U
    <3>2. IsFiniteSet(P) /\ \A x \in P : f[x] \in Int
      BY <2>6, <3>1, FS_Subset
    <3>3. SumFunctionOnSet(f, P) \in Int
      BY <3>2, SumIsInt
    <3>4. QED
      BY <3>1, <3>2, <3>3 DEF P
  <2>8. OfKey(T, key, k) = OfKey(U, key, k) \cup {y} /\ y \notin OfKey(U, key, k)
    BY <2>5 DEF OfKey
  <2>9. \A c \in K : c # k => parts(T)[c] = parts(U)[c]
    <3>1. \A c \in K : c # k => OfKey(T, key, c) = OfKey(U, key, c)
      BY DEF OfKey
    <3>2. QED
      BY <3>1
  <2>10. parts(T)[k] = parts(U)[k] + f[y]
    <3> DEFINE P == OfKey(U, key, k)
    <3>1. IsFiniteSet(P) /\ P \subseteq S /\ y \notin P
      BY <2>6, <2>7, <2>8
    <3>2. \A x \in P \cup {y} : f[x] \in Int
      BY <2>6, <3>1
    <3>3. parts(T)[k] = SumFunctionOnSet(f, P \cup {y}) /\ parts(U)[k] = SumFunctionOnSet(f, P)
      BY <2>6, <2>8
    <3> HIDE DEF P, parts, k
    <3>4. SumFunctionOnSet(f, P \cup {y}) = SumFunctionOnSet(f, P) + f[y]
      BY <3>1, <3>2, SumWith
    <3>5. QED
      BY <3>3, <3>4
  <2>11. SumFunctionOnSet(f, T) = f[y] + SumFunctionOnSet(f, U)
    <3>1. IsFiniteSet(T) /\ \A x \in T : f[x] \in Int
      BY <2>1, <2>2
    <3>2. QED
      BY <2>5, <3>1, SumWithout
  <2>12. SumFunctionOnSet(f, U) \in Int
    <3>1. IsFiniteSet(U) /\ \A x \in U : f[x] \in Int
      BY <2>1, <2>2, FS_Subset
    <3> HIDE DEF U
    <3>2. QED
      BY <3>1, SumIsInt
  <2>13. SumFunctionOnSet(parts(U), K) = SumFunctionOnSet(f, U)
    BY <2>3, <2>6
  <2> DEFINE before == parts(U)
             after == parts(T)
  <2>14. /\ \A c \in K : before[c] \in Int
         /\ \A c \in K : c # k => after[c] = before[c]
         /\ after[k] = before[k] + f[y] /\ k \in K
    BY <2>6, <2>7, <2>9, <2>10
  <2>15. after[k] \in Int
    BY <2>6, <2>14
  <2>16. before[k] \in Int
    BY <2>14
  <2>17. SumFunctionOnSet(after, K) = SumFunctionOnSet(before, K) - before[k] + after[k]
    <3> HIDE DEF before, after, k
    <3>1. QED
      BY <2>14, <2>15, SumChanged
  <2>18. SumFunctionOnSet(before, K) = SumFunctionOnSet(f, U) /\ SumFunctionOnSet(after, K) # SumFunctionOnSet(f, T)
    BY <2>2, <2>13
  <2> HIDE DEF before, after, U, k
  <2>19. QED
    BY <2>6, <2>11, <2>12, <2>14, <2>16, <2>17, <2>18
<1>2. SumFunctionOnSet(parts(S), K) = SumFunctionOnSet(f, S)
  BY <1>1
<1>3. \A c \in K : parts(S)[c] = g[c]
  OBVIOUS
<1> HIDE DEF parts
<1>4. SumFunctionOnSet(g, K) = SumFunctionOnSet(parts(S), K)
  BY <1>3, SumEqual
<1>5. QED
  BY <1>2, <1>4

\* What the parts of S by key count adds up to the count of S.
LEMMA CountOfParts ==
    ASSUME NEW S, IsFiniteSet(S), NEW K, IsFiniteSet(K), NEW key, \A x \in S : key[x] \in K,
           NEW g, \A c \in K : g[c] = Cardinality(OfKey(S, key, c))
    PROVE  SumFunctionOnSet(g, K) = Cardinality(S)
<1>1. PICK m \in Int : m = 1
  OBVIOUS
<1> DEFINE f == [x \in S |-> m]
<1>2. \A x \in S : f[x] = m /\ f[x] \in Int
  OBVIOUS
<1>3. \A T \in SUBSET S : SumFunctionOnSet(f, T) = Cardinality(T)
  <2> SUFFICES ASSUME NEW T \in SUBSET S PROVE SumFunctionOnSet(f, T) = Cardinality(T)
    OBVIOUS
  <2>1. IsFiniteSet(T) /\ Cardinality(T) \in Nat /\ \A x \in T : f[x] = m
    BY <1>2, FS_Subset, FS_CardinalityType
  <2> HIDE DEF f
  <2>2. SumFunctionOnSet(f, T) = Cardinality(T) * m
    BY <2>1, SumOfConstants
  <2>3. QED
    BY <1>1, <2>1, <2>2
<1>4. \A c \in K : OfKey(S, key, c) \in SUBSET S
  BY DEF OfKey
<1> HIDE DEF f
<1>5. \A c \in K : g[c] = SumFunctionOnSet(f, OfKey(S, key, c))
  BY <1>3, <1>4
<1>6. SumFunctionOnSet(g, K) = SumFunctionOnSet(f, S)
  BY <1>2, <1>5, SumOfParts
<1>7. QED
  BY <1>3, <1>6

\* A bound on every summand is a bound on the sum.
LEMMA SumWithin ==
    ASSUME NEW f, NEW g, NEW S, IsFiniteSet(S),
           NEW a \in Int, NEW b \in Int, NEW d \in Int,
           \A x \in S : f[x] \in Int /\ g[x] \in Int /\ a * f[x] <= b * g[x] + d
    PROVE  a * SumFunctionOnSet(f, S)
              <= b * SumFunctionOnSet(g, S) + Cardinality(S) * d
<1> DEFINE left  == [x \in S |-> a * f[x]]
           right == [x \in S |-> b * g[x] + d]
           scaled == [x \in S |-> b * g[x]]
           same == [x \in S |-> d]
<1>1. /\ \A x \in S : left[x] = a * f[x] /\ scaled[x] = b * g[x] /\ same[x] = d
      /\ \A x \in S : right[x] = scaled[x] + same[x]
      /\ \A x \in S : left[x] \in Int /\ right[x] \in Int /\ left[x] <= right[x]
      /\ \A x \in S : scaled[x] \in Int /\ same[x] \in Int
  OBVIOUS
<1> HIDE DEF left, right, scaled, same
<1>2. SumFunctionOnSet(left, S) = a * SumFunctionOnSet(f, S)
  BY <1>1, SumScaled
<1>3. SumFunctionOnSet(scaled, S) = b * SumFunctionOnSet(g, S)
  BY <1>1, SumScaled
<1>4. SumFunctionOnSet(same, S) = Cardinality(S) * d
  BY <1>1, SumOfConstants
<1>5. SumFunctionOnSet(right, S) = SumFunctionOnSet(scaled, S) + SumFunctionOnSet(same, S)
  BY <1>1, SumOfSums
<1>6. SumFunctionOnSet(left, S) <= SumFunctionOnSet(right, S)
  BY <1>1, SumMonotone
<1>7. QED
  BY <1>2, <1>3, <1>4, <1>5, <1>6

\* The sum of a sequence that got one element more.
LEMMA SumAppended ==
    ASSUME NEW n \in Nat, NEW f, NEW g,
           \A i \in 1..(n + 1) : g[i] \in Int, \A i \in 1..n : g[i] = f[i]
    PROVE  SumFunctionOnSet(g, 1..(n + 1)) = SumFunctionOnSet(f, 1..n) + g[n + 1]
<1>1. IsFiniteSet(1..n) /\ n + 1 \notin 1..n /\ 1..(n + 1) = (1..n) \cup {n + 1}
  BY FS_Interval
<1>2. \A i \in (1..n) \cup {n + 1} : g[i] \in Int
  BY <1>1
<1>3. SumFunctionOnSet(g, (1..n) \cup {n + 1}) = SumFunctionOnSet(g, 1..n) + g[n + 1]
  <2> DEFINE S == 1..n
             x == n + 1
  <2>1. IsFiniteSet(S) /\ x \notin S /\ \A i \in S \cup {x} : g[i] \in Int
    BY <1>1, <1>2
  <2> HIDE DEF S, x
  <2>2. SumFunctionOnSet(g, S \cup {x}) = SumFunctionOnSet(g, S) + g[x]
    BY <2>1, SumWith
  <2>3. QED
    BY <2>2 DEF S, x
<1>4. SumFunctionOnSet(g, 1..n) = SumFunctionOnSet(f, 1..n)
  BY <1>1, SumEqual
<1>5. QED
  BY <1>1, <1>3, <1>4

\* The sum of a function is the sum over its domain.
LEMMA SumOfFunction ==
    ASSUME NEW f
    PROVE  SumFunction(f) = SumFunctionOnSet(f, DOMAIN f)
  BY DEF SumFunction, SumFunctionOnSet, FoldFunction

-----------------------------------------------------------------------------
(* Products. *)

ProductOn(f, S) == FoldFunctionOnSet(LAMBDA a, b : a * b, 1, f, S)

\* g is what ProductOn computes for each subset of S.
Multiplied(g, f, S) ==
    g = [s \in SUBSET S |->
            IF s = {} THEN 1
            ELSE f[CHOOSE x \in s : TRUE] * g[s \ {CHOOSE x \in s : TRUE}]]

\* It is a fold.
LEMMA MultipliedFolds ==
    ASSUME NEW f, NEW S, NEW g
    PROVE  \A op : op = "product" => (Multiplied(g, f, S) <=> Folded(op, g, f, S))
  BY DEF Multiplied, Folded, Joined, Neutral

\* And there is one.
LEMMA ProductIsOf ==
    ASSUME NEW f, NEW S, IsFiniteSet(S)
    PROVE  \E g : Multiplied(g, f, S) /\ ProductOn(f, S) = g[S]
<1> DEFINE g == CHOOSE k : Multiplied(k, f, S)
<1>1. PICK op : op = "product"
  OBVIOUS
<1>2. PICK h : Folded(op, h, f, S)
  BY FoldedExists
<1>3. Multiplied(h, f, S)
  BY <1>1, <1>2, MultipliedFolds
<1>4. Multiplied(g, f, S)
  BY <1>3
<1>5. ProductOn(f, S) = g[S]
  BY DEF ProductOn, FoldFunctionOnSet, MapThenFoldSet, Multiplied
<1>6. QED
  BY <1>4, <1>5

\* The product of natural numbers is one.
LEMMA ProductOfNaturals ==
    ASSUME NEW f, NEW S, IsFiniteSet(S), \A x \in S : f[x] \in Nat
    PROVE  ProductOn(f, S) \in Nat
<1> DEFINE E == {T \in SUBSET S : ProductOn(f, T) \notin Nat}
<1> SUFFICES ASSUME E # {} PROVE FALSE
  OBVIOUS
<1>1. PICK T \in E : IsFiniteSet(T) /\ \A U \in E : U \subseteq T => U = T
  <2> HIDE DEF E
  <2>1. E \in SUBSET SUBSET S
    BY DEF E
  <2>2. QED
    BY <2>1, SmallestSet
<1>2. T \in SUBSET S /\ ProductOn(f, T) \notin Nat
  BY <1>1
<1>3. \A U \in SUBSET S : U \subseteq T /\ U # T => ProductOn(f, U) \in Nat
  BY <1>1
<1> HIDE DEF E
<1>4. PICK g : Multiplied(g, f, T) /\ ProductOn(f, T) = g[T]
  BY <1>1, ProductIsOf
<1>5. T # {}
  BY <1>2, <1>4 DEF Multiplied
<1> DEFINE c == CHOOSE x \in T : TRUE
<1>6. c \in T /\ IsFiniteSet(T \ {c}) /\ T \ {c} \in SUBSET S /\ T \ {c} # T
  BY <1>1, <1>2, <1>5, FS_Subset
<1>7. PICK h : Multiplied(h, f, T \ {c}) /\ ProductOn(f, T \ {c}) = h[T \ {c}]
  BY <1>6, ProductIsOf
<1>8. PICK op : op = "product"
  OBVIOUS
<1>9. Folded(op, g, f, T) /\ Folded(op, h, f, T \ {c})
  BY <1>4, <1>7, <1>8, MultipliedFolds
<1>10. g[T] = Joined(op, f[c], h[T \ {c}])
  <2> HIDE DEF c
  <2>1. Folded(op, g, f, T) /\ IsFiniteSet(T) /\ T # {}
    BY <1>1, <1>5, <1>9
  <2>2. QED
    BY <2>1, <1>9, FoldTakes DEF c
<1>11. ProductOn(f, T) = f[c] * ProductOn(f, T \ {c})
  BY <1>4, <1>7, <1>8, <1>10 DEF Joined
<1>12. ProductOn(f, T \ {c}) \in Nat /\ f[c] \in Nat
  BY <1>2, <1>3, <1>6
<1>13. \A m, n \in Nat : m * n \in Nat
  OBVIOUS
<1>14. QED
  BY <1>2, <1>11, <1>12, <1>13

-----------------------------------------------------------------------------
(* Largest and smallest numbers, and division. *)

\* Finitely many integers have a largest one.
LEMMA LargestExists ==
    ASSUME NEW f, NEW S, IsFiniteSet(S), S # {}, \A x \in S : f[x] \in Int
    PROVE  \E x \in S : \A y \in S : f[y] <= f[x]
<1> DEFINE E == {T \in SUBSET S : T # {} /\ ~ \E x \in T : \A y \in T : f[y] <= f[x]}
<1> SUFFICES ASSUME E # {} PROVE FALSE
  OBVIOUS
<1>1. PICK T \in E : IsFiniteSet(T) /\ \A U \in E : U \subseteq T => U = T
  <2> HIDE DEF E
  <2>1. E \in SUBSET SUBSET S
    BY DEF E
  <2>2. QED
    BY <2>1, SmallestSet
<1>2. PICK c \in T : TRUE
  BY <1>1
<1>3. T # {c}
  BY <1>1, <1>2
<1>4. PICK x \in T \ {c} : \A y \in T \ {c} : f[y] <= f[x]
  <2>1. T \ {c} \in SUBSET S /\ T \ {c} # {} /\ T \ {c} # T
    BY <1>1, <1>2, <1>3
  <2>2. T \ {c} \notin E
    BY <1>1, <2>1
  <2>3. QED
    BY <2>1, <2>2
<1>5. f[c] \in Int /\ f[x] \in Int /\ \A y \in T : f[y] \in Int
  BY <1>1, <1>2, <1>4
<1>6. CASE f[c] <= f[x]
  BY <1>1, <1>4, <1>6
<1>7. CASE ~(f[c] <= f[x])
  <2>1. \A y \in T : f[y] <= f[c]
    BY <1>4, <1>5, <1>7
  <2>2. QED
    BY <1>1, <1>2, <2>1
<1>8. QED
  BY <1>6, <1>7

\* Finitely many integers have a smallest one.
LEMMA LeastElement ==
    ASSUME NEW S \in SUBSET Int, IsFiniteSet(S), S # {}
    PROVE  \E m \in S : \A k \in S : m <= k
<1> DEFINE f == [x \in S |-> -x]
<1>1. \A x \in S : f[x] \in Int /\ f[x] = -x
  OBVIOUS
<1>2. \E x \in S : \A y \in S : f[y] <= f[x]
  <2> HIDE DEF f
  <2>1. QED
    BY <1>1, LargestExists
<1>3. QED
  BY <1>2

\* Integer division leaves a rest below the divisor.
LEMMA DivisionRest ==
    ASSUME NEW a \in Int, NEW b \in Nat, b > 0
    PROVE  /\ a \div b \in Int
           /\ b * (a \div b) <= a
           /\ a < b * (a \div b) + b
  OBVIOUS

-----------------------------------------------------------------------------
(* Sequences. *)

\* A sequence has finitely many members.
LEMMA RangeIsFinite ==
    ASSUME NEW S, NEW s \in Seq(S)
    PROVE  Range(s) \subseteq S /\ IsFiniteSet(Range(s)) /\ Cardinality(Range(s)) <= Len(s)
<1> DEFINE f == [i \in 1..Len(s) |-> s[i]]
<1>1. f \in Surjection(1..Len(s), Range(s))
  <2>1. DOMAIN s = 1..Len(s) /\ Range(s) = {s[i] : i \in 1..Len(s)}
    BY DEF Range
  <2>2. f \in [1..Len(s) -> Range(s)] /\ \A x \in Range(s) : \E i \in 1..Len(s) : f[i] = x
    BY <2>1
  <2>3. QED
    BY <2>2 DEF Surjection
<1>2. IsFiniteSet(1..Len(s)) /\ Cardinality(1..Len(s)) = Len(s)
  <2> DEFINE n == Len(s)
  <2>1. n \in Nat
    OBVIOUS
  <2> HIDE DEF n
  <2>2. IsFiniteSet(1..n) /\ Cardinality(1..n) = n
    BY <2>1, FS_Interval
  <2>3. QED
    BY <2>2 DEF n
<1>3. QED
  BY <1>1, <1>2, FS_Surjection DEF Range

\* An indexed set has as many elements as there are indices when no two
\* indices share one.
LEMMA CountOfIndexed ==
    ASSUME NEW n \in Nat, NEW f
    PROVE  LET D == {f[i] : i \in 1..n} IN
           /\ IsFiniteSet(D) /\ Cardinality(D) \in Nat /\ Cardinality(D) <= n
           /\ Cardinality(D) = n <=> \A i, j \in 1..n : f[i] = f[j] => i = j
<1> DEFINE N == 1..n
           D == {f[i] : i \in N}
           g == [i \in N |-> f[i]]
<1>1. IsFiniteSet(N) /\ Cardinality(N) = n
  BY FS_Interval
<1> HIDE DEF N
<1>2. g \in Surjection(N, D)
  BY DEF Surjection
<1>3. g \in Injection(N, D) <=> \A i, j \in N : f[i] = f[j] => i = j
  BY DEF Injection, IsInjective
<1> HIDE DEF g, D
<1>4. /\ IsFiniteSet(D) /\ Cardinality(D) <= Cardinality(N)
      /\ Cardinality(D) = Cardinality(N) <=> g \in Injection(N, D)
  BY <1>1, <1>2, FS_Surjection
<1>5. Cardinality(D) \in Nat
  BY <1>4, FS_CardinalityType
<1>6. QED
  BY <1>1, <1>3, <1>4, <1>5 DEF D, N

\* The converse reading: as many elements as indices, so no element twice.
LEMMA ManyAsIndices ==
    ASSUME NEW n \in Nat, NEW f, Cardinality({f[i] : i \in 1..n}) = n
    PROVE  \A i, j \in 1..n : f[i] = f[j] => i = j
  BY CountOfIndexed

Smaller(S, x) == {y \in S : y < x}

\* Keys in order are all the keys, each of them once.
LEMMA KeysInOrder ==
    ASSUME NEW S, S \subseteq Int, IsFiniteSet(S)
    PROVE  /\ Cardinality(S) \in Nat
           /\ Len(InOrder(S)) = Cardinality(S)
           /\ \A k \in 1..Cardinality(S) : InOrder(S)[k] \in S
           /\ \A k, l \in 1..Cardinality(S) : InOrder(S)[k] = InOrder(S)[l] => k = l
           /\ \A x \in S : \E k \in 1..Cardinality(S) : InOrder(S)[k] = x
<1> DEFINE n == Cardinality(S)
           below(x) == Cardinality(Smaller(S, x))
           rank == [x \in S |-> below(x) + 1]
<1>1. n \in Nat /\ \A x \in S : below(x) \in Nat /\ IsFiniteSet(Smaller(S, x))
  <2>1. \A x \in S : Smaller(S, x) \subseteq S
    BY DEF Smaller
  <2>2. QED
    BY <2>1, FS_Subset, FS_CardinalityType
<1>2. \A x \in S : below(x) + 1 \in 1..n
  <2> SUFFICES ASSUME NEW x \in S
               PROVE  below(x) < n
    BY <1>1
  <2>1. Smaller(S, x) \subseteq S /\ Smaller(S, x) # S
    BY DEF Smaller
  <2>2. QED
    BY <1>1, <2>1, FS_Subset
<1>3. \A x, y \in S : x < y => below(x) < below(y)
  <2> SUFFICES ASSUME NEW x \in S, NEW y \in S, x < y
               PROVE  below(x) < below(y)
    OBVIOUS
  <2>0. x \in Int /\ y \in Int /\ \A z \in S : z \in Int
    OBVIOUS
  <2>1. Smaller(S, x) \subseteq Smaller(S, y) /\ x \in Smaller(S, y) /\ x \notin Smaller(S, x)
    <3>1. \A z \in S : z < x => z < y
      BY <2>0
    <3>2. x < y /\ ~(x < x)
      BY <2>0
    <3>3. QED
      BY <3>1, <3>2 DEF Smaller
  <2>2. QED
    BY <1>1, <2>1, FS_Subset
<1>4. rank \in Injection(S, 1..n)
  <2>1. \A x, y \in S : x = y \/ x < y \/ y < x
    OBVIOUS
  <2>2. \A x, y \in S : below(x) = below(y) => x = y
    <3> HIDE DEF below
    <3>1. QED
      BY <1>1, <1>3, <2>1
  <2>3. \A x \in S : rank[x] \in 1..n /\ rank[x] = below(x) + 1
    BY <1>2
  <2>4. \A x, y \in S : rank[x] = rank[y] => x = y
    <3> HIDE DEF below
    <3>1. QED
      BY <1>1, <2>2, <2>3
  <2> HIDE DEF below, n
  <2>5. rank \in [S -> 1..n]
    BY <2>3
  <2>6. QED
    BY <2>4, <2>5 DEF Injection, IsInjective
<1>5. rank \in Surjection(S, 1..n)
  <2>1. IsFiniteSet(1..n) /\ Cardinality(1..n) = n
    BY <1>1, FS_Interval
  <2>2. QED
    BY <1>4, <2>1, FS_Injection
<1>6. \A k \in 1..n : \E x \in S : below(x) + 1 = k
  BY <1>5 DEF Surjection
<1>7. InOrder(S) = [k \in 1..n |-> CHOOSE x \in S : below(x) = k - 1]
  BY DEF InOrder, Smaller
<1> HIDE DEF below, n
<1>8. \A k \in 1..n : InOrder(S)[k] \in S /\ below(InOrder(S)[k]) = k - 1
  <2> SUFFICES ASSUME NEW k \in 1..n
               PROVE  InOrder(S)[k] \in S /\ below(InOrder(S)[k]) = k - 1
    OBVIOUS
  <2>1. \E x \in S : below(x) = k - 1
    BY <1>1, <1>6
  <2>2. InOrder(S)[k] = CHOOSE x \in S : below(x) = k - 1
    BY <1>7
  <2>3. QED
    BY <2>1, <2>2
<1>9. \A x, y \in S : below(x) = below(y) => x = y
  BY <1>1, <1>3
<1>10. \A x \in S : \E k \in 1..n : InOrder(S)[k] = x
  <2> SUFFICES ASSUME NEW x \in S
               PROVE  \E k \in 1..n : InOrder(S)[k] = x
    OBVIOUS
  <2>1. below(x) + 1 \in 1..n /\ (below(x) + 1) - 1 = below(x)
    BY <1>1, <1>2
  <2>2. InOrder(S)[below(x) + 1] = x
    BY <1>8, <1>9, <2>1
  <2>3. QED
    BY <2>1, <2>2
<1>11. \A k, l \in 1..n : InOrder(S)[k] = InOrder(S)[l] => k = l
  BY <1>1, <1>8
<1>12. Len(InOrder(S)) = n
  BY <1>1, <1>7
<1>13. QED
  BY <1>1, <1>8, <1>10, <1>11, <1>12 DEF n
=============================================================================
