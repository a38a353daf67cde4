----------------------------- MODULE FiniteSums -----------------------------
(***************************************************************************)
(* What the proofs about money need of sums over finite sets: a sum does   *)
(* not depend on the order in which the library's definition takes the     *)
(* elements, so that one more element adds its weight.                     *)
(*                                                                         *)
(* The library folds with a recursive function on the subsets of a set,    *)
(* here a table.  Induction is replaced by a smallest subset for which the *)
(* claim fails.                                                            *)
(***************************************************************************)
EXTENDS Integers, FiniteSetsExt, FiniteSetTheorems, WellFoundedInduction, TLAPS

IsTable(g, w, S) ==
    g = [s \in SUBSET S |->
            IF s = {} THEN 0
            ELSE w[CHOOSE x \in s : TRUE] + g[s \ {CHOOSE x \in s : TRUE}]]

Weighs(w, S) == \A x \in S : w[x] \in Int

SumOver(w, S) == FoldFunctionOnSet(+, 0, w, S)

\* Among subsets of a finite set one has no other below it.
LEMMA SmallestSubset ==
    ASSUME NEW S, IsFiniteSet(S), NEW T, T \subseteq SUBSET S, T # {}
    PROVE  \E s \in T : \A t \in T : t \subseteq s => t = s
<1>1. IsWellFoundedOn(StrictSubsetOrdering(S), SUBSET S)
  BY FS_StrictSubsetOrderingWellFounded, FS_FiniteSubsetsOfFinite
<1>2. PICK s \in T : \A t \in T : <<t, s>> \notin StrictSubsetOrdering(S)
  BY <1>1, WFMin
<1>3. ASSUME NEW t \in T, t \subseteq s PROVE t = s
  BY <1>2, <1>3 DEF StrictSubsetOrdering
<1> QED
  BY <1>3

\* One line of a table.
LEMMA TableLine ==
    ASSUME NEW S, NEW w, NEW g, IsTable(g, w, S), NEW s \in SUBSET S, s # {}
    PROVE  \E x \in s : g[s] = w[x] + g[s \ {x}]
<1> DEFINE x == CHOOSE y \in s : TRUE
<1>1. x \in s
  OBVIOUS
<1>2. g[s] = w[x] + g[s \ {x}]
  BY DEF IsTable
<1> QED
  BY <1>1, <1>2

LEMMA TableStart ==
    ASSUME NEW S, NEW w, NEW g, IsTable(g, w, S)
    PROVE  g[{}] = 0
BY DEF IsTable

\* Every entry of a table of integers is an integer.
LEMMA TableType ==
    ASSUME NEW S, IsFiniteSet(S), NEW w, Weighs(w, S), NEW g, IsTable(g, w, S),
           NEW s \in SUBSET S
    PROVE  g[s] \in Int
<1> DEFINE T == {t \in SUBSET S : g[t] \notin Int}
<1> SUFFICES ASSUME s \in T PROVE FALSE
  OBVIOUS
<1>1. PICK t \in T : \A u \in T : u \subseteq t => u = t
  <2>1. T \subseteq SUBSET S /\ T # {}
    OBVIOUS
  <2> HIDE DEF T
  <2> QED
    BY <2>1, SmallestSubset
<1>2. t # {}
  BY TableStart
<1>3. PICK x \in t : g[t] = w[x] + g[t \ {x}]
  BY <1>2, TableLine
<1>4. t \ {x} \notin T
  BY <1>1
<1>5. g[t \ {x}] \in Int /\ w[x] \in Int
  BY <1>4 DEF Weighs
<1> QED
  BY <1>3, <1>5

\* Two tables of the same weights agree where both are defined.
LEMMA TablesAgree ==
    ASSUME NEW S, IsFiniteSet(S), NEW w,
           NEW A \in SUBSET S, NEW B \in SUBSET S,
           NEW g, IsTable(g, w, A), NEW h, IsTable(h, w, B),
           NEW s \in SUBSET A, s \in SUBSET B
    PROVE  g[s] = h[s]
<1> DEFINE T == {t \in SUBSET S : t \subseteq A /\ t \subseteq B /\ g[t] # h[t]}
<1> SUFFICES ASSUME s \in T PROVE FALSE
  OBVIOUS
<1>1. PICK t \in T : \A u \in T : u \subseteq t => u = t
  <2>1. T \subseteq SUBSET S /\ T # {}
    OBVIOUS
  <2> HIDE DEF T
  <2> QED
    BY <2>1, SmallestSubset
<1>2. t # {}
  BY TableStart
<1> DEFINE x == CHOOSE y \in t : TRUE
<1>3. x \in t /\ g[t] = w[x] + g[t \ {x}] /\ h[t] = w[x] + h[t \ {x}]
  BY <1>2 DEF IsTable
<1> HIDE DEF x
<1>4. t \ {x} \notin T
  BY <1>1, <1>3
<1>5. g[t \ {x}] = h[t \ {x}]
  BY <1>4
<1> QED
  BY <1>3, <1>5

\* Every set of weights has its table.
LEMMA TableExists ==
    ASSUME NEW S, IsFiniteSet(S), NEW w
    PROVE  \E g : IsTable(g, w, S)
<1> DEFINE T == {t \in SUBSET S : ~ \E g : IsTable(g, w, t)}
<1> SUFFICES ASSUME S \in T PROVE FALSE
  OBVIOUS
<1>1. PICK t \in T : \A u \in T : u \subseteq t => u = t
  <2>1. T \subseteq SUBSET S /\ T # {}
    OBVIOUS
  <2> HIDE DEF T
  <2> QED
    BY <2>1, SmallestSubset
<1> DEFINE Below(u) == CHOOSE g : IsTable(g, w, u)
           First(u) == CHOOSE y \in u : TRUE
           new == [u \in SUBSET t |->
                      IF u = {} THEN 0
                      ELSE w[First(u)] + Below(u \ {First(u)})[u \ {First(u)}]]
<1>2. ASSUME NEW u \in SUBSET t, u # t PROVE IsTable(Below(u), w, u)
  <2>1. \E g : IsTable(g, w, u)
    BY <1>1, <1>2
  <2> HIDE DEF T
  <2> QED
    BY <2>1
<1>3. ASSUME NEW u \in SUBSET t, u # t PROVE new[u] = Below(u)[u]
  <2>1. IsTable(Below(u), w, u)
    BY <1>2, <1>3
  <2>2. CASE u = {}
    BY <2>1, <2>2, TableStart
  <2>3. CASE u # {}
    <3> DEFINE x == First(u)
               v == u \ {x}
    <3>1. x \in u /\ v \in SUBSET u /\ v \in SUBSET t /\ v # t
      BY <2>3
    <3>2. Below(u)[u] = w[x] + Below(u)[v]
      BY <2>1, <2>3 DEF IsTable
    <3>3. IsTable(Below(v), w, v)
      BY <3>1, <1>2
    <3>4. new[u] = w[x] + Below(v)[v]
      BY <2>3
    <3> HIDE DEF new, x, v, Below, T
    <3>5. Below(u)[v] = Below(v)[v]
      <4>1. /\ u \in SUBSET S /\ v \in SUBSET S
            /\ v \in SUBSET u /\ v \in SUBSET v
        BY <3>1, <1>1 DEF T
      <4> QED
        BY <2>1, <3>3, <4>1, TablesAgree
    <3> QED
      BY <3>2, <3>4, <3>5
  <2> QED
    BY <2>2, <2>3
<1>4. ASSUME NEW u \in SUBSET t, u # {}
      PROVE  new[u] = w[First(u)] + new[u \ {First(u)}]
  <2>1. First(u) \in u /\ u \ {First(u)} \in SUBSET t /\ u \ {First(u)} # t
    BY <1>4
  <2>2. new[u \ {First(u)}] = Below(u \ {First(u)})[u \ {First(u)}]
    BY <1>3, <2>1
  <2>3. new[u] = w[First(u)] + Below(u \ {First(u)})[u \ {First(u)}]
    BY <1>4
  <2> QED
    BY <2>2, <2>3
<1>5. IsTable(new, w, t)
  <2>1. new[{}] = 0
    OBVIOUS
  <2>2. new = [u \in SUBSET t |-> new[u]]
    OBVIOUS
  <2> HIDE DEF new
  <2>3. \A u \in SUBSET t :
            new[u] = IF u = {} THEN 0
                     ELSE w[CHOOSE y \in u : TRUE] + new[u \ {CHOOSE y \in u : TRUE}]
    BY <1>4, <2>1
  <2> QED
    BY <2>2, <2>3 DEF IsTable
<1> HIDE DEF new
<1> QED
  BY <1>1, <1>5

\* Any element may be taken first.
LEMMA TakeAny ==
    ASSUME NEW S, IsFiniteSet(S), NEW w, Weighs(w, S), NEW g, IsTable(g, w, S),
           NEW s \in SUBSET S, NEW x \in s
    PROVE  g[s] = w[x] + g[s \ {x}]
<1> DEFINE T == {t \in SUBSET S : \E y \in t : g[t] # w[y] + g[t \ {y}]}
<1> SUFFICES ASSUME s \in T PROVE FALSE
  OBVIOUS
<1>1. PICK t \in T : \A u \in T : u \subseteq t => u = t
  <2>1. T \subseteq SUBSET S /\ T # {}
    OBVIOUS
  <2> HIDE DEF T
  <2> QED
    BY <2>1, SmallestSubset
<1>2. PICK y \in t : g[t] # w[y] + g[t \ {y}]
  OBVIOUS
<1>3. PICK c \in t : g[t] = w[c] + g[t \ {c}]
  BY <1>2, TableLine
<1>4. c # y /\ y \in t \ {c} /\ c \in t \ {y}
  BY <1>2, <1>3
<1>5. t \ {c} \notin T /\ t \ {y} \notin T
  BY <1>1
<1>6. /\ g[t \ {c}] = w[y] + g[(t \ {c}) \ {y}]
      /\ g[t \ {y}] = w[c] + g[(t \ {y}) \ {c}]
  BY <1>4, <1>5
<1>7. (t \ {c}) \ {y} = (t \ {y}) \ {c} /\ (t \ {c}) \ {y} \in SUBSET S
  OBVIOUS
<1>8. w[c] \in Int /\ w[y] \in Int /\ g[(t \ {c}) \ {y}] \in Int
  BY <1>7, TableType DEF Weighs
<1> DEFINE r == g[(t \ {c}) \ {y}]
<1>9. g[t] = w[c] + (w[y] + r) /\ g[t] # w[y] + (w[c] + r)
  BY <1>2, <1>3, <1>6, <1>7
<1>10. w[c] \in Int /\ w[y] \in Int /\ r \in Int
  BY <1>8
<1> HIDE DEF T, r
<1> QED
  BY <1>9, <1>10

\* The sum is the last entry of a table.
LEMMA SumHasTable ==
    ASSUME NEW S, IsFiniteSet(S), NEW w
    PROVE  \E g : IsTable(g, w, S) /\ SumOver(w, S) = g[S]
<1> DEFINE g == CHOOSE h : IsTable(h, w, S)
<1>1. IsTable(g, w, S)
  BY TableExists
<1>2. SumOver(w, S) = g[S]
  BY DEF SumOver, FoldFunctionOnSet, MapThenFoldSet, IsTable
<1> HIDE DEF g
<1> QED
  BY <1>1, <1>2

LEMMA SumType ==
    ASSUME NEW S, IsFiniteSet(S), NEW w, Weighs(w, S)
    PROVE  SumOver(w, S) \in Int
BY SumHasTable, TableType

LEMMA SumOfNothing ==
    ASSUME NEW w
    PROVE  SumOver(w, {}) = 0
BY SumHasTable, TableStart, FS_EmptySet

\* One more element adds its weight.
LEMMA SumAdds ==
    ASSUME NEW S, IsFiniteSet(S), NEW x, x \notin S, NEW w, Weighs(w, S \cup {x})
    PROVE  SumOver(w, S \cup {x}) = SumOver(w, S) + w[x]
<1>1. IsFiniteSet(S \cup {x})
  BY FS_AddElement
<1>2. PICK g : IsTable(g, w, S \cup {x}) /\ SumOver(w, S \cup {x}) = g[S \cup {x}]
  BY <1>1, SumHasTable
<1>3. PICK h : IsTable(h, w, S) /\ SumOver(w, S) = h[S]
  BY SumHasTable
<1>4. g[S] = h[S]
  BY <1>1, <1>2, <1>3, TablesAgree
<1>5. (S \cup {x}) \ {x} = S /\ x \in S \cup {x}
  OBVIOUS
<1>6. g[S \cup {x}] = w[x] + g[S]
  BY <1>1, <1>2, <1>5, TakeAny
<1>7. w[x] \in Int /\ g[S] \in Int
  BY <1>1, <1>2, TableType DEF Weighs
<1> QED
  BY <1>2, <1>3, <1>4, <1>6, <1>7

\* Weights outside the set do not matter.
LEMMA SumOfSame ==
    ASSUME NEW S, IsFiniteSet(S), NEW w, NEW v, \A x \in S : w[x] = v[x]
    PROVE  SumOver(w, S) = SumOver(v, S)
<1>1. PICK g : IsTable(g, w, S) /\ SumOver(w, S) = g[S]
  BY SumHasTable
<1>2. PICK h : IsTable(h, v, S) /\ SumOver(v, S) = h[S]
  BY SumHasTable
<1>3. ASSUME NEW s \in SUBSET S, s # {}
      PROVE  w[CHOOSE x \in s : TRUE] = v[CHOOSE x \in s : TRUE]
  <2>1. (CHOOSE x \in s : TRUE) \in S
    BY <1>3
  <2> QED
    BY <2>1
<1>4. IsTable(g, v, S)
  <2>1. g = [s \in SUBSET S |-> g[s]]
    BY <1>1 DEF IsTable
  <2>2. \A s \in SUBSET S :
            g[s] = IF s = {} THEN 0
                   ELSE v[CHOOSE x \in s : TRUE] + g[s \ {CHOOSE x \in s : TRUE}]
    <3> TAKE s \in SUBSET S
    <3>1. CASE s = {}
      BY <1>1, <3>1 DEF IsTable
    <3>2. CASE s # {}
      BY <1>1, <1>3, <3>2 DEF IsTable
    <3> QED
      BY <3>1, <3>2
  <2> QED
    BY <2>1, <2>2 DEF IsTable
<1> QED
  BY <1>1, <1>2, <1>4, TablesAgree

\* Sets without a common element are summed apart.
LEMMA SumOfUnion ==
    ASSUME NEW S, IsFiniteSet(S), NEW R, IsFiniteSet(R), S \cap R = {},
           NEW w, Weighs(w, S \cup R)
    PROVE  SumOver(w, S \cup R) = SumOver(w, S) + SumOver(w, R)
<1> DEFINE T == {t \in SUBSET R : SumOver(w, S \cup t) # SumOver(w, S) + SumOver(w, t)}
<1> SUFFICES ASSUME R \in T PROVE FALSE
  OBVIOUS
<1>1. PICK t \in T : \A u \in T : u \subseteq t => u = t
  <2>1. T \subseteq SUBSET R /\ T # {}
    OBVIOUS
  <2> HIDE DEF T
  <2> QED
    BY <2>1, SmallestSubset
<1>2. t \in SUBSET R /\ SumOver(w, S \cup t) # SumOver(w, S) + SumOver(w, t)
  OBVIOUS
<1>3. SumOver(w, S) \in Int
  BY SumType DEF Weighs
<1>4. t # {}
  <2> HIDE DEF T
  <2>1. S \cup {} = S /\ SumOver(w, {}) = 0
    BY SumOfNothing
  <2>2. SumOver(w, S \cup {}) = SumOver(w, S) + SumOver(w, {})
    BY <1>3, <2>1
  <2> QED
    BY <1>2, <2>2
<1>5. PICK x : x \in t
  BY <1>4
<1> DEFINE u == t \ {x}
<1>6. u \notin T /\ u \in SUBSET R
  BY <1>1, <1>5
<1>7. SumOver(w, S \cup u) = SumOver(w, S) + SumOver(w, u)
  BY <1>6
<1>8. /\ IsFiniteSet(u) /\ IsFiniteSet(S \cup u)
      /\ Weighs(w, u) /\ Weighs(w, u \cup {x}) /\ Weighs(w, (S \cup u) \cup {x})
      /\ x \notin u /\ x \notin S \cup u
      /\ t = u \cup {x} /\ S \cup t = (S \cup u) \cup {x}
      /\ w[x] \in Int
  <2>1. IsFiniteSet(u) /\ IsFiniteSet(S \cup u)
    BY <1>6, FS_Subset, FS_Union
  <2> HIDE DEF T
  <2>2. x \in R /\ x \notin S
    BY <1>2, <1>5
  <2> QED
    BY <1>2, <1>5, <2>1, <2>2 DEF Weighs
<1> HIDE DEF T, u
<1>9. SumOver(w, t) = SumOver(w, u) + w[x]
  BY <1>8, SumAdds
<1>10. SumOver(w, S \cup t) = SumOver(w, S \cup u) + w[x]
  BY <1>8, SumAdds
<1>11. SumOver(w, u) \in Int
  BY <1>8, SumType
<1> QED
  BY <1>2, <1>3, <1>7, <1>8, <1>9, <1>10, <1>11

LEMMA SumOfOne ==
    ASSUME NEW w, NEW x, w[x] \in Int
    PROVE  SumOver(w, {x}) = w[x]
<1>1. SumOver(w, {} \cup {x}) = SumOver(w, {}) + w[x]
  BY SumAdds, FS_EmptySet DEF Weighs
<1>2. {} \cup {x} = {x}
  OBVIOUS
<1> QED
  BY <1>1, <1>2, SumOfNothing

\* So many elements, so many names.
LEMMA ImageCount ==
    ASSUME NEW S, IsFiniteSet(S), NEW f, \A x, y \in S : f[x] = f[y] => x = y
    PROVE  /\ IsFiniteSet({f[x] : x \in S})
           /\ Cardinality({f[x] : x \in S}) = Cardinality(S)
<1> DEFINE I == {f[x] : x \in S}
           g == [x \in S |-> f[x]]
<1>1. g \in Surjection(S, I) /\ g \in Injection(S, I)
  BY DEF Surjection, Injection, IsInjective
<1> HIDE DEF I, g
<1> QED
  BY <1>1, FS_Surjection DEF I

\* Counting the elements by other names leaves the sum.
LEMMA SumOfImage ==
    ASSUME NEW S, IsFiniteSet(S), NEW f, \A x, y \in S : f[x] = f[y] => x = y,
           NEW w, Weighs(w, S), NEW v, \A x \in S : v[f[x]] = w[x]
    PROVE  SumOver(v, {f[x] : x \in S}) = SumOver(w, S)
<1> DEFINE T == {t \in SUBSET S : SumOver(v, {f[x] : x \in t}) # SumOver(w, t)}
<1> SUFFICES ASSUME S \in T PROVE FALSE
  OBVIOUS
<1>1. PICK t \in T : \A u \in T : u \subseteq t => u = t
  <2>1. T \subseteq SUBSET S /\ T # {}
    OBVIOUS
  <2> HIDE DEF T
  <2> QED
    BY <2>1, SmallestSubset
<1>2. t \in SUBSET S /\ SumOver(v, {f[x] : x \in t}) # SumOver(w, t)
  OBVIOUS
<1>3. t # {}
  <2>1. {f[x] : x \in {}} = {}
    OBVIOUS
  <2> HIDE DEF T
  <2> QED
    BY <1>2, <2>1, SumOfNothing
<1>4. PICK x : x \in t
  BY <1>3
<1> DEFINE u == t \ {x}
           I == {f[y] : y \in u}
<1>5. u \notin T /\ u \in SUBSET S
  BY <1>1, <1>4
<1>6. SumOver(v, I) = SumOver(w, u)
  BY <1>5
<1>7. IsFiniteSet(u) /\ IsFiniteSet(I)
  <2>1. IsFiniteSet(u) /\ \A y, z \in u : f[y] = f[z] => y = z
    BY <1>5, FS_Subset
  <2> QED
    BY <2>1, ImageCount
<1> HIDE DEF T
<1>8. /\ x \in S /\ x \notin u /\ t = u \cup {x} /\ Weighs(w, u \cup {x})
      /\ w[x] \in Int /\ v[f[x]] = w[x]
  BY <1>2, <1>4 DEF Weighs
<1>9. f[x] \notin I
  BY <1>5, <1>8
<1>10. {f[y] : y \in t} = I \cup {f[x]}
  BY <1>8
<1>11. Weighs(v, I \cup {f[x]})
  BY <1>5, <1>8 DEF Weighs
<1> HIDE DEF u, I
<1>12. SumOver(w, t) = SumOver(w, u) + w[x]
  BY <1>7, <1>8, SumAdds
<1>13. SumOver(v, I \cup {f[x]}) = SumOver(v, I) + v[f[x]]
  BY <1>7, <1>9, <1>11, SumAdds
<1> QED
  BY <1>2, <1>6, <1>8, <1>10, <1>12, <1>13

LEMMA SumRenamed ==
    ASSUME NEW S, IsFiniteSet(S), NEW f, \A x, y \in S : f[x] = f[y] => x = y,
           NEW w, Weighs(w, S), NEW v, \A x \in S : v[f[x]] = w[x],
           NEW I, \A x \in S : f[x] \in I, \A y \in I : \E x \in S : y = f[x]
    PROVE  SumOver(v, I) = SumOver(w, S)
<1>1. I = {f[x] : x \in S}
  OBVIOUS
<1>2. SumOver(v, {f[x] : x \in S}) = SumOver(w, S)
  BY SumOfImage
<1> QED
  BY <1>1, <1>2
=============================================================================
