---------------------------- MODULE SummaryProofs ----------------------------
(***************************************************************************)
(* The summary of a decryption, for any sessions, keylogs and frames: a    *)
(* session is one rekey group, and both breakdowns of the failures add up. *)
(*                                                                         *)
(* Sums come first: SumFunctionOnSet takes the elements in an order that   *)
(* CHOOSE fixes, and any order gives the same.  Where one would argue by   *)
(* induction on the size of a set, a least counterexample is taken.        *)
(***************************************************************************)
EXTENDS DecryptSummary, FiniteSetTheorems, WellFoundedInduction, TLAPS

LEMMA LeastOf ==
    ASSUME NEW T \in SUBSET Nat, T # {}
    PROVE  \E x \in T : \A y \in T : x <= y
<1>1. PICK x \in T : \A y \in T : ~(<<y, x>> \in OpToRel(<, Nat))
      BY NatLessThanWellFounded, WFMin
<1>2. \A y \in T : ~(y < x) BY <1>1 DEF OpToRel
<1> QED BY <1>2

\* A bounded set of numbers has a greatest one.
LEMMA GreatestOf ==
    ASSUME NEW T \in SUBSET Nat, T # {}, NEW n \in Nat, \A x \in T : x <= n
    PROVE  Max(T) \in T
<1> DEFINE Gaps == {n - x : x \in T}
<1>1. Gaps \in SUBSET Nat /\ Gaps # {}
  <2>1. \A x \in T : n - x \in Nat OBVIOUS
  <2>2. PICK x \in T : TRUE OBVIOUS
  <2>3. n - x \in Gaps OBVIOUS
  <2> QED BY <2>1, <2>3
<1>2. PICK g \in Gaps : \A y \in Gaps : g <= y
  <2> HIDE DEF Gaps
  <2> QED BY <1>1, LeastOf
<1>3. PICK x \in T : g = n - x BY <1>2
<1>4. \A y \in T : x >= y
  <2>1. SUFFICES ASSUME NEW y \in T PROVE x >= y
        OBVIOUS
  <2>2. n - x <= n - y BY <1>2, <1>3
  <2> QED BY <2>2
<1> QED BY <1>4 DEF Max

-----------------------------------------------------------------------------
(* Sums *)

One(s) == CHOOSE x \in s : TRUE

\* F tells the sum of f over each set in D, which holds the subsets of its sets.
Adds(F, f, D) ==
    F = [s \in D |-> IF s = {} THEN 0 ELSE f[One(s)] + F[s \ {One(s)}]]

LEMMA SumIs ==
    ASSUME NEW f, NEW S
    PROVE  SumFunctionOnSet(f, S) = (CHOOSE F : Adds(F, f, SUBSET S))[S]
BY DEF SumFunctionOnSet, FoldFunctionOnSet, MapThenFoldSet, Adds, One

LEMMA OneLess ==
    ASSUME NEW s, IsFiniteSet(s), NEW x \in s
    PROVE  /\ IsFiniteSet(s \ {x}) /\ Cardinality(s \ {x}) = Cardinality(s) - 1
           /\ Cardinality(s) \in Nat /\ Cardinality(s \ {x}) \in Nat
BY FS_RemoveElement, FS_CardinalityType

LEMMA OneIn == ASSUME NEW s, s # {} PROVE One(s) \in s
BY DEF One

\* There is such an F for the subsets of a finite set.
LEMMA SumExists ==
    ASSUME NEW f, NEW S, IsFiniteSet(S)
    PROVE  \E F : Adds(F, f, SUBSET S)
<1> DEFINE D(n) == {s \in SUBSET S : Cardinality(s) <= n}
           Bad == {n \in Nat : ~\E F : Adds(F, f, D(n))}
<1>0. \A s \in SUBSET S : IsFiniteSet(s) /\ Cardinality(s) \in Nat /\ Cardinality(s) <= Cardinality(S)
      BY FS_Subset, FS_CardinalityType
<1>1. Bad = {}
  <2>1. SUFFICES ASSUME Bad # {} PROVE FALSE
        OBVIOUS
  <2>2. PICK n \in Bad : \A m \in Bad : n <= m
    <3>1. Bad \in SUBSET Nat OBVIOUS
    <3> HIDE DEF Bad
    <3> QED BY <2>1, <3>1, LeastOf
  <2>3. n \in Nat /\ ~\E F : Adds(F, f, D(n)) BY <2>2
  <2>4. CASE n = 0
    <3> DEFINE F == [s \in D(0) |-> 0]
    <3>1. \A s \in D(0) : s = {}
      <4>1. SUFFICES ASSUME NEW s \in D(0) PROVE s = {}
            OBVIOUS
      <4>2. IsFiniteSet(s) /\ Cardinality(s) = 0 BY <1>0
      <4> QED BY <4>2, FS_EmptySet
    <3>2. Adds(F, f, D(0)) BY <3>1 DEF Adds
    <3> QED BY <2>3, <2>4, <3>2
  <2>5. CASE n # 0
    <3>1. n - 1 \in Nat /\ n - 1 \notin Bad
      <4> HIDE DEF Bad
      <4> QED BY <2>2, <2>3, <2>5
    <3>2. PICK F : Adds(F, f, D(n - 1)) BY <3>1
    <3> DEFINE G == [s \in D(n) |-> IF s = {} THEN 0 ELSE f[One(s)] + F[s \ {One(s)}]]
    <3>3. \A s \in D(n) : s # {} => s \ {One(s)} \in D(n - 1)
      <4>1. SUFFICES ASSUME NEW s \in D(n), s # {} PROVE s \ {One(s)} \in D(n - 1)
            OBVIOUS
      <4>2. One(s) \in s /\ IsFiniteSet(s) BY <1>0, <4>1, OneIn
      <4>3. Cardinality(s \ {One(s)}) = Cardinality(s) - 1 /\ Cardinality(s) \in Nat
            BY <4>2, OneLess
      <4> QED BY <2>3, <4>3
    <3>4. \A s \in D(n - 1) : s \in D(n) BY <1>0, <2>3
    <3>5. \A s \in D(n - 1) : F[s] = IF s = {} THEN 0 ELSE f[One(s)] + F[s \ {One(s)}]
          BY <3>2 DEF Adds
    <3> HIDE DEF D
    <3>6. \A s \in D(n - 1) : G[s] = F[s] BY <3>4, <3>5
    <3>7. \A s \in D(n) :
            (IF s = {} THEN 0 ELSE f[One(s)] + F[s \ {One(s)}])
              = IF s = {} THEN 0 ELSE f[One(s)] + G[s \ {One(s)}]
          BY <3>3, <3>6
    <3>8. Adds(G, f, D(n)) BY <3>7 DEF Adds
    <3> QED BY <2>3, <3>8
  <2> QED BY <2>4, <2>5
<1>2. Cardinality(S) \in Nat BY FS_CardinalityType
<1>3. \E F : Adds(F, f, D(Cardinality(S))) BY <1>1, <1>2
<1>4. D(Cardinality(S)) = SUBSET S BY <1>0
<1> QED BY <1>3, <1>4

\* Two of them agree.
LEMMA SumUnique ==
    ASSUME NEW f, NEW g, NEW S, NEW T \in SUBSET S, IsFiniteSet(S), NEW F, NEW G,
           Adds(F, f, SUBSET S), Adds(G, g, SUBSET T), \A x \in T : f[x] = g[x]
    PROVE  F[T] = G[T]
<1> DEFINE Bad == {n \in Nat : \E s \in SUBSET T : Cardinality(s) = n /\ F[s] # G[s]}
<1>0. \A s \in SUBSET T : IsFiniteSet(s) /\ Cardinality(s) \in Nat
      BY FS_Subset, FS_CardinalityType
<1>1. Bad = {}
  <2>1. SUFFICES ASSUME Bad # {} PROVE FALSE
        OBVIOUS
  <2>2. PICK n \in Bad : \A m \in Bad : n <= m
    <3>1. Bad \in SUBSET Nat OBVIOUS
    <3> HIDE DEF Bad
    <3> QED BY <2>1, <3>1, LeastOf
  <2>3. PICK s \in SUBSET T : Cardinality(s) = n /\ F[s] # G[s] BY <2>2
  <2>4. /\ F[s] = IF s = {} THEN 0 ELSE f[One(s)] + F[s \ {One(s)}]
        /\ G[s] = IF s = {} THEN 0 ELSE g[One(s)] + G[s \ {One(s)}]
        BY Zenon DEF Adds
  <2>5. s # {} BY <2>3, <2>4
  <2>6. One(s) \in s /\ IsFiniteSet(s) BY <1>0, <2>5, OneIn
  <2>7. Cardinality(s \ {One(s)}) = n - 1 /\ n - 1 \in Nat BY <2>3, <2>6, OneLess
  <2>8. n - 1 \notin Bad BY <2>2, <2>7
  <2>9. F[s \ {One(s)}] = G[s \ {One(s)}] BY <2>7, <2>8
  <2>10. f[One(s)] = g[One(s)] BY <2>6
  <2> QED BY <2>3, <2>4, <2>5, <2>9, <2>10
<1>2. Cardinality(T) \in Nat BY <1>0
<1> QED BY <1>1, <1>2

LEMMA SumAgrees ==
    ASSUME NEW f, NEW g, NEW S, IsFiniteSet(S), \A x \in S : f[x] = g[x]
    PROVE  SumFunctionOnSet(f, S) = SumFunctionOnSet(g, S)
<1>1. PICK F : F = CHOOSE X : Adds(X, f, SUBSET S) OBVIOUS
<1>2. PICK G : G = CHOOSE X : Adds(X, g, SUBSET S) OBVIOUS
<1>3. Adds(F, f, SUBSET S) BY <1>1, SumExists
<1>4. Adds(G, g, SUBSET S) BY <1>2, SumExists
<1>5. F[S] = G[S] BY <1>3, <1>4, SumUnique
<1> QED BY <1>1, <1>2, <1>5, SumIs

LEMMA SumOfNone == ASSUME NEW f PROVE SumFunctionOnSet(f, {}) = 0
<1>1. PICK F : F = CHOOSE X : Adds(X, f, SUBSET {}) OBVIOUS
<1>2. Adds(F, f, SUBSET {}) BY <1>1, FS_EmptySet, SumExists
<1>3. F[{}] = 0 BY <1>2 DEF Adds
<1> QED BY <1>1, <1>3, SumIs

\* The first element taken is the one CHOOSE gives.
LEMMA SumTakesOne ==
    ASSUME NEW f, NEW S, IsFiniteSet(S), S # {}
    PROVE  SumFunctionOnSet(f, S) = f[One(S)] + SumFunctionOnSet(f, S \ {One(S)})
<1> DEFINE T == S \ {One(S)}
<1>1. PICK F : F = CHOOSE X : Adds(X, f, SUBSET S) OBVIOUS
<1>2. PICK G : G = CHOOSE X : Adds(X, f, SUBSET T) OBVIOUS
<1>3. T \in SUBSET S /\ IsFiniteSet(T) BY FS_Subset
<1>4. Adds(F, f, SUBSET S) BY <1>1, SumExists
<1>5. Adds(G, f, SUBSET T) BY <1>2, <1>3, SumExists
<1>6. F[T] = G[T]
  <2> HIDE DEF T
  <2> QED BY <1>3, <1>4, <1>5, SumUnique
<1>7. F[S] = f[One(S)] + F[T]
  <2>1. S \in SUBSET S OBVIOUS
  <2> QED BY <1>4, <2>1, Zenon DEF Adds
<1>8. SumFunctionOnSet(f, S) = F[S] BY <1>1, SumIs
<1>9. SumFunctionOnSet(f, T) = G[T] BY <1>2, SumIs
<1> QED BY <1>6, <1>7, <1>8, <1>9

\* A sum of whole numbers is one, of naturals a natural.
LEMMA SumTyped ==
    ASSUME NEW N \in {Nat, Int}, NEW f, NEW S, IsFiniteSet(S), \A x \in S : f[x] \in N
    PROVE  SumFunctionOnSet(f, S) \in N
<1> DEFINE Sum(s) == SumFunctionOnSet(f, s)
           Bad == {n \in Nat : \E s \in SUBSET S : Cardinality(s) = n /\ Sum(s) \notin N}
<1>0. \A s \in SUBSET S : IsFiniteSet(s) /\ Cardinality(s) \in Nat
      BY FS_Subset, FS_CardinalityType
<1>1. Bad = {}
  <2>1. SUFFICES ASSUME Bad # {} PROVE FALSE
        OBVIOUS
  <2>2. PICK n \in Bad : \A m \in Bad : n <= m
    <3>1. Bad \in SUBSET Nat OBVIOUS
    <3> HIDE DEF Bad
    <3> QED BY <2>1, <3>1, LeastOf
  <2>3. PICK s \in SUBSET S : Cardinality(s) = n /\ Sum(s) \notin N BY <2>2
  <2>4. s # {} BY <2>3, SumOfNone
  <2>5. Sum(s) = f[One(s)] + Sum(s \ {One(s)}) BY <1>0, <2>4, SumTakesOne
  <2>6. One(s) \in s /\ IsFiniteSet(s) BY <1>0, <2>4, OneIn
  <2>7. Cardinality(s \ {One(s)}) = n - 1 /\ n - 1 \in Nat BY <2>3, <2>6, OneLess
  <2>8. n - 1 \notin Bad BY <2>2, <2>7
  <2>9. Sum(s \ {One(s)}) \in N BY <2>7, <2>8
  <2>10. f[One(s)] \in N BY <2>6
  <2> HIDE DEF Sum
  <2>11. f[One(s)] + Sum(s \ {One(s)}) \in N BY <2>9, <2>10
  <2> QED BY <2>3, <2>5, <2>11
<1>2. Cardinality(S) \in Nat BY <1>0
<1> QED BY <1>1, <1>2

\* Any element may be taken first.
LEMMA SumTakesAny ==
    ASSUME NEW f, NEW S, IsFiniteSet(S), \A x \in S : f[x] \in Int, NEW m \in S
    PROVE  SumFunctionOnSet(f, S) = f[m] + SumFunctionOnSet(f, S \ {m})
<1> DEFINE Sum(s) == SumFunctionOnSet(f, s)
           Bad == {n \in Nat : \E s \in SUBSET S : /\ Cardinality(s) = n
                                               /\ \E x \in s : Sum(s) # f[x] + Sum(s \ {x})}
<1>0. \A s \in SUBSET S : IsFiniteSet(s) /\ Cardinality(s) \in Nat
      BY FS_Subset, FS_CardinalityType
<1>1. Bad = {}
  <2>1. SUFFICES ASSUME Bad # {} PROVE FALSE
        OBVIOUS
  <2>2. PICK n \in Bad : \A y \in Bad : n <= y
    <3>1. Bad \in SUBSET Nat OBVIOUS
    <3> HIDE DEF Bad
    <3> QED BY <2>1, <3>1, LeastOf
  <2>3. PICK s \in SUBSET S : /\ Cardinality(s) = n
                              /\ \E x \in s : Sum(s) # f[x] + Sum(s \ {x})
        BY <2>2
  <2>4. PICK x \in s : Sum(s) # f[x] + Sum(s \ {x}) BY <2>3
  <2> DEFINE c == One(s)
  <2>5. Sum(s) = f[c] + Sum(s \ {c}) BY <1>0, <2>4, SumTakesOne
  <2>6. c \in s /\ c # x /\ IsFiniteSet(s) BY <1>0, <2>4, <2>5, OneIn
  <2> HIDE DEF c
  <2>7. \A y \in s : /\ s \ {y} \in SUBSET S /\ IsFiniteSet(s \ {y})
                     /\ Cardinality(s \ {y}) = n - 1 /\ n - 1 \in Nat
        BY <2>3, <2>6, OneLess
  <2>8. n - 1 \notin Bad BY <2>2, <2>7
  <2>9. \A y \in s : \A z \in s \ {y} : Sum(s \ {y}) = f[z] + Sum((s \ {y}) \ {z})
        BY <2>7, <2>8
  <2>10. Sum(s \ {c}) = f[x] + Sum((s \ {c}) \ {x}) BY <2>6, <2>9
  <2>11. Sum(s \ {x}) = f[c] + Sum((s \ {x}) \ {c}) BY <2>6, <2>9
  <2>12. (s \ {c}) \ {x} = (s \ {x}) \ {c} OBVIOUS
  <2> DEFINE rest == Sum((s \ {c}) \ {x})
  <2>13. rest \in Int
    <3>1. IsFiniteSet((s \ {c}) \ {x}) BY <1>0
    <3> QED BY <3>1, SumTyped
  <2>14. f[c] \in Int /\ f[x] \in Int BY <2>6
  <2>15. /\ Sum(s \ {c}) = f[x] + rest /\ Sum(s \ {x}) = f[c] + rest
         /\ Sum(s) = f[c] + Sum(s \ {c})
         BY <2>5, <2>10, <2>11, <2>12
  <2> HIDE DEF Sum, rest
  <2> QED BY <2>4, <2>13, <2>14, <2>15
<1>2. Cardinality(S) \in Nat BY <1>0
<1> QED BY <1>1, <1>2

\* One more in one place is one more in the sum.
LEMMA SumCountsUp ==
    ASSUME NEW S, IsFiniteSet(S), NEW f, \A x \in S : f[x] \in Int, NEW g, NEW m \in S,
           g[m] = f[m] + 1, \A x \in S \ {m} : g[x] = f[x]
    PROVE  SumFunctionOnSet(g, S) = SumFunctionOnSet(f, S) + 1
<1>1. \A x \in S : g[x] \in Int OBVIOUS
<1>2. IsFiniteSet(S \ {m}) BY FS_Subset
<1>3. SumFunctionOnSet(g, S \ {m}) = SumFunctionOnSet(f, S \ {m}) BY <1>2, SumAgrees
<1>4. SumFunctionOnSet(f, S) = f[m] + SumFunctionOnSet(f, S \ {m}) BY SumTakesAny
<1>5. SumFunctionOnSet(g, S) = g[m] + SumFunctionOnSet(g, S \ {m}) BY <1>1, SumTakesAny
<1>6. SumFunctionOnSet(f, S \ {m}) \in Int
  <2>1. Int \in {Nat, Int} /\ \A x \in S \ {m} : f[x] \in Int OBVIOUS
  <2> QED BY <1>2, <2>1, SumTyped
<1> QED BY <1>3, <1>4, <1>5, <1>6

LEMMA SumOfZeros ==
    ASSUME NEW f, NEW S, IsFiniteSet(S), \A x \in S : f[x] = 0
    PROVE  SumFunctionOnSet(f, S) = 0
<1> DEFINE Bad == {n \in Nat : \E s \in SUBSET S : /\ Cardinality(s) = n
                                               /\ SumFunctionOnSet(f, s) # 0}
<1>0. \A s \in SUBSET S : IsFiniteSet(s) /\ Cardinality(s) \in Nat
      BY FS_Subset, FS_CardinalityType
<1>1. Bad = {}
  <2>1. SUFFICES ASSUME Bad # {} PROVE FALSE
        OBVIOUS
  <2>2. PICK n \in Bad : \A m \in Bad : n <= m
    <3>1. Bad \in SUBSET Nat OBVIOUS
    <3> HIDE DEF Bad
    <3> QED BY <2>1, <3>1, LeastOf
  <2>3. PICK s \in SUBSET S : Cardinality(s) = n /\ SumFunctionOnSet(f, s) # 0 BY <2>2
  <2>4. s # {} BY <2>3, SumOfNone
  <2>5. SumFunctionOnSet(f, s) = f[One(s)] + SumFunctionOnSet(f, s \ {One(s)})
        BY <1>0, <2>4, SumTakesOne
  <2>6. One(s) \in s /\ IsFiniteSet(s) BY <1>0, <2>4, OneIn
  <2>7. Cardinality(s \ {One(s)}) = n - 1 /\ n - 1 \in Nat BY <2>3, <2>6, OneLess
  <2>8. n - 1 \notin Bad BY <2>2, <2>7
  <2>9. SumFunctionOnSet(f, s \ {One(s)}) = 0 BY <2>7, <2>8
  <2> QED BY <2>3, <2>5, <2>6, <2>9
<1>2. Cardinality(S) \in Nat BY <1>0
<1> QED BY <1>1, <1>2

-----------------------------------------------------------------------------
(* The invariant *)

SummaryTypeOK ==
    /\ keys \in Seq(Entry)
    /\ phases \in [Phase -> [Direction -> Nat]]
    /\ decrypted \in [DOMAIN keys -> [Direction -> Nat]]
    /\ failed \in [Direction -> Nat]

\* A frame is filed under the first entry of its session.
FirstInv ==
    \A x \in opened :
        /\ x[2] \in DOMAIN keys /\ keys[x[2]].session = x[1]
        /\ \A j \in 1 .. x[2] - 1 : keys[j].session # x[1]

SummaryInv == SummaryTypeOK /\ FirstInv /\ DirectionsAddUp

LEMMA Entries ==
    ASSUME SummaryTypeOK
    PROVE  IsFiniteSet(DOMAIN keys) /\ DOMAIN keys = 1 .. Len(keys) /\ Len(keys) \in Nat
<1>1. DOMAIN keys = 1 .. Len(keys) /\ Len(keys) \in Nat BY DEF SummaryTypeOK
<1>2. 1 \in Int /\ Len(keys) \in Int BY <1>1
<1>3. IsFiniteSet(1 .. Len(keys)) BY <1>2, FS_Interval
<1> QED BY <1>1, <1>3

LEMMA CountIs ==
    ASSUME NEW A, NEW f \in [A -> [Direction -> Nat]], NEW a \in A, NEW b \in Direction
    PROVE  /\ Count(f, a, b) \in [A -> [Direction -> Nat]]
           /\ Count(f, a, b)[a][b] = f[a][b] + 1
           /\ \A x \in A, d \in Direction : x # a \/ d # b => Count(f, a, b)[x][d] = f[x][d]
<1> DEFINE row == [f[a] EXCEPT ![b] = f[a][b] + 1]
<1>1. Count(f, a, b) = [f EXCEPT ![a] = row] BY DEF Count
<1>2. f[a] \in [Direction -> Nat] OBVIOUS
<1>3. /\ row \in [Direction -> Nat] /\ row[b] = f[a][b] + 1
      /\ \A d \in Direction : d # b => row[d] = f[a][d]
      BY <1>2
<1> HIDE DEF row
<1> QED BY <1>1, <1>3

LEMMA PhasesCounted ==
    ASSUME SummaryTypeOK, NEW phase \in Phase, NEW dir \in Direction, NEW new,
           new = Count(phases, phase, dir)
    PROVE  /\ new \in [Phase -> [Direction -> Nat]]
           /\ new[phase][dir] = phases[phase][dir] + 1
           /\ \A x \in Phase, d \in Direction :
                 x # phase \/ d # dir => new[x][d] = phases[x][d]
<1>1. phases \in [Phase -> [Direction -> Nat]] BY DEF SummaryTypeOK
<1>2. new \in [Phase -> [Direction -> Nat]] BY <1>1, CountIs
<1>3. new[phase][dir] = phases[phase][dir] + 1 BY <1>1, CountIs
<1>4. \A x \in Phase, d \in Direction : x # phase \/ d # dir => new[x][d] = phases[x][d]
      BY <1>1, CountIs
<1> QED BY <1>2, <1>3, <1>4

LEMMA DecryptedCounted ==
    ASSUME SummaryTypeOK, NEW k \in DOMAIN keys, NEW dir \in Direction, NEW new,
           new = Count(decrypted, k, dir)
    PROVE  /\ new \in [DOMAIN keys -> [Direction -> Nat]]
           /\ new[k][dir] = decrypted[k][dir] + 1
           /\ \A x \in DOMAIN keys, d \in Direction :
                 x # k \/ d # dir => new[x][d] = decrypted[x][d]
<1> DEFINE A == DOMAIN keys
<1>1. decrypted \in [A -> [Direction -> Nat]] /\ k \in A BY DEF SummaryTypeOK
<1> HIDE DEF A
<1>2. new \in [A -> [Direction -> Nat]] BY <1>1, CountIs
<1>3. new[k][dir] = decrypted[k][dir] + 1 BY <1>1, CountIs
<1>4. \A x \in A, d \in Direction : x # k \/ d # dir => new[x][d] = decrypted[x][d]
      BY <1>1, CountIs
<1> QED BY <1>2, <1>3, <1>4 DEF A

LEMMA SumOverDomain ==
    ASSUME NEW D, NEW f, DOMAIN f = D
    PROVE  SumFunction(f) = SumFunctionOnSet(f, D)
BY DEF SumFunction

LEMMA SucceededIs ==
    ASSUME NEW d
    PROVE  Succeeded(d) = SumFunctionOnSet([k \in DOMAIN keys |-> decrypted[k][d]], DOMAIN keys)
BY SumOverDomain DEF Succeeded

LEMMA SummaryInit == ASSUME Init PROVE SummaryInv
<1>1. SummaryTypeOK
  <2>1. keys \in Seq(Entry) BY SummaryAssumption DEF Init
  <2>2. 0 \in Nat OBVIOUS
  <2> QED BY <2>1, <2>2 DEF Init, SummaryTypeOK
<1>2. FirstInv BY DEF Init, FirstInv
<1>3. DirectionsAddUp
  <2>1. SUFFICES ASSUME NEW d \in Direction PROVE Attempted(d) - Succeeded(d) = failed[d]
        BY DEF DirectionsAddUp
  <2> DEFINE f == [k \in DOMAIN keys |-> decrypted[k][d]]
             Bad == {k \in DOMAIN keys : f[k] # 0}
  <2>2. \A k \in DOMAIN keys : f[k] = 0 BY DEF Init
  <2>3. IsFiniteSet(DOMAIN keys) BY <1>1, Entries
  <2>4. Succeeded(d) = SumFunctionOnSet(f, DOMAIN keys) BY SucceededIs
  <2> HIDE DEF f
  <2>5. SumFunctionOnSet(f, DOMAIN keys) = 0 BY <2>2, <2>3, SumOfZeros
  <2>6. Attempted(d) = 0 /\ failed[d] = 0 BY DEF Init, Attempted, Phase
  <2> QED BY <2>4, <2>5, <2>6
<1> QED BY <1>1, <1>2, <1>3 DEF SummaryInv

LEMMA SummaryNext == ASSUME SummaryInv, [Next]_vars PROVE SummaryInv'
<1>1. CASE UNCHANGED vars
      BY <1>1 DEF vars, SummaryInv, SummaryTypeOK, FirstInv, DirectionsAddUp, Attempted, Succeeded
<1>2. CASE Next
  <2>1. SummaryTypeOK /\ FirstInv /\ DirectionsAddUp BY DEF SummaryInv
  <2>2. keys' = keys BY <1>2 DEF Next
  <2>3. /\ phases \in [Phase -> [Direction -> Nat]]
        /\ decrypted \in [DOMAIN keys -> [Direction -> Nat]]
        /\ failed \in [Direction -> Nat] /\ keys \in Seq(Entry)
        BY <2>1 DEF SummaryTypeOK
  <2>4. /\ IsFiniteSet(DOMAIN keys) /\ "established" \in Phase
        /\ DOMAIN keys = 1 .. Len(keys) /\ Len(keys) \in Nat
        BY <2>1, Entries DEF Phase
  <2>5. \A d \in Direction : Attempted(d) - Succeeded(d) = failed[d]
        BY <2>1 DEF DirectionsAddUp
  <2>6. \A d \in Direction : Succeeded(d) \in Int
    <3>1. SUFFICES ASSUME NEW d \in Direction PROVE Succeeded(d) \in Int
          OBVIOUS
    <3> DEFINE f == [k \in DOMAIN keys |-> decrypted[k][d]]
    <3>2. \A k \in DOMAIN keys : f[k] \in Int BY <2>3
    <3>3. Succeeded(d) = SumFunctionOnSet(f, DOMAIN keys) BY SucceededIs
    <3> HIDE DEF f
    <3>4. Int \in {Nat, Int} OBVIOUS
    <3> QED BY <2>4, <3>2, <3>3, <3>4, SumTyped
  <2>7. PICK dir \in Direction :
           \/ \E phase \in Phase : Handshake(phase, dir)
           \/ \E session \in Session : Opened(session, dir) \/ NotOpened(session, dir)
        BY <1>2 DEF Next
  \* A step counts at most one frame, and both breakdowns count it alike.
  <2>8. CASE \E phase \in Phase : Handshake(phase, dir)
    <3>1. PICK phase \in Phase : Handshake(phase, dir) BY <2>8
    <3>2. /\ phase # "established" /\ phases' = Count(phases, phase, dir)
          /\ decrypted' = decrypted /\ failed' = failed /\ opened' = opened
          BY <3>1 DEF Handshake
    <3>3. /\ phases' \in [Phase -> [Direction -> Nat]]
          /\ \A d \in Direction : phases'["established"][d] = phases["established"][d]
      <4>1. \A x \in Phase, d \in Direction :
              x # phase \/ d # dir => phases'[x][d] = phases[x][d]
            BY <2>1, <2>7, <3>1, <3>2, PhasesCounted
      <4>2. phases' \in [Phase -> [Direction -> Nat]]
            BY <2>1, <2>7, <3>1, <3>2, PhasesCounted
      <4> QED BY <2>4, <3>2, <4>1, <4>2
    <3>4. SummaryTypeOK' BY <2>1, <2>2, <3>2, <3>3 DEF SummaryTypeOK
    <3>5. FirstInv' BY <2>1, <2>2, <3>2 DEF FirstInv
    <3>6. DirectionsAddUp' BY <2>2, <2>5, <3>2, <3>3 DEF DirectionsAddUp, Attempted, Succeeded
    <3> QED BY <3>4, <3>5, <3>6 DEF SummaryInv
  <2>9. ASSUME NEW session \in Session, Opened(session, dir) PROVE SummaryInv'
    <3>1. PICK k \in KeyIndex(session, dir) :
            /\ decrypted' = Count(decrypted, k, dir)
            /\ opened' = opened \cup {<<session, k>>}
          BY <2>9 DEF Opened
    <3>2. phases' = Count(phases, "established", dir) /\ failed' = failed
          BY <2>9 DEF Opened
    <3>3. /\ k \in DOMAIN keys /\ keys[k].session = session
          /\ \A j \in 1 .. k - 1 : keys[j].session # session
          BY DEF KeyIndex, Opens
    <3>4. /\ phases' \in [Phase -> [Direction -> Nat]]
          /\ phases'["established"][dir] = phases["established"][dir] + 1
          /\ \A d \in Direction : d # dir =>
                phases'["established"][d] = phases["established"][d]
      <4>1. /\ phases' \in [Phase -> [Direction -> Nat]]
            /\ phases'["established"][dir] = phases["established"][dir] + 1
            BY <2>1, <2>4, <2>7, <3>2, PhasesCounted
      <4>2. \A x \in Phase, d \in Direction :
              x # "established" \/ d # dir => phases'[x][d] = phases[x][d]
            BY <2>1, <2>4, <2>7, <3>2, PhasesCounted, SMTT(30)
      <4> QED BY <2>4, <2>7, <4>1, <4>2
    <3>5. /\ decrypted' \in [DOMAIN keys -> [Direction -> Nat]]
          /\ decrypted'[k][dir] = decrypted[k][dir] + 1
          /\ \A x \in DOMAIN keys, d \in Direction :
                x # k \/ d # dir => decrypted'[x][d] = decrypted[x][d]
          BY <2>1, <2>7, <3>1, <3>3, DecryptedCounted
    <3>6. SummaryTypeOK' BY <2>2, <2>3, <3>2, <3>4, <3>5 DEF SummaryTypeOK
    <3>7. FirstInv' BY <2>1, <2>2, <3>1, <3>3 DEF FirstInv
    <3>8. ASSUME NEW d \in Direction
          PROVE  Succeeded(d)' = IF d = dir THEN Succeeded(d) + 1 ELSE Succeeded(d)
      <4> DEFINE f == [x \in DOMAIN keys |-> decrypted[x][d]]
                 g == [x \in DOMAIN keys |-> decrypted'[x][d]]
      <4>1. Succeeded(d) = SumFunctionOnSet(f, DOMAIN keys) BY SucceededIs
      <4>2. Succeeded(d)' = SumFunctionOnSet(g, DOMAIN keys)
            BY <2>2, SumOverDomain DEF Succeeded
      <4>3. CASE d = dir
        <5>1. g[k] = f[k] + 1 /\ \A x \in DOMAIN keys \ {k} : g[x] = f[x]
              BY <3>3, <3>5, <4>3
        <5>2. \A x \in DOMAIN keys : f[x] \in Int BY <2>3
        <5> HIDE DEF f, g
        <5>3. SumFunctionOnSet(g, DOMAIN keys) = SumFunctionOnSet(f, DOMAIN keys) + 1
              BY <2>4, <3>3, <5>1, <5>2, SumCountsUp
        <5> QED BY <4>1, <4>2, <4>3, <5>3
      <4>4. CASE d # dir
        <5>1. \A x \in DOMAIN keys : g[x] = f[x] BY <3>5, <4>4
        <5> HIDE DEF f, g
        <5>2. SumFunctionOnSet(g, DOMAIN keys) = SumFunctionOnSet(f, DOMAIN keys)
              BY <2>4, <5>1, SumAgrees
        <5> QED BY <4>1, <4>2, <4>4, <5>2
      <4> QED BY <4>3, <4>4
    <3>9. DirectionsAddUp'
      <4>1. SUFFICES ASSUME NEW d \in Direction
                     PROVE  phases'["established"][d] - Succeeded(d)' = failed[d]
            BY <3>2 DEF DirectionsAddUp, Attempted
      <4>2. /\ phases["established"][d] - Succeeded(d) = failed[d] /\ Succeeded(d) \in Int
            /\ phases["established"][d] \in Nat
            BY <2>3, <2>4, <2>5, <2>6 DEF Attempted
      <4>3. CASE d = dir
        <5>1. Succeeded(d)' = Succeeded(d) + 1 BY <3>8, <4>3
        <5>2. phases'["established"][d] = phases["established"][d] + 1 BY <3>4, <4>3
        <5> QED BY <4>2, <5>1, <5>2
      <4>4. CASE d # dir
        <5>1. Succeeded(d)' = Succeeded(d) BY <3>8, <4>4
        <5>2. phases'["established"][d] = phases["established"][d] BY <3>4, <4>4
        <5> QED BY <4>2, <5>1, <5>2
      <4> QED BY <4>3, <4>4
    <3> QED BY <3>6, <3>7, <3>9 DEF SummaryInv
  <2>10. ASSUME NEW session \in Session, NotOpened(session, dir) PROVE SummaryInv'
    <3>1. /\ phases' = Count(phases, "established", dir)
          /\ failed' = [failed EXCEPT ![dir] = @ + 1]
          /\ decrypted' = decrypted /\ opened' = opened
          BY <2>10 DEF NotOpened, CountFailure
    <3>2. /\ phases' \in [Phase -> [Direction -> Nat]]
          /\ phases'["established"][dir] = phases["established"][dir] + 1
          /\ \A d \in Direction : d # dir =>
                phases'["established"][d] = phases["established"][d]
      <4>1. /\ phases' \in [Phase -> [Direction -> Nat]]
            /\ phases'["established"][dir] = phases["established"][dir] + 1
            BY <2>1, <2>4, <2>7, <3>1, PhasesCounted
      <4>2. \A x \in Phase, d \in Direction :
              x # "established" \/ d # dir => phases'[x][d] = phases[x][d]
            BY <2>1, <2>4, <2>7, <3>1, PhasesCounted, SMTT(30)
      <4> QED BY <2>4, <2>7, <4>1, <4>2
    <3>3. /\ failed' \in [Direction -> Nat] /\ failed'[dir] = failed[dir] + 1
          /\ \A d \in Direction : d # dir => failed'[d] = failed[d]
          BY <2>3, <3>1
    <3>4. SummaryTypeOK' BY <2>2, <2>3, <3>1, <3>2, <3>3 DEF SummaryTypeOK
    <3>5. FirstInv' BY <2>1, <2>2, <3>1 DEF FirstInv
    <3>6. \A d \in Direction : Succeeded(d)' = Succeeded(d) BY <2>2, <3>1 DEF Succeeded
    <3>7. DirectionsAddUp'
      <4>1. SUFFICES ASSUME NEW d \in Direction
                     PROVE  phases'["established"][d] - Succeeded(d) = failed'[d]
            BY <3>6 DEF DirectionsAddUp, Attempted
      <4>2. /\ phases["established"][d] - Succeeded(d) = failed[d] /\ Succeeded(d) \in Int
            /\ phases["established"][d] \in Nat /\ failed[d] \in Nat
            BY <2>3, <2>4, <2>5, <2>6 DEF Attempted
      <4> QED BY <3>2, <3>3, <4>2
    <3> QED BY <3>4, <3>5, <3>7 DEF SummaryInv
  <2> QED BY <2>7, <2>8, <2>9, <2>10
<1> QED BY <1>1, <1>2

-----------------------------------------------------------------------------
(* The theorems *)

\* The inductive invariant of a decryption.
THEOREM SummaryInvariant == SummarySpec => []SummaryInv
<1>1. Init => SummaryInv BY SummaryInit
<1>2. SummaryInv /\ [Next]_vars => SummaryInv' BY SummaryNext
<1> QED BY <1>1, <1>2, PTL DEF SummarySpec

\* One session is one rekey group, whichever ends' keylogs were collected and
\* in whatever order (_collect_keys, _decrypt_established_frame).
THEOREM SessionsAreGroups == SummarySpec => []OneGroupPerSession
<1>1. ASSUME SummaryInv PROVE OneGroupPerSession
  <2>1. SUFFICES ASSUME NEW x \in opened, NEW y \in opened PROVE x[1] = y[1] <=> x[2] = y[2]
        BY DEF OneGroupPerSession
  <2>2. FirstInv /\ DOMAIN keys = 1 .. Len(keys) /\ Len(keys) \in Nat
        BY <1>1, Entries DEF SummaryInv
  <2>3. /\ x[2] \in 1 .. Len(keys) /\ keys[x[2]].session = x[1]
        /\ \A j \in 1 .. x[2] - 1 : keys[j].session # x[1]
        /\ y[2] \in 1 .. Len(keys) /\ keys[y[2]].session = y[1]
        /\ \A j \in 1 .. y[2] - 1 : keys[j].session # y[1]
        BY <2>2 DEF FirstInv
  <2>4. ASSUME x[1] = y[1], x[2] # y[2] PROVE FALSE
    <3>1. CASE x[2] < y[2]
      <4>1. x[2] \in 1 .. y[2] - 1 BY <2>2, <2>3, <3>1
      <4> QED BY <2>3, <2>4, <4>1
    <3>2. CASE y[2] < x[2]
      <4>1. y[2] \in 1 .. x[2] - 1 BY <2>2, <2>3, <3>2
      <4> QED BY <2>3, <2>4, <4>1
    <3> QED BY <2>2, <2>3, <2>4, <3>1, <3>2
  <2> QED BY <2>3, <2>4
<1>2. SummaryInv => OneGroupPerSession BY <1>1
<1> QED BY <1>2, SummaryInvariant, PTL

\* In each direction, what was attempted and did not succeed is what failed,
\* for any number of frames and groups (_build_summary,
\* decryption_by_direction).
THEOREM DirectionsAgree == SummarySpec => []DirectionsAddUp
<1>1. SummaryInv => DirectionsAddUp BY DEF SummaryInv
<1> QED BY <1>1, SummaryInvariant, PTL

\* The shares of the groups add up to the failures, whatever their rounding
\* (_build_summary, rekey_groups).
THEOREM SharesAgree == SummarySpec => []SharesAddUp
<1>1. ASSUME SummaryInv PROVE SharesAddUp
  <2>1. SUFFICES ASSUME Groups # {} PROVE SumFunction(FramesFailed) = Failed
        BY DEF SharesAddUp
  <2>2. /\ keys \in Seq(Entry) /\ SummaryTypeOK /\ failed \in [Direction -> Nat]
        /\ decrypted \in [DOMAIN keys -> [Direction -> Nat]]
        BY <1>1 DEF SummaryInv, SummaryTypeOK
  <2>3. IsFiniteSet(DOMAIN keys) /\ DOMAIN keys = 1 .. Len(keys) /\ Len(keys) \in Nat
        BY <2>2, Entries
  <2>4. IsFiniteSet(Direction)
    <3> DEFINE sent == {} \cup {"sent"}
    <3>1. IsFiniteSet({"sent", "received"})
      <4>1. IsFiniteSet(sent) BY FS_EmptySet, FS_AddElement
      <4>2. IsFiniteSet(sent \cup {"received"})
        <5> HIDE DEF sent
        <5> QED BY <4>1, FS_AddElement
      <4>3. sent \cup {"received"} = {"sent", "received"} OBVIOUS
      <4> QED BY <4>2, <4>3
    <3> QED BY <3>1, SummaryAssumption, FS_Subset
  <2>5. Groups \in SUBSET DOMAIN keys /\ IsFiniteSet(Groups)
    <3>1. Groups \in SUBSET DOMAIN keys BY DEF Groups
    <3> QED BY <2>3, <3>1, FS_Subset
  <2>6. Nat \in {Nat, Int} /\ Int \in {Nat, Int} OBVIOUS
  <2>7. Failed \in Nat
    <3>1. DOMAIN failed = Direction /\ \A d \in Direction : failed[d] \in Nat BY <2>2
    <3>2. SumFunctionOnSet(failed, Direction) \in Nat BY <2>4, <2>6, <3>1, SumTyped
    <3> QED BY <3>1, <3>2, SumOverDomain DEF Failed
  <2>8. \A k \in DOMAIN keys : GroupSize(k) \in Nat
    <3>1. SUFFICES ASSUME NEW k \in DOMAIN keys PROVE GroupSize(k) \in Nat
          OBVIOUS
    <3> DEFINE f == decrypted[k]
    <3>2. DOMAIN f = Direction /\ \A d \in Direction : f[d] \in Nat BY <2>2
    <3>3. GroupSize(k) = SumFunction(f) BY DEF GroupSize
    <3> HIDE DEF f
    <3>4. SumFunctionOnSet(f, Direction) \in Nat BY <2>4, <2>6, <3>2, SumTyped
    <3> QED BY <3>2, <3>3, <3>4, SumOverDomain
  <2>9. TotalDecrypted \in Nat /\ TotalDecrypted > 0
    <3> DEFINE f == [k \in DOMAIN keys |-> GroupSize(k)]
    <3>1. PICK k \in DOMAIN keys : GroupSize(k) > 0 BY <2>1 DEF Groups
    <3>2. TotalDecrypted = SumFunctionOnSet(f, DOMAIN keys)
          BY SumOverDomain DEF TotalDecrypted
    <3>3. \A x \in DOMAIN keys : f[x] \in Nat /\ f[x] \in Int BY <2>8
    <3>4. f[k] = GroupSize(k) /\ f[k] \in Nat BY <2>8
    <3> HIDE DEF f
    <3>5. SumFunctionOnSet(f, DOMAIN keys) = f[k] + SumFunctionOnSet(f, DOMAIN keys \ {k})
          BY <2>3, <3>3, SumTakesAny
    <3>6. IsFiniteSet(DOMAIN keys \ {k}) BY <2>3, FS_Subset
    <3>7. SumFunctionOnSet(f, DOMAIN keys \ {k}) \in Nat BY <2>6, <3>3, <3>6, SumTyped
    <3> QED BY <3>1, <3>2, <3>4, <3>5, <3>7
  <2>10. \A k \in DOMAIN keys : Share(k) \in Int
    <3>1. SUFFICES ASSUME NEW k \in DOMAIN keys PROVE Share(k) \in Int
          OBVIOUS
    <3>2. ASSUME NEW n \in Nat, NEW d \in Nat, d > 0 PROVE RoundHalfEven(n, d) \in Int
      <4>1. n \div d \in Int BY <3>2
      <4> QED BY <4>1 DEF RoundHalfEven
    <3>3. Failed * GroupSize(k) \in Nat
      <4>1. GroupSize(k) \in Nat BY <2>8
      <4> QED BY <2>7, <4>1
    <3> QED BY <2>9, <3>2, <3>3 DEF Share
  <2> DEFINE m == Max(Groups)
             others == [j \in Groups \ {m} |-> Share(j)]
             F == [k \in Groups |-> IF k = m THEN LastShare(k) ELSE Share(k)]
  <2>11. m \in Groups
    <3>1. Groups \in SUBSET Nat /\ \A x \in Groups : x <= Len(keys) BY <2>3, <2>5
    <3> QED BY <2>1, <2>3, <3>1, GreatestOf
  <2>12. FramesFailed = F BY DEF FramesFailed
  <2>13. IsFiniteSet(Groups \ {m}) BY <2>5, FS_Subset
  <2>14. LastShare(m) = Failed - SumFunctionOnSet(others, Groups \ {m})
    <3>1. DOMAIN others = Groups \ {m} OBVIOUS
    <3>2. SumFunction(others) = SumFunctionOnSet(others, Groups \ {m}) BY <3>1, SumOverDomain
    <3> QED BY <3>2 DEF LastShare
  <2>15. \A x \in Groups \ {m} : others[x] \in Int /\ F[x] = others[x] BY <2>5, <2>10
  <2>16. F[m] = LastShare(m) /\ DOMAIN F = Groups BY <2>11
  <2> HIDE DEF others, m, F
  <2>17. SumFunctionOnSet(others, Groups \ {m}) \in Int BY <2>6, <2>13, <2>15, SumTyped
  <2>18. SumFunctionOnSet(F, Groups \ {m}) = SumFunctionOnSet(others, Groups \ {m})
         BY <2>13, <2>15, SumAgrees
  <2>19. \A x \in Groups : F[x] \in Int BY <2>7, <2>14, <2>15, <2>16, <2>17
  <2>20. SumFunctionOnSet(F, Groups) = F[m] + SumFunctionOnSet(F, Groups \ {m})
         BY <2>5, <2>11, <2>19, SumTakesAny
  <2>21. SumFunction(F) = SumFunctionOnSet(F, Groups) BY <2>16, SumOverDomain
  <2> QED BY <2>7, <2>12, <2>14, <2>16, <2>17, <2>18, <2>20, <2>21
<1>2. SummaryInv => SharesAddUp BY <1>1
<1> QED BY <1>2, SummaryInvariant, PTL
==============================================================================
