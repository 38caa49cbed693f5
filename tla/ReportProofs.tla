------------------------------ MODULE ReportProofs ------------------------------
(***************************************************************************)
(* That what Campaign reports of its sessions agrees with their verdicts,    *)
(* for any tests, modules and sessions, and that its cleanup removes what    *)
(* the limits ask for and no more.  The totals of the summaries and of the   *)
(* sizes are sums: the first part gives what is needed of them.              *)
(***************************************************************************)
EXTENDS CampaignProofs, FiniteSetTheorems

-----------------------------------------------------------------------------
(* Sums. *)

(* A non-empty set of naturals has a least element. *)
LEMMA LeastNat ==
    ASSUME NEW T \in SUBSET Nat, T # {}
    PROVE  \E x \in T : \A y \in T : x <= y
<1> DEFINE R == OpToRel(<, Nat)
<1>1. IsWellFoundedOn(R, Nat)
  BY NatLessThanWellFounded, Zenon
<1>2. PICK x \in T : \A y \in T : <<y, x>> \notin R
  BY <1>1, WFMin, Zenon
<1>3. \A y \in T : ~(y < x)
  BY <1>2, Zenon DEF OpToRel
<1> QED BY <1>3

\* The sum of a function over its domain, and the equation of its partial sums.
Sum(F)        == MapThenSumSet(LAMBDA x : F[x], DOMAIN F)
Some(s)       == CHOOSE x \in s : TRUE
Rest(s)       == s \ {Some(s)}
Part(g, F, s) == IF s = {} THEN 0 ELSE F[Some(s)] + g[Rest(s)]
Sums(g, F, D) == g = [s \in SUBSET D |-> Part(g, F, s)]

(* Taking the chosen element out of a finite set leaves one element less. *)
LEMMA OneLess ==
    ASSUME NEW D, IsFiniteSet(D), NEW s \in SUBSET D, s # {}
    PROVE  /\ Some(s) \in s /\ Some(s) \in D
           /\ s = Rest(s) \cup {Some(s)}
           /\ Rest(s) \in SUBSET D
           /\ Cardinality(s) \in Nat \ {0}
           /\ Cardinality(Rest(s)) \in Nat
           /\ Cardinality(Rest(s)) = Cardinality(s) - 1
<1>1. Some(s) \in s
  BY DEF Some
<1>2. IsFiniteSet(s)
  BY FS_Subset
<1>3. IsFiniteSet(Rest(s)) /\ Cardinality(Rest(s)) = Cardinality(s) - 1
  BY <1>1, <1>2, FS_RemoveElement DEF Rest
<1>4. Cardinality(s) \in Nat /\ Cardinality(Rest(s)) \in Nat
  BY <1>2, <1>3, FS_CardinalityType
<1> QED BY <1>1, <1>3, <1>4 DEF Rest

(* There are partial sums of a function on a finite set: by the size of the  *)
(* sets, as the least size without any would have those of the one below.    *)
LEMMA SumsExist ==
    ASSUME NEW D, IsFiniteSet(D), NEW F
    PROVE  \E g : Sums(g, F, D)
<1> DEFINE Upto(g, n) == \A s \in SUBSET D :
                           Cardinality(s) <= n => g[s] = Part(g, F, s)
           Bad == {n \in Nat : ~ \E g : Upto(g, n)}
<1>1. \A s \in SUBSET D : /\ IsFiniteSet(s)
                         /\ Cardinality(s) \in Nat
                         /\ Cardinality(s) <= Cardinality(D)
  BY FS_Subset, FS_CardinalityType
<1>2. Cardinality(D) \in Nat
  BY FS_CardinalityType
<1>3. \A n \in Nat : \E g : Upto(g, n)
  <2> SUFFICES ASSUME Bad # {} PROVE FALSE
    OBVIOUS
  <2>1. PICK n \in Bad : \A m \in Bad : n <= m
    <3> Bad \in SUBSET Nat
      OBVIOUS
    <3> HIDE DEF Bad
    <3> QED BY LeastNat
  <2>2. CASE n = 0
    <3> DEFINE g == [s \in SUBSET D |-> 0]
    <3>1. Upto(g, 0)
      <4> SUFFICES ASSUME NEW s \in SUBSET D, Cardinality(s) <= 0
                   PROVE  g[s] = Part(g, F, s)
        OBVIOUS
      <4>1. s = {}
        BY <1>1, FS_EmptySet
      <4> QED BY <4>1 DEF Part
    <3> HIDE DEF g
    <3> QED BY <2>1, <2>2, <3>1
  <2>3. CASE n # 0
    <3>1. n \in Nat /\ n - 1 \in Nat /\ n - 1 \notin Bad
      BY <2>1, <2>3
    <3>2. PICK g : Upto(g, n - 1)
      BY <3>1
    <3> DEFINE h == [s \in SUBSET D |->
                       IF Cardinality(s) = n THEN Part(g, F, s) ELSE g[s]]
    <3>3. ASSUME NEW s \in SUBSET D, Cardinality(s) <= n
          PROVE  h[s] = Part(h, F, s)
      <4>1. Part(h, F, s) = Part(g, F, s)
        <5>1. CASE s = {}
          BY <5>1 DEF Part
        <5>2. CASE s # {}
          <6>1. Rest(s) \in SUBSET D /\ Cardinality(Rest(s)) # n
            BY <1>1, <3>1, <3>3, <5>2, OneLess
          <6>2. h[Rest(s)] = g[Rest(s)]
            BY <6>1
          <6> QED BY <5>2, <6>2 DEF Part
        <5> QED BY <5>1, <5>2
      <4>2. CASE Cardinality(s) = n
        BY <4>1, <4>2
      <4>3. CASE Cardinality(s) # n
        <5>1. Cardinality(s) <= n - 1
          BY <1>1, <3>1, <3>3, <4>3
        <5>2. h[s] = g[s]
          BY <4>3
        <5> QED BY <3>2, <4>1, <5>1, <5>2
      <4> QED BY <4>2, <4>3
    <3>4. Upto(h, n)
      BY <3>3
    <3> HIDE DEF h
    <3> QED BY <2>1, <3>4
  <2> QED BY <2>2, <2>3
<1>4. PICK g : Upto(g, Cardinality(D))
  BY <1>2, <1>3
<1> DEFINE h == [s \in SUBSET D |-> g[s]]
<1>5. ASSUME NEW s \in SUBSET D PROVE h[s] = Part(h, F, s)
  <2>1. g[s] = Part(g, F, s)
    BY <1>1, <1>4
  <2>2. Part(g, F, s) = Part(h, F, s)
    <3>1. h[Rest(s)] = g[Rest(s)]
      BY DEF Rest
    <3> QED BY <3>1 DEF Part
  <2> QED BY <2>1, <2>2
<1>6. Sums(h, F, D)
  BY <1>5 DEF Sums
<1> QED BY <1>6

(* The sum over a domain is the last of some partial sums. *)
LEMMA SumIs ==
    ASSUME NEW F, IsFiniteSet(DOMAIN F)
    PROVE  \E g : Sums(g, F, DOMAIN F) /\ Sum(F) = g[DOMAIN F]
<1> DEFINE g == CHOOSE h : Sums(h, F, DOMAIN F)
<1>1. Sums(g, F, DOMAIN F)
  BY SumsExist
<1>2. Sum(F) = g[DOMAIN F]
  BY DEF Sum, MapThenSumSet, MapThenFoldSet, Sums, Part, Some, Rest
<1> QED BY <1>1, <1>2

(* A partial sum from the next smaller one. *)
LEMMA SumsStep ==
    ASSUME NEW D, IsFiniteSet(D), NEW F, NEW g, Sums(g, F, D)
    PROVE  /\ g[{}] = 0
           /\ \A s \in (SUBSET D) \ {{}} : g[s] = F[Some(s)] + g[Rest(s)]
<1>1. ASSUME NEW s \in SUBSET D PROVE g[s] = Part(g, F, s)
  BY DEF Sums
<1>2. g[{}] = 0
  BY <1>1 DEF Part
<1>3. ASSUME NEW s \in (SUBSET D) \ {{}} PROVE g[s] = F[Some(s)] + g[Rest(s)]
  BY <1>1, <1>3 DEF Part
<1> QED BY <1>2, <1>3

(* A sum of integers is one. *)
LEMMA SumsInt ==
    ASSUME NEW D, IsFiniteSet(D), NEW F \in [D -> Int], NEW g, Sums(g, F, D)
    PROVE  \A s \in SUBSET D : g[s] \in Int
<1> DEFINE Bad == {n \in Nat : \E s \in SUBSET D :
                                 Cardinality(s) = n /\ g[s] \notin Int}
<1>1. \A s \in SUBSET D : Cardinality(s) \in Nat
  BY FS_Subset, FS_CardinalityType
<1> SUFFICES ASSUME Bad # {} PROVE FALSE
  BY <1>1
<1>2. PICK n \in Bad : \A m \in Bad : n <= m
  <2> Bad \in SUBSET Nat
    OBVIOUS
  <2> HIDE DEF Bad
  <2> QED BY LeastNat
<1>3. PICK s \in SUBSET D : Cardinality(s) = n /\ g[s] \notin Int
  BY <1>2
<1>4. s # {}
  <2>1. g[{}] \in Int
    BY SumsStep
  <2> QED BY <1>3, <2>1, Zenon
<1>5. Some(s) \in D /\ g[s] = F[Some(s)] + g[Rest(s)]
  BY <1>4, SumsStep, OneLess
<1>6. s = Rest(s) \cup {Some(s)} /\ Rest(s) \in SUBSET D
      /\ Cardinality(Rest(s)) \in Nat
      /\ Cardinality(Rest(s)) = n - 1 /\ n \in Nat
  BY <1>2, <1>3, <1>4, OneLess
<1>7. g[Rest(s)] \in Int
  <2>1. n - 1 \notin Bad
    BY <1>2, <1>6
  <2>2. n - 1 \in Nat
    BY <1>6
  <2> QED BY <1>6, <2>1, <2>2
<1> QED BY <1>3, <1>5, <1>7

(* A sum of naturals is one, and is zero only if they all are. *)
LEMMA SumsNat ==
    ASSUME NEW D, IsFiniteSet(D), NEW F \in [D -> Nat], NEW g, Sums(g, F, D)
    PROVE  \A s \in SUBSET D :
             g[s] \in Nat /\ (g[s] = 0 <=> \A y \in s : F[y] = 0)
<1> DEFINE Good(s) == g[s] \in Nat /\ (g[s] = 0 <=> \A y \in s : F[y] = 0)
           Bad == {n \in Nat : \E s \in SUBSET D :
                                 Cardinality(s) = n /\ ~Good(s)}
<1>1. \A s \in SUBSET D : Cardinality(s) \in Nat
  BY FS_Subset, FS_CardinalityType
<1> SUFFICES ASSUME Bad # {} PROVE FALSE
  BY <1>1
<1>2. PICK n \in Bad : \A m \in Bad : n <= m
  <2> Bad \in SUBSET Nat
    OBVIOUS
  <2> HIDE DEF Bad
  <2> QED BY LeastNat
<1>3. PICK s \in SUBSET D : Cardinality(s) = n /\ ~Good(s)
  BY <1>2
<1>4. s # {}
  <2> SUFFICES ASSUME s = {} PROVE Good(s)
    BY <1>3
  <2> QED BY SumsStep
<1>5. Some(s) \in s /\ Some(s) \in D /\ g[s] = F[Some(s)] + g[Rest(s)]
  BY <1>4, SumsStep, OneLess
<1>6. s = Rest(s) \cup {Some(s)} /\ Rest(s) \in SUBSET D
      /\ Cardinality(Rest(s)) \in Nat
      /\ Cardinality(Rest(s)) = n - 1 /\ n \in Nat
  BY <1>2, <1>3, <1>4, OneLess
<1>7. Good(Rest(s))
  <2>1. n - 1 \notin Bad
    BY <1>2, <1>6
  <2>2. n - 1 \in Nat
    BY <1>6
  <2> HIDE DEF Good
  <2> QED BY <1>6, <2>1, <2>2
<1>8. Good(s)
  <2>1. F[Some(s)] \in Nat /\ g[Rest(s)] \in Nat
    BY <1>5, <1>7
  <2>2. g[s] = 0 <=> F[Some(s)] = 0 /\ g[Rest(s)] = 0
    BY <1>5, <2>1
  <2>3. (\A y \in s : F[y] = 0) <=> F[Some(s)] = 0 /\ \A y \in Rest(s) : F[y] = 0
    BY <1>6
  <2> QED BY <1>5, <1>7, <2>1, <2>2, <2>3
<1> QED BY <1>3, <1>8

(* Sums add up. *)
LEMMA SumsPlus ==
    ASSUME NEW D, IsFiniteSet(D),
           NEW F \in [D -> Int], NEW G \in [D -> Int], NEW H \in [D -> Int],
           \A y \in D : H[y] = F[y] + G[y],
           NEW f, NEW g, NEW h,
           Sums(f, F, D), Sums(g, G, D), Sums(h, H, D)
    PROVE  \A s \in SUBSET D : h[s] = f[s] + g[s]
<1> DEFINE Bad == {n \in Nat : \E s \in SUBSET D :
                                 Cardinality(s) = n /\ h[s] # f[s] + g[s]}
<1>1. \A s \in SUBSET D : Cardinality(s) \in Nat
  BY FS_Subset, FS_CardinalityType
<1> SUFFICES ASSUME Bad # {} PROVE FALSE
  BY <1>1
<1>2. PICK n \in Bad : \A m \in Bad : n <= m
  <2> Bad \in SUBSET Nat
    OBVIOUS
  <2> HIDE DEF Bad
  <2> QED BY LeastNat
<1>3. PICK s \in SUBSET D : Cardinality(s) = n /\ h[s] # f[s] + g[s]
  BY <1>2
<1>4. s # {}
  <2>1. h[{}] = f[{}] + g[{}]
    BY SumsStep
  <2> QED BY <1>3, <2>1, Zenon
<1>5. /\ Some(s) \in D
      /\ f[s] = F[Some(s)] + f[Rest(s)]
      /\ g[s] = G[Some(s)] + g[Rest(s)]
      /\ h[s] = H[Some(s)] + h[Rest(s)]
  BY <1>4, SumsStep, OneLess
<1>6. s = Rest(s) \cup {Some(s)} /\ Rest(s) \in SUBSET D
      /\ Cardinality(Rest(s)) \in Nat
      /\ Cardinality(Rest(s)) = n - 1 /\ n \in Nat
  BY <1>2, <1>3, <1>4, OneLess
<1>7. h[Rest(s)] = f[Rest(s)] + g[Rest(s)]
  <2>1. n - 1 \notin Bad
    BY <1>2, <1>6
  <2>2. n - 1 \in Nat
    BY <1>6
  <2> QED BY <1>6, <2>1, <2>2
<1>8. f[Rest(s)] \in Int /\ g[Rest(s)] \in Int
  BY <1>6, SumsInt
<1>9. F[Some(s)] \in Int /\ G[Some(s)] \in Int /\ H[Some(s)] = F[Some(s)] + G[Some(s)]
  BY <1>5
<1> QED BY <1>3, <1>5, <1>7, <1>8, <1>9

(* Any element can be taken out of a sum. *)
LEMMA SumsAny ==
    ASSUME NEW D, IsFiniteSet(D), NEW F \in [D -> Int], NEW g, Sums(g, F, D)
    PROVE  \A s \in SUBSET D : \A x \in s : g[s] = F[x] + g[s \ {x}]
<1> DEFINE Good(s) == \A x \in s : g[s] = F[x] + g[s \ {x}]
           Bad == {n \in Nat : \E s \in SUBSET D :
                                 Cardinality(s) = n /\ ~Good(s)}
<1>1. \A s \in SUBSET D : Cardinality(s) \in Nat
  BY FS_Subset, FS_CardinalityType
<1> SUFFICES ASSUME Bad # {} PROVE FALSE
  BY <1>1
<1>2. PICK n \in Bad : \A m \in Bad : n <= m
  <2> Bad \in SUBSET Nat
    OBVIOUS
  <2> HIDE DEF Bad
  <2> QED BY LeastNat
<1>3. PICK s \in SUBSET D : Cardinality(s) = n /\ ~Good(s)
  BY <1>2
<1>4. PICK x \in s : g[s] # F[x] + g[s \ {x}]
  BY <1>3
<1>5. /\ Some(s) \in s /\ Some(s) \in D
      /\ g[s] = F[Some(s)] + g[Rest(s)]
      /\ Rest(s) \in SUBSET D /\ Cardinality(Rest(s)) \in Nat
      /\ Cardinality(Rest(s)) = n - 1 /\ n \in Nat
  BY <1>2, <1>3, <1>4, SumsStep, OneLess
<1>6. x # Some(s)
  <2> SUFFICES ASSUME x = Some(s) PROVE FALSE
    OBVIOUS
  <2>1. Rest(s) = s \ {x}
    BY DEF Rest
  <2> QED BY <1>4, <1>5, <2>1
<1>7. IsFiniteSet(s) /\ s \ {x} \in SUBSET D
  BY <1>3, FS_Subset
<1>8. Cardinality(s \ {x}) = n - 1
  BY <1>3, <1>4, <1>7, FS_RemoveElement
<1>9. ASSUME NEW t \in SUBSET D, Cardinality(t) = n - 1 PROVE Good(t)
  <2>1. n - 1 \notin Bad /\ n - 1 \in Nat
    BY <1>1, <1>2, <1>5, <1>9
  <2> HIDE DEF Good
  <2> QED BY <1>9, <2>1
<1>10. g[Rest(s)] = F[x] + g[Rest(s) \ {x}]
  <2>1. x \in Rest(s)
    BY <1>4, <1>6 DEF Rest
  <2> QED BY <1>5, <1>9, <2>1
<1>11. g[s \ {x}] = F[Some(s)] + g[(s \ {x}) \ {Some(s)}]
  <2>1. Some(s) \in s \ {x}
    BY <1>5, <1>6
  <2> QED BY <1>7, <1>8, <1>9, <2>1
<1>12. (s \ {x}) \ {Some(s)} = Rest(s) \ {x}
  BY DEF Rest
<1>13. F[x] \in Int /\ F[Some(s)] \in Int /\ g[Rest(s) \ {x}] \in Int
  <2>1. x \in D /\ Rest(s) \ {x} \in SUBSET D
    BY <1>3, <1>4, <1>5
  <2> QED BY <1>5, <2>1, SumsInt
<1>14. g[s] = F[Some(s)] + (F[x] + g[Rest(s) \ {x}])
  BY <1>5, <1>10
<1>15. F[x] + g[s \ {x}] = F[x] + (F[Some(s)] + g[Rest(s) \ {x}])
  BY <1>11, <1>12
<1> QED BY <1>4, <1>13, <1>14, <1>15

(* A sum of naturals over more is no less. *)
LEMMA SumsMore ==
    ASSUME NEW D, IsFiniteSet(D), NEW F \in [D -> Nat], NEW g, Sums(g, F, D)
    PROVE  \A t \in SUBSET D : \A s \in SUBSET t : g[s] <= g[t]
<1> DEFINE Good(t) == \A s \in SUBSET t : g[s] <= g[t]
           Bad == {n \in Nat : \E t \in SUBSET D :
                                 Cardinality(t) = n /\ ~Good(t)}
<1>1. \A s \in SUBSET D : Cardinality(s) \in Nat /\ IsFiniteSet(s)
  BY FS_Subset, FS_CardinalityType
<1> SUFFICES ASSUME Bad # {} PROVE FALSE
  BY <1>1
<1>2. PICK n \in Bad : \A m \in Bad : n <= m
  <2> Bad \in SUBSET Nat
    OBVIOUS
  <2> HIDE DEF Bad
  <2> QED BY LeastNat
<1>3. PICK t \in SUBSET D : Cardinality(t) = n /\ ~Good(t)
  BY <1>2
<1>4. PICK s \in SUBSET t : ~(g[s] <= g[t])
  BY <1>3
<1>5. g[s] \in Nat /\ g[t] \in Nat
  BY SumsNat
<1>6. s # t
  <2> SUFFICES ASSUME s = t PROVE FALSE
    OBVIOUS
  <2>1. g[s] = g[t]
    OBVIOUS
  <2> QED BY <1>4, <1>5, <2>1
<1>7. PICK x \in t : x \notin s
  BY <1>6
<1>8. t \ {x} \in SUBSET D /\ s \in SUBSET (t \ {x})
  BY <1>7
<1>9. Cardinality(t \ {x}) = n - 1 /\ n - 1 \in Nat /\ n \in Nat
  <2>1. IsFiniteSet(t) /\ n \in Nat
    BY <1>1, <1>2, <1>3
  <2>2. Cardinality(t \ {x}) = n - 1
    BY <1>3, <1>7, <2>1, FS_RemoveElement
  <2>3. Cardinality(t \ {x}) \in Nat
    BY <1>1, <1>8
  <2> QED BY <2>1, <2>2, <2>3
<1>10. Good(t \ {x})
  <2>1. n - 1 \notin Bad
    BY <1>2, <1>9
  <2> HIDE DEF Good
  <2> QED BY <1>8, <1>9, <2>1
<1>11. g[s] <= g[t \ {x}]
  BY <1>8, <1>10
<1>12. g[t] = F[x] + g[t \ {x}]
  <2>1. F \in [D -> Int]
    OBVIOUS
  <2> QED BY <1>7, <2>1, SumsAny
<1>13. F[x] \in Nat /\ g[t \ {x}] \in Nat
  BY <1>8, SumsNat
<1> QED BY <1>4, <1>5, <1>11, <1>12, <1>13

\* p gives the numbers of F their names in G.
Renames(p, D, F, E, G) ==
    /\ p \in [D -> E]
    /\ \A x, y \in D : p[x] = p[y] => x = y
    /\ \A x \in D : G[p[x]] = F[x]
Renamed(p, s) == {p[x] : x \in s}

(* The sum of the same numbers under other names is the same. *)
LEMMA SumsRenamed ==
    ASSUME NEW D, IsFiniteSet(D), NEW F \in [D -> Int], NEW f, Sums(f, F, D),
           NEW E, IsFiniteSet(E), NEW G \in [E -> Int], NEW g, Sums(g, G, E),
           NEW p, Renames(p, D, F, E, G)
    PROVE  \A s \in SUBSET D : f[s] = g[Renamed(p, s)]
<1> DEFINE Good(s) == f[s] = g[Renamed(p, s)]
           Bad == {n \in Nat : \E s \in SUBSET D :
                                 Cardinality(s) = n /\ ~Good(s)}
<1> USE DEF Renames, Renamed
<1>1. \A s \in SUBSET D : Cardinality(s) \in Nat
  BY FS_Subset, FS_CardinalityType
<1> SUFFICES ASSUME Bad # {} PROVE FALSE
  BY <1>1
<1>2. PICK n \in Bad : \A m \in Bad : n <= m
  <2> Bad \in SUBSET Nat
    OBVIOUS
  <2> HIDE DEF Bad
  <2> QED BY LeastNat
<1>3. PICK s \in SUBSET D : Cardinality(s) = n /\ ~Good(s)
  BY <1>2
<1>4. s # {}
  <2>1. Renamed(p, {}) = {} /\ f[{}] = 0 /\ g[{}] = 0
    BY SumsStep
  <2>2. Good({})
    BY <2>1
  <2> HIDE DEF Good
  <2> QED BY <1>3, <2>2, Zenon
<1>5. /\ Some(s) \in s /\ Some(s) \in D
      /\ f[s] = F[Some(s)] + f[Rest(s)]
      /\ Rest(s) \in SUBSET D /\ Cardinality(Rest(s)) \in Nat
      /\ Cardinality(Rest(s)) = n - 1 /\ n \in Nat
  BY <1>2, <1>3, <1>4, SumsStep, OneLess
<1>6. Good(Rest(s))
  <2>1. n - 1 \in Nat
    BY <1>5
  <2>2. n - 1 \notin Bad
    <3> HIDE DEF Bad
    <3> QED BY <1>2, <1>5, <2>1
  <2> HIDE DEF Good
  <2> QED BY <1>5, <2>1, <2>2
<1>7. Renamed(p, s) \in SUBSET E /\ p[Some(s)] \in Renamed(p, s)
  BY <1>5
<1>8. Renamed(p, Rest(s)) = Renamed(p, s) \ {p[Some(s)]}
  BY <1>5 DEF Rest
<1>9. g[Renamed(p, s)] = G[p[Some(s)]] + g[Renamed(p, s) \ {p[Some(s)]}]
  <2> HIDE DEF Renamed
  <2> QED BY <1>7, SumsAny
<1>10. G[p[Some(s)]] = F[Some(s)]
  BY <1>5
<1>11. Good(s)
  <2> HIDE DEF Renamed
  <2> QED BY <1>5, <1>6, <1>8, <1>9, <1>10
<1> QED BY <1>3, <1>11

LEMMA SumNat ==
    ASSUME NEW D, IsFiniteSet(D), NEW F \in [D -> Nat]
    PROVE  Sum(F) \in Nat /\ (Sum(F) = 0 <=> \A y \in D : F[y] = 0)
<1>1. DOMAIN F = D
  OBVIOUS
<1>2. PICK g : Sums(g, F, D) /\ Sum(F) = g[D]
  BY <1>1, SumIs
<1> QED BY <1>2, SumsNat

LEMMA SumInt ==
    ASSUME NEW D, IsFiniteSet(D), NEW F \in [D -> Int]
    PROVE  Sum(F) \in Int
<1>1. DOMAIN F = D
  OBVIOUS
<1>2. PICK g : Sums(g, F, D) /\ Sum(F) = g[D]
  BY <1>1, SumIs
<1> QED BY <1>2, SumsInt

LEMMA SumPlus ==
    ASSUME NEW D, IsFiniteSet(D),
           NEW F \in [D -> Int], NEW G \in [D -> Int], NEW H \in [D -> Int],
           \A y \in D : H[y] = F[y] + G[y]
    PROVE  Sum(H) = Sum(F) + Sum(G) /\ Sum(F) \in Int /\ Sum(G) \in Int
<1>1. DOMAIN F = D /\ DOMAIN G = D /\ DOMAIN H = D
  OBVIOUS
<1>2. PICK f : Sums(f, F, D) /\ Sum(F) = f[D]
  BY <1>1, SumIs
<1>3. PICK g : Sums(g, G, D) /\ Sum(G) = g[D]
  BY <1>1, SumIs
<1>4. PICK h : Sums(h, H, D) /\ Sum(H) = h[D]
  BY <1>1, SumIs
<1>5. h[D] = f[D] + g[D]
  BY <1>2, <1>3, <1>4, SumsPlus
<1>6. f[D] \in Int /\ g[D] \in Int
  BY <1>2, <1>3, SumsInt
<1> QED BY <1>2, <1>3, <1>4, <1>5, <1>6

-----------------------------------------------------------------------------
(* What the reports count. *)

LEMMA TotalIs ==
    ASSUME NEW split, IsFiniteSet(DOMAIN split), NEW field
    PROVE  Total(split, field) = Sum([m \in DOMAIN split |-> split[m][field]])
<1> DEFINE D == DOMAIN split
           F == [m \in D |-> split[m][field]]
           Row(g, s) == IF s = {} THEN 0
                        ELSE split[Some(s)][field] + g[Rest(s)]
           Rows(g) == [s \in SUBSET D |-> Row(g, s)]
           Parts(g) == [s \in SUBSET D |-> Part(g, F, s)]
<1>1. Total(split, field) = (CHOOSE g : g = Rows(g))[D]
  BY DEF Total, MapThenSumSet, MapThenFoldSet, Some, Rest
<1>2. Sum(F) = (CHOOSE g : g = Parts(g))[D]
  <2>1. DOMAIN F = D
    OBVIOUS
  <2> HIDE DEF F
  <2> QED BY <2>1 DEF Sum, MapThenSumSet, MapThenFoldSet, Some, Rest, Part
<1>3. ASSUME NEW g PROVE Rows(g) = Parts(g)
  <2>1. ASSUME NEW s \in SUBSET D PROVE Row(g, s) = Part(g, F, s)
    <3>1. CASE s = {}
      BY <3>1 DEF Part
    <3>2. CASE s # {}
      <4>1. Some(s) \in D
        BY <3>2, OneLess
      <4>2. F[Some(s)] = split[Some(s)][field]
        BY <4>1
      <4> QED BY <3>2, <4>2 DEF Part
    <3> QED BY <3>1, <3>2
  <2> QED BY <2>1
<1>4. (CHOOSE g : g = Rows(g)) = (CHOOSE g : g = Parts(g))
  <2> HIDE DEF Rows, Parts
  <2> QED BY <1>3, Zenon
<1> QED BY <1>1, <1>2, <1>4

LEMMA SuiteType ==
    ASSUME NEW T, IsFiniteSet(T), NEW xml \in [T -> Outcomes]
    PROVE  /\ Suite(xml) \in [tests : Nat, failures : Nat, errors : Nat,
                              skipped : Nat]
           /\ Suite(xml).tests = 0 <=> T = {}
           /\ Suite(xml).failures = 0 <=> CasesWith(xml, "failed") = {}
           /\ Suite(xml).errors = 0 <=> CasesWith(xml, "error") = {}
<1>1. ASSUME NEW outcome
      PROVE  LET n == Cardinality(CasesWith(xml, outcome))
             IN n \in Nat /\ (n = 0 <=> CasesWith(xml, outcome) = {})
  <2>1. IsFiniteSet(CasesWith(xml, outcome))
    BY FS_Subset DEF CasesWith
  <2> QED BY <2>1, FS_CardinalityType, FS_EmptySet
<1>2. Cardinality(DOMAIN xml) \in Nat /\ (Cardinality(DOMAIN xml) = 0 <=> T = {})
  BY FS_CardinalityType, FS_EmptySet
<1> QED BY <1>1, <1>2 DEF Suite

(* The counts of a split report are those of its test cases: there are tests  *)
(* when there are test cases, failures and errors when some failed, and what *)
(* they call passed is what the pages do, and the errors.                    *)
LEMMA SplitCounts ==
    ASSUME NEW T, IsFiniteSet(T), NEW xml \in [T -> Outcomes], NEW module
    PROVE  LET split == SplitByModule(xml, module)
               n == Counts(split)
           IN /\ n.total \in Nat /\ n.failures \in Nat /\ n.errors \in Nat
              /\ n.total = 0 <=> T = {}
              /\ n.failures = 0 <=> CasesWith(xml, "failed") = {}
              /\ n.errors = 0 <=> CasesWith(xml, "error") = {}
              /\ n.passes = n.errors +
                            Sum([m \in DOMAIN split |-> HtmlPassed(split[m])])
<1> DEFINE split == SplitByModule(xml, module)
           M == {module[t] : t \in T}
           Of(m) == {t \in T : module[t] = m}
           sub(m) == [t \in Of(m) |-> xml[t]]
           Col(field) == [m \in M |-> split[m][field]]
           pages == [m \in M |-> HtmlPassed(split[m])]
<1>1. IsFiniteSet(M)
  <2> DEFINE f == [t \in T |-> module[t]]
  <2>1. f \in Surjection(T, M)
    BY DEF Surjection
  <2> HIDE DEF f, M
  <2> QED BY <2>1, FS_Surjection
<1>2. split = [m \in M |-> Suite(sub(m))]
  BY DEF SplitByModule
<1> HIDE DEF split
<1>3. ASSUME NEW m \in M
      PROVE  /\ split[m] \in [tests : Nat, failures : Nat, errors : Nat,
                              skipped : Nat]
             /\ split[m].tests # 0
             /\ split[m].failures = 0 <=> \A t \in Of(m) : xml[t] # "failed"
             /\ split[m].errors = 0 <=> \A t \in Of(m) : xml[t] # "error"
  <2>1. IsFiniteSet(Of(m)) /\ Of(m) # {}
    BY FS_Subset
  <2>2. sub(m) \in [Of(m) -> Outcomes]
    OBVIOUS
  <2>3. \A outcome : CasesWith(sub(m), outcome) = {t \in Of(m) : xml[t] = outcome}
    BY DEF CasesWith
  <2>4. split[m] = Suite(sub(m))
    BY <1>2
  <2> HIDE DEF sub, Of
  <2>5. /\ split[m] \in [tests : Nat, failures : Nat, errors : Nat,
                         skipped : Nat]
        /\ split[m].tests = 0 <=> Of(m) = {}
        /\ split[m].failures = 0 <=> CasesWith(sub(m), "failed") = {}
        /\ split[m].errors = 0 <=> CasesWith(sub(m), "error") = {}
    BY <2>1, <2>2, <2>4, SuiteType
  <2> QED BY <2>1, <2>3, <2>5
<1>4. DOMAIN split = M
  BY <1>2
<1>5. \A field : Total(split, field) = Sum(Col(field))
  BY <1>1, <1>4, TotalIs
<1>6. \A field \in {"tests", "failures", "errors", "skipped"} :
         Col(field) \in [M -> Nat]
  BY <1>3
<1>7. ASSUME NEW field \in {"tests", "failures", "errors", "skipped"}
      PROVE  /\ Total(split, field) \in Nat
             /\ Total(split, field) = 0 <=> \A m \in M : split[m][field] = 0
  <2>1. Col(field) \in [M -> Nat]
    BY <1>6
  <2>2. \A m \in M : Col(field)[m] = split[m][field]
    OBVIOUS
  <2> HIDE DEF Col
  <2>3. Sum(Col(field)) \in Nat
        /\ (Sum(Col(field)) = 0 <=> \A m \in M : Col(field)[m] = 0)
    BY <1>1, <2>1, SumNat
  <2> QED BY <1>5, <2>2, <2>3
<1>8. /\ Total(split, "tests") = 0 <=> T = {}
      /\ Total(split, "failures") = 0 <=> CasesWith(xml, "failed") = {}
      /\ Total(split, "errors") = 0 <=> CasesWith(xml, "error") = {}
  <2>1. M = {} <=> T = {}
    OBVIOUS
  <2>2. \A outcome : CasesWith(xml, outcome) = {} <=>
                        \A m \in M : \A t \in Of(m) : xml[t] # outcome
    BY DEF CasesWith
  <2> QED BY <1>3, <1>7, <2>1, <2>2
<1>9. Total(split, "tests") = Total(split, "failures") + Total(split, "skipped")
                                + Total(split, "errors") + Sum(pages)
  <2> DEFINE fs  == [m \in M |-> split[m].failures + split[m].skipped]
             fse == [m \in M |-> split[m].failures + split[m].skipped
                                   + split[m].errors]
  <2>1. ASSUME NEW m \in M
        PROVE  /\ split[m].tests \in Int /\ split[m].failures \in Int
               /\ split[m].skipped \in Int /\ split[m].errors \in Int
    BY <1>3
  <2>2. /\ Col("tests") \in [M -> Int] /\ Col("failures") \in [M -> Int]
        /\ Col("skipped") \in [M -> Int] /\ Col("errors") \in [M -> Int]
        /\ fs \in [M -> Int] /\ fse \in [M -> Int] /\ pages \in [M -> Int]
    BY <2>1 DEF HtmlPassed
  <2>3. ASSUME NEW m \in M
        PROVE  /\ fs[m] = Col("failures")[m] + Col("skipped")[m]
               /\ fse[m] = fs[m] + Col("errors")[m]
               /\ Col("tests")[m] = fse[m] + pages[m]
    BY <2>1 DEF HtmlPassed
  <2> HIDE DEF fs, fse, pages, Col, M
  <2> SUFFICES ASSUME \A F, G, H \in [M -> Int] :
                         (\A y \in M : H[y] = F[y] + G[y])
                         => Sum(H) = Sum(F) + Sum(G)
               PROVE  Total(split, "tests") = Total(split, "failures")
                        + Total(split, "skipped") + Total(split, "errors")
                        + Sum(pages)
    BY <1>1, SumPlus
  <2>4. Sum(fs) = Sum(Col("failures")) + Sum(Col("skipped"))
    <3>1. \A m \in M : fs[m] = Col("failures")[m] + Col("skipped")[m]
      BY <2>3
    <3> QED BY <2>2, <3>1
  <2>5. Sum(fse) = Sum(fs) + Sum(Col("errors"))
    <3>1. \A m \in M : fse[m] = fs[m] + Col("errors")[m]
      BY <2>3
    <3> QED BY <2>2, <3>1
  <2>6. Sum(Col("tests")) = Sum(fse) + Sum(pages)
    <3>1. \A m \in M : Col("tests")[m] = fse[m] + pages[m]
      BY <2>3
    <3> QED BY <2>2, <3>1
  <2> QED BY <1>5, <2>4, <2>5, <2>6
<1>10. Sum(pages) \in Int
  <2>1. pages \in [M -> Int]
    BY <1>3 DEF HtmlPassed
  <2> HIDE DEF pages, M
  <2> QED BY <1>1, <2>1, SumInt
<1>11. Sum([m \in DOMAIN split |-> HtmlPassed(split[m])]) = Sum(pages)
  BY <1>4
<1> HIDE DEF pages
<1>12. Counts(split).passes = Counts(split).errors + Sum(pages)
  BY <1>7, <1>9, <1>10 DEF Counts
<1> QED BY <1>7, <1>8, <1>11, <1>12 DEF Counts, split

\* The counts of a report.xml that is still there.
LEMMA ReportCounts ==
    ASSUME NEW T, IsFiniteSet(T), NEW xml \in [T -> Outcomes]
    PROVE  LET n == Counts([all \in {"report"} |-> Suite(xml)])
           IN n.total \in Nat /\ (n.total = 0 <=> T = {})
<1> DEFINE split == [all \in {"report"} |-> Suite(xml)]
           F == [m \in DOMAIN split |-> split[m]["tests"]]
<1>1. DOMAIN split = {"report"} /\ IsFiniteSet(DOMAIN split)
  BY FS_Singleton
<1>2. Total(split, "tests") = Sum(F)
  <2> HIDE DEF split
  <2> QED BY <1>1, TotalIs
<1>3. /\ F \in [{"report"} -> Nat]
      /\ F["report"] = 0 <=> T = {}
  BY SuiteType
<1> HIDE DEF F
<1>4. Sum(F) \in Nat /\ (Sum(F) = 0 <=> \A y \in {"report"} : F[y] = 0)
  BY <1>1, <1>3, SumNat
<1> HIDE DEF split
<1>5. Counts(split).total = Sum(F)
  BY <1>2 DEF Counts
<1> QED BY <1>3, <1>4, <1>5 DEF split

-----------------------------------------------------------------------------
(* What a session reports and what an invocation makes of it. *)

\* Nothing, or the results of a run of tests and the verdict on them.
Reported(s) ==
    \/ reports[s] = NoReport /\ code[s] = "none"
    \/ \E T \in SUBSET Tests : \E xml \in [T -> Outcomes] :
          /\ code[s] = IF PytestPassed(xml) THEN "passed" ELSE "failed"
          /\ reports[s] \in {PytestReport(xml),
                             ResultSummary(PytestReport(xml), Module)}

\* Sessions are left out only after a failure, and then success is not.
VerdictInv ==
    /\ \A s \in Sessions : Reported(s)
    /\ phase # "done" => exit = "none"
    /\ phase = "merge" => cur = Len(cmd.sessions) \/ Broken
    /\ exit = "ok" /\ cmd.kind \in {"test", "multi"} =>
          \A s \in Sessions : code[s] = "passed"

(* A step that tests nothing, and succeeds only if it is not to test.        *)
LEMMA VerdictFrame ==
    ASSUME VerdictInv, UNCHANGED <<cmd, reports, code>>,
           phase' \notin {"done", "merge"} => exit' = "none",
           phase' = "merge" =>
               exit' = "none" /\ (cur' = Len(cmd.sessions) \/ Broken'),
           exit' = "ok" /\ cmd.kind \in {"test", "multi"} =>
               exit = "ok" \/ \A s \in Sessions : code[s] = "passed"
    PROVE  VerdictInv'
<1>1. Sessions' = Sessions /\ \A s : Reported(s)' = Reported(s)
  BY DEF Sessions, Reported
<1> QED BY <1>1 DEF VerdictInv

LEMMA SummaryOfSummary ==
    ASSUME NEW s, Reported(s), NEW r, r = ResultSummary(reports[s], Module)
    PROVE  \/ r = NoReport /\ code[s] = "none"
           \/ \E T \in SUBSET Tests : \E xml \in [T -> Outcomes] :
                /\ code[s] = IF PytestPassed(xml) THEN "passed" ELSE "failed"
                /\ r \in {PytestReport(xml),
                          ResultSummary(PytestReport(xml), Module)}
<1>1. CASE reports[s] = NoReport /\ code[s] = "none"
  BY <1>1 DEF ResultSummary, NoReport
<1>2. ASSUME NEW T \in SUBSET Tests, NEW xml \in [T -> Outcomes],
             code[s] = IF PytestPassed(xml) THEN "passed" ELSE "failed",
             reports[s] \in {PytestReport(xml),
                             ResultSummary(PytestReport(xml), Module)}
      PROVE  /\ code[s] = IF PytestPassed(xml) THEN "passed" ELSE "failed"
             /\ r = ResultSummary(PytestReport(xml), Module)
  <2>1. PytestReport(xml).has /\ ~ResultSummary(PytestReport(xml), Module).has
    BY DEF PytestReport, ResultSummary, NoReport
  <2>2. CASE reports[s] = PytestReport(xml)
    BY <1>2, <2>2
  <2>3. CASE reports[s] = ResultSummary(PytestReport(xml), Module)
    BY <1>2, <2>1, <2>3 DEF ResultSummary
  <2> QED BY <1>2, <2>2, <2>3
<1> QED BY <1>1, <1>2 DEF Reported

LEMMA VerdictStep ==
    ASSUME TypeOK, Shape, VerdictInv, [Next]_vars
    PROVE  VerdictInv'
<1>1. CASE Abort
  BY <1>1, VerdictFrame DEF Abort, End, results
<1>2. CASE Invoke
  <2>1. /\ phase' = "key" /\ exit' = "none"
        /\ reports' = [s \in Sessions' |-> NoReport]
        /\ code' = [s \in Sessions' |-> "none"]
    BY <1>2 DEF Invoke, Sessions
  <2> QED BY <2>1 DEF VerdictInv, Reported
<1>3. ASSUME NEW s, Settled(s), UNCHANGED <<cmd, results>>, phase \in {"key", "build"}
      PROVE  VerdictInv'
  <2>1. \/ phase' \in {"key", "cleanup", "collect"} /\ exit' = exit
        \/ cmd.kind = "build" /\ phase' = "done"
    BY <1>3 DEF Settled, End
  <2>2. exit = "none"
    BY <1>3 DEF VerdictInv
  <2> QED BY <1>3, <2>1, <2>2, VerdictFrame DEF results
<1>4. CASE LookUp
  <2>1. CASE \E s : Settled(s)
    BY <1>3, <1>4, <2>1 DEF LookUp
  <2>2. CASE phase' = "build" /\ exit' = exit
    BY <1>4, <2>2, VerdictFrame DEF LookUp, results, VerdictInv
  <2> QED BY <1>4, <2>1, <2>2 DEF LookUp
<1>5. CASE Build \/ UNCHANGED vars \/ DaysPass
  <2>1. UNCHANGED <<cmd, reports, code, phase, cur, exit>>
    BY <1>5 DEF Build, vars, DaysPass, results
  <2> QED BY <2>1, VerdictFrame DEF VerdictInv, Broken
<1>6. CASE BuildEnds /\ ~Abort
  BY <1>3, <1>6 DEF BuildEnds
<1>7. CASE Collect \/ Cleanup \/ NewSessionDir \/ (StartSession /\ ~Abort)
  <2>1. /\ UNCHANGED <<cmd, reports, code>>
        /\ phase \notin {"done", "merge"} /\ phase' # "merge"
        /\ exit' = exit \/ (exit' = "ok" /\ phase' = "done" /\ cmd.kind = "collect")
    BY <1>7 DEF Collect, Cleanup, NewSessionDir, StartSession, Elsewhere,
         results, End
  <2> QED BY <2>1, VerdictFrame DEF VerdictInv
<1>8. CASE RunTests
  <2>1. PICK xml \in [collected -> Outcomes] :
              /\ reports' = [reports EXCEPT ![cur] = PytestReport(xml)]
              /\ code' = [code EXCEPT ![cur] =
                            IF PytestPassed(xml) THEN "passed" ELSE "failed"]
    BY <1>8 DEF RunTests
  <2>2. phase' = "finish" /\ exit' = exit /\ cmd' = cmd /\ exit = "none"
    BY <1>8 DEF RunTests, Elsewhere, VerdictInv
  <2>3. Sessions' = Sessions /\ collected \in SUBSET Tests
        /\ DOMAIN reports = Sessions /\ DOMAIN code = Sessions
    BY <2>2 DEF Sessions, TypeOK
  <2>4. ASSUME NEW s \in Sessions PROVE Reported(s)'
    <3>1. CASE s = cur
      <4>1. /\ code'[s] = IF PytestPassed(xml) THEN "passed" ELSE "failed"
            /\ reports'[s] = PytestReport(xml)
        BY <2>1, <2>3, <3>1
      <4> QED BY <2>3, <4>1 DEF Reported
    <3>2. CASE s # cur
      <4>1. reports'[s] = reports[s] /\ code'[s] = code[s]
        BY <2>1, <3>2
      <4> QED BY <4>1 DEF Reported, VerdictInv
    <3> QED BY <3>1, <3>2
  <2> QED BY <2>2, <2>3, <2>4 DEF VerdictInv
<1>9. CASE FinishSession
  <2>1. /\ reports' = [reports EXCEPT ![cur] = ResultSummary(@, Module)]
        /\ UNCHANGED <<cmd, code>> /\ exit = "none"
    BY <1>9 DEF FinishSession, Elsewhere, VerdictInv
  <2>2. Sessions' = Sessions /\ DOMAIN reports = Sessions /\ cur \in Sessions
    BY <2>1 DEF Sessions, TypeOK
  <2>3. ASSUME NEW s \in Sessions PROVE Reported(s)'
    <3>1. CASE s = cur
      <4>1. reports'[s] = ResultSummary(reports[s], Module) /\ code'[s] = code[s]
        BY <2>1, <2>2, <3>1
      <4>2. Reported(s)
        BY DEF VerdictInv
      <4> QED BY <4>1, <4>2, SummaryOfSummary DEF Reported
    <3>2. CASE s # cur
      <4>1. reports'[s] = reports[s] /\ code'[s] = code[s]
        BY <2>1, <3>2
      <4> QED BY <4>1 DEF Reported, VerdictInv
    <3> QED BY <3>1, <3>2
  <2>4. CASE ~Multi
    <3>1. phase' = "done" /\ exit' = IF code[cur] = "passed" THEN "ok" ELSE "error"
      BY <1>9, <2>4 DEF FinishSession, End
    <3>2. Sessions = {cur}
      <4>1. Len(cmd.sessions) = 1 /\ Sessions = 1..Len(cmd.sessions)
        BY <2>4, CommandType DEF TypeOK, Multi
      <4> QED BY <2>2, <4>1
    <3> QED BY <2>1, <2>2, <2>3, <3>1, <3>2 DEF VerdictInv
  <2>5. CASE Multi /\ (cur = Len(cmd.sessions) \/ Broken)
    <3>1. phase' = "merge" /\ UNCHANGED <<cur, exit>>
      BY <1>9, <2>5 DEF FinishSession
    <3> QED BY <2>1, <2>2, <2>3, <2>5, <3>1 DEF VerdictInv, Broken
  <2>6. CASE Multi /\ ~(cur = Len(cmd.sessions) \/ Broken)
    <3>1. phase' = "start" /\ UNCHANGED exit
      BY <1>9, <2>6 DEF FinishSession
    <3> QED BY <2>1, <2>2, <2>3, <3>1 DEF VerdictInv
  <2> QED BY <2>4, <2>5, <2>6
<1>10. CASE Merge
  <2>1. /\ UNCHANGED <<cmd, reports, code>> /\ phase = "merge" /\ phase' = "done"
        /\ exit' = IF \A s \in 1..cur : code[s] = "passed" THEN "ok" ELSE "error"
    BY <1>10 DEF Merge, Elsewhere, End
  <2>2. ASSUME \A s \in 1..cur : code[s] = "passed"
        PROVE  \A s \in Sessions : code[s] = "passed"
    <3>1. Sessions = 1..Len(cmd.sessions) /\ cur \in Sessions
      BY CommandType DEF TypeOK
    <3>2. ~Broken
      BY <2>2, <3>1 DEF Broken
    <3> QED BY <2>1, <2>2, <3>1, <3>2 DEF VerdictInv
  <2> QED BY <2>1, <2>2, VerdictFrame
<1> QED BY <1>1, <1>2, <1>4, <1>5, <1>6, <1>7, <1>8, <1>9, <1>10
     DEF Next, CollectFails, Killed

LEMMA VerdictInvariant == Spec => [](TypeOK /\ VerdictInv)
<1>1. Init => VerdictInv
  <2> SUFFICES ASSUME Init PROVE VerdictInv
    OBVIOUS
  <2>1. \A s \in Sessions : reports[s] = NoReport /\ code[s] = "none"
    BY DEF Init
  <2> QED BY <2>1 DEF VerdictInv, Reported, Init
<1>2. TypeOK /\ Shape /\ VerdictInv /\ [Next]_vars => VerdictInv'
  BY VerdictStep
<1> QED BY <1>1, <1>2, ShapeInvariant, PTL DEF Spec

LEMMA NothingSplit ==
    /\ DOMAIN NoReport.split = {}
    /\ \A xml : DOMAIN PytestReport(xml).split = {}
<1>1. DOMAIN <<>> = {}
  OBVIOUS
<1>2. NoReport.split = <<>> /\ \A xml : PytestReport(xml).split = <<>>
  BY DEF NoReport, PytestReport
<1> QED BY <1>1, <1>2, Zenon

LEMMA VerdictHolds ==
    ASSUME TypeOK, VerdictInv
    PROVE  VerdictAgreesWithCounts
<1>1. ASSUME NEW s \in Sessions, DOMAIN reports[s].split # {}
      PROVE  LET n == SessionCounts(reports[s])
             IN /\ (code[s] = "passed") <=>
                       (n.total > 0 /\ n.failures + n.errors = 0)
                /\ n.passes = n.errors + MapThenSumSet(
                       LAMBDA m : reports[s].pages[m], DOMAIN reports[s].pages)
  <2>1. PICK T \in SUBSET Tests : \E xml \in [T -> Outcomes] :
           /\ code[s] = IF PytestPassed(xml) THEN "passed" ELSE "failed"
           /\ reports[s] \in {PytestReport(xml),
                              ResultSummary(PytestReport(xml), Module)}
    <3>1. reports[s] # NoReport
      BY <1>1, NothingSplit, Zenon
    <3>2. Reported(s)
      BY DEF VerdictInv
    <3> QED BY <3>1, <3>2 DEF Reported
  <2>2. PICK xml \in [T -> Outcomes] :
           /\ code[s] = IF PytestPassed(xml) THEN "passed" ELSE "failed"
           /\ reports[s] \in {PytestReport(xml),
                              ResultSummary(PytestReport(xml), Module)}
    BY <2>1
  <2> DEFINE split == SplitByModule(xml, Module)
             pages == [m \in DOMAIN split |-> HtmlPassed(split[m])]
             n == Counts(split)
  <2>3. reports[s] = ResultSummary(PytestReport(xml), Module)
    <3>1. reports[s] # PytestReport(xml)
      BY <1>1, NothingSplit, Zenon
    <3> QED BY <2>2, <3>1
  <2>4. reports[s].split = split /\ reports[s].pages = pages
    BY <2>3 DEF ResultSummary, PytestReport, NoReport
  <2>5. SessionCounts(reports[s]) = n
    BY <1>1, <2>4 DEF SessionCounts
  <2>6. IsFiniteSet(T)
    BY TestAssumption, FS_Subset
  <2>7. /\ n.total \in Nat /\ n.failures \in Nat /\ n.errors \in Nat
        /\ n.total = 0 <=> T = {}
        /\ n.failures = 0 <=> CasesWith(xml, "failed") = {}
        /\ n.errors = 0 <=> CasesWith(xml, "error") = {}
        /\ n.passes = n.errors + Sum(pages)
    BY <2>6, SplitCounts
  <2>8. PytestPassed(xml) <=> /\ T # {}
                              /\ CasesWith(xml, "failed") = {}
                              /\ CasesWith(xml, "error") = {}
    BY DEF PytestPassed
  <2>9. Sum(pages) = MapThenSumSet(LAMBDA m : reports[s].pages[m],
                                   DOMAIN reports[s].pages)
    <3> HIDE DEF pages
    <3> QED BY <2>4 DEF Sum
  <2> HIDE DEF n, pages
  <2> QED BY <2>2, <2>5, <2>7, <2>8, <2>9
<1>2. ASSUME NEW s \in Sessions, code[s] = "passed"
      PROVE  SessionCounts(reports[s]).total > 0
  <2>1. PICK T \in SUBSET Tests : \E xml \in [T -> Outcomes] :
           /\ code[s] = IF PytestPassed(xml) THEN "passed" ELSE "failed"
           /\ reports[s] \in {PytestReport(xml),
                              ResultSummary(PytestReport(xml), Module)}
    BY <1>2 DEF VerdictInv, Reported
  <2>2. PICK xml \in [T -> Outcomes] :
           /\ code[s] = IF PytestPassed(xml) THEN "passed" ELSE "failed"
           /\ reports[s] \in {PytestReport(xml),
                              ResultSummary(PytestReport(xml), Module)}
    BY <2>1
  <2>3. T # {} /\ IsFiniteSet(T)
    BY <1>2, <2>2, TestAssumption, FS_Subset DEF PytestPassed
  <2> DEFINE split == SplitByModule(xml, Module)
             n == Counts(split)
             whole == Counts([all \in {"report"} |-> Suite(xml)])
  <2>4. n.total \in Nat /\ n.total # 0
    <3>1. IsFiniteSet(T)
      BY <2>3
    <3>2. /\ n.total \in Nat /\ n.failures \in Nat /\ n.errors \in Nat
          /\ n.total = 0 <=> T = {}
          /\ n.failures = 0 <=> CasesWith(xml, "failed") = {}
          /\ n.errors = 0 <=> CasesWith(xml, "error") = {}
          /\ n.passes = n.errors +
                        Sum([m \in DOMAIN split |-> HtmlPassed(split[m])])
      BY <3>1, SplitCounts
    <3> QED BY <2>3, <3>2
  <2>5. whole.total \in Nat /\ whole.total # 0
    BY <2>3, ReportCounts
  <2>6. CASE reports[s] = PytestReport(xml)
    <3>1. SessionCounts(reports[s]) = whole
      BY <2>6 DEF SessionCounts, PytestReport, NoReport
    <3> QED BY <2>5, <3>1
  <2>7. CASE reports[s] = ResultSummary(PytestReport(xml), Module)
    <3>1. reports[s].split = split /\ ~reports[s].has
      BY <2>7 DEF ResultSummary, PytestReport, NoReport
    <3>2. SessionCounts(reports[s]) = n
      BY <3>1 DEF SessionCounts
    <3> QED BY <2>4, <3>2
  <2> QED BY <2>2, <2>6, <2>7
<1> QED BY <1>1, <1>2 DEF VerdictAgreesWithCounts, VerdictInv

(* What the summaries count agrees with the verdict of pytest on each session *)
(* and with the pages, and an invocation succeeds only if every session of it *)
(* ran and passed (_split_xml_by_module, _parse_session_counts, run).        *)
THEOREM VerdictsAgree == Spec => []VerdictAgreesWithCounts
<1>1. TypeOK /\ VerdictInv => VerdictAgreesWithCounts
  BY VerdictHolds
<1> QED BY <1>1, VerdictInvariant, PTL

-----------------------------------------------------------------------------
(* Which result directories are left. *)

ResultDir == [id : Nat, size : Nat, old : BOOLEAN]

(* How many there are after the first a of b. *)
LEMMA After ==
    ASSUME NEW a \in Nat, NEW b \in Nat, a <= b
    PROVE  /\ Cardinality((a + 1)..b) = b - a
           /\ (IF a + 1 <= b THEN b - (a + 1) + 1 ELSE 0) = b - a
<1>1. (IF a + 1 <= b THEN b - (a + 1) + 1 ELSE 0) = b - a
  OBVIOUS
<1>2. a + 1 \in Int /\ b \in Int
  OBVIOUS
<1>3. Cardinality((a + 1)..b) = IF a + 1 > b THEN 0 ELSE b - (a + 1) + 1
  BY <1>2, FS_Interval
<1>4. (IF a + 1 > b THEN 0 ELSE b - (a + 1) + 1) = b - a
  OBVIOUS
<1> QED BY <1>1, <1>3, <1>4

\* Sizes of directories and their partial sums.
SizesOf(ds) == [i \in DOMAIN ds |-> ds[i].size]

LEMMA SizesType ==
    ASSUME NEW ds \in Seq(ResultDir)
    PROVE  /\ Len(ds) \in Nat /\ DOMAIN ds = 1..Len(ds)
           /\ IsFiniteSet(1..Len(ds))
           /\ \A i \in 1..Len(ds) : ds[i] \in ResultDir
           /\ SizesOf(ds) \in [1..Len(ds) -> Nat]
           /\ TotalSize(ds) = Sum(SizesOf(ds))
<1>1. Len(ds) \in Nat /\ DOMAIN ds = 1..Len(ds)
      /\ \A i \in 1..Len(ds) : ds[i] \in ResultDir
  BY LenProperties, ElementOfSeq
<1>2. IsFiniteSet(1..Len(ds))
  BY <1>1, FS_Interval
<1>3. SizesOf(ds) \in [1..Len(ds) -> Nat]
  BY <1>1 DEF SizesOf, ResultDir
<1>4. TotalSize(ds) = Total(ds, "size")
  BY DEF TotalSize, Total, MapThenSumSet, MapThenFoldSet
<1>5. Total(ds, "size") = Sum([i \in DOMAIN ds |-> ds[i]["size"]])
  BY <1>1, <1>2, TotalIs
<1>6. [i \in DOMAIN ds |-> ds[i]["size"]] = SizesOf(ds)
  BY DEF SizesOf
<1> QED BY <1>1, <1>2, <1>3, <1>4, <1>5, <1>6

(* The size of the directories from one on is a partial sum.                *)
LEMMA SizeFrom ==
    ASSUME NEW ds \in Seq(ResultDir), NEW g,
           Sums(g, SizesOf(ds), 1..Len(ds)), NEW i \in 1..(Len(ds) + 1)
    PROVE  TotalSize(SubSeq(ds, i, Len(ds))) = g[i..Len(ds)]
<1> DEFINE L == Len(ds)
           rest == SubSeq(ds, i, L)
           m == L - i + 1
           p == [k \in 1..m |-> k + i - 1]
<1>1. L \in Nat /\ i \in Nat \ {0} /\ m \in Nat /\ DOMAIN ds = 1..L
      /\ \A k \in 1..L : ds[k] \in ResultDir
  BY SizesType
<1>2. rest \in Seq(ResultDir) /\ Len(rest) = m
      /\ \A k \in 1..m : rest[k] = ds[k + i - 1]
  <2>1. i \in Int /\ L \in Int /\ \A k \in i..L : ds[k] \in ResultDir
    BY <1>1
  <2>2. /\ rest \in Seq(ResultDir)
        /\ Len(rest) = IF i <= L THEN L - i + 1 ELSE 0
        /\ \A k \in 1..(L - i + 1) : rest[k] = ds[i + k - 1]
    <3> HIDE DEF L
    <3> QED BY <2>1, SubSeqProperties
  <2>3. (IF i <= L THEN L - i + 1 ELSE 0) = m
    BY <1>1
  <2>4. \A k \in 1..m : i + k - 1 = k + i - 1
    BY <1>1
  <2> QED BY <2>2, <2>3, <2>4
<1>3. /\ SizesOf(rest) \in [1..m -> Nat] /\ IsFiniteSet(1..m)
      /\ TotalSize(rest) = Sum(SizesOf(rest))
      /\ SizesOf(ds) \in [1..L -> Nat] /\ IsFiniteSet(1..L)
      /\ DOMAIN rest = 1..m
  <2> HIDE DEF rest, m, L
  <2> QED BY <1>2, SizesType DEF L
<1>4. PICK f : Sums(f, SizesOf(rest), 1..m) /\ Sum(SizesOf(rest)) = f[1..m]
  <2>1. DOMAIN SizesOf(rest) = 1..m
    BY <1>3
  <2> QED BY <1>3, <2>1, SumIs
<1>5. /\ p \in [1..m -> 1..L]
      /\ \A x, y \in 1..m : p[x] = p[y] => x = y
      /\ \A x \in 1..m : SizesOf(ds)[p[x]] = SizesOf(rest)[x]
  <2>1. \A x \in 1..m : x + i - 1 \in 1..L
    BY <1>1
  <2>2. \A x, y \in 1..m : x + i - 1 = y + i - 1 => x = y
    BY <1>1
  <2>3. \A x \in 1..m : SizesOf(ds)[x + i - 1] = SizesOf(rest)[x]
    <3> HIDE DEF rest, m, L
    <3> QED BY <1>1, <1>2, <1>3, <2>1 DEF SizesOf
  <2> QED BY <2>1, <2>2, <2>3
<1>6. f[1..m] = g[Renamed(p, 1..m)]
  <2>1. SizesOf(rest) \in [1..m -> Int] /\ SizesOf(ds) \in [1..L -> Int]
    BY <1>3
  <2>2. 1..m \in SUBSET (1..m)
    OBVIOUS
  <2> HIDE DEF p, rest, m, L
  <2>3. Renames(p, 1..m, SizesOf(rest), 1..L, SizesOf(ds))
    BY <1>5 DEF Renames
  <2>4. Sums(f, SizesOf(rest), 1..m) /\ Sums(g, SizesOf(ds), 1..L)
        /\ IsFiniteSet(1..m) /\ IsFiniteSet(1..L)
    BY <1>3, <1>4 DEF L
  <2>5. ASSUME NEW D, D = 1..m, NEW E, E = 1..L,
               NEW F, F = SizesOf(rest), NEW G, G = SizesOf(ds)
        PROVE  \A s \in SUBSET D : f[s] = g[Renamed(p, s)]
    <3>1. /\ F \in [D -> Int] /\ G \in [E -> Int]
          /\ Renames(p, D, F, E, G)
          /\ Sums(f, F, D) /\ Sums(g, G, E)
          /\ IsFiniteSet(D) /\ IsFiniteSet(E)
      BY <2>1, <2>3, <2>4, <2>5
    <3> QED BY <3>1, SumsRenamed
  <2> QED BY <2>2, <2>5
<1>7. Renamed(p, 1..m) = i..L
  <2>1. ASSUME NEW y \in i..L PROVE y - i + 1 \in 1..m /\ p[y - i + 1] = y
    BY <1>1
  <2>2. ASSUME NEW x \in 1..m PROVE p[x] \in i..L
    BY <1>1
  <2> QED BY <2>1, <2>2 DEF Renamed
<1> QED BY <1>3, <1>4, <1>6, <1>7

(* Removing the first n directories leaves the others. *)
LEMMA KeptIs ==
    ASSUME NEW ds \in Seq(ResultDir), NEW n \in 0..Len(ds)
    PROVE  Kept(ds, 1..n) = SubSeq(ds, n + 1, Len(ds))
<1> DEFINE L == Len(ds)
           left == (n + 1)..L
           upto(i) == {j \in left : j <= i}
<1>1. L \in Nat /\ n \in Nat /\ n <= L /\ DOMAIN ds = 1..L
      /\ \A k \in 1..L : ds[k] \in ResultDir
  BY SizesType
<1>2. DOMAIN ds \ (1..n) = left
  BY <1>1
<1>3. Cardinality(left) = L - n
  <2> HIDE DEF L
  <2> QED BY <1>1, After
<1>4. ASSUME NEW i \in left PROVE Cardinality(upto(i)) = i - n
  <2>1. upto(i) = (n + 1)..i /\ i \in Nat /\ n <= i
    BY <1>1
  <2> HIDE DEF upto
  <2> QED BY <1>1, <2>1, After
<1>5. ASSUME NEW k \in 1..(L - n)
      PROVE  (CHOOSE i \in left : Cardinality(upto(i)) = k) = k + n
  <2>1. k + n \in left
    BY <1>1
  <2>2. \A i \in left : Cardinality(upto(i)) = k <=> i = k + n
    BY <1>1, <1>4
  <2> HIDE DEF left, upto
  <2> QED BY <2>1, <2>2
<1>6. Kept(ds, 1..n) = [k \in 1..(L - n) |-> ds[k + n]]
  <2> DEFINE Of(l) == [k \in 1..Cardinality(l) |->
                ds[CHOOSE i \in l : Cardinality({j \in l : j <= i}) = k]]
  <2>1. Kept(ds, 1..n) = Of(DOMAIN ds \ (1..n))
    BY DEF Kept
  <2>2. Kept(ds, 1..n) = Of(left)
    <3> HIDE DEF Of, left
    <3> QED BY <1>2, <2>1
  <2>3. Of(left) = [k \in 1..(L - n) |->
                      ds[CHOOSE i \in left : Cardinality(upto(i)) = k]]
    <3> HIDE DEF left, L
    <3> QED BY <1>3
  <2> HIDE DEF left, upto
  <2> QED BY <1>5, <2>2, <2>3
<1>7. /\ SubSeq(ds, n + 1, L) \in Seq(ResultDir)
      /\ Len(SubSeq(ds, n + 1, L)) = L - n
      /\ \A k \in 1..(L - n) : SubSeq(ds, n + 1, L)[k] = ds[k + n]
  <2>1. n + 1 \in Int /\ L \in Int /\ \A k \in (n + 1)..L : ds[k] \in ResultDir
    BY <1>1
  <2>2. /\ SubSeq(ds, n + 1, L) \in Seq(ResultDir)
        /\ Len(SubSeq(ds, n + 1, L)) = IF n + 1 <= L THEN L - (n + 1) + 1 ELSE 0
        /\ \A k \in 1..(L - (n + 1) + 1) :
              SubSeq(ds, n + 1, L)[k] = ds[n + 1 + k - 1]
    <3> HIDE DEF L
    <3> QED BY <2>1, SubSeqProperties
  <2>3. (IF n + 1 <= L THEN L - (n + 1) + 1 ELSE 0) = L - n
    <3> HIDE DEF L
    <3> QED BY <1>1, After
  <2>4. L - (n + 1) + 1 = L - n /\ \A k \in 1..(L - n) : n + 1 + k - 1 = k + n
    BY <1>1
  <2> QED BY <2>2, <2>3, <2>4
<1>8. DOMAIN SubSeq(ds, n + 1, L) = 1..(L - n)
  <2> HIDE DEF L
  <2> QED BY <1>7, LenProperties
<1>9. SubSeq(ds, n + 1, L) = [k \in 1..(L - n) |-> SubSeq(ds, n + 1, L)[k]]
  <2> HIDE DEF L
  <2> QED BY <1>7, <1>8, SeqDef
<1> HIDE DEF L
<1> QED BY <1>6, <1>7, <1>9 DEF L

(* A set of numbers with all those below each is an interval. *)
LEMMA FirstOnes ==
    ASSUME NEW w \in Nat, NEW R \in SUBSET (1..w),
           \A j \in R : \A i \in 1..j : i \in R
    PROVE  \E n \in 0..w : R = 1..n
<1> DEFINE T == {k \in 1..(w + 1) : k \notin R}
<1>1. T \in SUBSET Nat /\ w + 1 \in T
  OBVIOUS
<1>2. PICK m \in T : \A k \in T : m <= k
  <2> HIDE DEF T
  <2> QED BY <1>1, LeastNat
<1>3. m \in 1..(w + 1) /\ m \notin R /\ m - 1 \in 0..w
  BY <1>2
<1>4. ASSUME NEW i \in 1..(m - 1) PROVE i \in R
  BY <1>2, <1>3
<1>5. ASSUME NEW j \in R PROVE j \in 1..(m - 1)
  <2>1. j \in 1..w /\ ~(m \in 1..j)
    BY <1>3
  <2> QED BY <1>3, <2>1
<1>6. R = 1..(m - 1)
  BY <1>4, <1>5
<1> QED BY <1>3, <1>6

OldFirst(ds) == \A j \in DOMAIN ds : \A i \in 1..j : ds[j].old => ds[i].old
Limits       == [byAge : BOOLEAN, maxCount : Nat, maxSize : Nat]

\* What the limits ask of the directories that stay.
Meets(ds, lg) == /\ Len(ds) <= lg.maxCount
                 /\ TotalSize(ds) <= lg.maxSize
                 /\ lg.byAge => \A i \in DOMAIN ds : ~ds[i].old

(* Every rule removes the first directories up to some one.                 *)
LEMMA RemovalsFirst ==
    ASSUME NEW ds \in Seq(ResultDir), OldFirst(ds), NEW lg \in Limits
    PROVE  \E n \in 0..Len(ds) : Removals(ds, lg) = 1..n
<1> DEFINE L == Len(ds)
           R == Removals(ds, lg)
<1>1. /\ L \in Nat /\ DOMAIN ds = 1..L /\ IsFiniteSet(1..L)
      /\ SizesOf(ds) \in [1..L -> Nat]
      /\ lg.maxCount \in Nat /\ lg.maxSize \in Nat
  BY SizesType DEF Limits
<1>2. PICK g : Sums(g, SizesOf(ds), 1..L)
  BY <1>1, SumsExist
<1>3. \A i \in 1..L : TotalSize(SubSeq(ds, i, L)) = g[i..L]
  BY <1>1, <1>2, SizeFrom
<1>4. R \in SUBSET (1..L)
  BY <1>1 DEF Removals, AgeRemovals, CountRemovals, SizeRemovals
<1>5. ASSUME NEW j \in 1..L, NEW i \in 1..j
      PROVE  /\ i \in 1..L
             /\ j \in AgeRemovals(ds) => i \in AgeRemovals(ds)
             /\ j \in CountRemovals(ds, lg.maxCount) =>
                   i \in CountRemovals(ds, lg.maxCount)
             /\ j \in SizeRemovals(ds, lg.maxSize) =>
                   i \in SizeRemovals(ds, lg.maxSize)
  <2>1. i \in 1..L
    BY <1>1
  <2>2. j \in AgeRemovals(ds) => i \in AgeRemovals(ds)
    BY <1>1, <2>1 DEF AgeRemovals, OldFirst
  <2>3. j \in CountRemovals(ds, lg.maxCount) =>
           i \in CountRemovals(ds, lg.maxCount)
    <3>1. L - j >= lg.maxCount => L - i >= lg.maxCount
      BY <1>1
    <3> QED BY <1>1, <2>1, <3>1 DEF CountRemovals
  <2>4. j \in SizeRemovals(ds, lg.maxSize) =>
           i \in SizeRemovals(ds, lg.maxSize)
    <3>1. i..L \in SUBSET (1..L) /\ j..L \in SUBSET (i..L)
      BY <1>1
    <3>2. g[j..L] <= g[i..L]
      BY <1>1, <1>2, <3>1, SumsMore
    <3>3. g[j..L] \in Nat /\ g[i..L] \in Nat
      <4>1. j..L \in SUBSET (1..L)
        BY <3>1
      <4> QED BY <1>1, <1>2, <3>1, <4>1, SumsNat
    <3>4. g[j..L] > lg.maxSize => g[i..L] > lg.maxSize
      BY <1>1, <3>2, <3>3
    <3> QED BY <1>1, <1>3, <2>1, <3>4 DEF SizeRemovals
  <2> QED BY <2>1, <2>2, <2>3, <2>4
<1>6. \A j \in R : \A i \in 1..j : i \in R
  BY <1>4, <1>5 DEF Removals
<1> HIDE DEF L, R
<1>7. \E n \in 0..L : R = 1..n
  BY <1>1, <1>4, <1>6, FirstOnes
<1> QED BY <1>7 DEF L, R

(* A directory that stays meets the limits, one that goes does not. *)
LEMMA LimitsMet ==
    ASSUME NEW ds \in Seq(ResultDir), OldFirst(ds), NEW lg \in Limits,
           NEW n \in 0..Len(ds), Removals(ds, lg) = 1..n
    PROVE  /\ Meets(SubSeq(ds, n + 1, Len(ds)), lg)
           /\ n > 0 => ~Meets(SubSeq(ds, n, Len(ds)), lg)
<1> DEFINE L == Len(ds)
           From(i) == SubSeq(ds, i, L)
<1>1. /\ L \in Nat /\ DOMAIN ds = 1..L /\ n \in Nat /\ n <= L
      /\ \A k \in 1..L : ds[k] \in ResultDir
      /\ lg.maxCount \in Nat /\ lg.maxSize \in Nat /\ lg.byAge \in BOOLEAN
  BY SizesType DEF Limits
<1>2. ASSUME NEW i \in 1..(L + 1)
      PROVE  /\ Len(From(i)) = L - i + 1
             /\ DOMAIN From(i) = 1..(L - i + 1)
             /\ \A k \in 1..(L - i + 1) : From(i)[k] = ds[i + k - 1]
  <2>1. i \in Int /\ L \in Int /\ \A k \in i..L : ds[k] \in ResultDir
    BY <1>1
  <2>2. /\ From(i) \in Seq(ResultDir)
        /\ Len(From(i)) = IF i <= L THEN L - i + 1 ELSE 0
        /\ \A k \in 1..(L - i + 1) : From(i)[k] = ds[i + k - 1]
    <3> HIDE DEF L
    <3> QED BY <2>1, SubSeqProperties
  <2>3. (IF i <= L THEN L - i + 1 ELSE 0) = L - i + 1
    <3> HIDE DEF L
    <3> QED BY <1>1
  <2> HIDE DEF L, From
  <2> QED BY <2>2, <2>3, LenProperties
<1>3. ASSUME NEW i \in 1..L
      PROVE  i \in 1..n <=> \/ lg.byAge /\ ds[i].old
                           \/ L - i >= lg.maxCount
                           \/ TotalSize(From(i)) > lg.maxSize
  BY <1>1 DEF Removals, AgeRemovals, CountRemovals, SizeRemovals
<1>4. TotalSize(From(L + 1)) = 0
  <2>1. From(L + 1) = <<>>
    <3> HIDE DEF L
    <3> QED BY <1>1, SubSeqEmpty
  <2>2. <<>> \in Seq(ResultDir) /\ Len(<<>>) = 0 /\ DOMAIN <<>> = {}
    OBVIOUS
  <2>3. TotalSize(<<>>) = Sum(SizesOf(<<>>)) /\ SizesOf(<<>>) \in [1..0 -> Nat]
        /\ IsFiniteSet(1..0)
    BY <2>2, SizesType
  <2>4. Sum(SizesOf(<<>>)) = 0
    BY <2>3, SumNat
  <2> QED BY <2>1, <2>3, <2>4
<1>5. ASSUME NEW i \in 1..(L + 1) PROVE TotalSize(From(i)) \in Nat
  <2>1. PICK g : Sums(g, SizesOf(ds), 1..L)
    BY SizesType, SumsExist
  <2>2. TotalSize(From(i)) = g[i..L]
    BY <2>1, SizeFrom
  <2>3. i..L \in SUBSET (1..L)
    BY <1>1
  <2>4. IsFiniteSet(1..L) /\ SizesOf(ds) \in [1..L -> Nat]
    BY SizesType
  <2>5. g[i..L] \in Nat
    <3> HIDE DEF L
    <3> QED BY <2>1, <2>3, <2>4, SumsNat
  <2> QED BY <2>2, <2>5
<1>6. Meets(From(n + 1), lg)
  <2>1. n + 1 \in 1..(L + 1)
    BY <1>1
  <2>2. Len(From(n + 1)) = L - n /\ DOMAIN From(n + 1) = 1..(L - n)
        /\ \A k \in 1..(L - n) : From(n + 1)[k] = ds[n + k]
    <3>1. L - (n + 1) + 1 = L - n /\ \A k \in 1..(L - n) : n + 1 + k - 1 = n + k
      BY <1>1
    <3> HIDE DEF From, L
    <3> QED BY <1>2, <2>1, <3>1
  <2>3. L - n <= lg.maxCount /\ TotalSize(From(n + 1)) <= lg.maxSize
    <3>1. CASE n = L
      BY <1>1, <1>4, <3>1
    <3>2. CASE n # L
      <4>1. n + 1 \in 1..L /\ ~(n + 1 \in 1..n)
        <5> HIDE DEF L
        <5> QED BY <1>1, <3>2
      <4>2. ~(L - (n + 1) >= lg.maxCount)
            /\ ~(TotalSize(From(n + 1)) > lg.maxSize)
        BY <1>3, <4>1
      <4>3. TotalSize(From(n + 1)) \in Nat
        BY <1>5, <2>1
      <4> HIDE DEF From, L
      <4> QED BY <1>1, <4>2, <4>3
    <3> QED BY <3>1, <3>2
  <2>4. lg.byAge => \A k \in 1..(L - n) : ~ds[n + k].old
    <3>1. \A k \in 1..(L - n) : n + k \in 1..L /\ ~(n + k \in 1..n)
      BY <1>1
    <3> HIDE DEF From, L
    <3> QED BY <1>3, <3>1
  <2> HIDE DEF From, L
  <2> QED BY <2>2, <2>3, <2>4 DEF Meets
<1>7. ASSUME n > 0 PROVE ~Meets(From(n), lg)
  <2>1. n \in 1..L /\ n \in 1..n /\ n \in 1..(L + 1)
    BY <1>1, <1>7
  <2>2. \/ lg.byAge /\ ds[n].old
        \/ L - n >= lg.maxCount
        \/ TotalSize(From(n)) > lg.maxSize
    BY <1>3, <2>1
  <2>3. Len(From(n)) = L - n + 1 /\ 1 \in DOMAIN From(n) /\ From(n)[1] = ds[n]
    <3>1. 1 \in 1..(L - n + 1) /\ n + 1 - 1 = n
      BY <1>1
    <3> HIDE DEF From, L
    <3> QED BY <1>2, <2>1, <3>1
  <2>4. TotalSize(From(n)) \in Nat
    BY <1>5, <2>1
  <2> HIDE DEF From, L
  <2> QED BY <1>1, <2>2, <2>3, <2>4 DEF Meets
<1> QED BY <1>6, <1>7

DirsInv == dirs \in Seq(ResultDir) /\ OldFirst(dirs) /\ log \in Limits

(* The cleanup leaves the last directories. *)
LEMMA CleanupLeaves ==
    ASSUME DirsInv, Cleanup
    PROVE  \E n \in 0..Len(dirs) : /\ Removals(dirs, log) = 1..n
                                   /\ dirs' = SubSeq(dirs, n + 1, Len(dirs))
<1>1. PICK n \in 0..Len(dirs) : Removals(dirs, log) = 1..n
  BY RemovalsFirst DEF DirsInv
<1>2. Kept(dirs, 1..n) = SubSeq(dirs, n + 1, Len(dirs))
  BY KeptIs DEF DirsInv
<1> QED BY <1>1, <1>2 DEF Cleanup

\* What is left of them.
LEMMA RestOfDirs ==
    ASSUME DirsInv, NEW n \in 0..Len(dirs)
    PROVE  LET rest == SubSeq(dirs, n + 1, Len(dirs))
           IN /\ rest \in Seq(ResultDir) /\ OldFirst(rest)
              /\ Len(rest) = Len(dirs) - n
<1> DEFINE L == Len(dirs)
           rest == SubSeq(dirs, n + 1, L)
<1>1. /\ L \in Nat /\ DOMAIN dirs = 1..L /\ n \in Nat /\ n <= L
      /\ \A k \in 1..L : dirs[k] \in ResultDir
  BY SizesType DEF DirsInv
<1>2. n + 1 \in Int /\ L \in Int /\ \A k \in (n + 1)..L : dirs[k] \in ResultDir
  BY <1>1
<1>3. /\ rest \in Seq(ResultDir)
      /\ Len(rest) = IF n + 1 <= L THEN L - (n + 1) + 1 ELSE 0
      /\ \A k \in 1..(L - (n + 1) + 1) : rest[k] = dirs[n + 1 + k - 1]
  <2> HIDE DEF L
  <2> QED BY <1>2, SubSeqProperties
<1> HIDE DEF L, rest
<1>4. Len(rest) = L - n
  BY <1>1, <1>3, After
<1>5. DOMAIN rest = 1..(L - n)
  BY <1>3, <1>4, LenProperties
<1>6. ASSUME NEW k \in 1..(L - n) PROVE rest[k] = dirs[n + k] /\ n + k \in 1..L
  <2>1. k \in 1..(L - (n + 1) + 1) /\ n + 1 + k - 1 = n + k /\ n + k \in 1..L
    BY <1>1
  <2> QED BY <1>3, <2>1
<1>7. ASSUME NEW j \in DOMAIN rest, NEW i \in 1..j, rest[j].old
      PROVE  rest[i].old
  <2>1. j \in 1..(L - n) /\ i \in 1..(L - n) /\ n + i \in 1..(n + j)
    BY <1>1, <1>5
  <2> QED BY <1>1, <1>6, <1>7, <2>1 DEF DirsInv, OldFirst
<1> QED BY <1>3, <1>4, <1>7 DEF L, rest, OldFirst

LEMMA DirsStep ==
    ASSUME TypeOK, DirsInv, [Next]_vars
    PROVE  DirsInv'
<1> DEFINE L == Len(dirs)
<1>1. /\ L \in Nat /\ DOMAIN dirs = 1..L /\ dirs \in Seq(ResultDir)
      /\ \A k \in 1..L : dirs[k] \in ResultDir
  BY SizesType DEF DirsInv
<1>2. CASE Cleanup
  <2>1. log' = log
    BY <1>2 DEF Cleanup, Elsewhere
  <2> QED BY <1>2, <2>1, CleanupLeaves, RestOfDirs DEF DirsInv
<1>3. CASE NewSessionDir
  <2> DEFINE new == [id |-> runs, size |-> 0, old |-> FALSE]
  <2>1. dirs' = Append(dirs, new) /\ log' = log
    BY <1>3 DEF NewSessionDir, Elsewhere
  <2>2. new \in ResultDir /\ ~new.old
    BY DEF ResultDir, TypeOK
  <2> HIDE DEF new
  <2>3. /\ dirs' \in Seq(ResultDir) /\ Len(dirs') = L + 1
        /\ \A i \in 1..L : dirs'[i] = dirs[i]
        /\ dirs'[L + 1] = new
    BY <1>1, <2>1, <2>2, AppendProperties
  <2>4. DOMAIN dirs' = 1..(L + 1)
    BY <2>3, LenProperties
  <2>5. ASSUME NEW j \in DOMAIN dirs', NEW i \in 1..j, dirs'[j].old
        PROVE  dirs'[i].old
    <3>1. j \in 1..L /\ i \in 1..L
      <4>1. j # L + 1
        BY <2>2, <2>3, <2>5
      <4> HIDE DEF L
      <4> QED BY <1>1, <2>4, <4>1
    <3> QED BY <1>1, <2>3, <2>5, <3>1 DEF DirsInv, OldFirst
  <2> QED BY <2>1, <2>3, <2>5 DEF DirsInv, OldFirst
<1>4. CASE StartSession /\ ~Abort
  <2>1. dirs' = [dirs EXCEPT ![L].size = @ + 1] /\ log' = log
    BY <1>4 DEF StartSession, Elsewhere
  <2>2. ASSUME NEW k \in 1..L
        PROVE  dirs'[k] \in ResultDir /\ dirs'[k].old = dirs[k].old
    <3>1. CASE k = L
      <4>1. dirs'[k] = [dirs[k] EXCEPT !.size = @ + 1]
        BY <1>1, <2>1, <3>1
      <4>2. dirs[k] \in ResultDir
        BY <1>1
      <4>3. ASSUME NEW r \in ResultDir, NEW q, q = [r EXCEPT !.size = @ + 1]
            PROVE  q \in ResultDir /\ q.old = r.old
        BY <4>3 DEF ResultDir
      <4> QED BY <4>1, <4>2, <4>3
    <3>2. CASE k # L
      BY <1>1, <2>1, <3>2
    <3> QED BY <3>1, <3>2
  <2>3. DOMAIN dirs' = 1..L /\ dirs' = [k \in 1..L |-> dirs'[k]]
    BY <1>1, <2>1
  <2>4. dirs' \in Seq(ResultDir)
    <3>1. dirs' \in [1..L -> ResultDir]
      BY <2>2, <2>3
    <3> HIDE DEF L
    <3> QED BY <1>1, <3>1, SeqDef
  <2> QED BY <1>1, <2>1, <2>2, <2>3, <2>4 DEF DirsInv, OldFirst
<1>5. CASE DaysPass
  <2>1. dirs' = [i \in DOMAIN dirs |-> [dirs[i] EXCEPT !.old = TRUE]]
        /\ log' = log
    BY <1>5 DEF DaysPass
  <2>2. \A k \in 1..L : dirs'[k] \in ResultDir /\ dirs'[k].old
    BY <1>1, <2>1 DEF ResultDir
  <2>3. DOMAIN dirs' = 1..L /\ dirs' \in [1..L -> ResultDir]
    BY <1>1, <2>1, <2>2
  <2>4. dirs' \in Seq(ResultDir)
    <3> HIDE DEF L
    <3> QED BY <1>1, <2>3, SeqDef
  <2>5. ASSUME NEW j \in DOMAIN dirs', NEW i \in 1..j PROVE dirs'[i].old
    <3>1. i \in 1..L
      BY <1>1, <2>3
    <3> QED BY <2>2, <3>1
  <2> QED BY <2>1, <2>4, <2>5 DEF DirsInv, OldFirst
<1>6. CASE UNCHANGED <<dirs, log>>
  BY <1>6 DEF DirsInv, OldFirst
<1> QED BY <1>2, <1>3, <1>4, <1>5, <1>6 DEF Next, vars, Invoke, LookUp, Build,
     BuildEnds, Collect, CollectFails, RunTests, FinishSession, Merge, Killed,
     Elsewhere, Abort

LEMMA DirsInvariant == Spec => [](TypeOK /\ DirsInv)
<1>1. Init => DirsInv
  BY HistoryAssumption DEF Init, DirsInv, OldFirst, Limits, ResultDir
<1>2. TypeOK /\ DirsInv /\ [Next]_vars => DirsInv'
  BY DirsStep
<1> QED BY <1>1, <1>2, ShapeInvariant, PTL DEF Spec

(* The directories that the cleanup leaves are the latest ones, meet every     *)
(* limit, and none was removed that could have stayed (cleanup).             *)
THEOREM CleanupIsLeast == Spec => RetentionLeast
<1> DEFINE Met(ds) == /\ Len(ds) <= log.maxCount
                      /\ TotalSize(ds) <= log.maxSize
                      /\ log.byAge => \A i \in DOMAIN ds : ~ds[i].old
           n == Len(dirs) - Len(dirs')
           Least == phase = "cleanup" /\ phase' = "mkdir" =>
                      /\ n >= 0
                      /\ dirs' = SubSeq(dirs, n + 1, Len(dirs))
                      /\ Met(dirs')
                      /\ n > 0 => ~Met(SubSeq(dirs, n, Len(dirs)))
<1>1. ASSUME DirsInv, [Next]_vars PROVE [Least]_vars
  <2> SUFFICES ASSUME phase = "cleanup", phase' = "mkdir"
               PROVE  /\ n >= 0
                      /\ dirs' = SubSeq(dirs, n + 1, Len(dirs))
                      /\ Met(dirs')
                      /\ n > 0 => ~Met(SubSeq(dirs, n, Len(dirs)))
    OBVIOUS
  <2>1. Cleanup
    BY <1>1 DEF Next, vars, Invoke, LookUp, Build, BuildEnds, Collect,
       CollectFails, NewSessionDir, StartSession, RunTests, FinishSession, Merge,
       Killed, DaysPass, Abort, End
  <2>2. PICK m \in 0..Len(dirs) : /\ Removals(dirs, log) = 1..m
                                  /\ dirs' = SubSeq(dirs, m + 1, Len(dirs))
    BY <1>1, <2>1, CleanupLeaves
  <2>3. Len(dirs') = Len(dirs) - m /\ Len(dirs) \in Nat
    BY <1>1, <2>2, RestOfDirs, LenProperties DEF DirsInv
  <2>4. n = m
    BY <2>2, <2>3
  <2>5. /\ Meets(SubSeq(dirs, m + 1, Len(dirs)), log)
        /\ m > 0 => ~Meets(SubSeq(dirs, m, Len(dirs)), log)
    BY <1>1, <2>2, LimitsMet DEF DirsInv
  <2> HIDE DEF n
  <2>6. \A ds : Met(ds) <=> Meets(ds, log)
    BY DEF Meets
  <2> HIDE DEF Met
  <2> QED BY <2>2, <2>4, <2>5, <2>6
<1>2. Spec => [][Least]_vars
  BY <1>1, DirsInvariant, PTL DEF Spec
<1> QED BY <1>2, PTL DEF RetentionLeast
==============================================================================
