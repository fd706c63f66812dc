------------------------------ MODULE SumProofs -----------------------------
(***************************************************************************)
(* Proofs about the modules that add up amounts over sets of payments or   *)
(* holders: the reservations of a process that pays, the paid rehearsals   *)
(* of an authority, and the table of a token's holders.  The first part    *)
(* proves what the fold MapThenSumSet computes for every finite set, by    *)
(* minimal counterexamples.                                                *)
(***************************************************************************)
EXTENDS SpendReservation, PaidRehearsals, HolderSnapshot, FiniteSetTheorems, TLAPS

-----------------------------------------------------------------------------
(* Sums over finite sets.                                                  *)

\* The element the fold takes first, and one round of it over the subsets of D.
First(s) == CHOOSE x \in s : TRUE
Round(w, D, f) == [s \in SUBSET D |-> IF s = {} THEN 0 ELSE w[First(s)] + f[s \ {First(s)}]]
Fold(w, D) == CHOOSE f : f = Round(w, D, f)
Weight(w, D) == Fold(w, D)[D]

LEMMA SumIsWeight ==
  ASSUME NEW S, NEW w
  PROVE  MapThenSumSet(LAMBDA x : w[x], S) = Weight(w, S)
BY DEF MapThenSumSet, MapThenFoldSet, Weight, Fold, Round, First

\* A set of subsets of a finite set has a minimal member.
LEMMA MinimalSubset ==
  ASSUME NEW D, IsFiniteSet(D), NEW C, C \subseteq SUBSET D, C # {}
  PROVE  \E m \in C : \A s \in SUBSET m : s # m => s \notin C
<1>1. IsWellFoundedOn(StrictSubsetOrdering(D), SUBSET D)
  BY FS_StrictSubsetOrderingWellFounded, FS_FiniteSubsetsOfFinite
<1>2. PICK m \in C : \A s \in C : <<s, m>> \notin StrictSubsetOrdering(D)
  BY <1>1, WFMin
<1>3. ASSUME NEW s \in SUBSET m, s # m, s \in C PROVE FALSE
  <2>1. <<s, m>> \in (SUBSET D) \X (SUBSET D)
    BY <1>3
  <2>2. <<s, m>> \in StrictSubsetOrdering(D)
    BY <1>3, <2>1 DEF StrictSubsetOrdering
  <2> QED BY <1>2, <1>3, <2>2
<1> QED BY <1>3

LEMMA FirstIsIn ==
  ASSUME NEW s, s # {}
  PROVE  First(s) \in s /\ (s \ {First(s)}) \subseteq s /\ s \ {First(s)} # s
BY DEF First

\* Folds over two domains agree on what both have.
LEMMA FoldsAgree ==
  ASSUME NEW w, NEW D, NEW E, NEW f, NEW g, f = Round(w, D, f), g = Round(w, E, g),
         NEW u, u \subseteq D, u \subseteq E, IsFiniteSet(u)
  PROVE  f[u] = g[u]
<1> DEFINE C == {s \in SUBSET u : f[s] # g[s]}
<1>1. SUFFICES ASSUME C # {} PROVE FALSE
  OBVIOUS
<1>2. PICK m \in C : \A s \in SUBSET m : s # m => s \notin C
  <2>1. C \subseteq SUBSET u /\ IsFiniteSet(u)
    OBVIOUS
  <2> HIDE DEF C
  <2> QED BY <1>1, <2>1, MinimalSubset
<1>3. m \in SUBSET D /\ m \in SUBSET E /\ m \in SUBSET u /\ f[m] # g[m]
  BY <1>2
<1>4. /\ f[m] = IF m = {} THEN 0 ELSE w[First(m)] + f[m \ {First(m)}]
      /\ g[m] = IF m = {} THEN 0 ELSE w[First(m)] + g[m \ {First(m)}]
  BY <1>3 DEF Round
<1>5. m # {}
  BY <1>3, <1>4
<1>6. f[m \ {First(m)}] = g[m \ {First(m)}]
  <2>1. m \ {First(m)} \in SUBSET m /\ m \ {First(m)} # m
    BY <1>5, FirstIsIn
  <2> QED BY <1>2, <1>3, <2>1
<1> QED BY <1>3, <1>4, <1>5, <1>6

LEMMA FoldExists ==
  ASSUME NEW w, NEW D, IsFiniteSet(D)
  PROVE  Fold(w, D) = Round(w, D, Fold(w, D))
<1> DEFINE C == {s \in SUBSET D : Fold(w, s) # Round(w, s, Fold(w, s))}
<1>1. SUFFICES ASSUME C # {} PROVE FALSE
  OBVIOUS
<1>2. PICK m \in C : \A s \in SUBSET m : s # m => s \notin C
  <2>1. C \subseteq SUBSET D /\ IsFiniteSet(D)
    OBVIOUS
  <2> HIDE DEF C
  <2> QED BY <1>1, <2>1, MinimalSubset
<1>3. m \in SUBSET D /\ Fold(w, m) # Round(w, m, Fold(w, m))
  BY <1>2
<1>4. ASSUME NEW s \in SUBSET m, s # m
      PROVE  Fold(w, s) = Round(w, s, Fold(w, s)) /\ IsFiniteSet(s)
  BY <1>2, <1>3, <1>4, FS_Subset
<1> DEFINE G == [s \in SUBSET m |-> IF s = {} THEN 0
                                   ELSE w[First(s)] + Weight(w, s \ {First(s)})]
<1>5. ASSUME NEW s \in SUBSET m, s # {} PROVE Weight(w, s \ {First(s)}) = G[s \ {First(s)}]
  <2> DEFINE r == s \ {First(s)}
  <2>1. r \in SUBSET m /\ r # m
    BY <1>5, FirstIsIn
  <2>2. Fold(w, r) = Round(w, r, Fold(w, r)) /\ IsFiniteSet(r)
    BY <1>4, <2>1
  <2>3. Fold(w, r)[r] = IF r = {} THEN 0 ELSE w[First(r)] + Fold(w, r)[r \ {First(r)}]
    <3> HIDE DEF r
    <3> QED BY <2>2 DEF Round
  <2>4. CASE r = {}
    BY <2>1, <2>3, <2>4 DEF Weight
  <2>5. CASE r # {}
    <3> DEFINE q == r \ {First(r)}
    <3>1. q \in SUBSET r /\ q \in SUBSET m /\ q # m
      BY <2>1, <2>5, FirstIsIn
    <3>2. Fold(w, q) = Round(w, q, Fold(w, q)) /\ IsFiniteSet(q)
      BY <1>4, <3>1
    <3>3. Fold(w, r)[q] = Fold(w, q)[q]
      <4> HIDE DEF q, r
      <4> QED BY <2>2, <3>1, <3>2, FoldsAgree
    <3>4. G[r] = w[First(r)] + Weight(w, q)
      BY <2>1, <2>5
    <3> QED BY <2>3, <2>5, <3>3, <3>4 DEF Weight
  <2> QED BY <2>4, <2>5
<1>6. G = Round(w, m, G)
  <2>1. Round(w, m, G) = [s \in SUBSET m |-> IF s = {} THEN 0 ELSE w[First(s)] + G[s \ {First(s)}]]
    BY DEF Round
  <2>2. ASSUME NEW s \in SUBSET m
        PROVE  (IF s = {} THEN 0 ELSE w[First(s)] + Weight(w, s \ {First(s)}))
               = (IF s = {} THEN 0 ELSE w[First(s)] + G[s \ {First(s)}])
    <3> HIDE DEF G
    <3> QED BY <1>5
  <2> QED BY <2>1, <2>2
<1> HIDE DEF G
<1>7. Fold(w, m) = Round(w, m, Fold(w, m))
  BY <1>6 DEF Fold
<1> QED BY <1>3, <1>7

LEMMA WeightUnfolds ==
  ASSUME NEW w, NEW S, IsFiniteSet(S)
  PROVE  /\ S = {} => Weight(w, S) = 0
         /\ S # {} => Weight(w, S) = w[First(S)] + Weight(w, S \ {First(S)})
<1>1. Fold(w, S) = Round(w, S, Fold(w, S))
  BY FoldExists
<1>2. Fold(w, S)[S] = IF S = {} THEN 0 ELSE w[First(S)] + Fold(w, S)[S \ {First(S)}]
  BY <1>1 DEF Round
<1>3. ASSUME S # {} PROVE Fold(w, S)[S \ {First(S)}] = Weight(w, S \ {First(S)})
  <2> DEFINE r == S \ {First(S)}
  <2>1. r \subseteq S /\ r \subseteq r /\ IsFiniteSet(r)
    BY FS_Subset
  <2>2. Fold(w, r) = Round(w, r, Fold(w, r))
    BY <2>1, FoldExists
  <2> HIDE DEF r
  <2>3. Fold(w, S)[r] = Fold(w, r)[r]
    BY <1>1, <2>1, <2>2, FoldsAgree
  <2> QED BY <2>3 DEF Weight, r
<1> QED BY <1>2, <1>3 DEF Weight

\* What is proved of a set from its part without First is proved of every set.
LEMMA WeightIsNat ==
  ASSUME NEW w, NEW S, IsFiniteSet(S), \A x \in S : w[x] \in Nat
  PROVE  Weight(w, S) \in Nat
<1> DEFINE C == {s \in SUBSET S : Weight(w, s) \notin Nat}
<1>1. SUFFICES ASSUME C # {} PROVE FALSE
  OBVIOUS
<1>2. PICK m \in C : \A s \in SUBSET m : s # m => s \notin C
  <2>1. C \subseteq SUBSET S /\ IsFiniteSet(S)
    OBVIOUS
  <2> HIDE DEF C
  <2> QED BY <1>1, <2>1, MinimalSubset
<1>3. m \in SUBSET S /\ Weight(w, m) \notin Nat /\ IsFiniteSet(m)
  BY <1>2, FS_Subset
<1>4. m # {}
  <2>1. m = {} => Weight(w, m) = 0
    BY <1>3, WeightUnfolds
  <2> QED BY <1>3, <2>1
<1>5. First(m) \in m /\ m \ {First(m)} \in SUBSET m /\ m \ {First(m)} # m
  BY <1>4, FirstIsIn
<1>6. Weight(w, m \ {First(m)}) \in Nat
  BY <1>2, <1>3, <1>5
<1>7. Weight(w, m) = w[First(m)] + Weight(w, m \ {First(m)})
  BY <1>3, <1>4, WeightUnfolds
<1>8. w[First(m)] \in Nat
  BY <1>3, <1>5
<1> QED BY <1>3, <1>6, <1>7, <1>8

\* Any element may be taken out first.
LEMMA WeightWithout ==
  ASSUME NEW w, NEW S, IsFiniteSet(S), \A x \in S : w[x] \in Nat, NEW y \in S
  PROVE  Weight(w, S) = w[y] + Weight(w, S \ {y})
<1> DEFINE C == {s \in SUBSET S : \E x \in s : Weight(w, s) # w[x] + Weight(w, s \ {x})}
<1>1. SUFFICES ASSUME C # {} PROVE FALSE
  OBVIOUS
<1>2. PICK m \in C : \A s \in SUBSET m : s # m => s \notin C
  <2>1. C \subseteq SUBSET S /\ IsFiniteSet(S)
    OBVIOUS
  <2> HIDE DEF C
  <2> QED BY <1>1, <2>1, MinimalSubset
<1>3. PICK x \in m : Weight(w, m) # w[x] + Weight(w, m \ {x})
  BY <1>2
<1>4. m \in SUBSET S /\ IsFiniteSet(m) /\ m # {}
  BY <1>2, <1>3, FS_Subset
<1> DEFINE c == First(m)
<1>5. c \in m /\ c # x /\ Weight(w, m) = w[c] + Weight(w, m \ {c})
  BY <1>3, <1>4, WeightUnfolds, FirstIsIn
<1> HIDE DEF c
<1>6. Weight(w, m \ {c}) = w[x] + Weight(w, (m \ {c}) \ {x})
  <2>1. m \ {c} \in SUBSET m /\ m \ {c} # m /\ x \in m \ {c}
    BY <1>3, <1>5
  <2>2. m \ {c} \notin C /\ m \ {c} \in SUBSET S
    BY <1>2, <1>4, <2>1
  <2> QED BY <2>1, <2>2
<1>7. Weight(w, m \ {x}) = w[c] + Weight(w, (m \ {x}) \ {c})
  <2>1. m \ {x} \in SUBSET m /\ m \ {x} # m /\ c \in m \ {x}
    BY <1>3, <1>5
  <2>2. m \ {x} \notin C /\ m \ {x} \in SUBSET S
    BY <1>2, <1>4, <2>1
  <2> QED BY <2>1, <2>2
<1>8. (m \ {c}) \ {x} = (m \ {x}) \ {c}
  OBVIOUS
<1>9. w[x] \in Nat /\ w[c] \in Nat /\ Weight(w, (m \ {x}) \ {c}) \in Nat
  <2>1. IsFiniteSet((m \ {x}) \ {c}) /\ \A z \in (m \ {x}) \ {c} : w[z] \in Nat
    BY <1>4, FS_Subset
  <2> QED BY <1>3, <1>4, <1>5, <2>1, WeightIsNat
<1>10. \A i, j, k \in Nat : i + (j + k) = j + (i + k)
  OBVIOUS
<1>11. w[c] + (w[x] + Weight(w, (m \ {x}) \ {c})) = w[x] + (w[c] + Weight(w, (m \ {x}) \ {c}))
  BY <1>9, <1>10
<1>12. Weight(w, m) = w[c] + (w[x] + Weight(w, (m \ {x}) \ {c}))
  BY <1>5, <1>6, <1>8, Zenon
<1>13. w[x] + Weight(w, m \ {x}) = w[x] + (w[c] + Weight(w, (m \ {x}) \ {c}))
  BY <1>7, Zenon
<1> QED BY <1>3, <1>11, <1>12, <1>13, Zenon

LEMMA WeightWith ==
  ASSUME NEW w, NEW S, IsFiniteSet(S), NEW y, y \notin S, \A x \in S \cup {y} : w[x] \in Nat
  PROVE  Weight(w, S \cup {y}) = w[y] + Weight(w, S)
<1>1. IsFiniteSet(S \cup {y}) /\ y \in S \cup {y} /\ (S \cup {y}) \ {y} = S
  BY FS_AddElement
<1>2. Weight(w, S \cup {y}) = w[y] + Weight(w, (S \cup {y}) \ {y})
  BY <1>1, WeightWithout
<1> QED BY <1>1, <1>2

\* The weight depends on the weights of the members only.
LEMMA WeightSame ==
  ASSUME NEW w, NEW v, NEW S, IsFiniteSet(S), \A x \in S : w[x] = v[x]
  PROVE  Weight(w, S) = Weight(v, S)
<1> DEFINE C == {s \in SUBSET S : Weight(w, s) # Weight(v, s)}
<1>1. SUFFICES ASSUME C # {} PROVE FALSE
  OBVIOUS
<1>2. PICK m \in C : \A s \in SUBSET m : s # m => s \notin C
  <2>1. C \subseteq SUBSET S /\ IsFiniteSet(S)
    OBVIOUS
  <2> HIDE DEF C
  <2> QED BY <1>1, <2>1, MinimalSubset
<1>3. m \in SUBSET S /\ Weight(w, m) # Weight(v, m) /\ IsFiniteSet(m)
  BY <1>2, FS_Subset
<1>4. /\ m = {} => Weight(w, m) = 0
      /\ m # {} => Weight(w, m) = w[First(m)] + Weight(w, m \ {First(m)})
      /\ m = {} => Weight(v, m) = 0
      /\ m # {} => Weight(v, m) = v[First(m)] + Weight(v, m \ {First(m)})
  BY <1>3, WeightUnfolds
<1>5. m # {}
  BY <1>3, <1>4
<1>6. First(m) \in m /\ m \ {First(m)} \in SUBSET m /\ m \ {First(m)} # m
  BY <1>5, FirstIsIn
<1>7. Weight(w, m \ {First(m)}) = Weight(v, m \ {First(m)})
  BY <1>2, <1>3, <1>6
<1>8. w[First(m)] = v[First(m)]
  BY <1>3, <1>6
<1> QED BY <1>3, <1>4, <1>5, <1>7, <1>8

\* A fold written with any body that is Round of w on the subsets of S.
LEMMA FoldIsWeight ==
  ASSUME NEW w, NEW S, IsFiniteSet(S), NEW f, f = Round(w, S, f)
  PROVE  f[S] = Weight(w, S)
<1>1. Fold(w, S) = Round(w, S, Fold(w, S))
  BY FoldExists
<1>2. S \subseteq S
  OBVIOUS
<1>3. f[S] = Fold(w, S)[S]
  BY <1>1, <1>2, FoldsAgree
<1> QED BY <1>3 DEF Weight

\* The weight of two sets that share nothing.
LEMMA WeightUnion ==
  ASSUME NEW w, NEW S, NEW T, IsFiniteSet(S), IsFiniteSet(T), S \cap T = {},
         \A x \in S \cup T : w[x] \in Nat
  PROVE  Weight(w, S \cup T) = Weight(w, S) + Weight(w, T)
<1> DEFINE C == {u \in SUBSET T : Weight(w, S \cup u) # Weight(w, S) + Weight(w, u)}
<1>1. SUFFICES ASSUME C # {} PROVE FALSE
  OBVIOUS
<1>2. PICK m \in C : \A s \in SUBSET m : s # m => s \notin C
  <2>1. C \subseteq SUBSET T /\ IsFiniteSet(T)
    OBVIOUS
  <2> HIDE DEF C
  <2> QED BY <1>1, <2>1, MinimalSubset
<1>3. m \in SUBSET T /\ IsFiniteSet(m) /\ Weight(w, S \cup m) # Weight(w, S) + Weight(w, m)
  BY <1>2, FS_Subset
<1>4. Weight(w, S) \in Nat /\ Weight(w, m) \in Nat
  BY <1>3, WeightIsNat
<1>5. m # {}
  <2>1. SUFFICES ASSUME m = {} PROVE FALSE
    OBVIOUS
  <2>2. Weight(w, m) = 0 /\ S \cup m = S
    BY <1>3, <2>1, WeightUnfolds
  <2> QED BY <1>3, <1>4, <2>2
<1>6. PICK y \in m : TRUE
  BY <1>5
<1>7. Weight(w, S \cup (m \ {y})) = Weight(w, S) + Weight(w, m \ {y})
  <2>1. m \ {y} \in SUBSET m /\ m \ {y} # m /\ m \ {y} \in SUBSET T
    BY <1>3, <1>6
  <2> QED BY <1>2, <2>1
<1>8. Weight(w, m) = w[y] + Weight(w, m \ {y})
  BY <1>3, <1>6, WeightWithout
<1>9. Weight(w, S \cup m) = w[y] + Weight(w, S \cup (m \ {y}))
  <2>1. IsFiniteSet(S \cup m) /\ y \in S \cup m /\ (S \cup m) \ {y} = S \cup (m \ {y})
    BY <1>3, <1>6, FS_Union
  <2>2. \A x \in S \cup m : w[x] \in Nat
    BY <1>3
  <2>3. Weight(w, S \cup m) = w[y] + Weight(w, (S \cup m) \ {y})
    BY <2>1, <2>2, WeightWithout
  <2> QED BY <2>1, <2>3
<1>10. w[y] \in Nat /\ Weight(w, m \ {y}) \in Nat
  <2>1. IsFiniteSet(m \ {y}) /\ \A x \in m \ {y} : w[x] \in Nat
    BY <1>3, FS_Subset
  <2> QED BY <1>3, <1>6, <2>1, WeightIsNat
<1>11. \A a, b, c \in Nat : a + (b + c) = b + (a + c)
  OBVIOUS
<1>12. w[y] + (Weight(w, S) + Weight(w, m \ {y})) = Weight(w, S) + (w[y] + Weight(w, m \ {y}))
  BY <1>4, <1>10, <1>11
<1> QED BY <1>3, <1>7, <1>8, <1>9, <1>12, Zenon

\* A part weighs no more, and less when what is left out weighs something.
LEMMA WeightOfPart ==
  ASSUME NEW w, NEW T, IsFiniteSet(T), NEW S, S \subseteq T, S # T, \A x \in T : w[x] \in Nat \ {0}
  PROVE  Weight(w, S) < Weight(w, T)
<1>1. IsFiniteSet(S) /\ IsFiniteSet(T \ S)
  BY FS_Subset
<1>2. Weight(w, T) = Weight(w, S) + Weight(w, T \ S)
  <2>1. S \cup (T \ S) = T /\ S \cap (T \ S) = {} /\ \A x \in S \cup (T \ S) : w[x] \in Nat
    OBVIOUS
  <2>2. Weight(w, S \cup (T \ S)) = Weight(w, S) + Weight(w, T \ S)
    BY <1>1, <2>1, WeightUnion
  <2> QED BY <2>1, <2>2
<1>3. PICK y \in T \ S : TRUE
  OBVIOUS
<1>4. Weight(w, T \ S) = w[y] + Weight(w, (T \ S) \ {y})
  <2>1. \A x \in T \ S : w[x] \in Nat
    OBVIOUS
  <2> QED BY <1>1, <1>3, <2>1, WeightWithout
<1>5. Weight(w, S) \in Nat /\ Weight(w, (T \ S) \ {y}) \in Nat /\ w[y] \in Nat \ {0}
  <2>1. IsFiniteSet((T \ S) \ {y}) /\ \A x \in S \cup ((T \ S) \ {y}) : w[x] \in Nat
    BY <1>1, FS_Subset
  <2> QED BY <1>1, <1>3, <2>1, WeightIsNat
<1>6. \A a, c \in Nat : \A b \in Nat \ {0} : a < a + (b + c)
  OBVIOUS
<1>7. Weight(w, S) < Weight(w, S) + (w[y] + Weight(w, (T \ S) \ {y}))
  BY <1>5, <1>6
<1> QED BY <1>2, <1>4, <1>7, Zenon

\* Members that all weigh the same.
LEMMA WeightOfEqual ==
  ASSUME NEW w, NEW S, IsFiniteSet(S), NEW k \in Nat, \A x \in S : w[x] = k
  PROVE  Weight(w, S) = Cardinality(S) * k
<1> DEFINE C == {u \in SUBSET S : Weight(w, u) # Cardinality(u) * k}
<1>1. SUFFICES ASSUME C # {} PROVE FALSE
  OBVIOUS
<1>2. PICK m \in C : \A s \in SUBSET m : s # m => s \notin C
  <2>1. C \subseteq SUBSET S /\ IsFiniteSet(S)
    OBVIOUS
  <2> HIDE DEF C
  <2> QED BY <1>1, <2>1, MinimalSubset
<1>3. m \in SUBSET S /\ IsFiniteSet(m) /\ Weight(w, m) # Cardinality(m) * k
  BY <1>2, FS_Subset
<1>4. m # {}
  <2>1. SUFFICES ASSUME m = {} PROVE FALSE
    OBVIOUS
  <2>2. Weight(w, m) = 0
    BY <1>3, <2>1, WeightUnfolds
  <2>3. Cardinality(m) = 0
    BY <2>1, FS_EmptySet
  <2>4. 0 * k = 0
    OBVIOUS
  <2> QED BY <1>3, <2>2, <2>3, <2>4
<1>5. PICK y \in m : TRUE
  BY <1>4
<1>6. Weight(w, m \ {y}) = Cardinality(m \ {y}) * k
  <2>1. m \ {y} \in SUBSET m /\ m \ {y} # m /\ m \ {y} \in SUBSET S
    BY <1>3, <1>5
  <2> QED BY <1>2, <2>1
<1>7. Weight(w, m) = k + Weight(w, m \ {y})
  <2>1. \A x \in m : w[x] \in Nat
    BY <1>3
  <2>2. Weight(w, m) = w[y] + Weight(w, m \ {y})
    BY <1>3, <1>5, <2>1, WeightWithout
  <2> QED BY <1>3, <1>5, <2>2
<1>8. Cardinality(m) = Cardinality(m \ {y}) + 1 /\ Cardinality(m \ {y}) \in Nat
  <2>1. IsFiniteSet(m \ {y}) /\ Cardinality(m \ {y}) = Cardinality(m) - 1 /\ Cardinality(m) \in Nat
    BY <1>3, <1>5, FS_RemoveElement, FS_CardinalityType
  <2>2. Cardinality(m \ {y}) \in Nat
    BY <2>1, FS_CardinalityType
  <2> QED BY <2>1, <2>2
<1>9. \A c \in Nat : (c + 1) * k = k + c * k
  OBVIOUS
<1> QED BY <1>3, <1>6, <1>7, <1>8, <1>9

\* Members that weigh the sum of two weights.
LEMMA WeightAdds ==
  ASSUME NEW w, NEW v, NEW u, NEW S, IsFiniteSet(S),
         \A x \in S : v[x] \in Nat /\ u[x] \in Nat /\ w[x] = v[x] + u[x]
  PROVE  Weight(w, S) = Weight(v, S) + Weight(u, S)
<1> DEFINE C == {s \in SUBSET S : Weight(w, s) # Weight(v, s) + Weight(u, s)}
<1>1. SUFFICES ASSUME C # {} PROVE FALSE
  OBVIOUS
<1>2. PICK m \in C : \A s \in SUBSET m : s # m => s \notin C
  <2>1. C \subseteq SUBSET S /\ IsFiniteSet(S)
    OBVIOUS
  <2> HIDE DEF C
  <2> QED BY <1>1, <2>1, MinimalSubset
<1>3. m \in SUBSET S /\ IsFiniteSet(m) /\ Weight(w, m) # Weight(v, m) + Weight(u, m)
  BY <1>2, FS_Subset
<1>4. m # {}
  <2>1. Weight(w, {}) = 0 /\ Weight(v, {}) = 0 /\ Weight(u, {}) = 0
    BY FS_EmptySet, WeightUnfolds
  <2> QED BY <1>3, <2>1
<1>5. PICK y \in m : TRUE
  BY <1>4
<1>6. Weight(w, m \ {y}) = Weight(v, m \ {y}) + Weight(u, m \ {y})
  <2>1. m \ {y} \in SUBSET m /\ m \ {y} # m /\ m \ {y} \in SUBSET S
    BY <1>3, <1>5
  <2> QED BY <1>2, <2>1
<1>7. /\ Weight(w, m) = w[y] + Weight(w, m \ {y})
      /\ Weight(v, m) = v[y] + Weight(v, m \ {y})
      /\ Weight(u, m) = u[y] + Weight(u, m \ {y})
  <2>1. \A x \in m : w[x] \in Nat /\ v[x] \in Nat /\ u[x] \in Nat
    BY <1>3
  <2> QED BY <1>3, <1>5, <2>1, WeightWithout
<1>8. Weight(v, m \ {y}) \in Nat /\ Weight(u, m \ {y}) \in Nat
  <2>1. IsFiniteSet(m \ {y}) /\ \A x \in m \ {y} : v[x] \in Nat /\ u[x] \in Nat
    BY <1>3, FS_Subset
  <2> QED BY <2>1, WeightIsNat
<1>9. w[y] = v[y] + u[y] /\ v[y] \in Nat /\ u[y] \in Nat
  BY <1>3, <1>5
<1>10. \A a, b, c, d \in Nat : (a + b) + (c + d) = (a + c) + (b + d)
  OBVIOUS
<1> QED BY <1>3, <1>6, <1>7, <1>8, <1>9, <1>10

Mapped(f, S) == {f[x] : x \in S}

\* A set weighs what a set weighs that is mapped to it one to one.
LEMMA WeightOfImage ==
  ASSUME NEW w, NEW v, NEW f, NEW S, IsFiniteSet(S),
         \A x, y \in S : f[x] = f[y] => x = y,
         \A x \in S : v[x] = w[f[x]] /\ v[x] \in Nat
  PROVE  IsFiniteSet(Mapped(f, S)) /\ Weight(w, Mapped(f, S)) = Weight(v, S)
<1> DEFINE Image(s) == {f[x] : x \in s}
           C == {s \in SUBSET S : Weight(w, Image(s)) # Weight(v, s)}
<1>1. ASSUME NEW s \in SUBSET S PROVE IsFiniteSet(Image(s))
  <2>1. [x \in s |-> f[x]] \in Surjection(s, Image(s))
    BY DEF Surjection
  <2>2. IsFiniteSet(s)
    BY FS_Subset
  <2> HIDE DEF Image
  <2> QED BY <2>1, <2>2, FS_Surjection
<1>2. SUFFICES ASSUME C # {} PROVE FALSE
  BY <1>1 DEF Mapped
<1>3. PICK m \in C : \A s \in SUBSET m : s # m => s \notin C
  <2>1. C \subseteq SUBSET S /\ IsFiniteSet(S)
    OBVIOUS
  <2> HIDE DEF C
  <2> QED BY <1>2, <2>1, MinimalSubset
<1>4. m \in SUBSET S /\ IsFiniteSet(m) /\ Weight(w, Image(m)) # Weight(v, m)
  BY <1>3, FS_Subset
<1>5. m # {}
  <2>1. Weight(w, {}) = 0 /\ Weight(v, {}) = 0
    BY FS_EmptySet, WeightUnfolds
  <2>2. Image({}) = {}
    OBVIOUS
  <2> QED BY <1>4, <2>1, <2>2
<1>6. PICK y \in m : TRUE
  BY <1>5
<1>7. PICK r : r = m \ {y}
  OBVIOUS
<1>8. r \in SUBSET m /\ r # m /\ r \in SUBSET S /\ IsFiniteSet(r) /\ y \in S /\ m = r \cup {y} /\ y \notin r
  BY <1>4, <1>6, <1>7, FS_Subset
<1>9. Weight(w, Image(r)) = Weight(v, r)
  BY <1>3, <1>8
<1>10. Image(m) = Image(r) \cup {f[y]}
  BY <1>8
<1>11. f[y] \notin Image(r)
  BY <1>8
<1>12. Weight(w, Image(r) \cup {f[y]}) = w[f[y]] + Weight(w, Image(r))
  <2>1. \A z \in Image(r) \cup {f[y]} : w[z] \in Nat
    BY <1>8
  <2>2. IsFiniteSet(Image(r))
    BY <1>1, <1>8
  <2> HIDE DEF Image
  <2> QED BY <1>11, <2>1, <2>2, WeightWith
<1>13. Weight(v, m) = v[y] + Weight(v, r)
  <2>1. \A x \in m : v[x] \in Nat
    BY <1>4
  <2> QED BY <1>4, <1>6, <1>7, <2>1, WeightWithout
<1>14. v[y] = w[f[y]]
  BY <1>8
<1> HIDE DEF Image
<1> QED BY <1>4, <1>9, <1>10, <1>12, <1>13, <1>14, Zenon

\* The members of L with a value of f, and with one of a set of values.
With(L, f, x) == {b \in L : f[b] = x}
Within(L, f, S) == {b \in L : f[b] \in S}

\* What is counted by the value it has is counted once.
LEMMA WeightOfParts ==
  ASSUME NEW L, IsFiniteSet(L), NEW f, NEW S, IsFiniteSet(S), NEW v,
         \A x \in S : v[x] = Cardinality(With(L, f, x))
  PROVE  Weight(v, S) = Cardinality(Within(L, f, S))
<1> USE DEF With, Within
<1> DEFINE Part(s) == {b \in L : f[b] \in s}
           C == {s \in SUBSET S : Weight(v, s) # Cardinality(Part(s))}
<1>1. ASSUME NEW s PROVE IsFiniteSet(Part(s)) /\ Cardinality(Part(s)) \in Nat
  <2>1. Part(s) \subseteq L
    OBVIOUS
  <2> HIDE DEF Part
  <2> QED BY <2>1, FS_Subset, FS_CardinalityType
<1>2. SUFFICES ASSUME C # {} PROVE FALSE
  OBVIOUS
<1>3. PICK m \in C : \A s \in SUBSET m : s # m => s \notin C
  <2>1. C \subseteq SUBSET S /\ IsFiniteSet(S)
    OBVIOUS
  <2> HIDE DEF C
  <2> QED BY <1>2, <2>1, MinimalSubset
<1>4. m \in SUBSET S /\ IsFiniteSet(m) /\ Weight(v, m) # Cardinality(Part(m))
  BY <1>3, FS_Subset
<1>5. m # {}
  <2>1. Weight(v, {}) = 0
    BY FS_EmptySet, WeightUnfolds
  <2>2. Part({}) = {}
    OBVIOUS
  <2> QED BY <1>4, <2>1, <2>2, FS_EmptySet
<1>6. PICK y \in m : TRUE
  BY <1>5
<1>7. PICK r : r = m \ {y}
  OBVIOUS
<1>8. r \in SUBSET m /\ r # m /\ r \in SUBSET S /\ IsFiniteSet(r) /\ m = r \cup {y} /\ y \notin r
  BY <1>4, <1>6, <1>7, FS_Subset
<1>9. Weight(v, r) = Cardinality(Part(r))
  BY <1>3, <1>8
<1>10. PICK one : one = {b \in L : f[b] = y}
  OBVIOUS
<1>11. v[y] = Cardinality(one) /\ one = Part({y})
  BY <1>4, <1>10
<1>12. Part(m) = Part(r) \cup one /\ Part(r) \cap one = {}
  BY <1>8, <1>10
<1>13. Cardinality(Part(m)) = Cardinality(Part(r)) + Cardinality(one)
  <2>1. IsFiniteSet(one) /\ Cardinality(one) \in Nat /\ IsFiniteSet(Part(r)) /\ Cardinality(Part(r)) \in Nat
    BY <1>1, <1>11
  <2> HIDE DEF Part
  <2>2. Cardinality(Part(r) \cup one) = Cardinality(Part(r)) + Cardinality(one) - Cardinality(Part(r) \cap one)
    BY <2>1, FS_Union
  <2>3. Cardinality(Part(r) \cap one) = 0
    BY <1>12, FS_EmptySet
  <2> QED BY <1>12, <2>1, <2>2, <2>3
<1>14. Weight(v, m) = v[y] + Weight(v, r)
  <2>1. \A x \in m : v[x] \in Nat
    <3>1. ASSUME NEW x \in m PROVE Cardinality({b \in L : f[b] = x}) \in Nat
      <4>1. Part({x}) = {b \in L : f[b] = x}
        OBVIOUS
      <4> QED BY <1>1, <4>1
    <3> QED BY <1>4, <3>1
  <2> QED BY <1>4, <1>6, <1>7, <2>1, WeightWithout
<1>15. Cardinality(Part(r)) \in Nat /\ Cardinality(one) \in Nat
  BY <1>1, <1>11
<1> HIDE DEF Part
<1> QED BY <1>4, <1>9, <1>11, <1>13, <1>14, <1>15

-----------------------------------------------------------------------------
(* SpendReservation: what a process has in flight.                         *)

LEMMA TotalIsWeight ==
  ASSUME NEW S, IsFiniteSet(S)
  PROVE  Total(S) = Weight([t \in S |-> AmountOf[t.order]], S)
<1> DEFINE w == [t \in S |-> AmountOf[t.order]]
           Body(f) == [s \in SUBSET S |-> IF s = {} THEN 0
                                          ELSE AmountOf[First(s).order] + f[s \ {First(s)}]]
           F == CHOOSE f : f = Body(f)
<1>1. Total(S) = F[S]
  BY DEF Total, MapThenSumSet, MapThenFoldSet, First
<1>2. ASSUME NEW f PROVE Body(f) = Round(w, S, f)
  <2>1. ASSUME NEW s \in SUBSET S, s # {} PROVE w[First(s)] = AmountOf[First(s).order]
    BY <2>1, FirstIsIn
  <2>2. Round(w, S, f) = [s \in SUBSET S |-> IF s = {} THEN 0 ELSE w[First(s)] + f[s \ {First(s)}]]
    BY DEF Round
  <2> HIDE DEF w
  <2> QED BY <2>1, <2>2
<1>3. Fold(w, S) = Body(Fold(w, S))
  <2> HIDE DEF w, Body
  <2> QED BY <1>2, FoldExists
<1>4. F = Body(F)
  <2> HIDE DEF Body
  <2> QED BY <1>3
<1>5. F = Round(w, S, F)
  <2> HIDE DEF w, Body, F
  <2> QED BY <1>2, <1>4
<1>6. F[S] = Weight(w, S)
  <2> HIDE DEF w, F
  <2> QED BY <1>5, FoldIsWeight
<1> QED BY <1>1, <1>6

SpendTypeOK ==
  /\ granted \in BOOLEAN
  /\ transfers \subseteq [order : Orders, block : Nat, day : Nat] /\ IsFiniteSet(transfers)
  /\ head \in Nat /\ day \in 0..MaxDay /\ receipts \subseteq SUBSET Orders /\ deaths \in Nat
  /\ reserved \in [Buyers -> Nat] /\ order \in [Orders -> OrderState]

\* An order belongs to a process from its approval to its end, to none before.
Owned ==
  \A o \in Orders :
    /\ order[o].at = "idle" => order[o].buyer = NoBuyer /\ order[o].payment = "none"
    /\ order[o].at \in {"reading", "read", "reserved", "sent"} => order[o].buyer \in Buyers

\* However many orders there may ever be, finitely many have begun.
Begun == {o \in Orders : order[o].at # "idle"}

Books ==
  \A p \in Buyers : reserved[p] = Weight(AmountOf, Holding(p)) /\ reserved[p] <= SpendLimit

SpendInv == SpendTypeOK /\ Owned /\ IsFiniteSet(Begun) /\ Books

LEMMA SpentTransfers ==
  ASSUME SpendInv, NEW t \in transfers
  PROVE  t.order \in Orders
<1>1. transfers \subseteq [order : Orders, block : Nat, day : Nat]
  BY DEF SpendInv, SpendTypeOK
<1> QED BY <1>1

LEMMA SpentIsNat ==
  ASSUME SpendInv, NEW now \in Nat
  PROVE  Spent(now) \in Nat
<1>1. ASSUME NEW S, S \subseteq transfers PROVE Total(S) \in Nat
  <2>1. IsFiniteSet(S)
    BY <1>1, FS_Subset DEF SpendInv, SpendTypeOK
  <2> DEFINE w == [t \in S |-> AmountOf[t.order]]
  <2>2. \A t \in S : w[t] \in Nat
    <3>1. \A t \in S : t.order \in Orders
      BY <1>1, SpentTransfers
    <3> QED BY <3>1, SpendAssumption
  <2>3. Total(S) = Weight(w, S)
    BY <2>1, TotalIsWeight
  <2> HIDE DEF w
  <2> QED BY <2>1, <2>2, <2>3, WeightIsNat
<1>2. ASSUME NEW from \in Nat, NEW to \in Nat PROVE LoggedSpend(now, from, to) \in Nat
  <2> DEFINE Of(r) == Total({t \in InWindow(now) : t.block \in r.first..r.last})
             R == LogRanges(from, to)
             w == [r \in R |-> Of(r)]
             Body(f) == [s \in SUBSET R |-> IF s = {} THEN 0 ELSE Of(First(s)) + f[s \ {First(s)}]]
             F == CHOOSE f : f = Body(f)
  <2>1. IsFiniteSet(R)
    <3> DEFINE B == {b \in from..to : (b - from) % ChunkSize = 0}
               Range1(s) == [first |-> s, last |-> Min({to, s + ChunkSize - 1})]
    <3>1. IsFiniteSet(B)
      <4>1. B \subseteq from..to /\ IsFiniteSet(from..to)
        BY FS_Interval
      <4> HIDE DEF B
      <4> QED BY <4>1, FS_Subset
    <3>2. IsFiniteSet({Range1(s) : s \in B})
      <4> HIDE DEF B, Range1
      <4>1. [s \in B |-> Range1(s)] \in Surjection(B, {Range1(s) : s \in B})
        BY DEF Surjection
      <4> QED BY <3>1, <4>1, FS_Surjection
    <3> QED BY <3>2 DEF LogRanges
  <2>2. LoggedSpend(now, from, to) = F[R]
    BY DEF LoggedSpend, MapThenSumSet, MapThenFoldSet, First
  <2>3. ASSUME NEW f PROVE Body(f) = Round(w, R, f)
    <3>1. ASSUME NEW s \in SUBSET R, s # {} PROVE w[First(s)] = Of(First(s))
      <4> HIDE DEF Of, R
      <4> QED BY <3>1, FirstIsIn
    <3>2. Round(w, R, f) = [s \in SUBSET R |-> IF s = {} THEN 0 ELSE w[First(s)] + f[s \ {First(s)}]]
      BY DEF Round
    <3> HIDE DEF w, R, Of
    <3> QED BY <3>1, <3>2
  <2>4. Fold(w, R) = Body(Fold(w, R))
    <3> HIDE DEF w, R, Body
    <3> QED BY <2>1, <2>3, FoldExists
  <2>5. F = Body(F)
    <3> HIDE DEF Body
    <3> QED BY <2>4
  <2>6. F = Round(w, R, F)
    <3> HIDE DEF w, R, Body, F
    <3> QED BY <2>3, <2>5
  <2>7. F[R] = Weight(w, R)
    <3> HIDE DEF w, R, F
    <3> QED BY <2>1, <2>6, FoldIsWeight
  <2>8. \A r \in R : w[r] \in Nat
    <3>1. \A r \in R : Of(r) \in Nat
      BY <1>1 DEF InWindow
    <3> HIDE DEF R, Of
    <3> QED BY <3>1
  <2>9. Weight(w, R) \in Nat
    <3> HIDE DEF w, R
    <3> QED BY <2>1, <2>8, WeightIsNat
  <2> QED BY <2>2, <2>7, <2>9
<1>3. Total({t \in InWindow(now) : t.order \in UNION receipts}) \in Nat
  BY <1>1 DEF InWindow
<1>4. head \in Nat /\ 0 \in Nat
  BY DEF SpendInv, SpendTypeOK
<1>5. LoggedSpend(now, 0, head) \in Nat /\ LoggedSpend(now, head, head) \in Nat
  BY <1>2, <1>4
<1> QED BY <1>3, <1>5 DEF Spent

\* What a process has in flight is finite, and its prices are naturals.
LEMMA HoldingFinite ==
  ASSUME SpendInv, NEW p \in Buyers
  PROVE  IsFiniteSet(Holding(p)) /\ \A o \in Holding(p) : AmountOf[o] \in Nat
<1>1. Holding(p) \subseteq Begun
  BY DEF Holding, Begun
<1> QED BY <1>1, FS_Subset, SpendAssumption DEF SpendInv, Holding

\* What an order is has changed, and with it what its process holds.
LEMMA HoldingChanges ==
  ASSUME SpendInv, NEW o \in Orders, NEW f \in OrderState, order' = [order EXCEPT ![o] = f],
         f.buyer = order[o].buyer
  PROVE  /\ f.at \in {"reserved", "sent"} => Holding(f.buyer)' = Holding(f.buyer) \cup {o}
         /\ f.at \notin {"reserved", "sent"} => Holding(f.buyer)' = Holding(f.buyer) \ {o}
         /\ \A q \in Buyers : q # f.buyer => Holding(q)' = Holding(q)
<1>1. /\ order'[o] = f /\ DOMAIN order = Orders
      /\ \A x \in Orders : x # o => order'[x] = order[x]
  BY DEF SpendInv, SpendTypeOK
<1>2. f.at \in {"reserved", "sent"} => Holding(f.buyer)' = Holding(f.buyer) \cup {o}
  BY <1>1 DEF Holding
<1>3. f.at \notin {"reserved", "sent"} => Holding(f.buyer)' = Holding(f.buyer) \ {o}
  BY <1>1 DEF Holding
<1>4. ASSUME NEW q \in Buyers, q # f.buyer PROVE Holding(q)' = Holding(q)
  BY <1>1, <1>4 DEF Holding
<1> QED BY <1>2, <1>3, <1>4

LEMMA HoldingKept ==
  ASSUME SpendInv, NEW o \in Orders, NEW f \in OrderState, order' = [order EXCEPT ![o] = f],
         \/ f.buyer = order[o].buyer /\ (f.at \in {"reserved", "sent"} <=> order[o].at \in {"reserved", "sent"})
         \/ f.at \notin {"reserved", "sent"} /\ order[o].at \notin {"reserved", "sent"}
  PROVE  \A q \in Buyers : Holding(q)' = Holding(q)
<1>1. /\ order'[o] = f /\ DOMAIN order = Orders
      /\ \A x \in Orders : x # o => order'[x] = order[x]
  BY DEF SpendInv, SpendTypeOK
<1> QED BY <1>1 DEF Holding

\* A step of one order keeps the orders typed and finitely many of them begun.
LEMMA OneOrderMoves ==
  ASSUME SpendInv, NEW o \in Orders, NEW f \in OrderState, order' = [order EXCEPT ![o] = f],
         f.at # "idle", f.at \in {"reading", "read", "reserved", "sent"} => f.buyer \in Buyers
  PROVE  order' \in [Orders -> OrderState] /\ Owned' /\ IsFiniteSet(Begun')
<1>1. order \in [Orders -> OrderState]
  BY DEF SpendInv, SpendTypeOK
<1>2. order' \in [Orders -> OrderState] /\ order'[o] = f
  BY <1>1
<1>3. \A x \in Orders : x # o => order'[x] = order[x]
  BY <1>1
<1>4. Owned'
  BY <1>2, <1>3 DEF SpendInv, Owned
<1>5. Begun' \subseteq Begun \cup {o}
  BY <1>3 DEF Begun
<1>6. IsFiniteSet(Begun \cup {o})
  BY FS_AddElement DEF SpendInv
<1>7. IsFiniteSet(Begun')
  <2> DEFINE b == Begun'
  <2>1. b \subseteq Begun \cup {o}
    BY <1>5
  <2> HIDE DEF b
  <2>2. IsFiniteSet(b)
    BY <1>6, <2>1, FS_Subset
  <2> QED BY <2>2 DEF b
<1> QED BY <1>2, <1>4, <1>7

\* The fields of a state that is changed in some of them.
LEMMA OrderStateFields ==
  ASSUME NEW f \in OrderState, NEW a, NEW n \in 0..MaxDay, NEW l \in Nat, NEW r \in 0..SpendLimit,
         a \in {"idle", "reading", "read", "reserved", "sent", "done", "refused"},
         NEW p \in Buyers, NEW y \in {"none", "live", "settled"}
  PROVE  /\ [f EXCEPT !.at = a] \in OrderState
         /\ [f EXCEPT !.at = a, !.buyer = p, !.now = n] \in OrderState
         /\ [f EXCEPT !.at = a, !.latest = l, !.remaining = r] \in OrderState
         /\ [f EXCEPT !.at = a, !.payment = y] \in OrderState
         /\ [f EXCEPT !.payment = y] \in OrderState
BY DEF OrderState

\* An order that neither gains nor loses a reservation.
LEMMA BooksKept ==
  ASSUME SpendInv, NEW o \in Orders, NEW f \in OrderState, order' = [order EXCEPT ![o] = f],
         \/ f.buyer = order[o].buyer /\ (f.at \in {"reserved", "sent"} <=> order[o].at \in {"reserved", "sent"})
         \/ f.at \notin {"reserved", "sent"} /\ order[o].at \notin {"reserved", "sent"},
         reserved' = reserved
  PROVE  Books'
<1>1. \A q \in Buyers : Holding(q)' = Holding(q)
  BY HoldingKept
<1> QED BY <1>1 DEF SpendInv, Books

LEMMA SaturatingFacts == \A i, j \in Nat : Saturating(i, j) \in 0..i /\ Saturating(i, j) \in Nat
BY DEF Saturating

LEMMA SumIsNat == \A i, j \in Nat : i + j \in Nat /\ i + 1 \in Nat /\ i + j = j + i
OBVIOUS

LEMMA UpTo ==
  \A n \in Nat : /\ 0 \in 0..n /\ 0 <= n
                 /\ \A i \in 0..n : i \in Nat /\ (i < n => i + 1 \in 0..n)
OBVIOUS

\* A sum that grows by one element, within m; and one that loses an element.
LEMMA SumGrows ==
  ASSUME NEW w, NEW H, IsFiniteSet(H), NEW o, o \notin H, \A x \in H \cup {o} : w[x] \in Nat,
         NEW r \in Nat, r = Weight(w, H), NEW l \in Nat, NEW m \in 0..l, w[o] + r <= m
  PROVE  r + w[o] = Weight(w, H \cup {o}) /\ r + w[o] <= l
<1>1. Weight(w, H \cup {o}) = w[o] + Weight(w, H)
  BY WeightWith
<1>2. w[o] \in Nat
  OBVIOUS
<1>3. \A i, j \in Nat : i + j = j + i /\ (i + j <= m => j + i <= l)
  OBVIOUS
<1> QED BY <1>1, <1>2, <1>3

LEMMA SumShrinks ==
  ASSUME NEW w, NEW H, IsFiniteSet(H), \A x \in H : w[x] \in Nat, NEW o \in H,
         NEW r \in Nat, r = Weight(w, H), NEW l \in Nat, r <= l
  PROVE  Saturating(r, w[o]) = Weight(w, H \ {o}) /\ Weight(w, H \ {o}) <= l
<1>1. Weight(w, H) = w[o] + Weight(w, H \ {o})
  BY WeightWithout
<1>2. Weight(w, H \ {o}) \in Nat
  <2>1. IsFiniteSet(H \ {o}) /\ \A x \in H \ {o} : w[x] \in Nat
    BY FS_Subset
  <2> QED BY <2>1, WeightIsNat
<1>3. w[o] \in Nat
  OBVIOUS
<1>4. \A j, k \in Nat : r = j + k => Saturating(r, j) = k /\ k <= l
  BY DEF Saturating
<1> QED BY <1>1, <1>2, <1>3, <1>4

\* A reservation of an order not yet held is added to the sum.
LEMMA BooksAfterReserve ==
  ASSUME SpendInv, NEW o \in Orders, Reserve(o), SpendAssumption
  PROVE  Books'
<1>a. order[o] \in OrderState /\ order[o].buyer \in Buyers /\ order[o].at = "read"
  BY DEF SpendInv, SpendTypeOK, Owned, Reserve
<1>b. PICK p \in Buyers : p = order[o].buyer
  BY <1>a
<1>c. PICK f \in OrderState : f = [order[o] EXCEPT !.at = "reserved"]
  BY <1>a DEF OrderState
<1>d. PICK g \in OrderState : g = [order[o] EXCEPT !.at = "refused"]
  BY <1>a DEF OrderState
<1>e. f.buyer = p /\ f.at = "reserved" /\ g.at = "refused"
  BY <1>a, <1>b, <1>c, <1>d DEF OrderState
<1>1. CASE ~Fits(o, p)
  <2>1. order' = [order EXCEPT ![o] = g] /\ reserved' = reserved
    BY <1>1, <1>b, <1>d DEF Reserve, Moves
  <2> QED BY <1>a, <1>e, <2>1, BooksKept
<1>2. CASE Fits(o, p)
  <2>1. /\ order' = [order EXCEPT ![o] = f]
        /\ reserved' = [reserved EXCEPT ![p] = reserved[p] + AmountOf[o]]
    BY <1>2, <1>b, <1>c DEF Reserve, Moves
  <2>2. /\ Holding(p)' = Holding(p) \cup {o}
        /\ \A q \in Buyers : q # p => Holding(q)' = Holding(q)
    BY <1>b, <1>e, <2>1, HoldingChanges
  <2>3. o \notin Holding(p) /\ AmountOf[o] \in Nat
    BY <1>a, SpendAssumption DEF Holding
  <2>4. IsFiniteSet(Holding(p)) /\ \A x \in Holding(p) \cup {o} : AmountOf[x] \in Nat
    BY <2>3, HoldingFinite
  <2>5. reserved[p] \in Nat /\ reserved[p] = Weight(AmountOf, Holding(p))
    BY DEF SpendInv, SpendTypeOK, Books
  <2>6. /\ reserved[p] + AmountOf[o] = Weight(AmountOf, Holding(p) \cup {o})
        /\ reserved[p] + AmountOf[o] <= SpendLimit
    <3>1. order[o].remaining \in 0..SpendLimit /\ SpendLimit \in Nat
      BY <1>a, SpendAssumption DEF OrderState
    <3>2. AmountOf[o] + reserved[p] <= order[o].remaining
      BY <1>2 DEF Fits
    <3> QED BY <2>3, <2>4, <2>5, <3>1, <3>2, SumGrows
  <2>7. /\ reserved'[p] = reserved[p] + AmountOf[o]
        /\ \A q \in Buyers : q # p => reserved'[q] = reserved[q]
    BY <2>1 DEF SpendInv, SpendTypeOK
  <2>9. ASSUME NEW q \in Buyers
        PROVE  reserved'[q] = Weight(AmountOf, Holding(q)') /\ reserved'[q] <= SpendLimit
    <3>1. CASE q = p
      BY <2>2, <2>6, <2>7, <3>1
    <3>2. CASE q # p
      BY <2>2, <2>7, <3>2 DEF SpendInv, Books
    <3> QED BY <3>1, <3>2
  <2> QED BY <2>9 DEF Books
<1> QED BY <1>1, <1>2

\* An order that was held is released, and exactly its amount with it.
LEMMA BooksAfterRelease ==
  ASSUME SpendInv, NEW o \in Orders, SpendAssumption, order[o].at \in {"reserved", "sent"},
         NEW a \in {"refused", "done"}, order' = [order EXCEPT ![o] = [order[o] EXCEPT !.at = a]],
         reserved' = Released(o)
  PROVE  Books'
<1>a. order[o] \in OrderState /\ order[o].buyer \in Buyers
  BY DEF SpendInv, SpendTypeOK, Owned
<1>b. PICK p \in Buyers : p = order[o].buyer
  BY <1>a
<1>c. PICK f \in OrderState : f = [order[o] EXCEPT !.at = a]
  BY <1>a DEF OrderState
<1>d. f.buyer = p /\ f.at = a
  BY <1>a, <1>b, <1>c DEF OrderState
<1>1. /\ Holding(p)' = Holding(p) \ {o}
      /\ \A q \in Buyers : q # p => Holding(q)' = Holding(q)
  <2>1. order' = [order EXCEPT ![o] = f]
    BY <1>c
  <2>2. f.at \notin {"reserved", "sent"} /\ f.buyer = order[o].buyer
    BY <1>b, <1>d
  <2> QED BY <1>d, <2>1, <2>2, HoldingChanges
<1>2. o \in Holding(p) /\ AmountOf[o] \in Nat
  BY <1>b, SpendAssumption DEF Holding
<1>3. IsFiniteSet(Holding(p)) /\ \A x \in Holding(p) : AmountOf[x] \in Nat
  BY HoldingFinite
<1>4. /\ reserved[p] \in Nat /\ reserved[p] = Weight(AmountOf, Holding(p))
      /\ reserved[p] <= SpendLimit /\ SpendLimit \in Nat
  BY SpendAssumption DEF SpendInv, SpendTypeOK, Books
<1>5. /\ Saturating(reserved[p], AmountOf[o]) = Weight(AmountOf, Holding(p) \ {o})
      /\ Weight(AmountOf, Holding(p) \ {o}) <= SpendLimit
  BY <1>2, <1>3, <1>4, SumShrinks
<1>6. /\ reserved'[p] = Saturating(reserved[p], AmountOf[o])
      /\ \A q \in Buyers : q # p => reserved'[q] = reserved[q]
  BY <1>b DEF Released, SpendInv, SpendTypeOK
<1>10. ASSUME NEW q \in Buyers
       PROVE  reserved'[q] = Weight(AmountOf, Holding(q)') /\ reserved'[q] <= SpendLimit
  <2>1. CASE q = p
    BY <1>1, <1>5, <1>6, <2>1
  <2>2. CASE q # p
    BY <1>1, <1>6, <2>2 DEF SpendInv, Books
  <2> QED BY <2>1, <2>2
<1> QED BY <1>10 DEF Books

\* The steps of one order that leave the chain, the clock and the books alone.
LEMMA QuietStep ==
  ASSUME SpendInv, SpendAssumption, NEW o \in Orders, NEW f \in OrderState,
         order' = [order EXCEPT ![o] = f], f.at # "idle",
         f.at \in {"reading", "read", "reserved", "sent"} => f.buyer \in Buyers,
         \/ f.buyer = order[o].buyer /\ (f.at \in {"reserved", "sent"} <=> order[o].at \in {"reserved", "sent"})
         \/ f.at \notin {"reserved", "sent"} /\ order[o].at \notin {"reserved", "sent"},
         UNCHANGED <<granted, transfers, head, day, receipts, reserved, deaths>>
  PROVE  SpendInv'
<1>1. order' \in [Orders -> OrderState] /\ Owned' /\ IsFiniteSet(Begun')
  BY OneOrderMoves
<1>2. Books'
  BY BooksKept
<1>3. SpendTypeOK'
  BY <1>1 DEF SpendInv, SpendTypeOK
<1> QED BY <1>1, <1>2, <1>3 DEF SpendInv

LEMMA OrderStep ==
  ASSUME SpendInv, SpendAssumption, NEW o \in Orders,
         \/ \E p \in Buyers : Approve(p, o)
         \/ ReadSpending(o) \/ ReadFails(o) \/ Sign(o)
  PROVE  SpendInv'
<1>0. order[o] \in OrderState /\ day \in 0..MaxDay
  BY DEF SpendInv, SpendTypeOK
<1>1. ASSUME NEW p \in Buyers, Approve(p, o) PROVE SpendInv'
  <2>1. CASE AmountOf[o] <= SpendLimit
    <3>1. PICK f \in OrderState : f = [order[o] EXCEPT !.at = "reading", !.buyer = p, !.now = day]
      BY <1>0 DEF OrderState
    <3>2. f.at = "reading" /\ f.buyer = p
      BY <1>0, <3>1 DEF OrderState
    <3>3. /\ order' = [order EXCEPT ![o] = f] /\ order[o].at = "idle"
          /\ UNCHANGED <<granted, transfers, head, day, receipts, reserved, deaths>>
      BY <1>1, <2>1, <3>1 DEF Approve, Moves
    <3> QED BY <3>2, <3>3, QuietStep
  <2>2. CASE ~(AmountOf[o] <= SpendLimit)
    <3>1. PICK f \in OrderState : f = [order[o] EXCEPT !.at = "refused"]
      BY <1>0 DEF OrderState
    <3>2. f.at = "refused"
      BY <1>0, <3>1 DEF OrderState
    <3>3. /\ order' = [order EXCEPT ![o] = f] /\ order[o].at = "idle"
          /\ UNCHANGED <<granted, transfers, head, day, receipts, reserved, deaths>>
      BY <1>1, <2>2, <3>1 DEF Approve, Moves
    <3> QED BY <3>2, <3>3, QuietStep
  <2> QED BY <2>1, <2>2
<1>2. CASE ReadSpending(o)
  <2>1. PICK r : r = Saturating(SpendLimit, Spent(order[o].now))
    OBVIOUS
  <2>2. r \in 0..SpendLimit
    <3>1. order[o].now \in Nat
      <4>1. order[o].now \in 0..MaxDay
        BY <1>0 DEF OrderState
      <4>2. MaxDay \in Nat
        BY SpendAssumption
      <4> QED BY <4>1, <4>2, UpTo, Zenon
    <3>2. PICK s \in Nat : s = Spent(order[o].now)
      BY <3>1, SpentIsNat
    <3>3. SpendLimit \in Nat
      BY SpendAssumption
    <3> QED BY <2>1, <3>2, <3>3, SaturatingFacts, Zenon
  <2>3. PICK f : f = [order[o] EXCEPT !.at = "read", !.latest = head, !.remaining = r]
    OBVIOUS
  <2>4. f \in OrderState /\ f.at = "read" /\ f.buyer = order[o].buyer
    BY <1>0, <2>2, <2>3 DEF OrderState, SpendInv, SpendTypeOK
  <2>5. /\ order' = [order EXCEPT ![o] = f] /\ order[o].at = "reading"
        /\ UNCHANGED <<granted, transfers, head, day, receipts, reserved, deaths>>
    BY <1>2, <2>1, <2>3 DEF ReadSpending, Moves
  <2>6. order[o].buyer \in Buyers
    BY <2>5 DEF SpendInv, Owned
  <2> QED BY <2>4, <2>5, <2>6, QuietStep
<1>3. CASE ReadFails(o)
  <2>1. PICK f \in OrderState : f = [order[o] EXCEPT !.at = "refused"]
    BY <1>0 DEF OrderState
  <2>2. f.at = "refused"
    BY <1>0, <2>1 DEF OrderState
  <2>3. /\ order' = [order EXCEPT ![o] = f] /\ order[o].at = "reading"
        /\ UNCHANGED <<granted, transfers, head, day, receipts, reserved, deaths>>
    BY <1>3, <2>1 DEF ReadFails, Moves
  <2> QED BY <2>2, <2>3, QuietStep
<1>4. CASE Sign(o)
  <2>1. PICK f \in OrderState : f = [order[o] EXCEPT !.at = "sent", !.payment = "live"]
    BY <1>0 DEF OrderState
  <2>2. f.at = "sent" /\ f.buyer = order[o].buyer
    BY <1>0, <2>1 DEF OrderState
  <2>3. /\ order' = [order EXCEPT ![o] = f] /\ order[o].at = "reserved"
        /\ UNCHANGED <<granted, transfers, head, day, receipts, reserved, deaths>>
    BY <1>4, <2>1 DEF Sign, Moves
  <2>4. order[o].buyer \in Buyers
    BY <2>3 DEF SpendInv, Owned
  <2> QED BY <2>2, <2>3, <2>4, QuietStep
<1> QED BY <1>1, <1>2, <1>3, <1>4

\* Reservations keep their type, whatever is added to them or released.
LEMMA ReserveStep ==
  ASSUME SpendInv, SpendAssumption, NEW o \in Orders, Reserve(o)
  PROVE  SpendInv'
<1>0. order[o] \in OrderState /\ order[o].buyer \in Buyers /\ AmountOf[o] \in Nat
  BY SpendAssumption DEF SpendInv, SpendTypeOK, Owned, Reserve
<1>1. Books'
  BY BooksAfterReserve
<1>2. reserved' \in [Buyers -> Nat]
  <2>1. PICK p \in Buyers : p = order[o].buyer
    BY <1>0
  <2>2. reserved[p] \in Nat /\ reserved \in [Buyers -> Nat]
    BY DEF SpendInv, SpendTypeOK
  <2>3. PICK r \in Nat : r = reserved[p] + AmountOf[o]
    BY <1>0, <2>2, SumIsNat, Zenon
  <2>4. reserved' = reserved \/ reserved' = [reserved EXCEPT ![p] = r]
    BY <2>1, <2>3 DEF Reserve
  <2> QED BY <2>2, <2>4
<1>3. PICK a \in {"reserved", "refused"} : order' = [order EXCEPT ![o] = [order[o] EXCEPT !.at = a]]
  BY DEF Reserve, Moves
<1>4. PICK f \in OrderState : f = [order[o] EXCEPT !.at = a]
  BY <1>0 DEF OrderState
<1>5. f.at = a /\ f.buyer = order[o].buyer /\ order' = [order EXCEPT ![o] = f]
  BY <1>0, <1>3, <1>4 DEF OrderState
<1>6. order' \in [Orders -> OrderState] /\ Owned' /\ IsFiniteSet(Begun')
  BY <1>0, <1>5, OneOrderMoves
<1>7. SpendTypeOK'
  BY <1>2, <1>6 DEF SpendInv, SpendTypeOK, Reserve
<1> QED BY <1>1, <1>6, <1>7 DEF SpendInv

LEMMA ReleaseStep ==
  ASSUME SpendInv, SpendAssumption, NEW o \in Orders, SignFails(o) \/ Delivered(o)
  PROVE  SpendInv'
<1>0. /\ order[o] \in OrderState /\ order[o].buyer \in Buyers /\ AmountOf[o] \in Nat
      /\ order[o].at \in {"reserved", "sent"} /\ reserved' = Released(o)
      /\ UNCHANGED <<granted, transfers, head, day, receipts, deaths>>
  BY SpendAssumption DEF SpendInv, SpendTypeOK, Owned, SignFails, Delivered
<1>1. PICK a \in {"refused", "done"} : order' = [order EXCEPT ![o] = [order[o] EXCEPT !.at = a]]
  BY DEF SignFails, Delivered, Moves
<1>2. Books'
  BY <1>0, <1>1, BooksAfterRelease
<1>3. reserved' \in [Buyers -> Nat]
  <2>1. reserved[order[o].buyer] \in Nat
    BY <1>0 DEF SpendInv, SpendTypeOK
  <2>2. Saturating(reserved[order[o].buyer], AmountOf[o]) \in Nat
    BY <1>0, <2>1, SaturatingFacts, Zenon
  <2> QED BY <1>0, <2>2 DEF SpendInv, SpendTypeOK, Released
<1>4. PICK f \in OrderState : f = [order[o] EXCEPT !.at = a]
  BY <1>0 DEF OrderState
<1>5. f.at = a /\ f.buyer = order[o].buyer /\ order' = [order EXCEPT ![o] = f]
  BY <1>0, <1>1, <1>4 DEF OrderState
<1>6. order' \in [Orders -> OrderState] /\ Owned' /\ IsFiniteSet(Begun')
  BY <1>5, OneOrderMoves
<1>7. SpendTypeOK'
  BY <1>0, <1>3, <1>6 DEF SpendInv, SpendTypeOK
<1> QED BY <1>2, <1>6, <1>7 DEF SpendInv

LEMMA SettleStep ==
  ASSUME SpendInv, SpendAssumption, NEW o \in Orders, NEW stored \in BOOLEAN, SettleTransfer(o, stored),
         order[o].at # "idle"
  PROVE  SpendInv'
<1>0. order[o] \in OrderState /\ day \in Nat /\ head \in Nat
  <2>1. order[o] \in OrderState /\ day \in 0..MaxDay /\ head \in Nat
    BY DEF SpendInv, SpendTypeOK
  <2>2. MaxDay \in Nat
    BY SpendAssumption
  <2> QED BY <2>1, <2>2, UpTo, Zenon
<1>1. PICK f \in OrderState : f = [order[o] EXCEPT !.payment = "settled"]
  BY <1>0 DEF OrderState
<1>2. f.at = order[o].at /\ f.buyer = order[o].buyer /\ order' = [order EXCEPT ![o] = f]
  BY <1>0, <1>1 DEF OrderState, SettleTransfer, Moves
<1>3. f.at \in {"reading", "read", "reserved", "sent"} => f.buyer \in Buyers
  BY <1>2 DEF SpendInv, Owned
<1>4. order' \in [Orders -> OrderState] /\ Owned' /\ IsFiniteSet(Begun')
  BY <1>2, <1>3, OneOrderMoves
<1>5. Books'
  BY <1>2, BooksKept DEF SettleTransfer
<1>6. PICK t : t = [order |-> o, block |-> head + 1, day |-> day]
  OBVIOUS
<1>7. t \in [order : Orders, block : Nat, day : Nat] /\ transfers' = transfers \cup {t}
  <2>1. head + 1 \in Nat
    BY <1>0, SumIsNat, Zenon
  <2>2. t \in [order : Orders, block : Nat, day : Nat]
    BY <1>0, <1>6, <2>1
  <2> QED BY <1>6, <2>2 DEF SettleTransfer
<1>8. IsFiniteSet(transfers \cup {t})
  BY FS_AddElement DEF SpendInv, SpendTypeOK
<1>9. head' \in Nat /\ receipts' \subseteq SUBSET Orders
  <2>1. head' = head + 1 /\ receipts \subseteq SUBSET Orders
    BY DEF SettleTransfer, SpendInv, SpendTypeOK
  <2>2. head + 1 \in Nat
    BY <1>0, SumIsNat, Zenon
  <2>3. receipts' \in IF stored THEN {{(UNION receipts) \cup {o}}} ELSE {receipts, {UNION receipts}}
    BY DEF SettleTransfer
  <2>4. ASSUME NEW r \in receipts', NEW x \in r PROVE x \in Orders
    <3>1. r \in receipts \/ r = UNION receipts \/ r = (UNION receipts) \cup {o}
      BY <2>3, <2>4, Zenon
    <3>2. ASSUME r \in receipts PROVE x \in Orders
      BY <2>1, <2>4, <3>2
    <3>3. ASSUME x \in UNION receipts PROVE x \in Orders
      BY <2>1, <3>3
    <3>4. x = o => x \in Orders
      OBVIOUS
    <3>5. r \in receipts \/ x \in UNION receipts \/ x = o
      BY <2>4, <3>1, Zenon
    <3> QED BY <3>2, <3>3, <3>4, <3>5
  <2>5. receipts' \subseteq SUBSET Orders
    BY <2>4
  <2> QED BY <2>1, <2>2, <2>5
<1>10. SpendTypeOK'
  BY <1>4, <1>7, <1>8, <1>9 DEF SettleTransfer, SpendInv, SpendTypeOK
<1> QED BY <1>4, <1>5, <1>10 DEF SpendInv

LEMMA BuyerDiesStep ==
  ASSUME SpendInv, SpendAssumption, NEW p \in Buyers, BuyerDies(p)
  PROVE  SpendInv'
<1>0. /\ order \in [Orders -> OrderState] /\ NoBuyer \notin Buyers
      /\ \A o \in Orders : order[o].at = "idle" => order[o].buyer = NoBuyer /\ order[o].payment = "none"
  BY SpendAssumption DEF SpendInv, SpendTypeOK, Owned, NoBuyer
<1>1. ASSUME NEW o \in Orders
      PROVE  /\ order'[o] \in OrderState /\ order'[o].buyer = order[o].buyer
             /\ order'[o].payment = order[o].payment
             /\ order[o].at = "idle" <=> order'[o].at = "idle"
             /\ IF order[o].buyer = p THEN order'[o].at \in {"done", "refused"}
                ELSE order'[o] = order[o]
  <2>1. order[o] \in OrderState
    BY <1>0
  <2>2. order'[o] = IF order[o].buyer = p /\ order[o].at # "refused"
                    THEN [order[o] EXCEPT !.at = "done"] ELSE order[o]
    BY DEF BuyerDies
  <2>3. CASE order[o].buyer = p /\ order[o].at # "refused"
    <3>1. order'[o] = [order[o] EXCEPT !.at = "done"]
      BY <2>2, <2>3
    <3>2. order[o].at # "idle"
      BY <1>0, <2>3
    <3> QED BY <2>1, <2>3, <3>1, <3>2 DEF OrderState
  <2>4. CASE ~(order[o].buyer = p /\ order[o].at # "refused")
    <3>1. order'[o] = order[o]
      BY <2>2, <2>4
    <3> QED BY <2>1, <2>4, <3>1
  <2> QED BY <2>3, <2>4
<1>2. order' \in [Orders -> OrderState]
  <2>1. DOMAIN order' = Orders /\ order' = [o \in Orders |-> order'[o]]
    BY DEF BuyerDies
  <2> QED BY <1>1, <2>1
<1>3. Owned'
  <2>1. \A o \in Orders : order'[o].at \in {"reading", "read", "reserved", "sent"}
                            => order'[o] = order[o]
    BY <1>1
  <2>2. \A o \in Orders : order'[o].at = "idle" => order[o].at = "idle"
    BY <1>1
  <2> QED BY <1>1, <2>1, <2>2 DEF SpendInv, Owned
<1>4. Begun' = Begun
  BY <1>1 DEF Begun
<1>5. Holding(p)' = {}
  BY <1>1 DEF Holding
<1>6. \A q \in Buyers : q # p => Holding(q)' = Holding(q)
  <2> SUFFICES ASSUME NEW q \in Buyers, q # p PROVE Holding(q)' = Holding(q)
    OBVIOUS
  <2>1. \A o \in Orders : (order'[o].buyer = q /\ order'[o].at \in {"reserved", "sent"})
                            <=> (order[o].buyer = q /\ order[o].at \in {"reserved", "sent"})
    BY <1>1
  <2> QED BY <2>1 DEF Holding
<1>7. /\ reserved \in [Buyers -> Nat] /\ reserved' = [reserved EXCEPT ![p] = 0]
      /\ UNCHANGED <<granted, transfers, head, day, receipts>> /\ deaths' = deaths + 1
  BY DEF BuyerDies, SpendInv, SpendTypeOK
<1>8. Weight(AmountOf, {}) = 0
  BY FS_EmptySet, WeightUnfolds
<1>9. SpendLimit \in Nat /\ 0 <= SpendLimit
  BY SpendAssumption, UpTo, Zenon DEF SpendAssumption
<1>10. ASSUME NEW q \in Buyers
       PROVE  reserved'[q] = Weight(AmountOf, Holding(q)') /\ reserved'[q] <= SpendLimit
  <2>1. CASE q = p
    BY <1>5, <1>7, <1>8, <1>9, <2>1
  <2>2. CASE q # p
    BY <1>6, <1>7, <2>2 DEF SpendInv, Books
  <2> QED BY <2>1, <2>2
<1>11. Books'
  BY <1>10 DEF Books
<1>12. deaths' \in Nat
  <2>1. deaths \in Nat
    BY DEF SpendInv, SpendTypeOK
  <2> QED BY <1>7, <2>1, SumIsNat, Zenon
<1>13. reserved' \in [Buyers -> Nat]
  BY <1>7
<1>14. SpendTypeOK'
  BY <1>2, <1>7, <1>12, <1>13 DEF SpendInv, SpendTypeOK
<1> QED BY <1>3, <1>4, <1>11, <1>14 DEF SpendInv

LEMMA SpendInitially ==
  ASSUME SpendInit, SpendAssumption
  PROVE  SpendInv
<1>0. MaxDay \in Nat /\ SpendLimit \in Nat /\ 0 \in 0..MaxDay /\ 0 \in 0..SpendLimit /\ 0 <= SpendLimit
  BY SpendAssumption, UpTo, Zenon DEF SpendAssumption
<1>1. IdleOrder \in OrderState
  BY <1>0 DEF IdleOrder, OrderState
<1>2. \A o \in Orders : order[o].at = "idle" /\ order[o].buyer = NoBuyer /\ order[o].payment = "none"
  <2>1. \A o \in Orders : order[o] = IdleOrder
    BY DEF SpendInit
  <2>2. IdleOrder.at = "idle" /\ IdleOrder.buyer = NoBuyer /\ IdleOrder.payment = "none"
    BY DEF IdleOrder
  <2> QED BY <2>1, <2>2
<1>3. IsFiniteSet({})
  BY FS_EmptySet
<1>4. Begun = {} /\ \A p \in Buyers : Holding(p) = {}
  BY <1>2 DEF Begun, Holding
<1>5. Owned
  BY <1>2 DEF Owned
<1>6. Weight(AmountOf, {}) = 0
  BY <1>3, WeightUnfolds
<1>7. Books
  BY <1>0, <1>4, <1>6 DEF Books, SpendInit
<1>8. SpendTypeOK
  BY <1>0, <1>1, <1>3 DEF SpendTypeOK, SpendInit
<1> QED BY <1>3, <1>4, <1>5, <1>7, <1>8 DEF SpendInv

LEMMA SpendSteps ==
  ASSUME SpendInv, SpendAssumption, [SpendNext]_spendVars
  PROVE  SpendInv'
<1>1. CASE UNCHANGED spendVars
  <2>1. Begun' = Begun /\ \A p \in Buyers : Holding(p)' = Holding(p)
    BY <1>1 DEF spendVars, Begun, Holding
  <2> QED BY <1>1, <2>1 DEF spendVars, SpendInv, SpendTypeOK, Owned, Books
<1>2. CASE DayEnds
  <2>1. Begun' = Begun /\ \A p \in Buyers : Holding(p)' = Holding(p)
    BY <1>2 DEF DayEnds, Begun, Holding
  <2>2. day' \in 0..MaxDay
    <3>1. day \in 0..MaxDay /\ day < MaxDay /\ day' = day + 1
      BY <1>2 DEF DayEnds, SpendInv, SpendTypeOK
    <3>2. MaxDay \in Nat
      BY SpendAssumption
    <3> QED BY <3>1, <3>2, UpTo, Zenon
  <2> QED BY <1>2, <2>1, <2>2 DEF DayEnds, SpendInv, SpendTypeOK, Owned, Books
<1>3. ASSUME NEW o \in Orders, NEW stored \in BOOLEAN, SettleTransfer(o, stored) PROVE SpendInv'
  <2>1. order[o].at # "idle"
    BY <1>3 DEF SettleTransfer, SpendInv, Owned
  <2> QED BY <1>3, <2>1, SettleStep
<1> QED BY <1>1, <1>2, <1>3, OrderStep, ReserveStep, ReleaseStep, BuyerDiesStep DEF SpendNext

\* What a process holds in its map is the sum of what it has in flight, which
\* its limit bounds; orders have one owner from approval to end.
THEOREM SpendInvariant == SpendSpec => []SpendInv
<1>1. SpendInit => SpendInv
  BY SpendInitially, SpendAssumption
<1>2. SpendInv /\ [SpendNext]_spendVars => SpendInv'
  BY SpendSteps, SpendAssumption
<1> QED BY <1>1, <1>2, PTL DEF SpendSpec

\* paidFetch: the reserved and unanswered payments of a process never add up
\* to more than the daily limit, and the map of reservations is their sum.
THEOREM InFlightAlwaysWithinLimit == SpendSpec => []InFlightWithinLimit
<1>1. SpendInv => InFlightWithinLimit
  <2> SUFFICES ASSUME SpendInv, NEW p \in Buyers
               PROVE  /\ reserved[p] = MapThenSumSet(LAMBDA o : AmountOf[o], Holding(p))
                      /\ reserved[p] <= SpendLimit
    BY DEF InFlightWithinLimit
  <2>1. MapThenSumSet(LAMBDA o : AmountOf[o], Holding(p)) = Weight(AmountOf, Holding(p))
    BY DEF MapThenSumSet, MapThenFoldSet, Weight, Fold, Round, First
  <2> QED BY <2>1 DEF SpendInv, Books
<1> QED BY <1>1, SpendInvariant, PTL

-----------------------------------------------------------------------------
(* PaidRehearsals: what accepted evidence claims, and what was spent.      *)

Roles == {"auditor", "verifier", "sentinel"}
PaymentRecords ==
  [role : Roles, mission : Nat, under : {"approved", "later"}, day : Nat]
MissionRecords ==
  [status : {"running", "failed", "recovering", "completed"}, source : {"live", "recovered"},
   audit : Nat, verify : Nat, delivered : BOOLEAN]
RunRecords == [mission : Nat, mode : {"live", "recovered"}, auditor : Nat, verifier : Nat]
ScriptRecords ==
  [kind : {"none", "rehearsals", "acceptance", "sentinel", "over"}, at : {"none", "next", "waiting"},
   runs : Seq(RunRecords), waits : Nat]

RehearsalTypeOK ==
  /\ plan \in {"rehearsals", "acceptance"} /\ active \in {"approved", "none", "later"} /\ today \in Nat
  /\ payments \in Seq(PaymentRecords) /\ missions \in Seq(MissionRecords)
  /\ terminal \in [Scripts -> ScriptRecords]
  /\ stability \in [runs : Seq(RunRecords), sentinel : Nat]

PaidBy(paid, n, role, m) ==
  n \in DOMAIN paid /\ paid[n].role = role /\ paid[n].mission = m

\* What a mission says it paid was paid for it, the audit before the rest.
MissionIsPaid(g, m, paid) ==
  /\ g.audit # 0 => PaidBy(paid, g.audit, "auditor", m)
  /\ g.verify # 0 => PaidBy(paid, g.verify, "verifier", m)
  /\ g.delivered => g.audit # 0
  /\ g.verify # 0 => g.delivered
  /\ g.status = "completed" => g.verify # 0

MissionsPaid == \A m \in DOMAIN missions : MissionIsPaid(missions[m], m, payments)

RunsKnown(runs) == \A k \in DOMAIN runs : runs[k].mission \in DOMAIN missions
SentinelPaid(n) == plan = "acceptance" /\ n \in DOMAIN payments /\ payments[n].role = "sentinel"

\* Scripts and artifacts name missions and payments that exist.
ScriptsKnow ==
  /\ \A i \in Scripts : /\ RunsKnown(terminal[i].runs)
                        /\ terminal[i].at = "waiting" => terminal[i].waits \in DOMAIN missions
                        /\ terminal[i].at # "none" => terminal[i].kind # "sentinel"
                        /\ terminal[i].kind = "sentinel" => SentinelPaid(terminal[i].waits)
  /\ RunsKnown(stability.runs)
  /\ stability.sentinel # 0 => SentinelPaid(stability.sentinel)

PriceAt == [n \in DOMAIN payments |-> PriceOf[payments[n].role]]
OfDay(d) == {n \in DOMAIN payments : payments[n].under = "approved" /\ payments[n].day = d}

\* No day of the approved authority costs more than its cap.
DaysWithinCap == \A d \in Nat : Weight(PriceAt, OfDay(d)) <= CapOf(plan)

RehearsalInv == RehearsalTypeOK /\ MissionsPaid /\ ScriptsKnow /\ DaysWithinCap

LEMMA CostIsWeight ==
  ASSUME NEW D, IsFiniteSet(D), D \subseteq DOMAIN payments
  PROVE  CostOf(D) = Weight(PriceAt, D)
<1> DEFINE Body(f) == [s \in SUBSET D |-> IF s = {} THEN 0
                                          ELSE PriceOf[payments[First(s)].role] + f[s \ {First(s)}]]
           F == CHOOSE f : f = Body(f)
<1>1. CostOf(D) = F[D]
  BY DEF CostOf, MapThenSumSet, MapThenFoldSet, First
<1>2. ASSUME NEW f PROVE Body(f) = Round(PriceAt, D, f)
  <2>1. ASSUME NEW s \in SUBSET D, s # {} PROVE PriceAt[First(s)] = PriceOf[payments[First(s)].role]
    BY <2>1, FirstIsIn DEF PriceAt
  <2>2. Round(PriceAt, D, f) =
          [s \in SUBSET D |-> IF s = {} THEN 0 ELSE PriceAt[First(s)] + f[s \ {First(s)}]]
    BY DEF Round
  <2> QED BY <2>1, <2>2
<1>3. Fold(PriceAt, D) = Body(Fold(PriceAt, D))
  <2> HIDE DEF Body
  <2> QED BY <1>2, FoldExists
<1>4. F = Body(F)
  <2> HIDE DEF Body
  <2> QED BY <1>3
<1>5. F = Round(PriceAt, D, F)
  <2> HIDE DEF Body, F
  <2> QED BY <1>2, <1>4
<1>6. F[D] = Weight(PriceAt, D)
  <2> HIDE DEF F
  <2> QED BY <1>5, FoldIsWeight
<1> QED BY <1>1, <1>6

\* Prices are natural, and payments are finitely many.
LEMMA PaymentsFinite ==
  ASSUME payments \in Seq(PaymentRecords), RehearsalAssumption
  PROVE  /\ IsFiniteSet(DOMAIN payments) /\ DOMAIN payments = 1..Len(payments) /\ Len(payments) \in Nat
         /\ \A D \in SUBSET (DOMAIN payments) : IsFiniteSet(D)
         /\ \A n \in DOMAIN payments : PriceAt[n] \in Nat \ {0}
<1>1. DOMAIN payments = 1..Len(payments) /\ Len(payments) \in Nat
  OBVIOUS
<1>2. IsFiniteSet(1..Len(payments))
  BY <1>1, FS_Interval
<1>3. \A D \in SUBSET (DOMAIN payments) : IsFiniteSet(D)
  BY <1>1, <1>2, FS_Subset
<1>4. ASSUME NEW n \in DOMAIN payments PROVE PriceAt[n] \in Nat \ {0}
  <2>1. payments[n] \in PaymentRecords
    OBVIOUS
  <2>2. payments[n].role \in Roles
    BY <2>1 DEF PaymentRecords
  <2>3. PriceOf[payments[n].role] \in Nat \ {0}
    BY <2>2, RehearsalAssumption DEF RehearsalAssumption, Roles
  <2> QED BY <2>3 DEF PriceAt
<1> QED BY <1>1, <1>2, <1>3, <1>4

\* A payment that is made is the last one; the others stay what they were.
LEMMA PaymentAdded ==
  ASSUME payments \in Seq(PaymentRecords), NEW p \in PaymentRecords, payments' = Append(payments, p)
  PROVE  /\ payments' \in Seq(PaymentRecords) /\ Len(payments') = Len(payments) + 1
         /\ DOMAIN payments' = DOMAIN payments \cup {Len(payments) + 1}
         /\ Len(payments) + 1 \notin DOMAIN payments /\ Len(payments) + 1 \in Nat \ {0}
         /\ payments'[Len(payments) + 1] = p
         /\ \A n \in DOMAIN payments : payments'[n] = payments[n]
OBVIOUS

LEMMA DebitsAdd ==
  ASSUME RehearsalTypeOK, RehearsalAssumption, NEW role \in Roles, NEW m \in Nat,
         Affords(role), Debit(role, m)
  PROVE  \E p \in PaymentRecords :
           /\ p.role = role /\ p.mission = m /\ p.under = active /\ p.day = today
           /\ payments' = Append(payments, p)
<1>1. PICK p : p = [role |-> role, mission |-> m, under |-> active, day |-> today]
  OBVIOUS
<1>2. p \in PaymentRecords
  BY <1>1 DEF PaymentRecords, RehearsalTypeOK, Affords
<1>3. payments' = Append(payments, p)
  BY <1>1 DEF Debit
<1> QED BY <1>1, <1>2, <1>3

\* The check of SpentToday keeps the days of the approved authority in its cap.
LEMMA DaysAfterDebit ==
  ASSUME RehearsalTypeOK, RehearsalAssumption, DaysWithinCap, NEW role \in Roles,
         Affords(role), NEW p \in PaymentRecords, p.role = role, p.under = active, p.day = today,
         payments' = Append(payments, p), plan' = plan
  PROVE  DaysWithinCap'
<1>1. payments \in Seq(PaymentRecords)
  BY DEF RehearsalTypeOK
<1>2. PICK k : k = Len(payments) + 1
  OBVIOUS
<1>3. /\ payments' \in Seq(PaymentRecords) /\ DOMAIN payments' = DOMAIN payments \cup {k}
      /\ k \notin DOMAIN payments /\ payments'[k] = p
      /\ \A n \in DOMAIN payments : payments'[n] = payments[n]
  BY <1>1, <1>2, PaymentAdded
<1>4. PICK w : w = PriceAt
  OBVIOUS
<1>5. PICK v : v = PriceAt'
  OBVIOUS
<1>6. /\ \A n \in DOMAIN payments : v[n] = w[n] /\ w[n] \in Nat
      /\ v[k] = PriceOf[role] /\ PriceOf[role] \in Nat
  <2>1. \A n \in DOMAIN payments : w[n] \in Nat
    BY <1>1, <1>4, PaymentsFinite
  <2>2. \A n \in DOMAIN payments : v[n] = w[n]
    BY <1>3, <1>4, <1>5 DEF PriceAt
  <2>3. v[k] = PriceOf[role]
    BY <1>3, <1>5 DEF PriceAt
  <2>4. PriceOf[role] \in Nat
    BY RehearsalAssumption DEF RehearsalAssumption, Roles
  <2> QED BY <2>1, <2>2, <2>3, <2>4
<1>7. ASSUME NEW D, D \subseteq DOMAIN payments
      PROVE  IsFiniteSet(D) /\ Weight(v, D) = Weight(w, D) /\ k \notin D
             /\ \A x \in D : v[x] \in Nat
  <2>1. IsFiniteSet(D)
    BY <1>1, <1>7, PaymentsFinite
  <2>2. \A x \in D : v[x] = w[x] /\ v[x] \in Nat
    BY <1>6, <1>7
  <2>3. Weight(v, D) = Weight(w, D)
    BY <2>1, <2>2, WeightSame
  <2> QED BY <1>3, <1>7, <2>1, <2>2, <2>3
<1>8. ASSUME NEW d \in Nat PROVE Weight(v, OfDay(d)') <= CapOf(plan)
  <2>1. OfDay(d) \subseteq DOMAIN payments
    BY DEF OfDay
  <2>2. PICK D : D = OfDay(d)
    OBVIOUS
  <2>3. IsFiniteSet(D) /\ Weight(v, D) = Weight(w, D) /\ k \notin D /\ \A x \in D : v[x] \in Nat
    BY <1>7, <2>1, <2>2
  <2>4. CASE active = "approved" /\ d = today
    <3>1. OfDay(d)' = D \cup {k}
      BY <1>3, <2>2, <2>4 DEF OfDay
    <3>2. Weight(v, D \cup {k}) = PriceOf[role] + Weight(v, D)
      <4>1. \A x \in D \cup {k} : v[x] \in Nat
        BY <1>6, <2>3
      <4> QED BY <1>6, <2>3, <4>1, WeightWith
    <3>3. {n \in DOMAIN payments : payments[n].under = active /\ payments[n].day = today} = D
      BY <2>2, <2>4 DEF OfDay
    <3>4. SpentToday = CostOf(D)
      BY <3>3 DEF SpentToday
    <3>5. CostOf(D) = Weight(w, D)
      BY <1>4, <2>1, <2>2, <2>3, CostIsWeight
    <3>6. Weight(w, D) + PriceOf[role] <= CapOf(plan)
      BY <3>4, <3>5 DEF Affords
    <3>7. Weight(w, D) \in Nat
      BY <1>6, <2>1, <2>2, <2>3, WeightIsNat
    <3>8. PriceOf[role] + Weight(w, D) = Weight(w, D) + PriceOf[role]
      BY <1>6, <3>7, SumIsNat
    <3> QED BY <2>3, <3>1, <3>2, <3>6, <3>8, Zenon
  <2>5. CASE ~(active = "approved" /\ d = today)
    <3>1. OfDay(d)' = D
      BY <1>3, <2>2, <2>5 DEF OfDay
    <3>2. Weight(w, D) <= CapOf(plan)
      BY <1>4, <2>2 DEF DaysWithinCap
    <3> QED BY <2>3, <3>1, <3>2
  <2> QED BY <2>4, <2>5
<1> QED BY <1>5, <1>8 DEF DaysWithinCap, CapOf

\* A debit of a mission: it notes the payment's number.
LEMMA HireStep ==
  ASSUME RehearsalInv, RehearsalAssumption, NEW m \in DOMAIN missions, HireAuditor(m) \/ HireVerifier(m)
  PROVE  RehearsalInv'
<1>0. /\ RehearsalTypeOK /\ payments \in Seq(PaymentRecords) /\ missions \in Seq(MissionRecords)
      /\ missions[m] \in MissionRecords /\ m \in Nat
      /\ UNCHANGED <<plan, active, today, terminal, stability>>
  BY SMTT(40) DEF RehearsalInv, RehearsalTypeOK, HireAuditor, HireVerifier
<1>1. PICK role \in {"auditor", "verifier"} :
        /\ Affords(role) /\ Debit(role, m)
        /\ \/ /\ role = "auditor" /\ missions[m].audit = 0 /\ InState(m, "running")
              /\ missions' = [missions EXCEPT ![m].audit = Len(payments')]
           \/ /\ role = "verifier" /\ missions[m].verify = 0 /\ missions[m].delivered /\ AtWork(m)
              /\ missions' = [missions EXCEPT ![m].verify = Len(payments')]
  BY DEF HireAuditor, HireVerifier
<1>2. PICK p \in PaymentRecords : /\ p.role = role /\ p.mission = m /\ p.under = active /\ p.day = today
                                  /\ payments' = Append(payments, p)
  BY <1>0, <1>1, DebitsAdd, SMTT(40) DEF Roles
<1>3. PICK n : n = Len(payments) + 1
  OBVIOUS
<1>4. /\ payments' \in Seq(PaymentRecords) /\ DOMAIN payments' = DOMAIN payments \cup {n}
      /\ n \notin DOMAIN payments /\ n \in Nat \ {0} /\ payments'[n] = p /\ Len(payments') = n
      /\ \A x \in DOMAIN payments : payments'[x] = payments[x]
  BY <1>0, <1>2, <1>3, PaymentAdded
<1>5. DaysWithinCap'
  BY <1>0, <1>1, <1>2, DaysAfterDebit DEF RehearsalInv, Roles
<1>6. ASSUME NEW x, NEW r, NEW k, PaidBy(payments, x, r, k) PROVE PaidBy(payments', x, r, k)
  BY <1>4, <1>6 DEF PaidBy
<1>7. PaidBy(payments', n, role, m)
  BY <1>2, <1>4 DEF PaidBy
<1>8. PICK f \in MissionRecords :
        /\ missions' = [missions EXCEPT ![m] = f] /\ f.status = missions[m].status
        /\ f.delivered = missions[m].delivered
        /\ \/ f.audit = n /\ role = "auditor" /\ f.verify = missions[m].verify
           \/ f.verify = n /\ role = "verifier" /\ f.audit = missions[m].audit /\ f.delivered
  <2>1. CASE role = "auditor"
    <3>1. PICK f : f = [missions[m] EXCEPT !.audit = n]
      OBVIOUS
    <3>2. missions' = [missions EXCEPT ![m] = f]
      BY <1>0, <1>1, <1>4, <2>1, <3>1
    <3>3. f \in MissionRecords /\ f.status = missions[m].status /\ f.delivered = missions[m].delivered
          /\ f.audit = n /\ f.verify = missions[m].verify
      BY <1>0, <1>4, <3>1 DEF MissionRecords
    <3> QED BY <2>1, <3>2, <3>3
  <2>2. CASE role = "verifier"
    <3>1. PICK f : f = [missions[m] EXCEPT !.verify = n]
      OBVIOUS
    <3>2. missions' = [missions EXCEPT ![m] = f] /\ missions[m].delivered
      BY <1>0, <1>1, <1>4, <2>2, <3>1
    <3>3. f \in MissionRecords /\ f.status = missions[m].status /\ f.delivered = missions[m].delivered
          /\ f.verify = n /\ f.audit = missions[m].audit
      BY <1>0, <1>4, <3>1 DEF MissionRecords
    <3> QED BY <2>2, <3>2, <3>3
  <2> QED BY <2>1, <2>2
<1>9. /\ missions' \in Seq(MissionRecords) /\ DOMAIN missions' = DOMAIN missions /\ missions'[m] = f
      /\ \A x \in DOMAIN missions : x # m => missions'[x] = missions[x]
  BY <1>0, <1>8
<1>10. MissionsPaid'
  <2>1. ASSUME NEW x \in DOMAIN missions
        PROVE  MissionIsPaid(missions'[x], x, payments')
    <3>0. MissionIsPaid(missions[x], x, payments)
      BY DEF RehearsalInv, MissionsPaid
    <3>1. CASE x # m
      <4>1. missions'[x] = missions[x]
        BY <1>9, <3>1
      <4> QED BY <1>6, <3>0, <4>1 DEF MissionIsPaid
    <3>2. CASE x = m
      <4>1. missions'[x] = f
        BY <1>9, <3>2
      <4>2. MissionIsPaid(f, m, payments')
        BY <1>4, <1>6, <1>7, <1>8, <3>0, <3>2 DEF MissionIsPaid
      <4> QED BY <3>2, <4>1, <4>2
    <3> QED BY <3>1, <3>2
  <2> QED BY <1>9, <2>1 DEF MissionsPaid
<1>11. ScriptsKnow'
  <2>1. ASSUME NEW x, SentinelPaid(x) PROVE SentinelPaid(x)'
    BY <1>0, <1>4, <2>1 DEF SentinelPaid
  <2>2. Scripts' = Scripts
    BY <1>0 DEF Scripts
  <2>3. \A runs : RunsKnown(runs) => RunsKnown(runs)'
    BY <1>9 DEF RunsKnown
  <2> QED BY <1>0, <1>9, <2>1, <2>2, <2>3 DEF ScriptsKnow, RehearsalInv, RunsKnown, SentinelPaid
<1>12. RehearsalTypeOK'
  <2>1. Scripts' = Scripts
    BY <1>0 DEF Scripts
  <2> QED BY <1>0, <1>4, <1>9, <2>1 DEF RehearsalTypeOK
<1> QED BY <1>5, <1>10, <1>11, <1>12 DEF RehearsalInv

\* Steps that pay nothing keep what the days cost.
LEMMA DaysKept ==
  ASSUME DaysWithinCap, payments' = payments, plan' = plan
  PROVE  DaysWithinCap'
<1>1. PriceAt' = PriceAt /\ \A d \in Nat : OfDay(d)' = OfDay(d)
  BY DEF PriceAt, OfDay
<1> QED BY <1>1 DEF DaysWithinCap, CapOf

\* The mission moves on, and what it notes of its payments stays.
LEMMA MissionStep ==
  ASSUME RehearsalInv, NEW m \in DOMAIN missions,
         Audited(m) \/ MissionCompletes(m) \/ MissionFails(m) \/ RecoverMission(m) \/ RecoverSettledAudit(m)
  PROVE  RehearsalInv'
<1>0. /\ RehearsalTypeOK /\ missions \in Seq(MissionRecords) /\ missions[m] \in MissionRecords
      /\ UNCHANGED <<plan, active, today, payments, terminal, stability>>
  BY DEF RehearsalInv, RehearsalTypeOK, Audited, MissionCompletes, MissionFails, RecoverMission,
         RecoverSettledAudit
<1>1. MissionIsPaid(missions[m], m, payments)
  BY DEF RehearsalInv, MissionsPaid
<1>2. PICK f \in MissionRecords :
        missions' = [missions EXCEPT ![m] = f] /\ MissionIsPaid(f, m, payments)
  <2>1. CASE Audited(m) \/ RecoverSettledAudit(m)
    <3>1. PICK f : f = [missions[m] EXCEPT !.delivered = TRUE]
      OBVIOUS
    <3>2. missions' = [missions EXCEPT ![m] = f] /\ missions[m].audit # 0
      BY <1>0, <2>1, <3>1 DEF Audited, RecoverSettledAudit
    <3>3. f \in MissionRecords /\ f.delivered /\ f.audit = missions[m].audit
          /\ f.verify = missions[m].verify /\ f.status = missions[m].status
      BY <1>0, <3>1 DEF MissionRecords
    <3>4. MissionIsPaid(f, m, payments)
      BY <1>1, <3>2, <3>3 DEF MissionIsPaid
    <3> QED BY <3>2, <3>3, <3>4
  <2>2. CASE MissionCompletes(m)
    <3>1. PICK f : f = [missions[m] EXCEPT !.status = "completed",
                          !.source = IF InState(m, "recovering") THEN "recovered" ELSE "live"]
      OBVIOUS
    <3>2. missions' = [missions EXCEPT ![m] = f] /\ missions[m].verify # 0
      BY <1>0, <2>2, <3>1 DEF MissionCompletes
    <3>3. f \in MissionRecords /\ f.delivered = missions[m].delivered /\ f.audit = missions[m].audit
          /\ f.verify = missions[m].verify
      BY <1>0, <3>1 DEF MissionRecords
    <3>4. MissionIsPaid(f, m, payments)
      BY <1>1, <3>2, <3>3 DEF MissionIsPaid
    <3> QED BY <3>2, <3>3, <3>4
  <2>3. CASE MissionFails(m) \/ RecoverMission(m)
    <3>1. PICK s \in {"failed", "recovering"} : missions' = [missions EXCEPT ![m].status = s]
      BY <2>3 DEF MissionFails, RecoverMission, Becomes
    <3>2. PICK f : f = [missions[m] EXCEPT !.status = s]
      OBVIOUS
    <3>3. missions' = [missions EXCEPT ![m] = f]
      BY <1>0, <3>1, <3>2
    <3>4. f \in MissionRecords /\ f.delivered = missions[m].delivered /\ f.audit = missions[m].audit
          /\ f.verify = missions[m].verify /\ f.status # "completed"
      BY <1>0, <3>2 DEF MissionRecords
    <3>5. MissionIsPaid(f, m, payments)
      BY <1>1, <3>4 DEF MissionIsPaid
    <3> QED BY <3>3, <3>4, <3>5
  <2> QED BY <2>1, <2>2, <2>3
<1>3. /\ missions' \in Seq(MissionRecords) /\ DOMAIN missions' = DOMAIN missions /\ missions'[m] = f
      /\ \A x \in DOMAIN missions : x # m => missions'[x] = missions[x]
  BY <1>0, <1>2
<1>4. MissionsPaid'
  <2>1. \A x \in DOMAIN missions : MissionIsPaid(missions'[x], x, payments)
    BY <1>2, <1>3 DEF RehearsalInv, MissionsPaid
  <2> QED BY <1>0, <1>3, <2>1 DEF MissionsPaid
<1>5. DaysWithinCap'
  BY <1>0, DaysKept DEF RehearsalInv
<1>6. Scripts' = Scripts /\ \A runs : RunsKnown(runs) => RunsKnown(runs)'
  BY <1>0, <1>3 DEF Scripts, RunsKnown
<1>7. ScriptsKnow'
  BY <1>0, <1>3, <1>6 DEF ScriptsKnow, RehearsalInv, RunsKnown, SentinelPaid
<1>8. RehearsalTypeOK'
  BY <1>0, <1>3, <1>6 DEF RehearsalTypeOK
<1> QED BY <1>4, <1>5, <1>7, <1>8 DEF RehearsalInv

\* A mission is added, and a script may wait for it.
LEMMA PostStep ==
  ASSUME RehearsalInv, OtherRun \/ \E i \in Scripts : PostRun(i)
  PROVE  RehearsalInv'
<1>0. /\ RehearsalTypeOK /\ missions \in Seq(MissionRecords)
      /\ missions' = Append(missions, NewMission)
      /\ UNCHANGED <<plan, active, today, payments, stability>>
  BY DEF RehearsalInv, RehearsalTypeOK, OtherRun, PostRun
<1>1. PICK f : f = NewMission
  OBVIOUS
<1>2. f \in MissionRecords /\ \A x : MissionIsPaid(f, x, payments)
  BY <1>1 DEF NewMission, MissionRecords, MissionIsPaid
<1>3. PICK n : n = Len(missions) + 1
  OBVIOUS
<1>4. /\ missions' \in Seq(MissionRecords) /\ DOMAIN missions' = DOMAIN missions \cup {n}
      /\ missions'[n] = f /\ Len(missions') = n /\ n \in Nat
      /\ \A x \in DOMAIN missions : missions'[x] = missions[x]
  BY <1>0, <1>1, <1>2, <1>3
<1>5. MissionsPaid'
  <2>1. \A x \in DOMAIN missions' : MissionIsPaid(missions'[x], x, payments)
    BY <1>2, <1>4 DEF RehearsalInv, MissionsPaid
  <2> QED BY <1>0, <2>1 DEF MissionsPaid
<1>6. DaysWithinCap'
  BY <1>0, DaysKept DEF RehearsalInv
<1>7. Scripts' = Scripts /\ \A runs : RunsKnown(runs) => RunsKnown(runs)'
  BY <1>0, <1>4 DEF Scripts, RunsKnown
<1>8. /\ terminal' \in [Scripts -> ScriptRecords]
      /\ \A j \in Scripts :
           /\ terminal'[j].runs = terminal[j].runs /\ terminal'[j].kind = terminal[j].kind
           /\ \/ terminal'[j].at = terminal[j].at /\ terminal'[j].waits = terminal[j].waits
              \/ terminal'[j].at = "waiting" /\ terminal'[j].waits = n /\ terminal[j].kind # "sentinel"
  <2>0. terminal \in [Scripts -> ScriptRecords]
    BY <1>0 DEF RehearsalTypeOK
  <2>1. CASE terminal' = terminal
    BY <2>0, <2>1
  <2>2. ASSUME NEW i \in Scripts, PostRun(i)
        PROVE  /\ terminal' \in [Scripts -> ScriptRecords]
               /\ \A j \in Scripts :
                    /\ terminal'[j].runs = terminal[j].runs /\ terminal'[j].kind = terminal[j].kind
                    /\ \/ terminal'[j].at = terminal[j].at /\ terminal'[j].waits = terminal[j].waits
                       \/ terminal'[j].at = "waiting" /\ terminal'[j].waits = n
                          /\ terminal[j].kind # "sentinel"
    <3>1. terminal[i] \in ScriptRecords /\ terminal[i].at = "next"
      BY <2>0, <2>2 DEF PostRun
    <3>2. PICK g : g = [terminal[i] EXCEPT !.at = "waiting", !.waits = n]
      OBVIOUS
    <3>3. terminal' = [terminal EXCEPT ![i] = g]
      BY <1>4, <2>0, <2>2, <3>2 DEF PostRun
    <3>4. g \in ScriptRecords /\ g.at = "waiting" /\ g.waits = n /\ g.runs = terminal[i].runs
          /\ g.kind = terminal[i].kind
      BY <1>4, <3>1, <3>2 DEF ScriptRecords
    <3>5. terminal[i].kind # "sentinel"
      BY <3>1 DEF RehearsalInv, ScriptsKnow
    <3> QED BY <2>0, <3>3, <3>4, <3>5
  <2> QED BY <2>1, <2>2 DEF OtherRun
<1>9. ScriptsKnow'
  BY <1>0, <1>4, <1>7, <1>8 DEF ScriptsKnow, RehearsalInv, RunsKnown, SentinelPaid
<1>10. RehearsalTypeOK'
  BY <1>0, <1>4, <1>7, <1>8 DEF RehearsalTypeOK
<1> QED BY <1>5, <1>6, <1>9, <1>10 DEF RehearsalInv

\* What the artifact says of a mission, and what a script at rest is.
LEMMA RunOfType ==
  ASSUME RehearsalTypeOK, NEW m \in DOMAIN missions
  PROVE  RunOf(m) \in [mission : Nat, mode : {"live", "recovered"}, auditor : Nat, verifier : Nat]
         /\ RunOf(m).mission = m
<1>1. missions[m] \in MissionRecords /\ m \in Nat
  BY DEF RehearsalTypeOK
<1> QED BY <1>1 DEF RunOf, MissionRecords

\* A script takes a new record: what it knows is known.
ScriptKnows(g) ==
  /\ RunsKnown(g.runs)
  /\ g.at = "waiting" => g.waits \in DOMAIN missions
  /\ g.at # "none" => g.kind # "sentinel"
  /\ g.kind = "sentinel" => SentinelPaid(g.waits)

LEMMA OverType ==
  ASSUME NEW kind \in {"none", "rehearsals", "acceptance", "sentinel", "over"},
         NEW at \in {"none", "next", "waiting"}, NEW n \in Nat, RehearsalTypeOK
  PROVE  /\ [NotRun EXCEPT !.kind = kind, !.at = at] \in ScriptRecords
         /\ [NotRun EXCEPT !.kind = kind, !.waits = n] \in ScriptRecords
         /\ [NotRun EXCEPT !.kind = kind] \in ScriptRecords
         /\ RunsKnown(<< >>)
<1>0. << >> \in Seq(RunRecords)
  OBVIOUS
<1>1. PICK e : e = << >> /\ e \in Seq(RunRecords)
  BY <1>0, Zenon
<1>2. RunsKnown(<< >>)
  BY DEF RunsKnown
<1>3. PICK z : z = NotRun
  OBVIOUS
<1>4. /\ z = [kind |-> "none", at |-> "none", runs |-> e, waits |-> 0]
      /\ z \in ScriptRecords
  BY <1>1, <1>3 DEF NotRun, ScriptRecords
<1>5. /\ [z EXCEPT !.kind = kind, !.at = at] \in ScriptRecords
      /\ [z EXCEPT !.kind = kind, !.waits = n] \in ScriptRecords
      /\ [z EXCEPT !.kind = kind] \in ScriptRecords
  BY <1>4 DEF ScriptRecords
<1> QED BY <1>2, <1>3, <1>5

\* A run is added to a sequence of known runs.
LEMMA RunAdded ==
  ASSUME NEW z \in Seq(RunRecords), RunsKnown(z), NEW r \in RunRecords, r.mission \in DOMAIN missions
  PROVE  Append(z, r) \in Seq(RunRecords) /\ RunsKnown(Append(z, r))
<1>1. PICK q : q = Append(z, r)
  OBVIOUS
<1>2. /\ q \in Seq(RunRecords) /\ DOMAIN q = DOMAIN z \cup {Len(z) + 1}
      /\ q[Len(z) + 1] = r /\ \A k \in DOMAIN z : q[k] = z[k]
  BY <1>1
<1>3. \A k \in DOMAIN q : q[k] = r \/ (k \in DOMAIN z /\ q[k] = z[k])
  BY <1>2
<1>4. RunsKnown(q)
  BY <1>3 DEF RunsKnown
<1> QED BY <1>1, <1>2, <1>4

\* Only one script and the artifacts change.
LEMMA ScriptMoves ==
  ASSUME RehearsalInv, NEW i \in Scripts, NEW g \in ScriptRecords, ScriptKnows(g),
         terminal' = [terminal EXCEPT ![i] = g], NEW s \in [runs : Seq(RunRecords), sentinel : Nat],
         RunsKnown(s.runs), s.sentinel # 0 => SentinelPaid(s.sentinel), stability' = s,
         UNCHANGED <<plan, active, today, payments, missions>>
  PROVE  RehearsalInv'
<1>0. terminal \in [Scripts -> ScriptRecords] /\ Scripts' = Scripts
  BY DEF RehearsalInv, RehearsalTypeOK, Scripts
<1>1. terminal' \in [Scripts -> ScriptRecords]
  BY <1>0
<1>2. MissionsPaid'
  BY DEF RehearsalInv, MissionsPaid
<1>3. DaysWithinCap'
  BY DaysKept DEF RehearsalInv
<1>4. \A j \in Scripts : terminal'[j] = terminal[j] \/ terminal'[j] = g
  BY <1>0
<1>5. ScriptsKnow'
  BY <1>0, <1>4 DEF RehearsalInv, ScriptsKnow, ScriptKnows, RunsKnown, SentinelPaid
<1>6. RehearsalTypeOK'
  BY <1>0, <1>1 DEF RehearsalInv, RehearsalTypeOK
<1> QED BY <1>2, <1>3, <1>5, <1>6 DEF RehearsalInv

LEMMA ScriptStep ==
  ASSUME RehearsalInv, RehearsalAssumption, NEW i \in Scripts,
         \/ StartRehearsals(i) \/ StartAcceptance(i) \/ RunAnswered(i) \/ Publish(i)
         \/ PublishSentinel(i) \/ ScriptStops(i)
  PROVE  RehearsalInv'
<1>0. /\ RehearsalTypeOK /\ terminal[i] \in ScriptRecords
      /\ stability \in [runs : Seq(RunRecords), sentinel : Nat]
      /\ RunsKnown(stability.runs) /\ (stability.sentinel # 0 => SentinelPaid(stability.sentinel))
      /\ ScriptKnows(terminal[i])
      /\ terminal[i].runs \in Seq(RunRecords) /\ terminal[i].waits \in Nat
      /\ UNCHANGED <<plan, active, today, payments, missions>>
  <2>1. UNCHANGED <<plan, active, today, payments, missions>>
    BY DEF StartRehearsals, StartAcceptance, RunAnswered, Publish, PublishSentinel, ScriptStops
  <2>2. RehearsalTypeOK /\ terminal[i] \in ScriptRecords /\ stability \in [runs : Seq(RunRecords), sentinel : Nat]
    BY DEF RehearsalInv, RehearsalTypeOK
  <2>3. /\ RunsKnown(stability.runs) /\ (stability.sentinel # 0 => SentinelPaid(stability.sentinel))
        /\ ScriptKnows(terminal[i])
    BY DEF RehearsalInv, ScriptsKnow, ScriptKnows
  <2>4. terminal[i].runs \in Seq(RunRecords) /\ terminal[i].waits \in Nat
    BY <2>2 DEF ScriptRecords
  <2> QED BY <2>1, <2>2, <2>3, <2>4
<1>over. PICK over \in ScriptRecords : over = [NotRun EXCEPT !.kind = "over"] /\ ScriptKnows(over)
  <2>1. [NotRun EXCEPT !.kind = "over"] \in ScriptRecords /\ RunsKnown(<< >>)
    BY <1>0, OverType, 0 \in Nat
  <2>2. PICK g \in ScriptRecords : g = [NotRun EXCEPT !.kind = "over"]
    BY <2>1
  <2>3. g.kind = "over" /\ g.at = "none" /\ g.runs = << >>
    BY <2>2 DEF NotRun
  <2> QED BY <2>1, <2>2, <2>3 DEF ScriptKnows
<1>1. CASE StartRehearsals(i)
  <2>1. PICK n \in 0..Runs : \E resumed \in [1..n -> Completed] :
          terminal' = [terminal EXCEPT ![i] = [kind |-> "rehearsals", at |-> "next", waits |-> 0,
                                               runs |-> [k \in 1..n |-> RunOf(resumed[k])]]]
    BY <1>1 DEF StartRehearsals
  <2>2. PICK resumed \in [1..n -> Completed] :
          terminal' = [terminal EXCEPT ![i] = [kind |-> "rehearsals", at |-> "next", waits |-> 0,
                                               runs |-> [k \in 1..n |-> RunOf(resumed[k])]]]
    BY <2>1
  <2>3. PICK q : q = [k \in 1..n |-> RunOf(resumed[k])]
    OBVIOUS
  <2>4. \A k \in 1..n : RunOf(resumed[k]) \in RunRecords /\ RunOf(resumed[k]).mission \in DOMAIN missions
    BY <1>0, RunOfType DEF Completed, RunRecords
  <2>5. n \in Nat
    BY RehearsalAssumption DEF RehearsalAssumption
  <2>6. q \in Seq(RunRecords) /\ RunsKnown(q)
    <3>1. q \in [1..n -> RunRecords] /\ DOMAIN q = 1..n
      BY <2>3, <2>4
    <3>2. q \in Seq(RunRecords)
      BY <2>5, <3>1
    <3>3. \A k \in 1..n : q[k].mission \in DOMAIN missions
      BY <2>3, <2>4
    <3> QED BY <3>1, <3>2, <3>3 DEF RunsKnown
  <2>7. PICK g : g = [kind |-> "rehearsals", at |-> "next", waits |-> 0, runs |-> q]
    OBVIOUS
  <2>8. g \in ScriptRecords /\ ScriptKnows(g)
    BY <2>6, <2>7 DEF ScriptRecords, ScriptKnows
  <2>9. terminal' = [terminal EXCEPT ![i] = g] /\ stability' = stability
    BY <1>1, <2>2, <2>3, <2>7 DEF StartRehearsals
  <2> QED BY <1>0, <2>8, <2>9, ScriptMoves
<1>2. CASE StartAcceptance(i)
  <2>1. [NotRun EXCEPT !.kind = "acceptance", !.at = "next"] \in ScriptRecords /\ RunsKnown(<< >>)
    BY <1>0, OverType, 0 \in Nat
  <2>2. PICK g \in ScriptRecords : g = [NotRun EXCEPT !.kind = "acceptance", !.at = "next"]
    BY <2>1
  <2>3. g.kind = "acceptance" /\ g.at = "next" /\ g.runs = << >>
    BY <2>2 DEF NotRun
  <2>4. ScriptKnows(g)
    BY <2>1, <2>3 DEF ScriptKnows
  <2>5. terminal' = [terminal EXCEPT ![i] = g] /\ stability' = stability
    BY <1>2, <2>2 DEF StartAcceptance
  <2> QED BY <1>0, <2>4, <2>5, ScriptMoves
<1>3. CASE RunAnswered(i)
  <2>0. terminal[i].at = "waiting" /\ terminal[i].waits \in DOMAIN missions /\ stability' = stability
    BY <1>0, <1>3 DEF RunAnswered, ScriptKnows
  <2>1. PICK r : r = RunOf(terminal[i].waits)
    OBVIOUS
  <2>2. r \in RunRecords /\ r.mission \in DOMAIN missions
    BY <1>0, <2>0, <2>1, RunOfType DEF RunRecords
  <2>3. PICK q : q = Append(terminal[i].runs, r)
    OBVIOUS
  <2>4. q \in Seq(RunRecords) /\ RunsKnown(q)
    BY <1>0, <2>2, <2>3, RunAdded DEF ScriptKnows
  <2>5. CASE terminal' = [terminal EXCEPT ![i] = over]
    BY <1>0, <1>over, <2>0, <2>5, ScriptMoves
  <2>6. CASE terminal' = [terminal EXCEPT ![i].at = "next", ![i].runs = Append(@, r)]
    <3>1. PICK g : g = [terminal[i] EXCEPT !.at = "next", !.runs = q]
      OBVIOUS
    <3>2. g \in ScriptRecords /\ g.at = "next" /\ g.runs = q /\ g.kind = terminal[i].kind
      BY <1>0, <2>4, <3>1 DEF ScriptRecords
    <3>3. terminal[i].kind # "sentinel"
      BY <1>0, <2>0 DEF ScriptKnows
    <3>4. ScriptKnows(g)
      BY <2>4, <3>2, <3>3 DEF ScriptKnows
    <3>5. terminal' = [terminal EXCEPT ![i] = g]
      <4>1. terminal \in [Scripts -> ScriptRecords]
        BY <1>0 DEF RehearsalTypeOK
      <4> QED BY <1>0, <2>3, <2>6, <3>1, <4>1
    <3> QED BY <1>0, <2>0, <3>2, <3>4, <3>5, ScriptMoves
  <2> QED BY <1>3, <1>over, <2>1, <2>5, <2>6 DEF RunAnswered
<1>4. CASE Publish(i)
  <2>1. PICK s : s = [stability EXCEPT !.runs = terminal[i].runs]
    OBVIOUS
  <2>2. s \in [runs : Seq(RunRecords), sentinel : Nat] /\ s.runs = terminal[i].runs
        /\ s.sentinel = stability.sentinel
    BY <1>0, <2>1
  <2>3. RunsKnown(s.runs) /\ (s.sentinel # 0 => SentinelPaid(s.sentinel))
    BY <1>0, <2>2 DEF ScriptKnows
  <2>4. terminal' = [terminal EXCEPT ![i] = over] /\ stability' = s
    BY <1>4, <1>over, <2>1 DEF Publish
  <2> QED BY <1>0, <1>over, <2>2, <2>3, <2>4, ScriptMoves
<1>5. CASE PublishSentinel(i)
  <2>1. PICK s : s = [stability EXCEPT !.sentinel = terminal[i].waits]
    OBVIOUS
  <2>2. s \in [runs : Seq(RunRecords), sentinel : Nat] /\ s.runs = stability.runs
        /\ s.sentinel = terminal[i].waits
    BY <1>0, <2>1
  <2>3. RunsKnown(s.runs) /\ (s.sentinel # 0 => SentinelPaid(s.sentinel))
    BY <1>0, <1>5, <2>2 DEF ScriptKnows, PublishSentinel
  <2>4. terminal' = [terminal EXCEPT ![i] = over] /\ stability' = s
    BY <1>5, <1>over, <2>1 DEF PublishSentinel
  <2> QED BY <1>0, <1>over, <2>2, <2>3, <2>4, ScriptMoves
<1>6. CASE ScriptStops(i)
  <2>1. terminal' = [terminal EXCEPT ![i] = over] /\ stability' = stability
    BY <1>6, <1>over DEF ScriptStops
  <2> QED BY <1>0, <1>over, <2>1, ScriptMoves
<1> QED BY <1>1, <1>2, <1>3, <1>4, <1>5, <1>6

\* A debit for no mission: the script of the Sentinel holds its number.
LEMMA SentinelStep ==
  ASSUME RehearsalInv, RehearsalAssumption, NEW i \in Scripts, BuySentinel(i)
  PROVE  RehearsalInv'
<1>0. /\ RehearsalTypeOK /\ payments \in Seq(PaymentRecords) /\ terminal \in [Scripts -> ScriptRecords]
      /\ Affords("sentinel") /\ Debit("sentinel", 0) /\ plan = "acceptance"
      /\ UNCHANGED <<plan, active, today, missions, stability>> /\ Scripts' = Scripts
  BY DEF RehearsalInv, RehearsalTypeOK, BuySentinel, Started, Scripts
<1>1. PICK p \in PaymentRecords : /\ p.role = "sentinel" /\ p.mission = 0 /\ p.under = active
                                  /\ p.day = today /\ payments' = Append(payments, p)
  <2>1. "sentinel" \in Roles /\ 0 \in Nat
    BY DEF Roles
  <2> QED BY <1>0, <2>1, DebitsAdd
<1>2. PICK n : n = Len(payments) + 1
  OBVIOUS
<1>3. /\ payments' \in Seq(PaymentRecords) /\ DOMAIN payments' = DOMAIN payments \cup {n}
      /\ n \in Nat /\ payments'[n] = p /\ Len(payments') = n
      /\ \A x \in DOMAIN payments : payments'[x] = payments[x]
  BY <1>0, <1>1, <1>2, PaymentAdded
<1>4. DaysWithinCap'
  <2>1. "sentinel" \in Roles
    BY DEF Roles
  <2> QED BY <1>0, <1>1, <2>1, DaysAfterDebit DEF RehearsalInv
<1>5. MissionsPaid'
  <2>1. ASSUME NEW x, NEW r, NEW k, PaidBy(payments, x, r, k) PROVE PaidBy(payments', x, r, k)
    BY <1>3, <2>1 DEF PaidBy
  <2>2. \A x \in DOMAIN missions : MissionIsPaid(missions[x], x, payments')
    BY <2>1 DEF RehearsalInv, MissionsPaid, MissionIsPaid
  <2> QED BY <1>0, <2>2 DEF MissionsPaid
<1>6. PICK g \in ScriptRecords : g = [NotRun EXCEPT !.kind = "sentinel", !.waits = n]
  BY <1>0, <1>3, OverType
<1>7. g.kind = "sentinel" /\ g.waits = n /\ g.at = "none" /\ g.runs = << >> /\ RunsKnown(<< >>)
  BY <1>0, <1>6 DEF NotRun, RunsKnown
<1>8. terminal' = [terminal EXCEPT ![i] = g]
  BY <1>3, <1>6 DEF BuySentinel
<1>9. /\ terminal' \in [Scripts -> ScriptRecords]
      /\ \A j \in Scripts : terminal'[j] = terminal[j] \/ terminal'[j] = g
  BY <1>0, <1>8
<1>10. ScriptsKnow'
  <2>1. ASSUME NEW x, SentinelPaid(x) PROVE SentinelPaid(x)'
    BY <1>0, <1>3, <2>1 DEF SentinelPaid
  <2>2. SentinelPaid(n)'
    BY <1>0, <1>1, <1>3 DEF SentinelPaid
  <2>3. \A runs : RunsKnown(runs) => RunsKnown(runs)'
    BY <1>0 DEF RunsKnown
  <2>4. ASSUME NEW j \in Scripts
        PROVE  (/\ RunsKnown(terminal[j].runs)
                /\ terminal[j].at = "waiting" => terminal[j].waits \in DOMAIN missions
                /\ terminal[j].at # "none" => terminal[j].kind # "sentinel"
                /\ terminal[j].kind = "sentinel" => SentinelPaid(terminal[j].waits))'
    <3>1. CASE terminal'[j] = g
      BY <1>7, <2>2, <3>1 DEF RunsKnown
    <3>2. CASE terminal'[j] = terminal[j]
      BY <1>0, <2>1, <2>3, <3>2 DEF RehearsalInv, ScriptsKnow, RunsKnown
    <3> QED BY <1>9, <3>1, <3>2
  <2>5. RunsKnown(stability.runs)'
    BY <1>0, <2>3 DEF RehearsalInv, ScriptsKnow
  <2>6. (stability.sentinel # 0 => SentinelPaid(stability.sentinel))'
    BY <1>0, <2>1 DEF RehearsalInv, ScriptsKnow
  <2> QED BY <1>0, <2>4, <2>5, <2>6 DEF ScriptsKnow
<1>11. RehearsalTypeOK'
  BY <1>0, <1>3, <1>9 DEF RehearsalTypeOK
<1> QED BY <1>4, <1>5, <1>10, <1>11 DEF RehearsalInv

\* The artifact is written from a mission that was recovered.
LEMMA FinaliseStep ==
  ASSUME RehearsalInv, NEW m \in DOMAIN missions, FinaliseAcceptance(m)
  PROVE  RehearsalInv'
<1>0. /\ RehearsalTypeOK /\ UNCHANGED <<plan, active, today, payments, missions, terminal>>
      /\ Scripts' = Scripts /\ stability \in [runs : Seq(RunRecords), sentinel : Nat]
  BY DEF RehearsalInv, RehearsalTypeOK, FinaliseAcceptance, Scripts
<1>1. PICK r : r = RunOf(m)
  OBVIOUS
<1>2. r \in RunRecords /\ r.mission = m
  BY <1>0, <1>1, RunOfType DEF RunRecords
<1>3. PICK q : q = <<r>>
  OBVIOUS
<1>4. q \in Seq(RunRecords) /\ RunsKnown(q)
  BY <1>2, <1>3 DEF RunsKnown
<1>5. PICK s : s = [stability EXCEPT !.runs = q]
  OBVIOUS
<1>6. s \in [runs : Seq(RunRecords), sentinel : Nat] /\ s.runs = q /\ s.sentinel = stability.sentinel
  BY <1>0, <1>4, <1>5
<1>7. stability' = s
  BY <1>1, <1>3, <1>5 DEF FinaliseAcceptance
<1>8. MissionsPaid' /\ DaysWithinCap'
  BY <1>0, DaysKept DEF RehearsalInv, MissionsPaid
<1>9. ScriptsKnow'
  BY <1>0, <1>4, <1>6, <1>7 DEF RehearsalInv, ScriptsKnow, RunsKnown, SentinelPaid
<1>10. RehearsalTypeOK'
  BY <1>0, <1>6, <1>7 DEF RehearsalTypeOK
<1> QED BY <1>8, <1>9, <1>10 DEF RehearsalInv

\* The authority is revoked and followed, and days end.
LEMMA AuthorityStep ==
  ASSUME RehearsalInv, Revoke \/ ApproveAnother \/ Midnight \/ UNCHANGED rehearsalVars
  PROVE  RehearsalInv'
<1>1. UNCHANGED <<plan, payments, missions, terminal, stability>> /\ Scripts' = Scripts
  BY DEF Revoke, ApproveAnother, Midnight, rehearsalVars, Scripts
<1>2. active' \in {"approved", "none", "later"} /\ today' \in Nat
  <2>1. active \in {"approved", "none", "later"} /\ today \in Nat
    BY DEF RehearsalInv, RehearsalTypeOK
  <2> QED BY <2>1 DEF Revoke, ApproveAnother, Midnight, rehearsalVars
<1>3. MissionsPaid' /\ DaysWithinCap'
  BY <1>1, DaysKept DEF RehearsalInv, MissionsPaid
<1>4. ScriptsKnow'
  BY <1>1 DEF RehearsalInv, ScriptsKnow, RunsKnown, SentinelPaid
<1>5. RehearsalTypeOK'
  BY <1>1, <1>2 DEF RehearsalInv, RehearsalTypeOK
<1> QED BY <1>3, <1>4, <1>5 DEF RehearsalInv

\* The cap of either plan is a natural number.
LEMMA CapIsNat ==
  ASSUME RehearsalAssumption, NEW p
  PROVE  CapOf(p) \in Nat
<1>1. PICK a, v, s : /\ a = PriceOf["auditor"] /\ v = PriceOf["verifier"] /\ s = PriceOf["sentinel"]
                     /\ a \in Nat /\ v \in Nat /\ s \in Nat
  BY DEF RehearsalAssumption
<1>2. Runs \in Nat
  BY DEF RehearsalAssumption
<1>3. Runs * (a + v) \in Nat /\ a + v + s \in Nat
  BY <1>1, <1>2
<1> QED BY <1>1, <1>3 DEF CapOf

LEMMA RehearsalInitially == ASSUME RehearsalInit, RehearsalAssumption PROVE RehearsalInv
<1>1. RehearsalTypeOK
  <2>1. plan \in {"rehearsals", "acceptance"} /\ active = "approved" /\ today \in Nat
    BY DEF RehearsalInit
  <2>2. payments \in Seq(PaymentRecords) /\ missions \in Seq(MissionRecords)
    BY DEF RehearsalInit
  <2>3. << >> \in Seq(RunRecords)
    OBVIOUS
  <2>4. PICK e : e = << >> /\ e \in Seq(RunRecords)
    BY <2>3, Zenon
  <2>5. terminal \in [Scripts -> ScriptRecords]
    BY <2>4 DEF RehearsalInit, NotRun, ScriptRecords
  <2>6. stability \in [runs : Seq(RunRecords), sentinel : Nat]
    BY <2>4 DEF RehearsalInit, NoArtifact
  <2> QED BY <2>1, <2>2, <2>5, <2>6 DEF RehearsalTypeOK
<1>2. MissionsPaid
  BY DEF RehearsalInit, MissionsPaid
<1>3. ScriptsKnow
  BY DEF RehearsalInit, ScriptsKnow, RunsKnown, NotRun, NoArtifact
<1>4. DaysWithinCap
  <2>1. ASSUME NEW d PROVE OfDay(d) = {}
    BY DEF RehearsalInit, OfDay
  <2>2. PICK w : w = PriceAt
    OBVIOUS
  <2>3. Weight(w, {}) = 0
    BY WeightUnfolds, FS_EmptySet
  <2>4. \A d : Weight(PriceAt, OfDay(d)) = 0
    BY <2>1, <2>2, <2>3
  <2>5. CapOf(plan) \in Nat
    BY CapIsNat
  <2> QED BY <2>4, <2>5 DEF DaysWithinCap
<1> QED BY <1>1, <1>2, <1>3, <1>4 DEF RehearsalInv

LEMMA RehearsalSteps ==
  ASSUME RehearsalInv, RehearsalAssumption, [RehearsalNext]_rehearsalVars
  PROVE  RehearsalInv'
BY HireStep, MissionStep, PostStep, ScriptStep, SentinelStep, FinaliseStep, AuthorityStep DEF RehearsalNext

\* Missions note payments made for them, scripts and artifacts name missions
\* and payments that exist, and no day of the approved authority exceeds its cap.
THEOREM RehearsalInvariant == RehearsalSpec => []RehearsalInv
<1>1. RehearsalInit => RehearsalInv
  BY RehearsalInitially, RehearsalAssumption
<1>2. RehearsalInv /\ [RehearsalNext]_rehearsalVars => RehearsalInv'
  BY RehearsalSteps, RehearsalAssumption
<1> QED BY <1>1, <1>2, PTL DEF RehearsalSpec

\* n payments of one kind and n of another, all distinct.
LEMMA EachPaysOnce ==
  ASSUME NEW n \in Nat, NEW A, NEW V, NEW f \in Surjection(1..n, A), NEW g \in Surjection(1..n, V),
         A \cap V = {}, Cardinality(A \cup V) = 2 * n
  PROVE  IsFiniteSet(A) /\ IsFiniteSet(V) /\ Cardinality(A) = n /\ Cardinality(V) = n
<1>1. IsFiniteSet(1..n) /\ Cardinality(1..n) = n
  BY FS_Interval
<1>2. ASSUME NEW T, NEW h \in Surjection(1..n, T)
      PROVE  IsFiniteSet(T) /\ Cardinality(T) \in Nat /\ Cardinality(T) <= n
  <2>1. IsFiniteSet(T) /\ Cardinality(T) <= n
    BY <1>1, FS_Surjection
  <2> QED BY <2>1, FS_CardinalityType
<1>3. /\ IsFiniteSet(A) /\ Cardinality(A) \in Nat /\ Cardinality(A) <= n
      /\ IsFiniteSet(V) /\ Cardinality(V) \in Nat /\ Cardinality(V) <= n
  BY <1>2
<1>4. Cardinality(A \cup V) = Cardinality(A) + Cardinality(V)
  <2>1. Cardinality(A \cup V) = Cardinality(A) + Cardinality(V) - Cardinality(A \cap V)
    BY <1>3, FS_Union
  <2>2. Cardinality(A \cap V) = 0
    BY FS_EmptySet
  <2> QED BY <1>3, <2>1, <2>2
<1> QED BY <1>3, <1>4

\* The weight of three kinds of payments, each of one price.
LEMMA WeightOfKinds ==
  ASSUME NEW w, NEW A, NEW V, NEW S, IsFiniteSet(A), IsFiniteSet(V), IsFiniteSet(S),
         A \cap V = {}, (A \cup V) \cap S = {}, NEW a \in Nat, NEW v \in Nat, NEW s \in Nat,
         \A x \in A : w[x] = a, \A x \in V : w[x] = v, \A x \in S : w[x] = s
  PROVE  Weight(w, (A \cup V) \cup S) = Cardinality(A) * a + Cardinality(V) * v + Cardinality(S) * s
<1>1. IsFiniteSet(A \cup V)
  BY FS_Union
<1>2. (\A x \in A \cup V : w[x] \in Nat) /\ (\A x \in (A \cup V) \cup S : w[x] \in Nat)
  OBVIOUS
<1>3. Weight(w, (A \cup V) \cup S) = Weight(w, A \cup V) + Weight(w, S)
  BY <1>1, <1>2, WeightUnion
<1>4. Weight(w, A \cup V) = Weight(w, A) + Weight(w, V)
  BY <1>2, WeightUnion
<1>5. Weight(w, A) = Cardinality(A) * a
  BY WeightOfEqual
<1>6. Weight(w, V) = Cardinality(V) * v
  BY WeightOfEqual
<1>7. Weight(w, S) = Cardinality(S) * s
  BY WeightOfEqual
<1> QED BY <1>3, <1>4, <1>5, <1>6, <1>7

\* The runs of accepted evidence name the payments of their missions.
LEMMA AcceptedRuns ==
  ASSUME RehearsalInv, RunsMatchMissions, NEW k \in DOMAIN stability.runs
  PROVE  /\ PaidBy(payments, stability.runs[k].auditor, "auditor", stability.runs[k].mission)
         /\ PaidBy(payments, stability.runs[k].verifier, "verifier", stability.runs[k].mission)
<1>1. PICK r : r = stability.runs[k]
  OBVIOUS
<1>2. /\ r.mission \in DOMAIN missions /\ missions[r.mission].status = "completed"
      /\ r.auditor = missions[r.mission].audit /\ r.verifier = missions[r.mission].verify
  BY <1>1 DEF RehearsalInv, ScriptsKnow, RunsKnown, RunsMatchMissions, InState
<1>3. MissionIsPaid(missions[r.mission], r.mission, payments)
  BY <1>2 DEF RehearsalInv, MissionsPaid
<1> QED BY <1>1, <1>2, <1>3 DEF MissionIsPaid

\* The claimed payments, by what they paid for.
Audits == {stability.runs[k].auditor : k \in DOMAIN stability.runs}
Verifications == {stability.runs[k].verifier : k \in DOMAIN stability.runs}
Alerts == {stability.sentinel} \ {0}

\* The three kinds share nothing.
LEMMA ClaimedKinds ==
  ASSUME RehearsalInv, RunsMatchMissions
  PROVE  /\ Claimed = (Audits \cup Verifications) \cup Alerts
         /\ UNION {ClaimedBy(stability.runs[k]) : k \in DOMAIN stability.runs} = Audits \cup Verifications
         /\ Audits \cap Verifications = {} /\ (Audits \cup Verifications) \cap Alerts = {}
         /\ Claimed \subseteq DOMAIN payments
         /\ \A x \in Audits : PriceAt[x] = PriceOf["auditor"]
         /\ \A x \in Verifications : PriceAt[x] = PriceOf["verifier"]
         /\ \A x \in Alerts : PriceAt[x] = PriceOf["sentinel"]
<1>1. UNION {ClaimedBy(stability.runs[k]) : k \in DOMAIN stability.runs} = Audits \cup Verifications
  BY DEF ClaimedBy, Audits, Verifications
<1>2. Claimed = (Audits \cup Verifications) \cup Alerts
  <2>1. PICK U : U = UNION {ClaimedBy(stability.runs[k]) : k \in DOMAIN stability.runs}
    OBVIOUS
  <2>2. Claimed = U \cup Alerts
    BY <2>1 DEF Claimed, Alerts
  <2>3. U = Audits \cup Verifications
    BY <1>1, <2>1, Zenon
  <2> QED BY <2>2, <2>3, Zenon
<1>3. \A x \in Audits : x \in DOMAIN payments /\ payments[x].role = "auditor"
  BY AcceptedRuns DEF PaidBy, Audits
<1>4. \A x \in Verifications : x \in DOMAIN payments /\ payments[x].role = "verifier"
  BY AcceptedRuns DEF PaidBy, Verifications
<1>5. \A x \in Alerts : x \in DOMAIN payments /\ payments[x].role = "sentinel"
  BY DEF RehearsalInv, ScriptsKnow, SentinelPaid, Alerts
<1>6. \A x \in DOMAIN payments : PriceAt[x] = PriceOf[payments[x].role]
  BY DEF PriceAt
<1> QED BY <1>1, <1>2, <1>3, <1>4, <1>5, <1>6

\* Accepted evidence claims the whole intended spend.
LEMMA ClaimsTheCap ==
  ASSUME RehearsalInv, RehearsalAssumption, SpendAccepted
  PROVE  Weight(PriceAt, Claimed) = CapOf(plan) /\ Claimed \subseteq DOMAIN payments
<1>0. /\ RunsMatchMissions /\ plan \in {"rehearsals", "acceptance"}
      /\ stability \in [runs : Seq(RunRecords), sentinel : Nat]
  BY DEF SpendAccepted, StabilityAccepted, AcceptanceAccepted, RehearsalInv, RehearsalTypeOK
<1>1. PICK A, V, S : A = Audits /\ V = Verifications /\ S = Alerts
  OBVIOUS
<1>2. PICK w : w = PriceAt
  OBVIOUS
<1>3. PICK a, v, s : /\ a = PriceOf["auditor"] /\ v = PriceOf["verifier"] /\ s = PriceOf["sentinel"]
                     /\ a \in Nat /\ v \in Nat /\ s \in Nat
  BY DEF RehearsalAssumption
<1>4. /\ Claimed = (A \cup V) \cup S
      /\ UNION {ClaimedBy(stability.runs[k]) : k \in DOMAIN stability.runs} = A \cup V
      /\ A \cap V = {} /\ (A \cup V) \cap S = {} /\ Claimed \subseteq DOMAIN payments
      /\ (\A x \in A : w[x] = a) /\ (\A x \in V : w[x] = v) /\ (\A x \in S : w[x] = s)
  BY <1>0, <1>1, <1>2, <1>3, ClaimedKinds, Zenon
<1>5. IsFiniteSet(S)
  <2>1. PICK o : o = stability.sentinel
    OBVIOUS
  <2>2. IsFiniteSet({o}) /\ S \subseteq {o}
    BY <1>1, <2>1, FS_Singleton DEF Alerts
  <2> QED BY <2>2, FS_Subset
<1>6. ASSUME IsFiniteSet(A), IsFiniteSet(V)
      PROVE  Weight(PriceAt, Claimed) = Cardinality(A) * a + Cardinality(V) * v + Cardinality(S) * s
  <2>1. Weight(w, (A \cup V) \cup S) = Cardinality(A) * a + Cardinality(V) * v + Cardinality(S) * s
    BY <1>3, <1>4, <1>5, <1>6, WeightOfKinds
  <2> QED BY <1>2, <1>4, <2>1
<1>7. CASE plan = "rehearsals"
  <2>1. S = {}
    BY <1>1, <1>7 DEF RehearsalInv, ScriptsKnow, SentinelPaid, Alerts
  <2>2. /\ Len(stability.runs) = Runs /\ DOMAIN stability.runs = 1..Runs /\ Runs \in Nat
        /\ Cardinality(A \cup V) = 2 * Runs
    <3>1. /\ Len(stability.runs) = Runs
          /\ Cardinality(UNION {ClaimedBy(stability.runs[k]) : k \in DOMAIN stability.runs})
               = 2 * Len(stability.runs)
      BY <1>7, Zenon DEF SpendAccepted, StabilityAccepted, Unique
    <3>2. Cardinality(A \cup V) = 2 * Runs
      BY <1>4, <3>1, Zenon
    <3>3. DOMAIN stability.runs = 1..Runs /\ Runs \in Nat
      BY <1>0, <3>1 DEF RehearsalAssumption
    <3> QED BY <3>1, <3>2, <3>3
  <2>3. PICK f, g : /\ f = [k \in 1..Runs |-> stability.runs[k].auditor]
                    /\ g = [k \in 1..Runs |-> stability.runs[k].verifier]
    OBVIOUS
  <2>4. f \in Surjection(1..Runs, A) /\ g \in Surjection(1..Runs, V)
    BY <1>1, <2>2, <2>3 DEF Surjection, Audits, Verifications
  <2>5. IsFiniteSet(A) /\ IsFiniteSet(V) /\ Cardinality(A) = Runs /\ Cardinality(V) = Runs
    <3>1. Runs \in Nat /\ A \cap V = {} /\ Cardinality(A \cup V) = 2 * Runs
      BY <1>4, <2>2
    <3> QED BY <2>4, <3>1, EachPaysOnce
  <2>6. Cardinality(S) = 0
    BY <2>1, FS_EmptySet
  <2>7. Weight(PriceAt, Claimed) = Runs * a + Runs * v + 0 * s
    BY <1>6, <2>5, <2>6
  <2>8. \A n, x, y, z \in Nat : n * x + n * y + 0 * z = n * (x + y)
    OBVIOUS
  <2>9. CapOf(plan) = Runs * (a + v)
    BY <1>3, <1>7 DEF CapOf
  <2>10. Runs * a + Runs * v + 0 * s = Runs * (a + v)
    BY <1>3, <2>2, <2>8, SMTT(40)
  <2> QED BY <1>4, <2>7, <2>9, <2>10, Zenon
<1>8. CASE plan = "acceptance"
  <2>1. DOMAIN stability.runs = {1} /\ stability.sentinel # 0
    BY <1>0, <1>8 DEF SpendAccepted, AcceptanceAccepted
  <2>2. PICK x, y, z : A = {x} /\ V = {y} /\ S = {z}
    <3>1. /\ A = {stability.runs[1].auditor} /\ V = {stability.runs[1].verifier}
          /\ S = {stability.sentinel}
      BY <1>1, <2>1 DEF Audits, Verifications, Alerts
    <3> QED BY <3>1, Zenon
  <2>3. /\ IsFiniteSet(A) /\ IsFiniteSet(V)
        /\ Cardinality(A) = 1 /\ Cardinality(V) = 1 /\ Cardinality(S) = 1
    BY <2>2, FS_Singleton
  <2>4. Weight(PriceAt, Claimed) = 1 * a + 1 * v + 1 * s
    BY <1>6, <2>3
  <2>5. CapOf(plan) = a + v + s
    BY <1>3, <1>8 DEF CapOf
  <2> QED BY <1>3, <1>4, <2>4, <2>5
<1> QED BY <1>0, <1>7, <1>8

\* Accepted evidence claims the whole intended spend in distinct payments, each
\* made for its own mission; and if they were all made in one day of the
\* approved authority, that authority paid nothing else that day.
THEOREM AcceptedSpendIsAlwaysWhole == RehearsalSpec => []AcceptedSpendIsWhole
<1>1. ASSUME RehearsalInv, RehearsalAssumption PROVE AcceptedSpendIsWhole
  <2> SUFFICES ASSUME SpendAccepted
               PROVE  /\ CostOf(Claimed) = CapOf(plan)
                      /\ \A k \in DOMAIN stability.runs : \A n \in ClaimedBy(stability.runs[k]) :
                           payments[n].mission = stability.runs[k].mission
                      /\ \A d \in 0..today : Claimed \subseteq OfDay(d) => OfDay(d) = Claimed
    BY <1>1 DEF AcceptedSpendIsWhole, OfDay
  <2>0. payments \in Seq(PaymentRecords) /\ RunsMatchMissions /\ today \in Nat
    BY <1>1 DEF RehearsalInv, RehearsalTypeOK, SpendAccepted, StabilityAccepted, AcceptanceAccepted
  <2>1. Weight(PriceAt, Claimed) = CapOf(plan) /\ Claimed \subseteq DOMAIN payments
    BY <1>1, ClaimsTheCap
  <2>2. IsFiniteSet(Claimed)
    BY <1>1, <2>0, <2>1, PaymentsFinite
  <2>3. CostOf(Claimed) = CapOf(plan)
    <3>1. PICK D : D = Claimed
      OBVIOUS
    <3>2. CostOf(D) = Weight(PriceAt, D)
      BY <2>1, <2>2, <3>1, CostIsWeight
    <3> QED BY <2>1, <3>1, <3>2
  <2>4. ASSUME NEW k \in DOMAIN stability.runs, NEW n \in ClaimedBy(stability.runs[k])
        PROVE  payments[n].mission = stability.runs[k].mission
    BY <1>1, <2>0, <2>4, AcceptedRuns DEF ClaimedBy, PaidBy
  <2>5. ASSUME NEW d \in 0..today, Claimed \subseteq OfDay(d), OfDay(d) # Claimed PROVE FALSE
    <3>1. PICK w, C, T : w = PriceAt /\ C = Claimed /\ T = OfDay(d)
      OBVIOUS
    <3>2. T \subseteq DOMAIN payments /\ d \in Nat
      BY <2>0, <2>5, <3>1 DEF OfDay
    <3>3. IsFiniteSet(T) /\ \A x \in T : w[x] \in Nat \ {0}
      BY <1>1, <2>0, <3>1, <3>2, PaymentsFinite
    <3>4. Weight(w, C) < Weight(w, T)
      BY <2>5, <3>1, <3>3, WeightOfPart
    <3>5. Weight(w, T) <= CapOf(plan)
      BY <1>1, <3>1, <3>2 DEF RehearsalInv, DaysWithinCap
    <3>6. Weight(w, C) = CapOf(plan) /\ CapOf(plan) \in Nat
      BY <1>1, <2>1, <3>1, CapIsNat
    <3>7. Weight(w, T) \in Nat
      BY <3>3, WeightIsNat
    <3> QED BY <3>4, <3>5, <3>6, <3>7
  <2> QED BY <2>3, <2>4, <2>5
<1>2. RehearsalInv => AcceptedSpendIsWhole
  BY <1>1, RehearsalAssumption
<1> QED BY <1>2, RehearsalInvariant, PTL

-----------------------------------------------------------------------------
(* HolderSnapshot: a table that adds up to the supply is exact.            *)

LogRecords == [from : Holders \cup {Zero}, to : Holders \cup {Zero}]
CameIn(c, h, L) == Cardinality({b \in L : c[b].to = h})
WentOut(c, h, L) == Cardinality({b \in L : c[b].from = h})

\* Nobody sends what it does not have.
NobodyOwes == \A b \in 0..Len(chainLog) : \A h \in Holders : BalanceOf(h, LogsIn(1, b)) >= 0

SnapshotInv ==
  /\ chainLog \in Seq(LogRecords) /\ DOMAIN scan = DOMAIN NoScan
  /\ report.block \in 0..Len(chainLog) /\ scan.block \in 0..Len(chainLog)
  /\ snapshot.block \in 0..Len(chainLog)
  /\ NobodyOwes /\ SnapshotIsExact

\* Every log has one receiver, a holder or the zero address; and one sender.
LEMMA EveryLogCounts ==
  ASSUME SnapshotAssumption, NEW L, IsFiniteSet(L), NEW f, \A b \in L : f[b] \in Holders \cup {Zero},
         NEW v, \A h \in Holders : v[h] = Cardinality(With(L, f, h))
  PROVE  /\ Weight(v, Holders) \in Nat /\ Cardinality(With(L, f, Zero)) \in Nat
         /\ Weight(v, Holders) + Cardinality(With(L, f, Zero)) = Cardinality(L)
<1>1. PICK H, Z : H = Within(L, f, Holders) /\ Z = With(L, f, Zero)
  OBVIOUS
<1>2. H \cup Z = L /\ H \cap Z = {} /\ H \subseteq L /\ Z \subseteq L
  BY <1>1 DEF SnapshotAssumption, Zero, With, Within
<1>3. IsFiniteSet(H) /\ IsFiniteSet(Z) /\ Cardinality(H) \in Nat /\ Cardinality(Z) \in Nat
  BY <1>2, FS_Subset, FS_CardinalityType
<1>4. Cardinality(L) = Cardinality(H) + Cardinality(Z)
  <2>1. Cardinality(H \cup Z) = Cardinality(H) + Cardinality(Z) - Cardinality(H \cap Z)
    BY <1>3, FS_Union
  <2>2. Cardinality(H \cap Z) = 0
    BY <1>2, FS_EmptySet
  <2>3. Cardinality(H) + Cardinality(Z) - 0 = Cardinality(H) + Cardinality(Z)
    BY <1>3
  <2> QED BY <1>2, <2>1, <2>2, <2>3, Zenon
<1>5. Weight(v, Holders) = Cardinality(H)
  <2>1. IsFiniteSet(Holders)
    BY DEF SnapshotAssumption
  <2>2. Weight(v, Holders) = Cardinality(Within(L, f, Holders))
    BY <2>1, WeightOfParts
  <2> QED BY <1>1, <2>2
<1> QED BY <1>1, <1>3, <1>4, <1>5

\* What the holders have is what was minted and not burned.
LEMMA SupplyIsHeld ==
  ASSUME SnapshotAssumption, NEW c, NEW L, IsFiniteSet(L), \A b \in L : c[b] \in LogRecords, NEW v,
         \A h \in Holders : v[h] = CameIn(c, h, L) - WentOut(c, h, L) /\ v[h] >= 0
  PROVE  /\ Weight(v, Holders) = WentOut(c, Zero, L) - CameIn(c, Zero, L)
         /\ \A h \in Holders : v[h] \in Nat
<1>1. PICK f, g : f = [b \in L |-> c[b].to] /\ g = [b \in L |-> c[b].from]
  OBVIOUS
<1>2. \A b \in L : f[b] \in Holders \cup {Zero} /\ g[b] \in Holders \cup {Zero}
  BY <1>1 DEF LogRecords
<1>3. \A h : /\ CameIn(c, h, L) = Cardinality(With(L, f, h))
             /\ WentOut(c, h, L) = Cardinality(With(L, g, h))
  <2>1. ASSUME NEW h
        PROVE  /\ {b \in L : c[b].to = h} = {b \in L : f[b] = h}
               /\ {b \in L : c[b].from = h} = {b \in L : g[b] = h}
    BY <1>1
  <2> QED BY <2>1 DEF CameIn, WentOut, With
<1>4. PICK x, y : /\ x = [h \in Holders |-> CameIn(c, h, L)]
                  /\ y = [h \in Holders |-> WentOut(c, h, L)]
  OBVIOUS
<1>5. /\ Weight(x, Holders) \in Nat /\ CameIn(c, Zero, L) \in Nat
      /\ Weight(x, Holders) + CameIn(c, Zero, L) = Cardinality(L)
  <2>1. \A h \in Holders : x[h] = Cardinality(With(L, f, h))
    BY <1>3, <1>4
  <2>2. /\ Weight(x, Holders) \in Nat /\ Cardinality(With(L, f, Zero)) \in Nat
        /\ Weight(x, Holders) + Cardinality(With(L, f, Zero)) = Cardinality(L)
    BY <1>2, <2>1, EveryLogCounts
  <2> QED BY <1>3, <2>2
<1>6. /\ Weight(y, Holders) \in Nat /\ WentOut(c, Zero, L) \in Nat
      /\ Weight(y, Holders) + WentOut(c, Zero, L) = Cardinality(L)
  <2>1. \A h \in Holders : y[h] = Cardinality(With(L, g, h))
    BY <1>3, <1>4
  <2>2. /\ Weight(y, Holders) \in Nat /\ Cardinality(With(L, g, Zero)) \in Nat
        /\ Weight(y, Holders) + Cardinality(With(L, g, Zero)) = Cardinality(L)
    BY <1>2, <2>1, EveryLogCounts
  <2> QED BY <1>3, <2>2
<1>7. \A h \in Holders : x[h] \in Nat /\ y[h] \in Nat
  <2>1. ASSUME NEW h PROVE CameIn(c, h, L) \in Nat /\ WentOut(c, h, L) \in Nat
    <3>1. {b \in L : c[b].to = h} \subseteq L /\ {b \in L : c[b].from = h} \subseteq L
      OBVIOUS
    <3> QED BY <3>1, FS_Subset, FS_CardinalityType DEF CameIn, WentOut
  <2> QED BY <1>4, <2>1
<1>8. \A h \in Holders : v[h] \in Nat /\ x[h] = y[h] + v[h]
  BY <1>4, <1>7
<1>9. Weight(x, Holders) = Weight(y, Holders) + Weight(v, Holders)
  <2>1. IsFiniteSet(Holders)
    BY DEF SnapshotAssumption
  <2> QED BY <1>7, <1>8, <2>1, WeightAdds
<1>10. Weight(v, Holders) \in Nat
  <2>1. IsFiniteSet(Holders)
    BY DEF SnapshotAssumption
  <2> QED BY <1>8, <2>1, WeightIsNat
<1>11. Cardinality(L) \in Nat
  BY FS_CardinalityType
<1> QED BY <1>5, <1>6, <1>8, <1>9, <1>10, <1>11

\* The sum of a table is the weight of its rows.
LEMMA SumIsWeightOfRows ==
  ASSUME NEW T, IsFiniteSet(T)
  PROVE  SumOf(T) = Weight([r \in T |-> r.balance], T)
<1> DEFINE w == [r \in T |-> r.balance]
           Body(f) == [s \in SUBSET T |-> IF s = {} THEN 0 ELSE First(s).balance + f[s \ {First(s)}]]
           F == CHOOSE f : f = Body(f)
<1>1. SumOf(T) = F[T]
  BY DEF SumOf, MapThenSumSet, MapThenFoldSet, First
<1>2. ASSUME NEW f PROVE Body(f) = Round(w, T, f)
  <2>1. ASSUME NEW s \in SUBSET T, s # {} PROVE w[First(s)] = First(s).balance
    BY <2>1, FirstIsIn
  <2>2. Round(w, T, f) = [s \in SUBSET T |-> IF s = {} THEN 0 ELSE w[First(s)] + f[s \ {First(s)}]]
    BY DEF Round
  <2> HIDE DEF w
  <2> QED BY <2>1, <2>2
<1>3. Fold(w, T) = Body(Fold(w, T))
  <2> HIDE DEF w, Body
  <2> QED BY <1>2, FoldExists
<1>4. F = Body(F)
  <2> HIDE DEF Body
  <2> QED BY <1>3
<1>5. F = Round(w, T, F)
  <2> HIDE DEF Body, F, w
  <2> QED BY <1>2, <1>4
<1>6. F[T] = Weight(w, T)
  <2> HIDE DEF F, w
  <2> QED BY <1>5, FoldIsWeight
<1> QED BY <1>1, <1>6

LEMMA BalancesAreHeld ==
  ASSUME SnapshotAssumption, NEW L, IsFiniteSet(L), \A b \in L : chainLog[b] \in LogRecords,
         \A h \in Holders : BalanceOf(h, L) >= 0
  PROVE  /\ Weight([h \in Holders |-> BalanceOf(h, L)], Holders) = SupplyOf(L)
         /\ SupplyOf(L) \in Nat /\ \A h \in Holders : BalanceOf(h, L) \in Nat
<1>1. PICK c, v : c = chainLog /\ v = [h \in Holders |-> BalanceOf(h, L)]
  OBVIOUS
<1>2. \A h : BalanceOf(h, L) = CameIn(c, h, L) - WentOut(c, h, L)
  BY <1>1 DEF BalanceOf, CameIn, WentOut
<1>3. /\ Weight(v, Holders) = WentOut(c, Zero, L) - CameIn(c, Zero, L)
      /\ \A h \in Holders : v[h] \in Nat
  <2>1. \A h \in Holders : v[h] = CameIn(c, h, L) - WentOut(c, h, L) /\ v[h] >= 0
    BY <1>1, <1>2
  <2>2. \A b \in L : c[b] \in LogRecords
    BY <1>1
  <2> QED BY <2>1, <2>2, SupplyIsHeld
<1>4. \A h : CameIn(c, h, L) \in Nat /\ WentOut(c, h, L) \in Nat
  <2>1. ASSUME NEW h PROVE CameIn(c, h, L) \in Nat /\ WentOut(c, h, L) \in Nat
    <3>1. {b \in L : c[b].to = h} \subseteq L /\ {b \in L : c[b].from = h} \subseteq L
      OBVIOUS
    <3> QED BY <3>1, FS_Subset, FS_CardinalityType DEF CameIn, WentOut
  <2> QED BY <2>1
<1>5. SupplyOf(L) = WentOut(c, Zero, L) - CameIn(c, Zero, L)
  <2>1. \A a, b \in Nat : 0 - (a - b) = b - a
    OBVIOUS
  <2> QED BY <1>2, <1>4, <2>1 DEF SupplyOf
<1>6. Weight(v, Holders) \in Nat
  <2>1. IsFiniteSet(Holders)
    BY DEF SnapshotAssumption
  <2> QED BY <1>3, <2>1, WeightIsNat
<1> QED BY <1>1, <1>3, <1>5, <1>6

\* A table whose rows add up to the supply misses no holder.
LEMMA TableIsWhole ==
  ASSUME SnapshotAssumption, NEW L, IsFiniteSet(L), \A b \in L : chainLog[b] \in LogRecords,
         \A h \in Holders : BalanceOf(h, L) >= 0,
         NEW P \in SUBSET Holders, SumOf(Table(P, L)) = SupplyOf(L)
  PROVE  Table(P, L) = Table(Holders, L)
<1>1. PICK v : v = [h \in Holders |-> BalanceOf(h, L)]
  OBVIOUS
<1>2. /\ Weight(v, Holders) = SupplyOf(L) /\ SupplyOf(L) \in Nat
      /\ \A h \in Holders : v[h] = BalanceOf(h, L) /\ v[h] \in Nat
  BY <1>1, BalancesAreHeld
<1>3. PICK K : K = {h \in Holders : v[h] > 0}
  OBVIOUS
<1>4. PICK f : f = [h \in Holders |-> [holder |-> h, balance |-> v[h]]]
  OBVIOUS
<1>5. PICK T, F : T = Table(P, L) /\ F = Table(Holders, L)
  OBVIOUS
<1>6. F = {f[h] : h \in K} /\ T \subseteq F
  BY <1>2, <1>3, <1>4, <1>5 DEF Table
<1>7. PICK w : w = [r \in F |-> r.balance]
  OBVIOUS
<1>8. \A h \in K : w[f[h]] = v[h] /\ v[h] \in Nat \ {0}
  <2>1. \A h \in K : f[h] \in F /\ f[h].balance = v[h] /\ v[h] \in Nat /\ v[h] > 0
    BY <1>2, <1>3, <1>4, <1>6
  <2> QED BY <1>7, <2>1
<1>9. IsFiniteSet(Holders) /\ IsFiniteSet(K) /\ IsFiniteSet(Holders \ K) /\ K \subseteq Holders
  BY <1>3, FS_Subset DEF SnapshotAssumption
<1>10. IsFiniteSet(F) /\ Weight(w, F) = Weight(v, K)
  <2>1. \A x, y \in K : f[x] = f[y] => x = y
    <3>1. \A x \in K : f[x].holder = x
      BY <1>3, <1>4
    <3> QED BY <3>1
  <2>2. \A x \in K : v[x] = w[f[x]] /\ v[x] \in Nat
    BY <1>8
  <2>3. IsFiniteSet(Mapped(f, K)) /\ Weight(w, Mapped(f, K)) = Weight(v, K)
    BY <1>9, <2>1, <2>2, WeightOfImage
  <2> QED BY <1>6, <2>3 DEF Mapped
<1>11. Weight(v, K) = SupplyOf(L)
  <2>1. K \cup (Holders \ K) = Holders /\ K \cap (Holders \ K) = {}
    BY <1>9
  <2>2. Weight(v, K \cup (Holders \ K)) = Weight(v, K) + Weight(v, Holders \ K)
    <3>1. \A x \in K \cup (Holders \ K) : v[x] \in Nat
      BY <1>2, <2>1
    <3> QED BY <1>9, <2>1, <3>1, WeightUnion
  <2>3. Weight(v, Holders \ K) = Cardinality(Holders \ K) * 0
    <3>1. \A x \in Holders \ K : v[x] = 0
      BY <1>2, <1>3
    <3> QED BY <1>9, <3>1, WeightOfEqual, 0 \in Nat
  <2>4. Cardinality(Holders \ K) \in Nat /\ Weight(v, K) \in Nat
    BY <1>2, <1>9, FS_CardinalityType, WeightIsNat
  <2>5. \A a, b \in Nat : a + b * 0 = a
    OBVIOUS
  <2>6. Weight(v, K) + Cardinality(Holders \ K) * 0 = Weight(v, K)
    BY <2>4, <2>5
  <2> QED BY <1>2, <2>1, <2>2, <2>3, <2>6, Zenon
<1>12. IsFiniteSet(T)
  BY <1>6, <1>10, FS_Subset
<1>13. SumOf(T) = Weight(w, T)
  <2>1. PICK u : u = [r \in T |-> r.balance]
    OBVIOUS
  <2>2. SumOf(T) = Weight(u, T)
    BY <1>12, <2>1, SumIsWeightOfRows
  <2>3. \A r \in T : u[r] = w[r]
    BY <1>6, <1>7, <2>1
  <2>4. \A r \in T : u[r] \in Nat
    <3>1. \A r \in F : w[r] \in Nat
      BY <1>6, <1>8
    <3> QED BY <1>6, <2>3, <3>1
  <2> QED BY <1>12, <2>2, <2>3, <2>4, WeightSame
<1>14. ASSUME T # F PROVE FALSE
  <2>1. \A r \in F : w[r] \in Nat \ {0}
    BY <1>6, <1>8
  <2>2. Weight(w, T) < Weight(w, F)
    BY <1>6, <1>10, <1>14, <2>1, WeightOfPart
  <2>3. Weight(w, T) = SupplyOf(L) /\ Weight(w, F) = SupplyOf(L)
    BY <1>5, <1>10, <1>11, <1>13
  <2> QED BY <1>2, <2>2, <2>3
<1> QED BY <1>5, <1>14

\* A block is added; the logs and balances of earlier blocks stay.
LEMMA ChainGrows ==
  ASSUME chainLog \in Seq(LogRecords), NEW t \in LogRecords, chainLog' = Append(chainLog, t),
         NEW k, k = Len(chainLog) + 1
  PROVE  /\ chainLog' \in Seq(LogRecords) /\ Len(chainLog') = k /\ chainLog'[k] = t
         /\ k \in Nat /\ k \notin DOMAIN chainLog /\ 0..k = (0..Len(chainLog)) \cup {k}
         /\ \A b \in DOMAIN chainLog : chainLog'[b] = chainLog[b]
         /\ \A b \in 0..Len(chainLog) : LogsIn(1, b)' = LogsIn(1, b)
         /\ LogsIn(1, k)' = IF t = Quiet THEN LogsIn(1, Len(chainLog))
                            ELSE LogsIn(1, Len(chainLog)) \cup {k}
<1>1. /\ chainLog' \in Seq(LogRecords) /\ Len(chainLog') = k /\ chainLog'[k] = t
      /\ k \in Nat /\ k \notin DOMAIN chainLog /\ 0..k = (0..Len(chainLog)) \cup {k}
      /\ \A b \in DOMAIN chainLog : chainLog'[b] = chainLog[b]
      /\ DOMAIN chainLog' = 1..k /\ DOMAIN chainLog = 1..Len(chainLog) /\ Len(chainLog) \in Nat
  OBVIOUS
<1>2. ASSUME NEW b \in 0..Len(chainLog) PROVE LogsIn(1, b)' = LogsIn(1, b)
  <2>1. \A x \in 1..b : x \in DOMAIN chainLog' /\ x \in DOMAIN chainLog /\ chainLog'[x] = chainLog[x]
    BY <1>1
  <2> QED BY <2>1 DEF LogsIn, Quiet, Zero
<1>3. LogsIn(1, k)' = IF t = Quiet THEN LogsIn(1, Len(chainLog))
                      ELSE LogsIn(1, Len(chainLog)) \cup {k}
  <2>1. 1..k = (1..Len(chainLog)) \cup {k}
    BY <1>1
  <2>2. LogsIn(1, k)' = {b \in 1..k : chainLog'[b] # Quiet}
    BY <1>1 DEF LogsIn, Quiet, Zero
  <2>3. LogsIn(1, Len(chainLog)) = {b \in 1..Len(chainLog) : chainLog[b] # Quiet}
    BY <1>1 DEF LogsIn
  <2> QED BY <1>1, <2>1, <2>2, <2>3, ZenonT(40)
<1> QED BY <1>1, <1>2, <1>3

\* The logs of a block, and what they are.
LEMMA LogsOfBlock ==
  ASSUME chainLog \in Seq(LogRecords), NEW b \in 0..Len(chainLog)
  PROVE  /\ IsFiniteSet(LogsIn(1, b)) /\ LogsIn(1, b) \subseteq DOMAIN chainLog
         /\ \A x \in LogsIn(1, b) : chainLog[x] \in LogRecords
<1>1. LogsIn(1, b) \subseteq 1..b /\ LogsIn(1, b) \subseteq DOMAIN chainLog /\ b \in Int
  BY DEF LogsIn
<1>2. IsFiniteSet(LogsIn(1, b))
  BY <1>1, FS_Interval, FS_Subset
<1> QED BY <1>1, <1>2

\* Balances depend on the logs they count only.
LEMMA BalanceKept ==
  ASSUME NEW L, \A b \in L : chainLog'[b] = chainLog[b], NEW h
  PROVE  BalanceOf(h, L)' = BalanceOf(h, L)
<1>1. /\ {b \in L : chainLog'[b].to = h} = {b \in L : chainLog[b].to = h}
      /\ {b \in L : chainLog'[b].from = h} = {b \in L : chainLog[b].from = h}
  OBVIOUS
<1> QED BY <1>1 DEF BalanceOf

\* One log more takes at most one unit, and only from its sender.
LEMMA BalanceMoves ==
  ASSUME NEW c, NEW L, IsFiniteSet(L), NEW k, k \notin L, NEW h
  PROVE  /\ CameIn(c, h, L \cup {k}) >= CameIn(c, h, L)
         /\ WentOut(c, h, L \cup {k}) <= WentOut(c, h, L) + 1
         /\ c[k].from # h => WentOut(c, h, L \cup {k}) = WentOut(c, h, L)
         /\ CameIn(c, h, L \cup {k}) \in Nat /\ CameIn(c, h, L) \in Nat
         /\ WentOut(c, h, L \cup {k}) \in Nat /\ WentOut(c, h, L) \in Nat
<1>1. PICK A, B, N : A = {b \in L : c[b].to = h} /\ B = {b \in L : c[b].from = h} /\ N = L \cup {k}
  OBVIOUS
<1>2. /\ A \subseteq L /\ B \subseteq L /\ k \notin A /\ k \notin B
      /\ IsFiniteSet(A) /\ IsFiniteSet(B) /\ Cardinality(A) \in Nat /\ Cardinality(B) \in Nat
  BY <1>1, FS_Subset, FS_CardinalityType
<1>3. /\ Cardinality(A \cup {k}) = Cardinality(A) + 1
      /\ Cardinality(B \cup {k}) = Cardinality(B) + 1
  BY <1>2, FS_AddElement
<1>4. {b \in N : c[b].to = h} = IF c[k].to = h THEN A \cup {k} ELSE A
  BY <1>1
<1>5. {b \in N : c[b].from = h} = IF c[k].from = h THEN B \cup {k} ELSE B
  BY <1>1
<1>6. CameIn(c, h, N) = Cardinality(A) \/ CameIn(c, h, N) = Cardinality(A) + 1
  BY <1>3, <1>4, Zenon DEF CameIn
<1>7. /\ WentOut(c, h, N) = Cardinality(B) \/ WentOut(c, h, N) = Cardinality(B) + 1
      /\ c[k].from # h => WentOut(c, h, N) = Cardinality(B)
  BY <1>3, <1>5, Zenon DEF WentOut
<1>8. CameIn(c, h, L) = Cardinality(A) /\ WentOut(c, h, L) = Cardinality(B)
  BY <1>1 DEF CameIn, WentOut
<1>9. /\ CameIn(c, h, N) >= CameIn(c, h, L) /\ WentOut(c, h, N) <= WentOut(c, h, L) + 1
      /\ CameIn(c, h, N) \in Nat /\ WentOut(c, h, N) \in Nat
  BY <1>2, <1>6, <1>7, <1>8
<1> QED BY <1>1, <1>2, <1>7, <1>8, <1>9

LEMMA MineStep ==
  ASSUME SnapshotInv, SnapshotAssumption, Mine
  PROVE  SnapshotInv'
<1>0. /\ chainLog \in Seq(LogRecords) /\ Len(chainLog) \in Nat
      /\ UNCHANGED <<report, scan, logCache, snapshot>>
  BY DEF SnapshotInv, Mine
<1>1. PICK t : (t \in Transfers \/ t = Quiet) /\ chainLog' = Append(chainLog, t)
  BY DEF Mine
<1>2. /\ t \in LogRecords
      /\ t # Quiet /\ t.from \in Holders => BalanceOf(t.from, LogsIn(1, Len(chainLog))) > 0
  BY <1>1 DEF Transfers, Quiet, Zero, LogRecords, SnapshotAssumption
<1>3. PICK k : k = Len(chainLog) + 1
  OBVIOUS
<1>4. /\ chainLog' \in Seq(LogRecords) /\ Len(chainLog') = k /\ chainLog'[k] = t
      /\ k \in Nat /\ k \notin DOMAIN chainLog /\ 0..k = (0..Len(chainLog)) \cup {k}
      /\ \A b \in DOMAIN chainLog : chainLog'[b] = chainLog[b]
      /\ \A b \in 0..Len(chainLog) : LogsIn(1, b)' = LogsIn(1, b)
      /\ LogsIn(1, k)' = IF t = Quiet THEN LogsIn(1, Len(chainLog))
                         ELSE LogsIn(1, Len(chainLog)) \cup {k}
  BY <1>0, <1>1, <1>2, <1>3, ChainGrows
<1>5. ASSUME NEW b \in 0..Len(chainLog), NEW h
      PROVE  BalanceOf(h, LogsIn(1, b))' = BalanceOf(h, LogsIn(1, b))
  <2>1. PICK L : L = LogsIn(1, b)
    OBVIOUS
  <2>2. \A x \in L : chainLog'[x] = chainLog[x]
    BY <1>0, <1>4, <2>1, LogsOfBlock
  <2>3. BalanceOf(h, L)' = BalanceOf(h, L)
    BY <2>2, BalanceKept
  <2>4. LogsIn(1, b)' = L
    BY <1>4, <2>1
  <2> QED BY <2>1, <2>3, <2>4 DEF BalanceOf
<1>6. \A h \in Holders : BalanceOf(h, LogsIn(1, k))' >= 0
  <2> SUFFICES ASSUME NEW h \in Holders PROVE BalanceOf(h, LogsIn(1, k))' >= 0
    OBVIOUS
  <2>1. PICK L : L = LogsIn(1, Len(chainLog))
    OBVIOUS
  <2>2. PICK c : c = chainLog'
    OBVIOUS
  <2>3. BalanceOf(h, L)' = BalanceOf(h, L) /\ BalanceOf(h, L) >= 0
        /\ IsFiniteSet(L) /\ k \notin L
    <3>1. Len(chainLog) \in 0..Len(chainLog)
      BY <1>0
    <3>2. \A x \in L : chainLog'[x] = chainLog[x]
      BY <1>0, <1>4, <2>1, <3>1, LogsOfBlock
    <3>3. BalanceOf(h, L)' = BalanceOf(h, L)
      BY <3>2, BalanceKept
    <3> QED BY <1>0, <1>4, <2>1, <3>1, <3>3, LogsOfBlock DEF SnapshotInv, NobodyOwes
  <2>4. \A M : BalanceOf(h, M)' = CameIn(c, h, M) - WentOut(c, h, M)
    BY <2>2 DEF BalanceOf, CameIn, WentOut
  <2>5. CASE t = Quiet
    <3>1. LogsIn(1, k)' = L
      BY <1>4, <2>1, <2>5
    <3>2. BalanceOf(h, LogsIn(1, k))' = CameIn(c, h, L) - WentOut(c, h, L)
      BY <2>2, <3>1 DEF BalanceOf, CameIn, WentOut
    <3> QED BY <2>3, <2>4, <3>2
  <2>6. CASE t # Quiet
    <3>1. LogsIn(1, k)' = L \cup {k}
      BY <1>4, <2>1, <2>6
    <3>2. BalanceOf(h, LogsIn(1, k))' = CameIn(c, h, L \cup {k}) - WentOut(c, h, L \cup {k})
      BY <2>2, <3>1 DEF BalanceOf, CameIn, WentOut
    <3>3. /\ CameIn(c, h, L \cup {k}) >= CameIn(c, h, L)
          /\ WentOut(c, h, L \cup {k}) <= WentOut(c, h, L) + 1
          /\ c[k].from # h => WentOut(c, h, L \cup {k}) = WentOut(c, h, L)
          /\ CameIn(c, h, L \cup {k}) \in Nat /\ CameIn(c, h, L) \in Nat
          /\ WentOut(c, h, L \cup {k}) \in Nat /\ WentOut(c, h, L) \in Nat
      BY <2>3, BalanceMoves
    <3>4. BalanceOf(h, L) = CameIn(c, h, L) - WentOut(c, h, L)
      BY <2>3, <2>4
    <3>5. c[k].from = h => BalanceOf(h, L) > 0
      BY <1>2, <1>4, <2>1, <2>2, <2>6
    <3> QED BY <2>3, <3>2, <3>3, <3>4, <3>5
  <2> QED BY <2>5, <2>6
<1>7. NobodyOwes'
  <2>1. \A b \in 0..k : \A h \in Holders : BalanceOf(h, LogsIn(1, b))' >= 0
    <3>1. ASSUME NEW b \in 0..Len(chainLog), NEW h \in Holders
          PROVE  BalanceOf(h, LogsIn(1, b))' >= 0
      <4>1. BalanceOf(h, LogsIn(1, b)) >= 0
        BY DEF SnapshotInv, NobodyOwes
      <4> QED BY <1>5, <4>1
    <3>2. ASSUME NEW b \in 0..k PROVE b \in 0..Len(chainLog) \/ b = k
      BY <1>4
    <3> QED BY <1>6, <3>1, <3>2
  <2> QED BY <1>4, <2>1 DEF NobodyOwes
<1>8. SnapshotIsExact'
  <2>1. snapshot.block \in 0..Len(chainLog) /\ snapshot.table = Table(Holders, LogsIn(1, snapshot.block))
    BY DEF SnapshotInv, SnapshotIsExact
  <2>2. PICK B : B = snapshot.block
    OBVIOUS
  <2>3. \A h : BalanceOf(h, LogsIn(1, B))' = BalanceOf(h, LogsIn(1, B))
    BY <1>5, <2>1, <2>2
  <2>4. Table(Holders, LogsIn(1, B))' = Table(Holders, LogsIn(1, B))
    BY <2>3 DEF Table
  <2>5. snapshot' = snapshot
    BY <1>0
  <2> QED BY <2>1, <2>2, <2>4, <2>5 DEF SnapshotIsExact
<1>9. /\ DOMAIN scan' = DOMAIN NoScan' /\ report.block' \in 0..k /\ scan.block' \in 0..k
      /\ snapshot.block' \in 0..k
  BY <1>0, <1>4 DEF SnapshotInv, NoScan
<1> QED BY <1>4, <1>7, <1>8, <1>9 DEF SnapshotInv

\* While the chain stays, so do its balances.
LEMMA TablesKept ==
  ASSUME SnapshotInv, UNCHANGED <<chainLog, snapshot>>
  PROVE  NobodyOwes' /\ SnapshotIsExact'
<1>1. \A b : LogsIn(1, b)' = LogsIn(1, b)
  BY DEF LogsIn
<1>2. \A b, h : BalanceOf(h, LogsIn(1, b))' = BalanceOf(h, LogsIn(1, b))
  <2>1. \A L, h : BalanceOf(h, L)' = BalanceOf(h, L)
    BY BalanceKept
  <2> QED BY <1>1, <2>1 DEF BalanceOf
<1>3. NobodyOwes'
  <2>1. \A b \in 0..Len(chainLog) : \A h \in Holders : BalanceOf(h, LogsIn(1, b))' >= 0
    BY <1>2 DEF SnapshotInv, NobodyOwes
  <2> QED BY <2>1 DEF NobodyOwes
<1>4. SnapshotIsExact'
  <2>1. PICK B : B = snapshot.block
    OBVIOUS
  <2>2. Table(Holders, LogsIn(1, B))' = Table(Holders, LogsIn(1, B))
    BY <1>2 DEF Table
  <2>3. snapshot.table = Table(Holders, LogsIn(1, B)) /\ snapshot' = snapshot
    BY <2>1 DEF SnapshotInv, SnapshotIsExact
  <2> QED BY <2>1, <2>2, <2>3 DEF SnapshotIsExact
<1> QED BY <1>3, <1>4

\* Steps of the script that keep the block it works for, or end it.
LEMMA ScanStep ==
  ASSUME SnapshotInv, UNCHANGED <<chainLog, report, snapshot>>, DOMAIN scan' = DOMAIN NoScan,
         scan'.block \in 0..Len(chainLog)
  PROVE  SnapshotInv'
<1>1. NobodyOwes' /\ SnapshotIsExact'
  BY TablesKept
<1>2. DOMAIN NoScan' = DOMAIN NoScan
  BY DEF NoScan
<1> QED BY <1>1, <1>2 DEF SnapshotInv

\* A table that was reconciled is written.
LEMMA WriteStep ==
  ASSUME SnapshotInv, SnapshotAssumption, NEW B \in 0..Len(chainLog), NEW P \in SUBSET Holders,
         SumOf(Table(P, LogsIn(1, B))) = SupplyOf(LogsIn(1, B)),
         snapshot' = [block |-> B, table |-> Table(P, LogsIn(1, B))],
         UNCHANGED <<chainLog, report>>, scan' \in {scan, NoScan}
  PROVE  SnapshotInv'
<1>1. PICK L : L = LogsIn(1, B)
  OBVIOUS
<1>2. Table(P, L) = Table(Holders, L)
  <2>1. IsFiniteSet(L) /\ \A b \in L : chainLog[b] \in LogRecords
    BY <1>1, LogsOfBlock DEF SnapshotInv
  <2>2. \A h \in Holders : BalanceOf(h, L) >= 0
    BY <1>1 DEF SnapshotInv, NobodyOwes
  <2>3. SumOf(Table(P, L)) = SupplyOf(L)
    BY <1>1
  <2> QED BY <2>1, <2>2, <2>3, TableIsWhole
<1>3. SnapshotIsExact'
  <2>1. snapshot'.block = B /\ snapshot'.table = Table(Holders, L)
    BY <1>1, <1>2
  <2>2. LogsIn(1, B)' = L
    BY <1>1 DEF LogsIn
  <2>3. Table(Holders, L)' = Table(Holders, L)
    BY DEF Table, BalanceOf
  <2> QED BY <2>1, <2>2, <2>3 DEF SnapshotIsExact, Table, BalanceOf
<1>4. NobodyOwes'
  BY DEF SnapshotInv, NobodyOwes, BalanceOf, LogsIn
<1>5. DOMAIN scan' = DOMAIN NoScan' /\ scan'.block \in 0..Len(chainLog)
  BY DEF SnapshotInv, NoScan
<1> QED BY <1>3, <1>4, <1>5 DEF SnapshotInv

LEMMA SnapshotSteps ==
  ASSUME SnapshotInv, SnapshotAssumption, [SnapshotNext]_snapshotVars
  PROVE  SnapshotInv'
<1>0. /\ chainLog \in Seq(LogRecords) /\ Len(chainLog) \in Nat /\ DOMAIN scan = DOMAIN NoScan
      /\ report.block \in 0..Len(chainLog) /\ scan.block \in 0..Len(chainLog)
      /\ 0 \in 0..Len(chainLog) /\ Len(chainLog) \in 0..Len(chainLog)
  BY DEF SnapshotInv
<1>1. CASE Mine
  BY <1>1, MineStep
<1>2. CASE Investigate
  <2>1. report'.block \in 0..Len(chainLog) /\ UNCHANGED <<chainLog, scan, snapshot>>
    BY <1>0, <1>2 DEF Investigate
  <2>2. NobodyOwes' /\ SnapshotIsExact'
    BY <2>1, TablesKept
  <2> QED BY <1>0, <2>1, <2>2 DEF SnapshotInv, NoScan
<1>3. CASE StartScan
  <2>1. PICK first :
          scan' = [NoScan EXCEPT !.at = IF logCache.first = first /\ logCache.last = report.block
                                        THEN "fetched" ELSE "scanning",
                                 !.block = report.block, !.supply = report.supply,
                                 !.first = first, !.next = first,
                                 !.logs = IF logCache.first = first /\ logCache.last = report.block
                                          THEN logCache.logs ELSE {}]
    BY <1>3 DEF StartScan
  <2>2. DOMAIN scan' = DOMAIN NoScan /\ scan'.block = report.block
    BY <2>1 DEF NoScan
  <2>3. UNCHANGED <<chainLog, report, snapshot>>
    BY <1>3 DEF StartScan
  <2> QED BY <1>0, <2>2, <2>3, ScanStep
<1>4. CASE TakeRange \/ CacheLogs \/ \E r \in scan.open : RangeAnswered(r) \/ RangeBisected(r)
  <2>1. UNCHANGED <<chainLog, report, snapshot>>
    BY <1>4 DEF TakeRange, CacheLogs, RangeAnswered, RangeBisected
  <2>2. "block" \in DOMAIN scan
    BY <1>0 DEF NoScan
  <2>3. DOMAIN scan' = DOMAIN scan /\ scan'.block = scan.block
    <3>1. CASE TakeRange
      BY <2>2, <3>1 DEF TakeRange
    <3>2. CASE CacheLogs
      BY <2>2, <3>2 DEF CacheLogs
    <3>3. ASSUME NEW r, RangeAnswered(r) PROVE DOMAIN scan' = DOMAIN scan /\ scan'.block = scan.block
      BY <2>2, <3>3 DEF RangeAnswered
    <3>4. ASSUME NEW r, RangeBisected(r) PROVE DOMAIN scan' = DOMAIN scan /\ scan'.block = scan.block
      BY <2>2, <3>4 DEF RangeBisected
    <3> QED BY <1>4, <3>1, <3>2, <3>3, <3>4
  <2> QED BY <1>0, <2>1, <2>3, ScanStep
<1>5. CASE WriteSnapshot
  <2>1. PICK B, P : B = scan.block /\ P = Participants(scan.logs)
    OBVIOUS
  <2>2. P \in SUBSET Holders /\ B \in 0..Len(chainLog)
    BY <1>0, <2>1 DEF Participants
  <2>3. /\ SumOf(Table(P, LogsIn(1, B))) = SupplyOf(LogsIn(1, B))
        /\ snapshot' = [block |-> B, table |-> Table(P, LogsIn(1, B))]
        /\ UNCHANGED <<chainLog, report>> /\ scan' = NoScan
    BY <1>5, <2>1 DEF WriteSnapshot, Reconciles
  <2> QED BY <2>2, <2>3, WriteStep
<1>6. CASE WriteIndexedSnapshot
  <2>1. PICK B : B = Len(chainLog)
    OBVIOUS
  <2>2. PICK P \in SUBSET Holders :
          /\ SumOf(Table(P, LogsIn(1, B))) = SupplyOf(LogsIn(1, B))
          /\ snapshot' = [block |-> B, table |-> Table(P, LogsIn(1, B))]
    BY <1>6, <2>1 DEF WriteIndexedSnapshot
  <2>3. UNCHANGED <<chainLog, report>> /\ scan' = scan
    BY <1>6 DEF WriteIndexedSnapshot
  <2> QED BY <1>0, <2>1, <2>2, <2>3, WriteStep
<1>7. CASE ScanEnds
  <2>1. scan' = NoScan /\ NoScan.block = 0 /\ UNCHANGED <<chainLog, report, snapshot>>
    BY <1>7 DEF ScanEnds, NoScan
  <2> QED BY <1>0, <2>1, ScanStep
<1>8. CASE UNCHANGED snapshotVars
  BY <1>0, <1>8, ScanStep DEF snapshotVars
<1> QED BY <1>1, <1>2, <1>3, <1>4, <1>5, <1>6, <1>7, <1>8 DEF SnapshotNext

\* Before the contract there are no transfers and there is no table.
LEMMA SnapshotInitially == ASSUME SnapshotInit, SnapshotAssumption PROVE SnapshotInv
<1>0. Created - 1 \in Nat
  BY DEF SnapshotAssumption
<1>1. chainLog \in Seq(LogRecords) /\ Len(chainLog) \in Nat /\ \A b \in DOMAIN chainLog : chainLog[b] = Quiet
  <2>1. PICK n \in Nat : n = Created - 1
    BY <1>0
  <2>2. PICK q \in LogRecords : q = Quiet
    BY DEF LogRecords, Quiet
  <2>3. chainLog = [b \in 1..n |-> q]
    BY <2>1, <2>2 DEF SnapshotInit
  <2>4. chainLog \in Seq(LogRecords) /\ DOMAIN chainLog = 1..n
    BY <2>3
  <2> QED BY <2>2, <2>3, <2>4
<1>2. \A first, last : LogsIn(first, last) = {}
  BY <1>1 DEF LogsIn
<1>3. \A h : BalanceOf(h, {}) = 0
  <2>1. ASSUME NEW h PROVE {b \in {} : chainLog[b].to = h} = {} /\ {b \in {} : chainLog[b].from = h} = {}
    OBVIOUS
  <2>2. Cardinality({}) = 0 /\ 0 - 0 = 0
    BY FS_EmptySet
  <2> QED BY <2>1, <2>2 DEF BalanceOf
<1>4. NobodyOwes
  BY <1>2, <1>3 DEF NobodyOwes
<1>5. Table(Holders, {}) = {}
  BY <1>3 DEF Table
<1>6. SnapshotIsExact
  BY <1>2, <1>5 DEF SnapshotIsExact, SnapshotInit, NoTable
<1> QED BY <1>1, <1>4, <1>6 DEF SnapshotInv, SnapshotInit, NoScan, NoTable

\* Nobody sends what it does not have, and a written table is whole.
THEOREM SnapshotInvariant == SnapshotSpec => []SnapshotInv
<1>1. SnapshotInit => SnapshotInv
  BY SnapshotInitially, SnapshotAssumption
<1>2. SnapshotInv /\ [SnapshotNext]_snapshotVars => SnapshotInv'
  BY SnapshotSteps, SnapshotAssumption
<1> QED BY <1>1, <1>2, PTL DEF SnapshotSpec

\* Whatever the nodes leave out, the index forgets, the operator configures and
\* an earlier run cached, a written table names every holder of its block.
THEOREM SnapshotIsAlwaysExact == SnapshotSpec => []SnapshotIsExact
<1>1. SnapshotInv => SnapshotIsExact
  BY DEF SnapshotInv
<1> QED BY <1>1, SnapshotInvariant, PTL
=============================================================================
