----------------------------- MODULE SumTheorems -----------------------------
(***************************************************************************)
(* Sums of a function over a finite set, as SumFunctionOnSet computes      *)
(* them.  The theorems on induction take a predicate; here the induction   *)
(* is on sets instead: among the subsets for which a statement fails there *)
(* is a smallest one, because strict inclusion is well-founded.            *)
(***************************************************************************)
EXTENDS Functions, Folds, FiniteSetTheorems, WellFoundedInduction, TLAPS

LEMMA SmallestSubset ==
    ASSUME NEW S, IsFiniteSet(S), NEW B \in SUBSET SUBSET S, B # {}
    PROVE  \E T \in B : \A U \in B : U \subseteq T => U = T
<1>1. IsWellFoundedOn(StrictSubsetOrdering(S), SUBSET S)
  BY FS_StrictSubsetOrderingWellFounded, FS_FiniteSubsetsOfFinite
<1>2. PICK T \in B : \A U \in B : ~ (<<U, T>> \in StrictSubsetOrdering(S))
  BY <1>1, WFMin
<1> QED
  BY <1>2 DEF StrictSubsetOrdering

-----------------------------------------------------------------------------
(* The function that a sum is computed with.                               *)

Chosen(s) == CHOOSE x \in s : TRUE

Iterates(g, f, S) ==
    g = [s \in SUBSET S |-> IF s = {} THEN 0
                            ELSE f[Chosen(s)] + g[s \ {Chosen(s)}]]

LEMMA ChosenIn == \A s : s # {} => Chosen(s) \in s
BY DEF Chosen

LEMMA SumUnfolds ==
    ASSUME NEW f, NEW S
    PROVE  SumFunctionOnSet(f, S) = (CHOOSE g : Iterates(g, f, S))[S]
BY DEF SumFunctionOnSet, FoldFunctionOnSet, MapThenFoldSet, Iterates, Chosen

LEMMA IterStep ==
    ASSUME NEW f, NEW S, NEW g, Iterates(g, f, S), NEW s \in SUBSET S
    PROVE  g[s] = IF s = {} THEN 0 ELSE f[Chosen(s)] + g[s \ {Chosen(s)}]
BY DEF Iterates

LEMMA IterUnique ==
    ASSUME NEW f, NEW S, NEW T, IsFiniteSet(T), NEW g, NEW h,
           Iterates(g, f, S), Iterates(h, f, T), NEW V, V \subseteq S, V \subseteq T
    PROVE  g[V] = h[V]
<1> DEFINE B == {U \in SUBSET V : g[U] # h[U]}
<1> SUFFICES ASSUME B # {} PROVE FALSE
  OBVIOUS
<1>1. IsFiniteSet(V)
  BY FS_Subset
<1>2. PICK U \in B : \A W \in B : W \subseteq U => W = U
  <2> HIDE DEF B
  <2>1. B \in SUBSET SUBSET V
    BY DEF B
  <2> QED
    BY <1>1, <2>1, SmallestSubset
<1>3. U \subseteq V /\ g[U] # h[U]
  OBVIOUS
<1>4. U # {}
  <2>1. {} \in SUBSET S /\ {} \in SUBSET T
    OBVIOUS
  <2>2. g[{}] = 0
    BY <2>1, IterStep
  <2>3. h[{}] = 0
    BY <2>1, IterStep
  <2> QED
    BY <1>3, <2>2, <2>3
<1> DEFINE W == U \ {Chosen(U)}
<1>5. W \subseteq U /\ W # U
  BY <1>4, ChosenIn
<1>6. g[W] = h[W]
  BY <1>2, <1>3, <1>5
<1>7. g[U] = f[Chosen(U)] + g[W] /\ h[U] = f[Chosen(U)] + h[W]
  BY <1>3, <1>4, IterStep
<1> QED
  BY <1>3, <1>6, <1>7

LEMMA IterExists ==
    ASSUME NEW f, NEW S, IsFiniteSet(S)
    PROVE  \E g : Iterates(g, f, S)
<1> DEFINE B == {U \in SUBSET S : ~ \E g : Iterates(g, f, U)}
<1> SUFFICES ASSUME B # {} PROVE FALSE
  OBVIOUS
<1>1. PICK T \in B : \A U \in B : U \subseteq T => U = T
  <2> HIDE DEF B
  <2>1. B \in SUBSET SUBSET S
    BY DEF B
  <2> QED
    BY <2>1, SmallestSubset
<1>2. T \subseteq S /\ ~ \E g : Iterates(g, f, T)
  OBVIOUS
<1> DEFINE G(U) == CHOOSE g : Iterates(g, f, U)
<1>3. \A U : U \subseteq T /\ U # T => Iterates(G(U), f, U)
  BY <1>1, <1>2
<1>4. \A U : U \subseteq T => IsFiniteSet(U)
  BY <1>2, FS_Subset
<1> DEFINE h == [s \in SUBSET T |->
                   IF s = {} THEN 0
                   ELSE f[Chosen(s)] + G(s \ {Chosen(s)})[s \ {Chosen(s)}]]
<1>5. ASSUME NEW U, U \subseteq T, U # T
      PROVE  h[U] = G(U)[U]
  <2> DEFINE W == U \ {Chosen(U)}
  <2>1. Iterates(G(U), f, U)
    BY <1>3, <1>5
  <2>2. CASE U = {}
    BY <2>1, <2>2, IterStep
  <2>3. CASE U # {}
    <3>1. W \subseteq T /\ W # T /\ W \subseteq U
      BY <1>5, <2>3, ChosenIn
    <3>2. Iterates(G(W), f, W) /\ IsFiniteSet(W)
      BY <1>3, <1>4, <3>1
    <3>3. G(U)[W] = G(W)[W]
      <4> HIDE DEF G, W
      <4> QED
        BY <2>1, <3>1, <3>2, IterUnique
    <3>4. G(U)[U] = f[Chosen(U)] + G(U)[W]
      <4> HIDE DEF G
      <4> QED
        BY <2>1, <2>3, IterStep
    <3>5. h[U] = f[Chosen(U)] + G(W)[W]
      <4> HIDE DEF G
      <4> QED
        BY <1>5, <2>3
    <3> QED
      BY <3>3, <3>4, <3>5
  <2> QED
    BY <2>2, <2>3
<1>6. ASSUME NEW s \in SUBSET T
      PROVE  h[s] = IF s = {} THEN 0 ELSE f[Chosen(s)] + h[s \ {Chosen(s)}]
  <2> DEFINE W == s \ {Chosen(s)}
  <2>1. CASE s = {}
    BY <2>1
  <2>2. CASE s # {}
    <3>1. W \subseteq T /\ W # T
      BY <2>2, ChosenIn
    <3>2. h[W] = G(W)[W]
      BY <1>5, <3>1
    <3>3. h[s] = f[Chosen(s)] + G(W)[W]
      <4> HIDE DEF G
      <4> QED
        BY <2>2
    <3> QED
      BY <2>2, <3>2, <3>3
  <2> QED
    BY <2>1, <2>2
<1>7. h = [s \in SUBSET T |-> h[s]]
  OBVIOUS
<1>8. Iterates(h, f, T)
  <2> HIDE DEF h
  <2> QED
    BY <1>6, <1>7 DEF Iterates
<1> QED
  BY <1>2, <1>8

-----------------------------------------------------------------------------
(* The equations of sums.                                                  *)

LEMMA SumEmpty == \A f : SumFunctionOnSet(f, {}) = 0
<1> TAKE f
<1>1. Iterates(CHOOSE g : Iterates(g, f, {}), f, {})
  BY IterExists, FS_EmptySet
<1> QED
  BY <1>1, SumUnfolds, IterStep

LEMMA IterOf ==
    ASSUME NEW f, NEW S, IsFiniteSet(S), NEW T, T \subseteq S, NEW g, Iterates(g, f, S)
    PROVE  SumFunctionOnSet(f, T) = g[T]
<1>1. IsFiniteSet(T)
  BY FS_Subset
<1>2. PICK h : Iterates(h, f, T) /\ SumFunctionOnSet(f, T) = h[T]
  <2>1. Iterates(CHOOSE k : Iterates(k, f, T), f, T)
    BY <1>1, IterExists
  <2> QED
    BY <2>1, SumUnfolds
<1>3. T \subseteq T
  OBVIOUS
<1>4. g[T] = h[T]
  BY <1>1, <1>2, <1>3, IterUnique
<1> QED
  BY <1>2, <1>4

LEMMA SumChosen ==
    ASSUME NEW f, NEW S, IsFiniteSet(S), S # {}
    PROVE  SumFunctionOnSet(f, S) =
              f[Chosen(S)] + SumFunctionOnSet(f, S \ {Chosen(S)})
<1>1. PICK g : Iterates(g, f, S)
  BY IterExists
<1> DEFINE T == S \ {Chosen(S)}
<1>2. T \subseteq S /\ S \subseteq S
  OBVIOUS
<1>3. SumFunctionOnSet(f, S) = g[S]
  BY <1>1, <1>2, IterOf
<1>4. SumFunctionOnSet(f, T) = g[T]
  <2> HIDE DEF T
  <2> QED
    BY <1>1, <1>2, IterOf
<1>5. g[S] = f[Chosen(S)] + g[T]
  BY <1>1, IterStep
<1> QED
  BY <1>3, <1>4, <1>5

(* Sums of integers are integers, and of naturals naturals.                *)
LEMMA SumInt ==
    ASSUME NEW S, IsFiniteSet(S), NEW f, \A x \in S : f[x] \in Int
    PROVE  SumFunctionOnSet(f, S) \in Int
<1> DEFINE B == {U \in SUBSET S : SumFunctionOnSet(f, U) \notin Int}
<1> SUFFICES ASSUME B # {} PROVE FALSE
  <2> S \in SUBSET S
    OBVIOUS
  <2> QED
    OBVIOUS
<1>1. PICK U \in B : \A W \in B : W \subseteq U => W = U
  <2> HIDE DEF B
  <2>1. B \in SUBSET SUBSET S
    BY DEF B
  <2> QED
    BY <2>1, SmallestSubset
<1>2. U \subseteq S /\ SumFunctionOnSet(f, U) \notin Int /\ IsFiniteSet(U)
  BY FS_Subset
<1>3. U # {}
  BY <1>2, SumEmpty
<1> DEFINE c == Chosen(U)
<1>4. c \in U
  BY <1>3, ChosenIn
<1>5. SumFunctionOnSet(f, U) = f[c] + SumFunctionOnSet(f, U \ {c})
  BY <1>2, <1>3, SumChosen
<1>6. SumFunctionOnSet(f, U \ {c}) \in Int
  <2> HIDE DEF c
  <2> QED
    BY <1>1, <1>2, <1>4
<1> QED
  <2> HIDE DEF c
  <2> QED
    BY <1>2, <1>4, <1>5, <1>6

LEMMA SumNat ==
    ASSUME NEW S, IsFiniteSet(S), NEW f, \A x \in S : f[x] \in Nat
    PROVE  SumFunctionOnSet(f, S) \in Nat
<1> DEFINE B == {U \in SUBSET S : SumFunctionOnSet(f, U) \notin Nat}
<1> SUFFICES ASSUME B # {} PROVE FALSE
  <2> S \in SUBSET S
    OBVIOUS
  <2> QED
    OBVIOUS
<1>1. PICK U \in B : \A W \in B : W \subseteq U => W = U
  <2> HIDE DEF B
  <2>1. B \in SUBSET SUBSET S
    BY DEF B
  <2> QED
    BY <2>1, SmallestSubset
<1>2. U \subseteq S /\ SumFunctionOnSet(f, U) \notin Nat /\ IsFiniteSet(U)
  BY FS_Subset
<1>3. U # {}
  BY <1>2, SumEmpty
<1> DEFINE c == Chosen(U)
<1>4. c \in U
  BY <1>3, ChosenIn
<1>5. SumFunctionOnSet(f, U) = f[c] + SumFunctionOnSet(f, U \ {c})
  BY <1>2, <1>3, SumChosen
<1>6. SumFunctionOnSet(f, U \ {c}) \in Nat
  <2> HIDE DEF c
  <2> QED
    BY <1>1, <1>2, <1>4
<1> QED
  <2> HIDE DEF c
  <2> QED
    BY <1>2, <1>4, <1>5, <1>6

(* Any element may be taken out first.                                     *)
LEMMA SumTake ==
    ASSUME NEW S, IsFiniteSet(S), NEW f, \A x \in S : f[x] \in Int, NEW a \in S
    PROVE  SumFunctionOnSet(f, S) = f[a] + SumFunctionOnSet(f, S \ {a})
<1> DEFINE Fails(U, x) == SumFunctionOnSet(f, U) # f[x] + SumFunctionOnSet(f, U \ {x})
           B == {U \in SUBSET S : \E x \in U : Fails(U, x)}
<1> SUFFICES ASSUME B # {} PROVE FALSE
  <2>1. S \in SUBSET S
    OBVIOUS
  <2>2. B = {} => ~ Fails(S, a)
    <3> HIDE DEF Fails
    <3> QED
      BY <2>1
  <2> QED
    BY <2>2
<1>1. PICK U \in B : \A W \in B : W \subseteq U => W = U
  <2> HIDE DEF B
  <2>1. B \in SUBSET SUBSET S
    BY DEF B
  <2> QED
    BY <2>1, SmallestSubset
<1>2. PICK x \in U : Fails(U, x)
  OBVIOUS
<1>3. U \subseteq S /\ IsFiniteSet(U)
  BY FS_Subset
<1>4. PICK c \in U : ~ Fails(U, c)
  <2>1. Chosen(U) \in U
    BY <1>2, ChosenIn
  <2> QED
    BY <1>2, <1>3, <2>1, SumChosen
<1>5. c # x
  BY <1>2, <1>4
<1>6. \A W : W \subseteq U /\ W # U => \A y \in W : ~ Fails(W, y)
  <2> HIDE DEF Fails
  <2> QED
    BY <1>1, <1>3
<1> DEFINE V == U \ {c}
           W == U \ {x}
           Z == U \ {c, x}
<1>7. SumFunctionOnSet(f, V) = f[x] + SumFunctionOnSet(f, V \ {x})
  <2> V \subseteq U /\ V # U /\ x \in V
    BY <1>5
  <2> HIDE DEF V
  <2> QED
    BY <1>6
<1>8. SumFunctionOnSet(f, W) = f[c] + SumFunctionOnSet(f, W \ {c})
  <2> W \subseteq U /\ W # U /\ c \in W
    BY <1>5
  <2> HIDE DEF W
  <2> QED
    BY <1>6
<1>9. V \ {x} = Z /\ W \ {c} = Z
  OBVIOUS
<1>10. SumFunctionOnSet(f, Z) \in Int
  <2> Z \subseteq U
    OBVIOUS
  <2> HIDE DEF Z
  <2> IsFiniteSet(Z)
    BY <1>3, FS_Subset
  <2> QED
    BY <1>3, SumInt
<1>11. f[c] \in Int /\ f[x] \in Int
  BY <1>3
<1>12. SumFunctionOnSet(f, U) = f[c] + SumFunctionOnSet(f, V)
  BY <1>4
<1>13. SumFunctionOnSet(f, U) # f[x] + SumFunctionOnSet(f, W)
  BY <1>2
<1>14. SumFunctionOnSet(f, V) = f[x] + SumFunctionOnSet(f, Z)
  <2> HIDE DEF V, W, Z
  <2> QED
    BY <1>7, <1>9
<1>15. SumFunctionOnSet(f, W) = f[c] + SumFunctionOnSet(f, Z)
  <2> HIDE DEF V, W, Z
  <2> QED
    BY <1>8, <1>9
<1>16. ASSUME NEW s \in Int, NEW i \in Int, NEW j \in Int
       PROVE  i + (j + s) = j + (i + s)
  OBVIOUS
<1> HIDE DEF V, W, Z, Fails, B
<1> QED
  BY <1>10, <1>11, <1>12, <1>13, <1>14, <1>15, <1>16

LEMMA SumAdd ==
    ASSUME NEW S, IsFiniteSet(S), NEW f, NEW a, a \notin S, f[a] \in Int,
           \A x \in S : f[x] \in Int
    PROVE  SumFunctionOnSet(f, S \cup {a}) = f[a] + SumFunctionOnSet(f, S)
<1> DEFINE T == S \cup {a}
<1>1. IsFiniteSet(T) /\ T \ {a} = S
  BY FS_AddElement
<1>2. a \in T /\ \A x \in T : f[x] \in Int
  OBVIOUS
<1> HIDE DEF T
<1>3. SumFunctionOnSet(f, T) = f[a] + SumFunctionOnSet(f, T \ {a})
  BY <1>1, <1>2, SumTake
<1> QED
  BY <1>1, <1>3 DEF T

(* A sum depends on the values in the set only.                            *)
LEMMA SumSame ==
    ASSUME NEW S, IsFiniteSet(S), NEW f, NEW g, \A x \in S : f[x] = g[x]
    PROVE  SumFunctionOnSet(f, S) = SumFunctionOnSet(g, S)
<1> DEFINE B == {U \in SUBSET S : SumFunctionOnSet(f, U) # SumFunctionOnSet(g, U)}
<1> SUFFICES ASSUME B # {} PROVE FALSE
  <2> S \in SUBSET S
    OBVIOUS
  <2> QED
    OBVIOUS
<1>1. PICK U \in B : \A W \in B : W \subseteq U => W = U
  <2> HIDE DEF B
  <2>1. B \in SUBSET SUBSET S
    BY DEF B
  <2> QED
    BY <2>1, SmallestSubset
<1>2. U \subseteq S /\ IsFiniteSet(U)
      /\ SumFunctionOnSet(f, U) # SumFunctionOnSet(g, U)
  BY FS_Subset
<1>3. U # {}
  BY <1>2, SumEmpty
<1>4. PICK c \in U : c = Chosen(U)
  BY <1>3, ChosenIn
<1>5. SumFunctionOnSet(f, U) = f[c] + SumFunctionOnSet(f, U \ {c})
      /\ SumFunctionOnSet(g, U) = g[c] + SumFunctionOnSet(g, U \ {c})
  BY <1>2, <1>3, <1>4, SumChosen
<1>6. SumFunctionOnSet(f, U \ {c}) = SumFunctionOnSet(g, U \ {c})
  BY <1>1, <1>2, <1>4
<1>7. f[c] = g[c]
  BY <1>2, <1>4
<1> QED
  BY <1>2, <1>5, <1>6, <1>7

(* One value changed: the sum moves by the difference.                     *)
LEMMA SumMove ==
    ASSUME NEW S, IsFiniteSet(S), NEW f, NEW g, NEW a \in S,
           \A x \in S : f[x] \in Int, g[a] \in Int,
           \A x \in S \ {a} : g[x] = f[x]
    PROVE  SumFunctionOnSet(g, S) = SumFunctionOnSet(f, S) + g[a] - f[a]
<1> DEFINE T == S \ {a}
<1>1. IsFiniteSet(T)
  BY FS_RemoveElement
<1>2. SumFunctionOnSet(f, T) = SumFunctionOnSet(g, T)
  <2> \A x \in T : f[x] = g[x]
    OBVIOUS
  <2> HIDE DEF T
  <2> QED
    BY <1>1, SumSame
<1>3. SumFunctionOnSet(f, S) = f[a] + SumFunctionOnSet(f, T)
  BY SumTake
<1>4. SumFunctionOnSet(g, S) = g[a] + SumFunctionOnSet(g, T)
  <2> \A x \in S : g[x] \in Int
    OBVIOUS
  <2> QED
    BY SumTake
<1>5. SumFunctionOnSet(f, T) \in Int
  <2> \A x \in T : f[x] \in Int
    OBVIOUS
  <2> HIDE DEF T
  <2> QED
    BY <1>1, SumInt
<1> HIDE DEF T
<1> QED
  BY <1>2, <1>3, <1>4, <1>5

(* Two values changed.                                                     *)
LEMMA SumTransfer ==
    ASSUME NEW S, IsFiniteSet(S), NEW f, NEW g, NEW a \in S, NEW b \in S, a # b,
           \A x \in S : f[x] \in Int, g[a] \in Int, g[b] \in Int,
           \A x \in S \ {a, b} : g[x] = f[x]
    PROVE  SumFunctionOnSet(g, S) =
              SumFunctionOnSet(f, S) + (g[a] - f[a]) + (g[b] - f[b])
<1> DEFINE h == [x \in S |-> IF x = a THEN g[a] ELSE f[x]]
<1>1. h[a] = g[a] /\ h[b] = f[b] /\ (\A x \in S : h[x] \in Int)
      /\ (\A x \in S \ {a} : h[x] = f[x]) /\ (\A x \in S \ {b} : g[x] = h[x])
  OBVIOUS
<1> HIDE DEF h
<1>2. SumFunctionOnSet(h, S) = SumFunctionOnSet(f, S) + h[a] - f[a]
  BY <1>1, SumMove
<1>3. SumFunctionOnSet(g, S) = SumFunctionOnSet(h, S) + g[b] - h[b]
  BY <1>1, SumMove
<1>4. SumFunctionOnSet(f, S) \in Int /\ f[a] \in Int /\ f[b] \in Int
  BY SumInt
<1> QED
  BY <1>1, <1>2, <1>3, <1>4

LEMMA SumZero ==
    ASSUME NEW S, IsFiniteSet(S), NEW f, \A x \in S : f[x] = 0
    PROVE  SumFunctionOnSet(f, S) = 0
<1> DEFINE B == {U \in SUBSET S : SumFunctionOnSet(f, U) # 0}
<1> SUFFICES ASSUME B # {} PROVE FALSE
  <2> S \in SUBSET S
    OBVIOUS
  <2> QED
    OBVIOUS
<1>1. PICK U \in B : \A W \in B : W \subseteq U => W = U
  <2> HIDE DEF B
  <2>1. B \in SUBSET SUBSET S
    BY DEF B
  <2> QED
    BY <2>1, SmallestSubset
<1>2. U \subseteq S /\ IsFiniteSet(U) /\ SumFunctionOnSet(f, U) # 0
  BY FS_Subset
<1>3. U # {}
  <2>1. SumFunctionOnSet(f, {}) = 0
    BY SumEmpty
  <2> QED
    BY <1>2, <2>1
<1>4. PICK c \in U : c = Chosen(U)
  BY <1>3, ChosenIn
<1>5. SumFunctionOnSet(f, U) = f[c] + SumFunctionOnSet(f, U \ {c})
  BY <1>2, <1>3, <1>4, SumChosen
<1>6. SumFunctionOnSet(f, U \ {c}) = 0
  BY <1>1, <1>2, <1>4
<1> QED
  BY <1>2, <1>5, <1>6

LEMMA SumPlus ==
    ASSUME NEW S, IsFiniteSet(S), NEW f, NEW g, NEW h,
           \A x \in S : f[x] \in Int /\ g[x] \in Int /\ h[x] = f[x] + g[x]
    PROVE  SumFunctionOnSet(h, S) = SumFunctionOnSet(f, S) + SumFunctionOnSet(g, S)
<1> DEFINE B == {U \in SUBSET S : SumFunctionOnSet(h, U) #
                   SumFunctionOnSet(f, U) + SumFunctionOnSet(g, U)}
<1> SUFFICES ASSUME B # {} PROVE FALSE
  <2> S \in SUBSET S
    OBVIOUS
  <2> QED
    OBVIOUS
<1>1. PICK U \in B : \A W \in B : W \subseteq U => W = U
  <2> HIDE DEF B
  <2>1. B \in SUBSET SUBSET S
    BY DEF B
  <2> QED
    BY <2>1, SmallestSubset
<1>2. U \subseteq S /\ IsFiniteSet(U) /\ SumFunctionOnSet(h, U) #
                   SumFunctionOnSet(f, U) + SumFunctionOnSet(g, U)
  BY FS_Subset
<1>3. U # {}
  <2>1. SumFunctionOnSet(f, {}) = 0 /\ SumFunctionOnSet(g, {}) = 0
        /\ SumFunctionOnSet(h, {}) = 0
    BY SumEmpty
  <2>2. SUFFICES U = {} => SumFunctionOnSet(h, U) =
                    SumFunctionOnSet(f, U) + SumFunctionOnSet(g, U)
    BY <1>2
  <2>3. 0 = 0 + 0
    OBVIOUS
  <2> QED
    BY <2>1, <2>3, Zenon
<1>4. PICK c \in U : c = Chosen(U)
  BY <1>3, ChosenIn
<1>5. SumFunctionOnSet(f, U) = f[c] + SumFunctionOnSet(f, U \ {c})
      /\ SumFunctionOnSet(g, U) = g[c] + SumFunctionOnSet(g, U \ {c})
      /\ SumFunctionOnSet(h, U) = h[c] + SumFunctionOnSet(h, U \ {c})
  BY <1>2, <1>3, <1>4, SumChosen
<1> DEFINE V == U \ {c}
<1>6. SumFunctionOnSet(h, V) = SumFunctionOnSet(f, V) + SumFunctionOnSet(g, V)
  BY <1>1, <1>2, <1>4
<1>7. SumFunctionOnSet(f, V) \in Int /\ SumFunctionOnSet(g, V) \in Int
  <2> V \subseteq S /\ IsFiniteSet(V)
    BY <1>2, FS_RemoveElement
  <2> HIDE DEF V
  <2> QED
    BY SumInt
<1>8. f[c] \in Int /\ g[c] \in Int /\ h[c] = f[c] + g[c]
  BY <1>2, <1>4
<1> HIDE DEF V
<1> QED
  BY <1>2, <1>5, <1>6, <1>7, <1>8 DEF V

(* No natural exceeds the sum it is part of.                               *)
LEMMA SumBounds ==
    ASSUME NEW S, IsFiniteSet(S), NEW f, \A x \in S : f[x] \in Nat, NEW a \in S
    PROVE  f[a] <= SumFunctionOnSet(f, S)
<1>1. SumFunctionOnSet(f, S) = f[a] + SumFunctionOnSet(f, S \ {a})
  BY SumTake
<1> DEFINE T == S \ {a}
<1>2. SumFunctionOnSet(f, T) \in Nat
  <2> IsFiniteSet(T) /\ \A x \in T : f[x] \in Nat
    BY FS_RemoveElement
  <2> HIDE DEF T
  <2> QED
    BY SumNat
<1> HIDE DEF T
<1> QED
  BY <1>1, <1>2 DEF T

(* A sum over a set is the sum of the sums over two halves of it.          *)
LEMMA SumSplit ==
    ASSUME NEW S, IsFiniteSet(S), NEW f, \A x \in S : f[x] \in Int, NEW T
    PROVE  SumFunctionOnSet(f, S) =
              SumFunctionOnSet(f, S \cap T) + SumFunctionOnSet(f, S \ T)
<1> DEFINE Sum(U) == SumFunctionOnSet(f, U)
           B == {U \in SUBSET S : Sum(U) # Sum(U \cap T) + Sum(U \ T)}
<1> SUFFICES ASSUME B # {} PROVE FALSE
  <2>1. S \in SUBSET S
    OBVIOUS
  <2> QED
    BY <2>1
<1>1. PICK U \in B : \A W \in B : W \subseteq U => W = U
  <2> HIDE DEF B
  <2>1. B \in SUBSET SUBSET S
    BY DEF B
  <2> QED
    BY <2>1, SmallestSubset
<1>2. U \subseteq S /\ IsFiniteSet(U) /\ Sum(U) # Sum(U \cap T) + Sum(U \ T)
  BY FS_Subset
<1>3. U # {}
  <2>1. Sum({}) = 0 /\ 0 = 0 + 0
    BY SumEmpty
  <2>2. {} \cap T = {} /\ {} \ T = {}
    OBVIOUS
  <2>3. Sum({}) = Sum({} \cap T) + Sum({} \ T)
    BY <2>1, <2>2
  <2> QED
    BY <1>2, <2>3
<1>4. PICK c \in U : c \in U
  BY <1>3
<1> DEFINE V == U \ {c}
<1>5. Sum(U) = f[c] + Sum(V)
  BY <1>2, SumTake
<1>6. Sum(V) = Sum(V \cap T) + Sum(V \ T)
  <2> V \subseteq U /\ V # U /\ V \subseteq S
    BY <1>2
  <2> HIDE DEF V, Sum
  <2> QED
    BY <1>1
<1>7. ASSUME NEW X, X \subseteq V
      PROVE  Sum(X) \in Int /\ Sum(X \cup {c}) = f[c] + Sum(X) /\ f[c] \in Int
  <2>1. IsFiniteSet(X) /\ c \notin X /\ (\A x \in X : f[x] \in Int) /\ f[c] \in Int
    BY <1>2, <1>7, FS_Subset
  <2> QED
    BY <2>1, SumInt, SumAdd
<1>8. CASE c \in T
  <2>1. U \cap T = (V \cap T) \cup {c} /\ U \ T = V \ T
    BY <1>8
  <2>2. Sum(U \cap T) = f[c] + Sum(V \cap T) /\ Sum(U \ T) = Sum(V \ T)
    <3> V \cap T \subseteq V
      OBVIOUS
    <3> HIDE DEF V, Sum
    <3> QED
      BY <1>7, <2>1
  <2>3. Sum(V \cap T) \in Int /\ Sum(V \ T) \in Int /\ f[c] \in Int
    <3> V \cap T \subseteq V /\ V \ T \subseteq V
      OBVIOUS
    <3> HIDE DEF V, Sum
    <3> QED
      BY <1>7
  <2> HIDE DEF V, Sum, B
  <2> QED
    BY <1>2, <1>5, <1>6, <2>2, <2>3
<1>9. CASE c \notin T
  <2>1. U \cap T = V \cap T /\ U \ T = (V \ T) \cup {c}
    BY <1>9
  <2>2. Sum(U \cap T) = Sum(V \cap T) /\ Sum(U \ T) = f[c] + Sum(V \ T)
    <3> V \ T \subseteq V
      OBVIOUS
    <3> HIDE DEF V, Sum
    <3> QED
      BY <1>7, <2>1
  <2>3. Sum(V \cap T) \in Int /\ Sum(V \ T) \in Int /\ f[c] \in Int
    <3> V \cap T \subseteq V /\ V \ T \subseteq V
      OBVIOUS
    <3> HIDE DEF V, Sum
    <3> QED
      BY <1>7
  <2> HIDE DEF V, Sum, B
  <2> QED
    BY <1>2, <1>5, <1>6, <2>2, <2>3
<1> QED
  BY <1>8, <1>9

(* Fewer naturals make no larger a sum.                                    *)
LEMMA SumSubset ==
    ASSUME NEW S, IsFiniteSet(S), NEW f, \A x \in S : f[x] \in Nat,
           NEW T, T \subseteq S
    PROVE  SumFunctionOnSet(f, T) <= SumFunctionOnSet(f, S)
<1>1. S \cap T = T
  OBVIOUS
<1>2. SumFunctionOnSet(f, S) = SumFunctionOnSet(f, S \cap T) + SumFunctionOnSet(f, S \ T)
  <2> \A x \in S : f[x] \in Int
    OBVIOUS
  <2> QED
    BY SumSplit, Zenon
<1>3. SumFunctionOnSet(f, T) \in Nat
  <2> IsFiniteSet(T) /\ \A x \in T : f[x] \in Nat
    BY FS_Subset
  <2> QED
    BY SumNat
<1>4. SumFunctionOnSet(f, S \ T) \in Nat
  <2> DEFINE U == S \ T
  <2> IsFiniteSet(U) /\ \A x \in U : f[x] \in Nat
    BY FS_Subset
  <2> HIDE DEF U
  <2> SumFunctionOnSet(f, U) \in Nat
    BY SumNat
  <2> QED
    BY DEF U
<1> QED
  BY <1>1, <1>2, <1>3, <1>4

(* What leaves one value and arrives at another, or at the same one, keeps *)
(* the sum.                                                                *)
Shifts(f, g, S, a, b, x) ==
    \A y \in S : g[y] = f[y] - (IF y = a THEN x ELSE 0)
                            + (IF y = b THEN x ELSE 0)

LEMMA SumKept ==
    ASSUME NEW S, IsFiniteSet(S), NEW f, NEW g, NEW a \in S, NEW b \in S,
           NEW x \in Int, \A y \in S : f[y] \in Int, Shifts(f, g, S, a, b, x)
    PROVE  SumFunctionOnSet(g, S) = SumFunctionOnSet(f, S)
<1> USE DEF Shifts
<1>1. CASE a = b
  <2>1. \A y \in S : f[y] = g[y]
    BY <1>1
  <2> QED
    BY <2>1, SumSame
<1>2. CASE a # b
  <2>1. /\ g[a] = f[a] - x /\ g[b] = f[b] + x
        /\ g[a] \in Int /\ g[b] \in Int /\ f[a] \in Int /\ f[b] \in Int
        /\ \A y \in S \ {a, b} : g[y] = f[y]
    BY <1>2
  <2>2. SumFunctionOnSet(g, S) =
          SumFunctionOnSet(f, S) + (g[a] - f[a]) + (g[b] - f[b])
    <3>1. g[a] \in Int /\ g[b] \in Int /\ \A y \in S \ {a, b} : g[y] = f[y]
      BY <2>1
    <3> HIDE <2>1
    <3> QED
      BY <1>2, <3>1, SumTransfer
  <2>3. SumFunctionOnSet(f, S) \in Int
    BY SumInt
  <2> QED
    BY <2>1, <2>2, <2>3
<1> QED
  BY <1>1, <1>2

(* A function that is nowhere larger sums to no more.                      *)
LEMMA SumBelow ==
    ASSUME NEW S, IsFiniteSet(S), NEW f, NEW g,
           \A x \in S : f[x] \in Int /\ g[x] \in Int /\ g[x] <= f[x]
    PROVE  SumFunctionOnSet(g, S) <= SumFunctionOnSet(f, S)
<1> DEFINE d == [x \in S |-> f[x] - g[x]]
<1>1. \A x \in S : d[x] \in Nat /\ d[x] \in Int /\ f[x] = g[x] + d[x]
  OBVIOUS
<1> HIDE DEF d
<1>2. SumFunctionOnSet(f, S) = SumFunctionOnSet(g, S) + SumFunctionOnSet(d, S)
  BY <1>1, SumPlus
<1>3. SumFunctionOnSet(d, S) \in Nat
  BY <1>1, SumNat
<1>4. SumFunctionOnSet(g, S) \in Int
  BY SumInt
<1> QED
  BY <1>2, <1>3, <1>4
=============================================================================
