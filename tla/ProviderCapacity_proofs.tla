----------------------- MODULE ProviderCapacity_proofs -----------------------
(***************************************************************************)
(* What ProviderCapacity promises for every number of conversations,       *)
(* workflows and slots: the reservation counter is exact, and the          *)
(* workflows that were admitted with a reservation fit beside the          *)
(* conversations that keep their sessions.                                 *)
(*                                                                         *)
(* Both are about sums, so the first part is about SumFunctionOnSet, which *)
(* adds the elements of a set one by one.  Its laws are proved by          *)
(* induction over the subsets of a finite set, which are well-founded.     *)
(***************************************************************************)
EXTENDS ProviderCapacity, FiniteSetTheorems, TLAPS

(* Induction over the subsets of a finite set.                              *)
LEMMA SubsetInduction ==
  ASSUME NEW S, IsFiniteSet(S), NEW Good,
         \A T \in SUBSET S : (\A U \in SUBSET T : U # T => U \in Good) => T \in Good
  PROVE  S \in Good
<1>. SUFFICES ASSUME S \notin Good PROVE FALSE
  OBVIOUS
<1>. DEFINE Bad == (SUBSET S) \ Good
<1>1. IsWellFoundedOn(StrictSubsetOrdering(S), SUBSET S)
  <2>1. IsWellFoundedOn(StrictSubsetOrdering(S), FiniteSubsetsOf(S))
    BY FS_StrictSubsetOrderingWellFounded
  <2>2. FiniteSubsetsOf(S) = SUBSET S
    BY FS_FiniteSubsetsOfFinite
  <2>. QED BY <2>1, <2>2
<1>2. Bad \subseteq SUBSET S /\ Bad # {}
  OBVIOUS
<1>3. PICK B \in Bad : \A C \in Bad : <<C, B>> \notin StrictSubsetOrdering(S)
  <2>. HIDE DEF Bad
  <2>. QED BY <1>1, <1>2, WFMin
<1>4. ASSUME NEW U \in SUBSET B, U # B PROVE U \in Good
  <2>1. <<U, B>> \in StrictSubsetOrdering(S)
    BY <1>4 DEF StrictSubsetOrdering
  <2>. QED BY <1>3, <2>1
<1>. QED BY <1>4

-----------------------------------------------------------------------------
(* Sums.                                                                    *)

Elt(s) == CHOOSE x \in s : TRUE

\* g adds up F over the subsets of S.
Adds(g, F, S) ==
  g = [s \in SUBSET S |-> IF s = {} THEN 0 ELSE F[Elt(s)] + g[s \ {Elt(s)}]]

Counted(F, S) == \A x \in S : F[x] \in Nat

LEMMA EltIn ==
  ASSUME NEW s, s # {}
  PROVE  Elt(s) \in s
BY DEF Elt

LEMMA AddsAt ==
  ASSUME NEW F, NEW S, NEW g, Adds(g, F, S), NEW s \in SUBSET S
  PROVE  g[s] = IF s = {} THEN 0 ELSE F[Elt(s)] + g[s \ {Elt(s)}]
BY DEF Adds

(* Two functions that add up the same agree where both are defined.         *)
LEMMA AddsUnique ==
  ASSUME NEW F, NEW S, NEW T, IsFiniteSet(S), S \subseteq T,
         NEW g, Adds(g, F, S), NEW h, Adds(h, F, T)
  PROVE  g[S] = h[S]
<1>. DEFINE Good == {U \in SUBSET S : g[U] = h[U]}
<1>1. ASSUME NEW U \in SUBSET S, \A V \in SUBSET U : V # U => V \in Good
      PROVE  U \in Good
  <2>1. CASE U = {}
    BY <2>1, AddsAt
  <2>2. CASE U # {}
    <3>1. U \ {Elt(U)} \in SUBSET U /\ U \ {Elt(U)} # U
      BY <2>2, EltIn
    <3>2. g[U \ {Elt(U)}] = h[U \ {Elt(U)}]
      BY <1>1, <3>1
    <3>3. g[U] = F[Elt(U)] + g[U \ {Elt(U)}] /\ h[U] = F[Elt(U)] + h[U \ {Elt(U)}]
      BY <2>2, AddsAt
    <3>. QED BY <3>2, <3>3
  <2>. QED BY <2>1, <2>2
<1>2. S \in Good
  <2>. HIDE DEF Good
  <2>. QED BY <1>1, SubsetInduction
<1>. QED BY <1>2

(* There is a function that adds up.                                        *)
LEMMA AddsExists ==
  ASSUME NEW F, NEW S, IsFiniteSet(S), Counted(F, S)
  PROVE  \E g \in [SUBSET S -> Nat] : Adds(g, F, S)
<1>. DEFINE Good == {T \in SUBSET S : \E g \in [SUBSET T -> Nat] : Adds(g, F, T)}
<1>1. ASSUME NEW T \in SUBSET S, \A U \in SUBSET T : U # T => U \in Good
      PROVE  T \in Good
  <2>. DEFINE of(U) == CHOOSE g : g \in [SUBSET U -> Nat] /\ Adds(g, F, U)
              value(U) == of(U)[U]
              all == [s \in SUBSET T |-> IF s = T
                                         THEN IF T = {} THEN 0
                                              ELSE F[Elt(T)] + value(T \ {Elt(T)})
                                         ELSE value(s)]
  <2>1. ASSUME NEW U \in SUBSET T, U # T
        PROVE  of(U) \in [SUBSET U -> Nat] /\ Adds(of(U), F, U) /\ value(U) \in Nat
    <3>1. \E g : g \in [SUBSET U -> Nat] /\ Adds(g, F, U)
      BY <1>1, <2>1
    <3>2. of(U) \in [SUBSET U -> Nat] /\ Adds(of(U), F, U)
      BY <3>1, Zenon
    <3>. QED BY <3>2
  <2>2. ASSUME NEW s \in SUBSET T
        PROVE  /\ all[s] = IF s = {} THEN 0 ELSE F[Elt(s)] + all[s \ {Elt(s)}]
               /\ all[s] \in Nat
    <3>1. CASE s = T
      <4>1. CASE T = {}
        BY <3>1, <4>1
      <4>2. CASE T # {}
        <5>1. Elt(T) \in T /\ T \ {Elt(T)} \in SUBSET T /\ T \ {Elt(T)} # T
          BY <4>2, EltIn
        <5>2. value(T \ {Elt(T)}) \in Nat
          BY <5>1, <2>1
        <5>3. F[Elt(T)] \in Nat
          BY <5>1 DEF Counted
        <5>4. all[T \ {Elt(T)}] = value(T \ {Elt(T)})
          BY <5>1
        <5>. HIDE DEF value
        <5>. QED BY <3>1, <4>2, <5>1, <5>2, <5>3, <5>4
      <4>. QED BY <4>1, <4>2
    <3>2. CASE s # T
      <4>1. all[s] = value(s) /\ value(s) \in Nat
        BY <3>2, <2>1
      <4>2. CASE s = {}
        BY <4>1, <4>2, <2>1, <3>2, AddsAt
      <4>3. CASE s # {}
        <5>. DEFINE r == s \ {Elt(s)}
        <5>1. r \in SUBSET s /\ r \in SUBSET T /\ r # T
          BY <4>3, EltIn
        <5>2. of(s)[s] = F[Elt(s)] + of(s)[r]
          <6>1. PICK g : g = of(s)
            OBVIOUS
          <6>2. Adds(g, F, s)
            BY <3>2, <2>1, <6>1
          <6>3. g[s] = F[Elt(s)] + g[r]
            BY <4>3, <6>2, AddsAt
          <6>. HIDE DEF of
          <6>. QED BY <6>1, <6>3
        <5>3. of(r)[r] = of(s)[r]
          <6>1. IsFiniteSet(r)
            BY <5>1, FS_Subset
          <6>2. Adds(of(r), F, r) /\ Adds(of(s), F, s)
            BY <5>1, <3>2, <2>1
          <6>. HIDE DEF of, r
          <6>. QED BY <5>1, <6>1, <6>2, AddsUnique
        <5>4. all[r] = value(r)
          BY <5>1
        <5>. QED BY <4>1, <4>3, <5>2, <5>3, <5>4
      <4>. QED BY <4>2, <4>3
    <3>. QED BY <3>1, <3>2
  <2>3. all \in [SUBSET T -> Nat] /\ Adds(all, F, T)
    <3>1. all = [s \in SUBSET T |-> all[s]]
      OBVIOUS
    <3>. HIDE DEF all
    <3>. QED BY <2>2, <3>1 DEF Adds
  <2>. QED BY <2>3
<1>2. S \in Good
  <2>. HIDE DEF Good
  <2>. QED BY <1>1, SubsetInduction
<1>. QED BY <1>2

(* The library's sum adds up.                                               *)
LEMMA SumAdds ==
  ASSUME NEW F, NEW S, IsFiniteSet(S), Counted(F, S)
  PROVE  \E g \in [SUBSET S -> Nat] : Adds(g, F, S) /\ SumFunctionOnSet(F, S) = g[S]
<1>. DEFINE P(g) == g = [s \in SUBSET S |->
                           IF s = {} THEN 0
                           ELSE F[CHOOSE x \in s : TRUE] + g[s \ {CHOOSE x \in s : TRUE}]]
<1>1. PICK g \in [SUBSET S -> Nat] : Adds(g, F, S)
  BY AddsExists
<1>2. P(g)
  BY <1>1 DEF Adds, Elt
<1>3. PICK h : h = CHOOSE k : P(k)
  OBVIOUS
<1>4. P(CHOOSE k : P(k))
  <2>. HIDE DEF P
  <2>. QED BY <1>2
<1>5. SumFunctionOnSet(F, S) = (CHOOSE k : P(k))[S]
  BY DEF SumFunctionOnSet, FoldFunctionOnSet, MapThenFoldSet
<1>6. P(h) /\ SumFunctionOnSet(F, S) = h[S]
  BY <1>3, <1>4, <1>5
<1>7. Adds(h, F, S)
  BY <1>6 DEF Adds, Elt
<1>8. g[S] = h[S]
  BY <1>1, <1>7, AddsUnique
<1>. QED BY <1>1, <1>6, <1>8

LEMMA SumNat ==
  ASSUME NEW F, NEW S, IsFiniteSet(S), Counted(F, S)
  PROVE  SumFunctionOnSet(F, S) \in Nat
<1>1. PICK g \in [SUBSET S -> Nat] : SumFunctionOnSet(F, S) = g[S]
  BY SumAdds
<1>. QED BY <1>1

LEMMA SumEmpty ==
  ASSUME NEW F
  PROVE  SumFunctionOnSet(F, {}) = 0
<1>1. IsFiniteSet({}) /\ Counted(F, {})
  BY FS_EmptySet DEF Counted
<1>2. PICK g : Adds(g, F, {}) /\ SumFunctionOnSet(F, {}) = g[{}]
  BY <1>1, SumAdds
<1>. QED BY <1>2, AddsAt

LEMMA SumChosen ==
  ASSUME NEW F, NEW S, IsFiniteSet(S), Counted(F, S), S # {}
  PROVE  SumFunctionOnSet(F, S) = F[Elt(S)] + SumFunctionOnSet(F, S \ {Elt(S)})
<1>. DEFINE R == S \ {Elt(S)}
<1>1. R \subseteq S /\ IsFiniteSet(R) /\ Counted(F, R)
  BY FS_Subset DEF Counted
<1>2. PICK g : Adds(g, F, S) /\ SumFunctionOnSet(F, S) = g[S]
  BY SumAdds
<1>. HIDE DEF R
<1>3. PICK h : Adds(h, F, R) /\ SumFunctionOnSet(F, R) = h[R]
  BY <1>1, SumAdds
<1>4. h[R] = g[R]
  BY <1>1, <1>2, <1>3, AddsUnique
<1>5. g[S] = F[Elt(S)] + g[R]
  BY <1>2, AddsAt DEF R
<1>6. SumFunctionOnSet(F, S) = F[Elt(S)] + SumFunctionOnSet(F, R)
  BY <1>2, <1>3, <1>4, <1>5
<1>. QED BY <1>6 DEF R

(* Any element may be taken out of the sum, not only the chosen one.        *)
LEMMA SumRemove ==
  ASSUME NEW F, NEW S, IsFiniteSet(S), Counted(F, S), NEW y \in S
  PROVE  SumFunctionOnSet(F, S) = F[y] + SumFunctionOnSet(F, S \ {y})
<1>. DEFINE Good == {T \in SUBSET S : \A z \in T :
                       SumFunctionOnSet(F, T) = F[z] + SumFunctionOnSet(F, T \ {z})}
<1>1. ASSUME NEW T \in SUBSET S
      PROVE  IsFiniteSet(T) /\ Counted(F, T)
  BY FS_Subset DEF Counted
<1>2. ASSUME NEW T \in SUBSET S, \A U \in SUBSET T : U # T => U \in Good
      PROVE  T \in Good
  <2>1. ASSUME NEW z \in T
        PROVE  SumFunctionOnSet(F, T) = F[z] + SumFunctionOnSet(F, T \ {z})
    <3>1. PICK x : x = Elt(T)
      OBVIOUS
    <3>2. x \in T /\ SumFunctionOnSet(F, T) = F[x] + SumFunctionOnSet(F, T \ {x})
      BY <1>1, <3>1, EltIn, SumChosen
    <3>3. CASE z = x
      BY <3>2, <3>3
    <3>4. CASE z # x
      <4>1. T \ {x} \in Good /\ T \ {z} \in Good
        BY <1>2, <3>2
      <4>2. SumFunctionOnSet(F, T \ {x}) = F[z] + SumFunctionOnSet(F, (T \ {x}) \ {z})
        BY <3>4, <4>1
      <4>3. SumFunctionOnSet(F, T \ {z}) = F[x] + SumFunctionOnSet(F, (T \ {z}) \ {x})
        BY <3>2, <3>4, <4>1
      <4>4. (T \ {x}) \ {z} = (T \ {z}) \ {x}
        OBVIOUS
      <4>5. F[x] \in Nat /\ F[z] \in Nat
        BY <3>2 DEF Counted
      <4>6. PICK n \in Nat : n = SumFunctionOnSet(F, (T \ {z}) \ {x})
        BY <1>1, SumNat
      <4>7. SumFunctionOnSet(F, T \ {x}) = F[z] + n /\ SumFunctionOnSet(F, T \ {z}) = F[x] + n
        BY <4>2, <4>3, <4>4, <4>6
      <4>8. F[x] + (F[z] + n) = F[z] + (F[x] + n)
        BY <4>5, <4>6
      <4>. QED BY <3>2, <4>7, <4>8
    <3>. QED BY <3>3, <3>4
  <2>. QED BY <2>1
<1>3. S \in Good
  <2>. HIDE DEF Good
  <2>. QED BY <1>2, SubsetInduction
<1>. QED BY <1>3

(* The same terms give the same sum, and smaller terms a smaller one.       *)
LEMMA SumMonotone ==
  ASSUME NEW F, NEW G, NEW S, IsFiniteSet(S), Counted(F, S), Counted(G, S),
         \A x \in S : F[x] <= G[x]
  PROVE  SumFunctionOnSet(F, S) <= SumFunctionOnSet(G, S)
<1>. DEFINE Good == {T \in SUBSET S : SumFunctionOnSet(F, T) <= SumFunctionOnSet(G, T)}
<1>1. ASSUME NEW T \in SUBSET S
      PROVE  IsFiniteSet(T) /\ Counted(F, T) /\ Counted(G, T)
  BY FS_Subset DEF Counted
<1>2. ASSUME NEW T \in SUBSET S, \A U \in SUBSET T : U # T => U \in Good
      PROVE  T \in Good
  <2>1. CASE T = {}
    BY <2>1, SumEmpty
  <2>2. CASE T # {}
    <3>1. PICK x \in T : TRUE
      BY <2>2
    <3>2. T \ {x} \in Good
      BY <1>2, <3>1
    <3>3. /\ SumFunctionOnSet(F, T) = F[x] + SumFunctionOnSet(F, T \ {x})
          /\ SumFunctionOnSet(G, T) = G[x] + SumFunctionOnSet(G, T \ {x})
      BY <1>1, <3>1, SumRemove
    <3>4. SumFunctionOnSet(F, T \ {x}) \in Nat /\ SumFunctionOnSet(G, T \ {x}) \in Nat
      BY <1>1, SumNat
    <3>5. F[x] \in Nat /\ G[x] \in Nat /\ F[x] <= G[x]
      BY <3>1 DEF Counted
    <3>. QED BY <3>2, <3>3, <3>4, <3>5
  <2>. QED BY <2>1, <2>2
<1>3. S \in Good
  <2>. HIDE DEF Good
  <2>. QED BY <1>2, SubsetInduction
<1>. QED BY <1>3

LEMMA SumAgree ==
  ASSUME NEW F, NEW G, NEW S, IsFiniteSet(S), Counted(F, S),
         \A x \in S : G[x] = F[x]
  PROVE  SumFunctionOnSet(G, S) = SumFunctionOnSet(F, S)
<1>1. Counted(G, S) /\ \A x \in S : F[x] \in Nat /\ F[x] <= G[x] /\ G[x] <= F[x]
  BY DEF Counted
<1>2. /\ SumFunctionOnSet(F, S) <= SumFunctionOnSet(G, S)
      /\ SumFunctionOnSet(G, S) <= SumFunctionOnSet(F, S)
  BY <1>1, SumMonotone
<1>3. SumFunctionOnSet(F, S) \in Nat /\ SumFunctionOnSet(G, S) \in Nat
  BY <1>1, SumNat
<1>. QED BY <1>2, <1>3

(* One term changes.                                                        *)
LEMMA SumUpdate ==
  ASSUME NEW F, NEW G, NEW S, IsFiniteSet(S), Counted(F, S), Counted(G, S),
         NEW a \in S, \A x \in S \ {a} : G[x] = F[x]
  PROVE  SumFunctionOnSet(G, S) + F[a] = SumFunctionOnSet(F, S) + G[a]
<1>1. IsFiniteSet(S \ {a}) /\ Counted(F, S \ {a})
  BY FS_Subset DEF Counted
<1>2. SumFunctionOnSet(G, S \ {a}) = SumFunctionOnSet(F, S \ {a})
  BY <1>1, SumAgree
<1>3. /\ SumFunctionOnSet(F, S) = F[a] + SumFunctionOnSet(F, S \ {a})
      /\ SumFunctionOnSet(G, S) = G[a] + SumFunctionOnSet(G, S \ {a})
  BY SumRemove
<1>4. SumFunctionOnSet(F, S \ {a}) \in Nat /\ F[a] \in Nat /\ G[a] \in Nat
  BY <1>1, SumNat DEF Counted
<1>. QED BY <1>2, <1>3, <1>4

(* The sum over a set is that over a part of it and that over the rest.     *)
LEMMA SumSplit ==
  ASSUME NEW F, NEW S, IsFiniteSet(S), Counted(F, S), NEW R \in SUBSET S
  PROVE  SumFunctionOnSet(F, S) = SumFunctionOnSet(F, R) + SumFunctionOnSet(F, S \ R)
<1>. DEFINE Good == {T \in SUBSET S : SumFunctionOnSet(F, T)
                       = SumFunctionOnSet(F, T \cap R) + SumFunctionOnSet(F, T \ R)}
<1>1. ASSUME NEW T \in SUBSET S
      PROVE  IsFiniteSet(T) /\ Counted(F, T) /\ SumFunctionOnSet(F, T) \in Nat
  BY FS_Subset, SumNat DEF Counted
<1>2. ASSUME NEW T \in SUBSET S, \A U \in SUBSET T : U # T => U \in Good
      PROVE  T \in Good
  <2>1. CASE T = {}
    <3>1. T \cap R = {} /\ T \ R = {}
      BY <2>1
    <3>. QED BY <2>1, <3>1, SumEmpty
  <2>2. CASE T # {}
    <3>1. PICK x \in T : TRUE
      BY <2>2
    <3>2. T \ {x} \in Good
      BY <1>2, <3>1
    <3>3. SumFunctionOnSet(F, T) = F[x] + SumFunctionOnSet(F, T \ {x})
      BY <1>1, <3>1, SumRemove
    <3>4. F[x] \in Nat
      BY <3>1 DEF Counted
    <3>5. CASE x \in R
      <4>1. SumFunctionOnSet(F, T \cap R) = F[x] + SumFunctionOnSet(F, (T \cap R) \ {x})
        BY <1>1, <3>1, <3>5, SumRemove
      <4>2. (T \cap R) \ {x} = (T \ {x}) \cap R /\ (T \ {x}) \ R = T \ R
        BY <3>5
      <4>3. PICK m, n \in Nat : m = SumFunctionOnSet(F, (T \ {x}) \cap R)
                              /\ n = SumFunctionOnSet(F, T \ R)
        BY <1>1
      <4>4. SumFunctionOnSet(F, T \ {x}) = m + n
        BY <3>2, <4>2, <4>3
      <4>5. SumFunctionOnSet(F, T \cap R) = F[x] + m
        BY <4>1, <4>2, <4>3
      <4>6. F[x] + (m + n) = (F[x] + m) + n
        BY <3>4, <4>3
      <4>. QED BY <3>3, <4>3, <4>4, <4>5, <4>6
    <3>6. CASE x \notin R
      <4>1. SumFunctionOnSet(F, T \ R) = F[x] + SumFunctionOnSet(F, (T \ R) \ {x})
        BY <1>1, <3>1, <3>6, SumRemove
      <4>2. (T \ R) \ {x} = (T \ {x}) \ R /\ (T \ {x}) \cap R = T \cap R
        BY <3>6
      <4>3. PICK m, n \in Nat : m = SumFunctionOnSet(F, T \cap R)
                              /\ n = SumFunctionOnSet(F, (T \ {x}) \ R)
        BY <1>1
      <4>4. SumFunctionOnSet(F, T \ {x}) = m + n
        BY <3>2, <4>2, <4>3
      <4>5. SumFunctionOnSet(F, T \ R) = F[x] + n
        BY <4>1, <4>2, <4>3
      <4>6. F[x] + (m + n) = m + (F[x] + n)
        BY <3>4, <4>3
      <4>. QED BY <3>3, <4>3, <4>4, <4>5, <4>6
    <3>. QED BY <3>5, <3>6
  <2>. QED BY <2>1, <2>2
<1>3. S \in Good
  <2>. HIDE DEF Good
  <2>. QED BY <1>2, SubsetInduction
<1>4. S \cap R = R
  OBVIOUS
<1>. QED BY <1>3, <1>4

(* More elements, a larger sum.                                             *)
LEMMA SumSubset ==
  ASSUME NEW F, NEW S, IsFiniteSet(S), Counted(F, S), NEW R \in SUBSET S
  PROVE  SumFunctionOnSet(F, R) <= SumFunctionOnSet(F, S)
<1>1. /\ IsFiniteSet(R) /\ Counted(F, R)
      /\ IsFiniteSet(S \ R) /\ Counted(F, S \ R)
  BY FS_Subset DEF Counted
<1>2. SumFunctionOnSet(F, R) \in Nat /\ SumFunctionOnSet(F, S \ R) \in Nat
  BY <1>1, SumNat
<1>. QED BY <1>2, SumSplit

-----------------------------------------------------------------------------
(* The inductive invariant.                                                 *)

\* A workflow has no more runs than it may start, none before it is admitted,
\* and those whose session no result names are among those that have one.
FlowsBounded ==
  \A f \in Flows :
    /\ unnamed[f] <= flowOpen[f] /\ flowOpen[f] <= opened[f] /\ opened[f] <= Demand[f]
    /\ flow[f] \in {"none", "submitted", "waiting"} => opened[f] = 0

\* A workflow stands in the line of requests once, while it waits.
FlowsInLine ==
  \A i \in DOMAIN tail : tail[i] \in Flows =>
    /\ flow[tail[i]] = "waiting"
    /\ \A j \in DOMAIN tail : tail[j] = tail[i] => j = i

\* Only a conversation that has no session yet asks for one, so a session that
\* was retained is never opened again.
RetainedInv ==
  /\ \A i \in DOMAIN tail : tail[i] \notin Retained
  /\ \A d \in Retained : avail[d] \notin {"absent", "waiting", "admitted"}

\* A session is closed for the first request in the line.
ServesFirst == Busy => tail # <<>>

IInv ==
  /\ TypeOK
  /\ FlowsBounded /\ FlowsInLine /\ RetainedInv /\ ServesFirst
  /\ ReservationsExact /\ ReservedFits

-----------------------------------------------------------------------------
(* The sums of the invariant.                                               *)

RetainedOpen == {d \in Retained : sess[d] # "none"}

DirectsOpen == {d \in Directs : sess[d] # "none"}

Claims == [f \in Flows |-> flowOpen[f] + Outstanding(f)]

LEMMA FiniteParts ==
  /\ IsFiniteSet(Flows) /\ IsFiniteSet(Flows \ UiFlows)
  /\ \A S \in SUBSET Flows : IsFiniteSet(S) /\ Counted(Demand, S)
  /\ \A S \in SUBSET Directs : IsFiniteSet(S) /\ Cardinality(S) \in Nat
<1>1. IsFiniteSet(Flows) /\ Counted(Demand, Flows)
  BY CapacityAssumption DEF Counted
<1>2. \A S \in SUBSET Flows : IsFiniteSet(S) /\ Counted(Demand, S)
  BY <1>1, FS_Subset DEF Counted
<1>3. IsFiniteSet(Directs)
  BY CapacityAssumption, FS_Union DEF Directs
<1>4. \A S \in SUBSET Directs : IsFiniteSet(S) /\ Cardinality(S) \in Nat
  BY <1>3, FS_Subset, FS_CardinalityType
<1>. QED BY <1>1, <1>2, <1>4

\* What a workflow may still need.
ClaimsExact ==
  \A f \in Flows :
    /\ Claims[f] \in Nat /\ flowOpen[f] \in Nat /\ Demand[f] \in Nat
    /\ opened[f] \in Nat /\ unnamed[f] \in Nat
    /\ flow[f] = "running" => Claims[f] = Demand[f]
    /\ flow[f] # "running" => Claims[f] = flowOpen[f]
    /\ Claims[f] <= Demand[f]

LEMMA ClaimsAre == TypeOK /\ FlowsBounded => ClaimsExact
<1>. SUFFICES ASSUME TypeOK, FlowsBounded, NEW f \in Flows
     PROVE  /\ Claims[f] \in Nat /\ flowOpen[f] \in Nat /\ Demand[f] \in Nat
            /\ opened[f] \in Nat /\ unnamed[f] \in Nat
            /\ flow[f] = "running" => Claims[f] = Demand[f]
            /\ flow[f] # "running" => Claims[f] = flowOpen[f]
            /\ Claims[f] <= Demand[f]
  BY DEF ClaimsExact
<1>1. flowOpen[f] \in Nat /\ Demand[f] \in Nat /\ opened[f] \in Nat /\ unnamed[f] \in Nat
  BY CapacityAssumption DEF TypeOK
<1>2. flowOpen[f] <= opened[f] /\ opened[f] <= Demand[f]
  BY DEF FlowsBounded
<1>3. Claims[f] = flowOpen[f] + Outstanding(f)
  BY DEF Claims
<1>. QED BY <1>1, <1>2, <1>3 DEF Outstanding

LEMMA ClaimsAreThen == TypeOK' /\ FlowsBounded' => ClaimsExact'
BY ClaimsAre, PTL

LEMMA FitsMeans ==
  ReservedFits <=> Cardinality(RetainedOpen) + SumFunctionOnSet(Claims, Flows \ UiFlows) <= Limit
BY DEF ReservedFits, RetainedOpen, Claims

LEMMA FitsMeansThen ==
  ReservedFits' <=> Cardinality(RetainedOpen') + SumFunctionOnSet(Claims', Flows \ UiFlows) <= Limit
BY DEF ReservedFits, RetainedOpen, Claims

(* Nothing is claimed that was not claimed before.                          *)
LEMMA FitsShrinks ==
  ASSUME IInv, TypeOK', FlowsBounded', RetainedOpen' \subseteq RetainedOpen,
         \A f \in Flows \ UiFlows : Claims'[f] <= Claims[f]
  PROVE  ReservedFits'
<1>1. Counted(Claims, Flows \ UiFlows)
  BY ClaimsAre DEF IInv, Counted, ClaimsExact
<1>2. Counted(Claims', Flows \ UiFlows)
  BY ClaimsAreThen DEF Counted, ClaimsExact
<1>3. SumFunctionOnSet(Claims', Flows \ UiFlows) <= SumFunctionOnSet(Claims, Flows \ UiFlows)
  BY <1>1, <1>2, FiniteParts, SumMonotone
<1>4. /\ SumFunctionOnSet(Claims', Flows \ UiFlows) \in Nat
      /\ SumFunctionOnSet(Claims, Flows \ UiFlows) \in Nat
  BY <1>1, <1>2, FiniteParts, SumNat
<1>5. RetainedOpen \subseteq Directs
  BY DEF RetainedOpen, Directs
<1>6. /\ Cardinality(RetainedOpen') <= Cardinality(RetainedOpen)
      /\ Cardinality(RetainedOpen') \in Nat /\ Cardinality(RetainedOpen) \in Nat
  BY <1>5, FiniteParts, FS_Subset
<1>7. Limit \in Nat
  BY CapacityAssumption
<1>8. ReservedFits
  BY DEF IInv
<1>. QED BY <1>3, <1>4, <1>6, <1>7, <1>8, FitsMeans, FitsMeansThen

LEMMA HeldCounted ==
  ASSUME TypeOK
  PROVE  /\ \A S \in SUBSET Flows : Counted(Held, S) /\ SumFunctionOnSet(Held, S) \in Nat
         /\ \A f \in Flows : flowOpen[f] <= Held[f]
<1>1. ASSUME NEW f \in Flows PROVE Held[f] \in Nat /\ flowOpen[f] <= Held[f]
  <2>1. flowOpen[f] \in Nat /\ stray[f] \in Nat /\ Held[f] = flowOpen[f] + stray[f]
    BY DEF TypeOK, Held
  <2>. QED BY <2>1
<1>2. \A S \in SUBSET Flows : Counted(Held, S)
  BY <1>1 DEF Counted
<1>. QED BY <1>1, <1>2, FiniteParts, SumNat

(* When there is room for a workflow that holds a reservation, the open      *)
(* conversations, the sessions of workflows without a reservation and all    *)
(* the reservations fit together: the sessions of the others, counted or     *)
(* not, cancel out.                                                          *)
LEMMA RoomMeans ==
  ASSUME IInv, NEW n \in Nat, Room(n, n)
  PROVE  Cardinality(DirectsOpen) + SumFunctionOnSet(Held, Flows \ Reserving)
           + SumFunctionOnSet(Demand, Reserving) <= Limit
<1>1. Reserving \in SUBSET Flows
  BY DEF Reserving
<1>2. PICK m, k, r, c \in Nat :
        /\ m = SumFunctionOnSet(Held, Reserving)
        /\ k = SumFunctionOnSet(Held, Flows \ Reserving)
        /\ r = SumFunctionOnSet(Demand, Reserving)
        /\ c = Cardinality(DirectsOpen)
  <2>1. SumFunctionOnSet(Held, Reserving) \in Nat
    BY <1>1, HeldCounted DEF IInv
  <2>2. SumFunctionOnSet(Held, Flows \ Reserving) \in Nat
    BY HeldCounted DEF IInv
  <2>3. SumFunctionOnSet(Demand, Reserving) \in Nat
    BY <1>1, FiniteParts, SumNat
  <2>4. Cardinality(DirectsOpen) \in Nat
    BY FiniteParts DEF DirectsOpen
  <2>. QED BY <2>1, <2>2, <2>3, <2>4
<1>3. SumFunctionOnSet(Held, Flows) = m + k
  BY <1>1, <1>2, FiniteParts, HeldCounted, SumSplit DEF IInv
<1>4. (c + (m + k)) + r + n <= Limit + m + n
  BY <1>2, <1>3 DEF Room, ProviderSessions, Materialized, DirectsOpen, IInv, ReservationsExact
<1>5. Limit \in Nat
  BY CapacityAssumption
<1>6. c + k + r <= Limit
  BY <1>4, <1>5
<1>. QED BY <1>2, <1>6

(* So the workflow may be admitted.                                         *)
LEMMA AdmissionFits ==
  ASSUME IInv, TypeOK', FlowsBounded', NEW f \in Flows \ UiFlows, flow[f] = "waiting",
         Room(Demand[f], Demand[f]), flow' = [flow EXCEPT ![f] = "running"],
         UNCHANGED <<sess, flowOpen, opened>>
  PROVE  ReservedFits'
<1>. DEFINE Own == Flows \ UiFlows
<1>1. Reserving \in SUBSET Own /\ Own \in SUBSET Flows
  BY DEF Reserving
<1>2. \A g \in Own \ Reserving : Claims'[g] = flowOpen[g]
  <2>1. ASSUME NEW g \in Own \ Reserving PROVE flow'[g] # "running"
    BY <2>1 DEF Reserving, IInv, TypeOK
  <2>. QED BY <2>1, ClaimsAreThen DEF ClaimsExact
<1>3. \A S \in SUBSET Flows : /\ IsFiniteSet(S) /\ Counted(Claims', S)
                              /\ SumFunctionOnSet(Claims', S) \in Nat
  <2>1. \A S \in SUBSET Flows : Counted(Claims', S)
    BY ClaimsAreThen DEF ClaimsExact, Counted
  <2>. QED BY <2>1, FiniteParts, SumNat
<1>4. SumFunctionOnSet(Claims', Reserving) <= SumFunctionOnSet(Demand, Reserving)
  <2>1. \A g \in Reserving : Claims'[g] <= Demand[g]
    BY <1>1, ClaimsAreThen DEF ClaimsExact
  <2>2. IsFiniteSet(Reserving) /\ Counted(Claims', Reserving) /\ Counted(Demand, Reserving)
    BY <1>1, <1>3, FiniteParts
  <2>. QED BY <2>1, <2>2, SumMonotone
<1>5. SumFunctionOnSet(Claims', Own \ Reserving) <= SumFunctionOnSet(Held, Flows \ Reserving)
  <2>1. /\ IsFiniteSet(Own \ Reserving) /\ Counted(Held, Own \ Reserving)
        /\ IsFiniteSet(Flows \ Reserving) /\ Counted(Held, Flows \ Reserving)
        /\ Counted(Claims', Own \ Reserving)
    BY <1>1, <1>3, FiniteParts, HeldCounted DEF IInv
  <2>2. \A g \in Own \ Reserving : Claims'[g] <= Held[g]
    BY <1>1, <1>2, HeldCounted DEF IInv
  <2>3. SumFunctionOnSet(Claims', Own \ Reserving) <= SumFunctionOnSet(Held, Own \ Reserving)
    BY <2>1, <2>2, SumMonotone
  <2>4. Own \ Reserving \in SUBSET (Flows \ Reserving)
    BY <1>1
  <2>5. SumFunctionOnSet(Held, Own \ Reserving) <= SumFunctionOnSet(Held, Flows \ Reserving)
    BY <2>1, <2>4, SumSubset
  <2>6. /\ SumFunctionOnSet(Claims', Own \ Reserving) \in Nat
        /\ SumFunctionOnSet(Held, Own \ Reserving) \in Nat
        /\ SumFunctionOnSet(Held, Flows \ Reserving) \in Nat
    BY <1>1, <1>3, HeldCounted DEF IInv
  <2>. QED BY <2>3, <2>5, <2>6
<1>6. SumFunctionOnSet(Claims', Own)
        = SumFunctionOnSet(Claims', Reserving) + SumFunctionOnSet(Claims', Own \ Reserving)
  <2>1. IsFiniteSet(Own) /\ Counted(Claims', Own)
    BY <1>1, <1>3
  <2>. QED BY <1>1, <2>1, SumSplit
<1>7. Cardinality(RetainedOpen') <= Cardinality(DirectsOpen)
  <2>1. RetainedOpen' \subseteq DirectsOpen /\ DirectsOpen \in SUBSET Directs
    BY DEF RetainedOpen, DirectsOpen, Directs
  <2>. QED BY <2>1, FiniteParts, FS_Subset
<1>8. PICK a, b, c, x, y, z \in Nat :
        /\ a = SumFunctionOnSet(Claims', Reserving)
        /\ b = SumFunctionOnSet(Claims', Own \ Reserving)
        /\ c = Cardinality(RetainedOpen')
        /\ x = SumFunctionOnSet(Demand, Reserving)
        /\ y = SumFunctionOnSet(Held, Flows \ Reserving)
        /\ z = Cardinality(DirectsOpen)
  <2>1. /\ SumFunctionOnSet(Claims', Reserving) \in Nat
        /\ SumFunctionOnSet(Claims', Own \ Reserving) \in Nat
    BY <1>1, <1>3
  <2>2. SumFunctionOnSet(Demand, Reserving) \in Nat
    BY <1>1, FiniteParts, SumNat
  <2>3. SumFunctionOnSet(Held, Flows \ Reserving) \in Nat
    BY HeldCounted DEF IInv
  <2>4. DirectsOpen \in SUBSET Directs /\ RetainedOpen' \in SUBSET Directs
    BY DEF RetainedOpen, DirectsOpen, Directs
  <2>5. Cardinality(RetainedOpen') \in Nat /\ Cardinality(DirectsOpen) \in Nat
    BY <2>4, FiniteParts
  <2>. QED BY <2>1, <2>2, <2>3, <2>5
<1>9. z + y + x <= Limit
  <2>1. Demand[f] \in Nat
    BY CapacityAssumption
  <2>. QED BY <1>8, <2>1, RoomMeans
<1>10. c + (a + b) <= Limit
  <2>1. a <= x /\ b <= y /\ c <= z /\ Limit \in Nat
    BY <1>4, <1>5, <1>7, <1>8, CapacityAssumption
  <2>. QED BY <1>9, <2>1
<1>11. SumFunctionOnSet(Claims', Own) = a + b
  BY <1>6, <1>8
<1>. QED BY <1>8, <1>10, <1>11, FitsMeansThen

-----------------------------------------------------------------------------
(* Reservations are made and given back.                                    *)

LEMMA ReservationsStay ==
  ASSUME ReservationsExact, Reserving' = Reserving, reserved' = reserved
  PROVE  ReservationsExact'
BY DEF ReservationsExact

LEMMA ReservationMade ==
  ASSUME IInv, NEW f \in Flows, flow[f] = "none",
         flow' = [flow EXCEPT ![f] = "submitted"], reserved' = reserved + Reserve(f)
  PROVE  ReservationsExact' /\ reserved' \in Nat
<1>1. Demand[f] \in Nat /\ reserved \in Nat
  BY CapacityAssumption DEF IInv, TypeOK
<1>2. CASE f \in UiFlows
  <2>1. Reserving' = Reserving
    BY <1>2 DEF Reserving, IInv, TypeOK
  <2>2. reserved' = reserved
    BY <1>1, <1>2 DEF Reserve
  <2>. QED BY <1>1, <2>1, <2>2, ReservationsStay DEF IInv
<1>3. CASE f \notin UiFlows
  <2>1. /\ Reserving' \in SUBSET Flows /\ f \in Reserving'
        /\ Reserving' \ {f} = Reserving
    BY <1>3 DEF Reserving, IInv, TypeOK
  <2>2. SumFunctionOnSet(Demand, Reserving')
          = Demand[f] + SumFunctionOnSet(Demand, Reserving' \ {f})
    BY <2>1, FiniteParts, SumRemove
  <2>3. reserved' = reserved + Demand[f]
    BY <1>3 DEF Reserve
  <2>4. reserved = SumFunctionOnSet(Demand, Reserving)
    BY DEF IInv, ReservationsExact
  <2>5. reserved' = SumFunctionOnSet(Demand, Reserving')
    <3>1. Reserving' \ {f} = Reserving
      BY <2>1
    <3>2. SumFunctionOnSet(Demand, Reserving') = Demand[f] + reserved
      BY <2>2, <2>4, <3>1
    <3>. QED BY <1>1, <2>3, <3>2
  <2>6. reserved' \in Nat
    BY <1>1, <2>3
  <2>. QED BY <2>5, <2>6 DEF ReservationsExact
<1>. QED BY <1>2, <1>3

LEMMA ReservationGivenBack ==
  ASSUME IInv, NEW f \in Flows, flow[f] \in {"submitted", "waiting", "running", "closing"},
         NEW end \in {"done", "refused"},
         flow' = [flow EXCEPT ![f] = end], reserved' = GivenBack(f)
  PROVE  ReservationsExact' /\ reserved' \in Nat
<1>1. Demand[f] \in Nat /\ reserved \in Nat
  BY CapacityAssumption DEF IInv, TypeOK
<1>2. CASE f \in UiFlows
  <2>1. Reserving' = Reserving
    BY <1>2 DEF Reserving, IInv, TypeOK
  <2>2. reserved' = reserved
    BY <1>1, <1>2 DEF Reserve, GivenBack
  <2>. QED BY <1>1, <2>1, <2>2, ReservationsStay DEF IInv
<1>3. CASE f \notin UiFlows
  <2>1. /\ Reserving \in SUBSET Flows /\ f \in Reserving
        /\ Reserving \ {f} = Reserving'
    BY <1>3 DEF Reserving, IInv, TypeOK
  <2>2. SumFunctionOnSet(Demand, Reserving)
          = Demand[f] + SumFunctionOnSet(Demand, Reserving \ {f})
    BY <2>1, FiniteParts, SumRemove
  <2>3. PICK n \in Nat : n = SumFunctionOnSet(Demand, Reserving \ {f})
    BY <2>1, FiniteParts, SumNat
  <2>4. reserved' = reserved - Demand[f]
    BY <1>3 DEF Reserve, GivenBack
  <2>5. reserved = Demand[f] + n
    BY <2>2, <2>3 DEF IInv, ReservationsExact
  <2>6. reserved' = n
    BY <1>1, <2>4, <2>5
  <2>7. reserved' = SumFunctionOnSet(Demand, Reserving')
    BY <2>1, <2>3, <2>6
  <2>. QED BY <2>3, <2>6, <2>7 DEF ReservationsExact
<1>. QED BY <1>2, <1>3

(* The line of requests.                                                    *)
LEMMA LineStays ==
  ASSUME IInv, tail' = tail,
         \A f \in Flows : flow[f] = "waiting" => flow'[f] = "waiting"
  PROVE  FlowsInLine'
BY DEF IInv, FlowsInLine

LEMMA LineAdvances ==
  ASSUME IInv, tail # <<>>, tail' = Tail(tail),
         \A f \in Flows \ {Head(tail)} : flow'[f] = flow[f]
  PROVE  /\ FlowsInLine' /\ \A i \in DOMAIN tail' : tail'[i] \notin Retained
         /\ tail' \in Seq(Directs \cup Flows)
<1>1. /\ tail \in Seq(Directs \cup Flows) /\ Len(tail) \in Nat \ {0}
      /\ DOMAIN tail = 1..Len(tail) /\ Head(tail) = tail[1]
  BY DEF IInv, TypeOK
<1>2. /\ tail' \in Seq(Directs \cup Flows) /\ DOMAIN tail' = 1..(Len(tail) - 1)
      /\ \A i \in DOMAIN tail' : tail'[i] = tail[i + 1]
  BY <1>1
<1>3. \A i \in DOMAIN tail' : i + 1 \in DOMAIN tail
  BY <1>1, <1>2
<1>4. ASSUME NEW i \in DOMAIN tail', tail'[i] \in Flows
      PROVE  /\ flow'[tail'[i]] = "waiting"
             /\ \A j \in DOMAIN tail' : tail'[j] = tail'[i] => j = i
  <2>1. i \in Nat /\ i + 1 \in DOMAIN tail /\ tail'[i] = tail[i + 1] /\ i + 1 # 1 /\ 1 \in DOMAIN tail
    BY <1>1, <1>2, <1>3
  <2>2. tail[i + 1] # tail[1] /\ flow[tail[i + 1]] = "waiting"
    BY <1>4, <2>1 DEF IInv, FlowsInLine
  <2>3. flow'[tail'[i]] = "waiting"
    BY <1>1, <1>4, <2>1, <2>2
  <2>4. ASSUME NEW j \in DOMAIN tail', tail'[j] = tail'[i] PROVE j = i
    <3>1. j \in Nat /\ j + 1 \in DOMAIN tail /\ tail'[j] = tail[j + 1]
      BY <1>1, <1>2, <1>3
    <3>2. j + 1 = i + 1
      BY <1>4, <2>1, <2>4, <3>1 DEF IInv, FlowsInLine
    <3>. QED BY <2>1, <3>1, <3>2
  <2>. QED BY <2>3, <2>4
<1>5. \A i \in DOMAIN tail' : tail'[i] \notin Retained
  BY <1>2, <1>3 DEF IInv, RetainedInv
<1>6. FlowsInLine'
  BY <1>4 DEF FlowsInLine
<1>. QED BY <1>2, <1>5, <1>6

LEMMA LineGrows ==
  ASSUME IInv, NEW o \in Directs \cup Flows, o \notin Retained, tail' = Append(tail, o),
         o \in Flows => flow[o] # "waiting" /\ flow'[o] = "waiting",
         \A f \in Flows \ {o} : flow'[f] = flow[f]
  PROVE  /\ FlowsInLine' /\ \A i \in DOMAIN tail' : tail'[i] \notin Retained
         /\ tail' \in Seq(Directs \cup Flows) /\ tail' # <<>>
<1>1. /\ tail \in Seq(Directs \cup Flows) /\ Len(tail) \in Nat
      /\ DOMAIN tail = 1..Len(tail)
  BY DEF IInv, TypeOK
<1>2. /\ tail' \in Seq(Directs \cup Flows) /\ tail' # <<>>
      /\ DOMAIN tail' = 1..(Len(tail) + 1)
      /\ tail'[Len(tail) + 1] = o
      /\ \A i \in DOMAIN tail : tail'[i] = tail[i]
  BY <1>1
<1>3. \A i \in DOMAIN tail' : i = Len(tail) + 1 \/ i \in DOMAIN tail
  BY <1>1, <1>2
<1>4. ASSUME NEW i \in DOMAIN tail, tail[i] \in Flows
      PROVE  tail[i] # o /\ flow[tail[i]] = "waiting"
  BY <1>4 DEF IInv, FlowsInLine
<1>5. ASSUME NEW i \in DOMAIN tail', tail'[i] \in Flows
      PROVE  /\ flow'[tail'[i]] = "waiting"
             /\ \A j \in DOMAIN tail' : tail'[j] = tail'[i] => j = i
  <2>1. CASE i = Len(tail) + 1
    BY <1>2, <1>3, <1>4, <1>5, <2>1
  <2>2. CASE i \in DOMAIN tail
    <3>1. flow'[tail'[i]] = "waiting"
      BY <1>2, <1>4, <1>5, <2>2
    <3>2. \A j \in DOMAIN tail' : tail'[j] = tail'[i] => j = i
      BY <1>2, <1>3, <1>4, <1>5, <2>2 DEF IInv, FlowsInLine
    <3>. QED BY <3>1, <3>2
  <2>. QED BY <1>3, <2>1, <2>2
<1>6. \A i \in DOMAIN tail' : tail'[i] \notin Retained
  BY <1>2, <1>3 DEF IInv, RetainedInv
<1>7. FlowsInLine'
  BY <1>5 DEF FlowsInLine
<1>. QED BY <1>2, <1>6, <1>7

-----------------------------------------------------------------------------
(* Init, and the steps one by one.                                          *)

LEMMA SumZero ==
  ASSUME NEW F, NEW S, IsFiniteSet(S), \A x \in S : F[x] = 0
  PROVE  SumFunctionOnSet(F, S) = 0
<1>. DEFINE Good == {T \in SUBSET S : SumFunctionOnSet(F, T) = 0}
<1>1. ASSUME NEW T \in SUBSET S
      PROVE  IsFiniteSet(T) /\ Counted(F, T)
  BY FS_Subset DEF Counted
<1>2. ASSUME NEW T \in SUBSET S, \A U \in SUBSET T : U # T => U \in Good
      PROVE  T \in Good
  <2>1. CASE T = {}
    BY <2>1, SumEmpty
  <2>2. CASE T # {}
    <3>1. PICK x \in T : TRUE
      BY <2>2
    <3>2. T \ {x} \in Good
      BY <1>2, <3>1
    <3>3. SumFunctionOnSet(F, T) = F[x] + SumFunctionOnSet(F, T \ {x})
      BY <1>1, <3>1, SumRemove
    <3>. QED BY <3>2, <3>3
  <2>. QED BY <2>1, <2>2
<1>3. S \in Good
  <2>. HIDE DEF Good
  <2>. QED BY <1>2, SubsetInduction
<1>. QED BY <1>3

LEMMA InitInvariant == Init => IInv
<1>. SUFFICES ASSUME Init PROVE IInv
  OBVIOUS
<1>1. TypeOK
  BY DEF Init, TypeOK, Directs
<1>2. FlowsBounded
  BY CapacityAssumption DEF Init, FlowsBounded
<1>3. FlowsInLine /\ RetainedInv /\ ServesFirst
  BY DEF Init, FlowsInLine, RetainedInv, ServesFirst, Busy, Directs
<1>4. ReservationsExact
  <2>1. Reserving = {} /\ reserved = 0
    BY DEF Init, Reserving
  <2>. QED BY <2>1, SumEmpty DEF ReservationsExact
<1>5. ReservedFits
  <2>1. RetainedOpen = Retained
    BY DEF Init, RetainedOpen, Directs
  <2>2. \A f \in Flows : Claims[f] = 0
    BY DEF Init, Claims, Outstanding
  <2>3. SumFunctionOnSet(Claims, Flows \ UiFlows) = 0
    BY <2>2, FiniteParts, SumZero
  <2>4. Cardinality(Retained) \in Nat /\ Cardinality(Retained) <= Limit
    BY CapacityAssumption, FS_CardinalityType
  <2>. QED BY <2>1, <2>3, <2>4, FitsMeans
<1>. QED BY <1>1, <1>2, <1>3, <1>4, <1>5 DEF IInv

(* A workflow claims the same unless it runs or did.                        *)
LEMMA ClaimsStay ==
  ASSUME IInv, UNCHANGED <<flowOpen, opened>>,
         \A f \in Flows : flow'[f] = flow[f] \/ (flow'[f] # "running" /\ flow[f] # "running")
  PROVE  \A f \in Flows : Claims'[f] <= Claims[f]
<1>1. ASSUME NEW f \in Flows PROVE Claims'[f] = Claims[f] /\ Claims[f] \in Nat
  <2>1. Claims'[f] = Claims[f]
    BY DEF Claims, Outstanding
  <2>. QED BY <2>1, ClaimsAre DEF IInv, ClaimsExact
<1>. QED BY <1>1

(* A step of a conversation leaves the workflows alone.                     *)
LEMMA FlowsAlone ==
  ASSUME IInv, TypeOK', RetainedOpen' \subseteq RetainedOpen,
         UNCHANGED <<flow, flowOpen, opened, unnamed, stray, reserved>>
  PROVE  FlowsBounded' /\ ReservationsExact' /\ ReservedFits'
<1>1. FlowsBounded'
  BY DEF IInv, FlowsBounded
<1>2. ReservationsExact'
  <2>1. Reserving' = Reserving
    BY DEF Reserving
  <2>. QED BY <2>1, ReservationsStay DEF IInv
<1>3. \A f \in Flows \ UiFlows : Claims'[f] <= Claims[f]
  BY ClaimsStay
<1>4. ReservedFits'
  BY <1>1, <1>3, FitsShrinks
<1>. QED BY <1>1, <1>2, <1>4

LEMMA DirectStepKeeps ==
  ASSUME IInv, NEW d \in Directs,
         \/ SessionClosed(d) \/ OpenDirect(d) \/ ChildExits(d)
         \/ \E oneShot, further \in BOOLEAN : RunEnds(d, oneShot, further)
         \/ SendFollowUp(d) \/ FollowUpBegins(d)
  PROVE  IInv'
<1>1. /\ UNCHANGED <<flow, flowOpen, opened, unnamed, stray, reserved, tail, target, left>>
      /\ sess' \in [Directs -> {"none", "open", "closing"}]
      /\ avail' \in [Directs -> {"absent", "waiting", "admitted", "failed", "ready",
                                 "disposed", "unavailable"}]
      /\ active' \in [Directs -> BOOLEAN] /\ pending' \in [Directs -> BOOLEAN]
  <2>1. TypeOK
    BY DEF IInv
  <2>2. CASE SessionClosed(d)
    BY <2>1, <2>2 DEF SessionClosed, TypeOK
  <2>3. CASE OpenDirect(d)
    BY <2>1, <2>3 DEF OpenDirect, TypeOK
  <2>4. CASE ChildExits(d)
    BY <2>1, <2>4 DEF ChildExits, TypeOK
  <2>5. CASE \E oneShot, further \in BOOLEAN : RunEnds(d, oneShot, further)
    BY <2>1, <2>5 DEF RunEnds, TypeOK
  <2>6. CASE SendFollowUp(d)
    BY <2>1, <2>6 DEF SendFollowUp, TypeOK
  <2>7. CASE FollowUpBegins(d)
    BY <2>1, <2>7 DEF FollowUpBegins, TypeOK
  <2>. QED BY <2>2, <2>3, <2>4, <2>5, <2>6, <2>7
<1>2. TypeOK'
  BY <1>1 DEF IInv, TypeOK
<1>3. \A e \in Retained : avail'[e] = avail[e] \/ avail'[e] \in {"ready", "unavailable"}
  BY DEF SessionClosed, OpenDirect, ChildExits, RunEnds, SendFollowUp, FollowUpBegins,
     IInv, TypeOK, Directs
<1>4. \A e \in Retained : sess'[e] # "none" => sess[e] # "none"
  BY DEF SessionClosed, OpenDirect, ChildExits, RunEnds, SendFollowUp, FollowUpBegins,
     IInv, TypeOK, RetainedInv, Directs
<1>5. RetainedOpen' \subseteq RetainedOpen
  BY <1>4 DEF RetainedOpen
<1>6. FlowsInLine' /\ ServesFirst'
  BY <1>1 DEF IInv, FlowsInLine, ServesFirst, Busy
<1>7. RetainedInv'
  BY <1>1, <1>3 DEF IInv, RetainedInv
<1>. QED BY <1>1, <1>2, <1>5, <1>6, <1>7, FlowsAlone DEF IInv

LEMMA StartDirectKeeps ==
  ASSUME IInv, NEW d \in Directs, StartDirect(d)
  PROVE  IInv'
<1>1. d \notin Retained /\ d \notin Flows
  BY CapacityAssumption DEF StartDirect, IInv, RetainedInv, Directs
<1>2. tail' = Append(tail, d) /\ flow' = flow
  BY DEF StartDirect
<1>3. /\ FlowsInLine' /\ \A i \in DOMAIN tail' : tail'[i] \notin Retained
      /\ tail' \in Seq(Directs \cup Flows) /\ tail' # <<>>
  BY <1>1, <1>2, LineGrows
<1>4. TypeOK'
  BY <1>3 DEF StartDirect, IInv, TypeOK
<1>5. \A e \in Retained : avail'[e] = avail[e]
  BY <1>1 DEF StartDirect, IInv, TypeOK, Directs
<1>6. RetainedInv' /\ ServesFirst'
  BY <1>3, <1>5 DEF IInv, RetainedInv, ServesFirst
<1>7. RetainedOpen' \subseteq RetainedOpen
  BY DEF StartDirect, RetainedOpen
<1>. QED BY <1>3, <1>4, <1>6, <1>7, FlowsAlone DEF IInv, StartDirect

(* One turn of ensureProviderCapacity.                                      *)

LEMMA HeadOfLine ==
  ASSUME IInv, tail # <<>>
  PROVE  /\ Head(tail) \in Directs \cup Flows /\ Head(tail) \notin Retained
         /\ Head(tail) \in Flows => flow[Head(tail)] = "waiting" /\ Head(tail) \notin Directs
<1>1. 1 \in DOMAIN tail /\ Head(tail) = tail[1] /\ tail[1] \in Directs \cup Flows
  BY DEF IInv, TypeOK
<1>. QED BY <1>1, CapacityAssumption DEF IInv, FlowsInLine, RetainedInv, Directs

\* What a turn that ends a request shares.
Answered ==
  /\ tail' = Tail(tail) /\ target' = {} /\ left' = {}
  /\ UNCHANGED <<sess, active, pending, flowOpen, opened, unnamed, stray>>

LEMMA AnsweredKeeps ==
  ASSUME IInv, tail # <<>>, Answered,
         \A f \in Flows \ {Head(tail)} : flow'[f] = flow[f],
         \A d \in Directs \ {Head(tail)} : avail'[d] = avail[d],
         flow' \in [Flows -> {"none", "submitted", "waiting", "running", "closing",
                             "done", "refused"}],
         avail' \in [Directs -> {"absent", "waiting", "admitted", "failed", "ready",
                                 "disposed", "unavailable"}],
         Head(tail) \in Flows => flow'[Head(tail)] \in {"running", "refused"},
         reserved' \in Nat
  PROVE  TypeOK' /\ FlowsInLine' /\ RetainedInv' /\ ServesFirst' /\ FlowsBounded'
<1>1. /\ FlowsInLine' /\ \A i \in DOMAIN tail' : tail'[i] \notin Retained
      /\ tail' \in Seq(Directs \cup Flows)
  BY LineAdvances DEF Answered
<1>2. TypeOK'
  BY <1>1 DEF Answered, IInv, TypeOK
<1>3. \A d \in Retained : avail'[d] = avail[d]
  BY HeadOfLine DEF Directs
<1>4. RetainedInv' /\ ServesFirst'
  BY <1>1, <1>3 DEF Answered, IInv, RetainedInv, ServesFirst, Busy
<1>5. FlowsBounded'
  <2>1. \A f \in Flows : flow'[f] \in {"none", "submitted", "waiting"} => flow'[f] = flow[f]
    OBVIOUS
  <2>. QED BY <2>1 DEF Answered, IInv, FlowsBounded
<1>. QED BY <1>1, <1>2, <1>4, <1>5

LEMMA AdmittedKeeps ==
  ASSUME IInv, tail # <<>>, Answered, reserved' = reserved,
         Room(Required(Head(tail)), Owned(Head(tail))), Admitted(Head(tail))
  PROVE  IInv'
<1>. DEFINE o == Head(tail)
<1>0. TypeOK /\ reserved' \in Nat /\ RetainedOpen' = RetainedOpen
  BY DEF IInv, TypeOK, Answered, RetainedOpen
<1>1. CASE o \in Flows
  <2>1. flow' = [flow EXCEPT ![o] = "running"] /\ avail' = avail /\ flow[o] = "waiting"
    BY <1>1, HeadOfLine DEF Admitted
  <2>2. TypeOK' /\ FlowsInLine' /\ RetainedInv' /\ ServesFirst' /\ FlowsBounded'
    BY <1>0, <1>1, <2>1, AnsweredKeeps DEF TypeOK
  <2>3. ReservationsExact'
    <3>1. Reserving' = Reserving
      BY <1>0, <1>1, <2>1 DEF Reserving, TypeOK
    <3>. QED BY <3>1, ReservationsStay DEF IInv
  <2>4. ReservedFits'
    <3>1. CASE o \in UiFlows
      <4>1. \A f \in Flows \ UiFlows : Claims'[f] <= Claims[f]
        <5>1. ASSUME NEW f \in Flows \ UiFlows PROVE Claims'[f] = Claims[f] /\ Claims[f] \in Nat
          <6>1. flow'[f] = flow[f]
            BY <1>0, <2>1, <3>1 DEF TypeOK
          <6>2. Claims'[f] = Claims[f]
            BY <6>1 DEF Answered, Claims, Outstanding
          <6>. QED BY <6>2, ClaimsAre DEF IInv, ClaimsExact
        <5>. QED BY <5>1
      <4>. QED BY <1>0, <2>2, <4>1, FitsShrinks
    <3>2. CASE o \notin UiFlows
      <4>1. Room(Demand[o], Demand[o])
        BY <1>1, <3>2 DEF Required, Owned, Reserve
      <4>. QED BY <1>1, <2>1, <2>2, <3>2, <4>1, AdmissionFits DEF Answered
    <3>. QED BY <3>1, <3>2
  <2>. QED BY <2>2, <2>3, <2>4 DEF IInv
<1>2. CASE o \notin Flows
  <2>1. avail' = [avail EXCEPT ![o] = "admitted"] /\ flow' = flow
    BY <1>2 DEF Admitted
  <2>2. TypeOK' /\ FlowsInLine' /\ RetainedInv' /\ ServesFirst' /\ FlowsBounded'
    BY <1>0, <1>2, <2>1, AnsweredKeeps DEF TypeOK
  <2>. QED BY <1>0, <2>1, <2>2, FlowsAlone DEF IInv, Answered
<1>. QED BY <1>1, <1>2

LEMMA DeniedKeeps ==
  ASSUME IInv, tail # <<>>, Answered, Denied(Head(tail))
  PROVE  IInv'
<1>. DEFINE o == Head(tail)
<1>0. TypeOK /\ RetainedOpen' = RetainedOpen
  BY DEF IInv, Answered, RetainedOpen
<1>1. CASE o \in Flows
  <2>1. /\ flow' = [flow EXCEPT ![o] = "refused"] /\ avail' = avail /\ flow[o] = "waiting"
        /\ reserved' = GivenBack(o)
    BY <1>1, HeadOfLine DEF Denied
  <2>2. ReservationsExact' /\ reserved' \in Nat
    BY <1>1, <2>1, ReservationGivenBack
  <2>3. TypeOK' /\ FlowsInLine' /\ RetainedInv' /\ ServesFirst' /\ FlowsBounded'
    BY <1>0, <1>1, <2>1, <2>2, AnsweredKeeps DEF TypeOK
  <2>4. \A f \in Flows \ UiFlows : Claims'[f] <= Claims[f]
    <3>1. \A f \in Flows : flow'[f] = flow[f] \/ (flow'[f] # "running" /\ flow[f] # "running")
      BY <1>0, <2>1 DEF TypeOK
    <3>. QED BY <3>1, ClaimsStay DEF Answered
  <2>5. ReservedFits'
    BY <1>0, <2>3, <2>4, FitsShrinks
  <2>. QED BY <2>2, <2>3, <2>5 DEF IInv
<1>2. CASE o \notin Flows
  <2>1. /\ avail' = [avail EXCEPT ![o] = "failed"] /\ flow' = flow
        /\ reserved' = reserved
    BY <1>2 DEF Denied
  <2>2. TypeOK' /\ FlowsInLine' /\ RetainedInv' /\ ServesFirst' /\ FlowsBounded'
    BY <1>0, <1>2, <2>1, AnsweredKeeps DEF TypeOK
  <2>. QED BY <1>0, <2>1, <2>2, FlowsAlone DEF IInv, Answered
<1>. QED BY <1>1, <1>2

LEMMA DecideKeeps ==
  ASSUME IInv, tail # <<>>, NEW candidates \in SUBSET Directs,
         Decide(Head(tail), candidates),
         UNCHANGED <<active, pending, flowOpen, opened, unnamed, stray>>
  PROVE  IInv'
<1>1. CASE /\ Room(Required(Head(tail)), Owned(Head(tail)))
           /\ Admitted(Head(tail))
           /\ tail' = Tail(tail) /\ target' = {} /\ left' = {}
           /\ UNCHANGED <<sess, reserved>>
  BY <1>1, AdmittedKeeps DEF Answered
<1>2. CASE /\ Denied(Head(tail))
           /\ tail' = TailAfterFailure /\ target' = {} /\ left' = {}
           /\ UNCHANGED sess
  BY <1>2, DeniedKeeps DEF Answered, TailAfterFailure
<1>3. ASSUME NEW d \in candidates,
             avail' = [avail EXCEPT ![d] = "disposed"],
             sess' = [sess EXCEPT ![d] = IF @ = "none" THEN "none" ELSE "closing"],
             target' = {d}, left' = candidates \ {d},
             UNCHANGED <<tail, flow, reserved>>
      PROVE  IInv'
  <2>1. TypeOK'
    BY <1>3 DEF IInv, TypeOK
  <2>2. RetainedOpen' \subseteq RetainedOpen
    BY <1>3 DEF IInv, TypeOK, RetainedOpen, Directs
  <2>3. \A e \in Retained : avail'[e] \in {avail[e], "disposed"}
    BY <1>3 DEF IInv, TypeOK, Directs
  <2>4. RetainedInv' /\ ServesFirst'
    BY <1>3, <2>3 DEF IInv, RetainedInv, ServesFirst
  <2>5. FlowsInLine'
    BY <1>3 DEF IInv, FlowsInLine
  <2>. QED BY <1>3, <2>1, <2>2, <2>4, <2>5, FlowsAlone DEF IInv
<1>. QED BY <1>1, <1>2, <1>3 DEF Decide

(* The steps of a workflow.                                                 *)

\* What they share: conversations and, but for SubmitFlow and RunFlow, the
\* line of requests are left alone.
LEMMA FlowStepFits ==
  ASSUME IInv, TypeOK', FlowsBounded', UNCHANGED sess,
         \A f \in Flows : Claims'[f] <= Claims[f]
  PROVE  ReservedFits'
<1>1. RetainedOpen' \subseteq RetainedOpen
  BY DEF RetainedOpen
<1>. QED BY <1>1, FitsShrinks

LEMMA SubmitFlowKeeps ==
  ASSUME IInv, NEW f \in Flows, SubmitFlow(f)
  PROVE  IInv'
<1>1. /\ flow[f] = "none" /\ flow' = [flow EXCEPT ![f] = "submitted"]
      /\ reserved' = reserved + Reserve(f)
      /\ UNCHANGED <<sess, avail, active, pending, flowOpen, opened, unnamed, stray, tail, target, left>>
  BY DEF SubmitFlow
<1>2. ReservationsExact' /\ reserved' \in Nat
  BY <1>1, ReservationMade
<1>3. TypeOK'
  BY <1>1, <1>2 DEF IInv, TypeOK
<1>4. FlowsBounded'
  BY <1>1 DEF IInv, TypeOK, FlowsBounded
<1>5. FlowsInLine'
  BY <1>1, LineStays DEF IInv, TypeOK
<1>6. RetainedInv' /\ ServesFirst'
  BY <1>1 DEF IInv, RetainedInv, ServesFirst, Busy
<1>7. \A g \in Flows : Claims'[g] <= Claims[g]
  <2>1. \A g \in Flows : flow'[g] = flow[g] \/ (flow'[g] # "running" /\ flow[g] # "running")
    BY <1>1 DEF IInv, TypeOK
  <2>. QED BY <1>1, <2>1, ClaimsStay
<1>8. ReservedFits'
  BY <1>1, <1>3, <1>4, <1>7, FlowStepFits
<1>. QED BY <1>2, <1>3, <1>4, <1>5, <1>6, <1>8 DEF IInv

LEMMA RunFlowKeeps ==
  ASSUME IInv, NEW f \in Flows, RunFlow(f)
  PROVE  IInv'
<1>0. /\ flow[f] = "submitted" /\ TypeOK /\ f \notin Retained /\ f \notin Directs
      /\ UNCHANGED <<sess, active, pending, flowOpen, opened, unnamed, stray, target, left>>
  BY CapacityAssumption DEF RunFlow, IInv, Directs
<1>1. CASE /\ flow' = [flow EXCEPT ![f] = "waiting"]
           /\ tail' = Append(tail, f)
           /\ UNCHANGED <<avail, reserved>>
  <2>1. /\ FlowsInLine' /\ \A i \in DOMAIN tail' : tail'[i] \notin Retained
        /\ tail' \in Seq(Directs \cup Flows) /\ tail' # <<>>
    BY <1>0, <1>1, LineGrows DEF TypeOK
  <2>2. TypeOK'
    BY <1>0, <1>1, <2>1 DEF TypeOK
  <2>3. FlowsBounded'
    BY <1>0, <1>1 DEF IInv, TypeOK, FlowsBounded
  <2>4. RetainedInv' /\ ServesFirst'
    BY <1>0, <1>1, <2>1 DEF IInv, RetainedInv, ServesFirst
  <2>5. ReservationsExact'
    <3>1. Reserving' = Reserving
      BY <1>0, <1>1 DEF Reserving, TypeOK
    <3>. QED BY <1>1, <3>1, ReservationsStay DEF IInv
  <2>6. \A g \in Flows : Claims'[g] <= Claims[g]
    <3>1. \A g \in Flows : flow'[g] = flow[g] \/ (flow'[g] # "running" /\ flow[g] # "running")
      BY <1>0, <1>1 DEF TypeOK
    <3>. QED BY <1>0, <3>1, ClaimsStay
  <2>7. ReservedFits'
    BY <1>0, <2>2, <2>3, <2>6, FlowStepFits
  <2>. QED BY <2>1, <2>2, <2>3, <2>4, <2>5, <2>7 DEF IInv
<1>2. CASE Denied(f) /\ UNCHANGED tail
  <2>0. /\ flow' = [flow EXCEPT ![f] = "refused"] /\ reserved' = GivenBack(f)
        /\ avail' = avail /\ tail' = tail
    BY <1>2 DEF Denied
  <2>1. ReservationsExact' /\ reserved' \in Nat
    BY <1>0, <2>0, ReservationGivenBack
  <2>2. TypeOK'
    BY <1>0, <2>0, <2>1 DEF TypeOK
  <2>3. FlowsBounded'
    BY <1>0, <2>0 DEF IInv, TypeOK, FlowsBounded
  <2>4. FlowsInLine'
    BY <1>0, <2>0, LineStays DEF TypeOK
  <2>5. RetainedInv' /\ ServesFirst'
    BY <1>0, <2>0 DEF IInv, RetainedInv, ServesFirst, Busy
  <2>6. \A g \in Flows : Claims'[g] <= Claims[g]
    <3>1. \A g \in Flows : flow'[g] = flow[g] \/ (flow'[g] # "running" /\ flow[g] # "running")
      BY <1>0, <2>0 DEF TypeOK
    <3>. QED BY <1>0, <3>1, ClaimsStay
  <2>7. ReservedFits'
    BY <1>0, <2>2, <2>3, <2>6, FlowStepFits
  <2>. QED BY <2>1, <2>2, <2>3, <2>4, <2>5, <2>7 DEF IInv
<1>. QED BY <1>1, <1>2 DEF RunFlow

(* The sessions of a workflow come and go.                                  *)

\* No more runs than the workflow may start, and no larger claim.
LEMMA SessionStepKeeps ==
  ASSUME IInv, NEW f \in Flows, TypeOK',
         UNCHANGED <<sess, avail, active, pending, reserved, tail, target, left>>,
         flow' = flow \/ (flow[f] = "running" /\ flow' = [flow EXCEPT ![f] = "closing"]),
         \A g \in Flows \ {f} : /\ flowOpen'[g] = flowOpen[g] /\ opened'[g] = opened[g]
                                /\ unnamed'[g] = unnamed[g],
         unnamed'[f] <= flowOpen'[f], flowOpen'[f] <= opened'[f], opened'[f] <= Demand[f],
         flow[f] # "running" => opened'[f] = opened[f] /\ flowOpen'[f] <= flowOpen[f]
  PROVE  IInv'
<1>0. TypeOK /\ FlowsBounded /\ ClaimsExact
  BY ClaimsAre DEF IInv
<1>f. \A g \in Flows \ {f} : flow'[g] = flow[g]
  BY <1>0 DEF TypeOK
<1>4. FlowsBounded'
  <2>1. flow'[f] \in {"none", "submitted", "waiting"} => opened'[f] = 0
    BY <1>0 DEF TypeOK, FlowsBounded
  <2>. QED BY <1>0, <1>f, <2>1 DEF FlowsBounded
<1>5. FlowsInLine'
  BY <1>0, LineStays DEF TypeOK
<1>6. RetainedInv' /\ ServesFirst'
  BY DEF IInv, RetainedInv, ServesFirst, Busy
<1>7. ReservationsExact'
  <2>1. Reserving' = Reserving
    BY <1>0 DEF Reserving, TypeOK
  <2>. QED BY <2>1, ReservationsStay DEF IInv
<1>8. ASSUME NEW g \in Flows PROVE Claims'[g] <= Claims[g]
  <2>c. ClaimsExact'
    BY <1>4, ClaimsAreThen
  <2>1. CASE g = f
    <3>1. CASE flow[f] = "running"
      <4>1. Claims[f] = Demand[f] /\ Claims'[f] <= Demand[f]
        BY <1>0, <2>c, <3>1 DEF ClaimsExact
      <4>. QED BY <2>1, <4>1
    <3>2. CASE flow[f] # "running"
      <4>1. flow' = flow
        BY <3>2
      <4>2. Claims[f] = flowOpen[f] /\ Claims'[f] = flowOpen'[f]
        BY <1>0, <2>c, <3>2, <4>1 DEF ClaimsExact
      <4>. QED BY <2>1, <3>2, <4>2
    <3>. QED BY <3>1, <3>2
  <2>2. CASE g # f
    <3>1. flow'[g] = flow[g] /\ flowOpen'[g] = flowOpen[g]
      BY <1>f, <2>2
    <3>2. Claims'[g] = Claims[g] /\ Claims[g] \in Nat
      BY <1>0, <3>1 DEF Claims, Outstanding, ClaimsExact
    <3>. QED BY <3>2
  <2>. QED BY <2>1, <2>2
<1>9. ReservedFits'
  BY <1>4, <1>8, FlowStepFits
<1>. QED BY <1>4, <1>5, <1>6, <1>7, <1>9 DEF IInv

\* A run starts, throws or goes on with another model, a session opens beside
\* another one or is lost, the stages end.
LEMMA RunningStepKeeps ==
  ASSUME IInv, NEW f \in Flows,
         \/ OpenTask(f) \/ TaskThrows(f) \/ ReopenTask(f) \/ OpenBeside(f)
         \/ TaskChildExits(f) \/ EndFlow(f)
  PROVE  IInv'
<1>0. /\ TypeOK
      /\ unnamed[f] <= flowOpen[f] /\ flowOpen[f] <= opened[f] /\ opened[f] <= Demand[f]
      /\ flowOpen[f] \in Nat /\ opened[f] \in Nat /\ unnamed[f] \in Nat /\ stray[f] \in Nat
      /\ Demand[f] \in Nat
      /\ flowOpen \in [Flows -> Nat] /\ opened \in [Flows -> Nat]
      /\ unnamed \in [Flows -> Nat] /\ stray \in [Flows -> Nat]
  BY CapacityAssumption DEF IInv, FlowsBounded, TypeOK
<1>u. UNCHANGED <<sess, avail, active, pending, reserved, tail, target, left>>
  BY DEF OpenTask, TaskThrows, ReopenTask, OpenBeside, TaskChildExits, EndFlow
<1>1. CASE OpenTask(f)
  <2>1. /\ flow' = flow /\ unnamed' = unnamed /\ stray' = stray
        /\ flow[f] = "running" /\ opened[f] < Demand[f]
        /\ opened' = [opened EXCEPT ![f] = opened[f] + 1]
        /\ flowOpen' = [flowOpen EXCEPT ![f] = flowOpen[f] + 1] \/ flowOpen' = flowOpen
    BY <1>1 DEF OpenTask
  <2>2. /\ opened' \in [Flows -> Nat] /\ flowOpen' \in [Flows -> Nat]
        /\ opened'[f] = opened[f] + 1 /\ flowOpen'[f] \in {flowOpen[f], flowOpen[f] + 1}
        /\ \A g \in Flows \ {f} : flowOpen'[g] = flowOpen[g] /\ opened'[g] = opened[g]
    BY <1>0, <2>1
  <2>3. TypeOK'
    BY <1>0, <1>u, <2>1, <2>2 DEF TypeOK
  <2>. QED BY <1>0, <1>u, <2>1, <2>2, <2>3, SessionStepKeeps
<1>2. CASE TaskThrows(f)
  <2>1. /\ flow' = flow /\ opened' = opened /\ stray' = stray /\ flow[f] = "running"
        /\ unnamed[f] < flowOpen[f]
        /\ \/ flowOpen' = [flowOpen EXCEPT ![f] = flowOpen[f] - 1] /\ unnamed' = unnamed
           \/ unnamed' = [unnamed EXCEPT ![f] = unnamed[f] + 1] /\ flowOpen' = flowOpen
    BY <1>2 DEF TaskThrows
  <2>2. /\ flowOpen' \in [Flows -> Nat] /\ unnamed' \in [Flows -> Nat]
        /\ unnamed'[f] <= flowOpen'[f] /\ flowOpen'[f] <= flowOpen[f]
        /\ \A g \in Flows \ {f} : flowOpen'[g] = flowOpen[g] /\ unnamed'[g] = unnamed[g]
    <3>1. flowOpen[f] - 1 \in Nat
      BY <1>0, <2>1
    <3>. QED BY <1>0, <2>1, <3>1
  <2>3. TypeOK'
    BY <1>0, <1>u, <2>1, <2>2 DEF TypeOK
  <2>4. flowOpen'[f] \in Nat /\ flowOpen'[f] <= opened'[f]
    BY <1>0, <2>1, <2>2
  <2>. QED BY <1>0, <1>u, <2>1, <2>2, <2>3, <2>4, SessionStepKeeps
<1>3. CASE ReopenTask(f)
  <2>1. /\ flow' = flow /\ opened' = opened /\ stray' = stray /\ unnamed' = unnamed
        /\ flow[f] = "running" /\ flowOpen[f] < opened[f]
        /\ flowOpen' = [flowOpen EXCEPT ![f] = flowOpen[f] + 1]
    BY <1>3 DEF ReopenTask
  <2>2. /\ flowOpen' \in [Flows -> Nat] /\ flowOpen'[f] = flowOpen[f] + 1
        /\ \A g \in Flows \ {f} : flowOpen'[g] = flowOpen[g]
    BY <1>0, <2>1
  <2>3. TypeOK'
    BY <1>0, <1>u, <2>1, <2>2 DEF TypeOK
  <2>. QED BY <1>0, <1>u, <2>1, <2>2, <2>3, SessionStepKeeps
<1>4. CASE OpenBeside(f)
  <2>1. /\ flow' = flow /\ opened' = opened /\ unnamed' = unnamed /\ flowOpen' = flowOpen
        /\ stray' = [stray EXCEPT ![f] = stray[f] + 1]
    BY <1>4 DEF OpenBeside
  <2>2. stray' \in [Flows -> Nat]
    BY <1>0, <2>1
  <2>3. TypeOK'
    BY <1>0, <1>u, <2>1, <2>2 DEF TypeOK
  <2>. QED BY <1>0, <1>u, <2>1, <2>3, SessionStepKeeps
<1>5. CASE TaskChildExits(f)
  <2>1. /\ flow' = flow /\ opened' = opened
        /\ \/ /\ stray[f] > 0 /\ stray' = [stray EXCEPT ![f] = stray[f] - 1]
              /\ flowOpen' = flowOpen /\ unnamed' = unnamed
           \/ /\ unnamed[f] > 0 /\ stray' = stray
              /\ unnamed' = [unnamed EXCEPT ![f] = unnamed[f] - 1]
              /\ flowOpen' = [flowOpen EXCEPT ![f] = flowOpen[f] - 1]
    BY <1>5 DEF TaskChildExits
  <2>2. CASE stray[f] > 0 /\ stray' = [stray EXCEPT ![f] = stray[f] - 1]
             /\ flowOpen' = flowOpen /\ unnamed' = unnamed
    <3>1. stray[f] - 1 \in Nat
      BY <1>0, <2>2
    <3>2. stray' \in [Flows -> Nat]
      BY <1>0, <2>2, <3>1
    <3>3. TypeOK'
      BY <1>0, <1>u, <2>1, <2>2, <3>2 DEF TypeOK
    <3>. QED BY <1>0, <1>u, <2>1, <2>2, <3>3, SessionStepKeeps
  <2>3. CASE /\ unnamed[f] > 0 /\ stray' = stray
             /\ unnamed' = [unnamed EXCEPT ![f] = unnamed[f] - 1]
             /\ flowOpen' = [flowOpen EXCEPT ![f] = flowOpen[f] - 1]
    <3>1. unnamed[f] - 1 \in Nat /\ flowOpen[f] - 1 \in Nat
      BY <1>0, <2>3
    <3>2. /\ unnamed' \in [Flows -> Nat] /\ flowOpen' \in [Flows -> Nat]
          /\ unnamed'[f] = unnamed[f] - 1 /\ flowOpen'[f] = flowOpen[f] - 1
          /\ \A g \in Flows \ {f} : flowOpen'[g] = flowOpen[g] /\ unnamed'[g] = unnamed[g]
      BY <1>0, <2>3, <3>1
    <3>3. TypeOK'
      BY <1>0, <1>u, <2>1, <2>3, <3>2 DEF TypeOK
    <3>4. /\ unnamed'[f] <= flowOpen'[f] /\ flowOpen'[f] <= opened'[f]
          /\ flowOpen'[f] <= flowOpen[f]
      BY <1>0, <2>1, <3>2
    <3>. QED BY <1>0, <1>u, <2>1, <3>2, <3>3, <3>4, SessionStepKeeps
  <2>. QED BY <2>1, <2>2, <2>3
<1>6. CASE EndFlow(f)
  <2>1. /\ flow[f] = "running" /\ flow' = [flow EXCEPT ![f] = "closing"]
        /\ opened' = opened /\ unnamed' = unnamed /\ flowOpen' = flowOpen /\ stray' = stray
    BY <1>6 DEF EndFlow
  <2>2. TypeOK'
    BY <1>0, <1>u, <2>1 DEF TypeOK
  <2>. QED BY <1>0, <1>u, <2>1, <2>2, SessionStepKeeps
<1>. QED BY <1>1, <1>2, <1>3, <1>4, <1>5, <1>6

LEMMA ReleaseFlowKeeps ==
  ASSUME IInv, NEW f \in Flows, ReleaseFlow(f)
  PROVE  IInv'
<1>0. /\ flow[f] = "closing" /\ flow' = [flow EXCEPT ![f] = "done"]
      /\ flowOpen' = [flowOpen EXCEPT ![f] = unnamed[f]] /\ reserved' = GivenBack(f)
      /\ UNCHANGED <<sess, avail, active, pending, opened, unnamed, tail, target, left>>
      /\ TypeOK
  BY DEF ReleaseFlow, IInv
<1>r. stray' \in [Flows -> Nat]
  <2>. PICK kept \in 0..stray[f] : stray' = [stray EXCEPT ![f] = kept]
    BY DEF ReleaseFlow
  <2>1. kept \in Nat
    BY <1>0 DEF TypeOK
  <2>. QED BY <1>0, <2>1 DEF TypeOK
<1>1. ReservationsExact' /\ reserved' \in Nat
  BY <1>0, ReservationGivenBack
<1>2. ClaimsExact /\ unnamed[f] <= flowOpen[f] /\ flowOpen[f] <= opened[f] /\ opened[f] <= Demand[f]
  BY ClaimsAre DEF IInv, FlowsBounded
<1>3. TypeOK'
  BY <1>0, <1>1, <1>r DEF TypeOK
<1>4. FlowsBounded'
  <2>1. ASSUME NEW g \in Flows \ {f} PROVE flow'[g] = flow[g] /\ flowOpen'[g] = flowOpen[g]
    BY <1>0 DEF TypeOK
  <2>2. flow'[f] = "done" /\ flowOpen'[f] = unnamed[f] /\ unnamed[f] \in Nat /\ opened[f] \in Nat
        /\ flowOpen[f] \in Nat
    BY <1>0 DEF TypeOK
  <2>3. unnamed[f] <= unnamed[f] /\ unnamed[f] <= opened[f]
    BY <1>2, <2>2
  <2>. QED BY <1>0, <1>2, <2>1, <2>2, <2>3 DEF IInv, FlowsBounded
<1>5. FlowsInLine'
  BY <1>0, LineStays DEF TypeOK
<1>6. RetainedInv' /\ ServesFirst'
  BY <1>0 DEF IInv, RetainedInv, ServesFirst, Busy
<1>7. ASSUME NEW g \in Flows PROVE Claims'[g] <= Claims[g]
  <2>1. CASE g = f
    BY <1>0, <1>2, <1>3, <1>4, <2>1, ClaimsAreThen DEF TypeOK, ClaimsExact
  <2>2. CASE g # f
    <3>1. flow'[g] = flow[g] /\ flowOpen'[g] = flowOpen[g] /\ opened' = opened
      BY <1>0, <2>2 DEF TypeOK
    <3>2. Claims'[g] = Claims[g] /\ Claims[g] \in Nat
      BY <1>2, <3>1 DEF Claims, Outstanding, ClaimsExact
    <3>. QED BY <3>2
  <2>. QED BY <2>1, <2>2
<1>8. ReservedFits'
  BY <1>0, <1>3, <1>4, <1>7, FlowStepFits
<1>. QED BY <1>1, <1>3, <1>4, <1>5, <1>6, <1>8 DEF IInv

LEMMA StepInvariant == IInv /\ [Next]_vars => IInv'
<1>. SUFFICES ASSUME IInv, [Next]_vars PROVE IInv'
  OBVIOUS
<1>1. CASE BeginRequest
  <2>1. Reclaimable \in SUBSET Directs
    BY DEF Reclaimable
  <2>. QED BY <1>1, <2>1, DecideKeeps DEF BeginRequest
<1>2. CASE ContinueRequest
  <2>1. left \in SUBSET Directs /\ tail # <<>>
    BY <1>2 DEF ContinueRequest, IInv, TypeOK, ServesFirst
  <2>. QED BY <1>2, <2>1, DecideKeeps DEF ContinueRequest
<1>3. ASSUME NEW d \in Directs, StartDirect(d) PROVE IInv'
  BY <1>3, StartDirectKeeps
<1>4. ASSUME NEW d \in Directs,
             \/ SessionClosed(d) \/ OpenDirect(d) \/ ChildExits(d)
             \/ \E oneShot, further \in BOOLEAN : RunEnds(d, oneShot, further)
             \/ SendFollowUp(d) \/ FollowUpBegins(d)
      PROVE  IInv'
  BY <1>4, DirectStepKeeps
<1>5. ASSUME NEW f \in Flows, SubmitFlow(f) PROVE IInv'
  BY <1>5, SubmitFlowKeeps
<1>6. ASSUME NEW f \in Flows, RunFlow(f) PROVE IInv'
  BY <1>6, RunFlowKeeps
<1>7. ASSUME NEW f \in Flows,
             \/ OpenTask(f) \/ TaskThrows(f) \/ ReopenTask(f) \/ OpenBeside(f)
             \/ TaskChildExits(f) \/ EndFlow(f)
      PROVE  IInv'
  BY <1>7, RunningStepKeeps
<1>8. ASSUME NEW f \in Flows, ReleaseFlow(f) PROVE IInv'
  BY <1>8, ReleaseFlowKeeps
<1>9. CASE UNCHANGED vars
  <2>1. TypeOK' /\ RetainedOpen' \subseteq RetainedOpen
    BY <1>9 DEF vars, IInv, TypeOK, RetainedOpen
  <2>2. FlowsInLine' /\ RetainedInv' /\ ServesFirst'
    BY <1>9 DEF vars, IInv, FlowsInLine, RetainedInv, ServesFirst, Busy
  <2>. QED BY <1>9, <2>1, <2>2, FlowsAlone DEF IInv, vars
<1>. QED
  BY <1>1, <1>2, <1>3, <1>4, <1>5, <1>6, <1>7, <1>8, <1>9 DEF Next

(* The invariant holds of every behaviour of the capacity requests.         *)
THEOREM CapacityInvariance == Spec => []IInv
<1>. QED BY InitInvariant, StepInvariant, PTL DEF Spec

(* Type correctness.                                                        *)
THEOREM CapacityTypeCorrect == Spec => []TypeOK
<1>1. IInv => TypeOK
  BY DEF IInv
<1>. QED BY <1>1, CapacityInvariance, PTL

(* The reservation counter is the sum of what the unfinished workflows       *)
(* reserved, however they were refused, admitted or ended: no leak, and no   *)
(* number below zero for Math.max to hide.                                   *)
THEOREM ReservationCounterExact == Spec => []ReservationsExact
<1>1. IInv => ReservationsExact
  BY DEF IInv
<1>. QED BY <1>1, CapacityInvariance, PTL

(* One session for each run of the workflows admitted with a reservation,    *)
(* and the conversations that keep their sessions, never need more slots     *)
(* than the provider has, however many sessions no reservation counts.       *)
THEOREM AdmittedFlowsFit == Spec => []ReservedFits
<1>1. IInv => ReservedFits
  BY DEF IInv
<1>. QED BY <1>1, CapacityInvariance, PTL
=============================================================================
