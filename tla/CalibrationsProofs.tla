------------------------- MODULE CalibrationsProofs -------------------------
(***************************************************************************)
(* Theorems about Calibrations, for any number of runs, any requests and   *)
(* any limits.                                                             *)
(*                                                                         *)
(* What holds of the tables and the workers follows from one inductive     *)
(* invariant, Inv: where a run's coroutine or thread is, its row, its      *)
(* curves, the order its residuals came back in and what its base looks    *)
(* like tell of the same moment of the same request.  That the persisted   *)
(* order is the solver's needs that distinct keys leave a solver one order *)
(* only; that an admitted result projects needs what the admission checks  *)
(* imply of node dates and free parameters.  Both rest on lemmas about     *)
(* finite sets of dates, proved by the least counterexample.               *)
(***************************************************************************)
EXTENDS Calibrations, TLAPS, FiniteSetTheorems, SequenceTheorems, WellFoundedInduction

(* A set of numbers that is not empty has a least one.                     *)
LEMMA NatLeast ==
  ASSUME NEW T, T \subseteq Nat, T # {}
  PROVE  \E x \in T : \A y \in T : x <= y
<1> DEFINE R == OpToRel(<, Nat)
<1>1. IsWellFoundedOn(R, Nat)
  BY NatLessThanWellFounded
<1>2. \A x, y \in Nat : y < x => <<y, x>> \in R
  BY DEF OpToRel
<1> HIDE DEF R
<1>3. PICK x \in T : \A y \in T : ~ (<<y, x>> \in R)
  BY <1>1, WFMin
<1>4. \A y \in T : ~(y < x)
  BY <1>2, <1>3
<1> QED
  BY <1>4

(* A finite set of dates without a latest one would contain a smaller such *)
(* set: the one without any of its dates.                                  *)
LEMMA LatestExists ==
  ASSUME NEW S, S \subseteq Int, IsFiniteSet(S), S # {}
  PROVE  \E x \in S : \A y \in S : y <= x
<1> DEFINE Bad(U) == /\ U \subseteq Int /\ IsFiniteSet(U) /\ U # {}
                     /\ ~ \E x \in U : \A y \in U : y <= x
           Sizes == {n \in Nat : \E U \in SUBSET Int : Bad(U) /\ Cardinality(U) = n}
<1> SUFFICES ASSUME Sizes # {} PROVE FALSE
  <2> SUFFICES ASSUME Bad(S) PROVE Sizes # {}
    OBVIOUS
  <2> QED
    BY FS_CardinalityType
<1>1. PICK n \in Sizes : \A m \in Sizes : n <= m
  <2> HIDE DEF Bad
  <2> QED
    BY NatLeast
<1>2. PICK U \in SUBSET Int : Bad(U) /\ Cardinality(U) = n
  BY <1>1
<1>3. PICK x \in U : TRUE
  BY <1>2
<1> DEFINE V == U \ {x}
<1>4. IsFiniteSet(V) /\ Cardinality(V) = n - 1 /\ Cardinality(V) \in Nat
  BY <1>2, FS_RemoveElement, FS_CardinalityType
<1>5. ~ Bad(V)
  <2> SUFFICES ASSUME Bad(V) PROVE FALSE
    OBVIOUS
  <2>1. n - 1 \in Sizes
    BY <1>4, V \in SUBSET Int
  <2> QED
    BY <2>1, <1>1
<1>6. CASE V = {}
  BY <1>2, <1>3, <1>6
<1>7. CASE V # {}
  <2>1. PICK m \in V : \A y \in V : y <= m
    BY <1>4, <1>5, <1>7
  <2> QED
    BY <2>1, <1>2, <1>3
<1> QED
  BY <1>6, <1>7

(* Every finite set of dates can be put in order: the smallest set that    *)
(* could not be would have a latest date to set aside.                     *)
LEMMA OrderExists ==
  ASSUME NEW S, S \subseteq Int, IsFiniteSet(S)
  PROVE  \E s \in [1..Cardinality(S) -> S] : Increasing(s)
<1> DEFINE Good(U) == \E s \in [1..Cardinality(U) -> U] : Increasing(s)
           Bad(U) == U \subseteq Int /\ IsFiniteSet(U) /\ ~Good(U)
           Sizes == {n \in Nat : \E U \in SUBSET Int : Bad(U) /\ Cardinality(U) = n}
<1> HIDE DEF Good
<1> SUFFICES ASSUME Sizes # {} PROVE FALSE
  <2> SUFFICES ASSUME Bad(S) PROVE Sizes # {}
    BY DEF Good
  <2> QED
    BY FS_CardinalityType
<1>1. PICK n \in Sizes : \A m \in Sizes : n <= m
  <2> HIDE DEF Bad
  <2> QED
    BY NatLeast
<1>2. PICK U \in SUBSET Int : Bad(U) /\ Cardinality(U) = n
  BY <1>1
<1>3. U # {}
  <2> SUFFICES ASSUME U = {} PROVE Good(U)
    BY <1>2
  <2>1. Cardinality(U) = 0
    BY FS_EmptySet
  <2>2. 1..0 = {}
    OBVIOUS
  <2>3. [i \in 1..0 |-> i] \in [1..Cardinality(U) -> U]
    BY <2>1, <2>2
  <2>4. Increasing([i \in 1..0 |-> i])
    BY <2>2 DEF Increasing
  <2> QED
    BY <2>3, <2>4 DEF Good
<1>4. PICK x \in U : \A y \in U : y <= x
  BY <1>2, <1>3, LatestExists
<1> DEFINE V == U \ {x}
<1>5. IsFiniteSet(V) /\ Cardinality(V) = n - 1 /\ Cardinality(V) \in Nat
  BY <1>2, FS_RemoveElement, FS_CardinalityType
<1>6. Good(V)
  <2> SUFFICES ASSUME Bad(V) PROVE FALSE
    BY <1>5
  <2>1. n - 1 \in Sizes
    BY <1>5, V \in SUBSET Int
  <2> QED
    BY <2>1, <1>1
<1>7. PICK s \in [1..Cardinality(V) -> V] : Increasing(s)
  BY <1>6 DEF Good
<1> DEFINE t == [i \in 1..n |-> IF i = n THEN x ELSE s[i]]
<1>8. n \in Nat /\ s \in [1..(n - 1) -> V]
  BY <1>1, <1>5, <1>7
<1>9. \A i \in 1..(n - 1) : s[i] \in U /\ s[i] < x
  <2>1. U \subseteq Int
    BY <1>2
  <2>2. \A y \in V : y \in U /\ y < x
    BY <1>4, <2>1
  <2> QED
    BY <1>8, <2>2
<1>10. n \in 1..n /\ \A i \in 1..(n - 1) : i \in 1..n /\ i # n /\ i + 1 \in 1..n
  BY <1>2, <1>3, <1>8, FS_EmptySet
<1>11. t \in [1..n -> U]
  <2>1. \A i \in 1..n : i # n => i \in 1..(n - 1)
    BY <1>8
  <2> QED
    BY <1>4, <1>9, <2>1
<1>12. t[n] = x /\ \A i \in 1..(n - 1) : t[i] = s[i]
  BY <1>10
<1> HIDE DEF t
<1>13. Len(t) = n /\ Len(s) = n - 1
  <2>1. t \in Seq(U) /\ s \in Seq(V)
    BY <1>5, <1>8, <1>11
  <2> QED
    BY <2>1, <1>5, <1>8, <1>11, LenProperties
<1>14. ASSUME NEW i \in 1..(n - 1) PROVE t[i] < t[i + 1]
  <2>1. CASE i = n - 1
    <3>1. t[i + 1] = x
      BY <2>1, <1>8, <1>12
    <3> QED
      BY <3>1, <1>9, <1>12
  <2>2. CASE i # n - 1
    <3>1. i \in 1..((n - 1) - 1) /\ i + 1 \in 1..(n - 1)
      BY <2>2, <1>8
    <3> QED
      BY <3>1, <1>7, <1>12, <1>13 DEF Increasing
  <2> QED
    BY <2>1, <2>2
<1>15. Increasing(t)
  BY <1>13, <1>14 DEF Increasing
<1> QED
  BY <1>2, <1>11, <1>15 DEF Good

(* So InOrder is that order, whatever set of dates it is given.            *)
LEMMA InOrderIs ==
  ASSUME NEW S, S \subseteq Int, IsFiniteSet(S)
  PROVE  InOrder(S) \in [1..Cardinality(S) -> S] /\ Increasing(InOrder(S))
BY OrderExists DEF InOrder
-----------------------------------------------------------------------------
(* Two solver orders of distinct keys that differ first at i: each puts    *)
(* later what the other has at i, so neither key is below the other.       *)
LEMMA OneSolverOrder ==
  ASSUME NEW d, d.instruments \in Seq(Instrument), Unambiguous(d),
         NEW p \in SolverOrders(d), NEW q \in SolverOrders(d)
  PROVE  p = q
<1> DEFINE n == Len(d.instruments)
           D == 1..n
           Below(a, b) == KeyBelow(d.instruments[a], d.instruments[b])
           Differ == {i \in D : p[i] # q[i]}
<1>1. n \in Nat /\ DOMAIN d.instruments = D
  BY LenProperties
<1>2. \A x \in SolverOrders(d) :
        /\ x \in [D -> D] /\ \A a, b \in D : x[a] = x[b] => a = b
        /\ \A a, b \in D : a < b => ~Below(x[b], x[a])
  BY <1>1 DEF SolverOrders, IsInjective
<1>3. ASSUME NEW a \in D, NEW b \in D, a # b PROVE Below(a, b) \/ Below(b, a)
  <2>1. d.instruments[a] \in Instrument /\ d.instruments[b] \in Instrument
    BY <1>1, ElementOfSeq
  <2>2. OrderKey(d.instruments[a]) # OrderKey(d.instruments[b])
    BY <1>1, <1>3 DEF Unambiguous
  <2>3. \A k, l \in DOMAIN NameRank :
          k # l => NameRank[k] \in Nat /\ NameRank[l] \in Nat /\ NameRank[k] # NameRank[l]
    BY DEF NameRank
  <2> QED
    BY <2>1, <2>2, <2>3 DEF OrderKey, KeyBelow, Instrument
<1> HIDE DEF Below
<1>4. \A x \in SolverOrders(d) : \A b \in D : \E a \in D : x[a] = b
  <2> TAKE x \in SolverOrders(d)
  <2>1. x \in Injection(D, D)
    BY <1>2 DEF Injection, IsInjective
  <2>2. IsFiniteSet(D)
    BY <1>1, FS_Interval
  <2>3. x \in Surjection(D, D)
    BY <2>1, <2>2, FS_Injection
  <2> QED
    BY <2>3 DEF Surjection
<1> SUFFICES ASSUME Differ # {} PROVE FALSE
  BY <1>2
<1>5. PICK i \in Differ : \A j \in Differ : i <= j
  <2>1. Differ \subseteq Nat
    BY <1>1
  <2> QED
    BY <2>1, NatLeast
<1>6. \A j \in D : j < i => p[j] = q[j]
  BY <1>1, <1>5
<1>7. p[i] \in D /\ q[i] \in D /\ p[i] # q[i] /\ i \in D
  BY <1>2
<1>8. PICK k \in D : q[k] = p[i]
  BY <1>4, <1>7
<1>9. PICK l \in D : p[l] = q[i]
  BY <1>4, <1>7
<1>10. i < k
  <2>1. k # i
    BY <1>7, <1>8
  <2>2. ~(k < i)
    BY <1>2, <1>6, <1>7, <1>8, <2>1
  <2> QED
    BY <1>1, <1>7, <2>1, <2>2
<1>11. i < l
  <2>1. l # i
    BY <1>7, <1>9
  <2>2. ~(l < i)
    BY <1>2, <1>6, <1>7, <1>9, <2>1
  <2> QED
    BY <1>1, <1>7, <2>1, <2>2
<1>12. ~Below(p[i], q[i])
  BY <1>2, <1>7, <1>8, <1>10
<1>13. ~Below(q[i], p[i])
  BY <1>2, <1>7, <1>9, <1>11
<1> QED
  BY <1>3, <1>7, <1>12, <1>13

(* The persisted order is one a solver that sorts by the same key may      *)
(* choose, so when no two keys are equal it is the one it does choose.     *)
(* canonical_instrument_order is then what a solver that sorts by the key  *)
(* returns: with distinct keys there is nothing for it to choose.          *)
LEMMA SolverOrderIsCanonical ==
  ASSUME NEW d, d.instruments \in Seq(Instrument), Unambiguous(d), NEW p \in SolverOrders(d)
  PROVE  CanonicalOrder(d) = p
<1> DEFINE Stable(x) == \A i \in DOMAIN x : \A k \in DOMAIN x :
             i < k /\ x[k] < x[i] =>
               OrderKey(d.instruments[x[k]]) # OrderKey(d.instruments[x[i]])
<1>1. Stable(p)
  <2>1. p \in [DOMAIN d.instruments -> DOMAIN d.instruments] /\ IsInjective(p)
    BY DEF SolverOrders
  <2>2. DOMAIN d.instruments \subseteq Int
    BY LenProperties
  <2> QED
    BY <2>1, <2>2 DEF Unambiguous
<1>2. CanonicalOrder(d) = CHOOSE x \in SolverOrders(d) : Stable(x)
  BY DEF CanonicalOrder
<1> HIDE DEF Stable
<1>3. CanonicalOrder(d) \in SolverOrders(d)
  BY <1>1, <1>2
<1> QED
  BY <1>3, OneSolverOrder
-----------------------------------------------------------------------------
(* The values of a function with finitely many arguments.                  *)
LEMMA ImageIsFinite ==
  ASSUME NEW f, IsFiniteSet(DOMAIN f)
  PROVE  IsFiniteSet({f[x] : x \in DOMAIN f})
<1>1. [x \in DOMAIN f |-> f[x]] \in Surjection(DOMAIN f, {f[x] : x \in DOMAIN f})
  BY DEF Surjection
<1> QED
  BY <1>1, FS_Surjection

(* Starts and maturities of a declaration: finitely many dates.            *)
LEMMA InstrumentDates ==
  ASSUME NEW d, IsDeclaration(d)
  PROVE  /\ IsFiniteSet(Starts(d)) /\ Starts(d) \subseteq Int
         /\ IsFiniteSet(Maturities(d)) /\ Maturities(d) \subseteq Int
<1> DEFINE D == DOMAIN d.instruments
           starts == [i \in D |-> d.instruments[i].start]
           ends == [i \in D |-> d.instruments[i].maturity]
<1>1. D = 1..Len(d.instruments) /\ Len(d.instruments) \in Nat
  BY LenProperties DEF IsDeclaration
<1>2. IsFiniteSet(D)
  BY <1>1, FS_Interval
<1>3. \A i \in D : d.instruments[i] \in Instrument
  BY <1>1, ElementOfSeq DEF IsDeclaration
<1>4. Starts(d) = {starts[i] : i \in DOMAIN starts} /\ Maturities(d) = {ends[i] : i \in DOMAIN ends}
  BY DEF Starts, Maturities
<1>5. DOMAIN starts = D /\ DOMAIN ends = D
  OBVIOUS
<1>6. IsFiniteSet({starts[i] : i \in DOMAIN starts}) /\ IsFiniteSet({ends[i] : i \in DOMAIN ends})
  <2> HIDE DEF starts, ends
  <2> QED
    BY <1>2, <1>5, ImageIsFinite
<1>7. Starts(d) \subseteq Int /\ Maturities(d) \subseteq Int
  BY <1>3 DEF Starts, Maturities, Instrument
<1> QED
  BY <1>4, <1>6, <1>7

(* What admission leaves of a declaration for its projection; a joint      *)
(* request may still have knots that are not after the valuation date.     *)
Projectable(r, d) ==
  /\ Resolved(r, d) \subseteq Int /\ IsFiniteSet(Resolved(r, d))
  /\ \A x \in Resolved(r, d) : x > Today
  /\ StorageCount(r, d) <= MaxStorage
  /\ SchemeHolds(r, d)
  /\ ~Anchored(d) => Resolved(r, d) # {}

DatesFollowToday(r) ==
  r.kind = "xccy_joint" => \A i \in DOMAIN r.decls : \A k \in r.decls[i].knots : k > Today

LEMMA AdmittedDeclarationsAreProjectable ==
  ASSUME NEW r, IsRequest(r), Valid(r), Admits(r), DatesFollowToday(r),
         NEW i \in DOMAIN r.decls
  PROVE  Projectable(r, r.decls[i])
<1> DEFINE d == r.decls[i]
<1>1. IsDeclaration(d) /\ DeclarationValid(d)
  BY DEF IsRequest, Valid
<1>2. d.knots \subseteq Int /\ IsFiniteSet(d.knots) /\ Cardinality(d.knots) <= MaxStorage
  BY <1>1 DEF IsDeclaration, DeclarationValid
<1>3. r.kind # "xccy_joint" => i = 1
  BY LenProperties DEF IsRequest
<1>4. Today \in Int /\ MaxStorage \in Nat
  BY RequestLimitsAssumption
<1>5. CASE r.kind = "single"
  <2>1. SinglePlanHolds(r, d)
    BY <1>3, <1>5 DEF Admits
  <2>2. StorageCount(r, d) \in 1..MaxStorage /\ SchemeHolds(r, d)
    BY <2>1 DEF SinglePlanHolds
  <2>3. Candidates(d, r.policy) \subseteq Int /\ IsFiniteSet(Candidates(d, r.policy))
    BY <1>1, <1>2, InstrumentDates, FS_Union, FS_EmptySet DEF Candidates
  <2>4. Resolved(r, d) = {x \in Candidates(d, r.policy) : x > Today}
    BY <1>5 DEF Resolved
  <2>5. Resolved(r, d) \in SUBSET Candidates(d, r.policy)
    BY <2>4
  <2>6. IsFiniteSet(Resolved(r, d))
    BY <2>3, <2>5, FS_Subset
  <2>7. ~Anchored(d) => Resolved(r, d) # {}
    BY <2>2, FS_EmptySet DEF StorageCount
  <2> QED
    BY <1>4, <2>2, <2>3, <2>4, <2>6, <2>7 DEF Projectable
<1>6. CASE r.kind = "xccy_staged"
  <2>1. ~Anchored(d)
    BY <1>3, <1>6 DEF IsRequest, Anchored
  <2>2. Resolved(r, d) = d.knots
    BY <1>6 DEF Resolved
  <2>3. d.knots # {} /\ \A k \in d.knots : k > Today
    BY <1>3, <1>6 DEF Valid
  <2>4. StorageCount(r, d) = Cardinality(d.knots)
    BY <1>2, <2>1, <2>2, FS_CardinalityType DEF StorageCount
  <2> QED
    BY <1>2, <2>1, <2>2, <2>3, <2>4 DEF Projectable, SchemeHolds
<1>7. CASE r.kind = "xccy_joint"
  <2>1. Resolved(r, d) = d.knots
    BY <1>7 DEF Resolved
  <2>2. d.knots # {} /\ \A k \in d.knots : k > Today
    BY <1>7 DEF Valid, DatesFollowToday
  <2>3. StorageCount(r, d) <= MaxStorage /\ SchemeHolds(r, d)
    BY <1>7 DEF Admits, JointPlanHolds
  <2> QED
    BY <1>2, <2>1, <2>2, <2>3 DEF Projectable
<1> QED
  BY <1>5, <1>6, <1>7 DEF IsRequest

LEMMA ProjectableCurvesProject ==
  ASSUME NEW r, NEW d, IsDeclaration(d), DeclarationValid(d), Projectable(r, d)
  PROVE  CurveProjects(r, d)
<1> DEFINE S == Resolved(r, d)
           c == Cardinality(S)
           s == InOrder(S)
<1>1. S \subseteq Int /\ IsFiniteSet(S) /\ (\A x \in S : x > Today) /\ c \in Nat
  BY FS_CardinalityType DEF Projectable
<1>2. s \in [1..c -> S] /\ Increasing(s)
  BY <1>1, InOrderIs
<1>3. Today \in Int /\ MaxStorage \in Nat
  BY RequestLimitsAssumption
<1>4. StorageCount(r, d) = c + (IF Anchored(d) THEN 1 ELSE 0) /\ StorageCount(r, d) <= MaxStorage
  BY DEF StorageCount, Projectable
<1>5. Anchored(d) => c >= 1
  <2> SUFFICES ASSUME Anchored(d) PROVE c >= 1
    OBVIOUS
  <2>1. StorageCount(r, d) >= SchemeMinimum[d.scheme]
    BY DEF Projectable, SchemeHolds
  <2>2. d.scheme \in DOMAIN SchemeMinimum /\ d.scheme # "NONE"
    BY DEF IsDeclaration, DeclarationValid
  <2>3. SchemeMinimum[d.scheme] \in Nat /\ SchemeMinimum[d.scheme] >= 2
    BY <2>2 DEF SchemeMinimum
  <2> QED
    BY <1>1, <1>4, <2>1, <2>3
<1>6. ~Anchored(d) => c >= 1
  BY <1>1, FS_EmptySet DEF Projectable
<1> HIDE DEF S, c, s
<1>7. s \in [1..c -> Int] /\ \A k \in 1..c : s[k] \in Int /\ s[k] > Today
  BY <1>1, <1>2
<1>7a. s \in Seq(Int) /\ Len(s) = c
  <2>1. s \in Seq(Int)
    BY <1>1, <1>7
  <2> QED
    BY <2>1, <1>1, <1>7, LenProperties
<1>8. CASE d.param = "LOG_DISCOUNT"
  <2> DEFINE t == <<Today>> \o s
  <2>1. NodeDates(r, d) = t
    BY <1>8 DEF NodeDates, s, S
  <2>2. Len(t) = c + 1 /\ t[1] = Today /\ \A k \in 2..(c + 1) : t[k] = s[k - 1]
    <3>1. <<Today>> \in Seq(Int) /\ Len(<<Today>>) = 1 /\ <<Today>>[1] = Today
      BY <1>3
    <3> QED
      BY <3>1, <1>1, <1>7a, ConcatProperties
  <2> HIDE DEF t
  <2>3. ASSUME NEW k \in 1..(Len(t) - 1) PROVE t[k] < t[k + 1]
    <3>1. CASE k = 1
      <4>1. 2 \in 2..(c + 1) /\ 1 \in 1..c
        BY <1>1, <1>5, <1>8 DEF Anchored
      <4>2. t[2] = s[1] /\ s[1] > Today /\ t[1] = Today
        BY <4>1, <1>7, <2>2
      <4> QED
        BY <3>1, <4>2, <1>3, <1>7, <4>1
    <3>2. CASE k # 1
      <4>1. t[k] = s[k - 1] /\ t[k + 1] = s[k] /\ k - 1 \in 1..(c - 1)
        BY <3>2, <1>1, <2>2
      <4>2. s[k - 1] < s[(k - 1) + 1]
        BY <4>1, <1>2, <1>7a DEF Increasing
      <4> QED
        BY <4>1, <4>2
    <3> QED
      BY <3>1, <3>2
  <2>4. Increasing(t)
    BY <2>3 DEF Increasing
  <2> QED
    BY <1>1, <1>3, <1>4, <1>5, <1>8, <2>1, <2>2, <2>4 DEF CurveProjects, Anchored
<1>9. CASE d.param # "LOG_DISCOUNT"
  <2>1. NodeDates(r, d) = s
    BY <1>9 DEF NodeDates, s, S
  <2>2. c \in 1..MaxStorage
    BY <1>1, <1>3, <1>4, <1>5, <1>6
  <2>3. d.param = "ZERO_RATE" => c < MaxStorage /\ s[1] > Today
    BY <1>1, <1>3, <1>4, <1>7, <2>2 DEF Anchored
  <2> QED
    BY <1>2, <1>7a, <1>9, <2>1, <2>2, <2>3 DEF CurveProjects
<1> QED
  BY <1>8, <1>9

(* A projectable declaration has at most two parameters at a node.         *)
LEMMA FreeParametersAreFinite ==
  ASSUME NEW r, NEW d, IsDeclaration(d), Projectable(r, d)
  PROVE  /\ IsFiniteSet(FreeParameters(r, d)) /\ FreeCount(r, d) \in Nat
         /\ FreeCount(r, d) <= 2 * MaxStorage
<1> DEFINE S == Resolved(r, d)
           C == Components[d.param]
           m == Cardinality(S)
           n == Cardinality(C)
<1>1. IsFiniteSet(S) /\ m \in Nat
  BY FS_CardinalityType DEF Projectable
<1>2. IsFiniteSet(C) /\ n \in Nat /\ n <= 2
  <2>1. \/ C = {"right_forward"} \cup {"right_forward"}
        \/ C = {"right_forward"} \cup {"left_forward"}
        \/ C = {"zero_rate"} \cup {"zero_rate"}
        \/ C = {"log_discount_factor"} \cup {"log_discount_factor"}
    BY DEF IsDeclaration, Components
  <2>2. ASSUME NEW a, NEW b
        PROVE  /\ IsFiniteSet({a} \cup {b})
               /\ Cardinality({a} \cup {b}) \in Nat /\ Cardinality({a} \cup {b}) <= 2
    <3>1. IsFiniteSet({a}) /\ Cardinality({a}) = 1
      BY FS_Singleton
    <3>2. /\ IsFiniteSet({a} \cup {b})
          /\ Cardinality({a} \cup {b}) =
               IF b \in {a} THEN Cardinality({a}) ELSE Cardinality({a}) + 1
      BY <3>1, FS_AddElement
    <3> QED
      BY <3>1, <3>2
  <2> HIDE DEF C
  <2> QED
    BY <2>1, <2>2
<1>3. m <= MaxStorage
  BY <1>1, RequestLimitsAssumption DEF Projectable, StorageCount
<1>4. IsFiniteSet(S \X C) /\ Cardinality(S \X C) = m * n
  BY <1>1, <1>2, FS_Product
<1>5. FreeParameters(r, d) = S \X C
  BY DEF FreeParameters
<1> HIDE DEF S, C, m, n
<1>6. m * n \in Nat /\ m * n <= 2 * MaxStorage
  <2>1. n \in {0, 1, 2} /\ MaxStorage \in Nat
    BY <1>2, RequestLimitsAssumption
  <2> QED
    BY <1>1, <1>3, <2>1
<1> QED
  BY <1>4, <1>5, <1>6 DEF FreeCount

(* The blocks of all the declarations, side by side.                       *)
(* Finitely many finite blocks make a finite axis.                         *)
LEMMA BlocksAreFinite ==
  ASSUME NEW n \in Nat, NEW F, DOMAIN F = 1..n, \A i \in 1..n : IsFiniteSet(F[i])
  PROVE  IsFiniteSet(UNION {{i} \X F[i] : i \in 1..n})
<1> DEFINE G == [i \in 1..n |-> {i} \X F[i]]
<1>1. \A i \in 1..n : IsFiniteSet({i} \X F[i])
  BY FS_Product, FS_Singleton
<1>2. DOMAIN G = 1..n /\ \A i \in 1..n : G[i] = {i} \X F[i]
  OBVIOUS
<1> HIDE DEF G
<1>3. IsFiniteSet({G[i] : i \in DOMAIN G})
  <2>1. IsFiniteSet(1..n)
    BY FS_Interval
  <2>2. IsFiniteSet(DOMAIN G)
    BY <1>2, <2>1
  <2> QED
    BY <2>2, ImageIsFinite
<1>4. \A T \in {G[i] : i \in DOMAIN G} : IsFiniteSet(T)
  BY <1>1, <1>2
<1>5. IsFiniteSet(UNION {G[i] : i \in DOMAIN G})
  BY <1>3, <1>4, FS_UNION
<1>6. {G[i] : i \in DOMAIN G} = {{i} \X F[i] : i \in 1..n}
  BY <1>2
<1> QED
  BY <1>5, <1>6

LEMMA AdmittedResultProjects ==
  ASSUME NEW r, IsRequest(r), Valid(r), Admits(r), DatesFollowToday(r)
  PROVE  ResultProjects(r)
<1> DEFINE n == Len(r.decls)
           D == DOMAIN r.decls
<1>1. n \in Nat /\ D = 1..n /\ 1 \in D
  BY LenProperties DEF IsRequest
<1>2. \A i \in D : /\ IsDeclaration(r.decls[i]) /\ DeclarationValid(r.decls[i])
                    /\ Projectable(r, r.decls[i])
  BY AdmittedDeclarationsAreProjectable DEF IsRequest, Valid
<1>3. \A i \in D : CurveProjects(r, r.decls[i])
  BY <1>2, ProjectableCurvesProject
<1>4. MaxStorage \in Nat /\ MaxDimension \in Nat /\ MaxJointFree \in Nat
      /\ MaxStorage <= MaxDimension /\ MaxJointFree <= 2 * MaxDimension
  BY RequestLimitsAssumption
<1>5. IsFiniteSet(ParameterAxis(r)) /\ TotalFree(r) \in Nat
  <2> DEFINE F == [i \in 1..n |-> FreeParameters(r, r.decls[i])]
  <2>1. DOMAIN F = 1..n /\ \A i \in 1..n : F[i] = FreeParameters(r, r.decls[i])
    OBVIOUS
  <2> HIDE DEF F
  <2>2. \A i \in 1..n : IsFiniteSet(F[i])
    BY <1>1, <1>2, <2>1, FreeParametersAreFinite
  <2>3. ParameterAxis(r) = UNION {{i} \X F[i] : i \in 1..n}
    BY <1>1, <2>1 DEF ParameterAxis
  <2> HIDE DEF n
  <2>4. IsFiniteSet(UNION {{i} \X F[i] : i \in 1..n})
    BY <1>1, <2>1, <2>2, BlocksAreFinite
  <2> QED
    BY <2>3, <2>4, FS_CardinalityType DEF TotalFree
<1>6. InstrumentCount(r) \in Nat /\ InstrumentCount(r) >= 1
  <2> DEFINE F == [i \in 1..n |-> DOMAIN r.decls[i].instruments]
             All == UNION {{i} \X F[i] : i \in 1..n}
  <2>1. DOMAIN F = 1..n /\ \A i \in 1..n : F[i] = DOMAIN r.decls[i].instruments
    OBVIOUS
  <2>2. \A i \in D : /\ r.decls[i].instruments \in Seq(Instrument)
                      /\ r.decls[i].instruments # <<>>
    BY <1>2 DEF IsDeclaration, DeclarationValid
  <2>3. \A i \in D : /\ DOMAIN r.decls[i].instruments = 1..Len(r.decls[i].instruments)
                      /\ Len(r.decls[i].instruments) \in Nat
                      /\ 1 \in DOMAIN r.decls[i].instruments
    BY <2>2, LenProperties, EmptySeq
  <2>4. InstrumentCount(r) = Cardinality(All)
    BY <1>1, <2>1 DEF InstrumentCount
  <2> HIDE DEF F
  <2>5. IsFiniteSet(All)
    <3>1. ASSUME NEW i \in 1..n PROVE IsFiniteSet(F[i])
      <4> DEFINE k == Len(r.decls[i].instruments)
      <4>1. k \in Nat /\ F[i] = 1..k
        BY <1>1, <2>1, <2>3
      <4> HIDE DEF k
      <4> QED
        BY <4>1, FS_Interval
    <3>2. DOMAIN F = 1..n /\ n \in Nat
      BY <1>1, <2>1
    <3> HIDE DEF n, D
    <3>3. IsFiniteSet(UNION {{i} \X F[i] : i \in 1..n})
      BY <3>1, <3>2, BlocksAreFinite
    <3> QED
      BY <3>3 DEF n
  <2>6. <<1, 1>> \in All
    BY <1>1, <2>1, <2>3
  <2> HIDE DEF All
  <2>7. Cardinality(All) \in Nat /\ Cardinality(All) # 0
    BY <2>5, <2>6, FS_CardinalityType, FS_EmptySet
  <2> QED
    BY <2>4, <2>7
<1>7. TotalFree(r) <= 2 * MaxDimension
  <2>1. CASE r.kind = "xccy_joint"
    BY <1>4, <1>5, <2>1 DEF Admits, JointPlanHolds
  <2>2. CASE r.kind # "xccy_joint"
    <3>1. n = 1
      BY <2>2 DEF IsRequest
    <3> DEFINE B == FreeParameters(r, r.decls[1])
    <3>2. ParameterAxis(r) = {1} \X B
      <4>1. D = {1}
        BY <1>1, <3>1
      <4> QED
        BY <4>1 DEF ParameterAxis
    <3>3. IsFiniteSet(B) /\ Cardinality(B) \in Nat /\ Cardinality(B) <= 2 * MaxStorage
      BY <1>1, <1>2, FreeParametersAreFinite DEF FreeCount
    <3> HIDE DEF B
    <3>4. Cardinality({1} \X B) = 1 * Cardinality(B)
      <4>1. IsFiniteSet({1}) /\ Cardinality({1}) = 1
        BY FS_Singleton
      <4> QED
        BY <3>3, <4>1, FS_Product
    <3> QED
      BY <1>4, <3>2, <3>3, <3>4 DEF TotalFree
  <2> QED
    BY <2>1, <2>2
<1>8. ASSUME Available(r) # {}
      PROVE  InstrumentCount(r) \in 1..MaxDimension /\ TotalFree(r) \in 1..MaxDimension
  <2> DEFINE M == {x \in {"jacobian", "inverse"} : x \in r.include}
  <2>1. r.mode = "EXACT" /\ M # {}
    BY <1>8 DEF Available, IsRequest
  <2>2. IsFiniteSet(M)
    <3>1. IsFiniteSet({"jacobian"} \cup {"inverse"})
      BY FS_Singleton, FS_AddElement
    <3> QED
      BY <3>1, FS_Subset, M \in SUBSET ({"jacobian"} \cup {"inverse"})
  <2>3. Cardinality(M) \in Nat /\ Cardinality(M) > 0
    <3> HIDE DEF M
    <3> QED
      BY <2>1, <2>2, FS_CardinalityType, FS_EmptySet
  <2>4. SystemHolds(r)
    BY DEF Admits
  <2>5. InstrumentCount(r) <= TotalFree(r)
    BY <2>1, <2>4 DEF SystemHolds
  <2>6. TotalFree(r) <= MaxDimension
    <3>1. (IF InstrumentCount(r) > TotalFree(r) THEN InstrumentCount(r) ELSE TotalFree(r)) <= MaxDimension
      BY <2>3, <2>4 DEF SystemHolds
    <3> QED
      BY <1>5, <1>6, <2>5, <3>1
  <2> QED
    BY <1>4, <1>5, <1>6, <2>5, <2>6
<1> QED
  BY <1>3, <1>7, <1>8 DEF ResultProjects
-----------------------------------------------------------------------------
(* The inductive invariant.  A run has a step (where its coroutine or      *)
(* thread is), the request it was submitted with, a row, its curves and    *)
(* the order its residuals came back in.                                   *)
Early == {"none", "plan", "planning", "eligibility", "judging", "admit", "refused"}
Underway ==
  {"scheduled", "locked", "verify", "solve", "integrity", "lifecycle", "native", "mismatch",
   "solved", "project", "complete"}
Steps == Early \cup Underway \cup {"done", "lost"}
Altered == {"PLAN", "EXPECTED"}

PhaseNames == {"absent", "queued", "solving", "serializing", "persisting", "finished"}
Errors ==
  Altered \cup {"none", "LIFECYCLE_TRANSITION_FAILED", "NATIVE_CALIBRATION_FAILED",
                "NATIVE_KNOT_PLAN_MISMATCH", "RESPONSE_LIMIT_EXCEEDED", "SERVER_RESTARTED"}
StoredOrder(q) == IF q.kind = "single" THEN CanonicalOrder(q.decls[1]) ELSE <<>>
RowType ==
  [status : {"absent", "running", "completed", "failed"}, phase : PhaseNames,
   request : Requests \cup {NoRequest}, evidence : Altered \cup {"none", "sound"},
   error : Errors, order : {<<>>} \cup {StoredOrder(q) : q \in Requests}]
CurveType == [role : {"discount", "forward", "basis"}, base : Runs \cup {NoRun}]
Solved == {<<>>} \cup UNION {SolverOrders(q.decls[1]) : q \in Requests}

Types ==
  /\ row \in [Runs -> RowType]
  /\ curves \in [Runs -> Seq(CurveType)]
  /\ at \in [Runs -> [step : Steps, request : Requests \cup {NoRequest}]]
  /\ order \in [Runs -> Solved]
  /\ holder \in Runs \cup {NoRun, Other} /\ loop \in Runs \cup {NoRun}
  /\ up \in BOOLEAN /\ crashes \in 0..MaxCrashes /\ faults \in 0..MaxFaults

(* The step and the row tell of the same moment of the same request.       *)
RowFits(step, q, x) ==
  /\ step \in Early => x.status = "absent"
  /\ step \in Underway => x.status = "running"
  /\ step = "done" => x.status \in {"completed", "failed"}
  /\ step \in {"scheduled", "locked"} => x.phase = "queued"
  /\ step \in {"verify", "solve", "integrity", "mismatch", "solved"} => x.phase = "solving"
  /\ step = "native" => x.phase \in {"solving", "serializing", "persisting"}
  /\ step = "project" => x.phase = "serializing"
  /\ step = "complete" => x.phase = "persisting"
  /\ x.status = "absent" <=> x.phase = "absent"
  /\ x.status \in {"completed", "failed"} <=> x.phase = "finished"
  /\ x.status = "absent" => x.evidence = "none" /\ x.error = "none"
  /\ x.status # "absent" =>
       /\ x.request = q /\ Admits(q) /\ x.order = StoredOrder(q)
       /\ x.evidence = "none" <=> q.kind # "single"
  /\ step = "admit" => Admits(q)
  /\ step = "verify" => q.kind = "single"

(* Evidence altered before it was verified keeps a run from being solved.  *)
EvidenceFits(step, x, f) ==
  /\ x.evidence \in Altered =>
       /\ x.phase \in {"queued", "solving", "finished"}
       /\ step \notin {"solve", "native", "mismatch", "solved", "project", "complete"}
       /\ x.status = "failed" =>
            x.error \in {x.evidence, "LIFECYCLE_TRANSITION_FAILED", "SERVER_RESTARTED"}
  /\ step = "integrity" => x.evidence \in Altered
  /\ step = "lifecycle" \/ x.error = "LIFECYCLE_TRANSITION_FAILED" => f > 0

CurvesFit(step, x, c, o) ==
  /\ x.status # "completed" => c = <<>>
  /\ x.status = "completed" =>
       /\ Len(c) = Len(x.request.decls) /\ c # <<>>
       /\ step = "done" => o = x.order
  /\ step \in {"solved", "project", "complete"} => o = x.order

(* What a run refers to: its base was completed and readable when it was   *)
(* submitted, and stays so.                                                *)
BaseHolds(n, r) ==
  \A b \in Runs : at[r].request.base = b => row[b].status = "completed" /\ ReadsWithin(n, b)
Refers(r) ==
  /\ at[r].step # "none" =>
       at[r].request \in Requests /\ Valid(at[r].request) /\ BaseHolds(MaxDepth, r)
  /\ at[r].step = "complete" => BaseHolds(MaxDepth - 1, r)
  /\ row[r].status = "completed" => ReadsWithin(MaxDepth, r)

Standing(r) ==
  /\ RowFits(at[r].step, at[r].request, row[r])
  /\ EvidenceFits(at[r].step, row[r], faults)
  /\ CurvesFit(at[r].step, row[r], curves[r], order[r])
  /\ Refers(r)

SeededStay ==
  \A r \in Seeded :
    /\ row[r] = SeededRow /\ curves[r] = << [role |-> "discount", base |-> NoRun] >>
    /\ at[r].step \in {"done", "lost"}
Stopped == ~up => \A r \in Runs : at[r].step \in {"none", "lost"}

AllStand == \A r \in Runs \ Seeded : Standing(r)

Inv == Types /\ SeededStay /\ Stopped /\ OneNativeCallAtATime /\ AllStand

(* What the assumptions on the constants say, one fact at a time.          *)
LEMMA SomeAssumptions ==
  /\ Runs \subseteq Nat /\ Seeded \subseteq Runs /\ NoRun \notin Runs /\ Other \notin Runs
  /\ NoRun # Other /\ NoRequest \notin Requests
  /\ MaxDepth \in Nat \ {0} /\ MaxCrashes \in Nat /\ MaxFaults \in Nat
  /\ \A q \in Requests : IsRequest(q) /\ q.base \in Runs \cup {NoRun}
BY CalibrationAssumption

(* Every request declares a curve.                                         *)
LEMMA FirstDeclaration ==
  ASSUME NEW q \in Requests
  PROVE  /\ q.decls # <<>> /\ Len(q.decls) \in Nat /\ Len(q.decls) # 0
         /\ DOMAIN q.decls = 1..Len(q.decls)
         /\ 1 \in DOMAIN q.decls /\ IsDeclaration(q.decls[1])
<1>1. q.decls \in Seq(Range(q.decls)) /\ q.decls # <<>>
  BY SomeAssumptions DEF IsRequest
<1>2. 1 \in DOMAIN q.decls /\ Len(q.decls) \in Nat /\ Len(q.decls) # 0
  BY <1>1, LenProperties, EmptySeq
<1> QED
  BY <1>1, <1>2, LenProperties, SomeAssumptions DEF IsRequest

Locked == {"planning", "judging", "locked", "verify", "solve"}
Alone(r) ==
  \A o \in Runs : o # r =>
    /\ at'[o] = at[o] /\ row'[o] = row[o] /\ curves'[o] = curves[o] /\ order'[o] = order[o]
Keeps ==
  /\ faults' >= faults
  /\ \A b \in Runs : row[b].status = "completed" => row'[b].status = "completed"
  /\ \A b \in Runs : curves[b] # <<>> => curves'[b] = curves[b]

(* Curves are never taken back, so what was readable stays readable.       *)
LEMMA ReadsKept ==
  ASSUME Keeps, NEW n, NEW b, ReadsWithin(n, b)
  PROVE  ReadsWithin(n, b)'
<1> SUFFICES ASSUME b # NoRun
             PROVE  \E k \in 1..n : \E s \in [1..k -> Runs] : s[1] = b /\ IsBaseChain(s)'
  BY DEF ReadsWithin
<1>1. PICK k \in 1..n : \E s \in [1..k -> Runs] : s[1] = b /\ IsBaseChain(s)
  BY DEF ReadsWithin
<1>2. PICK s \in [1..k -> Runs] : s[1] = b /\ IsBaseChain(s)
  BY <1>1
<1>3. ASSUME NEW i \in DOMAIN s PROVE curves'[s[i]] = curves[s[i]] /\ curves[s[i]] # <<>>
  BY <1>2 DEF IsBaseChain, Keeps
<1>4. IsBaseChain(s)'
  BY <1>2, <1>3 DEF IsBaseChain
<1> QED
  BY <1>2, <1>4

(* What a run refers to stays completed and readable.                      *)
LEMMA BaseKept ==
  ASSUME Keeps, NEW n, NEW r, BaseHolds(n, r), at'[r].request = at[r].request
  PROVE  BaseHolds(n, r)'
BY ReadsKept DEF BaseHolds, Keeps

(* A curve on a base reads one curve further than its base.                *)
ReadsOn ==
  \A r \in Runs, n \in Nat \ {0}, b \in Runs \cup {NoRun} :
    curves[r] # <<>> /\ curves[r][1].base = b /\ ReadsWithin(n - 1, b) => ReadsWithin(n, r)

LEMMA ReadsThrough == ReadsOn
<1> SUFFICES ASSUME NEW r \in Runs, NEW n \in Nat \ {0}, NEW b \in Runs \cup {NoRun},
                    curves[r] # <<>>, curves[r][1].base = b, ReadsWithin(n - 1, b)
             PROVE  \E k \in 1..n : \E s \in [1..k -> Runs] : s[1] = r /\ IsBaseChain(s)
  BY DEF ReadsOn, ReadsWithin
<1>1. CASE b = NoRun
  <2> DEFINE s == [i \in 1..1 |-> r]
  <2>1. s \in [1..1 -> Runs] /\ s[1] = r /\ DOMAIN s = {1}
    OBVIOUS
  <2>2. Len(s) = 1
    BY <2>1
  <2>3. IsBaseChain(s)
    <3> HIDE DEF s
    <3> QED
      BY <1>1, <2>1, <2>2 DEF IsBaseChain
  <2>4. 1 \in 1..n
    OBVIOUS
  <2> HIDE DEF s
  <2> QED
    BY <2>1, <2>3, <2>4
<1>2. CASE b # NoRun
  <2>1. PICK k \in 1..(n - 1) : \E s \in [1..k -> Runs] : s[1] = b /\ IsBaseChain(s)
    BY <1>2 DEF ReadsWithin
  <2>2. PICK s \in [1..k -> Runs] : s[1] = b /\ IsBaseChain(s)
    BY <2>1
  <2> DEFINE t == [i \in 1..(k + 1) |-> IF i = 1 THEN r ELSE s[i - 1]]
  <2>3. k \in Nat /\ k + 1 \in 1..n
    OBVIOUS
  <2>4. \A i \in 1..(k + 1) : i # 1 => i - 1 \in 1..k
    BY <2>3
  <2>5. t \in [1..(k + 1) -> Runs] /\ t[1] = r /\ (\A i \in 1..k : t[i + 1] = s[i])
    BY <2>3, <2>4
  <2>6. Len(s) = k /\ Len(t) = k + 1
    BY <2>3, <2>5
  <2> HIDE DEF t
  <2>7. ASSUME NEW i \in 1..(k + 1)
        PROVE  /\ curves[t[i]] # <<>>
               /\ curves[t[i]][1].base = IF i = k + 1 THEN NoRun ELSE t[i + 1]
    <3>1. CASE i = 1
      <4>1. t[i] = r /\ i # k + 1 /\ t[i + 1] = b
        BY <2>2, <2>3, <2>5, <3>1
      <4> QED
        BY <4>1
    <3>2. CASE i # 1
      <4>1. PICK j \in 1..k : i = j + 1
        BY <2>4, <3>2
      <4>2. t[i] = s[j] /\ (i = k + 1 <=> j = k) /\ (i # k + 1 => t[i + 1] = s[j + 1])
        <5>1. i # k + 1 => j + 1 \in 1..k
          BY <4>1, <2>3
        <5> QED
          BY <4>1, <2>3, <2>5, <5>1
      <4>3. curves[s[j]] # <<>> /\ curves[s[j]][1].base = IF j = k THEN NoRun ELSE s[j + 1]
        BY <2>2, <2>6 DEF IsBaseChain
      <4> QED
        BY <4>2, <4>3
    <3> QED
      BY <3>1, <3>2
  <2>8. IsBaseChain(t)
    BY <2>5, <2>6, <2>7 DEF IsBaseChain
  <2> QED
    BY <2>3, <2>5, <2>8
<1> QED
  BY <1>1, <1>2

(* A step of r leaves the standing of the other runs alone.                *)
LEMMA OthersStand ==
  ASSUME Types, Types', Keeps, NEW o \in Runs \ Seeded, Standing(o),
         at'[o] = at[o], row'[o] = row[o], curves'[o] = curves[o], order'[o] = order[o]
  PROVE  Standing(o)'
<1>1. RowFits(at'[o].step, at'[o].request, row'[o])
  BY DEF Standing
<1>2. EvidenceFits(at'[o].step, row'[o], faults')
  <2>1. faults' >= faults /\ faults \in Nat /\ faults' \in Nat
    BY SomeAssumptions DEF Keeps, Types
  <2> QED
    BY <2>1 DEF Standing, EvidenceFits
<1>3. CurvesFit(at'[o].step, row'[o], curves'[o], order'[o])
  BY DEF Standing
<1>4. Refers(o)'
  <2>1. Refers(o)
    BY DEF Standing
  <2>2. at[o].step # "none" =>
          at[o].request \in Requests /\ Valid(at[o].request) /\ BaseHolds(MaxDepth, o)'
    BY <2>1, BaseKept DEF Refers
  <2>3. at[o].step = "complete" => BaseHolds(MaxDepth - 1, o)'
    BY <2>1, BaseKept DEF Refers
  <2>4. row[o].status = "completed" => ReadsWithin(MaxDepth, o)'
    BY <2>1, ReadsKept DEF Refers
  <2> QED
    BY <2>2, <2>3, <2>4 DEF Refers
<1> QED
  BY <1>1, <1>2, <1>3, <1>4 DEF Standing

(* What a step of run r must show: where its own row, evidence and curves  *)
(* now stand, and how the lock moved with its step.                        *)
LockFits(r, s) ==
  \/ holder' = holder /\ (at[r].step \in Locked <=> s \in Locked)
  \/ holder = NoRun /\ holder' = r /\ s \in Locked
  \/ holder' = NoRun /\ at[r].step \in Locked /\ s \notin Locked

(* A step of r moves the lock, if at all, along with its own step.         *)
LEMMA LockFollows ==
  ASSUME Inv, NEW r \in Runs, NEW s, LockFits(r, s), at'[r].step = s, Alone(r)
  PROVE  \A o \in Runs : at'[o].step \in Locked <=> holder' = o
<1>1. \A o \in Runs : at[o].step \in Locked <=> holder = o
  BY DEF Inv, OneNativeCallAtATime, Locked
<1>2. \A o \in Runs : o # r => at'[o].step = at[o].step
  BY DEF Alone
<1> QED
  BY <1>1, <1>2, SomeAssumptions DEF LockFits

LockHeld == \A r \in Runs : at[r].step \in Locked <=> holder = r

(* The rows marked solving follow from the steps.                          *)
LEMMA LockIsEnough ==
  SeededStay /\ AllStand /\ LockHeld => OneNativeCallAtATime
<1> SUFFICES ASSUME SeededStay, AllStand, LockHeld, NEW r \in Runs
             PROVE  at[r].step \in {"verify", "solve"} => row[r].phase = "solving"
  BY DEF OneNativeCallAtATime, Locked, LockHeld
<1>1. CASE r \in Seeded
  BY <1>1 DEF SeededStay
<1>2. CASE r \notin Seeded
  BY <1>2 DEF AllStand, Standing, RowFits
<1> QED
  BY <1>1, <1>2

(* A step of r preserves the invariant if r still stands after it.         *)
LEMMA Advance ==
  ASSUME Inv, Types', NEW r \in Runs \ Seeded, NEW s,
         Alone(r), Keeps, LockFits(r, s), up = TRUE \/ s = at[r].step, up' = up,
         at'[r].step = s, Standing(r)'
  PROVE  Inv'
<1>1. ASSUME NEW o \in Runs \ Seeded PROVE Standing(o)'
  <2>1. CASE o = r
    BY <2>1
  <2>2. CASE o # r
    BY <2>2, OthersStand DEF Inv, AllStand, Alone
  <2> QED
    BY <2>1, <2>2
<1>2. SeededStay'
  BY SomeAssumptions DEF Inv, SeededStay, Alone
<1>3. Stopped'
  <2> SUFFICES ASSUME ~up', NEW o \in Runs PROVE at'[o].step \in {"none", "lost"}
    BY DEF Stopped
  <2>1. ~up /\ at'[r].step = at[r].step
    BY up' = up
  <2>2. Stopped
    BY DEF Inv
  <2>3. at[o].step \in {"none", "lost"}
    BY <2>1, <2>2 DEF Stopped
  <2>4. o # r => at'[o] = at[o]
    BY DEF Alone
  <2>5. at'[o].step = at[o].step
    <3>1. CASE o = r
      BY <2>1, <3>1
    <3>2. CASE o # r
      BY <2>4, <3>2
    <3> QED
      BY <3>1, <3>2
  <2> QED
    BY <2>3, <2>5
<1>4. LockHeld'
  BY LockFollows DEF LockHeld
<1>5. OneNativeCallAtATime'
  <2>1. AllStand'
    BY <1>1 DEF AllStand
  <2> QED
    BY <2>1, <1>2, <1>4, LockIsEnough, PTL
<1> QED
  BY <1>1, <1>2, <1>3, <1>5 DEF Inv, AllStand

(* What Goto and the writes of a row change, field by field.               *)
LEMMA GotoMoves ==
  ASSUME Types, NEW r \in Runs, NEW s \in Steps, Goto(r, s)
  PROVE  /\ at' \in [Runs -> [step : Steps, request : Requests \cup {NoRequest}]]
         /\ at'[r].step = s /\ at'[r].request = at[r].request
         /\ \A o \in Runs : o # r => at'[o] = at[o]
BY DEF Types, Goto

SameBut(r, fields) ==
  /\ row' \in [Runs -> RowType]
  /\ \A o \in Runs : o # r => row'[o] = row[o]
  /\ row'[r].request = row[r].request /\ row'[r].evidence = row[r].evidence
  /\ row'[r].order = row[r].order
  /\ "status" \notin fields => row'[r].status = row[r].status
  /\ "error" \notin fields => row'[r].error = row[r].error

LEMMA PhaseMoves ==
  ASSUME Types, NEW r \in Runs, NEW p \in PhaseNames, row' = [row EXCEPT ![r].phase = p]
  PROVE  SameBut(r, {"phase"}) /\ row'[r].phase = p
<1> DEFINE x == row[r]
           y == [x EXCEPT !.phase = p]
<1>1. row \in [Runs -> RowType] /\ x \in RowType
  BY DEF Types
<1>2. y \in RowType /\ y.phase = p /\ y.status = x.status /\ y.request = x.request
      /\ y.evidence = x.evidence /\ y.error = x.error /\ y.order = x.order
  <2> HIDE DEF x
  <2> QED
    BY <1>1 DEF RowType
<1>3. row' = [row EXCEPT ![r] = y]
  OBVIOUS
<1> HIDE DEF y
<1> QED
  BY <1>1, <1>2, <1>3 DEF SameBut

LEMMA CompleteMoves ==
  ASSUME Types, NEW r \in Runs,
         row' = [row EXCEPT ![r].status = "completed", ![r].phase = "finished"]
  PROVE  SameBut(r, {"status", "phase"}) /\ row'[r].phase = "finished" /\ row'[r].status = "completed"
<1> DEFINE x == row[r]
           y == [[x EXCEPT !.status = "completed"] EXCEPT !.phase = "finished"]
<1>1. row \in [Runs -> RowType] /\ x \in RowType
  BY DEF Types
<1>2. y \in RowType /\ y.phase = "finished" /\ y.status = "completed" /\ y.request = x.request
      /\ y.evidence = x.evidence /\ y.error = x.error /\ y.order = x.order
  <2> HIDE DEF x
  <2> QED
    BY <1>1 DEF RowType, PhaseNames
<1>3. row' = [row EXCEPT ![r] = y]
  BY <1>1
<1> HIDE DEF y
<1> QED
  BY <1>1, <1>2, <1>3 DEF SameBut

LEMMA FailMoves ==
  ASSUME Types, NEW r \in Runs, NEW e \in Errors, Fails(r, e)
  PROVE  /\ SameBut(r, {"status", "phase", "error"})
         /\ row'[r].phase = "finished" /\ row'[r].status = "failed" /\ row'[r].error = e
         /\ curves' = curves
<1> DEFINE x == row[r]
           y == [[[x EXCEPT !.status = "failed"] EXCEPT !.phase = "finished"] EXCEPT !.error = e]
<1>1. row \in [Runs -> RowType] /\ x \in RowType
  BY DEF Types
<1>2. y \in RowType /\ y.phase = "finished" /\ y.status = "failed" /\ y.error = e
      /\ y.request = x.request /\ y.evidence = x.evidence /\ y.order = x.order
  <2> HIDE DEF x
  <2> QED
    BY <1>1 DEF RowType, PhaseNames
<1>3. row' = [row EXCEPT ![r] = y] /\ curves' = curves
  BY <1>1 DEF Fails
<1> HIDE DEF y
<1> QED
  BY <1>1, <1>2, <1>3 DEF SameBut

(* What the invariant says of a run that a thread is working on.           *)
LEMMA LiveRun ==
  ASSUME Inv, NEW r \in Runs
  PROVE  /\ at[r].step \notin {"done", "lost"} => r \in Runs \ Seeded
         /\ at[r].step \notin {"none", "lost"} => up = TRUE
         /\ r \notin Seeded => Standing(r)
         /\ at[r].step \in Steps
         /\ at[r].step \in Locked <=> holder = r
<1>1. at[r].step \notin {"done", "lost"} => r \in Runs \ Seeded
  BY DEF Inv, SeededStay
<1>2. at[r].step \notin {"none", "lost"} => up = TRUE
  <2>1. up \in BOOLEAN /\ Stopped
    BY DEF Inv, Types
  <2> QED
    BY <2>1 DEF Stopped
<1>3. r \notin Seeded => Standing(r)
  BY DEF Inv, AllStand
<1>4. at[r].step \in Steps
  BY DEF Inv, Types
<1>5. at[r].step \in Locked <=> holder = r
  BY DEF Inv, OneNativeCallAtATime, Locked
<1> QED
  BY <1>1, <1>2, <1>3, <1>4, <1>5

(* The steps that leave the tables alone.                                  *)
LEMMA Walk ==
  ASSUME Inv, NEW r \in Runs \ Seeded, NEW s \in Steps, s # "complete", Goto(r, s),
         row' = row, curves' = curves, order' = order, up' = up, crashes' = crashes,
         faults' \in faults..MaxFaults, holder' \in Runs \cup {NoRun, Other},
         loop' \in Runs \cup {NoRun}, LockFits(r, s), at[r].step \notin {"none", "lost"},
         RowFits(s, at[r].request, row[r]), EvidenceFits(s, row[r], faults'),
         CurvesFit(s, row[r], curves[r], order[r])
  PROVE  Inv'
<1>1. Types
  BY DEF Inv
<1>2. /\ at' \in [Runs -> [step : Steps, request : Requests \cup {NoRequest}]]
      /\ at'[r].step = s /\ at'[r].request = at[r].request
      /\ \A o \in Runs : o # r => at'[o] = at[o]
  BY <1>1, GotoMoves
<1>3. faults \in Nat /\ faults' >= faults /\ faults' \in 0..MaxFaults
  BY <1>1, SomeAssumptions DEF Types
<1>4. Types'
  BY <1>1, <1>2, <1>3 DEF Types
<1>5. Alone(r) /\ Keeps
  BY <1>2, <1>3 DEF Alone, Keeps
<1>6. Refers(r)'
  <2>1. Refers(r)
    BY LiveRun DEF Standing
  <2> QED
    BY <1>2, <1>5, <2>1, BaseKept, ReadsKept DEF Refers
<1>7. Standing(r)'
  BY <1>2, <1>6 DEF Standing
<1> QED
  BY <1>2, <1>4, <1>5, <1>7, Advance, LiveRun

(* A failing store call leaves its trace in the count of faults.           *)
LEMMA FaultCounts ==
  ASSUME Inv, Fault
  PROVE  faults' \in faults..MaxFaults /\ faults' > 0 /\ up' = up /\ crashes' = crashes
BY SomeAssumptions DEF Inv, Types, Fault

LEMMA StandsStill ==
  ASSUME Inv
  PROVE  /\ faults \in faults..MaxFaults /\ faults \in Nat
         /\ holder \in Runs \cup {NoRun, Other} /\ loop \in Runs \cup {NoRun}
         /\ NoRun \in Runs \cup {NoRun, Other}
BY SomeAssumptions DEF Inv, Types

LEMMA LockInv ==
  ASSUME Inv, NEW r \in Runs, PlanAdmission(r) \/ QueryEligibility(r) \/ AcquireLock(r)
  PROVE  Inv'
<1>1. PICK from \in {"plan", "eligibility", "scheduled"}, to \in {"planning", "judging", "locked"} :
        /\ Lock(r, from, to) /\ (from = "scheduled" <=> to = "locked")
  BY DEF PlanAdmission, QueryEligibility, AcquireLock
<1>2. /\ at[r].step = from /\ holder = NoRun /\ holder' = r /\ Goto(r, to)
      /\ row' = row /\ curves' = curves /\ order' = order /\ loop' = loop
      /\ up' = up /\ crashes' = crashes /\ faults' = faults
  BY <1>1 DEF Lock, tableVars, envVars
<1>3. r \in Runs \ Seeded /\ Standing(r)
  BY <1>2, LiveRun
<1>4. RowFits(to, at[r].request, row[r])
  BY <1>1, <1>2, <1>3 DEF Standing, RowFits, Early, Underway
<1>5. EvidenceFits(to, row[r], faults') /\ CurvesFit(to, row[r], curves[r], order[r])
  BY <1>1, <1>2, <1>3 DEF Standing, EvidenceFits, CurvesFit
<1>6. LockFits(r, to)
  BY <1>2 DEF LockFits, Locked
<1> QED
  BY <1>2, <1>3, <1>4, <1>5, <1>6, Walk, StandsStill DEF Steps, Early, Underway

LEMMA PlannedInv ==
  ASSUME Inv, NEW r \in Runs, FixingsFound(r) \/ Planned(r)
  PROVE  Inv'
<1>1. PICK s \in {"eligibility", "admit", "refused"} :
        /\ at[r].step \in {"planning", "judging"} /\ holder' = NoRun /\ Goto(r, s)
        /\ row' = row /\ curves' = curves /\ order' = order /\ loop' = loop
        /\ up' = up /\ crashes' = crashes /\ faults' = faults
        /\ s = "admit" => Admits(at[r].request)
  BY DEF FixingsFound, Planned, tableVars, envVars
<1>2. r \in Runs \ Seeded /\ Standing(r)
  BY <1>1, LiveRun
<1>3. s \in {"eligibility", "admit", "refused"} /\ (s = "admit" => Admits(at[r].request))
  BY <1>1
<1>4. RowFits(s, at[r].request, row[r])
  BY <1>1, <1>2, <1>3 DEF Standing, RowFits, Early, Underway
<1>5. EvidenceFits(s, row[r], faults') /\ CurvesFit(s, row[r], curves[r], order[r])
  BY <1>1, <1>2, <1>3 DEF Standing, EvidenceFits, CurvesFit
<1>6. LockFits(r, s)
  BY <1>1, <1>3 DEF LockFits, Locked
<1> QED
  BY <1>1, <1>2, <1>3, <1>4, <1>5, <1>6, Walk, StandsStill DEF Steps, Early, Underway

LEMMA AdmitRaisesInv ==
  ASSUME Inv, NEW r \in Runs, AdmitRaises(r)
  PROVE  Inv'
<1>1. /\ at[r].step = "admit" /\ Goto(r, "refused") /\ Fault
      /\ row' = row /\ curves' = curves /\ order' = order /\ holder' = holder /\ loop' = loop
  BY DEF AdmitRaises, tableVars
<1>2. r \in Runs \ Seeded /\ Standing(r)
  BY <1>1, LiveRun
<1>3. RowFits("refused", at[r].request, row[r])
  BY <1>1, <1>2 DEF Standing, RowFits, Early, Underway
<1>4. EvidenceFits("refused", row[r], faults') /\ CurvesFit("refused", row[r], curves[r], order[r])
  BY <1>1, <1>2, FaultCounts DEF Standing, EvidenceFits, CurvesFit
<1>5. LockFits(r, "refused")
  BY <1>1 DEF LockFits, Locked
<1> QED
  BY <1>1, <1>2, <1>3, <1>4, <1>5, Walk, FaultCounts, StandsStill DEF Steps, Early, Underway

LEMMA VerifyEvidenceInv ==
  ASSUME Inv, NEW r \in Runs, VerifyEvidence(r)
  PROVE  Inv'
<1>1. /\ at[r].step = "verify"
      /\ row' = row /\ curves' = curves /\ order' = order /\ loop' = loop
      /\ up' = up /\ crashes' = crashes /\ faults' = faults
  BY DEF VerifyEvidence, tableVars, envVars
<1>2. r \in Runs \ Seeded /\ Standing(r)
  BY <1>1, LiveRun
<1>3. row[r].evidence \in Altered \cup {"sound"}
  <2>1. row[r].evidence # "none"
    BY <1>1, <1>2 DEF Standing, RowFits, Underway
  <2> QED
    BY <2>1 DEF Inv, Types, RowType
<1>4. PICK s \in {"solve", "integrity"} :
        /\ Goto(r, s) /\ (s = "solve" => row[r].evidence = "sound" /\ holder' = holder)
        /\ s = "integrity" => row[r].evidence \in Altered /\ holder' = NoRun
  <2>1. CASE row[r].evidence = "sound"
    BY <2>1 DEF VerifyEvidence
  <2>2. CASE row[r].evidence # "sound"
    BY <1>3, <2>2 DEF VerifyEvidence
  <2> QED
    BY <2>1, <2>2
<1>5. RowFits(s, at[r].request, row[r])
  BY <1>1, <1>2, <1>4 DEF Standing, RowFits, Early, Underway
<1>6. EvidenceFits(s, row[r], faults') /\ CurvesFit(s, row[r], curves[r], order[r])
  BY <1>1, <1>2, <1>4 DEF Standing, EvidenceFits, CurvesFit, Altered
<1>7. LockFits(r, s)
  BY <1>1, <1>4 DEF LockFits, Locked
<1>8. holder' \in Runs \cup {NoRun, Other}
  BY <1>4, StandsStill
<1> QED
  BY <1>1, <1>2, <1>4, <1>5, <1>6, <1>7, <1>8, Walk, StandsStill DEF Steps, Early, Underway

LEMMA CallbackRaisesInv ==
  ASSUME Inv, NEW r \in Runs, CallbackRaises(r)
  PROVE  Inv'
<1>1. /\ at[r].step \in {"locked", "verify"} /\ Goto(r, "lifecycle") /\ Fault /\ holder' = NoRun
      /\ row' = row /\ curves' = curves /\ order' = order /\ loop' = loop
  BY DEF CallbackRaises, tableVars
<1>2. r \in Runs \ Seeded /\ Standing(r)
  BY <1>1, LiveRun
<1>3. RowFits("lifecycle", at[r].request, row[r])
  BY <1>1, <1>2 DEF Standing, RowFits, Early, Underway
<1>4. /\ EvidenceFits("lifecycle", row[r], faults')
      /\ CurvesFit("lifecycle", row[r], curves[r], order[r])
  BY <1>1, <1>2, FaultCounts DEF Standing, EvidenceFits, CurvesFit
<1>5. LockFits(r, "lifecycle")
  BY <1>1 DEF LockFits, Locked
<1> QED
  BY <1>1, <1>2, <1>3, <1>4, <1>5, Walk, FaultCounts, StandsStill DEF Steps, Early, Underway

LEMMA SolveRaisesInv ==
  ASSUME Inv, NEW r \in Runs, SolveRaises(r)
  PROVE  Inv'
<1>1. /\ at[r].step = "solve" /\ holder' = NoRun
      /\ row' = row /\ curves' = curves /\ order' = order /\ loop' = loop
      /\ up' = up /\ crashes' = crashes /\ faults' = faults
  BY DEF SolveRaises, tableVars, envVars
<1>2. PICK s \in {"native", "mismatch"} : Goto(r, s)
  BY DEF SolveRaises
<1>3. r \in Runs \ Seeded /\ Standing(r)
  BY <1>1, LiveRun
<1>4. RowFits(s, at[r].request, row[r])
  BY <1>1, <1>2, <1>3 DEF Standing, RowFits, Early, Underway
<1>5. EvidenceFits(s, row[r], faults') /\ CurvesFit(s, row[r], curves[r], order[r])
  BY <1>1, <1>2, <1>3 DEF Standing, EvidenceFits, CurvesFit
<1>6. LockFits(r, s)
  BY <1>1, <1>2 DEF LockFits, Locked
<1> QED
  BY <1>1, <1>2, <1>3, <1>4, <1>5, <1>6, Walk, StandsStill DEF Steps, Early, Underway

LEMMA ProjectionFailsInv ==
  ASSUME Inv, NEW r \in Runs, ProjectionFails(r)
  PROVE  Inv'
<1>1. /\ at[r].step = "project" /\ Goto(r, "native") /\ holder' = holder
      /\ row' = row /\ curves' = curves /\ order' = order /\ loop' = loop
      /\ up' = up /\ crashes' = crashes /\ faults' = faults
  BY DEF ProjectionFails, tableVars, envVars
<1>2. r \in Runs \ Seeded /\ Standing(r)
  BY <1>1, LiveRun
<1>3. RowFits("native", at[r].request, row[r])
  BY <1>1, <1>2 DEF Standing, RowFits, Early, Underway
<1>4. EvidenceFits("native", row[r], faults') /\ CurvesFit("native", row[r], curves[r], order[r])
  BY <1>1, <1>2 DEF Standing, EvidenceFits, CurvesFit
<1>5. LockFits(r, "native")
  BY <1>1 DEF LockFits, Locked
<1> QED
  BY <1>1, <1>2, <1>3, <1>4, <1>5, Walk, StandsStill DEF Steps, Early, Underway

LEMMA TerminalizeRaisesInv ==
  ASSUME Inv, NEW r \in Runs, TerminalizeRaises(r)
  PROVE  Inv'
<1>1. /\ at[r].step \in {"solved", "project", "complete"} /\ Goto(r, "native") /\ Fault
      /\ holder' = holder /\ row' = row /\ curves' = curves /\ order' = order /\ loop' = r
  BY DEF TerminalizeRaises, tableVars
<1>2. r \in Runs \ Seeded /\ Standing(r)
  BY <1>1, LiveRun
<1>3. RowFits("native", at[r].request, row[r])
  BY <1>1, <1>2 DEF Standing, RowFits, Early, Underway
<1>4. EvidenceFits("native", row[r], faults') /\ CurvesFit("native", row[r], curves[r], order[r])
  BY <1>1, <1>2, FaultCounts DEF Standing, EvidenceFits, CurvesFit
<1>5. LockFits(r, "native")
  BY <1>1 DEF LockFits, Locked
<1> QED
  BY <1>1, <1>2, <1>3, <1>4, <1>5, Walk, FaultCounts, StandsStill DEF Steps, Early, Underway

LEMMA FailRaisesInv ==
  ASSUME Inv, NEW r \in Runs, FailRaises(r)
  PROVE  Inv'
<1>1. /\ at[r].step \in {"integrity", "lifecycle", "native", "mismatch"} /\ Fault
      /\ holder' = holder /\ row' = row /\ curves' = curves /\ order' = order
  BY DEF FailRaises, tableVars
<1>2. PICK s \in {"lifecycle", "lost"} :
        /\ Goto(r, s) /\ loop' \in {r, NoRun}
        /\ s = "lifecycle" => at[r].step = "integrity"
  <2>1. CASE at[r].step = "integrity"
    BY <2>1 DEF FailRaises
  <2>2. CASE at[r].step # "integrity"
    BY <2>2 DEF FailRaises
  <2> QED
    BY <2>1, <2>2
<1>3. r \in Runs \ Seeded /\ Standing(r)
  BY <1>1, LiveRun
<1>4. RowFits(s, at[r].request, row[r])
  BY <1>1, <1>2, <1>3 DEF Standing, RowFits, Early, Underway
<1>5. EvidenceFits(s, row[r], faults') /\ CurvesFit(s, row[r], curves[r], order[r])
  BY <1>1, <1>2, <1>3, FaultCounts DEF Standing, EvidenceFits, CurvesFit
<1>6. LockFits(r, s)
  BY <1>1, <1>2 DEF LockFits, Locked
<1> QED
  BY <1>1, <1>2, <1>3, <1>4, <1>5, <1>6, Walk, FaultCounts, StandsStill DEF Steps, Early, Underway

(* A step that moves the row of a run to another phase, or ends it.        *)
LEMMA Turnover ==
  ASSUME Inv, NEW r \in Runs \ Seeded, NEW s \in Steps, Goto(r, s),
         SameBut(r, {"status", "phase", "error"}), row[r].status # "completed",
         curves' \in [Runs -> Seq(CurveType)], \A o \in Runs : o # r => curves'[o] = curves[o],
         order' = order, up' = up, crashes' = crashes, faults' = faults, holder' = holder,
         loop' \in Runs \cup {NoRun}, at[r].step \notin {"none", "lost"},
         at[r].step \in Locked <=> s \in Locked,
         RowFits(s, at[r].request, row'[r]), EvidenceFits(s, row'[r], faults),
         CurvesFit(s, row'[r], curves'[r], order[r]),
         s = "complete" => BaseHolds(MaxDepth - 1, r),
         row'[r].status = "completed" => ReadsWithin(MaxDepth, r)'
  PROVE  Inv'
<1>1. Types
  BY DEF Inv
<1>2. /\ at' \in [Runs -> [step : Steps, request : Requests \cup {NoRequest}]]
      /\ at'[r].step = s /\ at'[r].request = at[r].request
      /\ \A o \in Runs : o # r => at'[o] = at[o]
  BY <1>1, GotoMoves
<1>3. row' \in [Runs -> RowType] /\ \A o \in Runs : o # r => row'[o] = row[o]
  BY DEF SameBut
<1>4. Types'
  BY <1>1, <1>2, <1>3 DEF Types
<1>5. curves[r] = <<>> /\ Refers(r)
  BY LiveRun DEF Standing, CurvesFit
<1>6. Alone(r)
  BY <1>2, <1>3 DEF Alone
<1>7. Keeps
  <2>1. faults' >= faults
    BY <1>1 DEF Types
  <2>2. \A b \in Runs : row[b].status = "completed" => row'[b].status = "completed"
    BY <1>3
  <2>3. \A b \in Runs : curves[b] # <<>> => curves'[b] = curves[b]
    BY <1>5
  <2> QED
    BY <2>1, <2>2, <2>3 DEF Keeps
<1>8. Refers(r)'
  BY <1>2, <1>5, <1>7, BaseKept DEF Refers
<1>9. Standing(r)'
  BY <1>2, <1>8 DEF Standing
<1>10. LockFits(r, s)
  BY DEF LockFits
<1> QED
  BY <1>2, <1>4, <1>6, <1>7, <1>9, <1>10, Advance, LiveRun

LEMMA SameButMore ==
  ASSUME NEW r, SameBut(r, {"phase"}) \/ SameBut(r, {"status", "phase"})
  PROVE  SameBut(r, {"status", "phase", "error"})
BY DEF SameBut

LEMMA MarkSolvingInv ==
  ASSUME Inv, NEW r \in Runs, MarkSolving(r)
  PROVE  Inv'
<1>1. /\ at[r].step = "locked" /\ row' = [row EXCEPT ![r].phase = "solving"]
      /\ curves' = curves /\ order' = order /\ holder' = holder /\ loop' = loop
      /\ up' = up /\ crashes' = crashes /\ faults' = faults
  BY DEF MarkSolving, envVars
<1>2. PICK s \in {"verify", "solve"} :
        Goto(r, s) /\ (s = "verify" <=> row[r].request.kind = "single")
  <2>1. CASE row[r].request.kind = "single"
    BY <2>1 DEF MarkSolving
  <2>2. CASE row[r].request.kind # "single"
    BY <2>2 DEF MarkSolving
  <2> QED
    BY <2>1, <2>2
<1>3. r \in Runs \ Seeded /\ Standing(r)
  BY <1>1, LiveRun
<1>4. SameBut(r, {"phase"}) /\ row'[r].phase = "solving"
  BY <1>1, PhaseMoves DEF Inv, PhaseNames
<1>5. /\ row'[r].request = row[r].request /\ row'[r].evidence = row[r].evidence
      /\ row'[r].order = row[r].order /\ row'[r].status = row[r].status
      /\ row'[r].error = row[r].error
  BY <1>4 DEF SameBut
<1>6. RowFits(s, at[r].request, row'[r])
  BY <1>1, <1>2, <1>3, <1>4, <1>5 DEF Standing, RowFits, Early, Underway
<1>7. s = "solve" => row[r].evidence \notin Altered
  BY <1>1, <1>2, <1>3 DEF Standing, RowFits, Underway, Altered
<1>8. EvidenceFits(s, row'[r], faults) /\ CurvesFit(s, row'[r], curves'[r], order[r])
  BY <1>1, <1>2, <1>3, <1>4, <1>5, <1>7 DEF Standing, EvidenceFits, CurvesFit
<1>9. row[r].status = "running"
  BY <1>1, <1>3 DEF Standing, RowFits, Underway
<1> QED
  BY <1>1, <1>2, <1>3, <1>4, <1>5, <1>6, <1>8, <1>9, Turnover, SameButMore, StandsStill
     DEF Steps, Underway, Locked, Inv, Types

LEMMA SerializeInv ==
  ASSUME Inv, NEW r \in Runs, Serialize(r)
  PROVE  Inv'
<1>1. /\ at[r].step = "solved" /\ row' = [row EXCEPT ![r].phase = "serializing"]
      /\ Goto(r, "project")
      /\ curves' = curves /\ order' = order /\ holder' = holder /\ loop' = r
      /\ up' = up /\ crashes' = crashes /\ faults' = faults
  BY DEF Serialize, envVars
<1>2. r \in Runs \ Seeded /\ Standing(r)
  BY <1>1, LiveRun
<1>3. SameBut(r, {"phase"}) /\ row'[r].phase = "serializing"
  BY <1>1, PhaseMoves DEF Inv, PhaseNames
<1>4. /\ row'[r].request = row[r].request /\ row'[r].evidence = row[r].evidence
      /\ row'[r].order = row[r].order /\ row'[r].status = row[r].status
      /\ row'[r].error = row[r].error
  BY <1>3 DEF SameBut
<1>5. row[r].status = "running" /\ row[r].evidence \notin Altered
  BY <1>1, <1>2 DEF Standing, RowFits, EvidenceFits, Underway
<1>6. RowFits("project", at[r].request, row'[r])
  BY <1>1, <1>2, <1>3, <1>4 DEF Standing, RowFits, Early, Underway
<1>7. /\ EvidenceFits("project", row'[r], faults)
      /\ CurvesFit("project", row'[r], curves'[r], order[r])
  BY <1>1, <1>2, <1>3, <1>4, <1>5 DEF Standing, EvidenceFits, CurvesFit
<1> QED
  BY <1>1, <1>2, <1>3, <1>4, <1>5, <1>6, <1>7, Turnover, SameButMore
     DEF Steps, Underway, Locked, Inv, Types

(* The base of a run that is past its projection reads one curve short.    *)
LEMMA ProjectedBase ==
  ASSUME Inv, NEW r \in Runs \ Seeded, at[r].step = "project", Projects(r)
  PROVE  BaseHolds(MaxDepth - 1, r)
<1>1. Standing(r)
  BY LiveRun
<1>2. row[r].request = at[r].request /\ BaseHolds(MaxDepth, r)
  BY <1>1 DEF Standing, RowFits, Refers, Underway
<1>3. ReadsWithin(MaxDepth - 1, at[r].request.base)
  BY <1>2 DEF Projects
<1> QED
  BY <1>2, <1>3 DEF BaseHolds

LEMMA PersistInv ==
  ASSUME Inv, NEW r \in Runs, Persist(r)
  PROVE  Inv'
<1>1. /\ at[r].step = "project" /\ row' = [row EXCEPT ![r].phase = "persisting"]
      /\ Goto(r, "complete") /\ Projects(r)
      /\ curves' = curves /\ order' = order /\ holder' = holder /\ loop' = loop
      /\ up' = up /\ crashes' = crashes /\ faults' = faults
  BY DEF Persist, envVars
<1>2. r \in Runs \ Seeded /\ Standing(r)
  BY <1>1, LiveRun
<1>3. SameBut(r, {"phase"}) /\ row'[r].phase = "persisting"
  BY <1>1, PhaseMoves DEF Inv, PhaseNames
<1>4. /\ row'[r].request = row[r].request /\ row'[r].evidence = row[r].evidence
      /\ row'[r].order = row[r].order /\ row'[r].status = row[r].status
      /\ row'[r].error = row[r].error
  BY <1>3 DEF SameBut
<1>5. row[r].status = "running" /\ row[r].evidence \notin Altered
  BY <1>1, <1>2 DEF Standing, RowFits, EvidenceFits, Underway
<1>6. RowFits("complete", at[r].request, row'[r])
  BY <1>1, <1>2, <1>3, <1>4 DEF Standing, RowFits, Early, Underway
<1>7. /\ EvidenceFits("complete", row'[r], faults)
      /\ CurvesFit("complete", row'[r], curves'[r], order[r])
  BY <1>1, <1>2, <1>3, <1>4, <1>5 DEF Standing, EvidenceFits, CurvesFit
<1>8. BaseHolds(MaxDepth - 1, r)
  BY <1>1, <1>2, ProjectedBase
<1> QED
  BY <1>1, <1>2, <1>3, <1>4, <1>5, <1>6, <1>7, <1>8, Turnover, SameButMore, StandsStill
     DEF Steps, Underway, Locked, Inv, Types

LEMMA CurvesOfIs ==
  ASSUME NEW q \in Requests
  PROVE  /\ CurvesOf(q) \in Seq(CurveType) /\ Len(CurvesOf(q)) = Len(q.decls)
         /\ CurvesOf(q) # <<>> /\ CurvesOf(q)[1].base = q.base
<1> DEFINE n == Len(q.decls)
           c == CurvesOf(q)
<1>1. n \in Nat /\ n # 0 /\ DOMAIN q.decls = 1..n /\ 1 \in 1..n
  BY FirstDeclaration
<1>2. q.base \in Runs \cup {NoRun}
  BY SomeAssumptions
<1>3. c \in [1..n -> CurveType] /\ \A i \in 1..n : c[i].base = q.base
  BY <1>1, <1>2 DEF CurvesOf, CurveType
<1> HIDE DEF n, c
<1>4. c \in Seq(CurveType)
  BY <1>1, <1>3
<1>5. Len(c) = n
  BY <1>1, <1>3, <1>4, LenProperties
<1>6. c # <<>>
  BY <1>1, <1>5, EmptySeq
<1> QED
  BY <1>1, <1>3, <1>4, <1>5, <1>6 DEF n, c

LEMMA CompleteInv ==
  ASSUME Inv, NEW r \in Runs, Complete(r)
  PROVE  Inv'
<1>1. /\ at[r].step = "complete" /\ Goto(r, "done")
      /\ row' = [row EXCEPT ![r].status = "completed", ![r].phase = "finished"]
      /\ curves' = [curves EXCEPT ![r] = CurvesOf(row[r].request)]
      /\ order' = order /\ holder' = holder /\ loop' = NoRun
      /\ up' = up /\ crashes' = crashes /\ faults' = faults
  BY DEF Complete, envVars
<1>2. r \in Runs \ Seeded /\ Standing(r)
  BY <1>1, LiveRun
<1> DEFINE q == at[r].request
<1>3. q \in Requests /\ row[r].request = q /\ BaseHolds(MaxDepth - 1, r)
  BY <1>1, <1>2 DEF Standing, RowFits, Refers, Underway
<1>4. /\ SameBut(r, {"status", "phase"})
      /\ row'[r].phase = "finished" /\ row'[r].status = "completed"
  BY <1>1, CompleteMoves DEF Inv
<1>5. /\ row'[r].request = row[r].request /\ row'[r].evidence = row[r].evidence
      /\ row'[r].order = row[r].order
  BY <1>4 DEF SameBut
<1>6. /\ curves' \in [Runs -> Seq(CurveType)] /\ curves'[r] = CurvesOf(q)
      /\ \A o \in Runs : o # r => curves'[o] = curves[o]
  BY <1>1, <1>3, CurvesOfIs DEF Inv, Types
<1>7. /\ row[r].status = "running" /\ row[r].evidence \notin Altered /\ curves[r] = <<>>
      /\ row[r].error # "LIFECYCLE_TRANSITION_FAILED" \/ faults > 0
  BY <1>1, <1>2 DEF Standing, RowFits, EvidenceFits, CurvesFit, Underway
<1>8. RowFits("done", q, row'[r])
  BY <1>1, <1>2, <1>3, <1>4, <1>5 DEF Standing, RowFits, Early, Underway
<1>9. EvidenceFits("done", row'[r], faults)
  <2>1. row'[r].error = row[r].error
    BY <1>4 DEF SameBut
  <2> QED
    BY <1>4, <1>5, <1>7, <2>1 DEF EvidenceFits
<1>10. CurvesFit("done", row'[r], curves'[r], order[r])
  BY <1>1, <1>2, <1>3, <1>4, <1>5, <1>6, CurvesOfIs DEF Standing, CurvesFit
<1>11. ReadsWithin(MaxDepth, r)'
  <2>1. PICK b \in Runs \cup {NoRun} : b = q.base
    BY <1>3, SomeAssumptions
  <2>2. ReadsWithin(MaxDepth - 1, b)
    BY <1>3, <2>1 DEF BaseHolds, ReadsWithin
  <2>3. Keeps
    BY <1>1, <1>4, <1>6, <1>7 DEF Keeps, SameBut, Inv, Types
  <2>4. ReadsWithin(MaxDepth - 1, b)'
    BY <2>2, <2>3, ReadsKept
  <2>5. curves'[r] # <<>> /\ curves'[r][1].base = b
    BY <1>3, <1>6, <2>1, CurvesOfIs
  <2>6. ReadsOn'
    BY ReadsThrough, PTL
  <2> QED
    BY <2>4, <2>5, <2>6, SomeAssumptions DEF ReadsOn
<1> QED
  BY <1>1, <1>2, <1>4, <1>6, <1>7, <1>8, <1>9, <1>10, <1>11, Turnover, SameButMore
     DEF Steps, Underway, Locked

LEMMA FailureInv ==
  ASSUME Inv, NEW r \in Runs \ Seeded, NEW e \in Errors, Fails(r, e), Goto(r, "done"),
         at[r].step \in Underway \ Locked,
         row[r].evidence \in Altered =>
           e \in {row[r].evidence, "LIFECYCLE_TRANSITION_FAILED", "SERVER_RESTARTED"},
         e = "LIFECYCLE_TRANSITION_FAILED" => faults > 0,
         order' = order, holder' = holder, loop' = NoRun,
         up' = up, crashes' = crashes, faults' = faults
  PROVE  Inv'
<1>1. Standing(r) /\ Types
  BY LiveRun DEF Inv
<1>2. /\ SameBut(r, {"status", "phase", "error"})
      /\ row'[r].phase = "finished" /\ row'[r].status = "failed" /\ row'[r].error = e
      /\ curves' = curves
  BY <1>1, FailMoves
<1>3. /\ row'[r].request = row[r].request /\ row'[r].evidence = row[r].evidence
      /\ row'[r].order = row[r].order
  BY <1>2 DEF SameBut
<1>4. row[r].status = "running" /\ curves[r] = <<>>
  BY <1>1 DEF Standing, RowFits, CurvesFit
<1>5. RowFits("done", at[r].request, row'[r])
  BY <1>1, <1>2, <1>3, <1>4 DEF Standing, RowFits, Early, Underway
<1>6. EvidenceFits("done", row'[r], faults) /\ CurvesFit("done", row'[r], curves'[r], order[r])
  BY <1>2, <1>3, <1>4 DEF EvidenceFits, CurvesFit
<1> QED
  BY <1>1, <1>2, <1>4, <1>5, <1>6, Turnover DEF Steps, Underway, Locked, Types

LEMMA OversizedInv ==
  ASSUME Inv, NEW r \in Runs, Oversized(r)
  PROVE  Inv'
<1>1. /\ at[r].step = "project" /\ Fails(r, "RESPONSE_LIMIT_EXCEEDED") /\ Goto(r, "done")
      /\ order' = order /\ holder' = holder /\ loop' = NoRun
      /\ up' = up /\ crashes' = crashes /\ faults' = faults
  BY DEF Oversized, envVars
<1>2. r \in Runs \ Seeded /\ Standing(r)
  BY <1>1, LiveRun
<1>3. row[r].evidence \notin Altered
  BY <1>1, <1>2 DEF Standing, EvidenceFits
<1> QED
  BY <1>1, <1>2, <1>3, FailureInv DEF Underway, Locked, Errors

LEMMA FailRunInv ==
  ASSUME Inv, NEW r \in Runs, FailRun(r)
  PROVE  Inv'
<1>1. /\ at[r].step \in {"integrity", "lifecycle", "native", "mismatch"}
      /\ Fails(r, ErrorOf(r)) /\ Goto(r, "done")
      /\ order' = order /\ holder' = holder /\ loop' = NoRun
      /\ up' = up /\ crashes' = crashes /\ faults' = faults
  BY DEF FailRun, envVars
<1>2. r \in Runs \ Seeded /\ EvidenceFits(at[r].step, row[r], faults)
  BY <1>1, LiveRun DEF Standing
<1>3. CASE at[r].step = "integrity"
  <2>1. Fails(r, row[r].evidence) /\ row[r].evidence \in Altered
    BY <1>1, <1>2, <1>3 DEF ErrorOf, EvidenceFits
  <2> QED
    BY <1>1, <1>2, <1>3, <2>1, FailureInv DEF Underway, Locked, Errors, Altered
<1>4. CASE at[r].step = "lifecycle"
  <2>1. Fails(r, "LIFECYCLE_TRANSITION_FAILED") /\ faults > 0
    BY <1>1, <1>2, <1>4 DEF ErrorOf, EvidenceFits
  <2> QED
    BY <1>1, <1>2, <1>4, <2>1, FailureInv DEF Underway, Locked, Errors
<1>5. CASE at[r].step = "native"
  <2>1. Fails(r, "NATIVE_CALIBRATION_FAILED") /\ row[r].evidence \notin Altered
    BY <1>1, <1>2, <1>5 DEF ErrorOf, EvidenceFits
  <2> QED
    BY <1>1, <1>2, <1>5, <2>1, FailureInv DEF Underway, Locked, Errors
<1>6. CASE at[r].step = "mismatch"
  <2>1. Fails(r, "NATIVE_KNOT_PLAN_MISMATCH") /\ row[r].evidence \notin Altered
    BY <1>1, <1>2, <1>6 DEF ErrorOf, EvidenceFits
  <2> QED
    BY <1>1, <1>2, <1>6, <2>1, FailureInv DEF Underway, Locked, Errors
<1> QED
  BY <1>1, <1>3, <1>4, <1>5, <1>6

LEMMA ReconcileInv ==
  ASSUME Inv, NEW r \in Runs, Reconcile(r)
  PROVE  Inv'
<1>1. /\ row[r].status = "running" /\ Fails(r, "SERVER_RESTARTED")
      /\ at' = at /\ order' = order /\ holder' = holder /\ loop' = loop
      /\ up' = up /\ crashes' = crashes /\ faults' = faults
  BY DEF Reconcile, taskVars, envVars
<1>2. Types /\ up # TRUE
  BY DEF Inv, Reconcile
<1>3. r \in Runs \ Seeded
  BY <1>1 DEF Inv, SeededStay, SeededRow, NoRow
<1>4. Standing(r) /\ at[r].step \notin Early
  BY <1>1, <1>3, LiveRun DEF Standing, RowFits
<1>5. at[r].step = "lost"
  BY <1>2, <1>4, LiveRun DEF Early
<1>6. /\ SameBut(r, {"status", "phase", "error"})
      /\ row'[r].phase = "finished" /\ row'[r].status = "failed"
      /\ row'[r].error = "SERVER_RESTARTED" /\ curves' = curves
  BY <1>1, <1>2, FailMoves DEF Errors
<1>7. /\ row'[r].request = row[r].request /\ row'[r].evidence = row[r].evidence
      /\ row'[r].order = row[r].order
      /\ row' \in [Runs -> RowType] /\ \A o \in Runs : o # r => row'[o] = row[o]
  BY <1>6 DEF SameBut
<1>8. RowFits("lost", at[r].request, row'[r])
  BY <1>1, <1>4, <1>5, <1>6, <1>7 DEF Standing, RowFits, Early, Underway
<1>9. EvidenceFits("lost", row'[r], faults) /\ CurvesFit("lost", row'[r], curves'[r], order[r])
  BY <1>1, <1>4, <1>6, <1>7 DEF Standing, EvidenceFits, CurvesFit
<1>10. Types'
  BY <1>1, <1>2, <1>6, <1>7 DEF Types
<1>11. Alone(r)
  BY <1>1, <1>6, <1>7 DEF Alone
<1>12. Keeps
  <2>1. faults' >= faults
    BY <1>1, <1>2 DEF Types
  <2>2. \A b \in Runs : row[b].status = "completed" => row'[b].status = "completed"
    BY <1>1, <1>7
  <2> QED
    BY <1>6, <2>1, <2>2 DEF Keeps
<1>13. Refers(r)'
  BY <1>1, <1>4, <1>5, <1>6, <1>12, BaseKept DEF Standing, Refers
<1>14. Standing(r)'
  BY <1>1, <1>5, <1>8, <1>9, <1>13 DEF Standing
<1>15. LockFits(r, at[r].step)
  BY <1>1 DEF LockFits
<1> QED
  BY <1>1, <1>3, <1>10, <1>11, <1>12, <1>14, <1>15, Advance

LEMMA EvidenceMoves ==
  ASSUME Types, NEW r \in Runs, NEW e \in Altered, row' = [row EXCEPT ![r].evidence = e]
  PROVE  /\ row' \in [Runs -> RowType]
         /\ \A o \in Runs : o # r => row'[o] = row[o]
         /\ row'[r].evidence = e /\ row'[r].request = row[r].request
         /\ row'[r].status = row[r].status /\ row'[r].phase = row[r].phase
         /\ row'[r].error = row[r].error /\ row'[r].order = row[r].order
<1> DEFINE x == row[r]
           y == [x EXCEPT !.evidence = e]
<1>1. row \in [Runs -> RowType] /\ x \in RowType
  BY DEF Types
<1>2. y \in RowType /\ y.evidence = e /\ y.status = x.status /\ y.request = x.request
      /\ y.phase = x.phase /\ y.error = x.error /\ y.order = x.order
  <2> HIDE DEF x
  <2> QED
    BY <1>1 DEF RowType
<1>3. row' = [row EXCEPT ![r] = y]
  OBVIOUS
<1> HIDE DEF y
<1> QED
  BY <1>1, <1>2, <1>3

LEMMA TamperInv ==
  ASSUME Inv, NEW r \in Runs, NEW e \in Altered, Tamper(r, e)
  PROVE  Inv'
<1>1. /\ row[r].evidence = "sound" /\ row[r].phase = "queued"
      /\ row' = [row EXCEPT ![r].evidence = e] /\ curves' = curves
      /\ at' = at /\ order' = order /\ holder' = holder /\ loop' = loop
      /\ up' = up /\ crashes' = crashes /\ faults' = faults
  BY DEF Tamper, taskVars, envVars
<1>2. Types
  BY DEF Inv
<1>3. r \in Runs \ Seeded
  BY <1>1 DEF Inv, SeededStay, SeededRow, NoRow
<1>4. Standing(r)
  BY <1>3, LiveRun
<1>5. /\ row' \in [Runs -> RowType]
      /\ \A o \in Runs : o # r => row'[o] = row[o]
      /\ row'[r].evidence = e /\ row'[r].request = row[r].request
      /\ row'[r].status = row[r].status /\ row'[r].phase = row[r].phase
      /\ row'[r].error = row[r].error /\ row'[r].order = row[r].order
  BY <1>1, <1>2, EvidenceMoves
<1>6. RowFits(at[r].step, at[r].request, row'[r])
  BY <1>1, <1>4, <1>5 DEF Standing, RowFits, Altered
<1>7. row[r].status = "running"
  BY <1>1, <1>2, <1>4 DEF Standing, RowFits, Types, RowType
<1>8. at[r].step \notin {"solve", "native", "mismatch", "solved", "project", "complete"}
  BY <1>1, <1>4 DEF Standing, RowFits
<1>9. /\ EvidenceFits(at[r].step, row'[r], faults)
      /\ CurvesFit(at[r].step, row'[r], curves'[r], order[r])
  BY <1>1, <1>4, <1>5, <1>7, <1>8 DEF Standing, EvidenceFits, CurvesFit
<1>10. Types'
  BY <1>1, <1>2, <1>5 DEF Types
<1>11. Alone(r)
  BY <1>1, <1>5 DEF Alone
<1>12. Keeps
  BY <1>1, <1>2, <1>5 DEF Keeps, Types
<1>13. Refers(r)'
  BY <1>1, <1>4, <1>7, <1>5, <1>12, BaseKept DEF Standing, Refers
<1>14. Standing(r)'
  BY <1>1, <1>6, <1>9, <1>13 DEF Standing
<1>15. LockFits(r, at[r].step)
  BY <1>1 DEF LockFits
<1> QED
  BY <1>1, <1>3, <1>10, <1>11, <1>12, <1>14, <1>15, Advance

LEMMA SubmitInv ==
  ASSUME Inv, NEW r \in Runs, NEW q \in Requests, Submit(r, q)
  PROVE  Inv'
<1>1. /\ up = TRUE /\ at[r].step = "none" /\ Valid(q) /\ ReferencesHold(q)
      /\ at' = [at EXCEPT ![r] = [step |-> "plan", request |-> q]]
      /\ row' = row /\ curves' = curves /\ order' = order /\ holder' = holder /\ loop' = loop
      /\ up' = up /\ crashes' = crashes /\ faults' = faults
  BY DEF Submit, tableVars, envVars, Inv, Types
<1>2. Types
  BY DEF Inv
<1>3. r \in Runs \ Seeded /\ Standing(r)
  BY <1>1, LiveRun
<1>4. /\ at' \in [Runs -> [step : Steps, request : Requests \cup {NoRequest}]]
      /\ at'[r].step = "plan" /\ at'[r].request = q
      /\ \A o \in Runs : o # r => at'[o] = at[o]
  BY <1>1, <1>2 DEF Types, Steps, Early
<1>5. row[r].status = "absent"
  BY <1>1, <1>3 DEF Standing, RowFits, Early
<1>6. RowFits("plan", q, row[r])
  BY <1>3, <1>5 DEF Standing, RowFits, Early, Underway
<1>7. EvidenceFits("plan", row[r], faults) /\ CurvesFit("plan", row[r], curves[r], order[r])
  BY <1>1, <1>3 DEF Standing, EvidenceFits, CurvesFit
<1>8. Types'
  BY <1>1, <1>2, <1>4 DEF Types
<1>9. Alone(r) /\ Keeps
  BY <1>1, <1>2, <1>4 DEF Alone, Keeps, Types
<1>10. ASSUME NEW b \in Runs, q.base = b
       PROVE  row'[b].status = "completed" /\ ReadsWithin(MaxDepth, b)'
  <2>1. Referable(b)
    BY <1>1, <1>10, SomeAssumptions DEF ReferencesHold
  <2>2. ReadsWithin(MaxDepth, b)'
    BY <1>9, <2>1, ReadsKept DEF Referable
  <2> QED
    BY <1>1, <2>1, <2>2 DEF Referable
<1>11. BaseHolds(MaxDepth, r)'
  BY <1>4, <1>10 DEF BaseHolds
<1>12. Refers(r)'
  BY <1>1, <1>4, <1>5, <1>11 DEF Refers
<1>13. Standing(r)'
  BY <1>1, <1>4, <1>6, <1>7, <1>12 DEF Standing
<1>14. LockFits(r, "plan")
  BY <1>1 DEF LockFits, Locked
<1> QED
  BY <1>1, <1>3, <1>4, <1>8, <1>9, <1>13, <1>14, Advance

(* The row an admission stores.                                            *)
LEMMA RowOfIs ==
  ASSUME NEW q \in Requests
  PROVE  /\ RowOf(q) \in RowType
         /\ RowOf(q).status = "running" /\ RowOf(q).phase = "queued" /\ RowOf(q).request = q
         /\ RowOf(q).error = "none" /\ RowOf(q).order = StoredOrder(q)
         /\ RowOf(q).evidence \in {"none", "sound"}
         /\ RowOf(q).evidence = "none" <=> q.kind # "single"
<1> DEFINE e == IF q.kind = "single" THEN "sound" ELSE "none"
           o == StoredOrder(q)
           z == NoRow
           x == [[[[[z EXCEPT !.status = "running"] EXCEPT !.phase = "queued"]
                   EXCEPT !.request = q] EXCEPT !.evidence = e] EXCEPT !.order = o]
<1>1. e \in {"none", "sound"} /\ (e = "none" <=> q.kind # "single")
  OBVIOUS
<1>2. o \in {<<>>} \cup {StoredOrder(p) : p \in Requests}
  OBVIOUS
<1>3. z \in RowType /\ z.error = "none"
  BY DEF NoRow, RowType, PhaseNames, Errors
<1>4. RowOf(q) = x
  <2> HIDE DEF z
  <2> QED
    BY DEF RowOf, StoredOrder, z
<1> HIDE DEF e, o, z
<1>5. /\ x \in RowType /\ x.status = "running" /\ x.phase = "queued" /\ x.request = q
      /\ x.error = "none" /\ x.order = o /\ x.evidence = e
  BY <1>1, <1>2, <1>3 DEF RowType, PhaseNames
<1> QED
  BY <1>1, <1>4, <1>5 DEF o

LEMMA AdmitInv ==
  ASSUME Inv, NEW r \in Runs, Admit(r)
  PROVE  Inv'
<1> DEFINE q == at[r].request
<1>1. /\ at[r].step = "admit" /\ row' = [row EXCEPT ![r] = RowOf(q)] /\ Goto(r, "scheduled")
      /\ curves' = curves /\ order' = order /\ holder' = holder /\ loop' = loop
      /\ up' = up /\ crashes' = crashes /\ faults' = faults
  BY DEF Admit, envVars
<1>2. Types
  BY DEF Inv
<1>3. r \in Runs \ Seeded /\ Standing(r)
  BY <1>1, LiveRun
<1>4. q \in Requests /\ Admits(q) /\ row[r].status = "absent" /\ curves[r] = <<>>
  BY <1>1, <1>3 DEF Standing, Refers, RowFits, CurvesFit, Early
<1>5. /\ at' \in [Runs -> [step : Steps, request : Requests \cup {NoRequest}]]
      /\ at'[r].step = "scheduled" /\ at'[r].request = q
      /\ \A o \in Runs : o # r => at'[o] = at[o]
  BY <1>1, <1>2, GotoMoves DEF Steps, Underway
<1>6. /\ row' \in [Runs -> RowType] /\ row'[r] = RowOf(q)
      /\ \A o \in Runs : o # r => row'[o] = row[o]
  BY <1>1, <1>2, <1>4, RowOfIs DEF Types
<1> HIDE DEF q
<1>7. RowFits("scheduled", q, row'[r])
  BY <1>4, <1>6, RowOfIs DEF RowFits, Early, Underway
<1>8. /\ EvidenceFits("scheduled", row'[r], faults)
      /\ CurvesFit("scheduled", row'[r], curves'[r], order[r])
  BY <1>1, <1>4, <1>6, RowOfIs DEF EvidenceFits, CurvesFit, Altered
<1>9. Types'
  BY <1>1, <1>2, <1>5, <1>6 DEF Types
<1>10. Alone(r) /\ Keeps
  BY <1>1, <1>2, <1>4, <1>5, <1>6 DEF Alone, Keeps, Types
<1>11. Refers(r)'
  <2>1. at'[r].request = at[r].request
    BY <1>5 DEF q
  <2>2. row'[r].status # "completed"
    BY <1>4, <1>6, RowOfIs
  <2> QED
    BY <1>1, <1>3, <1>5, <1>10, <2>1, <2>2, BaseKept DEF Standing, Refers
<1>12. Standing(r)'
  BY <1>1, <1>5, <1>7, <1>8, <1>11 DEF Standing
<1>13. LockFits(r, "scheduled")
  BY <1>1 DEF LockFits, Locked
<1> QED
  BY <1>1, <1>3, <1>5, <1>9, <1>10, <1>12, <1>13, Advance, LiveRun
(* A single-curve run was admitted with an unambiguous order, so the order *)
(* the solver returns is the one that was stored.                          *)
LEMMA SolveInv ==
  ASSUME Inv, NEW r \in Runs, Solve(r)
  PROVE  Inv'
<1> DEFINE q == at[r].request
<1>1. /\ at[r].step = "solve" /\ holder' = NoRun /\ Goto(r, "solved")
      /\ row' = row /\ curves' = curves /\ loop' = loop
      /\ up' = up /\ crashes' = crashes /\ faults' = faults
  BY DEF Solve, tableVars, envVars
<1>2. Types
  BY DEF Inv
<1>3. r \in Runs \ Seeded /\ Standing(r)
  BY <1>1, LiveRun
<1>4. q \in Requests /\ row[r].request = q /\ Admits(q) /\ row[r].order = StoredOrder(q)
  BY <1>1, <1>3 DEF Standing, Refers, RowFits, Underway
<1>5. PICK p \in IF q.kind = "single" THEN SolverOrders(q.decls[1]) ELSE {<<>>} :
        order' = [order EXCEPT ![r] = p]
  BY <1>4 DEF Solve
<1> HIDE DEF q
<1>6. p = StoredOrder(q) /\ p \in Solved
  <2>1. CASE q.kind = "single"
    <3>1. p \in SolverOrders(q.decls[1])
      BY <1>5, <2>1
    <3>2. 1 \in DOMAIN q.decls /\ q.decls[1].instruments \in Seq(Instrument)
      BY <1>4, FirstDeclaration DEF IsDeclaration
    <3>3. Unambiguous(q.decls[1])
      BY <1>4, <3>2 DEF Admits
    <3>4. CanonicalOrder(q.decls[1]) = p
      BY <3>1, <3>2, <3>3, SolverOrderIsCanonical
    <3> QED
      BY <1>4, <2>1, <3>1, <3>4 DEF StoredOrder, Solved
  <2>2. CASE q.kind # "single"
    BY <1>5, <2>2 DEF StoredOrder, Solved
  <2> QED
    BY <2>1, <2>2
<1>7. /\ at' \in [Runs -> [step : Steps, request : Requests \cup {NoRequest}]]
      /\ at'[r].step = "solved" /\ at'[r].request = at[r].request
      /\ \A o \in Runs : o # r => at'[o] = at[o]
  BY <1>1, <1>2, GotoMoves DEF Steps, Underway
<1>8. /\ order' \in [Runs -> Solved] /\ order'[r] = p
      /\ \A o \in Runs : o # r => order'[o] = order[o]
  BY <1>2, <1>5, <1>6 DEF Types
<1>9. Types'
  BY <1>1, <1>2, <1>7, <1>8, SomeAssumptions DEF Types
<1>10. Alone(r) /\ Keeps
  BY <1>1, <1>2, <1>7, <1>8 DEF Alone, Keeps, Types
<1>11. RowFits("solved", at[r].request, row[r])
  BY <1>1, <1>3 DEF Standing, RowFits, Early, Underway
<1>12. EvidenceFits("solved", row[r], faults)
  BY <1>1, <1>3 DEF Standing, EvidenceFits
<1>13. CurvesFit("solved", row[r], curves[r], order'[r])
  BY <1>1, <1>3, <1>4, <1>6, <1>8 DEF Standing, CurvesFit
<1>14. Refers(r)'
  BY <1>1, <1>3, <1>7, <1>10, BaseKept, ReadsKept DEF Standing, Refers
<1>15. Standing(r)'
  BY <1>1, <1>7, <1>11, <1>12, <1>13, <1>14 DEF Standing
<1>16. LockFits(r, "solved")
  BY <1>1 DEF LockFits, Locked
<1> QED
  BY <1>1, <1>3, <1>7, <1>9, <1>10, <1>15, <1>16, Advance, LiveRun
-----------------------------------------------------------------------------
(* The steps of the environment.                                           *)

LEMMA EnvironmentKeepsInv ==
  ASSUME Inv, Types', row' = row, curves' = curves, at' = at, order' = order,
         faults' = faults, Stopped', LockHeld'
  PROVE  Inv'
<1>1. Types
  BY DEF Inv
<1>2. Keeps
  BY <1>1 DEF Keeps, Types
<1>3. ASSUME NEW o \in Runs \ Seeded PROVE Standing(o)'
  BY <1>1, <1>2, OthersStand DEF Inv, AllStand
<1>4. SeededStay' /\ AllStand'
  BY <1>3 DEF Inv, SeededStay, AllStand
<1>5. OneNativeCallAtATime'
  BY <1>4, LockIsEnough, PTL
<1> QED
  BY <1>4, <1>5 DEF Inv

LEMMA OtherInv ==
  ASSUME Inv, OtherTakesLock \/ OtherReleasesLock
  PROVE  Inv'
<1>1. /\ row' = row /\ curves' = curves /\ at' = at /\ order' = order /\ loop' = loop
      /\ up' = up /\ crashes' = crashes /\ faults' = faults
      /\ {holder, holder'} = {NoRun, Other}
  BY DEF OtherTakesLock, OtherReleasesLock, tableVars, envVars
<1>2. Types'
  BY <1>1 DEF Inv, Types
<1>3. Stopped'
  BY <1>1 DEF Inv, Stopped
<1>4. LockHeld'
  BY <1>1, LiveRun, SomeAssumptions DEF LockHeld
<1> QED
  BY <1>1, <1>2, <1>3, <1>4, EnvironmentKeepsInv

LEMMA ServeInv ==
  ASSUME Inv, Serve
  PROVE  Inv'
<1>1. /\ row' = row /\ curves' = curves /\ at' = at /\ order' = order /\ loop' = loop
      /\ up' = TRUE /\ crashes' = crashes /\ faults' = faults /\ holder' = holder
  BY DEF Serve, tableVars, taskVars
<1>2. Types'
  BY <1>1 DEF Inv, Types
<1>3. Stopped'
  BY <1>1 DEF Stopped
<1>4. LockHeld'
  BY <1>1, LiveRun DEF LockHeld
<1> QED
  BY <1>1, <1>2, <1>3, <1>4, EnvironmentKeepsInv

LEMMA CrashInv ==
  ASSUME Inv, Crash
  PROVE  Inv'
<1>1. /\ row' = row /\ curves' = curves /\ order' = [r \in Runs |-> <<>>]
      /\ holder' = NoRun /\ loop' = NoRun
      /\ up' = FALSE /\ crashes < MaxCrashes /\ crashes' = crashes + 1 /\ faults' = faults
      /\ at' = [r \in Runs |-> IF at[r].step = "none" THEN at[r] ELSE [at[r] EXCEPT !.step = "lost"]]
  BY DEF Crash, tableVars
<1>2. Types
  BY DEF Inv
<1>3. /\ at' \in [Runs -> [step : Steps, request : Requests \cup {NoRequest}]]
      /\ \A r \in Runs : /\ at[r].step = "none" => at'[r] = at[r]
                         /\ at[r].step # "none" => at'[r].step = "lost"
                         /\ at'[r].request = at[r].request
  <2>1. ASSUME NEW r \in Runs
        PROVE  /\ at'[r] \in [step : Steps, request : Requests \cup {NoRequest}]
               /\ at[r].step = "none" => at'[r] = at[r]
               /\ at[r].step # "none" => at'[r].step = "lost"
               /\ at'[r].request = at[r].request
    <3> DEFINE a == at[r]
    <3>1. a \in [step : Steps, request : Requests \cup {NoRequest}]
      BY <1>2 DEF Types
    <3>2. at'[r] = IF a.step = "none" THEN a ELSE [a EXCEPT !.step = "lost"]
      BY <1>1
    <3> HIDE DEF a
    <3>3. /\ at'[r] \in [step : Steps, request : Requests \cup {NoRequest}]
          /\ a.step = "none" => at'[r] = a
          /\ a.step # "none" => at'[r].step = "lost"
          /\ at'[r].request = a.request
      <4>1. CASE a.step = "none"
        BY <3>1, <3>2, <4>1
      <4>2. CASE a.step # "none"
        BY <3>1, <3>2, <4>2 DEF Steps
      <4> QED
        BY <4>1, <4>2
    <3> QED
      BY <3>3 DEF a
  <2>2. at' = [r \in Runs |-> at'[r]]
    BY <1>1
  <2> QED
    BY <2>1, <2>2
<1>4. Types'
  <2>1. crashes' \in 0..MaxCrashes
    BY <1>1, <1>2, SomeAssumptions DEF Types
  <2>2. order' \in [Runs -> Solved]
    BY <1>1 DEF Solved
  <2> QED
    BY <1>1, <1>2, <1>3, <2>1, <2>2 DEF Types
<1>5. Keeps
  BY <1>1, <1>2 DEF Keeps, Types
<1>6. ASSUME NEW r \in Runs \ Seeded PROVE Standing(r)'
  <2>1. Standing(r)
    BY LiveRun
  <2> DEFINE s == at'[r].step
  <2>2. s \in {"none", "lost"} /\ (s = "none" => at[r].step = "none")
    BY <1>3
  <2>3. RowFits(s, at'[r].request, row'[r])
    BY <1>1, <1>3, <2>1, <2>2 DEF Standing, RowFits, Early, Underway
  <2>4. EvidenceFits(s, row'[r], faults')
    BY <1>1, <2>1, <2>2 DEF Standing, EvidenceFits
  <2>5. CurvesFit(s, row'[r], curves'[r], order'[r])
    BY <1>1, <2>1, <2>2 DEF Standing, CurvesFit
  <2>6. Refers(r)'
    BY <1>1, <1>3, <1>5, <2>1, <2>2, BaseKept, ReadsKept DEF Standing, Refers
  <2> QED
    BY <2>3, <2>4, <2>5, <2>6 DEF Standing
<1>7. SeededStay'
  BY <1>1, <1>3, SomeAssumptions DEF Inv, SeededStay
<1>8. Stopped'
  BY <1>3 DEF Stopped
<1>9. LockHeld'
  BY <1>1, <1>3, SomeAssumptions DEF LockHeld, Locked
<1>10. AllStand'
  BY <1>6 DEF AllStand
<1>11. OneNativeCallAtATime'
  BY <1>7, <1>9, <1>10, LockIsEnough, PTL
<1> QED
  BY <1>4, <1>7, <1>8, <1>10, <1>11 DEF Inv

(* The invariant holds when the server starts for the first time.          *)
LEMMA InitInv == Init => Inv
<1> SUFFICES ASSUME Init PROVE Inv
  OBVIOUS
<1> DEFINE seed == << [role |-> "discount", base |-> NoRun] >>
<1>1. NoRow \in RowType /\ SeededRow \in RowType
  <2>1. NoRow \in RowType
    BY DEF NoRow, RowType, PhaseNames, Errors
  <2> DEFINE z == NoRow
             y == [[z EXCEPT !.status = "completed"] EXCEPT !.phase = "finished"]
  <2>2. SeededRow = y
    BY <2>1 DEF SeededRow
  <2> HIDE DEF z
  <2>3. y \in RowType
    BY <2>1 DEF RowType, PhaseNames, z
  <2> QED
    BY <2>1, <2>2, <2>3
<1>2. seed \in Seq(CurveType) /\ <<>> \in Seq(CurveType)
  <2>1. [role |-> "discount", base |-> NoRun] \in CurveType
    BY DEF CurveType
  <2> QED
    BY <2>1
<1>3. /\ \A r \in Runs : row[r] = IF r \in Seeded THEN SeededRow ELSE NoRow
      /\ \A r \in Runs : curves[r] = IF r \in Seeded THEN seed ELSE <<>>
      /\ \A r \in Runs :
           at[r] = [step |-> IF r \in Seeded THEN "done" ELSE "none", request |-> NoRequest]
      /\ \A r \in Runs : order[r] = <<>>
      /\ DOMAIN row = Runs /\ row = [r \in Runs |-> row[r]]
      /\ curves = [r \in Runs |-> curves[r]] /\ at = [r \in Runs |-> at[r]]
      /\ order = [r \in Runs |-> order[r]]
      /\ holder = NoRun /\ loop = NoRun /\ up = TRUE /\ crashes = 0 /\ faults = 0
  BY DEF Init
<1> HIDE DEF seed
<1>4. Types
  <2>1. row \in [Runs -> RowType]
    BY <1>1, <1>3
  <2>2. curves \in [Runs -> Seq(CurveType)]
    BY <1>2, <1>3
  <2>3. at \in [Runs -> [step : Steps, request : Requests \cup {NoRequest}]]
    BY <1>3 DEF Steps, Early
  <2>4. order \in [Runs -> Solved]
    BY <1>3 DEF Solved
  <2> QED
    BY <1>3, <2>1, <2>2, <2>3, <2>4, SomeAssumptions DEF Types
<1>5. SeededStay
  BY <1>3, SomeAssumptions DEF SeededStay, seed
<1>6. ASSUME NEW r \in Runs \ Seeded PROVE Standing(r)
  <2>1. row[r] = NoRow /\ curves[r] = <<>> /\ order[r] = <<>> /\ at[r].step = "none"
    BY <1>3
  <2>2. /\ NoRow.status = "absent" /\ NoRow.phase = "absent" /\ NoRow.evidence = "none"
        /\ NoRow.error = "none"
    BY DEF NoRow
  <2>3. RowFits("none", at[r].request, NoRow)
    BY <2>2 DEF RowFits, Early, Underway
  <2>4. EvidenceFits("none", NoRow, faults) /\ CurvesFit("none", NoRow, <<>>, <<>>)
    BY <2>2 DEF EvidenceFits, CurvesFit, Altered
  <2>5. Refers(r)
    BY <2>1, <2>2 DEF Refers
  <2> QED
    BY <2>1, <2>3, <2>4, <2>5 DEF Standing
<1>7. LockHeld
  <2>1. \A r \in Runs : at[r].step \in {"done", "none"}
    BY <1>3
  <2> QED
    BY <1>3, <2>1, SomeAssumptions DEF LockHeld, Locked
<1>8. OneNativeCallAtATime
  BY <1>5, <1>6, <1>7, LockIsEnough DEF AllStand
<1> QED
  BY <1>3, <1>4, <1>5, <1>6, <1>8 DEF Inv, AllStand, Stopped

LEMMA StutterInv ==
  ASSUME Inv, UNCHANGED vars
  PROVE  Inv'
<1>1. /\ row' = row /\ curves' = curves /\ at' = at /\ order' = order /\ loop' = loop
      /\ up' = up /\ crashes' = crashes /\ faults' = faults /\ holder' = holder
  BY DEF vars, tableVars, taskVars, envVars
<1>2. Types'
  BY <1>1 DEF Inv, Types
<1>3. Stopped'
  BY <1>1 DEF Inv, Stopped
<1>4. LockHeld'
  BY <1>1, LiveRun DEF LockHeld
<1> QED
  BY <1>1, <1>2, <1>3, <1>4, EnvironmentKeepsInv

LEMMA OfferedAreRequests == Offered \subseteq Requests
BY CalibrationAssumption DEF Offered

(* Every step preserves the invariant, one lemma per action.               *)
LEMMA NextInv ==
  ASSUME Inv, [Next]_vars
  PROVE  Inv'
<1>1. ASSUME NEW r \in Runs, NEW q \in Offered, Submit(r, q) PROVE Inv'
  BY <1>1, OfferedAreRequests, SubmitInv
<1>2. ASSUME NEW r \in Runs, Progress(r) PROVE Inv'
  BY <1>2, LockInv, PlannedInv, AdmitInv, MarkSolvingInv, VerifyEvidenceInv, SolveInv,
     SolveRaisesInv, SerializeInv, ProjectionFailsInv, PersistInv, OversizedInv, CompleteInv,
     FailRunInv DEF Progress
<1>3. ASSUME NEW r \in Runs,
             AdmitRaises(r) \/ CallbackRaises(r) \/ TerminalizeRaises(r) \/ FailRaises(r)
      PROVE  Inv'
  BY <1>3, AdmitRaisesInv, CallbackRaisesInv, TerminalizeRaisesInv, FailRaisesInv
<1>4. ASSUME NEW r \in Runs, NEW e \in {"PLAN", "EXPECTED"}, Tamper(r, e) PROVE Inv'
  BY <1>4, TamperInv DEF Altered
<1>5. ASSUME OtherTakesLock \/ OtherReleasesLock PROVE Inv'
  BY <1>5, OtherInv
<1>6. ASSUME Crash PROVE Inv'
  BY <1>6, CrashInv
<1>7. ASSUME Serve PROVE Inv'
  BY <1>7, ServeInv
<1>8. ASSUME NEW r \in Runs, Reconcile(r) PROVE Inv'
  BY <1>8, ReconcileInv
<1>9. ASSUME UNCHANGED vars PROVE Inv'
  BY <1>9, StutterInv
<1> QED
  BY <1>1, <1>2, <1>3, <1>4, <1>5, <1>6, <1>7, <1>8, <1>9 DEF Next

LEMMA InvHolds == Spec => []Inv
<1>1. Init => Inv
  BY InitInv
<1>2. Inv /\ [Next]_vars => Inv'
  BY NextInv
<1> QED
  BY <1>1, <1>2, PTL DEF Spec
-----------------------------------------------------------------------------
(* What follows from it.                                                   *)

LEMMA PhasesAre == Range(Phases) = PhaseNames
<1>1. DOMAIN Phases = 1..6
  BY DEF Phases
<1> QED
  BY <1>1 DEF Phases, PhaseNames, Range

(* Every variable keeps its type: statuses and phases are the ones of the  *)
(* record models of schemas/calibrations.py, the curves of a run a list.   *)
THEOREM CalibrationTypes == Spec => []TypeOK
<1>1. Inv => TypeOK
  <2> SUFFICES ASSUME Inv PROVE TypeOK
    OBVIOUS
  <2>1. Types
    BY DEF Inv
  <2>2. ASSUME NEW r \in Runs
        PROVE  /\ row[r].status \in {"absent", "running", "completed", "failed"}
               /\ row[r].phase \in Range(Phases)
               /\ row[r].evidence \in {"none", "sound", "PLAN", "EXPECTED"}
               /\ curves[r] \in Seq([role : {"discount", "forward", "basis"},
                                     base : Runs \cup {NoRun}])
    <3>1. row[r] \in RowType /\ curves[r] \in Seq(CurveType)
      BY <2>1 DEF Types
    <3> QED
      BY <3>1, PhasesAre DEF RowType, CurveType, Altered
  <2> QED
    BY <2>1, <2>2 DEF TypeOK, Types
<1> QED
  BY <1>1, InvHolds, PTL

(* services/dal_gateway.py: under its lock, and only under it, a thread is *)
(* in a native call or in a callback, for any number of runs; and a run is *)
(* marked as solving before its evidence is verified and it is solved.     *)
THEOREM NativeCallsAreExclusive == Spec => []OneNativeCallAtATime
<1>1. Inv => OneNativeCallAtATime
  BY DEF Inv
<1> QED
  BY <1>1, InvHolds, PTL

(* _verify_single_evidence, for any number of runs and requests: a run     *)
(* whose stored evidence was altered before the lock is never solved, and  *)
(* it fails with the code of the altered part unless a store call failed.  *)
THEOREM AlteredEvidenceDecides == Spec => []EvidenceDecides
<1>1. Inv => EvidenceDecides
  <2> SUFFICES ASSUME Inv, NEW r \in Runs, row[r].evidence \in {"PLAN", "EXPECTED"}
               PROVE  /\ row[r].phase \in {"queued", "solving", "finished"}
                      /\ row[r].status = "failed" =>
                           row[r].error \in {row[r].evidence, "LIFECYCLE_TRANSITION_FAILED",
                                             "SERVER_RESTARTED"}
                      /\ row[r].error = "LIFECYCLE_TRANSITION_FAILED" => faults > 0
    BY DEF EvidenceDecides
  <2>1. r \notin Seeded
    BY DEF Inv, SeededStay, SeededRow, NoRow
  <2>2. EvidenceFits(at[r].step, row[r], faults)
    BY <2>1, LiveRun DEF Standing
  <2> QED
    BY <2>2 DEF EvidenceFits, Altered
<1> QED
  BY <1>1, InvHolds, PTL

(* complete_calibration: a completed run has the curves of its whole       *)
(* request, the persisted order is the one its residuals came back in, and *)
(* its base chain is readable and completed; any other run has no curves.  *)
THEOREM CompletionIsAtomic == Spec => []CompletionIsWhole
<1>1. Inv => CompletionIsWhole
  <2> SUFFICES ASSUME Inv, NEW r \in Runs \ Seeded
               PROVE  /\ row[r].status = "completed" =>
                           /\ Len(curves[r]) = Len(row[r].request.decls)
                           /\ ReadsWithin(MaxDepth, r)
                           /\ row[r].request.base # NoRun =>
                                row[row[r].request.base].status = "completed"
                           /\ at[r].step = "done" => order[r] = row[r].order
                      /\ row[r].status # "completed" => curves[r] = <<>>
    BY DEF CompletionIsWhole
  <2>1. /\ RowFits(at[r].step, at[r].request, row[r]) /\ Refers(r)
        /\ CurvesFit(at[r].step, row[r], curves[r], order[r])
    BY LiveRun DEF Standing
  <2>2. ASSUME row[r].status = "completed", row[r].request.base # NoRun
        PROVE  row[row[r].request.base].status = "completed"
    <3>1. row[r].request = at[r].request /\ at[r].step # "none"
      BY <2>1, <2>2 DEF RowFits, Early
    <3>2. at[r].request \in Requests /\ BaseHolds(MaxDepth, r)
      BY <2>1, <3>1 DEF Refers
    <3>3. at[r].request.base \in Runs
      BY <2>2, <3>1, <3>2, SomeAssumptions
    <3> QED
      BY <3>1, <3>2, <3>3 DEF BaseHolds
  <2> QED
    BY <2>1, <2>2 DEF CurvesFit, Refers
<1> QED
  BY <1>1, InvHolds, PTL
-----------------------------------------------------------------------------
(* The phases in their order.                                              *)
LEMMA RankIs ==
  /\ Rank("absent") = 1 /\ Rank("queued") = 2 /\ Rank("solving") = 3
  /\ Rank("serializing") = 4 /\ Rank("persisting") = 5 /\ Rank("finished") = 6
<1>1. /\ DOMAIN Phases = 1..6
      /\ Phases[1] = "absent" /\ Phases[2] = "queued" /\ Phases[3] = "solving"
      /\ Phases[4] = "serializing" /\ Phases[5] = "persisting" /\ Phases[6] = "finished"
  BY DEF Phases
<1>2. 1..6 = {1, 2, 3, 4, 5, 6}
  OBVIOUS
<1>3. ASSUME NEW k \in 1..6 PROVE Rank(Phases[k]) = k
  <2>1. \A i \in DOMAIN Phases : Phases[i] = Phases[k] => i = k
    BY <1>1, <1>2
  <2> QED
    BY <1>1, <2>1 DEF Rank
<1> QED
  BY <1>1, <1>3

(* What one step does to the row and the curves of a run.                  *)
Onward(r) ==
  /\ Rank(row'[r].phase) >= Rank(row[r].phase)
  /\ row[r].phase = "finished" => row'[r] = row[r] /\ curves'[r] = curves[r]

LEMMA KeptIsOnward ==
  ASSUME Types, NEW r \in Runs, row'[r] = row[r], curves'[r] = curves[r]
  PROVE  Onward(r)
<1>1. row[r].phase \in PhaseNames
  BY DEF Types, RowType
<1>2. Rank(row[r].phase) \in Nat
  BY <1>1, RankIs DEF PhaseNames
<1> QED
  BY <1>2 DEF Onward

LEMMA MovedIsOnward ==
  ASSUME Types, NEW r \in Runs, row[r].phase # "finished",
         \/ row'[r].phase = "finished" \/ row'[r].phase = row[r].phase
         \/ <<row[r].phase, row'[r].phase>> \in
              {<<"absent", "queued">>, <<"queued", "solving">>, <<"solving", "serializing">>,
               <<"serializing", "persisting">>}
  PROVE  Onward(r)
<1>1. row[r].phase \in PhaseNames
  BY DEF Types, RowType
<1>2. Rank(row'[r].phase) >= Rank(row[r].phase)
  BY <1>1, RankIs DEF PhaseNames
<1> QED
  BY <1>2 DEF Onward

LEMMA StillRowsOnward ==
  ASSUME Inv, row' = row, curves' = curves, NEW r \in Runs
  PROVE  Onward(r)
BY KeptIsOnward DEF Inv

LEMMA MovedRowsOnward ==
  ASSUME Inv, NEW o \in Runs, row[o].phase # "finished",
         \A x \in Runs : x # o => row'[x] = row[x] /\ curves'[x] = curves[x],
         \/ row'[o].phase = "finished" \/ row'[o].phase = row[o].phase
         \/ <<row[o].phase, row'[o].phase>> \in
              {<<"absent", "queued">>, <<"queued", "solving">>, <<"solving", "serializing">>,
               <<"serializing", "persisting">>},
         NEW r \in Runs
  PROVE  Onward(r)
<1>1. Types
  BY DEF Inv
<1>2. CASE r = o
  BY <1>1, <1>2, MovedIsOnward
<1>3. CASE r # o
  BY <1>1, <1>3, KeptIsOnward
<1> QED
  BY <1>2, <1>3

LEMMA FailureIsOnward ==
  ASSUME Inv, NEW o \in Runs, row[o].status = "running", NEW e \in Errors, Fails(o, e),
         NEW r \in Runs
  PROVE  Onward(r)
<1>1. Types
  BY DEF Inv
<1>2. /\ row'[o].phase = "finished" /\ curves' = curves
      /\ \A x \in Runs : x # o => row'[x] = row[x]
  BY <1>1, FailMoves DEF SameBut
<1>3. row[o].phase # "finished"
  <2>1. o \notin Seeded
    BY DEF Inv, SeededStay, SeededRow, NoRow
  <2> QED
    BY <2>1, LiveRun DEF Standing, RowFits
<1> QED
  BY <1>2, <1>3, MovedRowsOnward

(* The row of a run whose coroutine or thread has not ended.               *)
LEMMA WorkerRow ==
  ASSUME Inv, NEW r \in Runs, at[r].step \notin {"done", "lost"}
  PROVE  /\ r \in Runs \ Seeded
         /\ RowFits(at[r].step, at[r].request, row[r])
         /\ EvidenceFits(at[r].step, row[r], faults)
BY LiveRun DEF Standing

LEMMA ProgressIsOnward ==
  ASSUME Inv, NEW o \in Runs, Progress(o), NEW r \in Runs
  PROVE  Onward(r)
<1>1. CASE \/ PlanAdmission(o) \/ FixingsFound(o) \/ QueryEligibility(o) \/ Planned(o)
           \/ AcquireLock(o) \/ VerifyEvidence(o)
           \/ Solve(o) \/ SolveRaises(o) \/ ProjectionFails(o)
  <2>1. row' = row /\ curves' = curves
    BY <1>1 DEF PlanAdmission, FixingsFound, QueryEligibility, Planned, AcquireLock, Lock,
                VerifyEvidence, Solve, SolveRaises, ProjectionFails, tableVars
  <2> QED
    BY <2>1, StillRowsOnward
<1>2. CASE Admit(o)
  <2>1. /\ at[o].step = "admit" /\ curves' = curves
        /\ row' = [row EXCEPT ![o] = RowOf(at[o].request)]
    BY <1>2 DEF Admit
  <2>2. row[o].phase = "absent"
    BY <2>1, WorkerRow DEF RowFits, Early
  <2>3. /\ row'[o].phase = "queued"
        /\ \A x \in Runs : x # o => row'[x] = row[x] /\ curves'[x] = curves[x]
    <3>1. at[o].request \in Requests
      BY <2>1, LiveRun DEF Standing, Refers
    <3>2. RowOf(at[o].request).phase = "queued"
      BY <3>1, RowOfIs
    <3> QED
      BY <2>1, <3>2 DEF Inv, Types
  <2> QED
    BY <2>2, <2>3, MovedRowsOnward
<1>3. CASE MarkSolving(o)
  <2>1. at[o].step = "locked" /\ curves' = curves /\ row' = [row EXCEPT ![o].phase = "solving"]
    BY <1>3 DEF MarkSolving
  <2>2. row[o].phase = "queued"
    BY <2>1, WorkerRow DEF RowFits, Underway
  <2>3. /\ row'[o].phase = "solving"
        /\ \A x \in Runs : x # o => row'[x] = row[x] /\ curves'[x] = curves[x]
    BY <2>1, PhaseMoves DEF Inv, SameBut, PhaseNames
  <2> QED
    BY <2>2, <2>3, MovedRowsOnward
<1>4. CASE Serialize(o)
  <2>1. at[o].step = "solved" /\ curves' = curves /\ row' = [row EXCEPT ![o].phase = "serializing"]
    BY <1>4 DEF Serialize
  <2>2. row[o].phase = "solving"
    BY <2>1, WorkerRow DEF RowFits, Underway
  <2>3. /\ row'[o].phase = "serializing"
        /\ \A x \in Runs : x # o => row'[x] = row[x] /\ curves'[x] = curves[x]
    BY <2>1, PhaseMoves DEF Inv, SameBut, PhaseNames
  <2> QED
    BY <2>2, <2>3, MovedRowsOnward
<1>5. CASE Persist(o)
  <2>1. at[o].step = "project" /\ curves' = curves /\ row' = [row EXCEPT ![o].phase = "persisting"]
    BY <1>5 DEF Persist
  <2>2. row[o].phase = "serializing"
    BY <2>1, WorkerRow DEF RowFits, Underway
  <2>3. /\ row'[o].phase = "persisting"
        /\ \A x \in Runs : x # o => row'[x] = row[x] /\ curves'[x] = curves[x]
    BY <2>1, PhaseMoves DEF Inv, SameBut, PhaseNames
  <2> QED
    BY <2>2, <2>3, MovedRowsOnward
<1>6. CASE Complete(o)
  <2>1. /\ at[o].step = "complete"
        /\ row' = [row EXCEPT ![o].status = "completed", ![o].phase = "finished"]
        /\ curves' = [curves EXCEPT ![o] = CurvesOf(row[o].request)]
    BY <1>6 DEF Complete
  <2>2. row[o].phase = "persisting"
    BY <2>1, WorkerRow DEF RowFits, Underway
  <2>3. row'[o].phase = "finished" /\ \A x \in Runs : x # o => row'[x] = row[x]
    BY <2>1, CompleteMoves DEF Inv, SameBut
  <2>4. \A x \in Runs : x # o => curves'[x] = curves[x]
    BY <2>1 DEF Inv, Types
  <2> QED
    BY <2>2, <2>3, <2>4, MovedRowsOnward
<1>7. CASE Oversized(o)
  <2>1. at[o].step = "project" /\ Fails(o, "RESPONSE_LIMIT_EXCEEDED")
    BY <1>7 DEF Oversized
  <2>2. row[o].status = "running"
    BY <2>1, WorkerRow DEF RowFits, Underway
  <2> QED
    BY <2>1, <2>2, FailureIsOnward DEF Errors
<1>8. CASE FailRun(o)
  <2>1. at[o].step \in {"integrity", "lifecycle", "native", "mismatch"} /\ Fails(o, ErrorOf(o))
    BY <1>8 DEF FailRun
  <2>2. row[o].status = "running"
    BY <2>1, WorkerRow DEF RowFits, Underway
  <2>3. ErrorOf(o) \in Errors
    <3>1. at[o].step = "integrity" => row[o].evidence \in Altered
      BY WorkerRow DEF EvidenceFits
    <3> QED
      BY <2>1, <3>1 DEF ErrorOf, Errors
  <2> QED
    BY <2>1, <2>2, <2>3, FailureIsOnward
<1> QED
  BY <1>1, <1>2, <1>3, <1>4, <1>5, <1>6, <1>7, <1>8 DEF Progress

LEMMA TamperIsOnward ==
  ASSUME Inv, NEW o \in Runs, NEW e \in {"PLAN", "EXPECTED"}, Tamper(o, e), NEW r \in Runs
  PROVE  Onward(r)
<1>1. /\ row[o].phase = "queued" /\ row' = [row EXCEPT ![o].evidence = e] /\ curves' = curves
  BY DEF Tamper
<1>2. row'[o].phase = row[o].phase /\ \A x \in Runs : x # o => row'[x] = row[x]
  BY <1>1, EvidenceMoves DEF Inv, Altered
<1> QED
  BY <1>1, <1>2, MovedRowsOnward

(* The stores' mark, update, complete and fail methods write a row         *)
(* whatever it holds: still, in every step of every history, a run only    *)
(* moves forward, and once finished its row and its curves are final.      *)
THEOREM FinishedRunsAreFinal == Spec => RunsOnlyAdvance
<1>1. ASSUME Inv, [Next]_vars, NEW r \in Runs PROVE Onward(r)
  <2>1. ASSUME NEW o \in Runs, Progress(o) PROVE Onward(r)
    BY <1>1, <2>1, ProgressIsOnward
  <2>2. ASSUME NEW o \in Runs, NEW q \in Offered, Submit(o, q) PROVE Onward(r)
    BY <1>1, <2>2, StillRowsOnward DEF Submit, tableVars
  <2>3. ASSUME NEW o \in Runs,
               AdmitRaises(o) \/ CallbackRaises(o) \/ TerminalizeRaises(o) \/ FailRaises(o)
        PROVE  Onward(r)
    BY <1>1, <2>3, StillRowsOnward
       DEF AdmitRaises, CallbackRaises, TerminalizeRaises, FailRaises, tableVars
  <2>4. ASSUME NEW o \in Runs, NEW e \in {"PLAN", "EXPECTED"}, Tamper(o, e) PROVE Onward(r)
    BY <1>1, <2>4, TamperIsOnward
  <2>5. ASSUME OtherTakesLock \/ OtherReleasesLock \/ Crash \/ Serve \/ UNCHANGED vars
        PROVE  Onward(r)
    BY <1>1, <2>5, StillRowsOnward
       DEF OtherTakesLock, OtherReleasesLock, Crash, Serve, vars, tableVars
  <2>6. ASSUME NEW o \in Runs, Reconcile(o) PROVE Onward(r)
    BY <1>1, <2>6, FailureIsOnward DEF Reconcile, Errors
  <2> QED
    BY <1>1, <2>1, <2>2, <2>3, <2>4, <2>5, <2>6 DEF Next
<1>2. Inv /\ [Next]_vars =>
        [\A r \in Runs :
           /\ Rank(row'[r].phase) >= Rank(row[r].phase)
           /\ row[r].phase = "finished" => row'[r] = row[r] /\ curves'[r] = curves[r]]_vars
  BY <1>1 DEF Onward
<1> QED
  BY <1>2, InvHolds, PTL DEF Spec, RunsOnlyAdvance
-----------------------------------------------------------------------------
(* The one step that takes a solved run from its projection to a native    *)
(* failure without a failed store call is a projection that fails.         *)
LEMMA OnlyProjectionsFail ==
  ASSUME Inv, [Next]_vars, NEW r \in Runs,
         at[r].step = "project", at'[r].step = "native", faults' = faults
  PROVE  ~Projects(r)
<1>1. Types /\ faults \in Nat
  BY SomeAssumptions DEF Inv, Types
<1>2. ~Fault
  BY <1>1 DEF Fault
<1>3. \A o \in Runs, s \in Steps : Goto(o, s) => o = r /\ s = "native"
  <2> SUFFICES ASSUME NEW o \in Runs, NEW s \in Steps, Goto(o, s) PROVE o = r /\ s = "native"
    OBVIOUS
  <2>1. at'[o].step = s /\ \A x \in Runs : x # o => at'[x] = at[x]
    BY <1>1, GotoMoves
  <2> QED
    BY <2>1
<1>4. at' # at
  OBVIOUS
<1>5. ASSUME NEW o \in Runs, NEW q \in Offered, Submit(o, q) PROVE FALSE
  <2>1. at[o].step = "none" /\ at' = [at EXCEPT ![o] = [step |-> "plan", request |-> q]]
    BY <1>5 DEF Submit
  <2>2. at'[r] = at[r]
    BY <1>1, <2>1 DEF Types
  <2> QED
    BY <2>2
<1>6. ASSUME NEW o \in Runs, Progress(o) PROVE ~Projects(r)
  <2>1. CASE ProjectionFails(o)
    <3>1. o = r
      BY <1>3, <2>1 DEF ProjectionFails, Steps, Underway
    <3> QED
      BY <2>1, <3>1 DEF ProjectionFails
  <2>2. CASE PlanAdmission(o) \/ QueryEligibility(o) \/ AcquireLock(o)
    BY <1>3, <2>2 DEF PlanAdmission, QueryEligibility, AcquireLock, Lock, Steps, Early, Underway
  <2>3. CASE FixingsFound(o) \/ Planned(o)
    <3>1. Goto(o, "eligibility") \/ Goto(o, "admit") \/ Goto(o, "refused")
      BY <2>3 DEF FixingsFound, Planned
    <3> QED
      BY <1>3, <3>1 DEF Steps, Early
  <2>4. CASE Admit(o) \/ Serialize(o) \/ Persist(o)
    BY <1>3, <2>4 DEF Admit, Serialize, Persist, Steps, Underway
  <2>5. CASE MarkSolving(o)
    <3>1. Goto(o, "verify") \/ Goto(o, "solve")
      BY <2>5 DEF MarkSolving
    <3> QED
      BY <1>3, <3>1 DEF Steps, Underway
  <2>6. CASE VerifyEvidence(o)
    <3>1. Goto(o, "solve") \/ Goto(o, "integrity")
      BY <2>6 DEF VerifyEvidence
    <3> QED
      BY <1>3, <3>1 DEF Steps, Underway
  <2>7. CASE Solve(o)
    BY <1>3, <2>7 DEF Solve, Steps, Underway
  <2>8. CASE SolveRaises(o)
    <3>1. at[o].step = "solve" /\ (Goto(o, "native") \/ Goto(o, "mismatch"))
      BY <2>8 DEF SolveRaises
    <3> QED
      BY <1>3, <3>1 DEF Steps, Underway
  <2>9. CASE Oversized(o) \/ Complete(o) \/ FailRun(o)
    BY <1>3, <2>9 DEF Oversized, Complete, FailRun, Steps
  <2> QED
    BY <1>6, <2>1, <2>2, <2>3, <2>4, <2>5, <2>6, <2>7, <2>8, <2>9 DEF Progress
<1>7. ASSUME NEW o \in Runs,
             AdmitRaises(o) \/ CallbackRaises(o) \/ TerminalizeRaises(o) \/ FailRaises(o)
      PROVE  FALSE
  BY <1>2, <1>7 DEF AdmitRaises, CallbackRaises, TerminalizeRaises, FailRaises
<1>8. ASSUME Crash PROVE FALSE
  <2>1. at'[r] = IF at[r].step = "none" THEN at[r] ELSE [at[r] EXCEPT !.step = "lost"]
    BY <1>8 DEF Crash
  <2> DEFINE a == at[r]
  <2>2. a \in [step : Steps, request : Requests \cup {NoRequest}] /\ at'[r] = [a EXCEPT !.step = "lost"]
    BY <1>1, <2>1 DEF Types
  <2> HIDE DEF a
  <2>3. at'[r].step = "lost"
    BY <2>2
  <2> QED
    BY <2>3
<1>9. ASSUME \/ \E o \in Runs, e \in {"PLAN", "EXPECTED"} : Tamper(o, e)
             \/ OtherTakesLock \/ OtherReleasesLock \/ Serve
             \/ \E o \in Runs : Reconcile(o)
             \/ UNCHANGED vars
      PROVE  FALSE
  BY <1>4, <1>9 DEF Tamper, OtherTakesLock, OtherReleasesLock, Serve, Reconcile, vars, taskVars
<1> QED
  BY <1>5, <1>6, <1>7, <1>8, <1>9 DEF Next

(* What admission lets through, the response schema can carry, whatever    *)
(* clients submit and whatever the limits are: a solved run's projection   *)
(* fails only on a base chain of the full depth, or on a joint knot that   *)
(* is not after the valuation date.                                        *)
THEOREM AdmissionCoversProjection == Spec => AdmittedRunsProject
<1>1. ASSUME Inv, [Next]_vars, NEW r \in Runs,
             at[r].step = "project", at'[r].step = "native", faults' = faults
      PROVE  \/ LET base == row[r].request.base
                IN  ReadsWithin(MaxDepth, base) /\ ~ReadsWithin(MaxDepth - 1, base)
             \/ /\ row[r].request.kind = "xccy_joint"
                /\ \E i \in DOMAIN row[r].request.decls :
                     \E k \in row[r].request.decls[i].knots : k <= Today
  <2> DEFINE q == row[r].request
  <2>1. ~ResultProjects(q) \/ ~ReadsWithin(MaxDepth - 1, q.base)
    BY <1>1, OnlyProjectionsFail DEF Projects
  <2>2. /\ q = at[r].request /\ Admits(q) /\ q \in Requests /\ Valid(q) /\ BaseHolds(MaxDepth, r)
    BY <1>1, LiveRun DEF Standing, RowFits, Refers, Underway
  <2>3. ReadsWithin(MaxDepth, q.base)
    <3>1. CASE q.base = NoRun
      BY <3>1 DEF ReadsWithin
    <3>2. CASE q.base # NoRun
      BY <2>2, <3>2, SomeAssumptions DEF BaseHolds
    <3> QED
      BY <3>1, <3>2
  <2>4. IsRequest(q)
    BY <2>2, SomeAssumptions
  <2> HIDE DEF q
  <2>5. CASE ~ResultProjects(q)
    <3>1. ~DatesFollowToday(q)
      BY <2>2, <2>4, <2>5, AdmittedResultProjects
    <3>2. PICK i \in DOMAIN q.decls : \E k \in q.decls[i].knots : ~(k > Today)
      BY <3>1 DEF DatesFollowToday
    <3>3. PICK k \in q.decls[i].knots : ~(k > Today)
      BY <3>2
    <3>4. k \in Int /\ Today \in Int
      BY <2>4, RequestLimitsAssumption DEF IsRequest, IsDeclaration
    <3>5. k <= Today
      BY <3>3, <3>4
    <3>6. q.kind = "xccy_joint"
      BY <3>1 DEF DatesFollowToday
    <3> QED
      BY <3>5, <3>6 DEF q
  <2>6. CASE ~ReadsWithin(MaxDepth - 1, q.base)
    BY <2>3, <2>6 DEF q
  <2> QED
    BY <2>1, <2>5, <2>6
<1>2. Inv /\ [Next]_vars =>
        [\A r \in Runs :
           at[r].step = "project" /\ at'[r].step = "native" /\ faults' = faults =>
             \/ LET base == row[r].request.base
                IN  ReadsWithin(MaxDepth, base) /\ ~ReadsWithin(MaxDepth - 1, base)
             \/ /\ row[r].request.kind = "xccy_joint"
                /\ \E i \in DOMAIN row[r].request.decls :
                     \E k \in row[r].request.decls[i].knots : k <= Today]_vars
  BY <1>1
<1> QED
  BY <1>2, InvHolds, PTL DEF Spec, AdmittedRunsProject
=============================================================================
