-------------------------- MODULE CurveRiskProofs ---------------------------
(***************************************************************************)
(* What CurveRisk guarantees for any set of runs, any workloads and        *)
(* limits, any number of crashes and failing calls.                        *)
(*                                                                         *)
(* The argument: a row belongs to one party at a time, the request thread  *)
(* until it submits, then the pool thread that took the job; each step of  *)
(* either finds the row in the state its own last step left it in          *)
(* (RowsOwned).  So nothing writes a row that has ended but the guard      *)
(* after a failed audit, and what was published is what the native calls   *)
(* of that run returned (ResultsPublished).                                *)
(*                                                                         *)
(* And a run starts with the calls the estimate counted; each call moves   *)
(* its cost from what remains to what is spent, and a layer that is given  *)
(* up only lets the remainder go (WorkCounted).  What was admitted fits    *)
(* into the limits because the saturating words decide it exactly          *)
(* (AdmissionIsExact).                                                     *)
(***************************************************************************)
EXTENDS CurveRisk, CurveLabJobsProofs

(* The admission test: saturating words admit exactly the requests whose   *)
(* work, counted in integers, is within the limits.                        *)
Words == [n : 0 .. MaxWord, over : BOOLEAN]

(* A quotient tells exactly when a product is too large.                   *)
LEMMA Quotient ==
  ASSUME NEW M \in Nat, NEW a \in Nat \ {0}, NEW b \in Nat
  PROVE  b > M \div a <=> a * b > M
<1> DEFINE q == M \div a
<1>1. q \in Nat /\ a * q <= M /\ M < a * q + a
  BY SMT
<1>2. ASSUME b > q PROVE a * b > M
  <2>1. a * b >= a * (q + 1)
    BY <1>1, <1>2, SMT
  <2> QED BY <1>1, <2>1, SMT
<1>3. ASSUME ~(b > q) PROVE ~(a * b > M)
  <2>1. a * b <= a * q
    BY <1>1, <1>3, SMT
  <2> QED BY <1>1, <2>1, SMT
<1> QED BY <1>2, <1>3

(* Multiplying by something positive does not make a number smaller.       *)
LEMMA ProductGrows ==
  ASSUME NEW a \in Nat, NEW c \in Nat \ {0}
  PROVE  a * c \in Nat /\ a <= a * c
BY SMT

(* A checked sum is a word; it is flagged unless both operands are exact   *)
(* and the sum fits, and then it is the sum.                               *)
LEMMA AddIsChecked ==
  ASSUME NEW x \in Words, NEW y \in Words
  PROVE  /\ CheckedAdd(x, y) \in Words
         /\ ~CheckedAdd(x, y).over <=> ~x.over /\ ~y.over /\ x.n + y.n <= MaxWord
         /\ ~CheckedAdd(x, y).over => CheckedAdd(x, y).n = x.n + y.n
BY RiskWorkAssumption DEF Words, CheckedAdd, Saturated

(* The same of a checked product.                                          *)
LEMMA MultiplyIsChecked ==
  ASSUME NEW x \in Words, NEW y \in Words
  PROVE  /\ CheckedMultiply(x, y) \in Words
         /\ ~CheckedMultiply(x, y).over <=> ~x.over /\ ~y.over /\ x.n * y.n <= MaxWord
         /\ ~CheckedMultiply(x, y).over => CheckedMultiply(x, y).n = x.n * y.n
<1>1. CASE x.n = 0
  <2>1. x.n * y.n = 0 /\ CheckedMultiply(x, y) = [n |-> x.n * y.n, over |-> x.over \/ y.over]
    BY <1>1 DEF Words, CheckedMultiply
  <2> QED BY <2>1, RiskWorkAssumption DEF Words
<1>2. CASE x.n # 0
  <2>1. x.n \in Nat \ {0} /\ y.n \in Nat /\ MaxWord \in Nat
    BY <1>2, RiskWorkAssumption DEF Words
  <2>2. y.n > MaxWord \div x.n <=> x.n * y.n > MaxWord
    BY <2>1, Quotient
  <2>3. x.n * y.n \in Nat
    BY <2>1
  <2>4. CASE x.n * y.n > MaxWord
    <3>1. CheckedMultiply(x, y) = Saturated
      BY <1>2, <2>2, <2>4 DEF CheckedMultiply
    <3> QED BY <3>1, <2>1, <2>3, <2>4 DEF Saturated, Words
  <2>5. CASE ~(x.n * y.n > MaxWord)
    <3>1. CheckedMultiply(x, y) = [n |-> x.n * y.n, over |-> x.over \/ y.over]
      BY <1>2, <2>2, <2>5 DEF CheckedMultiply
    <3> QED BY <3>1, <2>1, <2>3, <2>5 DEF Words
  <2> QED BY <2>4, <2>5
<1> QED BY <1>1, <1>2

(* A small number is a word of its own value.                              *)
LEMMA WordIsWord ==
  ASSUME NEW k \in 0 .. MaxWord
  PROVE  Word(k) \in Words /\ ~Word(k).over /\ Word(k).n = k
BY DEF Word, Words
-----------------------------------------------------------------------------
(* The four kinds of bumps: words that are flagged exactly when the count  *)
(* does not fit, and the count otherwise.                                  *)
Faithful(x, v) == x \in Words /\ v \in Nat /\ (~x.over <=> v <= MaxWord) /\ (~x.over => x.n = v)

LEMMA BumpsAreFaithful ==
  ASSUME NEW r, Countable(r)
  PROVE  /\ Faithful(NParam(r), Nodes(r)) /\ Faithful(NAad(r), Aads(r))
         /\ Faithful(NQuote(r), Quotes(r)) /\ Faithful(NJac(r), Replays(r))
<1> USE RiskWorkAssumption
<1> DEFINE two == IF NeedsNodes(r) THEN 2 ELSE 0
           one == IF NeedsNodes(r) THEN 1 ELSE 0
<1>1. /\ r.T \in 0 .. MaxWord /\ r.eligible \in 0 .. MaxWord
      /\ r.P \in 0 .. MaxWord /\ r.Q \in 0 .. MaxWord
  BY DEF Countable
<1>2. /\ two \in 0 .. MaxWord /\ one \in 0 .. MaxWord
      /\ 0 \in 0 .. MaxWord /\ 1 \in 0 .. MaxWord /\ 2 \in 0 .. MaxWord
  OBVIOUS
<1>3. /\ Word(two) \in Words /\ ~Word(two).over /\ Word(two).n = two
      /\ Word(one) \in Words /\ ~Word(one).over /\ Word(one).n = one
      /\ Word(0) \in Words /\ ~Word(0).over /\ Word(0).n = 0
      /\ Word(1) \in Words /\ ~Word(1).over /\ Word(1).n = 1
      /\ Word(2) \in Words /\ ~Word(2).over /\ Word(2).n = 2
      /\ Word(r.P) \in Words /\ ~Word(r.P).over /\ Word(r.P).n = r.P
      /\ Word(r.Q) \in Words /\ ~Word(r.Q).over /\ Word(r.Q).n = r.Q
      /\ Word(r.eligible) \in Words /\ ~Word(r.eligible).over /\ Word(r.eligible).n = r.eligible
  <2> HIDE DEF two, one
  <2> QED BY <1>1, <1>2, WordIsWord
<1>4. Faithful(NParam(r), Nodes(r))
  <2>1. NParam(r) = CheckedMultiply(Word(two), Word(r.P))
    BY DEF NParam
  <2>2. Nodes(r) = two * r.P /\ Nodes(r) \in Nat
    BY <1>1 DEF Nodes
  <2> HIDE DEF two
  <2> QED BY <1>3, <2>1, <2>2, MultiplyIsChecked DEF Faithful
<1>5. Faithful(NAad(r), Aads(r))
  <2>1. NAad(r) = CheckedMultiply(Word(one), Word(r.eligible))
    BY DEF NAad
  <2>2. Aads(r) = one * r.eligible /\ Aads(r) \in Nat
    BY <1>1 DEF Aads
  <2> HIDE DEF one
  <2> QED BY <1>3, <2>1, <2>2, MultiplyIsChecked DEF Faithful
<1>6. Faithful(NQuote(r), Quotes(r))
  <2>1. CASE "KEY_RATE_DV01" \in r.measures
    <3>1. NQuote(r) = CheckedAdd(Word(r.Q), Word(1)) /\ Quotes(r) = r.Q + 1
      BY <2>1 DEF NQuote, Quotes
    <3> QED BY <1>1, <1>3, <3>1, AddIsChecked DEF Faithful
  <2>2. CASE "KEY_RATE_DV01" \notin r.measures /\ NeedsQuotes(r)
    <3>1. NQuote(r) = Word(1) /\ Quotes(r) = 1
      BY <2>2 DEF NQuote, Quotes
    <3> QED BY <1>2, <1>3, <3>1 DEF Faithful
  <2>3. CASE "KEY_RATE_DV01" \notin r.measures /\ ~NeedsQuotes(r)
    <3>1. NQuote(r) = Word(0) /\ Quotes(r) = 0
      BY <2>3 DEF NQuote, Quotes
    <3> QED BY <1>2, <1>3, <3>1 DEF Faithful
  <2> QED BY <2>1, <2>2, <2>3
<1>7. Faithful(NJac(r), Replays(r))
  <2>1. CASE NeedsJacobian(r)
    <3>1. NJac(r) = CheckedMultiply(Word(2), Word(r.Q)) /\ Replays(r) = 2 * r.Q
      BY <2>1 DEF NJac, Replays
    <3> QED BY <1>1, <1>3, <3>1, MultiplyIsChecked DEF Faithful
  <2>2. CASE ~NeedsJacobian(r)
    <3>1. NJac(r) = Word(0) /\ Replays(r) = 0
      BY <2>2 DEF NJac, Replays
    <3> QED BY <1>2, <1>3, <3>1 DEF Faithful
  <2> QED BY <2>1, <2>2
<1> QED BY <1>4, <1>5, <1>6, <1>7
-----------------------------------------------------------------------------
(* A word whose value is v unless it is flagged.                           *)
Guarded(x, v) == x \in Words /\ v \in Nat /\ (~x.over => x.n = v)

LEMMA GuardedSum ==
  ASSUME NEW x, NEW y, NEW v, NEW w, Guarded(x, v), Guarded(y, w)
  PROVE  /\ Guarded(CheckedAdd(x, y), v + w)
         /\ ~CheckedAdd(x, y).over <=> ~x.over /\ ~y.over /\ v + w <= MaxWord
BY AddIsChecked, RiskWorkAssumption DEF Guarded

LEMMA GuardedProduct ==
  ASSUME NEW x, NEW y, NEW v, NEW w, Guarded(x, v), Guarded(y, w)
  PROVE  /\ Guarded(CheckedMultiply(x, y), v * w)
         /\ ~CheckedMultiply(x, y).over <=> ~x.over /\ ~y.over /\ v * w <= MaxWord
<1>1. x \in Words /\ y \in Words /\ v \in Nat /\ w \in Nat
  BY DEF Guarded
<1>2. v * w \in Nat
  BY <1>1
<1>3. ~x.over /\ ~y.over => x.n * y.n = v * w
  BY DEF Guarded
<1> QED BY <1>1, <1>2, <1>3, MultiplyIsChecked DEF Guarded

(* The counts of an estimate are exact or flagged, and each is flagged     *)
(* exactly when it, or a part of it, does not fit into a word.             *)
LEMMA CountsAreGuarded ==
  ASSUME NEW r, Countable(r)
  PROVE  LET n == Nodes(r)
             a == Aads(r)
             q == Quotes(r)
             j == Replays(r)
         IN /\ Guarded(Contexts(r), 1 + n + a + q + j)
            /\ ~Contexts(r).over <=> 1 + n + a + q + j <= MaxWord
            /\ Guarded(PriceEvaluations(r), Prices(r))
            /\ ~PriceEvaluations(r).over <=>
                 n <= MaxWord /\ q <= MaxWord /\ a <= MaxWord /\ Prices(r) <= MaxWord
            /\ Guarded(CalibrationSolves(r), Solves(r))
            /\ ~CalibrationSolves(r).over <=> Solves(r) <= MaxWord
            /\ Guarded(NAad(r), a) /\ (~NAad(r).over <=> a <= MaxWord)
<1> DEFINE n == Nodes(r)
           a == Aads(r)
           q == Quotes(r)
           j == Replays(r)
           t == r.T
<1>1. /\ Guarded(NParam(r), n) /\ (~NParam(r).over <=> n <= MaxWord)
      /\ Guarded(NAad(r), a) /\ (~NAad(r).over <=> a <= MaxWord)
      /\ Guarded(NQuote(r), q) /\ (~NQuote(r).over <=> q <= MaxWord)
      /\ Guarded(NJac(r), j) /\ (~NJac(r).over <=> j <= MaxWord)
  BY BumpsAreFaithful DEF Faithful, Guarded
<1>2. t \in 0 .. MaxWord /\ 1 \in 0 .. MaxWord
  BY RiskWorkAssumption DEF Countable
<1>3. /\ Guarded(Word(t), t) /\ ~Word(t).over
      /\ Guarded(Word(1), 1) /\ ~Word(1).over
  <2> HIDE DEF t
  <2> QED BY <1>2, WordIsWord, RiskWorkAssumption DEF Guarded
<1>4. n \in Nat /\ a \in Nat /\ q \in Nat /\ j \in Nat /\ t \in Nat /\ MaxWord \in Nat
  BY <1>1, <1>3, RiskWorkAssumption DEF Guarded
<1>5. /\ Guarded(Contexts(r), 1 + n + a + q + j)
      /\ ~Contexts(r).over <=> 1 + n + a + q + j <= MaxWord
  <2> DEFINE c1 == CheckedAdd(Word(1), NParam(r))
             c2 == CheckedAdd(c1, NAad(r))
             c3 == CheckedAdd(c2, NQuote(r))
             c4 == CheckedAdd(c3, NJac(r))
  <2> HIDE DEF n, a, q, j, t
  <2>1. Guarded(c1, 1 + n) /\ (~c1.over <=> ~Word(1).over /\ ~NParam(r).over /\ 1 + n <= MaxWord)
    BY <1>1, <1>3, GuardedSum
  <2> HIDE DEF c1
  <2>2. Guarded(c2, 1 + n + a) /\ (~c2.over <=> ~c1.over /\ ~NAad(r).over /\ 1 + n + a <= MaxWord)
    BY <1>1, <2>1, GuardedSum
  <2> HIDE DEF c2
  <2>3. /\ Guarded(c3, 1 + n + a + q)
        /\ ~c3.over <=> ~c2.over /\ ~NQuote(r).over /\ 1 + n + a + q <= MaxWord
    BY <1>1, <2>2, GuardedSum
  <2> HIDE DEF c3
  <2>4. /\ Guarded(c4, 1 + n + a + q + j)
        /\ ~c4.over <=> ~c3.over /\ ~NJac(r).over /\ 1 + n + a + q + j <= MaxWord
    BY <1>1, <2>3, GuardedSum
  <2> HIDE DEF c4
  <2>6. ~c4.over <=> 1 + n + a + q + j <= MaxWord
    BY <1>1, <1>3, <1>4, <2>1, <2>2, <2>3, <2>4
  <2>5. c4 = Contexts(r)
    BY DEF c1, c2, c3, c4, Contexts
  <2> QED BY <2>4, <2>5, <2>6
<1>6. /\ Guarded(CalibrationSolves(r), Solves(r))
      /\ ~CalibrationSolves(r).over <=> Solves(r) <= MaxWord
  <2>1. Solves(r) = q + j /\ CalibrationSolves(r) = CheckedAdd(NQuote(r), NJac(r))
    BY DEF Solves, CalibrationSolves
  <2> HIDE DEF n, a, q, j, t
  <2>2. /\ Guarded(CalibrationSolves(r), q + j)
        /\ ~CalibrationSolves(r).over <=> ~NQuote(r).over /\ ~NJac(r).over /\ q + j <= MaxWord
    BY <1>1, <2>1, GuardedSum
  <2> QED BY <1>1, <1>4, <2>1, <2>2
<1>7. /\ Guarded(PriceEvaluations(r), Prices(r))
      /\ ~PriceEvaluations(r).over <=>
           n <= MaxWord /\ q <= MaxWord /\ a <= MaxWord /\ Prices(r) <= MaxWord
  <2> DEFINE m1 == CheckedMultiply(NParam(r), Word(t))
             m2 == CheckedMultiply(NQuote(r), Word(t))
             e1 == CheckedAdd(Word(t), m1)
             e2 == CheckedAdd(e1, NAad(r))
             e3 == CheckedAdd(e2, m2)
  <2>0. Prices(r) = t + n * t + a + q * t
    BY DEF Prices
  <2>1. e3 = PriceEvaluations(r)
    BY DEF PriceEvaluations
  <2> HIDE DEF n, a, q, j, t
  <2>2. /\ Guarded(m1, n * t) /\ (~m1.over <=> n <= MaxWord /\ n * t <= MaxWord)
        /\ Guarded(m2, q * t) /\ (~m2.over <=> q <= MaxWord /\ q * t <= MaxWord)
    BY <1>1, <1>3, GuardedProduct
  <2>3. n * t \in Nat /\ q * t \in Nat
    BY <1>4
  <2> HIDE DEF m1, m2
  <2>4. Guarded(e1, t + n * t) /\ (~e1.over <=> ~m1.over /\ t + n * t <= MaxWord)
    BY <1>3, <2>2, GuardedSum
  <2> HIDE DEF e1
  <2>5. Guarded(e2, t + n * t + a) /\ (~e2.over <=> ~e1.over /\ a <= MaxWord /\ t + n * t + a <= MaxWord)
    BY <1>1, <2>4, GuardedSum
  <2> HIDE DEF e2
  <2>6. Guarded(e3, Prices(r)) /\ (~e3.over <=> ~e2.over /\ ~m2.over /\ Prices(r) <= MaxWord)
    BY <2>0, <2>2, <2>5, GuardedSum
  <2> HIDE DEF e3
  <2> DEFINE x == n * t
             y == q * t
  <2>7. /\ x \in Nat /\ y \in Nat
        /\ Prices(r) = t + x + a + y
        /\ ~m1.over <=> n <= MaxWord /\ x <= MaxWord
        /\ ~m2.over <=> q <= MaxWord /\ y <= MaxWord
        /\ ~e1.over <=> ~m1.over /\ t + x <= MaxWord
        /\ ~e2.over <=> ~e1.over /\ a <= MaxWord /\ t + x + a <= MaxWord
    BY <2>0, <2>2, <2>3, <2>4, <2>5
  <2> HIDE DEF x, y
  <2>8. ~e3.over <=> n <= MaxWord /\ q <= MaxWord /\ a <= MaxWord /\ Prices(r) <= MaxWord
    BY <1>4, <2>6, <2>7
  <2> QED BY <2>1, <2>6, <2>8
<1> QED BY <1>1, <1>5, <1>6, <1>7

(* The wall time is exact or flagged, and flagged unless everything it is  *)
(* computed from is exact and it fits.                                     *)
LEMMA WallIsGuarded ==
  ASSUME NEW r, Countable(r)
  PROVE  /\ Guarded(EstimatedWallMillis(r), WallMillis(r))
         /\ ~EstimatedWallMillis(r).over <=>
              /\ ~Contexts(r).over /\ ~PriceEvaluations(r).over
              /\ ~CalibrationSolves(r).over /\ ~NAad(r).over
              /\ WallMillis(r) <= MaxWord
<1> DEFINE c == 1 + Nodes(r) + Aads(r) + Quotes(r) + Replays(r)
           p == Prices(r)
           s == Solves(r)
           a == Aads(r)
           w1 == CheckedMultiply(Contexts(r), Word(Cost.context))
           w2 == CheckedMultiply(PriceEvaluations(r), Word(Cost.price))
           w3 == CheckedMultiply(CalibrationSolves(r), Word(Cost.solve))
           w4 == CheckedMultiply(NAad(r), Word(Cost.aad))
           s2 == CheckedAdd(w1, w2)
           s3 == CheckedAdd(s2, w3)
           s4 == CheckedAdd(s3, w4)
<1>1. s4 = EstimatedWallMillis(r)
  BY DEF EstimatedWallMillis
<1>2. WallMillis(r) = c * Cost.context + p * Cost.price + s * Cost.solve + a * Cost.aad
  BY DEF WallMillis
<1>3. /\ Guarded(Contexts(r), c) /\ Guarded(PriceEvaluations(r), p)
      /\ Guarded(CalibrationSolves(r), s) /\ Guarded(NAad(r), a)
  BY CountsAreGuarded
<1>4. /\ Cost.context \in 1 .. MaxWord /\ Cost.price \in 1 .. MaxWord
      /\ Cost.solve \in 1 .. MaxWord /\ Cost.aad \in 1 .. MaxWord
  BY RiskWorkAssumption DEF Coefficients
<1>5. \A k \in 1 .. MaxWord : Guarded(Word(k), k) /\ ~Word(k).over
  BY WordIsWord, RiskWorkAssumption DEF Guarded
<1> HIDE DEF c, p, s, a
<1>6. /\ Guarded(w1, c * Cost.context)
      /\ ~w1.over <=> ~Contexts(r).over /\ c * Cost.context <= MaxWord
  BY <1>3, <1>4, <1>5, GuardedProduct
<1>7. /\ Guarded(w2, p * Cost.price)
      /\ ~w2.over <=> ~PriceEvaluations(r).over /\ p * Cost.price <= MaxWord
  BY <1>3, <1>4, <1>5, GuardedProduct
<1>8. /\ Guarded(w3, s * Cost.solve)
      /\ ~w3.over <=> ~CalibrationSolves(r).over /\ s * Cost.solve <= MaxWord
  BY <1>3, <1>4, <1>5, GuardedProduct
<1>9. /\ Guarded(w4, a * Cost.aad)
      /\ ~w4.over <=> ~NAad(r).over /\ a * Cost.aad <= MaxWord
  BY <1>3, <1>4, <1>5, GuardedProduct
<1> DEFINE v1 == c * Cost.context
           v2 == p * Cost.price
           v3 == s * Cost.solve
           v4 == a * Cost.aad
<1>10. v1 \in Nat /\ v2 \in Nat /\ v3 \in Nat /\ v4 \in Nat
  BY <1>6, <1>7, <1>8, <1>9 DEF Guarded
<1>11. /\ Guarded(w1, v1) /\ (~w1.over <=> ~Contexts(r).over /\ v1 <= MaxWord)
       /\ Guarded(w2, v2) /\ (~w2.over <=> ~PriceEvaluations(r).over /\ v2 <= MaxWord)
       /\ Guarded(w3, v3) /\ (~w3.over <=> ~CalibrationSolves(r).over /\ v3 <= MaxWord)
       /\ Guarded(w4, v4) /\ (~w4.over <=> ~NAad(r).over /\ v4 <= MaxWord)
  BY <1>6, <1>7, <1>8, <1>9
<1>12. WallMillis(r) = v1 + v2 + v3 + v4
  BY <1>2
<1> HIDE DEF v1, v2, v3, v4, w1, w2, w3, w4
<1>13. Guarded(s2, v1 + v2) /\ (~s2.over <=> ~w1.over /\ ~w2.over /\ v1 + v2 <= MaxWord)
  BY <1>11, GuardedSum
<1> HIDE DEF s2
<1>14. Guarded(s3, v1 + v2 + v3) /\ (~s3.over <=> ~s2.over /\ ~w3.over /\ v1 + v2 + v3 <= MaxWord)
  BY <1>11, <1>13, GuardedSum
<1> HIDE DEF s3
<1>15. /\ Guarded(s4, v1 + v2 + v3 + v4)
       /\ ~s4.over <=> ~s3.over /\ ~w4.over /\ v1 + v2 + v3 + v4 <= MaxWord
  BY <1>11, <1>14, GuardedSum
<1> HIDE DEF s4
<1>16. ~s4.over <=> /\ ~Contexts(r).over /\ ~PriceEvaluations(r).over
                    /\ ~CalibrationSolves(r).over /\ ~NAad(r).over
                    /\ WallMillis(r) <= MaxWord
  BY <1>10, <1>11, <1>12, <1>13, <1>14, <1>15, RiskWorkAssumption
<1> QED BY <1>1, <1>12, <1>15, <1>16

(* _admit_work admits exactly the requests whose work is within every      *)
(* limit: no saturation hides a request that asks for too much, and none   *)
(* is refused for an overflow that does not matter.                        *)
THEOREM AdmissionIsExact ==
  ASSUME NEW r, Countable(r)
  PROVE  AdmitsWork(r) <=> WorkFits(r)
<1> DEFINE c == 1 + Nodes(r) + Aads(r) + Quotes(r) + Replays(r)
           e == Estimate(r)
<1>1. /\ Guarded(Contexts(r), c) /\ (~Contexts(r).over <=> c <= MaxWord)
      /\ Guarded(PriceEvaluations(r), Prices(r))
      /\ ~PriceEvaluations(r).over <=>
           /\ Nodes(r) <= MaxWord /\ Quotes(r) <= MaxWord /\ Aads(r) <= MaxWord
           /\ Prices(r) <= MaxWord
      /\ Guarded(CalibrationSolves(r), Solves(r))
      /\ ~CalibrationSolves(r).over <=> Solves(r) <= MaxWord
      /\ Guarded(NAad(r), Aads(r)) /\ (~NAad(r).over <=> Aads(r) <= MaxWord)
  BY CountsAreGuarded
<1>2. Guarded(EstimatedWallMillis(r), WallMillis(r))
  BY WallIsGuarded
<1>3. /\ Word(r.T).n = r.T /\ Word(r.P).n = r.P /\ Word(r.Q).n = r.Q
      /\ ~Word(r.T).over /\ ~Word(r.P).over /\ ~Word(r.Q).over
  BY DEF Word
<1>4. /\ e.T = Word(r.T) /\ e.P = Word(r.P) /\ e.Q = Word(r.Q)
      /\ e.price_evaluations = PriceEvaluations(r)
      /\ e.calibration_solves = CalibrationSolves(r)
      /\ e.aad_recordings = NAad(r) /\ e.estimated_wall_millis = EstimatedWallMillis(r)
  BY DEF Estimate
<1>5. ASSUME ~EstimatedWallMillis(r).over
      PROVE  AdmitsWork(r) <=> WorkFits(r)
  <2>1. /\ ~PriceEvaluations(r).over /\ ~CalibrationSolves(r).over /\ ~NAad(r).over
    BY <1>5, WallIsGuarded
  <2>2. /\ e.price_evaluations.n = Prices(r) /\ ~e.price_evaluations.over
        /\ e.calibration_solves.n = Solves(r) /\ ~e.calibration_solves.over
        /\ e.aad_recordings.n = Aads(r) /\ ~e.aad_recordings.over
        /\ e.estimated_wall_millis.n = WallMillis(r) /\ ~e.estimated_wall_millis.over
        /\ e.T.n = r.T /\ e.P.n = r.P /\ e.Q.n = r.Q /\ ~e.T.over /\ ~e.P.over /\ ~e.Q.over
    BY <1>1, <1>2, <1>3, <1>4, <1>5, <2>1 DEF Guarded
  <2> HIDE DEF e
  <2>3. AdmitsWork(r) <=>
          /\ \A field \in Fields : ~e[field].over
          /\ \A field \in Fields : e[field].n <= Limits[field]
    BY DEF AdmitsWork, e
  <2>4. \A field \in Fields : ~e[field].over /\ e[field].n = Work(r)[field]
    BY <2>2 DEF Fields, Work
  <2> QED BY <2>3, <2>4 DEF WorkFits
<1>6. ASSUME EstimatedWallMillis(r).over
      PROVE  ~AdmitsWork(r)
  <2>1. "estimated_wall_millis" \in Fields
    BY DEF Fields
  <2> QED BY <1>4, <1>6, <2>1 DEF AdmitsWork
<1>7. ASSUME WorkFits(r)
      PROVE  ~EstimatedWallMillis(r).over
  <2>1. WallMillis(r) <= Limits.estimated_wall_millis /\ Limits.estimated_wall_millis \in 0 .. MaxWord
    BY <1>7, RiskWorkAssumption DEF WorkFits, Work, Fields
  <2>2. /\ c \in Nat /\ Prices(r) \in Nat /\ Solves(r) \in Nat /\ Aads(r) \in Nat
        /\ WallMillis(r) \in Nat /\ MaxWord \in Nat
    BY <1>1, <1>2, RiskWorkAssumption DEF Guarded
  <2>3. /\ Cost.context \in Nat \ {0} /\ Cost.price \in Nat \ {0}
        /\ Cost.solve \in Nat \ {0} /\ Cost.aad \in Nat \ {0}
    BY RiskWorkAssumption DEF Coefficients
  <2>4. /\ Nodes(r) \in Nat /\ Quotes(r) \in Nat /\ Replays(r) \in Nat
    BY BumpsAreFaithful DEF Faithful
  <2>5. Nodes(r) <= c /\ Quotes(r) <= c /\ Aads(r) <= c
    BY <2>2, <2>4
  <2>6. WallMillis(r) = c * Cost.context + Prices(r) * Cost.price + Solves(r) * Cost.solve
                          + Aads(r) * Cost.aad
    BY DEF WallMillis
  <2> HIDE DEF c
  <2>7. /\ c * Cost.context \in Nat /\ c <= c * Cost.context
        /\ Prices(r) * Cost.price \in Nat /\ Prices(r) <= Prices(r) * Cost.price
        /\ Solves(r) * Cost.solve \in Nat /\ Solves(r) <= Solves(r) * Cost.solve
        /\ Aads(r) * Cost.aad \in Nat
    BY <2>2, <2>3, ProductGrows
  <2> DEFINE v1 == c * Cost.context
             v2 == Prices(r) * Cost.price
             v3 == Solves(r) * Cost.solve
             v4 == Aads(r) * Cost.aad
  <2>8. /\ v1 \in Nat /\ v2 \in Nat /\ v3 \in Nat /\ v4 \in Nat
        /\ c <= v1 /\ Prices(r) <= v2 /\ Solves(r) <= v3
        /\ WallMillis(r) = v1 + v2 + v3 + v4
    BY <2>6, <2>7
  <2> HIDE DEF v1, v2, v3, v4
  <2>9. WallMillis(r) <= MaxWord
    BY <2>1, <2>2
  <2>10. c <= MaxWord /\ Prices(r) <= MaxWord /\ Solves(r) <= MaxWord
    BY <2>2, <2>8, <2>9
  <2>11. Nodes(r) <= MaxWord /\ Quotes(r) <= MaxWord /\ Aads(r) <= MaxWord
    BY <2>2, <2>4, <2>5, <2>10
  <2>12. /\ ~Contexts(r).over /\ ~PriceEvaluations(r).over
         /\ ~CalibrationSolves(r).over /\ ~NAad(r).over
    BY <1>1, <2>10, <2>11
  <2> QED BY <2>9, <2>12, WallIsGuarded
<1> QED BY <1>5, <1>6, <1>7
-----------------------------------------------------------------------------
HandlerSteps == {"none", "persist", "submit", "cancel", "answered"}
ThreadSteps ==
  {"none", "begin", "native", "calling", "publish", "audit", "timeout", "failed", "exit"}
Rows == [state : {"ABSENT"} \cup InFlight \cup Terminal, dv01 : BOOLEAN]

IsResult(g) ==
  /\ g = [priced |-> g.priced, aad |-> g.aad, lost |-> g.lost, jacobian |-> g.jacobian,
          parallel |-> g.parallel, keys |-> g.keys]
  /\ g.parallel \in BOOLEAN

ResultsOK ==
  /\ got = [j \in Jobs |-> got[j]]
  /\ \A j \in Jobs : IsResult(got[j]) /\ got[j].lost \subseteq Trades(j)

RiskTypeOK ==
  /\ JobsTypeOK
  /\ row \in [Jobs -> Rows]
  /\ matrices = [j \in Jobs |-> matrices[j]]
  /\ audit \subseteq Jobs
  /\ hpc \in [Jobs -> HandlerSteps]
  /\ wpc \in [Jobs -> ThreadSteps]
  /\ up \in BOOLEAN
  /\ ResultsOK

HandlerOwns(j) ==
  /\ hpc[j] = "none" => resv[j] = "none" /\ row[j].state = "ABSENT"
  /\ hpc[j] = "persist" => resv[j] = "held" /\ row[j].state = "ABSENT"
  /\ hpc[j] = "submit" => resv[j] = "held" /\ row[j].state = "QUEUED"
  /\ hpc[j] = "cancel" => resv[j] \in {"held", "refused"}
  /\ resv[j] = "queued" => row[j].state = "QUEUED"

ThreadOwns(j) ==
  /\ wpc[j] # "none" <=> resv[j] = "running"
  /\ wpc[j] \in {"begin", "native", "calling", "publish", "timeout"} => row[j].state \in InFlight
  /\ wpc[j] = "audit" => row[j].state = "SUCCEEDED" /\ j \notin audit
  /\ wpc[j] = "failed" => row[j].state \in InFlight \cup {"SUCCEEDED"} /\ j \notin audit
  /\ j \in audit => row[j].state = "SUCCEEDED"

Quiet(j) == ~up => /\ hpc[j] \in {"none", "answered"}
                   /\ resv[j] \in {"none", "done"}

RowsOwned == \A j \in Jobs : HandlerOwns(j) /\ ThreadOwns(j) /\ Quiet(j)

Published(j) ==
  IF row[j].state = "SUCCEEDED"
  THEN matrices[j] = MatricesOf(j) /\ row[j].dv01 = got[j].parallel
  ELSE matrices[j] = {} /\ ~row[j].dv01

ResultsPublished == \A j \in Jobs : Published(j)

RiskInv == RiskTypeOK /\ QueueHoldsWaitingJobs /\ RowsOwned /\ ResultsPublished
-----------------------------------------------------------------------------
LEMMA RiskInit == Init => RiskInv
<1> SUFFICES ASSUME Init PROVE RiskInv
  OBVIOUS
<1>1. JobsTypeOK /\ QueueHoldsWaitingJobs /\ resv = [j \in Jobs |-> "none"]
  BY JobsInitInv DEF Init, JobsInv, JobsInit
<1>2. ResultsOK
  BY DEF Init, ResultsOK, IsResult, NothingYet
<1>3. RiskTypeOK
  BY <1>1, <1>2 DEF Init, RiskTypeOK, Rows, NoRow, HandlerSteps, ThreadSteps
<1>4. RowsOwned /\ ResultsPublished
  BY <1>1 DEF Init, RowsOwned, HandlerOwns, ThreadOwns, Quiet, NoRow, ResultsPublished, Published
<1> QED
  BY <1>1, <1>3, <1>4 DEF RiskInv

(* The executor is used through its own steps only, but for a crash.       *)
LEMMA UsesTheExecutor == [Next]_vars => [JobsNext]_jobVars \/ Crash
<1> SUFFICES ASSUME [Next]_vars, ~Crash PROVE [JobsNext]_jobVars
  OBVIOUS
<1>1. CASE UNCHANGED vars
  BY <1>1 DEF vars, jobVars
<1>2. CASE HandlerStep
  BY <1>2 DEF HandlerStep, CreateFixingSnapshot, AuditSnapshot, Receive, Persist, PersistRaises, SubmitRun,
              SubmitRunRaises, CancelRun, JobsNext
<1>3. ASSUME NEW j \in Jobs, RunStep(j) PROVE [JobsNext]_jobVars
  BY <1>3 DEF RunStep, TakeRun, Begin, Look, NativeCall, NativeRaises, Succeed,
              PublishRun, AuditRun, TimeOut, FailRun, WorkerRaises, ExitRun, RetireRun, JobsNext
<1>4. CASE Restart \/ \E j \in Jobs : Expire(j)
  BY <1>4 DEF Restart, Expire
<1> QED
  BY <1>1, <1>2, <1>3, <1>4 DEF Next

LEMMA ExecutorKept ==
  ASSUME JobsTypeOK, QueueHoldsWaitingJobs, [Next]_vars
  PROVE  JobsTypeOK' /\ QueueHoldsWaitingJobs'
<1>1. CASE [JobsNext]_jobVars
  BY <1>1, JobsTypeStep, QueueStep
<1>2. CASE Crash
  BY <1>2, CapacityNat DEF Crash, JobsTypeOK, Statuses, QueueHoldsWaitingJobs, InState
<1> QED
  BY <1>1, <1>2, UsesTheExecutor

(* Types.                                                                  *)
LEMMA ResultFields ==
  ASSUME NEW g, IsResult(g), NEW x, NEW b \in BOOLEAN
  PROVE  /\ IsResult([g EXCEPT !.priced = x]) /\ [g EXCEPT !.priced = x].lost = g.lost
         /\ IsResult([g EXCEPT !.aad = x]) /\ [g EXCEPT !.aad = x].lost = g.lost
         /\ IsResult([g EXCEPT !.jacobian = x]) /\ [g EXCEPT !.jacobian = x].lost = g.lost
         /\ IsResult([g EXCEPT !.keys = x]) /\ [g EXCEPT !.keys = x].lost = g.lost
         /\ IsResult([g EXCEPT !.parallel = b]) /\ [g EXCEPT !.parallel = b].lost = g.lost
         /\ IsResult([g EXCEPT !.lost = x]) /\ [g EXCEPT !.lost = x].lost = x
  BY DEF IsResult

(* One entry of got was replaced by a result of the same run.              *)
LEMMA ResultReplaced ==
  ASSUME ResultsOK, NEW j \in Jobs, NEW g, IsResult(g), g.lost \subseteq Trades(j),
         got' = [got EXCEPT ![j] = g], request' = request
  PROVE  ResultsOK'
<1>0. \A k \in Jobs : Trades(k)' = Trades(k)
  BY DEF Trades
<1>1. got' = [k \in Jobs |-> got'[k]] /\ got'[j] = g /\ \A k \in Jobs : k # j => got'[k] = got[k]
  BY DEF ResultsOK
<1> QED
  BY <1>0, <1>1 DEF ResultsOK

LEMMA ReturnedType ==
  ASSUME ResultsOK, NEW j \in Jobs, NEW call, Returned(j, call), request' = request
  PROVE  ResultsOK'
<1>0. IsResult(got[j]) /\ got[j].lost \subseteq Trades(j)
  BY DEF ResultsOK
<1>1. ASSUME NEW x, NEW y, got' = [got EXCEPT ![j].priced = x, ![j].aad = y] PROVE ResultsOK'
  <2>1. got' = [got EXCEPT ![j] = [[got[j] EXCEPT !.priced = x] EXCEPT !.aad = y]]
    BY <1>1 DEF ResultsOK
  <2> DEFINE g == [got[j] EXCEPT !.priced = x]
  <2>2. IsResult(g) /\ g.lost = got[j].lost
    BY <1>0, ResultFields
  <2> HIDE DEF g
  <2>3. IsResult([g EXCEPT !.aad = y]) /\ [g EXCEPT !.aad = y].lost = g.lost
    BY <2>2, ResultFields
  <2> QED
    BY <1>0, <2>1, <2>2, <2>3, ResultReplaced DEF g
<1>2. ASSUME NEW x \in SUBSET Trades(j), got' = [got EXCEPT ![j].lost = @ \cup x] PROVE ResultsOK'
  <2>1. got' = [got EXCEPT ![j] = [got[j] EXCEPT !.lost = got[j].lost \cup x]]
    BY <1>2 DEF ResultsOK
  <2>2. /\ IsResult([got[j] EXCEPT !.lost = got[j].lost \cup x])
        /\ [got[j] EXCEPT !.lost = got[j].lost \cup x].lost = got[j].lost \cup x
    BY <1>0, ResultFields
  <2>3. got[j].lost \cup x \subseteq Trades(j)
    BY <1>0
  <2> QED
    BY <2>1, <2>2, <2>3, <1>2, ResultReplaced
<1>3. ASSUME NEW x \in BOOLEAN, got' = [got EXCEPT ![j].parallel = x] PROVE ResultsOK'
  <2>1. got' = [got EXCEPT ![j] = [got[j] EXCEPT !.parallel = x]]
    BY <1>3 DEF ResultsOK
  <2>2. /\ IsResult([got[j] EXCEPT !.parallel = x])
        /\ [got[j] EXCEPT !.parallel = x].lost = got[j].lost
    BY <1>0, ResultFields
  <2> QED
    BY <1>0, <2>1, <2>2, ResultReplaced
<1>4. ASSUME NEW x, got' = [got EXCEPT ![j].keys = x] PROVE ResultsOK'
  <2>1. got' = [got EXCEPT ![j] = [got[j] EXCEPT !.keys = x]]
    BY <1>4 DEF ResultsOK
  <2>2. /\ IsResult([got[j] EXCEPT !.keys = x])
        /\ [got[j] EXCEPT !.keys = x].lost = got[j].lost
    BY <1>0, ResultFields
  <2> QED
    BY <1>0, <2>1, <2>2, ResultReplaced
<1>5. CASE UNCHANGED got
  <2>1. \A k \in Jobs : Trades(k)' = Trades(k)
    BY DEF Trades
  <2> QED
    BY <1>5, <2>1 DEF ResultsOK
<1>6. ASSUME NEW x, got' = [got EXCEPT ![j].aad = x] PROVE ResultsOK'
  <2>1. got' = [got EXCEPT ![j] = [got[j] EXCEPT !.aad = x]]
    BY <1>6 DEF ResultsOK
  <2>2. /\ IsResult([got[j] EXCEPT !.aad = x])
        /\ [got[j] EXCEPT !.aad = x].lost = got[j].lost
    BY <1>0, ResultFields
  <2> QED
    BY <1>0, <2>1, <2>2, ResultReplaced
<1> QED
  BY <1>1, <1>2, <1>3, <1>4, <1>5, <1>6 DEF Returned

LEMMA RaisedType ==
  ASSUME ResultsOK, NEW j \in Jobs, NativeRaises(j)
  PROVE  ResultsOK'
<1>0. IsResult(got[j]) /\ got[j].lost \subseteq Trades(j) /\ request' = request
  BY DEF ResultsOK, NativeRaises, envVars
<1>1. ASSUME got' = [got EXCEPT ![j].lost = Trades(j)] PROVE ResultsOK'
  <2>1. got' = [got EXCEPT ![j] = [got[j] EXCEPT !.lost = Trades(j)]]
    BY <1>1 DEF ResultsOK
  <2>2. /\ IsResult([got[j] EXCEPT !.lost = Trades(j)])
        /\ [got[j] EXCEPT !.lost = Trades(j)].lost = Trades(j)
    BY <1>0, ResultFields
  <2> QED
    BY <1>0, <2>1, <2>2, ResultReplaced
<1>2. ASSUME got' = [got EXCEPT ![j].jacobian = FALSE] PROVE ResultsOK'
  <2>1. got' = [got EXCEPT ![j] = [got[j] EXCEPT !.jacobian = FALSE]]
    BY <1>2 DEF ResultsOK
  <2>2. /\ IsResult([got[j] EXCEPT !.jacobian = FALSE])
        /\ [got[j] EXCEPT !.jacobian = FALSE].lost = got[j].lost
    BY <1>0, ResultFields
  <2> QED
    BY <1>0, <2>1, <2>2, ResultReplaced
<1>3. CASE UNCHANGED got
  <2>1. \A k \in Jobs : Trades(k)' = Trades(k)
    BY <1>0 DEF Trades
  <2> QED
    BY <1>3, <2>1 DEF ResultsOK
<1> QED
  BY <1>1, <1>2, <1>3 DEF NativeRaises

LEMMA ResultsStep ==
  ASSUME ResultsOK, [Next]_vars
  PROVE  ResultsOK'
<1>1. ASSUME NEW j \in Jobs, NativeCall(j) PROVE ResultsOK'
  BY <1>1, ReturnedType DEF NativeCall, envVars
<1>2. ASSUME NEW j \in Jobs, NativeRaises(j) PROVE ResultsOK'
  BY <1>2, RaisedType
<1>3. CASE UNCHANGED <<got, request>>
  <2>1. \A k \in Jobs : Trades(k)' = Trades(k)
    BY <1>3 DEF Trades
  <2> QED
    BY <1>3, <2>1 DEF ResultsOK
<1>4. CASE HandlerStep
  BY <1>3, <1>4 DEF HandlerStep, CreateFixingSnapshot, AuditSnapshot, Receive, Persist, PersistRaises, SubmitRun,
                    SubmitRunRaises, CancelRun, Fault, threadVars, envVars
<1>5. ASSUME NEW j \in Jobs, RunStep(j), ~NativeCall(j), ~NativeRaises(j) PROVE ResultsOK'
  BY <1>3, <1>5 DEF RunStep, TakeRun, Begin, Look, Succeed, PublishRun, AuditRun,
                    TimeOut, FailRun, WorkerRaises, ExitRun, RetireRun, Fault, threadVars, envVars
<1>6. CASE Crash \/ Restart \/ (\E j \in Jobs : Expire(j)) \/ UNCHANGED vars
  BY <1>3, <1>6 DEF Crash, Restart, Expire, threadVars, envVars, vars
<1> QED
  BY <1>1, <1>2, <1>4, <1>5, <1>6 DEF Next

LEMMA RiskTypeStep ==
  ASSUME RiskTypeOK, QueueHoldsWaitingJobs, [Next]_vars
  PROVE  RiskTypeOK' /\ QueueHoldsWaitingJobs'
<1>0. JobsTypeOK' /\ QueueHoldsWaitingJobs' /\ ResultsOK'
  BY ExecutorKept, ResultsStep DEF RiskTypeOK
<1> DEFINE Tables == /\ row' \in [Jobs -> Rows]
                     /\ matrices' = [j \in Jobs |-> matrices'[j]]
                     /\ audit' \subseteq Jobs
                     /\ hpc' \in [Jobs -> HandlerSteps]
                     /\ wpc' \in [Jobs -> ThreadSteps]
                     /\ up' \in BOOLEAN
<1> USE DEF RiskTypeOK, Rows, InFlight, Terminal, HandlerSteps, ThreadSteps
<1>1. ASSUME HandlerStep PROVE Tables
  BY <1>1 DEF HandlerStep, CreateFixingSnapshot, AuditSnapshot, Receive, Persist, PersistRaises, SubmitRun,
              SubmitRunRaises, CancelRun, Handler, Fault, tableVars, threadVars, envVars
<1>p. ASSUME NEW j \in Jobs, NEW state \in InFlight \cup Terminal, Publish(j, state, {}, FALSE),
             NEW step \in ThreadSteps, Thread(j, step), UNCHANGED <<audit, hpc, up>>
      PROVE  Tables
  BY <1>p DEF Publish, Thread
<1>2. ASSUME NEW j \in Jobs, TakeRun(j) \/ Begin(j) \/ Look(j) PROVE Tables
  <2>1. CASE TakeRun(j) \/ Look(j)
    BY <2>1 DEF TakeRun, Look, Thread, tableVars, envVars
  <2>3. CASE Begin(j)
    BY <1>p, <2>3 DEF Begin, envVars
  <2> QED
    BY <1>2, <2>1, <2>3
<1>3. ASSUME NEW j \in Jobs, NativeCall(j) \/ NativeRaises(j) PROVE Tables
  BY <1>3 DEF NativeCall, NativeRaises, Thread, tableVars, envVars
<1>4. ASSUME NEW j \in Jobs, PublishRun(j) PROVE Tables
  <2>1. got[j].parallel \in BOOLEAN
    BY DEF ResultsOK, IsResult
  <2> QED
    BY <1>4, <2>1 DEF PublishRun, Publish, Thread, envVars
<1>5. ASSUME NEW j \in Jobs, Succeed(j) \/ AuditRun(j) \/ TimeOut(j) \/ FailRun(j) PROVE Tables
  <2>1. CASE Succeed(j)
    BY <2>1 DEF Succeed, Thread, tableVars, envVars
  <2>2. CASE AuditRun(j)
    BY <2>2 DEF AuditRun, Thread, envVars
  <2>3. CASE TimeOut(j) \/ FailRun(j)
    BY <1>p, <2>3 DEF TimeOut, FailRun, envVars
  <2> QED
    BY <1>5, <2>1, <2>2, <2>3
<1>6. ASSUME NEW j \in Jobs, WorkerRaises(j) \/ ExitRun(j) \/ RetireRun(j) PROVE Tables
  BY <1>6 DEF WorkerRaises, ExitRun, RetireRun, Thread, Fault, tableVars, threadVars, envVars
<1>7. ASSUME Crash PROVE Tables
  BY <1>7 DEF Crash, tableVars
<1>8. ASSUME Restart PROVE Tables
  BY <1>8 DEF Restart, threadVars
<1>9. ASSUME (\E j \in Jobs : Expire(j)) \/ UNCHANGED vars PROVE Tables
  BY <1>9 DEF Expire, tableVars, threadVars, envVars, vars
<1> HIDE DEF Tables
<1>10. Tables
  BY <1>1, <1>2, <1>3, <1>4, <1>5, <1>6, <1>7, <1>8, <1>9 DEF Next, RunStep
<1> QED
  BY <1>0, <1>10 DEF Tables
-----------------------------------------------------------------------------
(* Ownership, one action at a time: k is any job, j the one that moves.    *)
Owned(k) == HandlerOwns(k) /\ ThreadOwns(k) /\ Quiet(k)

LEMMA HandlerOwnership ==
  ASSUME RiskTypeOK, RowsOwned, up, HandlerStep, NEW k \in Jobs
  PROVE  Owned(k)'
<1>0. Owned(k) /\ up'
  BY DEF RowsOwned, Owned, HandlerStep, CreateFixingSnapshot, AuditSnapshot, Receive, Persist, PersistRaises,
         SubmitRun, SubmitRunRaises, CancelRun, Fault, envVars
<1> USE <1>0 DEF RiskTypeOK, Rows, HandlerSteps, ThreadSteps, Owned, HandlerOwns, ThreadOwns,
                 Quiet, Handler, InFlight, Terminal, JobsTypeOK, Statuses
<1>1. ASSUME AuditSnapshot \/ \E covers : CreateFixingSnapshot(covers) PROVE Owned(k)'
  BY <1>1 DEF CreateFixingSnapshot, AuditSnapshot, jobVars, threadVars
<1>2. ASSUME NEW j \in Jobs, Receive(j) PROVE Owned(k)'
  BY <1>2 DEF Receive, Reserve, tableVars, threadVars
<1>3. ASSUME NEW j \in Jobs, Persist(j) PROVE Owned(k)'
  BY <1>3 DEF Persist, jobVars, threadVars
<1>4. ASSUME NEW j \in Jobs, PersistRaises(j) PROVE Owned(k)'
  BY <1>4 DEF PersistRaises, jobVars, tableVars, threadVars
<1>5. ASSUME NEW j \in Jobs, SubmitRun(j) PROVE Owned(k)'
  BY <1>5 DEF SubmitRun, Submit, tableVars, threadVars
<1>6. ASSUME NEW j \in Jobs, SubmitRunRaises(j) PROVE Owned(k)'
  BY <1>6 DEF SubmitRunRaises, SubmitRaises, tableVars, threadVars
<1>7. ASSUME NEW j \in Jobs, CancelRun(j) PROVE Owned(k)'
  BY <1>7 DEF CancelRun, Cancel, tableVars, threadVars
<1> QED
  BY <1>1, <1>2, <1>3, <1>4, <1>5, <1>6, <1>7 DEF HandlerStep

LEMMA ThreadOwnership ==
  ASSUME RiskTypeOK, QueueHoldsWaitingJobs, RowsOwned, up, NEW j \in Jobs, RunStep(j),
         NEW k \in Jobs
  PROVE  Owned(k)'
<1>0. Owned(k) /\ Owned(j) /\ up'
  BY DEF RowsOwned, Owned, RunStep, TakeRun, Begin, Look, NativeCall, NativeRaises,
         Succeed, PublishRun, AuditRun, TimeOut, FailRun, WorkerRaises, ExitRun, RetireRun, Fault,
         envVars
<1> USE <1>0 DEF RiskTypeOK, Rows, HandlerSteps, ThreadSteps, Owned, HandlerOwns, ThreadOwns,
                 Quiet, Thread, InFlight, Terminal, JobsTypeOK, Statuses
<1>1. CASE TakeRun(j)
  <2>1. resv[j] = "queued"
    BY <1>1, TakenJobWaits DEF TakeRun
  <2> QED
    BY <1>1, <2>1 DEF TakeRun, Take, tableVars
<1>2. CASE Begin(j)
  BY <1>2 DEF Begin, Publish, jobVars
<1>3. CASE Look(j) \/ Succeed(j)
  BY <1>3 DEF Look, Succeed, jobVars, tableVars
<1>4. CASE NativeCall(j)
  BY <1>4 DEF NativeCall, jobVars, tableVars
<1>5. CASE NativeRaises(j)
  BY <1>5 DEF NativeRaises, jobVars, tableVars
<1>6. CASE PublishRun(j)
  BY <1>6 DEF PublishRun, Publish, jobVars
<1>7. CASE AuditRun(j)
  BY <1>7 DEF AuditRun, jobVars
<1>8. CASE TimeOut(j)
  BY <1>8 DEF TimeOut, Publish, jobVars
<1>9. CASE FailRun(j)
  BY <1>9 DEF FailRun, Publish, jobVars
<1>10. CASE WorkerRaises(j)
  BY <1>10 DEF WorkerRaises, jobVars, tableVars
<1>11. CASE ExitRun(j)
  BY <1>11 DEF ExitRun, Release, tableVars
<1>12. CASE RetireRun(j)
  BY <1>12 DEF RetireRun, Retire, tableVars, threadVars
<1> QED
  BY <1>1, <1>2, <1>3, <1>4, <1>5, <1>6, <1>7, <1>8, <1>9, <1>10, <1>11, <1>12 DEF RunStep

LEMMA OwnershipStep ==
  ASSUME RiskTypeOK, QueueHoldsWaitingJobs, RowsOwned, [Next]_vars
  PROVE  RowsOwned'
<1> SUFFICES ASSUME NEW k \in Jobs PROVE Owned(k)'
  BY DEF RowsOwned, Owned
<1>0. Owned(k)
  BY DEF RowsOwned, Owned
<1>1. CASE (up /\ HandlerStep) \/ (up /\ \E j \in Jobs : RunStep(j))
  BY <1>1, HandlerOwnership, ThreadOwnership
<1> USE <1>0 DEF RiskTypeOK, Rows, Owned, HandlerOwns, ThreadOwns, Quiet, InFlight, Terminal,
                 JobsTypeOK, HandlerSteps
<1>2. CASE (\E j \in Jobs : Expire(j)) \/ UNCHANGED vars
  BY <1>2 DEF Expire, vars, jobVars, tableVars, threadVars, envVars
<1>3. CASE Crash
  BY <1>3 DEF Crash, tableVars
<1>4. CASE Restart
  BY <1>4 DEF Restart, jobVars, threadVars
<1> QED
  BY <1>1, <1>2, <1>3, <1>4 DEF Next
-----------------------------------------------------------------------------
(* Results.                                                                *)
LEMMA SameMatrices ==
  ASSUME NEW k \in Jobs, got'[k] = got[k], request' = request
  PROVE  MatricesOf(k)' = MatricesOf(k)
<1>1. Trades(k)' = Trades(k)
  BY DEF Trades
<1>2. \A i : Parity(k, i)' = Parity(k, i)
  BY DEF Parity
<1>3. \A i : TradeMethod(k, i)' = TradeMethod(k, i)
  BY <1>2 DEF TradeMethod
<1>4. Methods(k)' = Methods(k)
  BY <1>1, <1>3 DEF Methods
<1>5. [i \in Trades(k) |-> TradeMethod(k, i)]' = [i \in Trades(k) |-> TradeMethod(k, i)]
  BY <1>1, <1>3
<1> QED
  BY <1>4, <1>5 DEF MatricesOf, NodesAvailable, MatrixMethod

(* Whoever leaves a row and its results alone leaves them published; a run *)
(* whose results still change has not succeeded.                           *)
LEMMA PublishedKept ==
  ASSUME NEW k \in Jobs, Published(k), row'[k] = row[k], matrices'[k] = matrices[k],
         row[k].state = "SUCCEEDED" => got'[k] = got[k], request' = request
  PROVE  Published(k)'
  BY SameMatrices DEF Published

LEMMA RunPublished ==
  ASSUME RiskTypeOK, RowsOwned, NEW j \in Jobs, RunStep(j), NEW k \in Jobs, Published(k)
  PROVE  Published(k)'
<1>0. Owned(j)
  BY DEF RowsOwned, Owned
<1>r. request' = request
  BY DEF RunStep, TakeRun, Begin, Look, NativeCall, NativeRaises,
         Succeed, PublishRun, AuditRun, TimeOut, FailRun, WorkerRaises, ExitRun, RetireRun, Fault,
         envVars
<1> USE <1>r
<1>1. ASSUME NEW state, state # "SUCCEEDED", Publish(j, state, {}, FALSE), got' = got
      PROVE  Published(k)'
  <2>1. CASE k = j
    BY <1>1, <2>1 DEF Publish, Published, RiskTypeOK, Rows
  <2>2. CASE k # j
    BY <1>1, <2>2, PublishedKept DEF Publish, RiskTypeOK
  <2> QED
    BY <2>1, <2>2
<1>2. CASE TakeRun(j) \/ Look(j) \/ Succeed(j) \/ AuditRun(j) \/ WorkerRaises(j)
             \/ ExitRun(j) \/ RetireRun(j)
  BY <1>2, PublishedKept DEF TakeRun, Look, Succeed, AuditRun, WorkerRaises, ExitRun,
                             RetireRun, tableVars, threadVars
<1>3. CASE Begin(j) \/ TimeOut(j) \/ FailRun(j)
  BY <1>1, <1>3 DEF Begin, TimeOut, FailRun
<1>4. CASE PublishRun(j)
  <2>1. CASE k = j
    <3>1. row'[k].state = "SUCCEEDED" /\ row'[k].dv01 = got[k].parallel
      BY <1>4, <2>1 DEF PublishRun, Publish, RiskTypeOK, Rows
    <3>2. matrices'[k] = MatricesOf(k) /\ got' = got
      BY <1>4, <2>1 DEF PublishRun, Publish, RiskTypeOK
    <3> QED
      BY <3>1, <3>2, SameMatrices DEF Published
  <2>2. CASE k # j
    BY <1>4, <2>2, PublishedKept DEF PublishRun, Publish, RiskTypeOK
  <2> QED
    BY <2>1, <2>2
<1>5. CASE NativeCall(j) \/ NativeRaises(j)
  <2>1. row' = row /\ matrices' = matrices /\ row[j].state # "SUCCEEDED"
    BY <1>0, <1>5 DEF NativeCall, NativeRaises, tableVars, Owned, ThreadOwns, InFlight
  <2>2. k # j => got'[k] = got[k]
    BY <1>5 DEF NativeCall, NativeRaises, Returned, RiskTypeOK, ResultsOK
  <2> QED
    BY <2>1, <2>2, PublishedKept
<1> QED
  BY <1>2, <1>3, <1>4, <1>5 DEF RunStep

LEMMA ResultsPublishedStep ==
  ASSUME RiskTypeOK, RowsOwned, ResultsPublished, [Next]_vars
  PROVE  ResultsPublished'
<1> SUFFICES ASSUME NEW k \in Jobs PROVE Published(k)'
  BY DEF ResultsPublished
<1>0. Published(k)
  BY DEF ResultsPublished
<1>1. CASE HandlerStep
  <2>1. matrices' = matrices /\ got' = got /\ request' = request
    BY <1>1 DEF HandlerStep, CreateFixingSnapshot, AuditSnapshot, Receive, Persist, PersistRaises, SubmitRun,
                SubmitRunRaises, CancelRun, Fault, tableVars, threadVars, envVars
  <2>2. \/ row'[k] = row[k]
        \/ /\ row'[k].state # "SUCCEEDED" /\ row[k].state # "SUCCEEDED"
           /\ row'[k].dv01 = row[k].dv01
    BY <1>1 DEF HandlerStep, CreateFixingSnapshot, AuditSnapshot, Receive, Persist, PersistRaises, SubmitRun,
                SubmitRunRaises, CancelRun, tableVars, RiskTypeOK, Rows, RowsOwned, HandlerOwns
  <2> QED
    BY <1>0, <2>1, <2>2, PublishedKept DEF Published
<1>2. ASSUME NEW j \in Jobs, RunStep(j) PROVE Published(k)'
  BY <1>0, <1>2, RunPublished
<1>3. CASE Crash \/ (\E j \in Jobs : Expire(j)) \/ UNCHANGED vars
  BY <1>0, <1>3, PublishedKept DEF Crash, Expire, tableVars, threadVars, vars, envVars
<1>4. CASE Restart
  <2>1. matrices' = matrices /\ got' = got /\ request' = request
    BY <1>4 DEF Restart, threadVars
  <2>2. \/ row'[k] = row[k]
        \/ /\ row'[k].state # "SUCCEEDED" /\ row[k].state # "SUCCEEDED"
           /\ row'[k].dv01 = row[k].dv01
    BY <1>4 DEF Restart, RiskTypeOK, Rows, InFlight
  <2> QED
    BY <1>0, <2>1, <2>2, PublishedKept DEF Published
<1> QED
  BY <1>1, <1>2, <1>3, <1>4 DEF Next

LEMMA RiskStep == RiskInv /\ [Next]_vars => RiskInv'
  BY RiskTypeStep, OwnershipStep, ResultsPublishedStep DEF RiskInv

(* The invariant of every reachable state.                                 *)
THEOREM RiskInvariant == Spec => []RiskInv
  BY RiskInit, RiskStep, PTL DEF Spec
-----------------------------------------------------------------------------
(* Ended runs stay ended: no handler, thread or sweep owns them, but for   *)
(* the guard that failed to audit a success.                               *)
LEMMA EndedRunStays ==
  ASSUME RiskInv, [Next]_vars, NEW k \in Jobs, row[k].state \in Terminal
  PROVE  \/ row'[k] = row[k] /\ matrices'[k] = matrices[k]
         \/ /\ row[k].state = "SUCCEEDED" /\ row'[k].state = "FAILED"
            /\ k \notin audit' /\ wpc[k] = "failed"
<1> USE DEF RiskInv, RiskTypeOK, Rows, InFlight, Terminal
<1>0. Owned(k)
  BY DEF RowsOwned, Owned
<1>1. CASE HandlerStep
  BY <1>0, <1>1 DEF HandlerStep, CreateFixingSnapshot, AuditSnapshot, Receive, Persist, PersistRaises, SubmitRun,
                    SubmitRunRaises, CancelRun, tableVars, Owned, HandlerOwns
<1>2. ASSUME NEW j \in Jobs, TakeRun(j) \/ Look(j) \/ NativeCall(j) \/ NativeRaises(j)
                               \/ Succeed(j) \/ AuditRun(j) \/ WorkerRaises(j) \/ ExitRun(j)
                               \/ RetireRun(j)
      PROVE  row' = row /\ matrices' = matrices
  BY <1>2 DEF TakeRun, Look, NativeCall, NativeRaises, Succeed, AuditRun, WorkerRaises,
              ExitRun, RetireRun, tableVars
<1>3. ASSUME NEW j \in Jobs, Begin(j) \/ PublishRun(j) \/ TimeOut(j)
      PROVE  row'[k] = row[k] /\ matrices'[k] = matrices[k]
  <2>1. k # j
    BY <1>0, <1>3 DEF Begin, PublishRun, TimeOut, Owned, ThreadOwns
  <2> QED
    BY <1>3, <2>1 DEF Begin, PublishRun, TimeOut, Publish
<1>4. ASSUME NEW j \in Jobs, FailRun(j), k = j
      PROVE  /\ row[k].state = "SUCCEEDED" /\ row'[k].state = "FAILED"
             /\ k \notin audit' /\ wpc[k] = "failed"
  BY <1>0, <1>4 DEF FailRun, Publish, Owned, ThreadOwns
<1>5. ASSUME NEW j \in Jobs, FailRun(j), k # j
      PROVE  row'[k] = row[k] /\ matrices'[k] = matrices[k]
  BY <1>5 DEF FailRun, Publish
<1>6. CASE Crash \/ Restart \/ (\E j \in Jobs : Expire(j)) \/ UNCHANGED vars
  BY <1>6 DEF Crash, Restart, Expire, tableVars, vars
<1> QED
  BY <1>1, <1>2, <1>3, <1>4, <1>5, <1>6 DEF Next, RunStep

(* For any workload, any limits and any faults, the outcome of a risk run  *)
(* is final; the one exception is a success that could not be audited.     *)
THEOREM OutcomesAreFinal == Spec => OutcomesStand
<1>1. RiskInv /\ [Next]_vars =>
        [\A j \in Jobs : row[j].state \in Terminal =>
           \/ row'[j] = row[j] /\ matrices'[j] = matrices[j]
           \/ /\ row[j].state = "SUCCEEDED" /\ row'[j].state = "FAILED"
              /\ j \notin audit' /\ wpc[j] = "failed"]_vars
  BY EndedRunStays
<1> QED
  BY <1>1, RiskInvariant, PTL DEF Spec, OutcomesStand
-----------------------------------------------------------------------------
(* What the matrices of a finished run say of its native calls.            *)
Blobs(j) == MatricesOf(j)

(* Each matrix is there once: its name decides the rest of it.             *)
LEMMA NamedOnce ==
  ASSUME NEW j \in Jobs
  PROVE  Cardinality(Blobs(j)) = Cardinality({m.matrix_id : m \in Blobs(j)})
<1> DEFINE names == {m.matrix_id : m \in Blobs(j)}
           name == [m \in Blobs(j) |-> m.matrix_id]
           a == Matrix("trade-to-node", NodesAvailable(j),
                       IF NodesAvailable(j) THEN MatrixMethod(j)
                       ELSE "CENTRAL_NATIVE_PARAMETER_BUMP",
                       [i \in Trades(j) |-> TradeMethod(j, i)])
           b == Matrix("calibration-jacobian", got[j].jacobian, "CENTRAL_FULL_RECALIBRATION", <<>>)
           c == Matrix("composed-quote-diagnostic", NodesAvailable(j) /\ got[j].jacobian,
                       "MATRIX_COMPOSITION", <<>>)
           d == Matrix("key-rate-dv01", got[j].keys /\ got[j].parallel, "FULL_RECALIBRATION", <<>>)
<1>1. Blobs(j) \subseteq {a, b, c, d}
  BY DEF Blobs, MatricesOf
<1>2. /\ a.matrix_id = "trade-to-node" /\ b.matrix_id = "calibration-jacobian"
      /\ c.matrix_id = "composed-quote-diagnostic" /\ d.matrix_id = "key-rate-dv01"
  BY DEF Matrix
<1> HIDE DEF a, b, c, d
<1>3. IsFiniteSet({a, b, c, d})
  <2>1. \A S, x : IsFiniteSet(S) => IsFiniteSet(S \cup {x})
    BY FS_AddElement
  <2>2. IsFiniteSet({a})
    BY FS_Singleton
  <2>3. IsFiniteSet({a} \cup {b})
    BY <2>1, <2>2
  <2>4. IsFiniteSet({a} \cup {b} \cup {c})
    BY <2>1, <2>3
  <2>5. IsFiniteSet({a} \cup {b} \cup {c} \cup {d})
    BY <2>1, <2>4
  <2>6. {a} \cup {b} \cup {c} \cup {d} = {a, b, c, d}
    OBVIOUS
  <2> QED
    BY <2>5, <2>6
<1>4. IsFiniteSet(Blobs(j))
  BY <1>1, <1>3, FS_Subset
<1>5. \A m, n \in Blobs(j) : m.matrix_id = n.matrix_id => m = n
  BY <1>1, <1>2
<1>6. name \in Bijection(Blobs(j), names)
  BY <1>5 DEF Bijection, Injection, Surjection, IsInjective
<1> QED
  BY <1>4, <1>6, FS_Bijection DEF ExistsBijection

(* The fields of a matrix.                                                 *)
LEMMA MatrixFields ==
  ASSUME NEW id, NEW available, NEW method, NEW rows
  PROVE  /\ Matrix(id, available, method, rows).matrix_id = id
         /\ Matrix(id, available, method, rows).available = available
         /\ Matrix(id, available, method, rows).method = method
         /\ Matrix(id, available, method, rows).rows = rows
  BY DEF Matrix

(* The method chosen for a trade is one that its calls bear out.           *)
LEMMA RowsAreTruthful ==
  ASSUME NEW j \in Jobs, NEW i
  PROVE  RowIsTruthful(j, TradeMethod(j, i), i)
<1> DEFINE m == TradeMethod(j, i)
<1>1. CASE i \in got[j].lost
  <2>1. Parity(j, i) = "UNAVAILABLE"
    BY <1>1 DEF Parity
  <2>2. m \in Failures
    BY <1>1, <2>1 DEF TradeMethod, Failures
  <2> QED
    BY <2>2 DEF RowIsTruthful, Failures
<1>2. CASE i \notin got[j].lost
  <2>1. CASE got[j].aad[i] = "agrees"
    <3>1. m = "NATIVE_AAD"
      BY <1>2, <2>1 DEF TradeMethod, Parity
    <3> QED
      BY <1>2, <2>1, <3>1 DEF RowIsTruthful
  <2>2. CASE got[j].aad[i] \notin {"none", "agrees"}
    <3>1. m = IF request[j].aad_fallback = "ALLOW"
              THEN "CENTRAL_PARAMETER_BUMP_AFTER_AAD_PARITY_FAILURE" ELSE "FAILED_AAD_PARITY"
      BY <1>2, <2>2 DEF TradeMethod, Parity
    <3> QED
      BY <1>2, <2>2, <3>1 DEF RowIsTruthful, Failures
  <2>3. CASE got[j].aad[i] = "none"
    <3>1. m = IF request[j].aad_fallback = "ALLOW"
              THEN "CENTRAL_NATIVE_PARAMETER_BUMP" ELSE "FAILED_AAD_EXECUTION"
      BY <1>2, <2>3 DEF TradeMethod, Parity
    <3> QED
      BY <1>2, <2>3, <3>1 DEF RowIsTruthful, Failures
  <2> QED
    BY <2>1, <2>2, <2>3
<1> QED
  BY <1>1, <1>2

(* So does the matrix of its rows.                                         *)
LEMMA NodesTellTheTruth ==
  ASSUME NEW j \in Jobs, NEW m,
         m = Matrix("trade-to-node", NodesAvailable(j),
                    IF NodesAvailable(j) THEN MatrixMethod(j) ELSE "CENTRAL_NATIVE_PARAMETER_BUMP",
                    [i \in Trades(j) |-> TradeMethod(j, i)])
  PROVE  NodesAreTruthful(j, m)
<1>1. /\ m.available = NodesAvailable(j)
      /\ m.rows = [i \in Trades(j) |-> TradeMethod(j, i)]
      /\ m.method = IF NodesAvailable(j) THEN MatrixMethod(j) ELSE "CENTRAL_NATIVE_PARAMETER_BUMP"
  BY MatrixFields
<1>2. \A i \in Trades(j) : m.rows[i] = TradeMethod(j, i)
  BY <1>1
<1>3. \A x : x \in Methods(j) <=> \E i \in Trades(j) : m.rows[i] = x
  BY <1>2 DEF Methods
<1>4. \A i \in Trades(j) : RowIsTruthful(j, m.rows[i], i)
  BY <1>2, RowsAreTruthful
<1>5. NodesAvailable(j) <=> \A i \in Trades(j) : m.rows[i] \notin Failures
  BY <1>3 DEF NodesAvailable
<1>6. Methods(j) = {"NATIVE_AAD"} <=> Trades(j) # {} /\ \A i \in Trades(j) : m.rows[i] = "NATIVE_AAD"
  <2>1. ASSUME Methods(j) = {"NATIVE_AAD"}
        PROVE  Trades(j) # {} /\ \A i \in Trades(j) : m.rows[i] = "NATIVE_AAD"
    <3>1. "NATIVE_AAD" \in Methods(j)
      BY <2>1
    <3> QED
      BY <1>3, <2>1, <3>1
  <2>2. ASSUME Trades(j) # {}, \A i \in Trades(j) : m.rows[i] = "NATIVE_AAD"
        PROVE  Methods(j) = {"NATIVE_AAD"}
    <3>1. \A x : x \in Methods(j) <=> x = "NATIVE_AAD"
      BY <1>3, <2>2
    <3> QED
      BY <3>1
  <2> QED
    BY <2>1, <2>2
<1>7. Methods(j) = {"NATIVE_AAD"} => NodesAvailable(j)
  BY DEF NodesAvailable, Failures
<1>8. m.method = "NATIVE_AAD_PARITY_VERIFIED" <=> Methods(j) = {"NATIVE_AAD"}
  BY <1>1, <1>7 DEF MatrixMethod
<1>9. ASSUME m.method = "CENTRAL_PARAMETER_BUMP_AFTER_AAD_PARITY_FAILURE"
      PROVE  \A i \in Trades(j) : m.rows[i] = m.method
  <2>1. Methods(j) = {"CENTRAL_PARAMETER_BUMP_AFTER_AAD_PARITY_FAILURE"}
    BY <1>1, <1>9 DEF MatrixMethod
  <2> QED
    BY <1>3, <1>9, <2>1
<1>10. DOMAIN m.rows = Trades(j)
  BY <1>1
<1> QED
  BY <1>1, <1>4, <1>5, <1>6, <1>8, <1>9, <1>10 DEF NodesAreTruthful

LEMMA RunIsTruthful ==
  ASSUME RiskInv, NEW j \in Jobs, row[j].state = "SUCCEEDED"
  PROVE  LET r == request[j] IN
           /\ Cardinality(matrices[j]) = Cardinality(Ids(j))
           /\ "trade-to-node" \in Ids(j) <=> NeedsNodes(r)
           /\ "calibration-jacobian" \in Ids(j) <=> NeedsJacobian(r)
           /\ "key-rate-dv01" \in Ids(j) <=> "KEY_RATE_DV01" \in r.measures
           /\ "calibration-jacobian" \in Available(j) => got[j].jacobian
           /\ "key-rate-dv01" \in Available(j) => row[j].dv01 /\ got[j].keys
           /\ "composed-quote-diagnostic" \in Available(j) <=>
                /\ "COMPOSED_QUOTE_DIAGNOSTIC" \in r.layers
                /\ {"trade-to-node", "calibration-jacobian"} \subseteq Available(j)
           /\ \A m \in matrices[j] : m.matrix_id = "trade-to-node" => NodesAreTruthful(j, m)
<1> DEFINE r == request[j]
           nodes == NodesAvailable(j)
           jacobian == got[j].jacobian
           both == nodes /\ jacobian
           keys == got[j].keys /\ got[j].parallel
           method == IF nodes THEN MatrixMethod(j) ELSE "CENTRAL_NATIVE_PARAMETER_BUMP"
           rows == [i \in Trades(j) |-> TradeMethod(j, i)]
           composed == "COMPOSED_QUOTE_DIAGNOSTIC" \in r.layers
           rated == "KEY_RATE_DV01" \in r.measures
<1>1. matrices[j] = MatricesOf(j) /\ row[j].dv01 = got[j].parallel
  BY DEF RiskInv, ResultsPublished, Published
<1>2. Cardinality(matrices[j]) = Cardinality(Ids(j))
  BY <1>1, NamedOnce DEF Blobs, Ids
<1>3. \A m : m \in matrices[j] <=>
        \/ NeedsNodes(r) /\ m = Matrix("trade-to-node", nodes, method, rows)
        \/ NeedsJacobian(r)
             /\ m = Matrix("calibration-jacobian", jacobian, "CENTRAL_FULL_RECALIBRATION", <<>>)
        \/ composed
             /\ m = Matrix("composed-quote-diagnostic", both, "MATRIX_COMPOSITION", <<>>)
        \/ rated /\ m = Matrix("key-rate-dv01", keys, "FULL_RECALIBRATION", <<>>)
  BY <1>1 DEF MatricesOf
<1>4. composed => NeedsNodes(r) /\ NeedsJacobian(r)
  BY DEF NeedsNodes, NeedsJacobian
<1>5. \A m : m = Matrix("trade-to-node", nodes, method, rows) => NodesAreTruthful(j, m)
  BY NodesTellTheTruth
<1>6. keys => row[j].dv01 /\ got[j].keys
  BY <1>1
<1> HIDE DEF nodes, both, keys, method, rows, composed, rated
<1>7. /\ "trade-to-node" \in Ids(j) <=> NeedsNodes(r)
      /\ "calibration-jacobian" \in Ids(j) <=> NeedsJacobian(r)
      /\ "key-rate-dv01" \in Ids(j) <=> rated
  BY <1>3, MatrixFields DEF Ids
<1>8. /\ "trade-to-node" \in Available(j) <=> NeedsNodes(r) /\ nodes
      /\ "calibration-jacobian" \in Available(j) <=> NeedsJacobian(r) /\ jacobian
      /\ "composed-quote-diagnostic" \in Available(j) <=> composed /\ nodes /\ jacobian
      /\ "key-rate-dv01" \in Available(j) <=> rated /\ keys
  <2>1. \A id : id \in Available(j) <=> \E m \in matrices[j] : m.available /\ m.matrix_id = id
    BY DEF Available
  <2> HIDE DEF jacobian
  <2>2. "trade-to-node" \in Available(j) <=> NeedsNodes(r) /\ nodes
    BY <1>3, <2>1, MatrixFields
  <2>3. "calibration-jacobian" \in Available(j) <=> NeedsJacobian(r) /\ jacobian
    BY <1>3, <2>1, MatrixFields
  <2>4. "composed-quote-diagnostic" \in Available(j) <=> composed /\ both
    BY <1>3, <2>1, MatrixFields
  <2>5. "key-rate-dv01" \in Available(j) <=> rated /\ keys
    BY <1>3, <2>1, MatrixFields
  <2> QED
    BY <2>2, <2>3, <2>4, <2>5 DEF both
<1>9. \A m \in matrices[j] : m.matrix_id = "trade-to-node" => NodesAreTruthful(j, m)
  BY <1>3, <1>5, MatrixFields
<1> QED
  BY <1>2, <1>4, <1>6, <1>7, <1>8, <1>9 DEF composed, rated

(* For any workload, any limits and any faults: matrices exist only under  *)
(* a successful run, exactly those that were asked for, and they claim no  *)
(* more than its native calls showed.                                      *)
THEOREM MatricesTellTheTruth == Spec => []MatricesAreTruthful
<1>1. ASSUME RiskInv, NEW j \in Jobs, matrices[j] # {} \/ row[j].dv01 \/ j \in audit
      PROVE  row[j].state = "SUCCEEDED"
  BY <1>1 DEF RiskInv, ResultsPublished, Published, RowsOwned, ThreadOwns
<1>2. RiskInv => MatricesAreTruthful
  BY <1>1, RunIsTruthful DEF MatricesAreTruthful
<1> QED
  BY <1>2, RiskInvariant, PTL
-----------------------------------------------------------------------------
(***************************************************************************)
(* The work of a run.  What it has spent and what its remaining calls will *)
(* cost stay within what the estimate counted, and are exactly that while  *)
(* no layer was given up.                                                  *)
(***************************************************************************)
PriceCalls(t) == t.base + t.node + t.parallel + t.key
SolveCalls(t) == t.jacobian + t.parallel + t.key

NothingSpent == [prices |-> 0, solves |-> 0, aads |-> 0]

Sized(r) == Countable(r) /\ r.C \in Nat

(* The axes of every request are numbers.                                  *)
LEMMA RequestsAreSized ==
  ASSUME request \in Workloads, NEW j \in Jobs, request[j] # None
  PROVE  Sized(request[j])
<1>1. Countable(request[j]) /\ request[j].C \in 0 .. request[j].P
  BY RiskAssumption
<1> QED
  BY <1>1, RiskWorkAssumption DEF Sized, Countable
Admitted(j) == request[j] # None /\ AdmitsWork(request[j])

WorkWithin(j) ==
  LET r == request[j] IN
    /\ spent[j].prices + r.T * PriceCalls(todo[j]) <= Prices(r) - Aads(r)
    /\ spent[j].solves + SolveCalls(todo[j]) <= Solves(r)
    /\ spent[j].aads + todo[j].aad <= AadCalls(r)

WorkExact(j) ==
  LET r == request[j] IN
    /\ spent[j].prices + r.T * PriceCalls(todo[j]) = Prices(r) - Aads(r)
    /\ spent[j].solves + SolveCalls(todo[j]) = Solves(r)
    /\ spent[j].aads + todo[j].aad = AadCalls(r)

Counted(j) ==
  /\ spent[j] \in [prices : Nat, solves : Nat, aads : Nat]
  /\ todo[j] \in [Calls -> Nat]
  /\ hpc[j] # "none" => Admitted(j) /\ WorkWithin(j)
  /\ wpc[j] = "begin" => row[j].state = "QUEUED"
  /\ row[j].state \in {"ABSENT", "QUEUED"} => spent[j] = NothingSpent /\ todo[j] = NoCalls
  /\ wpc[j] = "publish" \/ row[j].state = "SUCCEEDED" => todo[j] = NoCalls
  /\ wpc[j] \in {"native", "calling", "publish"} \/ row[j].state = "SUCCEEDED" =>
       (got[j].jacobian /\ got[j].lost = {} => WorkExact(j))

WorkCounted ==
  /\ request \in Workloads
  /\ todo = [j \in Jobs |-> todo[j]] /\ spent = [j \in Jobs |-> spent[j]]
  /\ \A j \in Jobs : Counted(j)
-----------------------------------------------------------------------------
LEMMA Axes ==
  ASSUME NEW r, Sized(r)
  PROVE  /\ r.T \in Nat /\ r.P \in Nat /\ r.Q \in Nat
         /\ Nodes(r) \in Nat /\ Aads(r) \in Nat /\ Quotes(r) \in Nat /\ Replays(r) \in Nat
         /\ Prices(r) \in Nat /\ AadCalls(r) \in Nat
         /\ Prices(r) - Aads(r) = r.T * (1 + Nodes(r) + Quotes(r))
         /\ Prices(r) - Aads(r) \in Nat
         /\ Solves(r) = Quotes(r) + Replays(r)
         /\ Solves(r) \in Nat
<1>1. r.T \in Nat /\ r.P \in Nat /\ r.Q \in Nat /\ r.C \in Nat
  BY RiskWorkAssumption DEF Sized, Countable
<1>2. Nodes(r) \in Nat /\ Aads(r) \in Nat /\ Quotes(r) \in Nat /\ Replays(r) \in Nat
  BY BumpsAreFaithful DEF Faithful, Sized
<1>8. AadCalls(r) \in Nat
  <2>1. r.T * r.C \in Nat
    BY <1>1
  <2> QED
    BY <2>1 DEF AadCalls
<1> DEFINE t == r.T
           n == Nodes(r)
           q == Quotes(r)
           a == Aads(r)
<1>3. Prices(r) = t + n * t + a + q * t /\ Solves(r) = q + Replays(r)
  BY DEF Prices, Solves
<1>4. t \in Nat /\ n \in Nat /\ q \in Nat /\ a \in Nat
  BY <1>1, <1>2
<1> HIDE DEF t, n, q, a
<1>5. n * t \in Nat /\ q * t \in Nat
  BY <1>4
<1>6. t * (1 + n + q) = t + n * t + q * t
  BY <1>4
<1>7. Prices(r) \in Nat /\ Prices(r) - a = t * (1 + n + q) /\ Prices(r) - a \in Nat
  BY <1>3, <1>4, <1>5, <1>6
<1> QED
  BY <1>1, <1>2, <1>3, <1>7, <1>8 DEF t, n, q, a

(* The calls of a run are the bumps the estimate counted.                  *)
LEMMA CallsAreCounted ==
  ASSUME NEW r, Sized(r)
  PROVE  /\ CallsFor(r) \in [Calls -> Nat]
         /\ PriceCalls(CallsFor(r)) = 1 + Nodes(r) + Quotes(r)
         /\ SolveCalls(CallsFor(r)) = Quotes(r) + Replays(r)
         /\ CallsFor(r).aad = AadCalls(r)
<1>1. r.T \in Nat /\ r.P \in Nat /\ r.Q \in Nat /\ AadCalls(r) \in Nat
  BY Axes
<1>2. PICK c : c = CallsFor(r)
  OBVIOUS
<1>3. /\ c.base = 1 /\ c.aad = AadCalls(r)
      /\ c.node = IF NeedsNodes(r) THEN 2 * r.P ELSE 0
      /\ c.jacobian = IF NeedsJacobian(r) THEN 2 * r.Q ELSE 0
      /\ c.parallel = IF NeedsQuotes(r) THEN 1 ELSE 0
      /\ c.key = IF "KEY_RATE_DV01" \in r.measures THEN r.Q ELSE 0
  BY <1>2 DEF CallsFor
<1>4. "KEY_RATE_DV01" \in r.measures => NeedsQuotes(r)
  BY DEF NeedsQuotes
<1>5. c.node = Nodes(r) /\ c.jacobian = Replays(r) /\ c.parallel + c.key = Quotes(r)
      /\ c.parallel \in Nat /\ c.key \in Nat /\ c.node \in Nat /\ c.jacobian \in Nat
  BY <1>1, <1>3, <1>4 DEF Nodes, Replays, Quotes
<1>6. CallsFor(r) \in [Calls -> Nat]
  BY <1>1 DEF CallsFor, Calls
<1> QED
  BY <1>2, <1>3, <1>5, <1>6 DEF PriceCalls, SolveCalls

LEMMA NoneRemain ==
  /\ NoCalls \in [Calls -> Nat]
  /\ PriceCalls(NoCalls) = 0 /\ SolveCalls(NoCalls) = 0 /\ NoCalls.aad = 0
  BY DEF NoCalls, Calls, PriceCalls, SolveCalls

(* One call less, or all calls of its kind given up.                       *)
LEMMA CallLeaves ==
  ASSUME NEW t \in [Calls -> Nat], NEW call \in Calls, t[call] > 0, NEW left \in 0 .. t[call] - 1
  PROVE  LET u == [t EXCEPT ![call] = left]
             gone == t[call] - left
         IN /\ u \in [Calls -> Nat]
            /\ PriceCalls(t) \in Nat /\ SolveCalls(t) \in Nat
            /\ PriceCalls(u) \in Nat /\ SolveCalls(u) \in Nat
            /\ gone \in Nat \ {0}
            /\ PriceCalls(t) = PriceCalls(u) + IF Priced(call) THEN gone ELSE 0
            /\ SolveCalls(t) = SolveCalls(u) + IF Solved(call) THEN gone ELSE 0
            /\ t.aad \in Nat /\ u.aad \in Nat
            /\ t.aad = u.aad + IF call = "aad" THEN gone ELSE 0
<1>1. PICK u : u = [t EXCEPT ![call] = left]
  OBVIOUS
<1>2. t[call] \in Nat /\ left \in Nat
  OBVIOUS
<1>3. u \in [Calls -> Nat] /\ u[call] = left /\ \A c \in Calls : c # call => u[c] = t[c]
  BY <1>1, <1>2
<1>4. \A c \in Calls : t[c] \in Nat /\ u[c] \in Nat
  BY <1>3
<1>5. t[call] - left \in Nat \ {0}
  BY <1>2
<1> QED
  BY <1>1, <1>2, <1>3, <1>4, <1>5 DEF Calls, PriceCalls, SolveCalls, Priced, Solved

(* T prices for one call are at most what its kind would have cost.        *)
LEMMA CallCosts ==
  ASSUME NEW T \in Nat, NEW x \in Nat, NEW g \in Nat \ {0}
  PROVE  /\ T * (x + g) \in Nat /\ T * x \in Nat
         /\ T + T * x <= T * (x + g)
         /\ g = 1 => T + T * x = T * (x + g)
         /\ T = 0 => T * x = 0 /\ T * (x + g) = 0
<1>1. T * (x + g) = T * x + T * g
  OBVIOUS
<1>2. T * g \in Nat /\ T <= T * g
  BY ProductGrows
<1>3. T * x \in Nat
  OBVIOUS
<1>4. g = 1 => T * g = T
  OBVIOUS
<1>5. T = 0 => T * x = 0 /\ T * (x + g) = 0
  OBVIOUS
<1> QED
  BY <1>1, <1>2, <1>3, <1>4, <1>5

(* A step that leaves the counts of k alone, or drops what remains once it *)
(* does not matter.                                                        *)
Carries(k) ==
  /\ spent'[k] = spent[k] /\ got'[k] = got[k]
  /\ todo'[k] = todo[k] \/ (todo'[k] = NoCalls /\ wpc'[k] = "none")
  /\ hpc[k] = "none" /\ hpc'[k] # "none" => Admitted(k) /\ row[k].state = "ABSENT"
  /\ wpc'[k] = "begin" => row'[k].state = "QUEUED"
  /\ row'[k].state \in {"ABSENT", "QUEUED"} => row[k].state \in {"ABSENT", "QUEUED"}
  /\ wpc'[k] \in {"native", "calling"} => wpc[k] \in {"native", "calling"}
  /\ wpc'[k] = "publish" => wpc[k] = "publish" \/ (wpc[k] = "native" /\ todo[k] = NoCalls)
  /\ row'[k].state = "SUCCEEDED" => row[k].state = "SUCCEEDED" \/ wpc[k] = "publish"

LEMMA CarriedOver ==
  ASSUME RiskInv, WorkCounted, NEW k \in Jobs, Carries(k), request' = request
  PROVE  Counted(k)'
<1> DEFINE r == request[k]
<1>1. /\ Counted(k)
      /\ r # None => Sized(r)
  BY RequestsAreSized DEF WorkCounted
<1>2. /\ spent[k] \in [prices : Nat, solves : Nat, aads : Nat]
      /\ spent[k].prices \in Nat /\ spent[k].solves \in Nat /\ spent[k].aads \in Nat
      /\ todo[k] \in [Calls -> Nat]
      /\ PriceCalls(todo[k]) \in Nat /\ SolveCalls(todo[k]) \in Nat /\ todo[k].aad \in Nat
  BY <1>1 DEF Counted, Calls, PriceCalls, SolveCalls
<1>3. todo'[k] \in [Calls -> Nat]
  BY <1>2, NoneRemain DEF Carries
<1>4. Admitted(k)' <=> Admitted(k)
  BY DEF Admitted
<1>5. hpc'[k] # "none" => Admitted(k)
  BY <1>1 DEF Carries, Counted
<1>6. ASSUME hpc'[k] # "none" PROVE WorkWithin(k)'
  <2>1. Sized(r)
    BY <1>1, <1>5, <1>6 DEF Admitted
  <2>2. /\ r.T \in Nat /\ r.T * 0 = 0 /\ r.T * PriceCalls(todo[k]) \in Nat
        /\ Prices(r) - Aads(r) \in Nat /\ Solves(r) \in Nat /\ AadCalls(r) \in Nat
    BY <1>2, <2>1, Axes
  <2>3. CASE hpc[k] = "none"
    <3>1. spent'[k] = NothingSpent /\ todo'[k] = NoCalls
      BY <1>1, <1>6, <2>3 DEF Carries, Counted
    <3>2. spent'[k].prices = 0 /\ spent'[k].solves = 0 /\ spent'[k].aads = 0
      BY <3>1 DEF NothingSpent
    <3> QED
      BY <2>2, <3>1, <3>2, NoneRemain DEF WorkWithin
  <2>4. CASE hpc[k] # "none"
    <3>1. /\ spent[k].prices + r.T * PriceCalls(todo[k]) <= Prices(r) - Aads(r)
          /\ spent[k].solves + SolveCalls(todo[k]) <= Solves(r)
          /\ spent[k].aads + todo[k].aad <= AadCalls(r)
      BY <1>1, <2>4 DEF Counted, WorkWithin
    <3>2. CASE todo'[k] = todo[k]
      BY <3>1, <3>2 DEF Carries, WorkWithin
    <3>3. CASE todo'[k] = NoCalls
      <4>1. /\ PriceCalls(todo'[k]) = 0 /\ SolveCalls(todo'[k]) = 0 /\ todo'[k].aad = 0
            /\ spent'[k] = spent[k]
        BY <3>3, NoneRemain DEF Carries
      <4>2. /\ spent[k].prices + r.T * 0 <= Prices(r) - Aads(r) /\ spent[k].solves + 0 <= Solves(r)
            /\ spent[k].aads + 0 <= AadCalls(r)
        <5> DEFINE x == r.T * PriceCalls(todo[k])
                   y == SolveCalls(todo[k])
                   z == todo[k].aad
        <5>1. x \in Nat /\ y \in Nat /\ z \in Nat
          BY <1>2, <2>2
        <5>2. /\ spent[k].prices + x <= Prices(r) - Aads(r) /\ spent[k].solves + y <= Solves(r)
              /\ spent[k].aads + z <= AadCalls(r)
          BY <3>1
        <5> HIDE DEF x, y, z
        <5> QED
          BY <1>2, <2>2, <5>1, <5>2
      <4> QED
        BY <4>1, <4>2 DEF WorkWithin
    <3> QED
      BY <3>2, <3>3 DEF Carries
  <2> QED
    BY <2>3, <2>4
<1>7. wpc'[k] = "publish" \/ row'[k].state = "SUCCEEDED" => todo[k] = NoCalls /\ todo'[k] = NoCalls
  BY <1>1 DEF Carries, Counted
<1>8. ASSUME wpc'[k] \in {"native", "calling", "publish"} \/ row'[k].state = "SUCCEEDED",
             got'[k].jacobian, got'[k].lost = {}
      PROVE  WorkExact(k)'
  <2>1. todo'[k] = todo[k]
    BY <1>7, <1>8 DEF Carries
  <2>2. WorkExact(k)
    BY <1>1, <1>8 DEF Carries, Counted
  <2> QED
    BY <2>1, <2>2 DEF WorkExact, Carries
<1>9. row'[k].state \in {"ABSENT", "QUEUED"} => spent'[k] = NothingSpent /\ todo'[k] = NoCalls
  BY <1>1 DEF Carries, Counted
<1> QED
  BY <1>2, <1>3, <1>4, <1>5, <1>6, <1>7, <1>8, <1>9 DEF Carries, Counted

(* What the steps below use of the ownership and of the counts.            *)
Standing(k) ==
  /\ hpc[k] = "none" => row[k].state = "ABSENT" /\ wpc[k] = "none"
  /\ wpc[k] = "begin" => row[k].state = "QUEUED"
  /\ resv[k] = "queued" => row[k].state = "QUEUED"
  /\ hpc[k] = "persist" => row[k].state = "ABSENT" /\ wpc[k] = "none"
  /\ ~up => wpc[k] = "none"

LEMMA StandingOf ==
  ASSUME RiskInv, WorkCounted, NEW k \in Jobs
  PROVE  Standing(k)
<1>1. Owned(k) /\ Counted(k)
  BY DEF RiskInv, RowsOwned, Owned, WorkCounted
<1> QED
  BY <1>1 DEF Standing, Owned, HandlerOwns, ThreadOwns, Quiet, Counted

(* A written row has the state that was written.                           *)
LEMMA RowWritten ==
  ASSUME RiskTypeOK, NEW j \in Jobs, NEW k \in Jobs, NEW s
  PROVE  /\ [row EXCEPT ![j].state = s][k].state = IF k = j THEN s ELSE row[k].state
         /\ \A blobs, d : Publish(j, s, blobs, d) =>
              row'[j].state = s /\ (k # j => row'[k].state = row[k].state)
<1>1. row[j] = [state |-> row[j].state, dv01 |-> row[j].dv01] /\ row = [i \in Jobs |-> row[i]]
  BY DEF RiskTypeOK, Rows
<1>2. ASSUME NEW blobs, NEW d, Publish(j, s, blobs, d)
      PROVE  row'[j].state = s /\ (k # j => row'[k].state = row[k].state)
  <2>1. row' = [row EXCEPT ![j].state = s, ![j].dv01 = d]
    BY <1>2 DEF Publish
  <2>2. row'[j] = [[row[j] EXCEPT !.state = s] EXCEPT !.dv01 = d] /\ (k # j => row'[k] = row[k])
    BY <1>1, <2>1
  <2> QED
    BY <1>1, <2>2
<1>3. [row EXCEPT ![j].state = s][k].state = IF k = j THEN s ELSE row[k].state
  BY <1>1
<1> QED
  BY <1>2, <1>3

LEMMA StepWritten ==
  ASSUME RiskTypeOK, NEW j \in Jobs, NEW k \in Jobs, NEW step
  PROVE  /\ Handler(j, step) => hpc'[k] = IF k = j THEN step ELSE hpc[k]
         /\ Thread(j, step) => wpc'[k] = IF k = j THEN step ELSE wpc[k]
  BY DEF RiskTypeOK, Handler, Thread

(* A call returns to the run that made it.                                 *)
LEMMA ReturnsToOne ==
  ASSUME ResultsOK, NEW j \in Jobs, NEW k \in Jobs, k # j, NEW call, Returned(j, call)
  PROVE  got'[k] = got[k]
<1>0. got = [i \in Jobs |-> got[i]]
  BY DEF ResultsOK
<1>1. ASSUME NEW x, NEW y, got' = [got EXCEPT ![j].priced = x, ![j].aad = y] PROVE got'[k] = got[k]
  BY <1>0, <1>1
<1>2. ASSUME NEW x, got' = [got EXCEPT ![j].lost = @ \cup x] PROVE got'[k] = got[k]
  BY <1>0, <1>2
<1>3. ASSUME NEW x, got' = [got EXCEPT ![j].parallel = x] PROVE got'[k] = got[k]
  BY <1>0, <1>3
<1>4. ASSUME NEW x, got' = [got EXCEPT ![j].keys = x] PROVE got'[k] = got[k]
  BY <1>0, <1>4
<1>5. CASE UNCHANGED got
  BY <1>5
<1>6. ASSUME NEW x, got' = [got EXCEPT ![j].aad = x] PROVE got'[k] = got[k]
  BY <1>0, <1>6
<1> QED
  BY <1>1, <1>2, <1>3, <1>4, <1>5, <1>6 DEF Returned

(* A returned call gives no layer up and finds no lost gradient again.     *)
LEMMA ReturnsToRun ==
  ASSUME ResultsOK, NEW j \in Jobs, NEW call, Returned(j, call)
  PROVE  got'[j].jacobian = got[j].jacobian /\ (got'[j].lost = {} => got[j].lost = {})
<1> DEFINE Kept == got'[j].jacobian = got[j].jacobian /\ (got'[j].lost = {} => got[j].lost = {})
<1>0. IsResult(got[j]) /\ got = [i \in Jobs |-> got[i]]
  BY DEF ResultsOK
<1>1. ASSUME NEW x, NEW y, got' = [got EXCEPT ![j].priced = x, ![j].aad = y] PROVE Kept
  BY <1>0, <1>1 DEF IsResult
<1>2. ASSUME NEW x, got' = [got EXCEPT ![j].lost = @ \cup x] PROVE Kept
  BY <1>0, <1>2 DEF IsResult
<1>3. ASSUME NEW x, got' = [got EXCEPT ![j].parallel = x] PROVE Kept
  BY <1>0, <1>3 DEF IsResult
<1>4. ASSUME NEW x, got' = [got EXCEPT ![j].keys = x] PROVE Kept
  BY <1>0, <1>4 DEF IsResult
<1>5. ASSUME UNCHANGED got PROVE Kept
  BY <1>5
<1>6. ASSUME NEW x, got' = [got EXCEPT ![j].aad = x] PROVE Kept
  BY <1>0, <1>6 DEF IsResult
<1> HIDE DEF Kept
<1>7. Kept
  BY <1>1, <1>2, <1>3, <1>4, <1>5, <1>6 DEF Returned
<1> QED
  BY <1>7 DEF Kept

(* The steps that take nothing from the counts.                            *)
LEMMA HandlerCarries ==
  ASSUME RiskInv, WorkCounted, HandlerStep, NEW k \in Jobs
  PROVE  Carries(k) /\ request' = request
<1>0. RiskTypeOK /\ Standing(k)
  BY StandingOf DEF RiskInv
<1>1. UNCHANGED <<wpc, todo, got, spent, request>>
  BY DEF HandlerStep, CreateFixingSnapshot, AuditSnapshot, Receive, Persist, PersistRaises, SubmitRun,
         SubmitRunRaises, CancelRun, Fault, threadVars, envVars
<1>2. ASSUME UNCHANGED row, hpc[k] = "none" /\ hpc'[k] # "none" => Admitted(k)
      PROVE  Carries(k)
  BY <1>0, <1>1, <1>2 DEF Carries, Standing
<1>3. ASSUME AuditSnapshot \/ \E covers : CreateFixingSnapshot(covers) PROVE Carries(k)
  BY <1>2, <1>3 DEF CreateFixingSnapshot, AuditSnapshot
<1>4. ASSUME NEW j \in Jobs, Receive(j) PROVE Carries(k)
  BY <1>0, <1>2, <1>4, StepWritten DEF Receive, Admits, Admitted, tableVars
<1>5. ASSUME NEW j \in Jobs, Persist(j) PROVE Carries(k)
  <2>1. /\ row'[k].state = IF k = j THEN "QUEUED" ELSE row[k].state
        /\ hpc'[k] = IF k = j THEN "submit" ELSE hpc[k]
        /\ hpc[j] = "persist"
    BY <1>0, <1>5, RowWritten, StepWritten DEF Persist
  <2> QED
    BY <1>0, <1>1, <2>1 DEF Carries, Standing
<1>6. ASSUME NEW j \in Jobs, PersistRaises(j) \/ SubmitRun(j) \/ SubmitRunRaises(j) \/ CancelRun(j)
      PROVE  Carries(k)
  <2>1. UNCHANGED row /\ hpc[j] # "none" /\ \E step : Handler(j, step)
    BY <1>6 DEF PersistRaises, SubmitRun, SubmitRunRaises, CancelRun, tableVars
  <2> QED
    BY <1>0, <1>2, <2>1, StepWritten
<1> QED
  BY <1>1, <1>3, <1>4, <1>5, <1>6 DEF HandlerStep

LEMMA ThreadCarries ==
  ASSUME RiskInv, WorkCounted, NEW j \in Jobs, RunStep(j), NEW k \in Jobs,
         ~Begin(j) \/ k # j \/ expired[j], ~NativeCall(j) \/ k # j, ~NativeRaises(j) \/ k # j
  PROVE  Carries(k) /\ request' = request
<1>0. RiskTypeOK /\ QueueHoldsWaitingJobs /\ Standing(k) /\ Standing(j)
  BY StandingOf DEF RiskInv
<1>1. UNCHANGED <<hpc, request>>
  BY DEF RunStep, TakeRun, Begin, Look, NativeCall, NativeRaises, Succeed, PublishRun,
         AuditRun, TimeOut, FailRun, WorkerRaises, ExitRun, RetireRun, Fault, envVars
<1>2. CASE k # j
  <2>0. /\ got = [i \in Jobs |-> got[i]] /\ ResultsOK
        /\ todo = [i \in Jobs |-> todo[i]] /\ spent = [i \in Jobs |-> spent[i]]
    BY <1>0 DEF RiskTypeOK, ResultsOK, WorkCounted
  <2>1. spent'[k] = spent[k] /\ got'[k] = got[k] /\ todo'[k] = todo[k]
    <3>1. CASE NativeCall(j)
      BY <1>2, <2>0, <3>1, ReturnsToOne DEF NativeCall, Spend
    <3>2. CASE NativeRaises(j)
      BY <1>2, <2>0, <3>2 DEF NativeRaises, Spend
    <3>3. CASE Begin(j) \/ ExitRun(j)
      BY <1>2, <2>0, <3>3 DEF Begin, ExitRun
    <3>4. CASE ~NativeCall(j) /\ ~NativeRaises(j) /\ ~Begin(j) /\ ~ExitRun(j)
      BY <3>4 DEF RunStep, TakeRun, Look, Succeed, PublishRun, AuditRun, TimeOut,
         FailRun, WorkerRaises, RetireRun, threadVars
    <3> QED
      BY <3>1, <3>2, <3>3, <3>4
  <2>2. wpc'[k] = wpc[k]
    BY <1>0, <1>2 DEF RunStep, TakeRun, Begin, Look, NativeCall, NativeRaises, Succeed,
       PublishRun, AuditRun, TimeOut, FailRun, WorkerRaises, ExitRun, RetireRun, Thread,
       threadVars, RiskTypeOK
  <2>3. row'[k].state = row[k].state
    BY <1>0, <1>2, RowWritten DEF RunStep, TakeRun, Begin, Look, NativeCall,
       NativeRaises, Succeed, PublishRun, AuditRun, TimeOut, FailRun, WorkerRaises, ExitRun,
       RetireRun, tableVars
  <2> QED
    BY <1>0, <1>1, <2>1, <2>2, <2>3 DEF Carries, Standing
<1>3. ASSUME k = j, UNCHANGED <<todo, got, spent>>, NEW state, row'[j].state = state,
             NEW step, wpc'[j] = step,
             \/ step \notin {"begin", "native", "calling", "publish"}
             \/ step = "calling" /\ wpc[j] = "native"
             \/ step = "publish" /\ wpc[j] = "native" /\ AllMade(j)
             \/ step = "begin" /\ state = "QUEUED",
             state = row[j].state \/ state \in {"FAILED", "TIMED_OUT"} \/ wpc[j] = "publish",
             wpc[j] = "none" => row[j].state = "QUEUED",
             state \in {"ABSENT", "QUEUED"} => state = row[j].state
      PROVE  Carries(k)
  BY <1>0, <1>1, <1>3 DEF Carries, AllMade, Standing
<1>4. ASSUME k = j, Begin(j) PROVE Carries(k)
  <2>1. row'[j].state = "TIMED_OUT" /\ wpc'[j] = "exit" /\ wpc[j] = "begin"
        /\ UNCHANGED <<todo, got, spent>>
    BY <1>0, <1>4, RowWritten, StepWritten DEF Begin
  <2> QED
    BY <1>3, <1>4, <2>1
<1>5. ASSUME k = j, TakeRun(j) PROVE Carries(k)
  <2>1. resv[j] = "queued"
    BY <1>0, <1>5 DEF TakeRun, Take, QueueHoldsWaitingJobs, InState
  <2>2. row'[j].state = "QUEUED" /\ row[j].state = "QUEUED" /\ wpc'[j] = "begin"
        /\ UNCHANGED <<todo, got, spent>>
    BY <1>0, <1>5, <2>1, StepWritten DEF TakeRun, tableVars, Standing
  <2> QED
    BY <1>3, <1>5, <2>2
<1>6. ASSUME k = j, Look(j) \/ Succeed(j) \/ WorkerRaises(j) PROVE Carries(k)
  <2>1. /\ row' = row /\ UNCHANGED <<todo, got, spent>> /\ wpc[j] # "none"
        /\ \/ wpc'[j] \in {"timeout", "exit", "failed"}
           \/ wpc'[j] = "calling" /\ wpc[j] = "native"
           \/ wpc'[j] = "publish" /\ wpc[j] = "native" /\ AllMade(j)
    BY <1>0, <1>6, StepWritten DEF Look, Succeed, WorkerRaises, tableVars
  <2> QED
    BY <1>3, <1>6, <2>1
<1>7. ASSUME k = j, PublishRun(j) \/ AuditRun(j) \/ TimeOut(j) \/ FailRun(j) PROVE Carries(k)
  <2>1. /\ UNCHANGED <<todo, got, spent>> /\ wpc[j] # "none"
        /\ wpc'[j] \in {"audit", "exit"}
    BY <1>0, <1>7, StepWritten DEF PublishRun, AuditRun, TimeOut, FailRun
  <2>2. \/ wpc[j] = "publish" /\ row'[j].state = "SUCCEEDED"
        \/ row'[j].state = row[j].state
        \/ row'[j].state \in {"FAILED", "TIMED_OUT"}
    BY <1>0, <1>7, RowWritten DEF PublishRun, AuditRun, TimeOut, FailRun
  <2> QED
    BY <1>3, <1>7, <2>1, <2>2
<1>8. ASSUME k = j, ExitRun(j) PROVE Carries(k)
  <2>1. UNCHANGED <<row, got, spent>> /\ wpc'[j] = "none" /\ todo'[j] = NoCalls
    BY <1>0, <1>8, StepWritten DEF ExitRun, tableVars, WorkCounted
  <2> QED
    BY <1>0, <1>1, <1>8, <2>1 DEF Carries, Standing
<1>9. ASSUME k = j, RetireRun(j) PROVE Carries(k)
  BY <1>0, <1>1, <1>9 DEF RetireRun, Carries, Standing, tableVars, threadVars
<1> QED
  BY <1>1, <1>2, <1>4, <1>5, <1>6, <1>7, <1>8, <1>9 DEF RunStep

LEMMA ServerCarries ==
  ASSUME RiskInv, WorkCounted, NEW k \in Jobs,
         Crash \/ Restart \/ (\E j \in Jobs : Expire(j)) \/ UNCHANGED vars
  PROVE  Carries(k) /\ request' = request
<1>1. CASE Crash
  <2>1. UNCHANGED <<row, got, spent, request>> /\ wpc'[k] = "none" /\ todo'[k] = NoCalls
    BY <1>1 DEF Crash, tableVars
  <2>2. hpc[k] = "none" => hpc'[k] = "none"
    BY <1>1 DEF Crash
  <2> QED
    BY <2>1, <2>2 DEF Carries
<1>2. CASE Restart
  <2>1. UNCHANGED <<hpc, wpc, todo, got, spent, request>> /\ wpc[k] = "none"
    BY <1>2, StandingOf DEF Restart, Standing, threadVars
  <2>2. row'[k] = IF row[k].state \in InFlight
                  THEN [row[k] EXCEPT !.state = IF expired[k] THEN "TIMED_OUT" ELSE "FAILED"]
                  ELSE row[k]
    BY <1>2 DEF Restart
  <2>3. row[k] = [state |-> row[k].state, dv01 |-> row[k].dv01]
    BY DEF RiskInv, RiskTypeOK, Rows
  <2>4. row'[k].state \in {"TIMED_OUT", "FAILED"} \/ row'[k].state = row[k].state
    BY <2>2, <2>3
  <2> QED
    BY <2>1, <2>4 DEF Carries
<1>3. CASE (\E j \in Jobs : Expire(j)) \/ UNCHANGED vars
  <2>1. UNCHANGED <<row, hpc, wpc, todo, got, spent, request>>
    BY <1>3 DEF Expire, vars, tableVars, threadVars, envVars
  <2> QED
    BY <2>1, StandingOf DEF Carries, Standing
<1> QED
  BY <1>1, <1>2, <1>3

(* The calls a run starts with are all of its work.                        *)
LEMMA BeginCounts ==
  ASSUME RiskInv, WorkCounted, NEW j \in Jobs, Begin(j), ~expired[j]
  PROVE  Counted(j)'
<1> DEFINE r == request[j]
<1>1. /\ Owned(j) /\ row \in [Jobs -> Rows] /\ wpc \in [Jobs -> ThreadSteps] /\ Counted(j)
      /\ r # None => Sized(r)
      /\ todo = [i \in Jobs |-> todo[i]]
  BY RequestsAreSized DEF RiskInv, RowsOwned, Owned, RiskTypeOK, WorkCounted
<1>2. /\ wpc[j] = "begin" /\ wpc'[j] = "native" /\ row'[j].state = "RUNNING"
      /\ todo'[j] = CallsFor(r) /\ spent'[j] = spent[j] /\ hpc'[j] = hpc[j] /\ request' = request
  BY <1>1 DEF Begin, Publish, Thread, envVars, Rows
<1>3. hpc[j] # "none" /\ Admitted(j)
  BY <1>1, <1>2 DEF Owned, HandlerOwns, ThreadOwns, Counted
<1>4. Sized(r)
  BY <1>1, <1>3 DEF Admitted
<1>5. spent[j].prices = 0 /\ spent[j].solves = 0 /\ spent[j].aads = 0 /\ spent[j] \in [prices : Nat, solves : Nat, aads : Nat]
  BY <1>1, <1>2 DEF Counted, NothingSpent
<1>6. /\ 0 + r.T * PriceCalls(CallsFor(r)) = Prices(r) - Aads(r)
      /\ 0 + SolveCalls(CallsFor(r)) = Solves(r) /\ 0 + CallsFor(r).aad = AadCalls(r)
      /\ AadCalls(r) \in Nat
      /\ Prices(r) - Aads(r) \in Nat /\ Solves(r) \in Nat
  BY <1>4, Axes, CallsAreCounted
<1>7. WorkExact(j)' /\ WorkWithin(j)'
  BY <1>2, <1>5, <1>6 DEF WorkExact, WorkWithin
<1>8. Admitted(j)'
  BY <1>2, <1>3 DEF Admitted
<1> QED
  BY <1>2, <1>4, <1>5, <1>7, <1>8, CallsAreCounted DEF Counted

(* A call that is due and what it leaves of its kind.                      *)
LEMMA CallCounts ==
  ASSUME RiskInv, WorkCounted, NEW j \in Jobs, wpc[j] = "calling",
         NEW call \in Calls, Due(j, call), NEW left \in 0 .. todo[j][call] - 1,
         Spend(j, call), todo' = [todo EXCEPT ![j][call] = left],
         UNCHANGED <<row, hpc, request>>
  PROVE  /\ spent'[j] \in [prices : Nat, solves : Nat, aads : Nat]
         /\ todo'[j] \in [Calls -> Nat]
         /\ Admitted(j)' /\ WorkWithin(j)'
         /\ row[j].state = "RUNNING"
         /\ got[j].jacobian /\ got[j].lost = {}
              /\ (left = todo[j][call] - 1 \/ (call = "node" /\ request[j].T = 0)) =>
              WorkExact(j)'
<1> DEFINE r == request[j]
           t == todo[j]
           u == todo'[j]
<1>1. /\ Owned(j) /\ row \in [Jobs -> Rows] /\ Counted(j)
      /\ r # None => Sized(r)
      /\ todo = [i \in Jobs |-> todo[i]] /\ spent = [i \in Jobs |-> spent[i]]
  BY RequestsAreSized DEF RiskInv, RowsOwned, Owned, RiskTypeOK, WorkCounted
<1>2. /\ t \in [Calls -> Nat] /\ t[call] > 0 /\ u = [t EXCEPT ![call] = left]
      /\ spent[j] \in [prices : Nat, solves : Nat, aads : Nat]
  BY <1>1 DEF Counted, Due
<1>3. hpc[j] # "none" /\ Admitted(j)
  BY <1>1 DEF Owned, HandlerOwns, ThreadOwns, Counted
<1>4. Sized(r)
  BY <1>1, <1>3 DEF Admitted
<1>5. row[j].state = "RUNNING"
  <2>1. row[j].state \in InFlight
    BY <1>1 DEF Owned, ThreadOwns
  <2>2. row[j].state # "QUEUED"
    BY <1>1, <1>2 DEF Counted, NoCalls
  <2> QED
    BY <2>1, <2>2 DEF InFlight
<1> DEFINE gone == t[call] - left
           T == r.T
           p == spent[j].prices
           s == spent[j].solves
           x == PriceCalls(u)
           y == SolveCalls(u)
           b == spent[j].aads
           z == u.aad
<1>6. /\ u \in [Calls -> Nat] /\ x \in Nat /\ y \in Nat /\ gone \in Nat \ {0}
      /\ PriceCalls(t) = x + IF Priced(call) THEN gone ELSE 0
      /\ SolveCalls(t) = y + IF Solved(call) THEN gone ELSE 0
      /\ z \in Nat /\ t.aad \in Nat /\ t.aad = z + IF call = "aad" THEN gone ELSE 0
  BY <1>2, CallLeaves
<1>7. /\ T \in Nat /\ p \in Nat /\ s \in Nat /\ Prices(r) - Aads(r) \in Nat /\ Solves(r) \in Nat
      /\ b \in Nat /\ AadCalls(r) \in Nat
  BY <1>2, <1>4, Axes
<1>8. /\ spent'[j] = [prices |-> p + IF Priced(call) THEN T ELSE 0,
                      solves |-> s + IF Solved(call) THEN 1 ELSE 0,
                      aads |-> b + IF call = "aad" THEN 1 ELSE 0]
  BY <1>1 DEF Spend
<1>9. PICK p2, s2, b2 : /\ p2 = p + (IF Priced(call) THEN T ELSE 0)
                        /\ s2 = s + (IF Solved(call) THEN 1 ELSE 0)
                        /\ b2 = b + (IF call = "aad" THEN 1 ELSE 0)
  OBVIOUS
<1>10. /\ spent'[j].prices = p2 /\ spent'[j].solves = s2 /\ p2 \in Nat /\ s2 \in Nat
       /\ spent'[j].aads = b2 /\ b2 \in Nat
       /\ spent'[j] \in [prices : Nat, solves : Nat, aads : Nat]
  BY <1>7, <1>8, <1>9
<1>11. /\ p + T * PriceCalls(t) <= Prices(r) - Aads(r)
       /\ s + SolveCalls(t) <= Solves(r)
       /\ b + t.aad <= AadCalls(r)
  BY <1>1, <1>3 DEF Counted, WorkWithin
<1>12. got[j].jacobian /\ got[j].lost = {} =>
         /\ p + T * PriceCalls(t) = Prices(r) - Aads(r)
         /\ s + SolveCalls(t) = Solves(r)
         /\ b + t.aad = AadCalls(r)
  BY <1>1 DEF Counted, WorkExact
<1> HIDE DEF gone, T, p, s, x, y, b, z
<1>13. /\ T * x \in Nat /\ T * (x + gone) \in Nat
       /\ T + T * x <= T * (x + gone)
       /\ gone = 1 => T + T * x = T * (x + gone)
       /\ T = 0 => T * x = 0 /\ T * (x + gone) = 0
  BY <1>6, <1>7, CallCosts
<1> DEFINE v == T * x
           w == T * (x + gone)
<1>14. /\ v \in Nat /\ w \in Nat /\ T + v <= w
       /\ gone = 1 => T + v = w
       /\ T = 0 => v = 0 /\ w = 0
       /\ T * PriceCalls(t) = IF Priced(call) THEN w ELSE v
  <2>1. x + 0 = x
    BY <1>6
  <2> QED
    BY <1>6, <1>13, <2>1
<1>15. T * x = v
  OBVIOUS
<1> HIDE DEF v, w
<1>16. p2 + v <= Prices(r) - Aads(r)
  BY <1>7, <1>9, <1>11, <1>14
<1>17. s2 + y <= Solves(r)
  <2>1. CASE Solved(call)
    <3>1. SolveCalls(t) = y + gone /\ s2 = s + 1
      BY <1>6, <1>9, <2>1
    <3>2. s + SolveCalls(t) <= Solves(r) /\ s + SolveCalls(t) = s2 + y + gone - 1
      BY <1>6, <1>7, <1>11, <3>1
    <3>3. s2 \in Nat /\ y \in Nat /\ gone \in Nat \ {0} /\ Solves(r) \in Nat
      BY <1>6, <1>7, <1>10
    <3> QED
      BY <3>2, <3>3
  <2>2. CASE ~Solved(call)
    <3>1. SolveCalls(t) = y + 0 /\ s2 = s + 0
      BY <1>6, <1>9, <2>2
    <3> QED
      BY <1>6, <1>7, <1>11, <3>1
  <2> QED
    BY <2>1, <2>2
<1>21. b2 + z <= AadCalls(r) /\ (gone = 1 => b2 + z = b + t.aad)
  <2>1. CASE call = "aad"
    <3>1. t.aad = z + gone /\ b2 = b + 1
      BY <1>6, <1>9, <2>1
    <3> QED
      BY <1>6, <1>7, <1>11, <3>1
  <2>2. CASE call # "aad"
    <3>1. t.aad = z /\ b2 = b
      BY <1>6, <1>7, <1>9, <2>2
    <3> QED
      BY <1>11, <3>1
  <2> QED
    BY <2>1, <2>2
<1>18. WorkWithin(j)'
  BY <1>10, <1>15, <1>16, <1>17, <1>21 DEF WorkWithin, T, x, y, z
<1>19. ASSUME got[j].jacobian, got[j].lost = {}, left = t[call] - 1 \/ (call = "node" /\ T = 0)
       PROVE  WorkExact(j)'
  <2>1. CASE gone = 1
    <3>1. p2 + v = Prices(r) - Aads(r) /\ s2 + y = Solves(r)
      BY <1>6, <1>7, <1>9, <1>12, <1>14, <1>19, <2>1
    <3>2. b2 + z = AadCalls(r)
      BY <1>12, <1>19, <1>21, <2>1
    <3> QED
      BY <1>10, <1>15, <3>1, <3>2 DEF WorkExact, T, x, y, z
  <2>2. CASE call = "node" /\ T = 0
    <3>1. ~Solved(call) /\ Priced(call)
      BY <2>2 DEF Solved, Priced
    <3>2. p2 + v = Prices(r) - Aads(r) /\ s2 + y = Solves(r)
      BY <1>6, <1>7, <1>9, <1>12, <1>14, <1>19, <2>2, <3>1
    <3>3. b2 + z = AadCalls(r)
      <4>1. b2 = b /\ t.aad = z
        BY <1>6, <1>7, <1>9, <2>2
      <4> QED
        BY <1>12, <1>19, <4>1
    <3> QED
      BY <1>10, <1>15, <3>2, <3>3 DEF WorkExact, T, x, y, z
  <2>3. left = t[call] - 1 => gone = 1
    BY <1>2 DEF gone
  <2> QED
    BY <1>19, <2>1, <2>2, <2>3
<1>20. Admitted(j)'
  BY <1>3 DEF Admitted
<1> QED
  BY <1>5, <1>6, <1>10, <1>18, <1>19, <1>20 DEF T

LEMMA NativeCounts ==
  ASSUME RiskInv, WorkCounted, NEW j \in Jobs, NativeCall(j) \/ NativeRaises(j)
  PROVE  Counted(j)'
<1>1. ResultsOK /\ wpc \in [Jobs -> ThreadSteps]
  BY DEF RiskInv, RiskTypeOK
<1>2. IsResult(got[j]) /\ got = [i \in Jobs |-> got[i]] /\ wpc[j] = "calling"
  BY <1>1 DEF ResultsOK, NativeCall, NativeRaises
<1>3. UNCHANGED <<row, hpc, request>>
  BY DEF NativeCall, NativeRaises, tableVars, envVars
<1>4. ASSUME NativeCall(j) PROVE Counted(j)'
  <2>1. PICK call \in Calls : /\ Due(j, call) /\ Returned(j, call) /\ Spend(j, call)
                              /\ todo' = [todo EXCEPT ![j][call] = @ - 1]
    BY <1>4 DEF NativeCall
  <2>2. todo[j] \in [Calls -> Nat] /\ todo[j][call] > 0 /\ todo[j][call] \in Nat
    BY <2>1 DEF WorkCounted, Counted, Due
  <2>3. PICK left : left = todo[j][call] - 1
    OBVIOUS
  <2>4. left \in 0 .. todo[j][call] - 1 /\ todo' = [todo EXCEPT ![j][call] = left]
    BY <2>1, <2>2, <2>3 DEF WorkCounted
  <2>5. got'[j].jacobian = got[j].jacobian /\ (got'[j].lost = {} => got[j].lost = {})
    BY <1>1, <2>1, ReturnsToRun
  <2>6. wpc'[j] \in {"native", "timeout"}
    BY <1>1, <1>4 DEF NativeCall, Thread
  <2> QED
    BY <1>2, <1>3, <2>1, <2>3, <2>4, <2>5, <2>6, CallCounts DEF Counted
<1>5. ASSUME NativeRaises(j) PROVE Counted(j)'
  <2>1. PICK call \in Calls :
          /\ Due(j, call) /\ Spend(j, call)
          /\ todo' = [todo EXCEPT ![j][call] = 0]
          /\ \/ call = "node" /\ got' = [got EXCEPT ![j].lost = Trades(j)]
                  /\ Thread(j, "native")
             \/ call = "jacobian" /\ got' = [got EXCEPT ![j].jacobian = FALSE]
                  /\ Thread(j, "native")
             \/ call \in {"base", "aad", "parallel", "key"} /\ Thread(j, "failed") /\ UNCHANGED got
    BY <1>5 DEF NativeRaises
  <2>2. todo[j] \in [Calls -> Nat] /\ todo[j][call] > 0 /\ todo[j][call] \in Nat
    BY <2>1 DEF WorkCounted, Counted, Due
  <2>3. 0 \in 0 .. todo[j][call] - 1
    BY <2>2
  <2>4. /\ spent'[j] \in [prices : Nat, solves : Nat, aads : Nat]
        /\ todo'[j] \in [Calls -> Nat]
        /\ Admitted(j)' /\ WorkWithin(j)'
        /\ row'[j].state = "RUNNING"
        /\ got[j].jacobian /\ got[j].lost = {} /\ call = "node" /\ request[j].T = 0 => WorkExact(j)'
    BY <1>2, <1>3, <2>1, <2>3, CallCounts
  <2>5. CASE call = "node"
    <3>1. got'[j].lost = Trades(j) /\ got'[j].jacobian = got[j].jacobian /\ wpc'[j] = "native"
      BY <1>1, <1>2, <2>1, <2>5 DEF IsResult, Thread
    <3>2. Trades(j) = {} => request[j].T = 0
      <4>1. request[j].T \in Nat
        BY <2>4, <1>3, RequestsAreSized, Axes DEF Admitted, WorkCounted
      <4> QED
        BY <4>1 DEF Trades
    <3>3. got'[j].jacobian /\ got'[j].lost = {} => WorkExact(j)'
      <4>1. SUFFICES ASSUME got'[j].jacobian, got'[j].lost = {} PROVE WorkExact(j)'
        OBVIOUS
      <4>2. request[j].T = 0 /\ got[j].jacobian
        BY <3>1, <3>2, <4>1
      <4>3. got[j].lost = {}
        BY <1>1, <3>1, <4>1 DEF ResultsOK
      <4> QED
        BY <2>4, <2>5, <4>2, <4>3
    <3> QED
      BY <1>2, <1>3, <2>4, <2>5, <3>1, <3>3 DEF Counted
  <2>6. CASE call # "node"
    <3>1. wpc'[j] = "failed" \/ (wpc'[j] = "native" /\ ~got'[j].jacobian)
      BY <1>1, <1>2, <2>1, <2>6 DEF IsResult, Thread
    <3> QED
      BY <1>2, <1>3, <2>4, <3>1 DEF Counted
  <2> QED
    BY <2>5, <2>6
<1> QED
  BY <1>4, <1>5

(* Both tables of counts keep one entry for each run.                      *)
LEMMA TablesKept ==
  ASSUME RiskInv, WorkCounted, [Next]_vars
  PROVE  todo' = [j \in Jobs |-> todo'[j]] /\ spent' = [j \in Jobs |-> spent'[j]]
<1> DEFINE Tables == todo' = [j \in Jobs |-> todo'[j]] /\ spent' = [j \in Jobs |-> spent'[j]]
<1>0. todo = [j \in Jobs |-> todo[j]] /\ spent = [j \in Jobs |-> spent[j]]
  BY DEF WorkCounted
<1>1. ASSUME UNCHANGED <<todo, spent>> PROVE Tables
  BY <1>0, <1>1
<1>2. ASSUME NEW j \in Jobs, Begin(j) \/ ExitRun(j) PROVE Tables
  BY <1>0, <1>2 DEF Begin, ExitRun, threadVars
<1>3. ASSUME NEW j \in Jobs, NativeCall(j) \/ NativeRaises(j) PROVE Tables
  BY <1>0, <1>3 DEF NativeCall, NativeRaises, Spend
<1>4. ASSUME NEW j \in Jobs, RunStep(j), ~Begin(j), ~ExitRun(j), ~NativeCall(j), ~NativeRaises(j)
      PROVE  UNCHANGED <<todo, spent>>
  BY <1>4 DEF RunStep, TakeRun, Look, Succeed, PublishRun, AuditRun, TimeOut, FailRun,
              WorkerRaises, RetireRun, threadVars
<1>5. ASSUME HandlerStep PROVE UNCHANGED <<todo, spent>>
  BY <1>5 DEF HandlerStep, CreateFixingSnapshot, AuditSnapshot, Receive, Persist, PersistRaises, SubmitRun,
              SubmitRunRaises, CancelRun, threadVars
<1>6. ASSUME Crash PROVE Tables
  BY <1>0, <1>6 DEF Crash
<1>7. ASSUME Restart \/ (\E j \in Jobs : Expire(j)) \/ UNCHANGED vars PROVE UNCHANGED <<todo, spent>>
  BY <1>7 DEF Restart, Expire, threadVars, vars
<1> HIDE DEF Tables
<1>8. Tables
  BY <1>1, <1>2, <1>3, <1>4, <1>5, <1>6, <1>7 DEF Next
<1> QED
  BY <1>8 DEF Tables

LEMMA WorkStep ==
  ASSUME RiskInv, WorkCounted, [Next]_vars
  PROVE  WorkCounted'
<1>1. ASSUME NEW k \in Jobs PROVE Counted(k)' /\ request' = request
  <2>1. CASE HandlerStep
    BY <2>1, HandlerCarries, CarriedOver
  <2>2. ASSUME NEW j \in Jobs, RunStep(j) PROVE Counted(k)' /\ request' = request
    <3>1. CASE k = j /\ Begin(j) /\ ~expired[j]
      BY <3>1, BeginCounts DEF Begin, envVars
    <3>2. CASE k = j /\ (NativeCall(j) \/ NativeRaises(j))
      BY <3>2, NativeCounts DEF NativeCall, NativeRaises, envVars
    <3>3. CASE ~(k = j /\ Begin(j) /\ ~expired[j]) /\ ~(k = j /\ (NativeCall(j) \/ NativeRaises(j)))
      BY <2>2, <3>3, ThreadCarries, CarriedOver
    <3> QED
      BY <3>1, <3>2, <3>3
  <2>3. CASE Crash \/ Restart \/ (\E j \in Jobs : Expire(j)) \/ UNCHANGED vars
    BY <2>3, ServerCarries, CarriedOver
  <2> QED
    BY <2>1, <2>2, <2>3 DEF Next
<1>2. request' = request
  BY DEF Next, HandlerStep, CreateFixingSnapshot, AuditSnapshot, Receive, Persist, PersistRaises, SubmitRun,
         SubmitRunRaises, CancelRun, Fault, RunStep, TakeRun, Begin, Look, NativeCall,
         NativeRaises, Succeed, PublishRun, AuditRun, TimeOut, FailRun, WorkerRaises, ExitRun,
         RetireRun, Crash, Restart, Expire, threadVars, envVars, vars
<1> QED
  BY <1>1, <1>2, TablesKept DEF WorkCounted

LEMMA WorkInit == Init => WorkCounted
<1> SUFFICES ASSUME Init PROVE WorkCounted
  OBVIOUS
<1>1. /\ request \in Workloads
      /\ todo = [j \in Jobs |-> NoCalls] /\ spent = [j \in Jobs |-> NothingSpent]
  BY DEF Init, NothingSpent
<1>2. ASSUME NEW j \in Jobs PROVE Counted(j)
  <2>1. NothingSpent \in [prices : Nat, solves : Nat, aads : Nat]
    BY DEF NothingSpent
  <2> QED
    BY <1>1, <2>1, NoneRemain DEF Init, Counted, NoRow
<1> QED
  BY <1>1, <1>2 DEF WorkCounted

(* What a run may spend is within the limits it was admitted under.        *)
LEMMA WorkTells ==
  ASSUME RiskInv, WorkCounted
  PROVE  WorkIsBounded
<1> SUFFICES ASSUME NEW j \in Jobs
    PROVE  LET r == request[j] IN
      /\ spent[j].solves <= Limits.calibration_solves
      /\ spent[j].prices <= Limits.price_evaluations
      /\ spent[j].aads # 0 =>
           /\ spent[j].aads <= r.T * r.C
           /\ r.eligible = r.T /\ r.C = 1 =>
                /\ spent[j].aads <= Limits.aad_recordings
                /\ spent[j].prices + spent[j].aads <= Limits.price_evaluations
      /\ row[j].state = "SUCCEEDED" /\ got[j].jacobian /\ got[j].lost = {} =>
           spent[j] = [prices |-> Prices(r) - Aads(r), solves |-> Solves(r), aads |-> AadCalls(r)]
  BY DEF WorkIsBounded
<1> DEFINE r == request[j]
<1>1. /\ Counted(j) /\ Standing(j)
      /\ r # None => Sized(r)
  BY StandingOf, RequestsAreSized DEF WorkCounted
<1>2. /\ spent[j] = [prices |-> spent[j].prices, solves |-> spent[j].solves,
                     aads |-> spent[j].aads]
      /\ spent[j].prices \in Nat /\ spent[j].solves \in Nat /\ spent[j].aads \in Nat
      /\ PriceCalls(todo[j]) \in Nat /\ SolveCalls(todo[j]) \in Nat /\ todo[j].aad \in Nat
  BY <1>1 DEF Counted, Calls, PriceCalls, SolveCalls
<1>3. /\ Limits.calibration_solves \in Nat /\ Limits.price_evaluations \in Nat
      /\ Limits.aad_recordings \in Nat
  BY RiskWorkAssumption DEF Fields
<1>4. CASE hpc[j] = "none"
  <2>1. row[j].state = "ABSENT" /\ spent[j] = NothingSpent
    BY <1>1, <1>4 DEF Standing, Counted
  <2> QED
    BY <1>3, <2>1 DEF NothingSpent
<1>5. CASE hpc[j] # "none"
  <2>1. Sized(r) /\ AdmitsWork(r) /\ WorkWithin(j)
    BY <1>1, <1>5 DEF Counted, Admitted
  <2>2. WorkFits(r)
    BY <2>1, AdmissionIsExact DEF Sized
  <2>3. /\ Prices(r) <= Limits.price_evaluations /\ Solves(r) <= Limits.calibration_solves
        /\ Aads(r) <= Limits.aad_recordings
    BY <2>2 DEF WorkFits, Work, Fields
  <2>4. /\ r.T \in Nat /\ Prices(r) \in Nat /\ Aads(r) \in Nat /\ Solves(r) \in Nat
        /\ Prices(r) - Aads(r) \in Nat /\ AadCalls(r) \in Nat
    BY <2>1, Axes
  <2> DEFINE v == r.T * PriceCalls(todo[j])
  <2>5. v \in Nat
    BY <1>2, <2>4
  <2>6. /\ spent[j].prices + v <= Prices(r) - Aads(r)
        /\ spent[j].solves + SolveCalls(todo[j]) <= Solves(r)
        /\ spent[j].aads + todo[j].aad <= AadCalls(r)
    BY <2>1 DEF WorkWithin
  <2>7. ASSUME row[j].state = "SUCCEEDED", got[j].jacobian, got[j].lost = {}
        PROVE  spent[j] = [prices |-> Prices(r) - Aads(r), solves |-> Solves(r),
                           aads |-> AadCalls(r)]
    <3>1. WorkExact(j) /\ PriceCalls(todo[j]) = 0 /\ SolveCalls(todo[j]) = 0 /\ todo[j].aad = 0
      BY <1>1, <2>7, NoneRemain DEF Counted
    <3>2. /\ spent[j].prices + r.T * 0 = Prices(r) - Aads(r) /\ spent[j].solves + 0 = Solves(r)
          /\ spent[j].aads + 0 = AadCalls(r)
      BY <3>1 DEF WorkExact
    <3>3. /\ spent[j].prices = Prices(r) - Aads(r) /\ spent[j].solves = Solves(r)
          /\ spent[j].aads = AadCalls(r)
      BY <1>2, <2>4, <3>2
    <3> QED
      BY <1>2, <3>3
  <2> HIDE DEF v
  <2>8. spent[j].prices <= Limits.price_evaluations /\ spent[j].solves <= Limits.calibration_solves
    BY <1>2, <1>3, <2>3, <2>4, <2>5, <2>6
  <2>9. spent[j].aads <= AadCalls(r)
    BY <1>2, <2>4, <2>6
  <2>10. ASSUME spent[j].aads # 0
         PROVE  NeedsNodes(r) /\ AadCalls(r) = r.T * r.C
    <3>1. AadCalls(r) # 0
      BY <1>2, <2>4, <2>9, <2>10
    <3> QED
      BY <3>1 DEF AadCalls
  <2>11. ASSUME spent[j].aads # 0, r.eligible = r.T, r.C = 1
         PROVE  /\ spent[j].aads <= Limits.aad_recordings
                /\ spent[j].prices + spent[j].aads <= Limits.price_evaluations
    <3>1. Aads(r) = r.T /\ AadCalls(r) = r.T
      BY <2>4, <2>10, <2>11 DEF Aads
    <3>2. spent[j].aads <= Aads(r)
      BY <2>9, <3>1
    <3> QED
      BY <1>2, <1>3, <2>3, <2>4, <2>5, <2>6, <3>2
  <2>12. spent[j].aads # 0 => spent[j].aads <= r.T * r.C
    BY <2>9, <2>10
  <2> QED
    BY <2>7, <2>8, <2>11, <2>12
<1> QED
  BY <1>4, <1>5

(* For any request, any limits and any faults: a run takes no more prices  *)
(* and recalibrations than the limits allow; if no layer of it was given   *)
(* up it takes exactly those it was admitted for, and one AAD recording    *)
(* for each trade and component, which the limits cover only if every      *)
(* trade is eligible and there is one component.                           *)
THEOREM RunsKeepToTheirWork == Spec => []WorkIsBounded
<1>1. RiskInv /\ WorkCounted /\ [Next]_vars => WorkCounted'
  BY WorkStep
<1>2. RiskInv /\ WorkCounted => WorkIsBounded
  BY WorkTells
<1> QED
  BY <1>1, <1>2, RiskInvariant, WorkInit, PTL DEF Spec
=============================================================================
