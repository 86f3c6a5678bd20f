---------------------------- MODULE BooksProofs -----------------------------
(***************************************************************************)
(* What Books guarantees for all sets of products, models, trades and      *)
(* portfolios.  The argument: in every portfolio the list and the rows     *)
(* name the same trades, each of them once, and all of them exist.  That   *)
(* Store and DbStore count alike follows from it: the list is a bijection  *)
(* from its positions to the rows' trades, and the rows another.           *)
(***************************************************************************)
EXTENDS Books, FiniteSetTheorems, TLAPS

(* The primary key of portfolio_trade.                                     *)
OneRowPerTrade(R) == \A m, n \in R : m[1] = n[1] => m = n

NamedOnce(s) == \A i, k \in DOMAIN s : s[i] = s[k] => i = k

Membership ==
  \A f \in Portfolios :
    /\ IsFiniteSet(rows[f])
    /\ ItemsOf(list[f]) = RowTrades(rows[f])
    /\ OneRowPerTrade(rows[f])
    /\ NamedOnce(list[f])

BooksInv == BooksTypeOK /\ ReferencesHold /\ Membership

USE DEF TradeExists

(* list.remove leaves a list of the other trades, each named once.         *)
LEMMA WithoutRemoves ==
  ASSUME NEW s \in Seq(Trades), NamedOnce(s), NEW t
  PROVE  /\ Without(s, t) \in Seq(Trades)
         /\ ItemsOf(Without(s, t)) = ItemsOf(s) \ {t}
         /\ NamedOnce(Without(s, t))
<1>1. CASE t \notin ItemsOf(s)
  BY <1>1 DEF Without, ItemsOf
<1>2. CASE t \in ItemsOf(s)
  <2> DEFINE i == CHOOSE i \in DOMAIN s : s[i] = t
             w == [k \in 1..(Len(s) - 1) |-> IF k < i THEN s[k] ELSE s[k + 1]]
  <2>1. i \in 1..Len(s) /\ s[i] = t
    BY <1>2 DEF ItemsOf
  <2>2. Without(s, t) = w
    BY <1>2 DEF Without
  <2> HIDE DEF i
  <2>3. Len(s) - 1 \in Nat
    BY <2>1
  <2>4. \A k \in 1..(Len(s) - 1) : w[k] \in Trades
    BY <2>1
  <2>5. w \in Seq(Trades) /\ Len(w) = Len(s) - 1 /\ DOMAIN w = 1..(Len(s) - 1)
    BY <2>3, <2>4
  <2>6. \A k \in DOMAIN w : w[k] \in ItemsOf(s) \ {t}
    BY <2>1, <2>5 DEF NamedOnce, ItemsOf
  <2>7. ASSUME NEW u \in ItemsOf(s) \ {t} PROVE \E k \in DOMAIN w : w[k] = u
    <3>1. PICK k \in 1..Len(s) : s[k] = u
      BY <2>7 DEF ItemsOf
    <3>2. CASE k < i
      BY <3>1, <3>2, <2>1, <2>5
    <3>3. CASE k > i
      <4>1. k - 1 \in 1..(Len(s) - 1) /\ ~(k - 1 < i) /\ (k - 1) + 1 = k
        BY <3>1, <3>3, <2>1
      <4> QED
        BY <4>1, <3>1, <2>5
    <3>4. k # i
      BY <3>1, <2>1, <2>7
    <3> QED
      BY <3>2, <3>3, <3>4, <3>1, <2>1
  <2>8. ItemsOf(w) = ItemsOf(s) \ {t}
    BY <2>6, <2>7 DEF ItemsOf
  <2>9. NamedOnce(w)
    BY <2>1, <2>5, SMTT(60) DEF NamedOnce
  <2> QED
    BY <2>2, <2>5, <2>8, <2>9
<1> QED
  BY <1>1, <1>2

(* list.append of a trade that is not there.                               *)
LEMMA AppendAddsOne ==
  ASSUME NEW s \in Seq(Trades), NamedOnce(s), NEW t \in Trades, t \notin ItemsOf(s)
  PROVE  /\ ItemsOf(Append(s, t)) = ItemsOf(s) \cup {t}
         /\ NamedOnce(Append(s, t))
<1> DEFINE w == Append(s, t)
           n == Len(s)
<1>1. /\ n \in Nat /\ DOMAIN s = 1..n /\ DOMAIN w = 1..(n + 1)
      /\ w[n + 1] = t /\ \A i \in 1..n : w[i] = s[i]
  OBVIOUS
<1> HIDE DEF w, n
<1>2. \A i \in DOMAIN w : i \in DOMAIN s \/ i = n + 1
  BY <1>1
<1>3. n + 1 \in DOMAIN w /\ \A i \in DOMAIN s : i \in DOMAIN w /\ i # n + 1
  BY <1>1
<1>4. ItemsOf(w) = ItemsOf(s) \cup {t}
  BY <1>1, <1>2, <1>3 DEF ItemsOf
<1>5. NamedOnce(w)
  BY <1>1, <1>2, <1>3 DEF NamedOnce, ItemsOf
<1> QED
  BY <1>4, <1>5 DEF w

(* Reading the rows in any order by position and numbering them afresh     *)
(* keeps the trades, one row each.                                         *)
LEMMA RenumberKeeps ==
  ASSUME NEW R \in SUBSET (Trades \X Nat), IsFiniteSet(R), OneRowPerTrade(R), NEW s \in Readings(R)
  PROVE  /\ Renumber(s) \in SUBSET (Trades \X Nat)
         /\ IsFiniteSet(Renumber(s))
         /\ RowTrades(Renumber(s)) = RowTrades(R)
         /\ OneRowPerTrade(Renumber(s))
<1> DEFINE n == Cardinality(R)
<1>1. n \in Nat
  BY FS_CardinalityType
<1>2. s \in [1..n -> R] /\ \A i, k \in 1..n : i < k => s[i] # s[k]
  BY DEF Readings
<1>3. s \in Injection(1..n, R)
  BY <1>1, <1>2 DEF Injection, IsInjective
<1>4. Cardinality(1..n) = n
  BY <1>1, FS_Interval
<1>5. s \in Surjection(1..n, R)
  <2> HIDE DEF n
  <2>1. Cardinality(1..n) = Cardinality(R) <=> s \in Surjection(1..n, R)
    BY <1>3, FS_Injection
  <2> QED
    BY <2>1, <1>4 DEF n
<1> HIDE DEF n
<1>6. DOMAIN s = 1..n
  BY <1>2
<1>7. Renumber(s) \in SUBSET (Trades \X Nat)
  BY <1>1, <1>2, <1>6 DEF Renumber
<1>8. RowTrades(Renumber(s)) = RowTrades(R)
  <2>1. \A m \in R : \E i \in 1..n : s[i] = m
    BY <1>5 DEF Surjection
  <2>2. \A m \in Renumber(s) : \E i \in 1..n : m = <<s[i][1], i - 1>>
    BY <1>6 DEF Renumber
  <2>3. \A i \in 1..n : <<s[i][1], i - 1>> \in Renumber(s)
    BY <1>6 DEF Renumber
  <2>4. RowTrades(Renumber(s)) \subseteq RowTrades(R)
    BY <2>2, <1>2 DEF RowTrades
  <2>5. RowTrades(R) \subseteq RowTrades(Renumber(s))
    <3> SUFFICES ASSUME NEW m \in R PROVE m[1] \in RowTrades(Renumber(s))
      BY DEF RowTrades
    <3>1. PICK i \in 1..n : s[i] = m
      BY <2>1
    <3>2. <<m[1], i - 1>> \in Renumber(s) /\ <<m[1], i - 1>>[1] = m[1]
      BY <3>1, <2>3
    <3> QED
      BY <3>2 DEF RowTrades
  <2> QED
    BY <2>4, <2>5
<1>9. OneRowPerTrade(Renumber(s))
  <2> SUFFICES ASSUME NEW a \in Renumber(s), NEW b \in Renumber(s), a[1] = b[1] PROVE a = b
    BY DEF OneRowPerTrade
  <2>1. PICK i \in 1..n : a = <<s[i][1], i - 1>>
    BY <1>6 DEF Renumber
  <2>2. PICK k \in 1..n : b = <<s[k][1], k - 1>>
    BY <1>6 DEF Renumber
  <2>3. s[i] = s[k]
    BY <2>1, <2>2, <1>2 DEF OneRowPerTrade
  <2>4. i = k
    BY <2>3, <1>2, <1>1
  <2> QED
    BY <2>1, <2>2, <2>4
<1>10. IsFiniteSet(Renumber(s))
  <2> DEFINE g == [i \in 1..n |-> <<s[i][1], i - 1>>]
  <2>1. g \in Surjection(1..n, Renumber(s))
    BY <1>6 DEF Surjection, Renumber
  <2>2. IsFiniteSet(1..n)
    BY <1>1, FS_Interval
  <2> HIDE DEF g
  <2> QED
    BY <2>1, <2>2, FS_Surjection
<1> QED
  BY <1>7, <1>8, <1>9, <1>10
-----------------------------------------------------------------------------
(* The empty store of Store.__init__ satisfies the invariant.              *)
LEMMA BooksInitInv == BooksInit => BooksInv
<1> SUFFICES ASSUME BooksInit PROVE BooksInv
  OBVIOUS
<1>1. BooksTypeOK /\ ReferencesHold
  BY DEF BooksInit, BooksTypeOK, ReferencesHold, TradeRow, ItemsOf, RowTrades
<1>2. Membership
  BY FS_EmptySet DEF BooksInit, Membership, ItemsOf, RowTrades, OneRowPerTrade, NamedOnce
<1> QED
  BY <1>1, <1>2 DEF BooksInv

(* Products, models and trades: the guards and the cascade.                *)
LEMMA TradeStepInv ==
  ASSUME BooksInv, TradeStep
  PROVE  BooksInv'
<1> USE DEF BooksInv, BooksTypeOK, TradeRow
<1>1. ASSUME NEW p \in Products, AddProduct(p) \/ DeleteProduct(p) PROVE BooksInv'
  <2>1. Membership'
    BY <1>1 DEF AddProduct, DeleteProduct, Membership
  <2>2. BooksTypeOK' /\ ReferencesHold'
    BY <1>1 DEF AddProduct, DeleteProduct, ReferencesHold
  <2> QED
    BY <2>1, <2>2
<1>2. ASSUME NEW m \in Models, AddModel(m) \/ DeleteModel(m) PROVE BooksInv'
  <2>1. Membership'
    BY <1>2 DEF AddModel, DeleteModel, Membership
  <2>2. BooksTypeOK' /\ ReferencesHold'
    BY <1>2 DEF AddModel, DeleteModel, ReferencesHold
  <2> QED
    BY <2>1, <2>2
<1>3. ASSUME NEW t \in Trades, NEW p \in Products, NEW m \in Models,
             AddTrade(t, p, m) \/ UpdateTrade(t, p, m)
      PROVE  BooksInv'
  <2>1. /\ trade' = [trade EXCEPT ![t] = [product |-> p, model |-> m]]
        /\ p \in product /\ m \in model
        /\ UNCHANGED <<product, model, portfolio, list, rows>>
    BY <1>3 DEF AddTrade, UpdateTrade
  <2>2. [product |-> p, model |-> m] # None
    BY BooksAssumption
  <2>3. Membership'
    BY <2>1 DEF Membership
  <2>4. BooksTypeOK'
    BY <2>1
  <2>5. ReferencesHold'
    BY <2>1, <2>2 DEF ReferencesHold
  <2> QED
    BY <2>3, <2>4, <2>5
<1>4. ASSUME NEW t \in Trades, DeleteTrade(t) PROVE BooksInv'
  <2>1. \A f \in Portfolios :
          /\ list[f] \in Seq(Trades) /\ NamedOnce(list[f])
          /\ list'[f] = Without(list[f], t)
          /\ rows'[f] = {m \in rows[f] : m[1] # t}
    BY <1>4 DEF DeleteTrade, Membership
  <2>2. \A f \in Portfolios :
          /\ list'[f] \in Seq(Trades)
          /\ ItemsOf(list'[f]) = ItemsOf(list[f]) \ {t}
          /\ NamedOnce(list'[f])
    BY <2>1, WithoutRemoves
  <2>3. \A f \in Portfolios :
          /\ rows'[f] \in SUBSET (Trades \X Nat)
          /\ IsFiniteSet(rows'[f])
          /\ OneRowPerTrade(rows'[f])
    BY <2>1, FS_Subset DEF Membership, OneRowPerTrade
  <2>4. \A f \in Portfolios : RowTrades(rows'[f]) = RowTrades(rows[f]) \ {t}
    BY <2>1 DEF RowTrades
  <2>5. Membership'
    BY <2>2, <2>3, <2>4 DEF Membership
  <2>6. BooksTypeOK'
    <3>1. DOMAIN list' = Portfolios /\ DOMAIN rows' = Portfolios
      BY <1>4 DEF DeleteTrade
    <3>2. list' = [f \in Portfolios |-> list'[f]] /\ rows' = [f \in Portfolios |-> rows'[f]]
      BY <1>4 DEF DeleteTrade
    <3>3. list' \in [Portfolios -> Seq(Trades)] /\ rows' \in [Portfolios -> SUBSET (Trades \X Nat)]
      BY <2>2, <2>3, <3>2
    <3> QED
      BY <1>4, <3>3 DEF DeleteTrade
  <2>7. ReferencesHold'
    <3>1. \A u \in Trades : trade'[u] = IF u = t THEN None ELSE trade[u]
      BY <1>4 DEF DeleteTrade
    <3>2. \A f \in Portfolios : ItemsOf(list'[f]) \cup RowTrades(rows'[f])
                                  = (ItemsOf(list[f]) \cup RowTrades(rows[f])) \ {t}
      BY <2>2, <2>4
    <3>3. \A f \in Portfolios : ItemsOf(list[f]) \subseteq Trades /\ RowTrades(rows[f]) \subseteq Trades
      BY DEF ItemsOf, RowTrades
    <3>4. UNCHANGED <<product, model, portfolio>>
      BY <1>4 DEF DeleteTrade
    <3>5. \A u \in Trades : trade'[u] # None => trade'[u].product \in product' /\ trade'[u].model \in model'
      BY <3>1, <3>4 DEF ReferencesHold
    <3>6. \A f \in Portfolios :
            /\ ItemsOf(list'[f]) \cup RowTrades(rows'[f]) # {} => f \in portfolio'
            /\ \A u \in ItemsOf(list'[f]) \cup RowTrades(rows'[f]) : trade'[u] # None
      BY <3>1, <3>2, <3>3, <3>4 DEF ReferencesHold
    <3> QED
      BY <3>5, <3>6 DEF ReferencesHold
  <2> QED
    BY <2>5, <2>6, <2>7
<1> QED
  BY <1>1, <1>2, <1>3, <1>4 DEF TradeStep

(* Adding to and removing from a portfolio.                                *)
LEMMA PortfolioStepInv ==
  ASSUME BooksInv, PortfolioStep
  PROVE  BooksInv'
<1> USE DEF BooksInv
<1>1. PICK f \in Portfolios :
        \/ AddPortfolio(f) \/ DeletePortfolio(f)
        \/ \E t \in Trades : AddToPortfolio(f, t) \/ RemoveFromPortfolio(f, t)
  BY DEF PortfolioStep
<1>2. CASE AddPortfolio(f)
  BY <1>2 DEF AddPortfolio, BooksTypeOK, ReferencesHold, Membership
<1>3. CASE DeletePortfolio(f)
  <2>1. BooksTypeOK'
    BY <1>3 DEF DeletePortfolio, BooksTypeOK
  <2>2. ItemsOf(<<>>) = {} /\ RowTrades({}) = {} /\ NamedOnce(<<>>) /\ OneRowPerTrade({}) /\ IsFiniteSet({})
    BY FS_EmptySet DEF ItemsOf, RowTrades, NamedOnce, OneRowPerTrade
  <2>3. \A g \in Portfolios :
          /\ list'[g] = IF g = f THEN <<>> ELSE list[g]
          /\ rows'[g] = IF g = f THEN {} ELSE rows[g]
    BY <1>3 DEF DeletePortfolio, BooksTypeOK
  <2>4. Membership'
    BY <2>2, <2>3 DEF Membership
  <2>5. ReferencesHold'
    BY <1>3, <2>2, <2>3 DEF DeletePortfolio, ReferencesHold
  <2> QED
    BY <2>1, <2>4, <2>5
<1>4. ASSUME NEW t \in Trades, AddToPortfolio(f, t) PROVE BooksInv'
  <2>1. CASE t \in ItemsOf(list[f])
    <3>1. UNCHANGED bookVars
      BY <1>4, <2>1 DEF AddToPortfolio, BooksTypeOK, Membership, bookVars
    <3> QED
      BY <3>1 DEF bookVars, BooksTypeOK, ReferencesHold, Membership
  <2>2. CASE t \notin ItemsOf(list[f])
    <3> DEFINE n == Cardinality(rows[f])
    <3>1. n \in Nat
      BY FS_CardinalityType DEF Membership
    <3>2. t \notin RowTrades(rows[f])
      BY <2>2 DEF Membership
    <3>3. /\ list' = [list EXCEPT ![f] = Append(@, t)]
          /\ rows' = [rows EXCEPT ![f] = @ \cup {<<t, n>>}]
          /\ f \in portfolio /\ trade[t] # None
          /\ UNCHANGED <<product, model, trade, portfolio>>
      BY <1>4, <2>2, <3>2 DEF AddToPortfolio
    <3> HIDE DEF n
    <3>4. BooksTypeOK'
      BY <3>1, <3>3 DEF BooksTypeOK
    <3>5. /\ list[f] \in Seq(Trades)
          /\ ItemsOf(Append(list[f], t)) = ItemsOf(list[f]) \cup {t}
          /\ NamedOnce(Append(list[f], t))
      <4>1. list[f] \in Seq(Trades) /\ NamedOnce(list[f])
        BY DEF BooksTypeOK, Membership
      <4> QED
        BY <4>1, <2>2, AppendAddsOne
    <3>6. RowTrades(rows[f] \cup {<<t, n>>}) = RowTrades(rows[f]) \cup {t}
      BY <<t, n>>[1] = t DEF RowTrades
    <3>7. OneRowPerTrade(rows[f] \cup {<<t, n>>})
      BY <3>2 DEF OneRowPerTrade, Membership, RowTrades
    <3>8. IsFiniteSet(rows[f] \cup {<<t, n>>})
      BY FS_AddElement DEF Membership
    <3>9. \A g \in Portfolios :
            /\ list'[g] = IF g = f THEN Append(list[f], t) ELSE list[g]
            /\ rows'[g] = IF g = f THEN rows[f] \cup {<<t, n>>} ELSE rows[g]
      BY <3>3 DEF BooksTypeOK
    <3>10. Membership'
      BY <3>5, <3>6, <3>7, <3>8, <3>9 DEF Membership
    <3>11. ReferencesHold'
      <4>1. ASSUME NEW g \in Portfolios
            PROVE  ItemsOf(list'[g]) \cup RowTrades(rows'[g]) \subseteq
                     ItemsOf(list[g]) \cup RowTrades(rows[g]) \cup (IF g = f THEN {t} ELSE {})
        BY <3>5, <3>6, <3>9
      <4>2. \A g \in Portfolios :
              /\ ItemsOf(list'[g]) \cup RowTrades(rows'[g]) # {} => g \in portfolio
              /\ \A u \in ItemsOf(list'[g]) \cup RowTrades(rows'[g]) : TradeExists(u)
        BY <3>3, <4>1 DEF ReferencesHold, TradeExists
      <4> QED
        BY <3>3, <4>2 DEF ReferencesHold, TradeExists
    <3> QED
      BY <3>4, <3>10, <3>11
  <2> QED
    BY <2>1, <2>2
<1>5. ASSUME NEW t \in Trades, RemoveFromPortfolio(f, t) PROVE BooksInv'
  <2> DEFINE R == {m \in rows[f] : m[1] # t}
  <2>1. PICK s \in Readings(R) : rows' = [rows EXCEPT ![f] = Renumber(s)]
    BY <1>5 DEF RemoveFromPortfolio
  <2>2. /\ list' = [list EXCEPT ![f] = Without(@, t)]
        /\ UNCHANGED <<product, model, trade, portfolio>>
    BY <1>5 DEF RemoveFromPortfolio
  <2>3. /\ R \in SUBSET (Trades \X Nat) /\ IsFiniteSet(R) /\ OneRowPerTrade(R)
        /\ RowTrades(R) = RowTrades(rows[f]) \ {t}
    <3>1. R \in SUBSET (Trades \X Nat) /\ OneRowPerTrade(R)
      BY DEF BooksTypeOK, Membership, OneRowPerTrade
    <3>2. IsFiniteSet(R)
      BY FS_Subset DEF Membership
    <3> QED
      BY <3>1, <3>2 DEF RowTrades
  <2> HIDE DEF R
  <2>4. /\ Renumber(s) \in SUBSET (Trades \X Nat)
        /\ IsFiniteSet(Renumber(s))
        /\ RowTrades(Renumber(s)) = RowTrades(rows[f]) \ {t}
        /\ OneRowPerTrade(Renumber(s))
    BY <2>1, <2>3, RenumberKeeps
  <2>5. list[f] \in Seq(Trades) /\ NamedOnce(list[f])
    BY DEF BooksTypeOK, Membership
  <2>6. /\ Without(list[f], t) \in Seq(Trades)
        /\ ItemsOf(Without(list[f], t)) = ItemsOf(list[f]) \ {t}
        /\ NamedOnce(Without(list[f], t))
    BY <2>5, WithoutRemoves
  <2>7. \A g \in Portfolios :
          /\ list'[g] = IF g = f THEN Without(list[f], t) ELSE list[g]
          /\ rows'[g] = IF g = f THEN Renumber(s) ELSE rows[g]
    BY <2>1, <2>2 DEF BooksTypeOK
  <2>8. BooksTypeOK'
    BY <2>1, <2>2, <2>4, <2>6 DEF BooksTypeOK
  <2>9. Membership'
    BY <2>4, <2>6, <2>7 DEF Membership
  <2>10. ReferencesHold'
    BY <2>2, <2>4, <2>6, <2>7 DEF ReferencesHold
  <2> QED
    BY <2>8, <2>9, <2>10
<1> QED
  BY <1>1, <1>2, <1>3, <1>4, <1>5

(* seed_demo_data runs on a store without products and portfolios, so      *)
(* there are no trades either.                                             *)
LEMMA SeedInv ==
  ASSUME BooksInv, Seed
  PROVE  BooksInv'
<1> USE DEF BooksInv
<1>1. PICK p \in Products, m \in Models, t \in Trades, f \in Portfolios : SeedDemo(p, m, t, f)
  BY DEF Seed
<1>2. [product |-> p, model |-> m] # None
  BY BooksAssumption
<1>3. BooksTypeOK'
  BY <1>1 DEF SeedDemo, BooksTypeOK, TradeRow
<1>4. \A u \in Trades : trade[u] = None
  BY <1>1 DEF SeedDemo, ReferencesHold
<1>5. \A g \in Portfolios : ItemsOf(list[g]) = {} /\ RowTrades(rows[g]) = {}
  BY <1>1 DEF SeedDemo, ReferencesHold
<1>6. /\ ItemsOf(<<t>>) = {t} /\ RowTrades({<<t, 0>>}) = {t} /\ NamedOnce(<<t>>)
      /\ OneRowPerTrade({<<t, 0>>}) /\ IsFiniteSet({<<t, 0>>})
  <2>1. ItemsOf(<<t>>) = {t} /\ NamedOnce(<<t>>)
    BY DEF ItemsOf, NamedOnce
  <2>2. RowTrades({<<t, 0>>}) = {t} /\ OneRowPerTrade({<<t, 0>>})
    BY DEF RowTrades, OneRowPerTrade
  <2> QED
    BY <2>1, <2>2, FS_Singleton
<1>7. \A g \in Portfolios :
        /\ list'[g] = IF g = f THEN <<t>> ELSE list[g]
        /\ rows'[g] = IF g = f THEN {<<t, 0>>} ELSE rows[g]
  BY <1>1 DEF SeedDemo, BooksTypeOK
<1>8. Membership'
  BY <1>6, <1>7 DEF Membership
<1>9. \A u \in Trades : trade'[u] = IF u = t THEN [product |-> p, model |-> m] ELSE None
  BY <1>1, <1>4 DEF SeedDemo, BooksTypeOK
<1>10. ReferencesHold'
  <2>1. /\ product' = {p} /\ m \in model' /\ portfolio' = {f}
    BY <1>1 DEF SeedDemo
  <2>2. \A u \in Trades : trade'[u] # None => trade'[u].product \in product' /\ trade'[u].model \in model'
    BY <2>1, <1>9
  <2>3. \A g \in Portfolios :
          ItemsOf(list'[g]) \cup RowTrades(rows'[g]) = IF g = f THEN {t} ELSE {}
    BY <1>5, <1>6, <1>7
  <2>4. trade'[t] # None
    BY <1>2, <1>9
  <2> QED
    BY <2>1, <2>2, <2>3, <2>4 DEF ReferencesHold
<1> QED
  BY <1>3, <1>8, <1>10

(* Every operation of the two stores keeps the invariant.                  *)
LEMMA BooksStepInv ==
  ASSUME BooksInv, [BooksNext]_bookVars
  PROVE  BooksInv'
<1>1. CASE UNCHANGED bookVars
  BY <1>1 DEF bookVars, BooksInv, BooksTypeOK, ReferencesHold, Membership
<1> QED
  BY <1>1, TradeStepInv, PortfolioStepInv, SeedInv DEF BooksNext

(* Counting: both the list and the rows are as long as the set of the      *)
(* trades they name.                                                       *)
LEMMA InvSameMembers == BooksInv => SameMembers
<1> SUFFICES ASSUME BooksInv, NEW f \in Portfolios
             PROVE  /\ ItemsOf(list[f]) = RowTrades(rows[f])
                    /\ Len(list[f]) = Cardinality(rows[f])
                    /\ NamedOnce(list[f])
  BY DEF SameMembers, NamedOnce
<1> DEFINE T == RowTrades(rows[f])
          s == list[f]
          g == [m \in rows[f] |-> m[1]]
<1>1. IsFiniteSet(rows[f]) /\ ItemsOf(s) = T /\ OneRowPerTrade(rows[f]) /\ NamedOnce(s)
  BY DEF BooksInv, Membership
<1>2. s \in Seq(Trades)
  BY DEF BooksInv, BooksTypeOK
<1>3. Len(s) \in Nat /\ DOMAIN s = 1..Len(s)
  BY <1>2
<1>4. g \in Bijection(rows[f], T)
  BY <1>1 DEF Bijection, Injection, Surjection, IsInjective, RowTrades, OneRowPerTrade
<1>5. Cardinality(T) = Cardinality(rows[f])
  <2> HIDE DEF g, T
  <2> QED
    BY <1>1, <1>4, FS_Bijection DEF ExistsBijection
<1>6. s \in Bijection(1..Len(s), T)
  <2>1. s \in [1..Len(s) -> T]
    BY <1>1, <1>2, <1>3 DEF ItemsOf
  <2>2. s \in Injection(1..Len(s), T)
    BY <2>1, <1>1, <1>3 DEF Injection, IsInjective, NamedOnce
  <2>3. s \in Surjection(1..Len(s), T)
    BY <2>1, <1>1, <1>3 DEF Surjection, ItemsOf
  <2> QED
    BY <2>2, <2>3 DEF Bijection
<1>7. IsFiniteSet(1..Len(s)) /\ Cardinality(1..Len(s)) = Len(s)
  <2> HIDE DEF s
  <2>1. 1 \in Int /\ Len(s) \in Int
    BY <1>3
  <2>2. IsFiniteSet(1..Len(s)) /\ Cardinality(1..Len(s)) = IF 1 > Len(s) THEN 0 ELSE Len(s) - 1 + 1
    BY <2>1, FS_Interval
  <2> QED
    BY <2>2, <1>3
<1>8. Cardinality(T) = Len(s)
  <2> HIDE DEF s, T
  <2> QED
    BY <1>6, <1>7, FS_Bijection DEF ExistsBijection
<1> QED
  BY <1>1, <1>5, <1>8
-----------------------------------------------------------------------------
(* References and memberships hold in every reachable state of the stores. *)
THEOREM BooksInvariant == BooksSpec => []BooksInv
<1> QED
  BY BooksInitInv, BooksStepInv, PTL DEF BooksSpec

(* The books are well typed.                                               *)
THEOREM BooksTypeCorrect == BooksSpec => []BooksTypeOK
<1>1. BooksInv => BooksTypeOK
  BY DEF BooksInv
<1> QED
  BY <1>1, BooksInvariant, PTL

(* No operation of store.py or store_db.py leaves a dangling reference.    *)
THEOREM ReferencesAlwaysHold == BooksSpec => []ReferencesHold
<1>1. BooksInv => ReferencesHold
  BY DEF BooksInv
<1> QED
  BY <1>1, BooksInvariant, PTL

(* Store's list and DbStore's rows name the same trades, each once.        *)
THEOREM StoresAgreeOnMembers == BooksSpec => []SameMembers
<1> QED
  BY InvSameMembers, BooksInvariant, PTL
=============================================================================
