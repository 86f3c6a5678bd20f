------------------------------- MODULE Books --------------------------------
(***************************************************************************)
(* Products, models, trades and portfolios in the two implementations of   *)
(* StoreProtocol: Store (backend/app/services/store.py) keeps a portfolio  *)
(* as a list of trade ids, DbStore (db/store_db.py) as rows with a         *)
(* position.  Both get the same calls; they guard and answer alike, so     *)
(* what they agree on operation by operation (products, models, trades) is *)
(* kept once, and each keeps its own portfolios.                           *)
(*                                                                         *)
(* Every caller is a coroutine of one event loop that does not await       *)
(* between its store calls, so an operation is one step.  Identifiers are  *)
(* fresh uuids in the code; here one whose object was deleted may come     *)
(* back, which stands for a new one and only adds behaviours.              *)
(***************************************************************************)
EXTENDS Integers, Sequences, FiniteSets

CONSTANTS Products, Models, Trades, Portfolios, None

ASSUME BooksAssumption ==
  /\ None \notin Products \cup Models \cup Trades \cup Portfolios
  /\ None \notin [product : Products, model : Models]

VARIABLES
  product, model,  \* the ones that exist
  trade,           \* trade -> its product and model, or None
  portfolio,       \* the portfolios that exist
  list,            \* Store: portfolio -> trade_ids
  rows             \* DbStore: portfolio -> its portfolio_trade rows <<trade, position>>

bookVars == <<product, model, trade, portfolio, list, rows>>

TradeRow == [product : Products, model : Models]
TradeExists(t) == trade[t] # None
ItemsOf(s) == {s[i] : i \in DOMAIN s}
RowTrades(R) == {m[1] : m \in R}

(* list.remove, under the caller's test that t is there.  A list names a   *)
(* trade once (SameMembers), so its first place is its only one.           *)
Without(s, t) ==
  LET i == CHOOSE i \in DOMAIN s : s[i] = t IN
  IF t \in ItemsOf(s) THEN [k \in 1..(Len(s) - 1) |-> IF k < i THEN s[k] ELSE s[k + 1]] ELSE s

BooksInit ==
  /\ product = {} /\ model = {} /\ portfolio = {}
  /\ trade = [t \in Trades |-> None]
  /\ list = [f \in Portfolios |-> <<>>]
  /\ rows = [f \in Portfolios |-> {}]

(* The orders in which ORDER BY position may return the rows R: rows with  *)
(* the same position come in any order.                                    *)
Readings(R) ==
  {s \in [1..Cardinality(R) -> R] :
     \A i, k \in DOMAIN s : i < k => s[i] # s[k] /\ s[i][2] <= s[k][2]}

(* Positions are handed out from 0 in reading order.                       *)
Renumber(s) == {<<s[i][1], i - 1>> : i \in DOMAIN s}
-----------------------------------------------------------------------------
AddProduct(p) ==
  /\ p \notin product
  /\ product' = product \cup {p}
  /\ UNCHANGED <<model, trade, portfolio, list, rows>>

AddModel(m) ==
  /\ m \notin model
  /\ model' = model \cup {m}
  /\ UNCHANGED <<product, trade, portfolio, list, rows>>

(* Mutant of DeleteProduct: no guard.                                      *)
DropProduct(p) ==
  /\ p \in product
  /\ product' = product \ {p}
  /\ UNCHANGED <<model, trade, portfolio, list, rows>>

(* A ConflictError while a trade refers to it.                             *)
DeleteProduct(p) ==
  /\ p \in product
  /\ \A t \in Trades : TradeExists(t) => trade[t].product # p
  /\ product' = product \ {p}
  /\ UNCHANGED <<model, trade, portfolio, list, rows>>

DeleteModel(m) ==
  /\ m \in model
  /\ \A t \in Trades : TradeExists(t) => trade[t].model # m
  /\ model' = model \ {m}
  /\ UNCHANGED <<product, trade, portfolio, list, rows>>

(* NotFoundError for a product or a model that does not exist.             *)
AddTrade(t, p, m) ==
  /\ ~TradeExists(t)
  /\ p \in product /\ m \in model
  /\ trade' = [trade EXCEPT ![t] = [product |-> p, model |-> m]]
  /\ UNCHANGED <<product, model, portfolio, list, rows>>

UpdateTrade(t, p, m) ==
  /\ TradeExists(t)
  /\ p \in product /\ m \in model
  /\ trade' = [trade EXCEPT ![t] = [product |-> p, model |-> m]]
  /\ UNCHANGED <<product, model, portfolio, list, rows>>

(* Mutant of DeleteTrade: the rows of the portfolios stay.                 *)
DeleteTradeOnly(t) ==
  /\ TradeExists(t)
  /\ trade' = [trade EXCEPT ![t] = None]
  /\ list' = [f \in Portfolios |-> Without(list[f], t)]
  /\ UNCHANGED <<product, model, portfolio, rows>>

(* Both stores cascade into every portfolio: Store takes the id out of the *)
(* list, the database drops the row and leaves the positions of the others *)
(* alone.                                                                  *)
DeleteTrade(t) ==
  /\ TradeExists(t)
  /\ trade' = [trade EXCEPT ![t] = None]
  /\ list' = [f \in Portfolios |-> Without(list[f], t)]
  /\ rows' = [f \in Portfolios |-> {m \in rows[f] : m[1] # t}]
  /\ UNCHANGED <<product, model, portfolio>>
-----------------------------------------------------------------------------
(* PortfolioCreate has no trades.                                          *)
AddPortfolio(f) ==
  /\ f \notin portfolio
  /\ portfolio' = portfolio \cup {f}
  /\ UNCHANGED <<product, model, trade, list, rows>>

DeletePortfolio(f) ==
  /\ f \in portfolio
  /\ portfolio' = portfolio \ {f}
  /\ list' = [list EXCEPT ![f] = <<>>]
  /\ rows' = [rows EXCEPT ![f] = {}]
  /\ UNCHANGED <<product, model, trade>>

(* Mutant of AddToPortfolio: the database does not look for the trade.     *)
AddToPortfolioAgain(f, t) ==
  /\ f \in portfolio /\ TradeExists(t)
  /\ list' = [list EXCEPT ![f] = IF t \in ItemsOf(@) THEN @ ELSE Append(@, t)]
  /\ rows' = [rows EXCEPT ![f] = @ \cup {<<t, Cardinality(@)>>}]
  /\ UNCHANGED <<product, model, trade, portfolio>>

(* A new member goes to the end of the list; in the database its position  *)
(* is the number of rows.                                                  *)
AddToPortfolio(f, t) ==
  /\ f \in portfolio /\ TradeExists(t)
  /\ list' = [list EXCEPT ![f] = IF t \in ItemsOf(@) THEN @ ELSE Append(@, t)]
  /\ rows' = [rows EXCEPT ![f] =
                IF t \in RowTrades(@) THEN @ ELSE @ \cup {<<t, Cardinality(@)>>}]
  /\ UNCHANGED <<product, model, trade, portfolio>>

(* The database renumbers what is left, also when the trade is no member.  *)
RemoveFromPortfolio(f, t) ==
  /\ f \in portfolio
  /\ list' = [list EXCEPT ![f] = Without(@, t)]
  /\ \E s \in Readings({m \in rows[f] : m[1] # t}) :
       rows' = [rows EXCEPT ![f] = Renumber(s)]
  /\ UNCHANGED <<product, model, trade, portfolio>>

(* create_app fills an empty store with one of each.                       *)
SeedDemo(p, m, t, f) ==
  /\ product = {} /\ portfolio = {}
  /\ m \notin model
  /\ product' = {p}
  /\ model' = model \cup {m}
  /\ trade' = [trade EXCEPT ![t] = [product |-> p, model |-> m]]
  /\ portfolio' = {f}
  /\ list' = [list EXCEPT ![f] = <<t>>]
  /\ rows' = [rows EXCEPT ![f] = {<<t, 0>>}]

TradeStep ==
  \/ \E p \in Products : AddProduct(p) \/ DeleteProduct(p)
  \/ \E m \in Models : AddModel(m) \/ DeleteModel(m)
  \/ \E t \in Trades, p \in Products, m \in Models : AddTrade(t, p, m) \/ UpdateTrade(t, p, m)
  \/ \E t \in Trades : DeleteTrade(t)

PortfolioStep ==
  \E f \in Portfolios :
    \/ AddPortfolio(f) \/ DeletePortfolio(f)
    \/ \E t \in Trades : AddToPortfolio(f, t) \/ RemoveFromPortfolio(f, t)

Seed ==
  \E p \in Products, m \in Models, t \in Trades, f \in Portfolios : SeedDemo(p, m, t, f)

BooksNext == TradeStep \/ PortfolioStep \/ Seed
BooksSpec == BooksInit /\ [][BooksNext]_bookVars
-----------------------------------------------------------------------------
(* Type invariant.                                                         *)
BooksTypeOK ==
  /\ product \subseteq Products /\ model \subseteq Models /\ portfolio \subseteq Portfolios
  /\ trade \in [Trades -> TradeRow \cup {None}]
  /\ list \in [Portfolios -> Seq(Trades)]
  /\ rows \in [Portfolios -> SUBSET (Trades \X Nat)]

(* No trade is left without its product or model, nor a portfolio with a   *)
(* trade that is gone, whatever sequence of updates and deletions runs     *)
(* into the guards and cascades.                                           *)
ReferencesHold ==
  /\ \A t \in Trades : TradeExists(t) => trade[t].product \in product /\ trade[t].model \in model
  /\ \A f \in Portfolios :
       /\ ItemsOf(list[f]) \cup RowTrades(rows[f]) # {} => f \in portfolio
       /\ \A t \in ItemsOf(list[f]) \cup RowTrades(rows[f]) : TradeExists(t)

(* The two stores agree on who is in a portfolio, and neither counts a     *)
(* trade twice (test_store_contract.py asks the same of both).             *)
SameMembers ==
  \A f \in Portfolios :
    /\ ItemsOf(list[f]) = RowTrades(rows[f])
    /\ Len(list[f]) = Cardinality(rows[f])
    /\ \A i, k \in DOMAIN list[f] : list[f][i] = list[f][k] => i = k

-----------------------------------------------------------------------------
(* store_db.py:453: positions stay gap-free, so the number of rows is the  *)
(* next free position.                                                     *)
NextPositionIsFree ==
  \A f \in Portfolios : \A m \in rows[f] : m[2] # Cardinality(rows[f])
=============================================================================
