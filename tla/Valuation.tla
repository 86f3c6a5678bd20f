----------------------------- MODULE Valuation ------------------------------
(***************************************************************************)
(* backend/app/services/valuation.py over the durable store: a request     *)
(* stores a running valuation and schedules an asyncio task; the task      *)
(* loads the trades and prices them one after the other, each in a worker  *)
(* thread that reads the product and the model and calls the native        *)
(* library; then it completes the row, or fails it when anything raised.   *)
(* While a worker thread runs, the event loop serves other requests: the   *)
(* operations of Books interleave between any two reads.  Tasks die with   *)
(* the process; the next start fails the rows they leave behind.           *)
(***************************************************************************)
EXTENDS Books

CONSTANTS
  Valuations,
  MaxCrashes,  \* bound: the server stops at most this often
  MaxFaults    \* bound: at most this many store calls of tasks raise

ASSUME ValuationAssumption ==
  /\ Portfolios \cap Trades = {}
  /\ {MaxCrashes, MaxFaults} \subseteq Nat

VARIABLES
  valuation,  \* the stored rows
  task,       \* the pricing task of a valuation and its local variables
  loaded,     \* history: the trades the task of a valuation found, in order
  server,     \* "serving", "starting" (create_app reconciles) or "down"
  crashes, faults

rowVars == <<valuation, loaded>>
taskVars == <<rowVars, task>>
serverVars == <<server, crashes, faults>>
vars == <<bookVars, taskVars, serverVars>>

Targets == Portfolios \cup Trades

(* Where a task is in _price_trade.                                        *)
AtATrade == {"product", "model", "native"}

(* A priced trade: its PV and Greeks, or an error and a PV of zero.        *)
TradeValuation == [trade : Trades, ok : BOOLEAN]

NoValuation == [status |-> "absent", target |-> None, trades |-> <<>>]

(* trades are copies: later changes of the books do not reach them.        *)
TradeCopy == [id : Trades, product : Products, model : Models]
NoTask == [step |-> "none", trades |-> <<>>, priced |-> <<>>]

Init ==
  /\ BooksInit
  /\ valuation = [v \in Valuations |-> NoValuation]
  /\ task = [v \in Valuations |-> NoTask]
  /\ loaded = [v \in Valuations |-> <<>>]
  /\ server = "serving"
  /\ crashes = 0
  /\ faults = 0

(* The trade a task is at.                                                 *)
Current(v) == task[v].trades[Len(task[v].priced) + 1]

Goto(v, step) == task' = [task EXCEPT ![v].step = step]

(* Mutant of NextStep: the first entry of a portfolio completes it.        *)
NextStepFirst(trades, priced) ==
  IF priced = <<>> /\ trades # <<>> THEN "product" ELSE "complete"

NextStep(trades, priced) == IF Len(priced) < Len(trades) THEN "product" ELSE "complete"

Copies(s) ==
  [i \in DOMAIN s |-> [id |-> s[i], product |-> trade[s[i]].product, model |-> trade[s[i]].model]]
-----------------------------------------------------------------------------
(* value_portfolio_async and value_single_trade_async, after the 404 of    *)
(* the endpoint.                                                           *)
Request(v, target) ==
  /\ valuation[v].status = "absent"
  /\ target \in portfolio \/ (target \in Trades /\ TradeExists(target))
  /\ valuation' = [valuation EXCEPT ![v] =
                     [status |-> "running", target |-> target, trades |-> <<>>]]
  /\ task' = [task EXCEPT ![v].step = "load"]
  /\ UNCHANGED <<bookVars, loaded, serverVars>>

(* The trades of a target in the order in which they are priced.           *)
TradeLists(target) ==
  IF target \in Portfolios
  THEN {[i \in DOMAIN r |-> r[i][1]] : r \in Readings(rows[target])}
  ELSE {<<target>>}

Loaded(s) == [step |-> NextStep(s, <<>>), trades |-> Copies(s), priced |-> <<>>]

(* store.portfolio_trades, or store.get_trade.  What the request named may *)
(* be gone by now.                                                         *)
Load(v) ==
  LET target == valuation[v].target IN
  /\ task[v].step = "load"
  /\ IF target \in portfolio \/ (target \in Trades /\ TradeExists(target))
     THEN \E s \in TradeLists(target) :
            task' = [task EXCEPT ![v] = Loaded(s)] /\ loaded' = [loaded EXCEPT ![v] = s]
     ELSE Goto(v, "fail") /\ UNCHANGED loaded
  /\ UNCHANGED <<bookVars, valuation, serverVars>>

(* _price_trade: store.get_product and store.get_model, in the thread and  *)
(* outside the try block.                                                  *)
ReadProduct(v) ==
  /\ task[v].step = "product"
  /\ Goto(v, IF Current(v).product \in product THEN "model" ELSE "fail")
  /\ UNCHANGED <<bookVars, rowVars, serverVars>>

ReadModel(v) ==
  /\ task[v].step = "model"
  /\ Goto(v, IF Current(v).model \in model THEN "native" ELSE "fail")
  /\ UNCHANGED <<bookVars, rowVars, serverVars>>

Price(v, entry) ==
  LET trades == task[v].trades
      priced == Append(task[v].priced, entry) IN
  task' = [task EXCEPT ![v] = [step |-> NextStep(trades, priced), trades |-> trades, priced |-> priced]]

(* gateway.value: a result, or an error that is kept in the trade's entry. *)
CallNative(v) ==
  /\ task[v].step = "native"
  /\ \E ok \in BOOLEAN : Price(v, [trade |-> Current(v).id, ok |-> ok])
  /\ UNCHANGED <<bookVars, rowVars, serverVars>>

Complete(v) ==
  /\ task[v].step = "complete"
  /\ valuation' = [valuation EXCEPT ![v].status = "completed", ![v].trades = task[v].priced]
  /\ task' = [task EXCEPT ![v] = NoTask]
  /\ UNCHANGED <<bookVars, loaded, serverVars>>

(* Mutant of Fail: a status no poller knows.                               *)
FailUnknown(v) ==
  /\ task[v].step = "fail"
  /\ valuation' = [valuation EXCEPT ![v].status = "error"]
  /\ task' = [task EXCEPT ![v] = NoTask]
  /\ UNCHANGED <<bookVars, loaded, serverVars>>

(* Mutant of Fail: the exception is logged and nothing else.               *)
FailSilently(v) ==
  /\ task[v].step = "fail"
  /\ task' = [task EXCEPT ![v] = NoTask]
  /\ UNCHANGED <<bookVars, rowVars, serverVars>>

(* The except clause: status, message and totals, not the trades.          *)
Fail(v) ==
  /\ task[v].step = "fail"
  /\ valuation' = [valuation EXCEPT ![v].status = "failed"]
  /\ task' = [task EXCEPT ![v] = NoTask]
  /\ UNCHANGED <<bookVars, loaded, serverVars>>

(* A store call raises: into the except clause, or out of it, and then     *)
(* the task ends and the row stays as it is.                               *)
StoreRaises(v) ==
  /\ task[v].step \in {"load", "product", "model", "complete", "fail"}
  /\ faults < MaxFaults
  /\ faults' = faults + 1
  /\ task' = [task EXCEPT ![v] = IF task[v].step = "fail" THEN NoTask ELSE [@ EXCEPT !.step = "fail"]]
  /\ UNCHANGED <<bookVars, rowVars, server, crashes>>
-----------------------------------------------------------------------------
Crash ==
  /\ server # "down"
  /\ crashes < MaxCrashes
  /\ server' = "down"
  /\ crashes' = crashes + 1
  /\ task' = [v \in Valuations |-> NoTask]
  /\ UNCHANGED <<bookVars, rowVars, faults>>

Start ==
  /\ server = "down"
  /\ server' = "starting"
  /\ UNCHANGED <<bookVars, taskVars, crashes, faults>>

(* Mutant of Reconcile: the status is not looked at.                       *)
ReconcileAny(v) ==
  /\ server = "starting"
  /\ valuation[v].status \notin {"absent", "failed"}
  /\ valuation' = [valuation EXCEPT ![v].status = "failed"]
  /\ UNCHANGED <<bookVars, loaded, task, serverVars>>

(* _reconcile_orphaned_valuations: one transaction for every running row.  *)
Reconcile(v) ==
  /\ server = "starting"
  /\ valuation[v].status = "running"
  /\ valuation' = [valuation EXCEPT ![v].status = "failed"]
  /\ UNCHANGED <<bookVars, loaded, task, serverVars>>

(* Mutant of Serve: requests are taken before the rows are reconciled.     *)
ServeAtOnce ==
  /\ server = "starting"
  /\ server' = "serving"
  /\ UNCHANGED <<bookVars, taskVars, crashes, faults>>

(* Then create_app seeds the demo data unless it is told not to.           *)
Serve ==
  /\ server = "starting"
  /\ \A v \in Valuations : valuation[v].status # "running"
  /\ server' = "serving"
  /\ Seed \/ UNCHANGED bookVars
  /\ UNCHANGED <<taskVars, crashes, faults>>
-----------------------------------------------------------------------------
TaskStep(v) ==
  Load(v) \/ ReadProduct(v) \/ ReadModel(v) \/ CallNative(v) \/ Complete(v) \/ Fail(v)

BooksStep == (TradeStep \/ PortfolioStep) /\ UNCHANGED <<taskVars, serverVars>>

Next ==
  \/ server = "serving" /\ BooksStep
  \/ server = "serving" /\ \E v \in Valuations :
       TaskStep(v) \/ StoreRaises(v) \/ (\E target \in Targets : Request(v, target))
  \/ \E v \in Valuations : Reconcile(v)
  \/ Crash \/ Start \/ Serve

Spec == Init /\ [][Next]_vars

(* The event loop and its worker threads are scheduled, native calls       *)
(* return, and a stopped server is started again.                          *)
Fairness ==
  /\ \A v \in Valuations : WF_vars(server = "serving" /\ TaskStep(v))
  /\ \A v \in Valuations : WF_vars(Reconcile(v))
  /\ WF_vars(Start) /\ WF_vars(Serve)

FairSpec == Spec /\ Fairness
-----------------------------------------------------------------------------
Settled == {"completed", "failed"}

(* Type invariant.                                                         *)
TypeOK ==
  /\ BooksTypeOK
  /\ valuation \in [Valuations -> [status : {"absent", "running"} \cup Settled,
                                   target : Targets \cup {None}, trades : Seq(TradeValuation)]]
  /\ task \in [Valuations ->
                 [step : {"none", "load", "product", "model", "native", "complete", "fail"},
                  trades : Seq(TradeCopy), priced : Seq(TradeValuation)]]
  /\ loaded \in [Valuations -> Seq(Trades)]
  /\ server \in {"serving", "starting", "down"}
  /\ crashes \in Nat /\ faults \in Nat

(* While the server serves, a valuation is running exactly when a task     *)
(* works on it (unless a store call failed twice): no row is left for a    *)
(* poller to wait on for ever, across crashes in the middle of the sweep   *)
(* too, and no task works for a row that has settled.                      *)
RunningHasTask ==
  \A v \in Valuations :
    /\ task[v].step # "none" => valuation[v].status = "running"
    /\ server = "serving" /\ faults = 0 /\ valuation[v].status = "running"
         => task[v].step # "none"

(* The entries are those of the trades s, all of them and in their order.  *)
EntriesOf(entries, s) ==
  Len(entries) = Len(s) /\ \A i \in DOMAIN s : entries[i].trade = s[i]

(* A completed valuation is whole: it has one entry for every trade that   *)
(* its task found when it loaded the portfolio, or for the one trade it is *)
(* of, in the order in which they were loaded, each once, although trades, *)
(* members and products change underneath.  No other row shows an entry,   *)
(* and a task that is pricing is at the next trade of that list.           *)
PricedOnceInOrder ==
  \A v \in Valuations :
    /\ \A i, k \in DOMAIN loaded[v] : loaded[v][i] = loaded[v][k] => i = k
    /\ valuation[v].status = "completed"
         => /\ EntriesOf(valuation[v].trades, loaded[v])
            /\ valuation[v].target \in Trades => loaded[v] = <<valuation[v].target>>
    /\ valuation[v].status # "completed" => valuation[v].trades = <<>>
    /\ task[v].step \in AtATrade
         => /\ Len(task[v].priced) < Len(loaded[v])
            /\ Current(v).id = loaded[v][Len(task[v].priced) + 1]

(* A settled valuation never changes again: not by a late task, nor by the *)
(* reconciliation of a later start, nor by a change of what it priced.     *)
SettledStays ==
  [][\A v \in Valuations : valuation[v].status \in Settled => valuation'[v] = valuation[v]]_vars

(* Every accepted valuation settles, so a poller gets an answer, unless a  *)
(* store call of a task raised.                                            *)
ValuationsSettle ==
  \A v \in Valuations :
    valuation[v].status = "running" ~> valuation[v].status \in Settled \/ faults > 0
=============================================================================
