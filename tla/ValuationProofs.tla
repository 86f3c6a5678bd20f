-------------------------- MODULE ValuationProofs ---------------------------
(***************************************************************************)
(* What Valuation guarantees for all books, all sets of valuations, and    *)
(* every number of crashes and broken store calls.  The argument: a task   *)
(* exists only while its row is running and the server serves; its         *)
(* progress is a prefix of what it loaded; and it leaves its row for good  *)
(* in the step that settles it.                                            *)
(***************************************************************************)
EXTENDS Valuation, BooksProofs

Steps == {"none", "load", "product", "model", "native", "complete", "fail"}
Task == [step : Steps, trades : Seq(TradeCopy), priced : Seq(TradeValuation)]
Row == [status : {"absent", "running"} \cup Settled, target : Targets \cup {None},
        trades : Seq(TradeValuation)]

(* What is priced is a prefix of what is loaded, which names a trade once. *)
Prefix(trades, priced) ==
  /\ Len(priced) <= Len(trades)
  /\ \A i \in DOMAIN priced : priced[i].trade = trades[i].id
  /\ \A i, j \in DOMAIN trades : trades[i].id = trades[j].id => i = j

Progress(k, target) ==
  /\ Prefix(k.trades, k.priced)
  /\ k.step \in AtATrade => Len(k.priced) < Len(k.trades)
  /\ k.step = "complete" => Len(k.priced) = Len(k.trades)
  /\ k.step \in AtATrade \cup {"complete"} /\ target \in Trades => Len(k.trades) = 1

Result(r) ==
  /\ \A i, j \in DOMAIN r.trades : r.trades[i].trade = r.trades[j].trade => i = j
  /\ r.status = "completed" /\ r.target \in Trades => Len(r.trades) = 1
  /\ r.status # "completed" => r.trades = <<>>

(* A task works on what was loaded, and a completed row has an entry for   *)
(* each of it.                                                             *)
Faithful(k, r, s) ==
  /\ \A i, j \in DOMAIN s : s[i] = s[j] => i = j
  /\ k.step \in AtATrade \cup {"complete"}
       => /\ Len(k.trades) = Len(s) /\ \A i \in DOMAIN s : k.trades[i].id = s[i]
          /\ r.target \in Trades => s = <<r.target>>
  /\ r.status = "completed"
       => EntriesOf(r.trades, s) /\ (r.target \in Trades => s = <<r.target>>)

Whole == \A v \in Valuations : Faithful(task[v], valuation[v], loaded[v])

(* What PricedOnceInOrder says of one valuation.                           *)
PricedAt(v) ==
  /\ \A i, k \in DOMAIN loaded[v] : loaded[v][i] = loaded[v][k] => i = k
  /\ valuation[v].status = "completed"
       => /\ EntriesOf(valuation[v].trades, loaded[v])
          /\ valuation[v].target \in Trades => loaded[v] = <<valuation[v].target>>
  /\ valuation[v].status # "completed" => valuation[v].trades = <<>>
  /\ task[v].step \in AtATrade
       => /\ Len(task[v].priced) < Len(loaded[v])
          /\ Current(v).id = loaded[v][Len(task[v].priced) + 1]

TasksDieWithTheServer ==
  server # "serving" => \A v \in Valuations : task[v].step = "none"

Inv ==
  /\ BooksInv
  /\ TypeOK
  /\ \A v \in Valuations : Progress(task[v], valuation[v].target) /\ Result(valuation[v])
  /\ Whole
  /\ RunningHasTask
  /\ TasksDieWithTheServer

(* The type invariant in terms of the two sets of records above.           *)
LEMMA TypeOKFolds ==
  TypeOK <=> /\ BooksTypeOK
             /\ valuation \in [Valuations -> Row] /\ task \in [Valuations -> Task]
             /\ loaded \in [Valuations -> Seq(Trades)]
             /\ server \in {"serving", "starting", "down"} /\ crashes \in Nat /\ faults \in Nat
  BY DEF TypeOK, Row, Task, Steps

(* A server that has priced nothing yet.                                   *)
LEMMA InitInv == Init => Inv
<1> SUFFICES ASSUME Init PROVE Inv
  OBVIOUS
<1>1. BooksInv
  BY BooksInitInv DEF Init
<1>2. TypeOK
  BY <1>1 DEF Init, TypeOK, BooksInv, NoValuation, NoTask, Settled
<1>3. \A v \in Valuations : Progress(task[v], valuation[v].target) /\ Result(valuation[v])
  BY DEF Init, Progress, Prefix, Result, NoTask, NoValuation, AtATrade
<1>4. RunningHasTask /\ TasksDieWithTheServer
  BY DEF Init, RunningHasTask, TasksDieWithTheServer, NoTask, NoValuation
<1>5. Whole
  BY DEF Init, Whole, Faithful, NoTask, NoValuation, AtATrade
<1> QED
  BY <1>1, <1>2, <1>3, <1>4, <1>5 DEF Inv
-----------------------------------------------------------------------------
(* A step of one task: it changes the task of v and what it has loaded.    *)
TaskOnly(v, k, s) ==
  /\ task' = [task EXCEPT ![v] = k] /\ loaded' = [loaded EXCEPT ![v] = s]
  /\ UNCHANGED <<bookVars, valuation, server, crashes>>

(* Such a step keeps the invariant when the task's new state is in order.  *)
LEMMA TaskOnlyInv ==
  ASSUME Inv, NEW v \in Valuations, NEW k \in Task, NEW s \in Seq(Trades), TaskOnly(v, k, s),
         Progress(k, valuation[v].target), Faithful(k, valuation[v], s),
         server = "serving", task[v].step # "none",
         k.step # "none" \/ faults' > 0,
         faults' \in Nat, faults' >= faults
  PROVE  Inv'
<1>1. \A u \in Valuations : /\ task'[u] = IF u = v THEN k ELSE task[u]
                            /\ loaded'[u] = IF u = v THEN s ELSE loaded[u]
  BY TypeOKFolds DEF Inv, TaskOnly
<1>2. BooksInv'
  BY BooksStepInv DEF Inv, TaskOnly
<1>3. TypeOK'
  <2>1. task' \in [Valuations -> [step : Steps, trades : Seq(TradeCopy), priced : Seq(TradeValuation)]]
    BY TypeOKFolds DEF Inv, TaskOnly, Task
  <2>2. BooksTypeOK'
    BY <1>2 DEF BooksInv
  <2>3. loaded' \in [Valuations -> Seq(Trades)]
    BY TypeOKFolds DEF Inv, TaskOnly
  <2> QED
    BY <2>1, <2>2, <2>3 DEF Inv, TypeOK, TaskOnly, Steps
<1>4. valuation[v].status = "running"
  BY DEF Inv, RunningHasTask
<1>5. RunningHasTask'
  BY <1>1, <1>4, TypeOKFolds DEF Inv, RunningHasTask, TaskOnly
<1>6. TasksDieWithTheServer'
  BY DEF TasksDieWithTheServer, TaskOnly
<1>7. \A u \in Valuations : (Progress(task[u], valuation[u].target) /\ Result(valuation[u]))'
  <2> TAKE u \in Valuations
  <2>1. valuation' = valuation
    BY DEF TaskOnly
  <2>2. Progress(task'[u], valuation[u].target) /\ Result(valuation[u])
    BY <1>1 DEF Inv
  <2> QED
    BY <2>1, <2>2 DEF Progress, Result
<1>8. Whole'
  <2> SUFFICES ASSUME NEW u \in Valuations PROVE Faithful(task[u], valuation[u], loaded[u])'
    BY DEF Whole
  <2>1. valuation' = valuation
    BY DEF TaskOnly
  <2>2. Faithful(task'[u], valuation[u], loaded'[u])
    BY <1>1 DEF Inv, Whole
  <2> QED
    BY <2>1, <2>2 DEF Faithful, EntriesOf
<1> QED
  BY <1>2, <1>3, <1>5, <1>6, <1>7, <1>8 DEF Inv

(* What a task may load: each trade once, and the books know them all.     *)
LEMMA LoadedOnce ==
  ASSUME Inv, NEW s \in Seq(Trades), \A i \in DOMAIN s : TradeExists(s[i]), NamedOnce(s)
  PROVE  /\ Copies(s) \in Seq(TradeCopy) /\ Len(Copies(s)) = Len(s)
         /\ \A i, j \in DOMAIN Copies(s) : Copies(s)[i].id = Copies(s)[j].id => i = j
         /\ \A i \in DOMAIN s : Copies(s)[i].id = s[i]
<1>1. DOMAIN s = 1..Len(s) /\ Len(s) \in Nat
  OBVIOUS
<1>2. \A i \in 1..Len(s) : s[i] \in Trades /\ trade[s[i]] \in TradeRow
  <2> SUFFICES ASSUME NEW i \in 1..Len(s) PROVE s[i] \in Trades /\ trade[s[i]] \in TradeRow
    OBVIOUS
  <2>1. s[i] \in Trades /\ trade[s[i]] # None
    BY <1>1 DEF TradeExists
  <2>2. BooksTypeOK
    BY TypeOKFolds DEF Inv
  <2> QED
    BY <2>1, <2>2 DEF BooksTypeOK
<1>3. \A i \in 1..Len(s) :
        [id |-> s[i], product |-> trade[s[i]].product, model |-> trade[s[i]].model] \in TradeCopy
  BY <1>2 DEF TradeRow, TradeCopy
<1>4. Copies(s) \in [1..Len(s) -> TradeCopy]
  BY <1>1, <1>3 DEF Copies
<1>5. Copies(s) \in Seq(TradeCopy) /\ Len(Copies(s)) = Len(s) /\ DOMAIN Copies(s) = 1..Len(s)
  BY <1>1, <1>4
<1>6. \A i \in 1..Len(s) : Copies(s)[i].id = s[i]
  BY <1>1 DEF Copies
<1> QED
  BY <1>1, <1>5, <1>6 DEF NamedOnce

(* However portfolio_trades orders the rows, it names each member once.    *)
LEMMA ReadingsNameOnce ==
  ASSUME Inv, NEW f \in Portfolios, NEW r \in Readings(rows[f])
  PROVE  LET s == [i \in DOMAIN r |-> r[i][1]]
         IN  s \in Seq(Trades) /\ NamedOnce(s) /\ \A i \in DOMAIN s : TradeExists(s[i])
<1> DEFINE n == Cardinality(rows[f])
           s == [i \in DOMAIN r |-> r[i][1]]
<1>1. rows[f] \in SUBSET (Trades \X Nat) /\ IsFiniteSet(rows[f]) /\ OneRowPerTrade(rows[f])
  BY DEF Inv, BooksInv, BooksTypeOK, Membership
<1>2. n \in Nat
  BY <1>1, FS_CardinalityType
<1>3. r \in [1..n -> rows[f]] /\ \A i, k \in 1..n : i < k => r[i] # r[k]
  BY DEF Readings
<1> HIDE DEF n
<1>4. DOMAIN r = 1..n /\ DOMAIN s = 1..n
  BY <1>3
<1>5. \A i \in 1..n : s[i] = r[i][1] /\ r[i] \in rows[f] /\ s[i] \in Trades
  BY <1>1, <1>3, <1>4
<1>6. s \in Seq(Trades)
  <2>1. s \in [1..n -> Trades]
    BY <1>4, <1>5
  <2> HIDE DEF s
  <2> QED
    BY <1>2, <2>1
<1>7. NamedOnce(s)
  <2> SUFFICES ASSUME NEW i \in 1..n, NEW k \in 1..n, s[i] = s[k] PROVE i = k
    BY <1>4 DEF NamedOnce
  <2>1. r[i] = r[k]
    BY <1>1, <1>5 DEF OneRowPerTrade
  <2> QED
    BY <2>1, <1>2, <1>3
<1>8. \A i \in DOMAIN s : s[i] \in RowTrades(rows[f])
  BY <1>4, <1>5 DEF RowTrades
<1>9. \A t \in RowTrades(rows[f]) : TradeExists(t)
  BY DEF Inv, BooksInv, ReferencesHold
<1> QED
  BY <1>6, <1>7, <1>8, <1>9

(* The task loads the trades, or gives up on a target that is gone.        *)
LEMMA LoadInv ==
  ASSUME Inv, NEW v \in Valuations, server = "serving", Load(v)
  PROVE  Inv'
<1> DEFINE target == valuation[v].target
<1>1. task[v].step = "load" /\ UNCHANGED <<bookVars, valuation, serverVars>>
  BY DEF Load
<1>2. /\ task[v] \in Task /\ faults \in Nat /\ Progress(task[v], target)
      /\ loaded[v] \in Seq(Trades) /\ Faithful(task[v], valuation[v], loaded[v])
      /\ valuation[v].status = "running"
  BY <1>1, TypeOKFolds DEF Inv, Whole, RunningHasTask
<1>3. ASSUME NEW s \in Seq(Trades), \A i \in DOMAIN s : TradeExists(s[i]), NamedOnce(s),
             target \in Trades => s = <<target>>, task' = [task EXCEPT ![v] = Loaded(s)],
             loaded' = [loaded EXCEPT ![v] = s]
      PROVE  Inv'
  <2>1. /\ Copies(s) \in Seq(TradeCopy) /\ Len(Copies(s)) = Len(s) /\ Len(s) \in Nat
        /\ \A i, j \in DOMAIN Copies(s) : Copies(s)[i].id = Copies(s)[j].id => i = j
        /\ \A i \in DOMAIN s : Copies(s)[i].id = s[i]
    BY <1>3, LoadedOnce
  <2>2. Loaded(s) = [step |-> IF 0 < Len(s) THEN "product" ELSE "complete",
                     trades |-> Copies(s), priced |-> <<>>]
    BY DEF Loaded, NextStep
  <2>3. Loaded(s) \in Task
    BY <2>1, <2>2 DEF Task, Steps
  <2>4. Progress(Loaded(s), target)
    <3>1. Loaded(s).trades = Copies(s) /\ Loaded(s).priced = <<>>
          /\ Loaded(s).step = IF 0 < Len(s) THEN "product" ELSE "complete"
      BY <2>2
    <3>2. Len(Loaded(s).priced) = 0 /\ DOMAIN Loaded(s).priced = {}
      BY <3>1
    <3>3. Prefix(Copies(s), Loaded(s).priced)
      BY <2>1, <3>2 DEF Prefix
    <3> HIDE DEF target
    <3> QED
      <4>1. Prefix(Loaded(s).trades, Loaded(s).priced)
        BY <3>1, <3>3
      <4>2. Len(Loaded(s).trades) = Len(s)
        BY <3>1, <2>1
      <4>3. Loaded(s).step \in AtATrade => Len(Loaded(s).priced) < Len(Loaded(s).trades)
        BY <3>1, <3>2, <4>2 DEF AtATrade
      <4>4. Loaded(s).step = "complete" => Len(Loaded(s).priced) = Len(Loaded(s).trades)
        BY <3>1, <3>2, <4>2, <2>1
      <4> QED
        BY <4>1, <4>2, <4>3, <4>4, <1>3 DEF Progress
  <2>7. Faithful(Loaded(s), valuation[v], s)
    <3>1. Loaded(s).trades = Copies(s)
      BY <2>2
    <3>2. \A i, j \in DOMAIN s : s[i] = s[j] => i = j
      BY <1>3 DEF NamedOnce
    <3>3. valuation[v].status # "completed"
      BY <1>2
    <3> QED
      BY <2>1, <3>1, <3>2, <3>3, <1>3 DEF Faithful
  <2>5. TaskOnly(v, Loaded(s), s)
    BY <1>1, <1>3 DEF TaskOnly, serverVars
  <2>6. Loaded(s).step # "none" /\ task[v].step # "none" /\ faults' = faults
    BY <1>1, <2>2 DEF serverVars
  <2> QED
    BY <1>2, <2>3, <2>4, <2>5, <2>6, <2>7, TaskOnlyInv
<1>4. CASE target \in portfolio
  <2>1. target \in Portfolios /\ target \notin Trades
    BY <1>4, ValuationAssumption DEF Inv, BooksInv, BooksTypeOK
  <2>2. PICK s \in TradeLists(target) :
          task' = [task EXCEPT ![v] = Loaded(s)] /\ loaded' = [loaded EXCEPT ![v] = s]
    BY <1>4 DEF Load
  <2>3. PICK r \in Readings(rows[target]) : s = [i \in DOMAIN r |-> r[i][1]]
    BY <2>1 DEF TradeLists
  <2>4. s \in Seq(Trades) /\ NamedOnce(s) /\ \A i \in DOMAIN s : TradeExists(s[i])
    BY <2>1, <2>3, ReadingsNameOnce
  <2> QED
    BY <1>3, <2>1, <2>2, <2>4
<1>5. CASE target \notin portfolio /\ target \in Trades /\ TradeExists(target)
  <2>1. target \notin Portfolios
    BY <1>5, ValuationAssumption
  <2>2. /\ task' = [task EXCEPT ![v] = Loaded(<<target>>)]
        /\ loaded' = [loaded EXCEPT ![v] = <<target>>]
    BY <1>5, <2>1 DEF Load, TradeLists
  <2>3. <<target>> \in Seq(Trades) /\ NamedOnce(<<target>>) /\ Len(<<target>>) = 1
        /\ \A i \in DOMAIN <<target>> : TradeExists(<<target>>[i])
    BY <1>5 DEF NamedOnce
  <2> HIDE DEF target
  <2> QED
    BY <1>3, <2>2, <2>3
<1>6. CASE target \notin portfolio /\ ~(target \in Trades /\ TradeExists(target))
  <2> DEFINE k == [task[v] EXCEPT !.step = "fail"]
  <2>1. TaskOnly(v, k, loaded[v])
    BY <1>1, <1>2, <1>6, TypeOKFolds DEF Load, Goto, TaskOnly, Inv, serverVars, Task
  <2>2. k \in Task /\ Progress(k, target) /\ Faithful(k, valuation[v], loaded[v])
    BY <1>2 DEF Task, Steps, Progress, AtATrade, Faithful
  <2>3. k.step # "none" /\ task[v].step # "none" /\ faults' = faults
    BY <1>1, <1>2 DEF Task, serverVars
  <2> HIDE DEF k
  <2> QED
    BY <1>2, <2>1, <2>2, <2>3, TaskOnlyInv
<1> QED
  BY <1>4, <1>5, <1>6

(* The steps that only move a task on.                                     *)
LEMMA GotoInv ==
  ASSUME Inv, NEW v \in Valuations, server = "serving", task[v].step # "none",
         NEW step \in {"model", "native", "fail"}, Goto(v, step),
         step # "fail" => task[v].step \in AtATrade,
         UNCHANGED <<bookVars, rowVars, server, crashes>>, faults' \in Nat, faults' >= faults
  PROVE  Inv'
<1> DEFINE k == [task[v] EXCEPT !.step = step]
<1>1. /\ task[v] \in Task /\ Progress(task[v], valuation[v].target)
      /\ loaded[v] \in Seq(Trades) /\ Faithful(task[v], valuation[v], loaded[v])
  BY TypeOKFolds DEF Inv, Whole
<1>2. k \in Task /\ k.step # "none"
  BY <1>1 DEF Task, Steps
<1>3. Progress(k, valuation[v].target)
  BY <1>1 DEF Task, Progress, AtATrade
<1>4. TaskOnly(v, k, loaded[v])
  BY <1>1, TypeOKFolds DEF Goto, TaskOnly, Inv, Task, rowVars
<1>5. Faithful(k, valuation[v], loaded[v])
  BY <1>1 DEF Faithful, Task, AtATrade
<1> QED
  BY <1>1, <1>2, <1>3, <1>4, <1>5, TaskOnlyInv

(* The native call extends the priced prefix by the trade the task is at.  *)
LEMMA CallNativeInv ==
  ASSUME Inv, NEW v \in Valuations, server = "serving", CallNative(v)
  PROVE  Inv'
<1>1. /\ task[v] \in Task /\ Progress(task[v], valuation[v].target)
      /\ task[v].step = "native" /\ faults \in Nat
      /\ loaded[v] \in Seq(Trades) /\ Faithful(task[v], valuation[v], loaded[v])
  BY TypeOKFolds DEF Inv, CallNative, Whole
<1> DEFINE trades == task[v].trades
           priced == task[v].priced
           n == Len(priced)
<1>2. PICK ok \in BOOLEAN : Price(v, [trade |-> Current(v).id, ok |-> ok])
  BY DEF CallNative
<1> DEFINE e == [trade |-> trades[n + 1].id, ok |-> ok]
           longer == Append(priced, e)
           k == [step |-> NextStep(trades, longer), trades |-> trades, priced |-> longer]
<1>3. /\ trades \in Seq(TradeCopy) /\ priced \in Seq(TradeValuation)
      /\ n \in Nat /\ Len(trades) \in Nat /\ n < Len(trades)
      /\ DOMAIN trades = 1..Len(trades) /\ DOMAIN priced = 1..n
  BY <1>1 DEF Task, Progress, AtATrade
<1>4. n + 1 \in 1..Len(trades) /\ trades[n + 1] \in TradeCopy
  BY <1>3
<1>5. e \in TradeValuation
  BY <1>4 DEF TradeCopy, TradeValuation
<1>6. TaskOnly(v, k, loaded[v]) /\ faults' = faults
  BY <1>1, <1>2, TypeOKFolds DEF Price, Current, CallNative, TaskOnly, serverVars, rowVars, Inv
<1>11. Faithful(k, valuation[v], loaded[v])
  <2>1. k.trades = task[v].trades /\ task[v].step \in AtATrade
    BY <1>1 DEF AtATrade
  <2> HIDE DEF k
  <2> QED
    BY <1>1, <2>1 DEF Faithful
<1>7. /\ longer \in Seq(TradeValuation) /\ Len(longer) = n + 1 /\ DOMAIN longer = 1..(n + 1)
      /\ longer[n + 1] = e /\ \A i \in 1..n : longer[i] = priced[i]
  <2> HIDE DEF e
  <2> QED
    BY <1>3, <1>5
<1>8. NextStep(trades, longer) = IF n + 1 < Len(trades) THEN "product" ELSE "complete"
  BY <1>7 DEF NextStep
<1>9. k \in Task /\ k.step # "none"
  BY <1>3, <1>7, <1>8 DEF Task, Steps
<1>10. Progress(k, valuation[v].target)
  <2>1. \A i \in 1..(n + 1) : longer[i].trade = trades[i].id
    <3> TAKE i \in 1..(n + 1)
    <3>1. CASE i = n + 1
      BY <3>1, <1>7
    <3>2. CASE i \in 1..n
      BY <3>2, <1>1, <1>3, <1>7 DEF Progress, Prefix
    <3> QED
      BY <3>1, <3>2, <1>3
  <2>2. k.priced = longer /\ k.trades = trades /\ k.step = NextStep(trades, longer)
    OBVIOUS
  <2>3. /\ \A i, j \in DOMAIN trades : trades[i].id = trades[j].id => i = j
        /\ valuation[v].target \in Trades => Len(trades) = 1
    BY <1>1 DEF Progress, Prefix, AtATrade
  <2> HIDE DEF longer, k, trades, priced
  <2>4. Prefix(trades, longer)
    BY <2>1, <2>3, <1>3, <1>7 DEF Prefix
  <2>5. Len(longer) \in Nat /\ Len(longer) <= Len(trades)
    BY <1>3, <1>7
  <2>6. Prefix(k.trades, k.priced)
    BY <2>2, <2>4
  <2>7. Len(k.priced) = n + 1 /\ Len(k.trades) = Len(trades)
    BY <2>2, <1>7
  <2>8. k.step = IF n + 1 < Len(trades) THEN "product" ELSE "complete"
    BY <2>2, <1>8
  <2> HIDE DEF n
  <2>9. k.step \in AtATrade => Len(k.priced) < Len(k.trades)
    BY <2>7, <2>8 DEF AtATrade
  <2>10. k.step = "complete" => Len(k.priced) = Len(k.trades)
    <3>1. n \in Nat /\ Len(trades) \in Nat /\ n < Len(trades)
      BY <1>3
    <3> QED
      BY <2>7, <2>8, <3>1
  <2> QED
    BY <2>3, <2>6, <2>7, <2>9, <2>10 DEF Progress
<1> HIDE DEF k
<1> QED
  BY <1>1, <1>6, <1>9, <1>10, <1>11, TaskOnlyInv

(* get_product and get_model move the task on, or to its except clause.    *)
LEMMA ReadInv ==
  ASSUME Inv, NEW v \in Valuations, server = "serving", ReadProduct(v) \/ ReadModel(v)
  PROVE  Inv'
<1>1. /\ task[v].step \in AtATrade /\ task[v].step # "none" /\ faults \in Nat /\ faults' = faults
      /\ UNCHANGED <<bookVars, rowVars, server, crashes>>
  BY TypeOKFolds DEF Inv, ReadProduct, ReadModel, AtATrade, serverVars
<1>2. PICK step \in {"model", "native", "fail"} : Goto(v, step)
  BY DEF ReadProduct, ReadModel
<1> QED
  BY <1>1, <1>2, GotoInv

(* A broken store call ends in the except clause, or ends the task.        *)
LEMMA StoreRaisesInv ==
  ASSUME Inv, NEW v \in Valuations, server = "serving", StoreRaises(v)
  PROVE  Inv'
<1>1. /\ faults \in Nat /\ faults' = faults + 1 /\ task[v].step # "none"
      /\ UNCHANGED <<bookVars, rowVars, server, crashes>>
      /\ task \in [Valuations -> Task] /\ task[v] \in Task
      /\ loaded[v] \in Seq(Trades) /\ Faithful(task[v], valuation[v], loaded[v])
      /\ valuation[v].status = "running"
  BY TypeOKFolds DEF Inv, StoreRaises, Whole, RunningHasTask
<1>2. CASE task[v].step = "fail"
  <2>1. TaskOnly(v, NoTask, loaded[v])
    BY <1>1, <1>2, TypeOKFolds DEF StoreRaises, TaskOnly, rowVars, Inv
  <2>2. NoTask \in Task
    BY DEF NoTask, Task, Steps
  <2>3. Progress(NoTask, valuation[v].target)
    BY DEF NoTask, Progress, Prefix, AtATrade
  <2>4. Faithful(NoTask, valuation[v], loaded[v])
    BY <1>1 DEF NoTask, Faithful, AtATrade
  <2> QED
    BY <1>1, <2>1, <2>2, <2>3, <2>4, TaskOnlyInv
<1>3. CASE task[v].step # "fail"
  <2>1. Goto(v, "fail")
    BY <1>1, <1>3 DEF StoreRaises, Goto, Task
  <2> QED
    BY <1>1, <2>1, GotoInv
<1> QED
  BY <1>2, <1>3

(* A step that settles a row, or opens one, and nothing else.              *)
LEMMA RowStepInv ==
  ASSUME Inv, NEW v \in Valuations, NEW r \in Row, NEW k \in Task,
         Progress(k, r.target), Result(r), Faithful(k, r, loaded[v]),
         k.step # "none" => r.status = "running" /\ server = "serving",
         r.status = "running" => k.step # "none",
         valuation' = [valuation EXCEPT ![v] = r], task' = [task EXCEPT ![v] = k],
         UNCHANGED <<bookVars, loaded, serverVars>>
  PROVE  Inv'
<1>1. \A u \in Valuations : /\ valuation'[u] = IF u = v THEN r ELSE valuation[u]
                            /\ task'[u] = IF u = v THEN k ELSE task[u]
  BY TypeOKFolds DEF Inv
<1>2. BooksInv' /\ UNCHANGED serverVars
  BY BooksStepInv DEF Inv
<1>3. TypeOK'
  <2>1. /\ valuation' \in [Valuations -> [status : {"absent", "running"} \cup Settled,
                                          target : Targets \cup {None}, trades : Seq(TradeValuation)]]
        /\ task' \in [Valuations -> [step : Steps, trades : Seq(TradeCopy), priced : Seq(TradeValuation)]]
    BY TypeOKFolds DEF Inv, Row, Task
  <2>2. BooksTypeOK'
    BY <1>2 DEF BooksInv
  <2> QED
    BY <1>2, <2>1, <2>2 DEF Inv, TypeOK, Steps, serverVars
<1>4. \A u \in Valuations : (Progress(task[u], valuation[u].target) /\ Result(valuation[u]))'
  <2> TAKE u \in Valuations
  <2>1. Progress(task'[u], valuation'[u].target) /\ Result(valuation'[u])
    BY <1>1 DEF Inv
  <2> QED
    BY <2>1 DEF Progress, Prefix, Result
<1>5. RunningHasTask' /\ TasksDieWithTheServer'
  BY <1>1, <1>2 DEF Inv, RunningHasTask, TasksDieWithTheServer, serverVars
<1>6. Whole'
  <2> SUFFICES ASSUME NEW u \in Valuations PROVE Faithful(task[u], valuation[u], loaded[u])'
    BY DEF Whole
  <2>1. Faithful(task'[u], valuation'[u], loaded[u])
    BY <1>1 DEF Inv, Whole
  <2> QED
    BY <2>1 DEF Faithful, EntriesOf
<1> QED
  BY <1>2, <1>3, <1>4, <1>5, <1>6 DEF Inv

(* A task that has ended has nothing left to violate.                      *)
LEMMA NoTaskFits == \A target : NoTask \in Task /\ Progress(NoTask, target)
  BY DEF NoTask, Task, Steps, Progress, Prefix, AtATrade

(* The endpoint opens a row together with its task.                        *)
LEMMA RequestInv ==
  ASSUME Inv, NEW v \in Valuations, server = "serving", NEW target \in Targets, Request(v, target)
  PROVE  Inv'
<1> DEFINE r == [status |-> "running", target |-> target, trades |-> <<>>]
           k == [task[v] EXCEPT !.step = "load"]
<1>1. task \in [Valuations -> Task] /\ task[v] \in Task /\ Progress(task[v], valuation[v].target)
  BY TypeOKFolds DEF Inv
<1>6. Faithful(k, r, loaded[v])
  BY <1>1 DEF Inv, Whole, Faithful, Task, AtATrade
<1>2. r \in Row /\ Result(r) /\ r.status = "running" /\ r.target = target
  BY DEF Row, Result
<1>3. k \in Task /\ k.step = "load"
  BY <1>1 DEF Task, Steps
<1>4. Progress(k, target)
  BY <1>1 DEF Task, Progress, AtATrade
<1>5. /\ valuation' = [valuation EXCEPT ![v] = r] /\ task' = [task EXCEPT ![v] = k]
      /\ UNCHANGED <<bookVars, loaded, serverVars>>
  BY <1>1 DEF Request, Task
<1> HIDE DEF r, k
<1> QED
  BY <1>2, <1>3, <1>4, <1>5, <1>6, RowStepInv

(* update_valuation settles a running row, by its task or by the sweep at  *)
(* the start.                                                              *)
LEMMA SettleInv ==
  ASSUME Inv, NEW v \in Valuations, Complete(v) \/ Fail(v) \/ Reconcile(v),
         server = "serving" \/ Reconcile(v)
  PROVE  Inv'
<1>1. /\ valuation \in [Valuations -> Row] /\ valuation[v] \in Row /\ Result(valuation[v])
      /\ task \in [Valuations -> Task] /\ task[v] \in Task /\ Progress(task[v], valuation[v].target)
      /\ Faithful(task[v], valuation[v], loaded[v]) /\ loaded[v] \in Seq(Trades)
  BY TypeOKFolds DEF Inv, Whole
<1>2. CASE Complete(v)
  <2> DEFINE r == [valuation[v] EXCEPT !.status = "completed", !.trades = task[v].priced]
  <2>1. /\ r \in Row /\ r.status = "completed" /\ r.trades = task[v].priced
        /\ r.target = valuation[v].target
    BY <1>1 DEF Row, Task, Settled
  <2>2. /\ task[v].priced \in Seq(TradeValuation) /\ task[v].trades \in Seq(TradeCopy)
        /\ task[v].step = "complete"
    BY <1>1, <1>2 DEF Task, Complete
  <2>3. Len(task[v].priced) = Len(task[v].trades) /\ DOMAIN task[v].priced = DOMAIN task[v].trades
    BY <1>1, <2>2 DEF Progress
  <2>4. Prefix(task[v].trades, task[v].priced)
        /\ (valuation[v].target \in Trades => Len(task[v].trades) = 1)
    BY <1>1, <2>2 DEF Progress
  <2>5. /\ valuation' = [valuation EXCEPT ![v] = r] /\ task' = [task EXCEPT ![v] = NoTask]
        /\ UNCHANGED <<bookVars, loaded, serverVars>>
    BY <1>1, <1>2 DEF Complete, Row
  <2> HIDE DEF r
  <2>8. Faithful(NoTask, r, loaded[v])
    <3>1. /\ Len(task[v].trades) = Len(loaded[v])
          /\ \A i \in DOMAIN loaded[v] : task[v].trades[i].id = loaded[v][i]
          /\ valuation[v].target \in Trades => loaded[v] = <<valuation[v].target>>
      BY <1>1, <2>2 DEF Faithful
    <3>2. DOMAIN loaded[v] = DOMAIN task[v].priced
      BY <1>1, <2>2, <2>3, <3>1
    <3>3. \A i \in DOMAIN loaded[v] : task[v].priced[i].trade = loaded[v][i]
      BY <2>4, <3>1, <3>2 DEF Prefix
    <3>4. EntriesOf(r.trades, loaded[v])
      BY <2>1, <2>3, <3>1, <3>3 DEF EntriesOf
    <3> QED
      BY <1>1, <2>1, <3>1, <3>4 DEF Faithful, NoTask, AtATrade
  <2>6. Result(r)
    BY <2>1, <2>3, <2>4 DEF Result, Prefix
  <2>7. NoTask.step = "none"
    BY DEF NoTask
  <2> QED
    BY <2>1, <2>5, <2>6, <2>7, <2>8, NoTaskFits, RowStepInv
<1>3. CASE Fail(v) \/ Reconcile(v)
  <2> DEFINE r == [valuation[v] EXCEPT !.status = "failed"]
  <2>1. r \in Row /\ r.status = "failed" /\ r.trades = valuation[v].trades /\ r.target = valuation[v].target
    BY <1>1 DEF Row, Settled
  <2>2. valuation[v].status = "running"
    BY <1>3 DEF Fail, Reconcile, Inv, RunningHasTask
  <2>3. Result(r)
    BY <1>1, <2>1, <2>2 DEF Result
  <2>4. valuation' = [valuation EXCEPT ![v] = r] /\ UNCHANGED <<bookVars, loaded, serverVars>>
    BY <1>1, <1>3 DEF Fail, Reconcile, Row
  <2> HIDE DEF r
  <2>7. \A k : k.step = "none" => Faithful(k, r, loaded[v])
    BY <1>1, <2>1 DEF Faithful, AtATrade
  <2>5. CASE Fail(v)
    <3>1. task' = [task EXCEPT ![v] = NoTask] /\ NoTask.step = "none"
      BY <2>5 DEF Fail, NoTask
    <3> QED
      BY <2>1, <2>3, <2>4, <2>7, <3>1, NoTaskFits, RowStepInv
  <2>6. CASE Reconcile(v)
    <3>1. task[v].step = "none" /\ task' = [task EXCEPT ![v] = task[v]]
      BY <1>1, <2>6 DEF Reconcile, Inv, TasksDieWithTheServer
    <3> QED
      BY <1>1, <2>1, <2>3, <2>4, <2>7, <3>1, RowStepInv
  <2> QED
    BY <1>3, <2>5, <2>6
<1> QED
  BY <1>2, <1>3
-----------------------------------------------------------------------------
(* The steps of the server: the tasks go with it, and it serves again only *)
(* when no row is left running.                                            *)
LEMMA ServerInv ==
  ASSUME Inv, Crash \/ Start \/ Serve
  PROVE  Inv'
<1>1. BooksInv' /\ valuation' = valuation /\ loaded' = loaded
  <2>1. valuation' = valuation /\ loaded' = loaded /\ (UNCHANGED bookVars \/ Seed)
    BY DEF Crash, Start, Serve, taskVars, rowVars
  <2> QED
    BY <2>1, BooksStepInv DEF Inv, BooksNext
<1>2. \A v \in Valuations : task'[v] = task[v] \/ (task'[v] = NoTask /\ server' # "serving")
  BY DEF Crash, Start, Serve, taskVars
<1>3. TypeOK'
  <2>1. task' \in [Valuations -> Task]
    BY TypeOKFolds, NoTaskFits DEF Inv, Crash, Start, Serve, taskVars
  <2>2. server' \in {"serving", "starting", "down"} /\ crashes' \in Nat /\ faults' \in Nat
    BY DEF Inv, TypeOK, Crash, Start, Serve
  <2>3. BooksTypeOK'
    BY <1>1 DEF BooksInv
  <2> QED
    BY <1>1, <2>1, <2>2, <2>3 DEF Inv, TypeOK, Task, Steps
<1>4. \A v \in Valuations : (Progress(task[v], valuation[v].target) /\ Result(valuation[v]))'
  <2> TAKE v \in Valuations
  <2>1. Progress(task'[v], valuation[v].target) /\ Result(valuation[v])
    BY <1>2, NoTaskFits DEF Inv
  <2> QED
    BY <1>1, <2>1 DEF Progress, Prefix, Result
<1>7. Whole'
  <2> SUFFICES ASSUME NEW v \in Valuations PROVE Faithful(task[v], valuation[v], loaded[v])'
    BY DEF Whole
  <2>1. NoTask.step \notin AtATrade \cup {"complete"}
    BY DEF NoTask, AtATrade
  <2>2. Faithful(task'[v], valuation[v], loaded[v])
    BY <1>2, <2>1 DEF Inv, Whole, Faithful
  <2> QED
    BY <1>1, <2>2 DEF Faithful, EntriesOf
<1>5. TasksDieWithTheServer'
  BY DEF Inv, TasksDieWithTheServer, Crash, Start, Serve, NoTask, taskVars
<1>6. RunningHasTask'
  <2>1. CASE Crash
    BY <2>1, <1>1 DEF Crash, RunningHasTask, NoTask
  <2>2. CASE Start \/ Serve
    BY <2>2, <1>1 DEF Inv, Start, Serve, RunningHasTask, TasksDieWithTheServer, taskVars
  <2> QED
    BY <2>1, <2>2
<1> QED
  BY <1>1, <1>3, <1>4, <1>5, <1>6, <1>7 DEF Inv

(* A change of the books reaches neither the rows nor the tasks.           *)
LEMMA BooksChangeInv ==
  ASSUME Inv, BooksStep
  PROVE  Inv'
<1>1. BooksInv' /\ UNCHANGED <<taskVars, serverVars>>
  BY TradeStepInv, PortfolioStepInv DEF Inv, BooksStep
<1>2. TypeOK'
  BY <1>1 DEF Inv, TypeOK, BooksInv, taskVars, rowVars, serverVars
<1>3. \A v \in Valuations : (Progress(task[v], valuation[v].target) /\ Result(valuation[v]))'
  BY <1>1 DEF Inv, Progress, Prefix, Result, taskVars, rowVars
<1>4. RunningHasTask' /\ TasksDieWithTheServer'
  BY <1>1 DEF Inv, RunningHasTask, TasksDieWithTheServer, taskVars, rowVars, serverVars
<1>5. Whole'
  BY <1>1 DEF Inv, Whole, Faithful, EntriesOf, taskVars, rowVars
<1> QED
  BY <1>1, <1>2, <1>3, <1>4, <1>5 DEF Inv

(* Every step keeps the invariant.                                         *)
LEMMA StepInv ==
  ASSUME Inv, [Next]_vars
  PROVE  Inv'
<1>1. CASE UNCHANGED vars
  <2>1. BooksInv' /\ UNCHANGED <<taskVars, serverVars>>
    BY <1>1, BooksStepInv DEF Inv, vars
  <2>2. TypeOK' /\ RunningHasTask' /\ TasksDieWithTheServer'
    BY <2>1 DEF Inv, TypeOK, BooksInv, RunningHasTask, TasksDieWithTheServer, taskVars, rowVars,
                serverVars
  <2>3. \A v \in Valuations : (Progress(task[v], valuation[v].target) /\ Result(valuation[v]))'
    BY <2>1 DEF Inv, Progress, Prefix, Result, taskVars, rowVars
  <2>4. Whole'
    BY <2>1 DEF Inv, Whole, Faithful, EntriesOf, taskVars, rowVars
  <2> QED
    BY <2>1, <2>2, <2>3, <2>4 DEF Inv
<1>2. ASSUME NEW v \in Valuations, server = "serving", TaskStep(v) PROVE Inv'
  BY <1>2, LoadInv, ReadInv, CallNativeInv, SettleInv DEF TaskStep
<1>3. ASSUME NEW v \in Valuations, server = "serving", StoreRaises(v) PROVE Inv'
  BY <1>3, StoreRaisesInv
<1>4. ASSUME NEW v \in Valuations, server = "serving", NEW target \in Targets, Request(v, target) PROVE Inv'
  BY <1>4, RequestInv
<1>5. ASSUME NEW v \in Valuations, Reconcile(v) PROVE Inv'
  BY <1>5, SettleInv
<1> QED
  BY <1>1, <1>2, <1>3, <1>4, <1>5, BooksChangeInv, ServerInv DEF Next

(* A settled row is neither absent nor running, and every step that writes *)
(* a row finds it absent or running.                                       *)
LEMMA SettledStep ==
  ASSUME Inv, [Next]_vars, NEW v \in Valuations, valuation[v].status \in Settled
  PROVE  valuation'[v] = valuation[v]
<1>1. valuation \in [Valuations -> Row] /\ task[v].step = "none" /\ valuation[v].status \notin {"absent", "running"}
  BY TypeOKFolds DEF Inv, RunningHasTask, Settled
<1>2. ASSUME NEW u \in Valuations, Complete(u) \/ Fail(u) \/ Reconcile(u) PROVE valuation'[v] = valuation[v]
  BY <1>1, <1>2 DEF Complete, Fail, Reconcile
<1>3. ASSUME NEW u \in Valuations, NEW target \in Targets, Request(u, target) PROVE valuation'[v] = valuation[v]
  BY <1>1, <1>3 DEF Request
<1>4. ASSUME NEW u \in Valuations, Load(u) \/ ReadProduct(u) \/ ReadModel(u) \/ CallNative(u) \/ StoreRaises(u)
      PROVE  valuation' = valuation
  BY <1>4 DEF Load, ReadProduct, ReadModel, CallNative, StoreRaises, rowVars
<1>5. ASSUME BooksStep \/ Crash \/ Start \/ Serve \/ UNCHANGED vars PROVE valuation' = valuation
  BY <1>5 DEF BooksStep, Crash, Start, Serve, taskVars, rowVars, vars
<1> QED
  BY <1>2, <1>3, <1>4, <1>5 DEF Next, TaskStep
-----------------------------------------------------------------------------
(* The inductive invariant holds in every reachable state.                 *)
THEOREM ValuationInvariant == Spec => []Inv
<1> QED
  BY InitInv, StepInv, PTL DEF Spec

(* The books, the rows, the tasks and the server are well typed.           *)
THEOREM ValuationTypeCorrect == Spec => []TypeOK
<1>1. Inv => TypeOK
  BY DEF Inv
<1> QED
  BY <1>1, ValuationInvariant, PTL

(* A task works on running rows only, and a serving process has a task for *)
(* every running row unless a store call of a task raised.                 *)
THEOREM NoRunningRowIsForgotten == Spec => []RunningHasTask
<1>1. Inv => RunningHasTask
  BY DEF Inv
<1> QED
  BY <1>1, ValuationInvariant, PTL

(* A completed valuation has an entry for every trade of the portfolio as  *)
(* it was loaded, in that order and each once, however the books change    *)
(* during the pricing.                                                     *)
THEOREM ResultsAreWhole == Spec => []PricedOnceInOrder
<1>1. Inv => PricedOnceInOrder
  <2> SUFFICES ASSUME Inv, NEW v \in Valuations
               PROVE  PricedAt(v)
    BY DEF PricedOnceInOrder, PricedAt
  <2>1. /\ Faithful(task[v], valuation[v], loaded[v]) /\ Result(valuation[v])
        /\ Progress(task[v], valuation[v].target) /\ task[v] \in Task /\ loaded[v] \in Seq(Trades)
    BY TypeOKFolds DEF Inv, Whole
  <2>2. task[v].step \in AtATrade
          => /\ Len(task[v].priced) < Len(loaded[v])
             /\ Current(v).id = loaded[v][Len(task[v].priced) + 1]
    <3> SUFFICES ASSUME task[v].step \in AtATrade
                 PROVE  /\ Len(task[v].priced) < Len(loaded[v])
                        /\ Current(v).id = loaded[v][Len(task[v].priced) + 1]
      OBVIOUS
    <3>1. /\ Len(task[v].priced) < Len(loaded[v]) /\ Len(task[v].priced) \in Nat
          /\ \A i \in DOMAIN loaded[v] : task[v].trades[i].id = loaded[v][i]
      BY <2>1 DEF Progress, Faithful, Task
    <3>2. Len(task[v].priced) + 1 \in DOMAIN loaded[v]
      BY <2>1, <3>1
    <3> QED
      BY <3>1, <3>2 DEF Current
  <2> QED
    BY <2>1, <2>2 DEF Faithful, Result, PricedAt
<1> QED
  BY <1>1, ValuationInvariant, PTL

(* A completed or failed valuation is never written again.                 *)
THEOREM SettledForGood == Spec => SettledStays
<1>1. Inv /\ [Next]_vars
        => [\A v \in Valuations : valuation[v].status \in Settled => valuation'[v] = valuation[v]]_vars
  BY SettledStep
<1> QED
  BY <1>1, ValuationInvariant, PTL DEF Spec, SettledStays
=============================================================================
