--------------------------- MODULE IOServerProofs ---------------------------
(***************************************************************************)
(* Theorems about OrderStore, MessageIngest and the process they form, for *)
(* any threads, requests, names, messages and tables: first the store,     *)
(* next to any other users of its connection, then the subscriber, then    *)
(* both on one connection.                                                 *)
(***************************************************************************)
EXTENDS IOServer, FiniteSetTheorems, TLAPS

-----------------------------------------------------------------------------
(* The store. *)

Creating == {"CreateOrder", "CreateSignal", "CreateStrategy"}
StrategyNaming == {"CreateOrder", "CreateSignal"}

(* The handler of thread t: what it has looked up and inserted belongs to the *)
(* request it works on.                                                      *)
WorkOK(t) ==
    /\ at[t] = "idle" => found[t] = 0
    /\ at[t] # "idle" => req[t] \in Requests
    /\ at[t] \in {"symbol", "strategy"} => req[t].op \in StrategyNaming
    /\ at[t] \in {"insert", "rowid"} => req[t].op \in Creating
    /\ found[t] # 0 => strategies[found[t]] = req[t].strategy
    /\ at[t] \in {"symbol", "insert"} /\ req[t].op = "CreateSignal" => found[t] # 0
    /\ at[t] = "insert" /\ req[t].op = "CreateOrder" /\ found[t] = 0 =>
            NoneAmong(req[t].strategy, seen[t])
    /\ IF at[t] = "rowid" THEN RowMatches(req[t], row[t], seen[t]) ELSE row[t] = 0
    /\ at[t] = "rowid" /\ last.by = t => last.id = row[t]

(* The orders table against what the clients were told. *)
ClientsUnique ==
    \A i, j \in DOMAIN orders : orders[i].client = orders[j].client => i = j
RowsApart == \A t, u \in Workers, i \in DOMAIN orders : InFlight(t, i) /\ InFlight(u, i) => t = u
InFlightUntold ==
    \A t \in Workers, i \in DOMAIN orders : InFlight(t, i) => orders[i].client \notin told
LedgerOK == ClientsUnique /\ RowsApart /\ InFlightUntold /\ OrdersAreAnsweredFor

WorkersOK == \A t \in Workers : WorkOK(t)

AnswerOK == AnswersMatchTables /\ OwnIdUnlessOvertaken

StoreInv == StoreTypeOK /\ WorkersOK /\ LedgerOK /\ AnswerOK

-----------------------------------------------------------------------------
(* Requests. *)

LEMMA RequestShapes ==
    ASSUME NEW r \in Requests
    PROVE  /\ r.op \in Creating \cup {"CancelOrder", "UpdateStrategy"}
           /\ r.op = "CreateOrder" =>
                r.client \in ClientIds /\ r.strategy \in StrategyNames \cup {None}
           /\ r.op = "CreateSignal" => r.strategy \in StrategyNames
           /\ r.op = "CreateStrategy" => r.name \in StrategyNames
  BY StoreAssumption
  DEF OrderRequests, SignalRequests, StrategyRequests, IdRequests, Creating

-----------------------------------------------------------------------------
(* Tables only grow at the end, and what a row says of a request stays. *)

TablesOK ==
    /\ strategies \in Seq(StrategyNames)
    /\ orders \in Seq(OrderRows)
    /\ signals \in Seq(1..Len(strategies))

TablesGrow ==
    /\ Len(orders) <= Len(orders') /\ \A i \in DOMAIN orders : orders'[i] = orders[i]
    /\ Len(signals) <= Len(signals') /\ \A i \in DOMAIN signals : signals'[i] = signals[i]
    /\ Len(strategies) <= Len(strategies')
    /\ \A i \in DOMAIN strategies : strategies'[i] = strategies[i]

LEMMA AppendGrows ==
    ASSUME NEW S, NEW s \in Seq(S), NEW e \in S
    PROVE  /\ Append(s, e) \in Seq(S)
           /\ Len(Append(s, e)) = Len(s) + 1
           /\ DOMAIN Append(s, e) = DOMAIN s \cup {Len(s) + 1}
           /\ \A i \in DOMAIN s : Append(s, e)[i] = s[i]
           /\ Append(s, e)[Len(s) + 1] = e
  OBVIOUS

\* A key that points to a strategy still does when there are more of them.
LEMMA WiderRows ==
    ASSUME TablesOK, strategies' \in Seq(StrategyNames), Len(strategies) <= Len(strategies'),
           UNCHANGED <<orders, signals>>
    PROVE  TablesOK'
  <1>1. Len(strategies) \in Nat /\ Len(strategies') \in Nat
    BY DEF TablesOK
  <1>2. OrderRows \subseteq OrderRows'
    BY <1>1 DEF OrderRows
  <1>3. 1..Len(strategies) \subseteq 1..Len(strategies')
    BY <1>1
  <1> QED
    BY <1>2, <1>3 DEF TablesOK

LEMMA DomainsGrow ==
    ASSUME TablesOK, TablesOK', TablesGrow
    PROVE  /\ DOMAIN orders \subseteq DOMAIN orders'
           /\ DOMAIN signals \subseteq DOMAIN signals'
           /\ DOMAIN strategies \subseteq DOMAIN strategies'
  BY DEF TablesOK, TablesGrow

LEMMA KeysPoint ==
    ASSUME TablesOK
    PROVE  /\ \A i \in DOMAIN orders :
                /\ orders[i].strategy # 0 => orders[i].strategy \in DOMAIN strategies
                /\ orders[i].client \in ClientIds
           /\ \A i \in DOMAIN signals : signals[i] \in DOMAIN strategies
  <1>1. \A i \in DOMAIN orders : orders[i] \in OrderRows
    BY DEF TablesOK
  <1>2. \A i \in DOMAIN signals : signals[i] \in 1..Len(strategies)
    BY DEF TablesOK
  <1>3. DOMAIN strategies = 1..Len(strategies) /\ Len(strategies) \in Nat
    BY DEF TablesOK
  <1> QED
    BY <1>1, <1>2, <1>3 DEF OrderRows

\* What is not among the strategies of an earlier time stays so.
LEMMA NoneStays ==
    ASSUME TablesOK, TablesGrow, NEW name, NEW n \in 0..Len(strategies), NoneAmong(name, n)
    PROVE  NoneAmong(name, n)'
  <1>1. 1..n \subseteq DOMAIN strategies
    BY DEF TablesOK
  <1> QED
    BY <1>1 DEF NoneAmong, TablesGrow

LEMMA RowStays ==
    ASSUME TablesOK, TablesOK', TablesGrow, NEW r, NEW i, NEW n \in 0..Len(strategies),
           RowMatches(r, i, n)
    PROVE  RowMatches(r, i, n)'
  <1>1. CASE r.op = "CreateOrder"
    <2>1. i \in DOMAIN orders /\ orders[i].client = r.client
      BY <1>1 DEF RowMatches
    <2>2. i \in DOMAIN orders' /\ orders'[i] = orders[i]
      BY <2>1, DomainsGrow DEF TablesGrow
    <2>3. orders[i].strategy # 0 => strategies'[orders[i].strategy] = r.strategy
      BY <1>1, <2>1, KeysPoint DEF RowMatches, TablesGrow
    <2>4. orders[i].strategy = 0 => NoneAmong(r.strategy, n)'
      BY <1>1, NoneStays DEF RowMatches
    <2> QED
      BY <1>1, <2>1, <2>2, <2>3, <2>4 DEF RowMatches
  <1>2. CASE r.op = "CreateSignal"
    <2>1. i \in DOMAIN signals /\ strategies[signals[i]] = r.strategy
      BY <1>2 DEF RowMatches
    <2>2. i \in DOMAIN signals' /\ signals'[i] = signals[i]
      BY <2>1, DomainsGrow DEF TablesGrow
    <2>3. strategies'[signals[i]] = r.strategy
      BY <2>1, KeysPoint DEF TablesGrow
    <2> QED
      BY <1>2, <2>2, <2>3 DEF RowMatches
  <1>3. CASE r.op = "CreateStrategy"
    <2>1. i \in DOMAIN strategies /\ strategies[i] = r.name
      BY <1>3 DEF RowMatches
    <2>2. i \in DOMAIN strategies' /\ strategies'[i] = strategies[i]
      BY <2>1, DomainsGrow DEF TablesGrow
    <2> QED
      BY <1>3, <2>1, <2>2 DEF RowMatches
  <1> QED
    BY <1>1, <1>2, <1>3 DEF RowMatches

-----------------------------------------------------------------------------
(* Steps that touch no row. *)

\* The ledger looks at the tables, the history and who is in flight.
LEMMA LedgerStays ==
    ASSUME LedgerOK, UNCHANGED <<orders, told, cut>>,
           \A u \in Workers, i \in DOMAIN orders : InFlight(u, i)' <=> InFlight(u, i)
    PROVE  LedgerOK'
  <1>1. ClientsUnique' /\ RowsApart' /\ InFlightUntold'
    BY DEF LedgerOK, ClientsUnique, RowsApart, InFlightUntold
  <1>2. OrdersAreAnsweredFor'
    BY DEF LedgerOK, OrdersAreAnsweredFor
  <1> QED
    BY <1>1, <1>2 DEF LedgerOK

\* Thread t goes from statement to statement, or fails, and writes nothing.
Moves(t) ==
    /\ at[t] # "rowid" /\ at'[t] # "rowid"
    /\ at' = [at EXCEPT ![t] = at'[t]]
    /\ req' = [req EXCEPT ![t] = req'[t]]
    /\ found' = [found EXCEPT ![t] = found'[t]]
    /\ seen' = [seen EXCEPT ![t] = seen'[t]]
    /\ row' = row
    /\ UNCHANGED <<tables, last, told, cut>>

NoSuccess == answer # None => answer.code # "Created" /\ answer.row = 0 /\ answer.own = FALSE

LEMMA MovesKeep ==
    ASSUME StoreInv, NEW t \in Workers, Moves(t),
           at'[t] \in Statements \cup {"idle"}, req'[t] \in Requests \cup {None},
           found'[t] \in 0..Len(strategies), seen'[t] \in 0..Len(strategies),
           answer' \in Answers \cup {None}, NoSuccess', WorkOK(t)'
    PROVE  StoreInv'
  <1>1. StoreTypeOK'
    <2>1. /\ at' \in [Workers -> Statements \cup {"idle", "rowid"}]
          /\ req' \in [Workers -> Requests \cup {None}]
          /\ found' \in [Workers -> 0..Len(strategies)]
          /\ seen' \in [Workers -> 0..Len(strategies)]
      BY DEF StoreInv, StoreTypeOK, Moves
    <2> QED
      BY <2>1 DEF StoreInv, StoreTypeOK, Moves, tables, OrderRows
  <1>2. WorkersOK'
    <2> SUFFICES ASSUME NEW u \in Workers, u # t PROVE WorkOK(u)'
      BY DEF WorkersOK
    <2>1. /\ at'[u] = at[u] /\ req'[u] = req[u] /\ found'[u] = found[u]
          /\ seen'[u] = seen[u] /\ row' = row /\ last' = last
          /\ orders' = orders /\ signals' = signals /\ strategies' = strategies
      BY DEF StoreInv, StoreTypeOK, Moves, tables
    <2>2. WorkOK(u)
      BY DEF StoreInv, WorkersOK
    <2> QED
      BY <2>1, <2>2 DEF WorkOK, RowMatches, NoneAmong
  <1>3. LedgerOK'
    <2>1. \A u \in Workers, i \in DOMAIN orders : InFlight(u, i)' <=> InFlight(u, i)
      BY DEF StoreInv, StoreTypeOK, Moves, InFlight
    <2> QED
      BY <2>1, LedgerStays DEF StoreInv, Moves, tables
  <1>4. AnswerOK'
    BY DEF AnswerOK, AnswersMatchTables, OwnIdUnlessOvertaken, NoSuccess
  <1> QED
    BY <1>1, <1>2, <1>3, <1>4 DEF StoreInv

LEMMA AnswerKeeps ==
    ASSUME StoreInv, NEW t \in Workers, NEW code \in {"Refused", "NotFound", "Failed"},
           at[t] # "idle", at[t] # "rowid", Answer(t, code), UNCHANGED <<tables, last>>
    PROVE  StoreInv'
  <1>1. WorkOK(t) /\ StoreTypeOK
    BY DEF StoreInv, WorkersOK
  <1>2. req[t] \in Requests /\ row[t] = 0
    BY <1>1 DEF WorkOK
  <1>3. row' = row /\ at'[t] = "idle" /\ found'[t] = 0 /\ seen'[t] = 0 /\ req'[t] = None
    BY <1>1, <1>2 DEF Answer, Finish, StoreTypeOK
  <1>4. Moves(t)
    BY <1>1, <1>3 DEF Moves, Answer, Finish, StoreTypeOK
  <1>5. answer' = [req |-> req[t], code |-> code, id |-> 0, row |-> 0, own |-> FALSE,
                   seen |-> 0]
    BY <1>2 DEF Answer
  <1>6. answer' \in Answers
    BY <1>2, <1>5 DEF Answers, Codes
  <1>7. NoSuccess'
    BY <1>5 DEF NoSuccess
  <1>8. WorkOK(t)'
    BY <1>2, <1>3 DEF WorkOK
  <1>9. found'[t] \in 0..Len(strategies) /\ seen'[t] \in 0..Len(strategies)
    BY <1>1, <1>3 DEF StoreTypeOK
  <1> QED
    BY <1>3, <1>4, <1>6, <1>7, <1>8, <1>9, MovesKeep

LEMMA GotoKeeps ==
    ASSUME StoreInv, NEW t \in Workers, NEW s \in Statements,
           at[t] # "rowid", Goto(t, s), UNCHANGED <<tables, last>>,
           found' = [found EXCEPT ![t] = found'[t]],
           found'[t] \in 0..Len(strategies), WorkOK(t)'
    PROVE  StoreInv'
  <1>1. StoreTypeOK
    BY DEF StoreInv
  <1>2. /\ at'[t] = s /\ s # "rowid" /\ req' = req /\ row' = row /\ seen' = seen
        /\ answer' = None
    BY <1>1 DEF Goto, StoreTypeOK, Statements
  <1>3. Moves(t)
    BY <1>1, <1>2 DEF Moves, Goto, StoreTypeOK
  <1>4. req'[t] \in Requests \cup {None} /\ seen'[t] \in 0..Len(strategies)
    BY <1>1, <1>2 DEF StoreTypeOK
  <1>5. NoSuccess'
    BY <1>2 DEF NoSuccess
  <1> QED
    BY <1>2, <1>3, <1>4, <1>5, MovesKeep

-----------------------------------------------------------------------------
(* The handlers' steps. *)

LEMMA ReceiveKeeps ==
    ASSUME StoreInv, NEW t \in Workers, NEW r \in Requests, Receive(t, r)
    PROVE  StoreInv'
  <1>1. WorkOK(t) /\ StoreTypeOK
    BY DEF StoreInv, WorkersOK
  <1>2. at[t] = "idle" /\ found[t] = 0 /\ row[t] = 0
    BY <1>1 DEF Receive, WorkOK
  <1>3. r.op \in Creating \cup {"CancelOrder", "UpdateStrategy"}
    BY RequestShapes
  <1>4. /\ at'[t] = FirstStatement(r) /\ req'[t] = r /\ seen'[t] = Len(strategies)
        /\ found' = found /\ row' = row /\ answer' = None
    BY <1>1 DEF Receive, StoreTypeOK
  <1>5. /\ at'[t] \in Statements
        /\ at'[t] = "symbol" => r.op = "CreateOrder"
        /\ at'[t] = "strategy" => r.op = "CreateSignal"
        /\ at'[t] = "insert" => r.op = "CreateStrategy"
    BY <1>3, <1>4 DEF FirstStatement, Creating, Statements
  <1>6. WorkOK(t)'
    BY <1>2, <1>4, <1>5 DEF WorkOK, StrategyNaming, Creating, Statements
  <1>7. Moves(t)
    BY <1>1, <1>2, <1>4, <1>5 DEF Moves, Receive, StoreTypeOK, Statements
  <1>8. NoSuccess' /\ found'[t] \in 0..Len(strategies) /\ seen'[t] \in 0..Len(strategies)
    BY <1>1, <1>4 DEF NoSuccess, StoreTypeOK
  <1> QED
    BY <1>4, <1>5, <1>6, <1>7, <1>8, MovesKeep

LEMMA RejectKeeps ==
    ASSUME StoreInv, NEW t \in Workers, NEW r \in Requests, Reject(t, r)
    PROVE  StoreInv'
  <1>1. WorkOK(t) /\ StoreTypeOK
    BY DEF StoreInv, WorkersOK
  <1>2. answer' = [req |-> r, code |-> "Refused", id |-> 0, row |-> 0, own |-> FALSE,
                   seen |-> 0]
    BY DEF Reject
  <1>3. answer' \in Answers /\ NoSuccess'
    BY <1>2 DEF Answers, Codes, NoSuccess
  <1>4. /\ Moves(t) /\ at'[t] = "idle" /\ req'[t] = req[t] /\ found'[t] = found[t]
        /\ seen'[t] = seen[t]
    BY <1>1 DEF Moves, Reject, StoreTypeOK
  <1>5. WorkOK(t)'
    BY <1>1 DEF WorkOK, Reject
  <1> QED
    BY <1>1, <1>3, <1>4, <1>5, MovesKeep DEF StoreTypeOK

LEMMA StatementFailsKeeps ==
    ASSUME StoreInv, NEW t \in Workers, StatementFails(t)
    PROVE  StoreInv'
  BY AnswerKeeps DEF StatementFails, Statements

LEMMA LookUpSymbolKeeps ==
    ASSUME StoreInv, NEW t \in Workers, LookUpSymbol(t)
    PROVE  StoreInv'
  <1>1. WorkOK(t) /\ StoreTypeOK /\ at[t] = "symbol"
    BY DEF StoreInv, WorkersOK, LookUpSymbol
  <1>2. CASE req[t].ticker \notin Listed
    BY <1>1, <1>2, AnswerKeeps DEF LookUpSymbol
  <1>3. CASE req[t].ticker \in Listed
    <2>1. PICK s : s = IF req[t].op = "CreateOrder" /\ req[t].strategy # None
                       THEN "strategy" ELSE "insert"
      OBVIOUS
    <2>2. Goto(t, s) /\ UNCHANGED <<found, tables, last>> /\ s \in {"strategy", "insert"}
      BY <1>3, <2>1 DEF LookUpSymbol
    <2>3. /\ at'[t] = s /\ req'[t] = req[t] /\ found'[t] = found[t] /\ row'[t] = row[t]
          /\ seen'[t] = seen[t] /\ strategies' = strategies
      BY <1>1, <2>2 DEF Goto, StoreTypeOK, tables
    <2>4. at'[t] = "insert" /\ req[t].op = "CreateOrder" => NoneAmong(req[t].strategy, seen[t])'
      <3>1. at'[t] = "insert" /\ req[t].op = "CreateOrder" => req[t].strategy = None
        BY <2>1, <2>3
      <3>2. \A j \in 1..seen[t] : strategies[j] # None
        BY <1>1, StoreAssumption DEF StoreTypeOK
      <3> QED
        BY <2>3, <3>1, <3>2 DEF NoneAmong
    <2>5. WorkOK(t)'
      BY <1>1, <2>2, <2>3, <2>4 DEF WorkOK, StrategyNaming, Creating, tables
    <2>6. found' = [found EXCEPT ![t] = found'[t]] /\ found'[t] \in 0..Len(strategies)
      BY <1>1, <2>2 DEF StoreTypeOK
    <2> QED
      BY <1>1, <2>2, <2>5, <2>6, GotoKeeps DEF Statements
  <1> QED
    BY <1>2, <1>3

LEMMA RowOrNullFinds ==
    ASSUME NEW rows
    PROVE  RowOrNull(rows) \in rows \cup {0} /\ (rows # {} => RowOrNull(rows) \in rows)
  BY DEF RowOrNull

LEMMA LookUpOrderStrategyKeeps ==
    ASSUME StoreInv, NEW t \in Workers, LookUpOrderStrategy(t)
    PROVE  StoreInv'
  <1>1. WorkOK(t) /\ StoreTypeOK /\ at[t] = "strategy" /\ req[t].op = "CreateOrder"
    BY DEF StoreInv, WorkersOK, LookUpOrderStrategy
  <1>2. PICK i : i = RowOrNull(Named(req[t].strategy))
    OBVIOUS
  <1>3. i = 0 \/ (i \in DOMAIN strategies /\ strategies[i] = req[t].strategy)
    <2>1. i \in Named(req[t].strategy) \cup {0}
      BY <1>2, RowOrNullFinds
    <2> QED
      BY <2>1 DEF Named
  <1>4. i \in 0..Len(strategies)
    BY <1>1, <1>3 DEF StoreTypeOK
  <1>5. found' = [found EXCEPT ![t] = i] /\ Goto(t, "insert") /\ UNCHANGED <<tables, last>>
    BY <1>2 DEF LookUpOrderStrategy
  <1>6. /\ at'[t] = "insert" /\ req'[t] = req[t] /\ found'[t] = i /\ row'[t] = row[t]
        /\ seen'[t] = seen[t] /\ strategies' = strategies
    BY <1>1, <1>5 DEF Goto, StoreTypeOK, tables
  <1>7. i = 0 => NoneAmong(req[t].strategy, seen[t])'
    <2>1. 1..seen[t] \subseteq DOMAIN strategies /\ 0 \notin DOMAIN strategies
      BY <1>1 DEF StoreTypeOK
    <2>2. i = 0 => Named(req[t].strategy) = {}
      BY <1>2, <2>1, RowOrNullFinds DEF Named
    <2> QED
      BY <1>6, <2>1, <2>2 DEF Named, NoneAmong
  <1>8. WorkOK(t)'
    BY <1>1, <1>3, <1>5, <1>6, <1>7 DEF WorkOK, Creating, tables
  <1> QED
    BY <1>1, <1>4, <1>5, <1>6, <1>8, GotoKeeps DEF Statements

LEMMA LookUpSignalStrategyKeeps ==
    ASSUME StoreInv, NEW t \in Workers, LookUpSignalStrategy(t)
    PROVE  StoreInv'
  <1>1. WorkOK(t) /\ StoreTypeOK /\ at[t] = "strategy" /\ req[t].op = "CreateSignal"
    BY DEF StoreInv, WorkersOK, LookUpSignalStrategy
  <1>2. CASE Answer(t, "Refused") /\ UNCHANGED <<tables, last>>
    BY <1>1, <1>2, AnswerKeeps
  <1>3. ASSUME NEW i \in Named(req[t].strategy), found' = [found EXCEPT ![t] = i],
               Goto(t, "symbol"), UNCHANGED <<tables, last>>
        PROVE  StoreInv'
    <2>1. i \in DOMAIN strategies /\ strategies[i] = req[t].strategy
      BY DEF Named
    <2>2. i \in 0..Len(strategies) /\ i # 0
      BY <1>1, <2>1 DEF StoreTypeOK
    <2>3. at'[t] = "symbol" /\ req'[t] = req[t] /\ found'[t] = i /\ row'[t] = row[t]
      BY <1>1, <1>3 DEF Goto, StoreTypeOK
    <2>4. WorkOK(t)'
      BY <1>1, <1>3, <2>1, <2>2, <2>3 DEF WorkOK, StrategyNaming, tables
    <2> QED
      BY <1>1, <1>3, <2>2, <2>3, <2>4, GotoKeeps DEF Statements
  <1> QED
    BY <1>2, <1>3 DEF LookUpSignalStrategy

LEMMA ConstraintFailsKeeps ==
    ASSUME StoreInv, NEW t \in Workers, ConstraintFails(t)
    PROVE  StoreInv'
  BY AnswerKeeps DEF ConstraintFails

\* What CheckOrder and CheckStrategy do when the check passes.
LEMMA CheckPassedKeeps ==
    ASSUME StoreInv, NEW t \in Workers, at[t] = "check", Goto(t, "update"),
           UNCHANGED <<found, tables, last>>
    PROVE  StoreInv'
  <1>1. WorkOK(t) /\ StoreTypeOK
    BY DEF StoreInv, WorkersOK
  <1>2. at'[t] = "update" /\ req'[t] = req[t] /\ found'[t] = found[t] /\ row'[t] = row[t]
    BY <1>1 DEF Goto, StoreTypeOK
  <1>3. WorkOK(t)'
    BY <1>1, <1>2 DEF WorkOK, tables
  <1>4. found' = [found EXCEPT ![t] = found'[t]] /\ found'[t] \in 0..Len(strategies)
    BY <1>1 DEF StoreTypeOK
  <1> QED
    BY <1>3, <1>4, GotoKeeps DEF Statements

LEMMA CheckOrderKeeps ==
    ASSUME StoreInv, NEW t \in Workers, CheckOrder(t)
    PROVE  StoreInv'
  BY AnswerKeeps, CheckPassedKeeps DEF CheckOrder

LEMMA CheckStrategyKeeps ==
    ASSUME StoreInv, NEW t \in Workers, CheckStrategy(t)
    PROVE  StoreInv'
  BY AnswerKeeps, CheckPassedKeeps DEF CheckStrategy

LEMMA UpdateKeeps ==
    ASSUME StoreInv, NEW t \in Workers, Update(t)
    PROVE  StoreInv'
  BY AnswerKeeps DEF Update

-----------------------------------------------------------------------------
(* Inserts. *)

LEMMA InsertKeeps ==
    ASSUME StoreInv, NEW t \in Workers, NEW id \in Nat, at[t] = "insert", Inserted(t, id),
           TablesOK', TablesGrow, RowMatches(req[t], id, seen[t])', LedgerOK'
    PROVE  StoreInv'
  <1>1. StoreTypeOK /\ TablesOK
    BY DEF StoreInv, StoreTypeOK, TablesOK
  <1>2. /\ at' = [at EXCEPT ![t] = "rowid"] /\ row' = [row EXCEPT ![t] = id]
        /\ last' = [id |-> id, by |-> t] /\ answer' = None
        /\ UNCHANGED <<req, found, seen, told, cut>>
    BY DEF Inserted, Inserts
  <1>3. Len(strategies) \in Nat /\ Len(strategies') \in Nat /\ Len(strategies) <= Len(strategies')
    BY <1>1 DEF TablesOK, TablesGrow
  <1>4. StoreTypeOK'
    <2>1. found' \in [Workers -> 0..Len(strategies')] /\ seen' \in [Workers -> 0..Len(strategies')]
      BY <1>1, <1>2, <1>3 DEF StoreTypeOK
    <2>2. last' \in [id: Nat, by: Workers \cup {None}]
      BY <1>2
    <2>3. at' \in [Workers -> Statements \cup {"idle", "rowid"}] /\ row' \in [Workers -> Nat]
      BY <1>1, <1>2 DEF StoreTypeOK
    <2> QED
      BY <1>1, <1>2, <2>1, <2>2, <2>3 DEF StoreTypeOK, TablesOK
  <1>5. WorkersOK'
    <2> SUFFICES ASSUME NEW u \in Workers PROVE WorkOK(u)'
      BY DEF WorkersOK
    <2>1. WorkOK(u)
      BY DEF StoreInv, WorkersOK
    <2>2. found[u] # 0 => strategies'[found[u]] = strategies[found[u]]
      <3>1. found[u] # 0 => found[u] \in 1..Len(strategies)
        BY <1>1, <1>3 DEF StoreTypeOK
      <3>2. 1..Len(strategies) = DOMAIN strategies
        BY <1>1 DEF TablesOK
      <3> QED
        BY <3>1, <3>2 DEF TablesGrow
    <2>3. CASE u = t
      <3>1. at'[u] = "rowid" /\ row'[u] = id /\ req'[u] = req[u] /\ found'[u] = found[u]
        BY <1>1, <1>2, <2>3 DEF StoreTypeOK
      <3>2. RowMatches(req[u], row[u], seen[u])'
        BY <1>2, <2>3, <3>1 DEF RowMatches, NoneAmong
      <3> QED
        BY <1>2, <2>1, <2>2, <2>3, <3>1, <3>2 DEF WorkOK
    <2>4. CASE u # t
      <3>1. at'[u] = at[u] /\ row'[u] = row[u] /\ UNCHANGED <<req, found, seen>> /\ last'.by # u
        BY <1>1, <1>2, <2>4 DEF StoreTypeOK
      <3>2. PICK r, i, n : r = req[u] /\ i = row[u] /\ n = seen[u]
        OBVIOUS
      <3>3. n \in 0..Len(strategies)
        BY <1>1, <3>2 DEF StoreTypeOK
      <3>4. at[u] = "rowid" => RowMatches(req[u], row[u], seen[u])'
        <4>1. at[u] = "rowid" => RowMatches(r, i, n)'
          BY <1>1, <2>1, <3>2, <3>3, RowStays DEF WorkOK
        <4> QED
          BY <3>1, <3>2, <4>1 DEF RowMatches, NoneAmong
      <3>5. NoneAmong(req[u].strategy, seen[u]) => NoneAmong(req[u].strategy, seen[u])'
        <4>1. PICK name : name = req[u].strategy
          OBVIOUS
        <4>2. NoneAmong(name, n) => NoneAmong(name, n)'
          BY <1>1, <3>3, NoneStays
        <4> QED
          BY <3>1, <3>2, <4>1, <4>2 DEF NoneAmong
      <3> QED
        BY <2>1, <2>2, <3>1, <3>4, <3>5 DEF WorkOK
    <2> QED
      BY <2>3, <2>4
  <1>6. AnswerOK'
    BY <1>2 DEF AnswerOK, AnswersMatchTables, OwnIdUnlessOvertaken
  <1> QED
    BY <1>4, <1>5, <1>6 DEF StoreInv

LEMMA InsertOrderKeeps ==
    ASSUME StoreInv, NEW t \in Workers, InsertOrder(t)
    PROVE  StoreInv'
  <1>1. StoreTypeOK /\ TablesOK /\ WorkOK(t) /\ LedgerOK
    BY DEF StoreInv, StoreTypeOK, TablesOK, WorkersOK
  <1>2. /\ at[t] = "insert" /\ req[t].op = "CreateOrder" /\ ClientIdFree(req[t].client)
        /\ UNCHANGED <<strategies, signals>>
    BY DEF InsertOrder
  <1>3. PICK o : o = [client |-> req[t].client, strategy |-> found[t], status |-> "NEW"]
    OBVIOUS
  <1>4. o \in OrderRows
    <2>1. req[t] \in Requests
      BY <1>1, <1>2 DEF WorkOK
    <2>2. req[t].client \in ClientIds
      BY <1>2, <2>1, RequestShapes
    <2> QED
      BY <1>1, <1>3, <2>2 DEF OrderRows, StoreTypeOK
  <1>5. orders' = Append(orders, o)
    BY <1>3 DEF InsertOrder
  <1>6. PICK id : id = Len(orders) + 1
    OBVIOUS
  <1>7. /\ orders' \in Seq(OrderRows) /\ Len(orders') = id /\ orders'[id] = o
        /\ DOMAIN orders' = DOMAIN orders \cup {id}
        /\ \A i \in DOMAIN orders : orders'[i] = orders[i]
    BY <1>1, <1>4, <1>5, <1>6, AppendGrows DEF TablesOK
  <1>8. id \in Nat /\ id \notin DOMAIN orders /\ Len(orders) <= id
    BY <1>1, <1>6 DEF TablesOK
  <1>9. Inserted(t, id)
    BY <1>7 DEF InsertOrder
  <1>10. /\ at' = [at EXCEPT ![t] = "rowid"] /\ row' = [row EXCEPT ![t] = id]
         /\ UNCHANGED <<req, found, seen, told, cut>>
    BY <1>9 DEF Inserted
  <1>11. TablesOK'
    BY <1>1, <1>2, <1>7 DEF TablesOK, OrderRows
  <1>12. TablesGrow
    BY <1>1, <1>2, <1>7, <1>8 DEF TablesGrow, TablesOK
  <1>13. RowMatches(req[t], id, seen[t])'
    BY <1>1, <1>2, <1>3, <1>7, <1>10 DEF RowMatches, NoneAmong, WorkOK
  <1>14. LedgerOK'
    <2>1. \A i \in DOMAIN orders : orders[i].client # o.client
      BY <1>2, <1>3 DEF ClientIdFree
    <2>2. ClientsUnique'
      BY <1>1, <1>7, <2>1 DEF LedgerOK, ClientsUnique
    <2>3. \A u \in Workers, i \in DOMAIN orders : InFlight(u, i)' <=> InFlight(u, i)
      BY <1>1, <1>2, <1>8, <1>10 DEF InFlight, StoreTypeOK
    <2>4. \A u \in Workers : InFlight(u, id)' <=> u = t
      <3>1. \A u \in Workers : ~InFlight(u, id)
        BY <1>8 DEF InFlight, StoreInv, WorkersOK, WorkOK, RowMatches
      <3> QED
        BY <1>1, <1>2, <1>10, <3>1 DEF InFlight, StoreTypeOK
    <2>5. RowsApart'
      BY <1>1, <1>7, <2>3, <2>4 DEF LedgerOK, RowsApart
    <2>6. o.client \notin told \cup cut
      BY <1>1, <2>1 DEF LedgerOK, OrdersAreAnsweredFor
    <2>7. InFlightUntold'
      BY <1>1, <1>7, <1>10, <2>3, <2>6 DEF LedgerOK, InFlightUntold
    <2>8. OrdersAreAnsweredFor'
      BY <1>1, <1>7, <1>10, <2>3, <2>4 DEF LedgerOK, OrdersAreAnsweredFor
    <2> QED
      BY <2>2, <2>5, <2>7, <2>8 DEF LedgerOK
  <1> QED
    BY <1>2, <1>8, <1>9, <1>11, <1>12, <1>13, <1>14, InsertKeeps

\* An insert into another table puts no order in flight.
LEMMA OtherTableLedger ==
    ASSUME StoreInv, NEW t \in Workers, NEW id, at[t] = "insert", req[t].op # "CreateOrder",
           Inserted(t, id), UNCHANGED orders
    PROVE  LedgerOK'
  <1>1. \A u \in Workers, i \in DOMAIN orders : InFlight(u, i)' <=> InFlight(u, i)
    BY DEF StoreInv, StoreTypeOK, Inserted, InFlight
  <1> QED
    BY <1>1, LedgerStays DEF StoreInv, Inserted

LEMMA InsertSignalKeeps ==
    ASSUME StoreInv, NEW t \in Workers, InsertSignal(t)
    PROVE  StoreInv'
  <1>1. StoreTypeOK /\ TablesOK /\ WorkOK(t)
    BY DEF StoreInv, StoreTypeOK, TablesOK, WorkersOK
  <1>2. /\ at[t] = "insert" /\ req[t].op = "CreateSignal"
        /\ signals' = Append(signals, found[t]) /\ UNCHANGED <<orders, strategies>>
    BY DEF InsertSignal
  <1>3. found[t] \in 1..Len(strategies) /\ strategies[found[t]] = req[t].strategy
    BY <1>1, <1>2 DEF WorkOK, StoreTypeOK
  <1>4. PICK id : id = Len(signals) + 1
    OBVIOUS
  <1>5. /\ signals' \in Seq(1..Len(strategies)) /\ Len(signals') = id
        /\ signals'[id] = found[t] /\ id \in DOMAIN signals'
        /\ \A i \in DOMAIN signals : signals'[i] = signals[i]
    BY <1>1, <1>2, <1>3, <1>4, AppendGrows DEF TablesOK
  <1>6. id \in Nat /\ Len(signals) <= id
    BY <1>1, <1>4 DEF TablesOK
  <1>7. Inserted(t, id)
    BY <1>5 DEF InsertSignal
  <1>8. TablesOK'
    BY <1>1, <1>2, <1>5 DEF TablesOK, OrderRows
  <1>9. TablesGrow
    BY <1>1, <1>2, <1>5, <1>6 DEF TablesGrow, TablesOK
  <1>10. RowMatches(req[t], id, seen[t])'
    BY <1>2, <1>3, <1>5, <1>7 DEF RowMatches, Inserted
  <1>11. LedgerOK'
    BY <1>2, <1>7, OtherTableLedger
  <1> QED
    BY <1>2, <1>6, <1>7, <1>8, <1>9, <1>10, <1>11, InsertKeeps

LEMMA InsertStrategyKeeps ==
    ASSUME StoreInv, NEW t \in Workers, InsertStrategy(t)
    PROVE  StoreInv'
  <1>1. StoreTypeOK /\ TablesOK /\ WorkOK(t)
    BY DEF StoreInv, StoreTypeOK, TablesOK, WorkersOK
  <1>2. /\ at[t] = "insert" /\ req[t].op = "CreateStrategy"
        /\ strategies' = Append(strategies, req[t].name) /\ UNCHANGED <<orders, signals>>
    BY DEF InsertStrategy
  <1>3. req[t].name \in StrategyNames
    BY <1>1, <1>2, RequestShapes DEF WorkOK
  <1>4. PICK id : id = Len(strategies) + 1
    OBVIOUS
  <1>5. /\ strategies' \in Seq(StrategyNames) /\ Len(strategies') = id
        /\ strategies'[id] = req[t].name /\ id \in DOMAIN strategies'
        /\ \A i \in DOMAIN strategies : strategies'[i] = strategies[i]
    BY <1>1, <1>2, <1>3, <1>4, AppendGrows DEF TablesOK
  <1>6. id \in Nat /\ Len(strategies) <= id
    BY <1>1, <1>4 DEF TablesOK
  <1>7. Inserted(t, id)
    BY <1>5 DEF InsertStrategy
  <1>8. TablesOK'
    BY <1>1, <1>2, <1>5, <1>6, WiderRows
  <1>9. TablesGrow
    BY <1>1, <1>2, <1>5, <1>6 DEF TablesGrow, TablesOK
  <1>10. RowMatches(req[t], id, seen[t])'
    BY <1>2, <1>5, <1>7 DEF RowMatches, Inserted
  <1>11. LedgerOK'
    BY <1>2, <1>7, OtherTableLedger
  <1> QED
    BY <1>2, <1>6, <1>7, <1>8, <1>9, <1>10, <1>11, InsertKeeps

-----------------------------------------------------------------------------
(* The end of a request, restarts, and the other users of the connection. *)

LEMMA RespondKeeps ==
    ASSUME StoreInv, NEW t \in Workers, Respond(t)
    PROVE  StoreInv'
  <1>1. StoreTypeOK /\ WorkOK(t) /\ LedgerOK /\ at[t] = "rowid"
    BY DEF StoreInv, WorkersOK, Respond
  <1>2. /\ at' = [at EXCEPT ![t] = "idle"] /\ req' = [req EXCEPT ![t] = None]
        /\ found' = [found EXCEPT ![t] = 0] /\ row' = [row EXCEPT ![t] = 0]
        /\ seen' = [seen EXCEPT ![t] = 0] /\ UNCHANGED <<orders, strategies, signals, last, cut>>
    BY DEF Respond, Finish, tables
  <1>3. /\ answer' = [req |-> req[t], code |-> "Created", id |-> last.id, row |-> row[t],
                      own |-> last.by = t, seen |-> seen[t]]
        /\ req[t].op = "CreateOrder" => told' = told \cup {req[t].client}
        /\ req[t].op # "CreateOrder" => told' = told
    BY DEF Respond
  <1>4. req[t] \in Requests /\ RowMatches(req[t], row[t], seen[t])
    BY <1>1 DEF WorkOK
  <1>5. StoreTypeOK'
    <2>1. 0 \in 0..Len(strategies)
      BY <1>1 DEF StoreTypeOK
    <2>2. /\ at' \in [Workers -> Statements \cup {"idle", "rowid"}]
          /\ req' \in [Workers -> Requests \cup {None}]
          /\ found' \in [Workers -> 0..Len(strategies)]
          /\ row' \in [Workers -> Nat] /\ seen' \in [Workers -> 0..Len(strategies)]
      BY <1>1, <1>2, <2>1 DEF StoreTypeOK
    <2>3. answer' \in Answers
      BY <1>1, <1>3, <1>4 DEF Answers, Codes, StoreTypeOK
    <2>4. told' \subseteq ClientIds
      <3>1. req[t].op = "CreateOrder" => req[t].client \in ClientIds
        BY <1>4, RequestShapes
      <3>2. told \subseteq ClientIds
        BY <1>1 DEF StoreTypeOK
      <3> QED
        BY <1>3, <3>1, <3>2
    <2> QED
      BY <1>1, <1>2, <2>2, <2>3, <2>4 DEF StoreTypeOK, OrderRows
  <1>6. WorkersOK'
    <2> SUFFICES ASSUME NEW u \in Workers PROVE WorkOK(u)'
      BY DEF WorkersOK
    <2>1. CASE u = t
      <3>1. at'[u] = "idle" /\ found'[u] = 0 /\ row'[u] = 0
        BY <1>1, <1>2, <2>1 DEF StoreTypeOK
      <3> QED
        BY <3>1 DEF WorkOK
    <2>2. CASE u # t
      <3>1. /\ at'[u] = at[u] /\ req'[u] = req[u] /\ found'[u] = found[u] /\ row'[u] = row[u]
            /\ seen'[u] = seen[u]
        BY <1>1, <1>2, <2>2 DEF StoreTypeOK
      <3>2. WorkOK(u)
        BY DEF StoreInv, WorkersOK
      <3> QED
        BY <1>2, <3>1, <3>2 DEF WorkOK, RowMatches, NoneAmong
    <2> QED
      BY <2>1, <2>2
  <1>7. LedgerOK'
    <2>1. \A u \in Workers, i \in DOMAIN orders : InFlight(u, i)' <=> u # t /\ InFlight(u, i)
      BY <1>1, <1>2 DEF InFlight, StoreTypeOK
    <2>2. ClientsUnique' /\ RowsApart'
      BY <1>1, <1>2, <2>1 DEF LedgerOK, ClientsUnique, RowsApart
    <2>3. CASE req[t].op = "CreateOrder"
      <3>1. row[t] \in DOMAIN orders /\ orders[row[t]].client = req[t].client
        BY <1>4, <2>3 DEF RowMatches
      <3>2. InFlight(t, row[t])
        BY <1>1, <2>3 DEF InFlight
      <3>3. ASSUME NEW u \in Workers, NEW i \in DOMAIN orders, InFlight(u, i)'
            PROVE  orders[i].client \notin told'
        <4>1. u # t /\ InFlight(u, i) /\ orders[i].client \notin told
          BY <1>1, <2>1, <3>3 DEF LedgerOK, InFlightUntold
        <4>2. i # row[t]
          BY <1>1, <3>1, <3>2, <4>1 DEF LedgerOK, RowsApart
        <4>3. orders[i].client # req[t].client
          BY <1>1, <3>1, <4>2 DEF LedgerOK, ClientsUnique
        <4> QED
          BY <1>3, <2>3, <4>1, <4>3
      <3>4. InFlightUntold'
        BY <1>2, <3>3 DEF InFlightUntold
      <3>5. \A i \in DOMAIN orders : InFlight(t, i) => orders[i].client = req[t].client
        BY <3>1 DEF InFlight
      <3>6. OrdersAreAnsweredFor'
        BY <1>1, <1>2, <1>3, <2>1, <2>3, <3>1, <3>5 DEF LedgerOK, OrdersAreAnsweredFor
      <3> QED
        BY <2>2, <3>4, <3>6 DEF LedgerOK
    <2>4. CASE req[t].op # "CreateOrder"
      <3>1. \A u \in Workers, i \in DOMAIN orders : InFlight(u, i)' <=> InFlight(u, i)
        BY <2>1, <2>4 DEF InFlight
      <3> QED
        BY <1>1, <1>2, <1>3, <2>4, <3>1, LedgerStays
    <2> QED
      BY <2>3, <2>4
  <1>8. AnswerOK'
    <2>1. AnswersMatchTables'
      BY <1>2, <1>3, <1>4 DEF AnswersMatchTables, RowMatches, NoneAmong
    <2>2. OwnIdUnlessOvertaken'
      BY <1>1, <1>3 DEF OwnIdUnlessOvertaken, WorkOK
    <2> QED
      BY <2>1, <2>2 DEF AnswerOK
  <1> QED
    BY <1>5, <1>6, <1>7, <1>8 DEF StoreInv

LEMMA RestartKeeps ==
    ASSUME StoreInv, StoreRestart
    PROVE  StoreInv'
  <1>1. StoreTypeOK /\ LedgerOK
    BY DEF StoreInv
  <1>2. /\ at' = [t \in Workers |-> "idle"] /\ found' = [t \in Workers |-> 0]
        /\ row' = [t \in Workers |-> 0] /\ seen' = [t \in Workers |-> 0]
        /\ req' = [t \in Workers |-> None]
        /\ answer' = None /\ last' = NoInsert
        /\ UNCHANGED <<orders, strategies, signals, told>>
    BY DEF StoreRestart, tables
  <1>3. \A c : c \in cut' <=> c \in cut \/ \E i \in DOMAIN orders :
            orders[i].client = c /\ \E t \in Workers : InFlight(t, i)
    <2>1. PICK J : J = {i \in DOMAIN orders : \E t \in Workers : InFlight(t, i)}
      OBVIOUS
    <2>2. cut' = cut \cup {orders[i].client : i \in J}
      BY <2>1 DEF StoreRestart
    <2> QED
      BY <2>1, <2>2
  <1>4. StoreTypeOK'
    <2>1. cut' \subseteq ClientIds
      <3>1. TablesOK /\ cut \subseteq ClientIds
        BY <1>1 DEF StoreTypeOK, TablesOK
      <3>2. \A i \in DOMAIN orders : orders[i].client \in ClientIds
        BY <3>1, KeysPoint
      <3> QED
        BY <1>3, <3>1, <3>2
    <2>2. 0 \in 0..Len(strategies)
      BY <1>1 DEF StoreTypeOK
    <2>3. last' \in [id: Nat, by: Workers \cup {None}]
      BY <1>2 DEF NoInsert
    <2> QED
      BY <1>1, <1>2, <2>1, <2>2, <2>3 DEF StoreTypeOK, OrderRows
  <1>5. WorkersOK'
    BY <1>2 DEF WorkersOK, WorkOK
  <1>6. LedgerOK'
    <2>1. \A u \in Workers : \A i : ~InFlight(u, i)'
      BY <1>2 DEF InFlight
    <2>2. ClientsUnique' /\ RowsApart' /\ InFlightUntold'
      BY <1>1, <1>2, <2>1 DEF LedgerOK, ClientsUnique, RowsApart, InFlightUntold
    <2>3. OrdersAreAnsweredFor'
      BY <1>1, <1>2, <1>3 DEF LedgerOK, OrdersAreAnsweredFor
    <2> QED
      BY <2>2, <2>3 DEF LedgerOK
  <1>7. AnswerOK'
    BY <1>2 DEF AnswerOK, AnswersMatchTables, OwnIdUnlessOvertaken
  <1> QED
    BY <1>4, <1>5, <1>6, <1>7 DEF StoreInv

LEMMA OtherInsertKeeps ==
    ASSUME StoreInv, OtherInsert
    PROVE  StoreInv'
  <1>1. StoreTypeOK /\ UNCHANGED storeVars
    BY DEF StoreInv, OtherInsert
  <1>2. PICK id \in OtherIds : last' = [id |-> id, by |-> None]
    BY DEF OtherInsert, Inserts
  <1>3. StoreTypeOK'
    <2>1. last' \in [id: Nat, by: Workers \cup {None}]
      BY <1>2, StoreAssumption
    <2> QED
      BY <1>1, <2>1 DEF StoreTypeOK, OrderRows, storeVars
  <1>4. WorkersOK'
    <2> SUFFICES ASSUME NEW u \in Workers PROVE WorkOK(u)'
      BY DEF WorkersOK
    <2>1. last'.by # u
      BY <1>2, StoreAssumption
    <2> QED
      BY <1>1, <2>1 DEF StoreInv, WorkersOK, WorkOK, RowMatches, NoneAmong, storeVars
  <1>5. LedgerOK'
    BY <1>1, LedgerStays DEF StoreInv, storeVars, InFlight
  <1>6. AnswerOK'
    BY <1>1 DEF StoreInv, AnswerOK, AnswersMatchTables, OwnIdUnlessOvertaken, RowMatches, NoneAmong,
       storeVars
  <1> QED
    BY <1>3, <1>4, <1>5, <1>6 DEF StoreInv

-----------------------------------------------------------------------------
(* The induction. *)

LEMMA StoreInvInit == StoreInit => StoreInv
  <1> SUFFICES ASSUME StoreInit PROVE StoreInv
    OBVIOUS
  <1>1. StoreTypeOK
    BY DEF StoreInit, StoreTypeOK, NoInsert
  <1>2. WorkersOK
    BY DEF StoreInit, WorkersOK, WorkOK
  <1>3. LedgerOK
    BY DEF StoreInit, LedgerOK, ClientsUnique, RowsApart, InFlightUntold, OrdersAreAnsweredFor
  <1>4. AnswerOK
    BY DEF StoreInit, AnswerOK, AnswersMatchTables, OwnIdUnlessOvertaken
  <1> QED
    BY <1>1, <1>2, <1>3, <1>4 DEF StoreInv

LEMMA StoreInvNext == StoreInv /\ [StoreNext]_<<storeVars, last>> => StoreInv'
  <1> SUFFICES ASSUME StoreInv, [StoreNext]_<<storeVars, last>> PROVE StoreInv'
    OBVIOUS
  <1>1. ASSUME NEW t \in Workers, WorkerStep(t) PROVE StoreInv'
    BY <1>1, ReceiveKeeps, RejectKeeps, StatementFailsKeeps, LookUpSymbolKeeps,
       LookUpOrderStrategyKeeps, LookUpSignalStrategyKeeps, InsertOrderKeeps,
       InsertSignalKeeps, InsertStrategyKeeps, ConstraintFailsKeeps, RespondKeeps,
       CheckOrderKeeps, CheckStrategyKeeps, UpdateKeeps
    DEF WorkerStep
  <1>2. CASE UNCHANGED <<storeVars, last>>
    BY <1>2 DEF StoreInv, StoreTypeOK, OrderRows, WorkersOK, WorkOK, LedgerOK, ClientsUnique,
       RowsApart, InFlightUntold, InFlight, OrdersAreAnsweredFor, AnswerOK,
       AnswersMatchTables, OwnIdUnlessOvertaken, RowMatches, NoneAmong, storeVars
  <1> QED
    BY <1>1, <1>2, RestartKeeps, OtherInsertKeeps DEF StoreNext

\* StoreInv holds in every state the store can reach.
THEOREM StoreInvariant == StoreSpec => []StoreInv
  BY StoreInvInit, StoreInvNext, PTL DEF StoreSpec

(* The store's state has its types: whatever threads, failures and restarts do, *)
(* the strategy a row points to exists.                                         *)
THEOREM StoreTypeCorrect == StoreSpec => []StoreTypeOK
  <1>1. StoreInv => StoreTypeOK
    BY DEF StoreInv
  <1> QED
    BY <1>1, StoreInvariant, PTL

(* The handlers' answers of api_router.cpp tell the truth about the tables. *)
THEOREM AnswersAreTrue == StoreSpec => []AnswersMatchTables
  <1>1. StoreInv => AnswersMatchTables
    BY DEF StoreInv, AnswerOK
  <1> QED
    BY <1>1, StoreInvariant, PTL

(* No order is left behind by an error answer of create_order. *)
THEOREM NoOrderLeftBehind == StoreSpec => []OrdersAreAnsweredFor
  <1>1. StoreInv => OrdersAreAnsweredFor
    BY DEF StoreInv, LedgerOK
  <1> QED
    BY <1>1, StoreInvariant, PTL

(* The id of a 201 is wrong only after an insert of somebody else between the  *)
(* request's own insert and last_insert_rowid.                                 *)
THEOREM IdIsOwnUnlessOvertaken == StoreSpec => []OwnIdUnlessOvertaken
  <1>1. StoreInv => OwnIdUnlessOvertaken
    BY DEF StoreInv, AnswerOK
  <1> QED
    BY <1>1, StoreInvariant, PTL

(* At most one request per client_order_id is told that its order was created. *)
THEOREM ClientIdCreatedOnce == StoreSpec => CreatedOnce
  <1>1. ASSUME StoreInv, NEW t \in Workers, Respond(t), req[t].op = "CreateOrder"
        PROVE  req[t].client \notin told
    <2>1. WorkOK(t) /\ at[t] = "rowid"
      BY <1>1 DEF StoreInv, WorkersOK, Respond
    <2>2. row[t] \in DOMAIN orders /\ orders[row[t]].client = req[t].client
      BY <1>1, <2>1 DEF WorkOK, RowMatches
    <2>3. InFlight(t, row[t])
      BY <1>1, <2>1 DEF InFlight
    <2> QED
      BY <1>1, <2>2, <2>3 DEF StoreInv, LedgerOK, InFlightUntold
  <1>2. StoreInv /\ [StoreNext]_<<storeVars, last>> =>
            [\A t \in Workers : Respond(t) /\ req[t].op = "CreateOrder" =>
                req[t].client \notin told]_storeVars
    BY <1>1
  <1> QED
    BY <1>2, StoreInvariant, PTL DEF StoreSpec, CreatedOnce

-----------------------------------------------------------------------------
(* The subscriber. *)

StageOK ==
    /\ stage \in {"store", "mark"} => current \in Wellformed
    /\ stage = "mark" => current.channel = "trades" /\ TypedRows(current) # {}

IngestInv == IngestTypeOK /\ StageOK /\ MarkedTradesAreStored

IngestNext == IngestStep \/ IngestRestart

-----------------------------------------------------------------------------
(* Rows. *)

LEMMA AppendRow ==
    ASSUME NEW S, NEW s \in Seq(S), NEW e \in S
    PROVE  /\ Append(s, e) \in Seq(S)
           /\ DOMAIN Append(s, e) = DOMAIN s \cup {Len(s) + 1}
           /\ Len(s) + 1 \notin DOMAIN s
           /\ Len(Append(s, e)) \in Nat \ {0}
           /\ \A i \in DOMAIN s : Append(s, e)[i] = s[i]
           /\ Append(s, e)[Len(s) + 1] = e
  OBVIOUS

LEMMA ChannelOf ==
    ASSUME NEW m \in Messages
    PROVE  m.channel \in Channels /\ m # None
  BY IngestAssumption

LEMMA ThreeChannels == Len(ChannelList) = 3
  BY DEF ChannelList

\* Counting one more for one message.
LEMMA OneMore ==
    ASSUME NEW f \in [Messages -> Nat], NEW n \in Messages
    PROVE  /\ [f EXCEPT ![n] = @ + 1] \in [Messages -> Nat]
           /\ \A m \in Messages :
                [f EXCEPT ![n] = @ + 1][m] = f[m] + IF m = n THEN 1 ELSE 0
  OBVIOUS

LEMMA CountersOK ==
    ASSUME IngestTypeOK
    PROVE  /\ delivered \in [Messages -> Nat] /\ unlogged \in [Messages -> Nat]
           /\ again \in [Messages -> Nat] /\ troubled \in [Messages -> Nat]
  BY DEF IngestTypeOK

RawRowType == [message: Messages, processed: BOOLEAN]
Raws == Seq(RawRowType)

LEMMA ElementOf ==
    ASSUME NEW S, NEW s \in Seq(S), NEW i \in DOMAIN s
    PROVE  s[i] \in S
  OBVIOUS

\* Appending the raw row of the message in hand.
LEMMA RawAppend ==
    ASSUME raw \in Raws, current \in Messages, raw' = Append(raw, RawRow)
    PROVE  /\ raw' \in Raws
           /\ \A i \in DOMAIN raw' :
                \/ i \in DOMAIN raw /\ raw'[i] = raw[i]
                \/ raw'[i].message = current /\ raw'[i].processed = FALSE
  <1>1. RawRow \in RawRowType
    BY DEF RawRow, RawRowType
  <1>2. RawRow.message = current /\ RawRow.processed = FALSE
    BY DEF RawRow
  <1> QED
    BY <1>1, <1>2, AppendRow DEF Raws

-----------------------------------------------------------------------------
(* Each step keeps the invariant. *)

\* Steps that touch no table.
LEMMA TablesAlone ==
    ASSUME IngestInv, UNCHANGED <<raw, typed>>, IngestTypeOK', StageOK'
    PROVE  IngestInv'
  BY DEF IngestInv, MarkedTradesAreStored, TypedRows

LEMMA IngestInitInv == IngestInit => IngestInv
  BY IngestAssumption, ThreeChannels
  DEF IngestInit, IngestInv, IngestTypeOK, StageOK, MarkedTradesAreStored,
      Busy, Stages, Zero

LEMMA ConnectKeeps ==
    ASSUME IngestInv,
           \/ SubscribeChannel \/ ConnectFails \/ Disconnect
           \/ \E m \in Messages : Swallow(m)
    PROVE  IngestInv'
  <1>1. ~Busy /\ ~Busy' /\ UNCHANGED <<raw, typed, current, again, troubled>>
    BY DEF SubscribeChannel, Swallow, Subscribing, ConnectFails, Disconnect, Busy
  <1>2. delivered' \in [Messages -> Nat] /\ unlogged' \in [Messages -> Nat]
    <2>1. delivered \in [Messages -> Nat] /\ unlogged \in [Messages -> Nat]
      BY DEF IngestInv, IngestTypeOK
    <2>2. ASSUME NEW m \in Messages, Swallow(m)
          PROVE  delivered' \in [Messages -> Nat] /\ unlogged' \in [Messages -> Nat]
      BY <2>1, <2>2 DEF Swallow
    <2>3. SubscribeChannel \/ ConnectFails \/ Disconnect => UNCHANGED <<delivered, unlogged>>
      BY DEF SubscribeChannel, ConnectFails, Disconnect
    <2> QED
      BY <2>1, <2>2, <2>3
  <1>3. /\ subscribed' \in 0..Len(ChannelList) /\ stage' \in Stages
        /\ stage' # "gone" => (stage' = "connecting" <=> subscribed' < Len(ChannelList))
    <2>1. /\ subscribed \in 0..3
          /\ stage # "gone" => (stage = "connecting" <=> subscribed < 3)
      BY ThreeChannels DEF IngestInv, IngestTypeOK
    <2>2. CASE Subscribing
      BY <2>1, <2>2, ThreeChannels DEF Subscribing, Stages
    <2>3. CASE ConnectFails \/ Disconnect
      BY <2>1, <2>3, ThreeChannels DEF ConnectFails, Disconnect, Stages
    <2> QED
      BY <2>2, <2>3 DEF SubscribeChannel, Swallow
  <1>4. IngestTypeOK'
    BY <1>1, <1>2, <1>3 DEF IngestInv, IngestTypeOK
  <1>5. StageOK'
    BY <1>1 DEF StageOK, Busy
  <1> QED
    BY <1>1, <1>4, <1>5, TablesAlone

LEMMA TakeKeeps ==
    ASSUME IngestInv, NEW m \in Messages, Take(m)
    PROVE  IngestInv'
  <1>1. /\ ~Busy /\ stage' = "audit" /\ current' = m /\ UNCHANGED <<raw, typed, subscribed>>
        /\ UNCHANGED <<unlogged, again, troubled>>
    BY DEF Take, Busy
  <1>2. IngestTypeOK'
    BY <1>1, ChannelOf DEF Take, IngestInv, IngestTypeOK, Stages
  <1>3. StageOK'
    BY <1>1 DEF StageOK
  <1> QED
    BY <1>1, <1>2, <1>3, TablesAlone

\* A statement of the message in hand that fails and leaves no row.
LEMMA FailKeeps ==
    ASSUME IngestInv, AuditFails \/ StoreFails \/ FallbackFails
    PROVE  IngestInv'
  <1>1. /\ Busy /\ current \in Messages
        /\ UNCHANGED <<raw, typed, current, subscribed, delivered, again>>
        /\ stage' \in {"store", "fallback", "waiting"}
        /\ stage' = "store" => current \in Wellformed
        /\ stage # "gone" /\ stage # "connecting"
    BY DEF AuditFails, StoreFails, FallbackFails, AfterAudit, Busy, IngestInv, IngestTypeOK
  <1>2. unlogged' \in [Messages -> Nat] /\ troubled' \in [Messages -> Nat]
    <2>1. unlogged \in [Messages -> Nat] /\ troubled \in [Messages -> Nat]
      BY CountersOK DEF IngestInv
    <2>2. CASE AuditFails
      BY <1>1, <2>1, <2>2, OneMore DEF AuditFails
    <2>3. CASE StoreFails
      BY <1>1, <2>1, <2>3, OneMore DEF StoreFails
    <2>4. CASE FallbackFails
      BY <2>1, <2>4 DEF FallbackFails
    <2> QED
      BY <2>2, <2>3, <2>4
  <1>3. IngestTypeOK'
    BY <1>1, <1>2 DEF IngestInv, IngestTypeOK, Stages, Busy
  <1>4. StageOK'
    BY <1>1 DEF StageOK
  <1> QED
    BY <1>1, <1>3, <1>4, TablesAlone

\* Audit and Fallback.
LEMMA RawKeeps ==
    ASSUME IngestInv, Audit \/ Fallback
    PROVE  IngestInv'
  <1>1. /\ Busy /\ current \in Messages /\ raw' = Append(raw, RawRow)
        /\ UNCHANGED <<typed, current, subscribed, delivered, unlogged, troubled>>
        /\ stage \in {"audit", "fallback"}
    BY DEF Audit, Fallback, Busy, IngestInv, IngestTypeOK
  <1>2. /\ stage = "audit" => stage' = AfterAudit /\ again' = again
        /\ stage = "fallback" => stage' = "waiting" /\ again' = [again EXCEPT ![current] = @ + 1]
    BY DEF Audit, Fallback
  <1>3. /\ raw' \in Raws
        /\ \A i \in DOMAIN raw' :
                \/ i \in DOMAIN raw /\ raw'[i] = raw[i]
                \/ raw'[i].message = current /\ raw'[i].processed = FALSE
    BY <1>1, RawAppend DEF IngestInv, IngestTypeOK, Raws, RawRowType
  <1>4. IngestTypeOK'
    <2>1. again' \in [Messages -> Nat]
      <3>1. again \in [Messages -> Nat]
        BY CountersOK DEF IngestInv
      <3> QED
        BY <1>1, <1>2, <3>1
    <2> QED
      BY <1>1, <1>2, <1>3, <2>1
      DEF IngestInv, IngestTypeOK, Stages, Busy, Raws, RawRowType, AfterAudit
  <1>5. StageOK'
    BY <1>1, <1>2 DEF IngestInv, StageOK, AfterAudit
  <1>6. MarkedTradesAreStored'
    <2>1. \A i \in DOMAIN raw' : raw'[i].processed => i \in DOMAIN raw /\ raw'[i] = raw[i]
      BY <1>3
    <2>2. \A m : TypedRows(m)' = TypedRows(m)
      BY <1>1 DEF TypedRows
    <2> QED
      BY <2>1, <2>2 DEF IngestInv, MarkedTradesAreStored
  <1> QED
    BY <1>4, <1>5, <1>6 DEF IngestInv

LEMMA StoreKeeps ==
    ASSUME IngestInv, Store
    PROVE  IngestInv'
  <1>1. /\ stage = "store" /\ current \in Wellformed /\ current \in Messages
        /\ current.channel \in Channels
        /\ UNCHANGED <<raw, current, subscribed, delivered, unlogged, again, troubled>>
        /\ stage' = AfterStore
    BY ChannelOf, IngestAssumption DEF Store, IngestInv, StageOK
  <1>2. PICK ch : ch = current.channel
    OBVIOUS
  <1>3. typed[ch] \in Seq(Wellformed) /\ typed \in [Channels -> Seq(Wellformed)]
    BY <1>1, <1>2 DEF IngestInv, IngestTypeOK
  <1>4. typed' = [typed EXCEPT ![ch] = Append(typed[ch], current)]
    BY <1>2 DEF Store
  <1>5. /\ typed' \in [Channels -> Seq(Wellformed)]
        /\ \A c \in Channels : c # ch => typed'[c] = typed[c]
        /\ typed'[ch] = Append(typed[ch], current)
    BY <1>1, <1>2, <1>3, <1>4, AppendRow
  <1>6. \A m \in Messages : TypedRows(m) \subseteq TypedRows(m)'
    <2> SUFFICES ASSUME NEW m \in Messages PROVE TypedRows(m) \subseteq TypedRows(m)'
      OBVIOUS
    <2>1. m.channel \in Channels
      BY ChannelOf
    <2>2. CASE m.channel = ch
      <3>1. \A i \in DOMAIN typed[ch] : i \in DOMAIN typed'[ch] /\ typed'[ch][i] = typed[ch][i]
        BY <1>1, <1>3, <1>5, AppendRow
      <3> QED
        BY <2>2, <3>1 DEF TypedRows
    <2>3. CASE m.channel # ch
      BY <1>5, <2>1, <2>3 DEF TypedRows
    <2> QED
      BY <2>2, <2>3
  <1>7. TypedRows(current)' # {}
    <2>1. Len(typed[ch]) + 1 \in DOMAIN typed'[ch] /\ typed'[ch][Len(typed[ch]) + 1] = current
      BY <1>1, <1>3, <1>5, AppendRow
    <2> QED
      BY <1>1, <1>2, <2>1 DEF TypedRows
  <1>8. IngestTypeOK'
    BY <1>1, <1>5 DEF IngestInv, IngestTypeOK, Stages, Busy, AfterStore
  <1>9. StageOK'
    BY <1>1, <1>7 DEF StageOK, AfterStore
  <1>10. MarkedTradesAreStored'
    <2>1. \A i \in DOMAIN raw : raw[i].message \in Messages
      <3>1. raw \in Raws
        BY DEF IngestInv, IngestTypeOK, Raws, RawRowType
      <3>2. \A i \in DOMAIN raw : raw[i] \in RawRowType
        BY <3>1, ElementOf DEF Raws
      <3> QED
        BY <3>2 DEF RawRowType
    <2> QED
      BY <1>1, <1>6, <2>1 DEF IngestInv, MarkedTradesAreStored
  <1> QED
    BY <1>8, <1>9, <1>10 DEF IngestInv

LEMMA MarkKeeps ==
    ASSUME IngestInv, Mark
    PROVE  IngestInv'
  <1>1. /\ stage = "mark" /\ stage' = "waiting" /\ current \in Messages
        /\ UNCHANGED <<typed, current, subscribed, delivered, unlogged, again>>
        /\ troubled' \in [Messages -> Nat]
        /\ TypedRows(current) # {} /\ raw \in Raws
    BY DEF Mark, IngestInv, IngestTypeOK, StageOK, Busy, Raws, RawRowType
  <1>2. raw' = [i \in DOMAIN raw |-> Marked(raw[i])]
    BY DEF Mark
  <1>3. \A i \in DOMAIN raw : raw[i] \in RawRowType
    BY <1>1, ElementOf DEF Raws
  <1>4. DOMAIN raw' = DOMAIN raw
    BY <1>2
  <1>5. \A i \in DOMAIN raw :
            /\ raw'[i].message = raw[i].message
            /\ raw[i].message = current => raw'[i].processed = TRUE
            /\ raw[i].message # current => raw'[i] = raw[i]
            /\ raw'[i] \in RawRowType
    BY <1>2, <1>3 DEF Marked, RawRowType
  <1>6. raw' \in Raws
    BY <1>1, <1>2, <1>4, <1>5 DEF Raws
  <1>7. IngestTypeOK'
    BY <1>1, <1>6 DEF IngestInv, IngestTypeOK, Stages, Busy, Raws, RawRowType
  <1>8. StageOK'
    BY <1>1 DEF StageOK
  <1>9. MarkedTradesAreStored'
    BY <1>1, <1>4, <1>5 DEF IngestInv, MarkedTradesAreStored, TypedRows
  <1> QED
    BY <1>7, <1>8, <1>9 DEF IngestInv

LEMMA IngestRestartKeeps ==
    ASSUME IngestInv, IngestRestart
    PROVE  IngestInv'
  <1>1. /\ stage' = "connecting" /\ subscribed' = 0 /\ current' = None
        /\ UNCHANGED <<raw, typed, delivered>>
    BY DEF IngestRestart
  <1>2. \A m \in Messages : InHand(m, {"audit"}) \in Nat /\ InHand(m, {"store", "mark"}) \in Nat
    BY DEF InHand
  <1>3. unlogged' \in [Messages -> Nat] /\ troubled' \in [Messages -> Nat] /\ again' = again
    BY <1>2, CountersOK DEF IngestRestart, IngestInv
  <1>4. IngestTypeOK'
    BY <1>1, <1>3, ThreeChannels DEF IngestInv, IngestTypeOK, Stages, Busy
  <1>5. StageOK'
    BY <1>1 DEF StageOK
  <1> QED
    BY <1>1, <1>4, <1>5, TablesAlone

LEMMA IngestInvNext == IngestInv /\ [IngestNext]_ingestVars => IngestInv'
  <1> SUFFICES ASSUME IngestInv, [IngestNext]_ingestVars PROVE IngestInv'
    OBVIOUS
  <1>1. CASE IngestStep
    BY <1>1, ConnectKeeps, TakeKeeps, FailKeeps, RawKeeps, StoreKeeps, MarkKeeps DEF IngestStep
  <1>2. CASE UNCHANGED ingestVars
    BY <1>2 DEF ingestVars, IngestInv, IngestTypeOK, StageOK, MarkedTradesAreStored,
       TypedRows, Busy
  <1> QED
    BY <1>1, <1>2, IngestRestartKeeps DEF IngestNext

\* IngestInv holds in every state of the subscriber.
THEOREM IngestInvariant == IngestSpec => []IngestInv
  BY IngestInitInv, IngestInvNext, PTL DEF IngestSpec, IngestNext

-----------------------------------------------------------------------------
(* Counting: how many rows a message has against how often it was delivered. *)

CountOK(m) ==
    /\ delivered[m] = Cardinality(RawRows(m)) - again[m] + unlogged[m] + InHand(m, {"audit"})
    /\ Cardinality(TypedRows(m)) + InHand(m, {"audit", "store"}) <= delivered[m]
    /\ Cardinality(RawRows(m)) + 2 * InHand(m, {"audit"}) + InHand(m, {"store", "mark", "fallback"})
            <= 2 * delivered[m]

CountInv == \A m \in Messages : CountOK(m)

\* Each unmarked row of a trade is due to a delivery that met trouble or is in hand;
\* one that is about to be stored raw again has met it.
UnmarkedOK(m) ==
    Cardinality(UnmarkedRows(m)) + InHand(m, {"fallback"})
        <= 2 * troubled[m] + InHand(m, {"store", "mark"})

UnmarkedInv == \A m \in Wellformed : m.channel = "trades" => UnmarkedOK(m)

LEMMA IndexSets ==
    ASSUME NEW S, NEW s \in Seq(S), NEW I \in SUBSET DOMAIN s
    PROVE  IsFiniteSet(I) /\ Cardinality(I) \in Nat
  <1>1. IsFiniteSet(1..Len(s))
    BY FS_Interval
  <1>2. DOMAIN s = 1..Len(s)
    OBVIOUS
  <1> QED
    BY <1>1, <1>2, FS_Subset, FS_CardinalityType

LEMMA RowsCount ==
    ASSUME IngestTypeOK, NEW m \in Messages
    PROVE  /\ IsFiniteSet(RawRows(m)) /\ Cardinality(RawRows(m)) \in Nat
           /\ IsFiniteSet(UnmarkedRows(m)) /\ Cardinality(UnmarkedRows(m)) \in Nat
           /\ IsFiniteSet(TypedRows(m)) /\ Cardinality(TypedRows(m)) \in Nat
  <1>1. raw \in Raws /\ RawRows(m) \in SUBSET DOMAIN raw /\ UnmarkedRows(m) \in SUBSET DOMAIN raw
    BY DEF IngestTypeOK, Raws, RawRowType, RawRows, UnmarkedRows
  <1>2. typed[m.channel] \in Seq(Wellformed) /\ TypedRows(m) \in SUBSET DOMAIN typed[m.channel]
    BY ChannelOf DEF IngestTypeOK, TypedRows
  <1> QED
    BY <1>1, <1>2, IndexSets DEF Raws

\* A raw row more for the message in hand, unmarked, and for no other.
LEMMA RawCount ==
    ASSUME IngestTypeOK, current \in Messages, raw' = Append(raw, RawRow), NEW m \in Messages
    PROVE  /\ Cardinality(RawRows(m)') = Cardinality(RawRows(m)) + IF m = current THEN 1 ELSE 0
           /\ Cardinality(UnmarkedRows(m)')
                = Cardinality(UnmarkedRows(m)) + IF m = current THEN 1 ELSE 0
  <1>1. raw \in Raws /\ RawRow \in RawRowType /\ RawRow.message = current /\ ~RawRow.processed
    BY DEF IngestTypeOK, Raws, RawRowType, RawRow
  <1>2. PICK n : n = Len(raw) + 1
    OBVIOUS
  <1>3. /\ DOMAIN raw' = DOMAIN raw \cup {n} /\ n \notin DOMAIN raw
        /\ \A i \in DOMAIN raw : raw'[i] = raw[i]
        /\ raw'[n] = RawRow
    BY <1>1, <1>2, AppendRow DEF Raws
  <1>4. CASE m = current
    <2>1. RawRows(m)' = RawRows(m) \cup {n} /\ n \notin RawRows(m)
      BY <1>1, <1>3, <1>4 DEF RawRows
    <2>2. UnmarkedRows(m)' = UnmarkedRows(m) \cup {n} /\ n \notin UnmarkedRows(m)
      BY <1>1, <1>3, <1>4 DEF RawRows, UnmarkedRows
    <2> QED
      BY <1>4, <2>1, <2>2, RowsCount, FS_AddElement
  <1>5. CASE m # current
    <2>1. RawRows(m)' = RawRows(m) /\ UnmarkedRows(m)' = UnmarkedRows(m)
      BY <1>1, <1>3, <1>5 DEF RawRows, UnmarkedRows
    <2> QED
      BY <1>5, <2>1, RowsCount
  <1> QED
    BY <1>4, <1>5

LEMMA TypedCount ==
    ASSUME IngestTypeOK, current \in Wellformed, Store, NEW m \in Messages
    PROVE  Cardinality(TypedRows(m)') = Cardinality(TypedRows(m)) + IF m = current THEN 1 ELSE 0
  <1>1. PICK ch : ch = current.channel
    OBVIOUS
  <1>2. current \in Messages /\ ch \in Channels /\ m.channel \in Channels
    BY <1>1, IngestAssumption, ChannelOf
  <1>3. typed' = [typed EXCEPT ![ch] = Append(typed[ch], current)]
    BY <1>1 DEF Store
  <1>4. typed[ch] \in Seq(Wellformed) /\ typed \in [Channels -> Seq(Wellformed)]
    BY <1>2 DEF IngestTypeOK
  <1>5. /\ \A c \in Channels : c # ch => typed'[c] = typed[c]
        /\ typed'[ch] = Append(typed[ch], current)
    BY <1>2, <1>3, <1>4
  <1>6. PICK n : n = Len(typed[ch]) + 1
    OBVIOUS
  <1>7. /\ DOMAIN typed'[ch] = DOMAIN typed[ch] \cup {n} /\ n \notin DOMAIN typed[ch]
        /\ \A i \in DOMAIN typed[ch] : typed'[ch][i] = typed[ch][i]
        /\ typed'[ch][n] = current
    BY <1>4, <1>5, <1>6, AppendRow
  <1>8. CASE m = current
    <2>1. TypedRows(m)' = TypedRows(m) \cup {n} /\ n \notin TypedRows(m)
      BY <1>1, <1>7, <1>8 DEF TypedRows
    <2> QED
      BY <1>8, <2>1, RowsCount, FS_AddElement
  <1>9. CASE m # current
    <2>1. TypedRows(m)' = TypedRows(m)
      <3>1. CASE m.channel = ch
        BY <1>7, <1>9, <3>1 DEF TypedRows
      <3>2. CASE m.channel # ch
        BY <1>2, <1>5, <3>2 DEF TypedRows
      <3> QED
        BY <3>1, <3>2
    <2> QED
      BY <1>9, <2>1, RowsCount
  <1> QED
    BY <1>8, <1>9

LEMMA CountInit == IngestInit => CountInv
  <1> SUFFICES ASSUME IngestInit, NEW m \in Messages PROVE CountOK(m)
    BY DEF CountInv
  <1>1. RawRows(m) = {} /\ TypedRows(m) = {}
    BY ChannelOf DEF IngestInit, RawRows, TypedRows
  <1>2. Cardinality({}) = 0
    BY FS_EmptySet
  <1> QED
    BY <1>1, <1>2 DEF IngestInit, CountOK, InHand, Zero

LEMMA CountNext == IngestInv /\ CountInv /\ [IngestNext]_ingestVars => CountInv'
  <1> SUFFICES ASSUME IngestInv, CountInv, [IngestNext]_ingestVars, NEW m \in Messages
               PROVE  CountOK(m)'
    BY DEF CountInv
  <1>1. /\ IngestTypeOK /\ CountOK(m)
        /\ delivered[m] \in Nat /\ unlogged[m] \in Nat /\ again[m] \in Nat
        /\ Cardinality(RawRows(m)) \in Nat /\ Cardinality(TypedRows(m)) \in Nat
    BY RowsCount DEF IngestInv, IngestTypeOK, CountInv
  <1>2. (UNCHANGED raw => RawRows(m)' = RawRows(m)) /\ (UNCHANGED typed => TypedRows(m)' = TypedRows(m))
    BY DEF RawRows, TypedRows
  <1>3. CASE SubscribeChannel \/ ConnectFails \/ Disconnect
    <2>1. /\ stage \notin {"audit", "store", "mark", "fallback"}
          /\ stage' \notin {"audit", "store", "mark", "fallback"}
          /\ UNCHANGED <<raw, typed, delivered, unlogged, again>>
      BY <1>3 DEF SubscribeChannel, Subscribing, ConnectFails, Disconnect
    <2> QED
      BY <1>1, <1>2, <2>1 DEF CountOK, InHand
  <1>4. ASSUME NEW n \in Messages, Swallow(n) PROVE CountOK(m)'
    <2>1. /\ stage \notin {"audit", "store", "mark", "fallback"}
          /\ stage' \notin {"audit", "store", "mark", "fallback"}
          /\ UNCHANGED <<raw, typed, again>>
      BY <1>4 DEF Swallow, Subscribing
    <2>2. /\ delivered'[m] = delivered[m] + IF m = n THEN 1 ELSE 0
          /\ unlogged'[m] = unlogged[m] + IF m = n THEN 1 ELSE 0
      BY <1>1, <1>4, CountersOK, OneMore DEF Swallow
    <2> QED
      BY <1>1, <1>2, <2>1, <2>2 DEF CountOK, InHand
  <1>5. ASSUME NEW n \in Messages, Take(n) PROVE CountOK(m)'
    <2>1. /\ stage = "waiting" /\ stage' = "audit" /\ current' = n
          /\ UNCHANGED <<raw, typed, unlogged, again>>
      BY <1>5 DEF Take
    <2>2. delivered'[m] = delivered[m] + IF m = n THEN 1 ELSE 0
      BY <1>1, <1>5 DEF Take, IngestTypeOK
    <2> QED
      BY <1>1, <1>2, <2>1, <2>2 DEF CountOK, InHand
  <1>6. CASE Audit \/ Fallback
    <2>1. /\ UNCHANGED <<typed, current, delivered, unlogged>> /\ raw' = Append(raw, RawRow)
          /\ \/ stage = "audit" /\ stage' \in {"store", "fallback"} /\ again' = again
             \/ stage = "fallback" /\ stage' = "waiting"
                /\ again' = [again EXCEPT ![current] = @ + 1]
      BY <1>6 DEF Audit, Fallback, AfterAudit
    <2>2. current \in Messages
      BY <1>1, <2>1 DEF IngestTypeOK, Busy
    <2>3. Cardinality(RawRows(m)') = Cardinality(RawRows(m)) + IF m = current THEN 1 ELSE 0
      BY <1>1, <2>1, <2>2, RawCount
    <2>4. TypedRows(m)' = TypedRows(m) /\ UNCHANGED <<current, delivered, unlogged>>
      BY <1>2, <2>1
    <2>5. stage = "audit" \/ m # current => again'[m] = again[m]
      BY <1>1, <2>1 DEF IngestTypeOK
    <2>6. stage = "fallback" /\ m = current => again'[m] = again[m] + 1
      BY <1>1, <2>1 DEF IngestTypeOK
    <2>7. CASE m = current /\ stage = "audit"
      <3>1. /\ InHand(m, {"audit"}) = 1 /\ InHand(m, {"audit"})' = 0
            /\ InHand(m, {"audit", "store"}) = 1 /\ InHand(m, {"audit", "store"})' \in {0, 1}
            /\ InHand(m, {"store", "mark", "fallback"})' = 1
        BY <2>1, <2>7 DEF InHand
      <3> QED
        BY <1>1, <2>3, <2>4, <2>5, <2>7, <3>1 DEF CountOK, InHand
    <2>8. CASE m = current /\ stage = "fallback"
      BY <1>1, <2>1, <2>3, <2>4, <2>6, <2>8 DEF CountOK, InHand
    <2>9. CASE m # current
      BY <1>1, <2>3, <2>4, <2>5, <2>9 DEF CountOK, InHand
    <2> QED
      BY <2>1, <2>7, <2>8, <2>9
  <1>7. CASE AuditFails
    <2>1. /\ stage = "audit" /\ stage' \in {"store", "fallback"}
          /\ UNCHANGED <<raw, typed, current, delivered, again>>
      BY <1>7 DEF AuditFails, AfterAudit
    <2>2. unlogged'[m] = unlogged[m] + IF m = current THEN 1 ELSE 0
      BY <1>1, <1>7 DEF AuditFails, IngestTypeOK
    <2> QED
      BY <1>1, <1>2, <2>1, <2>2 DEF CountOK, InHand
  <1>8. CASE Store
    <2>1. /\ stage = "store" /\ stage' \in {"mark", "waiting"}
          /\ UNCHANGED <<raw, current, delivered, unlogged, again>>
      BY <1>8 DEF Store, AfterStore
    <2>2. current \in Wellformed
      BY <2>1 DEF IngestInv, StageOK
    <2>3. Cardinality(TypedRows(m)') = Cardinality(TypedRows(m)) + IF m = current THEN 1 ELSE 0
      BY <1>1, <1>8, <2>2, TypedCount
    <2> QED
      BY <1>1, <1>2, <2>1, <2>3 DEF CountOK, InHand
  <1>9. CASE Mark
    <2>1. /\ stage = "mark" /\ stage' = "waiting"
          /\ UNCHANGED <<typed, current, delivered, unlogged, again>>
      BY <1>9 DEF Mark
    <2>2. RawRows(m)' = RawRows(m)
      <3>1. DOMAIN raw' = DOMAIN raw /\ \A i \in DOMAIN raw : raw'[i] = Marked(raw[i])
        BY <1>9 DEF Mark
      <3>2. \A i \in DOMAIN raw : raw[i] \in RawRowType
        <4>1. raw \in Raws
          BY <1>1 DEF IngestTypeOK, Raws, RawRowType
        <4> QED
          BY <4>1, ElementOf DEF Raws
      <3>3. \A i \in DOMAIN raw : raw'[i].message = raw[i].message
        BY <3>1, <3>2 DEF Marked, RawRowType
      <3> QED
        BY <3>1, <3>3 DEF RawRows
    <2> QED
      BY <1>1, <1>2, <2>1, <2>2 DEF CountOK, InHand
  <1>10. CASE StoreFails \/ FallbackFails
    <2>1. /\ \/ stage \in {"store", "mark"} /\ stage' = "fallback"
             \/ stage = "fallback" /\ stage' = "waiting"
          /\ UNCHANGED <<raw, typed, current, delivered, unlogged, again>>
      BY <1>10 DEF StoreFails, FallbackFails
    <2> QED
      BY <1>1, <1>2, <2>1 DEF CountOK, InHand
  <1>11. CASE IngestRestart
    <2>1. stage' = "connecting" /\ UNCHANGED <<raw, typed, delivered, again>>
      BY <1>11 DEF IngestRestart
    <2>2. unlogged'[m] = unlogged[m] + InHand(m, {"audit"})
      BY <1>11 DEF IngestRestart, InHand
    <2> QED
      BY <1>1, <1>2, <2>1, <2>2 DEF CountOK, InHand
  <1>12. CASE UNCHANGED ingestVars
    BY <1>1, <1>2, <1>12 DEF ingestVars, CountOK, InHand
  <1> QED
    BY <1>3, <1>4, <1>5, <1>6, <1>7, <1>8, <1>9, <1>10, <1>11, <1>12 DEF IngestNext, IngestStep

LEMMA UnmarkedInit == IngestInit => UnmarkedInv
  <1> SUFFICES ASSUME IngestInit, NEW m \in Wellformed PROVE UnmarkedOK(m)
    BY DEF UnmarkedInv
  <1>1. UnmarkedRows(m) = {} /\ Cardinality({}) = 0
    BY FS_EmptySet DEF IngestInit, RawRows, UnmarkedRows
  <1> QED
    BY <1>1, IngestAssumption DEF IngestInit, UnmarkedOK, InHand, Zero

LEMMA UnmarkedNext == IngestInv /\ UnmarkedInv /\ [IngestNext]_ingestVars => UnmarkedInv'
  <1> SUFFICES ASSUME IngestInv, UnmarkedInv, [IngestNext]_ingestVars,
                      NEW m \in Wellformed, m.channel = "trades"
               PROVE  UnmarkedOK(m)'
    BY DEF UnmarkedInv
  <1>1. /\ IngestTypeOK /\ UnmarkedOK(m) /\ m \in Messages
        /\ troubled[m] \in Nat /\ Cardinality(UnmarkedRows(m)) \in Nat
    BY RowsCount, IngestAssumption DEF IngestInv, IngestTypeOK, UnmarkedInv
  <1>2. UNCHANGED raw => UnmarkedRows(m)' = UnmarkedRows(m)
    BY DEF RawRows, UnmarkedRows
  <1>3. CASE SubscribeChannel \/ ConnectFails \/ Disconnect \/ (\E n \in Messages : Swallow(n) \/ Take(n))
    <2>1. /\ stage \notin {"store", "mark", "fallback"} /\ stage' \notin {"store", "mark", "fallback"}
          /\ UNCHANGED <<raw, troubled>>
      BY <1>3 DEF SubscribeChannel, Subscribing, ConnectFails, Disconnect, Swallow, Take
    <2> QED
      BY <1>1, <1>2, <2>1 DEF UnmarkedOK, InHand
  <1>4. CASE Audit \/ Fallback
    <2>1. /\ UNCHANGED <<current, troubled>> /\ raw' = Append(raw, RawRow)
          /\ \/ stage = "audit" /\ stage' = AfterAudit
             \/ stage = "fallback" /\ stage' = "waiting"
      BY <1>4 DEF Audit, Fallback
    <2>2. current \in Messages
      BY <1>1, <2>1 DEF IngestTypeOK, Busy
    <2>3. Cardinality(UnmarkedRows(m)') = Cardinality(UnmarkedRows(m)) + IF m = current THEN 1 ELSE 0
      BY <1>1, <2>1, <2>2, RawCount
    <2>4. m = current => AfterAudit = "store"
      BY DEF AfterAudit
    <2>5. CASE m = current /\ stage = "audit"
      BY <1>1, <2>1, <2>3, <2>4, <2>5 DEF UnmarkedOK, InHand
    <2>6. CASE m = current /\ stage = "fallback"
      BY <1>1, <2>1, <2>3, <2>6 DEF UnmarkedOK, InHand
    <2>7. CASE m # current
      BY <1>1, <2>1, <2>3, <2>7 DEF UnmarkedOK, InHand
    <2> QED
      BY <2>1, <2>5, <2>6, <2>7
  <1>5. CASE AuditFails
    <2>1. /\ stage = "audit" /\ stage' = AfterAudit /\ UNCHANGED <<raw, current, troubled>>
      BY <1>5 DEF AuditFails
    <2>2. m = current => AfterAudit = "store"
      BY DEF AfterAudit
    <2> QED
      BY <1>1, <1>2, <2>1, <2>2 DEF UnmarkedOK, InHand
  <1>6. CASE Store
    <2>1. /\ stage = "store" /\ stage' = AfterStore /\ UNCHANGED <<raw, current, troubled>>
      BY <1>6 DEF Store
    <2>2. m = current => AfterStore = "mark"
      BY DEF AfterStore
    <2> QED
      BY <1>1, <1>2, <2>1, <2>2 DEF UnmarkedOK, InHand, AfterStore
  <1>7. CASE Mark
    <2>1. /\ stage = "mark" /\ stage' = "waiting" /\ UNCHANGED current
          /\ raw' = [i \in DOMAIN raw |-> Marked(raw[i])]
          /\ troubled' = [troubled EXCEPT ![current] = 0]
      BY <1>7 DEF Mark
    <2>2. DOMAIN raw' = DOMAIN raw /\ \A i \in DOMAIN raw : raw'[i] = Marked(raw[i])
      BY <2>1
    <2>3. \A i \in DOMAIN raw : raw[i] \in RawRowType
      <3>1. raw \in Raws
        BY <1>1 DEF IngestTypeOK, Raws, RawRowType
      <3> QED
        BY <3>1, ElementOf DEF Raws
    <2>4. CASE m = current
      <3>1. \A i \in DOMAIN raw : raw'[i].message = m => raw'[i].processed
        BY <2>2, <2>3, <2>4 DEF Marked, RawRowType
      <3>2. UnmarkedRows(m)' = {}
        BY <2>2, <3>1 DEF RawRows, UnmarkedRows
      <3>3. troubled'[m] = 0
        BY <1>1, <2>1, <2>4 DEF IngestTypeOK
      <3> QED
        BY <2>1, <3>2, <3>3, FS_EmptySet DEF UnmarkedOK, InHand
    <2>5. CASE m # current
      <3>1. \A i \in DOMAIN raw : /\ raw'[i].message = raw[i].message
                                  /\ raw[i].message = m => raw'[i] = raw[i]
        BY <2>2, <2>3, <2>5 DEF Marked, RawRowType
      <3>2. UnmarkedRows(m)' = UnmarkedRows(m)
        BY <2>2, <3>1 DEF RawRows, UnmarkedRows
      <3>3. troubled'[m] = troubled[m]
        BY <1>1, <2>1, <2>5 DEF IngestTypeOK
      <3> QED
        BY <1>1, <2>1, <2>5, <3>2, <3>3 DEF UnmarkedOK, InHand
    <2> QED
      BY <2>4, <2>5
  <1>8. CASE StoreFails
    <2>1. /\ stage \in {"store", "mark"} /\ stage' = "fallback" /\ UNCHANGED <<raw, current>>
          /\ troubled' = [troubled EXCEPT ![current] = @ + 1]
      BY <1>8 DEF StoreFails
    <2>2. troubled'[m] = troubled[m] + IF m = current THEN 1 ELSE 0
      BY <1>1, <2>1 DEF IngestTypeOK
    <2> QED
      BY <1>1, <1>2, <2>1, <2>2 DEF UnmarkedOK, InHand
  <1>9. CASE FallbackFails
    <2>1. stage = "fallback" /\ stage' = "waiting" /\ UNCHANGED <<raw, current, troubled>>
      BY <1>9 DEF FallbackFails
    <2> QED
      BY <1>1, <1>2, <2>1 DEF UnmarkedOK, InHand
  <1>10. CASE IngestRestart
    <2>1. /\ stage' = "connecting" /\ UNCHANGED raw
          /\ troubled'[m] = troubled[m] + InHand(m, {"store", "mark"})
      BY <1>1, <1>10 DEF IngestRestart
    <2> QED
      BY <1>1, <1>2, <2>1 DEF UnmarkedOK, InHand
  <1>11. CASE UNCHANGED ingestVars
    BY <1>1, <1>2, <1>11 DEF ingestVars, UnmarkedOK, InHand
  <1> QED
    BY <1>3, <1>4, <1>5, <1>6, <1>7, <1>8, <1>9, <1>10, <1>11 DEF IngestNext, IngestStep

\* UnmarkedInv holds in every state of the subscriber.
THEOREM UnmarkedInvariant == IngestSpec => []UnmarkedInv
  BY UnmarkedInit, UnmarkedNext, IngestInvariant, PTL DEF IngestSpec, IngestNext

\* CountInv holds in every state of the subscriber.
THEOREM CountInvariant == IngestSpec => []CountInv
  BY CountInit, CountNext, IngestInvariant, PTL DEF IngestSpec, IngestNext

-----------------------------------------------------------------------------
(* The process and its two halves. *)

\* The HTTP threads cannot be seen by the subscriber.
THEOREM ServerUsesIngest == ServerSpec => IngestSpec
  <1>1. ServerInit => IngestInit
    BY DEF ServerInit
  <1>2. [Serve \/ Subscribe \/ Restart]_serverVars => [IngestStep \/ IngestRestart]_ingestVars
    BY DEF Serve, Subscribe, Restart, serverVars
  <1> QED
    BY <1>1, <1>2, PTL DEF ServerSpec, IngestSpec

(* The subscriber's state has its types, next to any number of HTTP threads. *)
THEOREM IngestTypeCorrect == ServerSpec => []IngestTypeOK
  <1>1. IngestInv => IngestTypeOK
    BY DEF IngestInv
  <1> QED
    BY <1>1, ServerUsesIngest, IngestInvariant, PTL

(* A raw row that storeTrade marked as processed belongs to a stored trade,    *)
(* whatever failed or restarted, and since the rows of a trade were marked last   *)
(* there are at most two unmarked for each delivery whose insert or mark failed    *)
(* or was cut off (Redissubscriber.cpp:161-180), and the one in hand.              *)
THEOREM MarksAreTrue == ServerSpec => []MarksTellTheTruth
  <1>1. IngestInv /\ UnmarkedInv => MarksTellTheTruth
    <2> SUFFICES ASSUME IngestInv, UnmarkedInv, NEW m \in Wellformed, m.channel = "trades"
                 PROVE  Cardinality(UnmarkedRows(m)) <= 2 * troubled[m] + InHand(m, {"store", "mark"})
      BY DEF MarksTellTheTruth, UnmarkedTradesMetTrouble, IngestInv
    <2>1. /\ UnmarkedOK(m) /\ troubled[m] \in Nat
          /\ Cardinality(UnmarkedRows(m)) \in Nat
      BY RowsCount, IngestAssumption DEF IngestInv, IngestTypeOK, UnmarkedInv
    <2> QED
      BY <2>1 DEF UnmarkedOK, InHand
  <1> QED
    BY <1>1, ServerUsesIngest, IngestInvariant, UnmarkedInvariant, PTL

(* c4-diagrams.md:171 "audit every message": each message taken from Redis has one *)
(* raw row beside those of the fallback, with the exceptions EveryMessageIsAudited  *)
(* names.                                                                           *)
THEOREM EveryMessageAudited == ServerSpec => []EveryMessageIsAudited
  <1>1. CountInv => EveryMessageIsAudited
    BY DEF CountInv, CountOK, EveryMessageIsAudited
  <1> QED
    BY <1>1, ServerUsesIngest, CountInvariant, PTL

(* No fallback and no restart stores a message more often than it was delivered. *)
THEOREM NothingStoredTwice == ServerSpec => []StoredOncePerDelivery
  <1>1. IngestInv /\ CountInv => StoredOncePerDelivery
    <2> SUFFICES ASSUME IngestInv, CountInv, NEW m \in Messages
                 PROVE  /\ Cardinality(TypedRows(m)) <= delivered[m]
                        /\ Cardinality(RawRows(m)) <= 2 * delivered[m]
      BY DEF StoredOncePerDelivery
    <2>1. CountOK(m)
      BY DEF CountInv
    <2>2. /\ Cardinality(TypedRows(m)) \in Nat /\ Cardinality(RawRows(m)) \in Nat
          /\ delivered[m] \in Nat
      BY RowsCount DEF IngestInv, IngestTypeOK
    <2> QED
      BY <2>1, <2>2 DEF CountOK, InHand
  <1> QED
    BY <1>1, ServerUsesIngest, IngestInvariant, CountInvariant, PTL

\* What the store sees of a step of the subscriber.
LEMMA SubscribeIsOtherInsert ==
    ASSUME OtherIds = Nat \ {0}, IngestTypeOK, IngestTypeOK', Subscribe
    PROVE  OtherInsert \/ UNCHANGED <<storeVars, last>>
  <1>1. IngestStep /\ UNCHANGED storeVars
    BY DEF Subscribe
  <1>2. CASE Audit \/ Fallback
    <2>1. raw' = Append(raw, RawRow) /\ Inserts(None, Len(raw'))
      BY <1>2 DEF Audit, Fallback, Insert
    <2>2. raw \in Raws /\ current \in Messages
      BY <1>2 DEF Audit, Fallback, IngestTypeOK, Busy, Raws, RawRowType
    <2>3. Len(raw') \in Nat \ {0}
      <3>1. RawRow \in RawRowType
        BY <2>2 DEF RawRow, RawRowType
      <3> QED
        BY <2>1, <2>2, <3>1, AppendRow DEF Raws
    <2> QED
      BY <1>1, <2>1, <2>3 DEF OtherInsert
  <1>3. CASE Store
    <2>1. PICK ch : ch = current.channel
      OBVIOUS
    <2>2. typed' = [typed EXCEPT ![ch] = Append(typed[ch], current)] /\ Inserts(None, Len(typed'[ch]))
      BY <1>3, <2>1 DEF Store, Insert
    <2>3. current \in Messages /\ ch \in Channels
      BY <1>3, <2>1, ChannelOf DEF Store, IngestTypeOK, Busy
    <2>4. typed[ch] \in Seq(Messages)
      <3>1. typed[ch] \in Seq(Wellformed)
        BY <2>3 DEF IngestTypeOK
      <3>2. Wellformed \subseteq Messages
        BY IngestAssumption
      <3> QED
        BY <3>1, <3>2
    <2>5. typed'[ch] = Append(typed[ch], current)
      BY <2>2, <2>3 DEF IngestTypeOK
    <2>6. Len(typed'[ch]) \in Nat \ {0}
      BY <2>3, <2>4, <2>5, AppendRow
    <2> QED
      BY <1>1, <2>2, <2>6 DEF OtherInsert
  <1>4. CASE ~(Audit \/ Fallback \/ Store)
    BY <1>1, <1>4
    DEF IngestStep, SubscribeChannel, ConnectFails, Swallow, Subscribing, Take, Disconnect,
        AuditFails, Mark, StoreFails, FallbackFails
  <1> QED
    BY <1>2, <1>3, <1>4

(* With any key for the inserts of others, the store does not see whether it runs *)
(* next to the subscriber: what is proved of OrderStore holds in IOServer.        *)
THEOREM ServerUsesStore == OtherIds = Nat \ {0} => (ServerSpec => StoreSpec)
  <1> SUFFICES ASSUME OtherIds = Nat \ {0} PROVE ServerSpec => StoreSpec
    OBVIOUS
  <1>1. ServerInit => StoreInit
    BY DEF ServerInit
  <1>2. IngestTypeOK /\ IngestTypeOK' /\ [Serve \/ Subscribe \/ Restart]_serverVars
            => [StoreNext]_<<storeVars, last>>
    <2> SUFFICES ASSUME IngestTypeOK, IngestTypeOK', [Serve \/ Subscribe \/ Restart]_serverVars
                 PROVE  [StoreNext]_<<storeVars, last>>
      OBVIOUS
    <2>1. CASE Serve
      BY <2>1 DEF Serve, StoreNext
    <2>2. CASE Subscribe
      BY <2>2, SubscribeIsOtherInsert DEF StoreNext
    <2>3. CASE Restart
      BY <2>3 DEF Restart, StoreNext
    <2>4. CASE UNCHANGED serverVars
      BY <2>4 DEF serverVars
    <2> QED
      BY <2>1, <2>2, <2>3, <2>4
  <1> QED
    BY <1>1, <1>2, IngestTypeCorrect, PTL DEF ServerSpec, StoreSpec

(* Beside the subscriber on the one connection, too, a 201 stands for one row that *)
(* holds what was asked for, no error answer leaves an order behind, an id is the  *)
(* request's own unless it was overtaken, and a client_order_id is answered with   *)
(* 201 once (main.cpp starts both; api_router.cpp:1056-1067).                      *)
THEOREM StoreIsSafeInServer ==
    OtherIds = Nat \ {0} =>
        (ServerSpec => /\ [](AnswersMatchTables /\ OrdersAreAnsweredFor /\ OwnIdUnlessOvertaken)
                       /\ CreatedOnce)
  <1>1. StoreInv => AnswersMatchTables /\ OrdersAreAnsweredFor /\ OwnIdUnlessOvertaken
    BY DEF StoreInv, AnswerOK, LedgerOK
  <1> QED
    BY <1>1, ServerUsesStore, StoreInvariant, ClientIdCreatedOnce, PTL
=============================================================================
