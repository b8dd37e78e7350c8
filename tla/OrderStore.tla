----------------------------- MODULE OrderStore -----------------------------
(***************************************************************************)
(* The writing half of IO-Server's REST API: the handlers of APIRouter     *)
(* that create orders, signals and strategies, cancel orders and update    *)
(* strategies.  Crow runs them on a pool of threads, and all of them use   *)
(* one SQLiteDB and so one connection.  SQLite makes each statement atomic *)
(* and nothing opens a transaction: a statement is a step, and so is the   *)
(* call that asks the connection for the row id of its latest insert.      *)
(*                                                                         *)
(* Rows are never deleted and every key is AUTOINCREMENT, so a table is    *)
(* a sequence and a key is a position in it.  0 stands for NULL.           *)
(***************************************************************************)
EXTENDS Connection, Sequences

CONSTANTS
    Workers,             \* the threads of the HTTP server
    Requests,            \* the requests they may receive
    ClientIds,           \* values of client_order_id
    StrategyNames,       \* values of strategy.name
    Tickers,             \* tickers a request may name ...
    Listed,              \* ... and those with a row in symbols
    OtherIds,            \* row ids that other users of the connection may insert
    MaxSignals           \* bound: no signal is requested beyond so many

Forms == {"legal", "illegal", "malformed"}

\* "malformed" misses a required field or is no JSON; "illegal" is stopped by a
\* CHECK of the schema or by the conversion of a field.
OrderRequests ==
    [op: {"CreateOrder"}, form: Forms, client: ClientIds, ticker: Tickers,
     strategy: StrategyNames \cup {None}]
SignalRequests ==
    [op: {"CreateSignal"}, form: Forms, ticker: Tickers, strategy: StrategyNames]
StrategyRequests == [op: {"CreateStrategy"}, form: Forms, name: StrategyNames]
IdRequests == [op: {"CancelOrder", "UpdateStrategy"}, form: Forms, id: Nat \ {0}]

ASSUME StoreAssumption ==
    /\ Listed \subseteq Tickers
    /\ Requests \subseteq OrderRequests \cup SignalRequests \cup StrategyRequests \cup IdRequests
    /\ None \notin Workers \cup ClientIds \cup StrategyNames
    /\ OtherIds \subseteq Nat \ {0}
    /\ MaxSignals \in Nat

VARIABLES
    orders,       \* table orders
    strategies,   \* table strategy: the names
    signals,      \* table signal: the strategy of each
    at,           \* the next statement of each worker, "idle" between requests
    req,          \* the request it works on, or None
    found,        \* the strategy_id it has looked up
    row,          \* history: the row its request inserted
    seen,         \* history: how many strategies there were when its request came in
    answer,       \* the response of the latest step, or None: request, code and id, and
                  \* (history) the row it stands for, whether the id is an own one, and, with a 201, seen
    told,         \* history: the client ids whose order was answered with 201
    cut           \* history: the client ids whose request a restart cut off

storeVars == <<orders, strategies, signals, at, req, found, row, seen, answer, told, cut>>

\* A faulty SQLiteDB asks for the row id with a query, which may fail like any other.
StatementsAndRowid == {"symbol", "strategy", "insert", "check", "update", "rowid"}
Statements == {"symbol", "strategy", "insert", "check", "update"}
\* "Refused" and "Failed" are both what error_response sends; they tell a request
\* that cannot succeed from a statement that failed.
Codes == {"Created", "Refused", "NotFound", "Failed"}
Answers == [req: Requests, code: Codes, id: Nat, row: Nat, own: BOOLEAN, seen: Nat]

StoreInit ==
    /\ orders = <<>> /\ strategies = <<>> /\ signals = <<>>
    /\ at = [t \in Workers |-> "idle"]
    /\ req = [t \in Workers |-> None]
    /\ found = [t \in Workers |-> 0]
    /\ row = [t \in Workers |-> 0]
    /\ seen = [t \in Workers |-> 0]
    /\ answer = None
    /\ told = {} /\ cut = {}
    /\ last = NoInsert

tables == <<orders, strategies, signals>>

-----------------------------------------------------------------------------
(* Steps common to the handlers. *)

Goto(t, statement) ==
    /\ at' = [at EXCEPT ![t] = statement]
    /\ answer' = None
    /\ UNCHANGED <<req, row, seen, told, cut>>

Finish(t) ==
    /\ at' = [at EXCEPT ![t] = "idle"]
    /\ req' = [req EXCEPT ![t] = None]
    /\ found' = [found EXCEPT ![t] = 0]
    /\ row' = [row EXCEPT ![t] = 0]
    /\ seen' = [seen EXCEPT ![t] = 0]

\* A response without an id: error_response and not_found_response.
Answer(t, code) ==
    /\ Finish(t)
    /\ answer' = [req |-> req[t], code |-> code, id |-> 0, row |-> row[t], own |-> FALSE,
                  seen |-> 0]
    /\ UNCHANGED <<told, cut>>

FirstStatement(r) ==
    CASE r.op = "CreateOrder" -> "symbol"
      [] r.op = "CreateSignal" -> "strategy"
      [] r.op = "CreateStrategy" -> "insert"
      [] OTHER -> "check"

\* update_strategy parses its body after it has looked for the strategy; the
\* other handlers start with it, and cancel_order has none.
Starts(r) == r.form # "malformed" \/ r.op \in {"CancelOrder", "UpdateStrategy"}

Receive(t, r) ==
    /\ at[t] = "idle" /\ Starts(r)
    /\ r.op = "CreateSignal" => Len(signals) < MaxSignals
    /\ req' = [req EXCEPT ![t] = r]
    /\ at' = [at EXCEPT ![t] = FirstStatement(r)]
    /\ seen' = [seen EXCEPT ![t] = Len(strategies)]
    /\ answer' = None
    /\ UNCHANGED <<tables, last, found, row, told, cut>>

Reject(t, r) ==
    /\ at[t] = "idle" /\ ~Starts(r)
    /\ answer' = [req |-> r, code |-> "Refused", id |-> 0, row |-> 0, own |-> FALSE,
                  seen |-> 0]
    /\ UNCHANGED <<tables, last, at, req, found, row, seen, told, cut>>

\* SQLiteDB throws when a statement fails, and each handler catches.
StatementFails(t) ==
    /\ StatementsMayFail
    /\ at[t] \in Statements
    /\ Answer(t, "Failed")
    /\ UNCHANGED <<tables, last>>

\* SELECT symbol_id FROM symbols WHERE ticker = ?
LookUpSymbol(t) ==
    /\ at[t] = "symbol"
    /\ IF req[t].ticker \notin Listed THEN Answer(t, "Refused")
       ELSE /\ Goto(t, IF req[t].op = "CreateOrder" /\ req[t].strategy # None
                       THEN "strategy" ELSE "insert")
            /\ UNCHANGED found
    /\ UNCHANGED <<tables, last>>

\* A faulty lookup matches names as the filter of get_strategies does.
AnyNamed(name) == DOMAIN strategies
Named(name) == {i \in DOMAIN strategies : strategies[i] = name}

\* The one row of that name, or NULL.
RowOrNull(rows) == IF rows = {} THEN 0 ELSE CHOOSE i \in rows : TRUE

\* An order is taken without a strategy when there is none of that name ...
LookUpOrderStrategy(t) ==
    /\ at[t] = "strategy" /\ req[t].op = "CreateOrder"
    /\ found' = [found EXCEPT ![t] = RowOrNull(Named(req[t].strategy))]
    /\ Goto(t, "insert")
    /\ UNCHANGED <<tables, last>>

\* ... and a signal is refused.
LookUpSignalStrategy(t) ==
    /\ at[t] = "strategy" /\ req[t].op = "CreateSignal"
    /\ \/ /\ Named(req[t].strategy) = {}
          /\ Answer(t, "Refused")
       \/ \E i \in Named(req[t].strategy) :
            /\ found' = [found EXCEPT ![t] = i]
            /\ Goto(t, "symbol")
    /\ UNCHANGED <<tables, last>>

\* A faulty schema lets a client_order_id come twice.
AnyClientId(c) == TRUE

\* The UNIQUE constraints of the schema.
ClientIdFree(c) == \A i \in DOMAIN orders : orders[i].client # c
NameFree(name) == Named(name) = {}

Inserted(t, id) ==
    /\ at' = [at EXCEPT ![t] = "rowid"]
    /\ row' = [row EXCEPT ![t] = id]
    /\ Inserts(t, id)
    /\ answer' = None
    /\ UNCHANGED <<req, found, seen, told, cut>>

InsertOrder(t) ==
    /\ at[t] = "insert" /\ req[t].op = "CreateOrder"
    /\ req[t].form = "legal" /\ ClientIdFree(req[t].client)
    /\ orders' = Append(orders,
                    [client |-> req[t].client, strategy |-> found[t], status |-> "NEW"])
    /\ Inserted(t, Len(orders'))
    /\ UNCHANGED <<strategies, signals>>

InsertSignal(t) ==
    /\ at[t] = "insert" /\ req[t].op = "CreateSignal"
    /\ req[t].form = "legal"
    /\ signals' = Append(signals, found[t])
    /\ Inserted(t, Len(signals'))
    /\ UNCHANGED <<orders, strategies>>

InsertStrategy(t) ==
    /\ at[t] = "insert" /\ req[t].op = "CreateStrategy"
    /\ req[t].form = "legal" /\ NameFree(req[t].name)
    /\ strategies' = Append(strategies, req[t].name)
    /\ Inserted(t, Len(strategies'))
    /\ UNCHANGED <<orders, signals>>

ConstraintFails(t) ==
    /\ at[t] = "insert"
    /\ \/ req[t].form # "legal"
       \/ req[t].op = "CreateOrder" /\ ~ClientIdFree(req[t].client)
       \/ req[t].op = "CreateStrategy" /\ ~NameFree(req[t].name)
    /\ Answer(t, "Refused")
    /\ UNCHANGED <<tables, last>>

\* A faulty handler takes the number of orders for the id, whatever it inserted.
RespondWithCount(t) ==
    /\ at[t] = "rowid"
    /\ Finish(t)
    /\ answer' = [req |-> req[t], code |-> "Created", id |-> Len(orders), row |-> row[t],
                   own |-> last.by = t, seen |-> seen[t]]
    /\ told' = told \cup (IF req[t].op = "CreateOrder" THEN {req[t].client} ELSE {})
    /\ UNCHANGED <<tables, last, cut>>

\* last_insert_rowid belongs to the connection, not to the statement.
Respond(t) ==
    /\ at[t] = "rowid"
    /\ Finish(t)
    /\ answer' = [req |-> req[t], code |-> "Created", id |-> last.id, row |-> row[t],
                   own |-> last.by = t, seen |-> seen[t]]
    /\ told' = told \cup (IF req[t].op = "CreateOrder" THEN {req[t].client} ELSE {})
    /\ UNCHANGED <<tables, last, cut>>

Cancellable == {"NEW", "PARTIALLY_FILLED"}

CheckOrder(t) ==
    /\ at[t] = "check" /\ req[t].op = "CancelOrder"
    /\ IF req[t].id \notin DOMAIN orders THEN Answer(t, "NotFound")
       ELSE IF orders[req[t].id].status \notin Cancellable THEN Answer(t, "Refused")
       ELSE Goto(t, "update") /\ UNCHANGED found
    /\ UNCHANGED <<tables, last>>

CheckStrategy(t) ==
    /\ at[t] = "check" /\ req[t].op = "UpdateStrategy"
    /\ \/ /\ req[t].id \notin DOMAIN strategies
          /\ Answer(t, "NotFound")
       \/ /\ req[t].id \in DOMAIN strategies /\ req[t].form = "malformed"
          /\ Answer(t, "Refused")
       \/ /\ req[t].id \in DOMAIN strategies /\ req[t].form # "malformed"
          /\ Goto(t, "update") /\ UNCHANGED found
    /\ UNCHANGED <<tables, last>>

\* Both UPDATEs call SYSUTCDATETIME, a function of another database that SQLite
\* does not have: they fail when they are prepared, whatever the row.
Update(t) ==
    /\ at[t] = "update"
    /\ Answer(t, "Failed")
    /\ UNCHANGED <<tables, last>>

WorkerStep(t) ==
    \/ \E r \in Requests : Receive(t, r) \/ Reject(t, r)
    \/ StatementFails(t)
    \/ LookUpSymbol(t) \/ LookUpOrderStrategy(t) \/ LookUpSignalStrategy(t)
    \/ InsertOrder(t) \/ InsertSignal(t) \/ InsertStrategy(t) \/ ConstraintFails(t)
    \/ Respond(t)
    \/ CheckOrder(t) \/ CheckStrategy(t) \/ Update(t)

InFlight(t, i) == at[t] = "rowid" /\ req[t].op = "CreateOrder" /\ row[t] = i

\* The process ends and starts again: the tables stay, the connection is new and
\* no client is answered.
StoreRestart ==
    /\ at' = [t \in Workers |-> "idle"]
    /\ req' = [t \in Workers |-> None]
    /\ found' = [t \in Workers |-> 0]
    /\ row' = [t \in Workers |-> 0]
    /\ seen' = [t \in Workers |-> 0]
    /\ answer' = None
    /\ cut' = cut \cup {orders[i].client : i \in {j \in DOMAIN orders : \E t \in Workers : InFlight(t, j)}}
    /\ last' = NoInsert
    /\ UNCHANGED <<tables, told>>

\* The connection has other users, of whom the store sees only their inserts.
OtherInsert ==
    /\ \E id \in OtherIds : Inserts(None, id)
    /\ UNCHANGED storeVars

StoreNext == (\E t \in Workers : WorkerStep(t)) \/ StoreRestart \/ OtherInsert

StoreSpec == StoreInit /\ [][StoreNext]_<<storeVars, last>>

-----------------------------------------------------------------------------
(* Properties. *)

OrderRows == [client: ClientIds, strategy: 0..Len(strategies), status: {"NEW"}]

(* Types of the store's state; strategy keys point to rows, and the columns of a *)
(* request in progress are those of its kind.                                    *)
StoreTypeOK ==
    /\ strategies \in Seq(StrategyNames)
    /\ orders \in Seq(OrderRows)
    /\ signals \in Seq(1..Len(strategies))
    /\ last \in [id: Nat, by: Workers \cup {None}]
    /\ at \in [Workers -> Statements \cup {"idle", "rowid"}]
    /\ req \in [Workers -> Requests \cup {None}]
    /\ found \in [Workers -> 0..Len(strategies)]
    /\ row \in [Workers -> Nat]
    /\ seen \in [Workers -> 0..Len(strategies)]
    /\ answer \in Answers \cup {None}
    /\ told \subseteq ClientIds /\ cut \subseteq ClientIds

\* No strategy of that name was among the first n.
NoneAmong(name, n) == \A j \in 1..n : strategies[j] # name

\* Row i, inserted for request r, says what r asked for; an order hangs on no strategy
\* only if it named none, or none that was among the n when it came in.
RowMatches(r, i, n) ==
    CASE r.op = "CreateOrder" ->
            /\ i \in DOMAIN orders
            /\ orders[i].client = r.client
            /\ IF orders[i].strategy = 0 THEN NoneAmong(r.strategy, n)
               ELSE strategies[orders[i].strategy] = r.strategy
      [] r.op = "CreateSignal" ->
            /\ i \in DOMAIN signals
            /\ strategies[signals[i]] = r.strategy
      [] r.op = "CreateStrategy" ->
            /\ i \in DOMAIN strategies
            /\ strategies[i] = r.name
      [] OTHER -> FALSE

(* api_router.cpp:1060-1067, :750-755, :1326-1331: a 201 stands for one row that  *)
(* holds what was asked for and hangs on the strategy that was named, though     *)
(* strategy and symbol were looked up in statements of their own; any other      *)
(* answer stands for no row.  An order that names a strategy nobody has created   *)
(* is taken without one (:981-1013), but not if the strategy was there when the   *)
(* order came in: whoever was told that it was created can name it.               *)
AnswersMatchTables ==
    answer # None =>
        IF answer.code = "Created" THEN RowMatches(answer.req, answer.row, answer.seen)
        ELSE answer.row = 0

(* api_router.cpp:1056-1067 with bootstrap.sql:157: whichever threads compete for *)
(* a client_order_id, and however often it is sent again, one of them is told    *)
(* that the order was created.                                                   *)
CreatedOnce ==
    [][\A t \in Workers : Respond(t) /\ req[t].op = "CreateOrder" =>
            req[t].client \notin told]_storeVars

(* Each order in the table was answered with 201, or is about to be, or belongs  *)
(* to a request that a restart cut off: no error answer leaves an order behind.  *)
OrdersAreAnsweredFor ==
    /\ \A i \in DOMAIN orders :
        orders[i].client \in told \cup cut \/ \E t \in Workers : InFlight(t, i)
    /\ \A c \in told \cup cut : \E i \in DOMAIN orders : orders[i].client = c

(* last_insert_rowid is right for a request unless another thread inserted on    *)
(* the shared connection between the request's insert and its question.          *)
OwnIdUnlessOvertaken == answer # None /\ answer.own => answer.id = answer.row

(* api_router.cpp:1058-1062 answers "order_id" with the row id it has read: that *)
(* of the order the request created.                                             *)
AnsweredIdIsTheOrders ==
    answer # None /\ answer.code = "Created" /\ answer.req.op = "CreateOrder" =>
        answer.id = answer.row

(* api_router.cpp:1079-1104 "Check if order exists and can be cancelled": when    *)
(* no statement is failed by the disk, one that passed the check is cancelled.   *)
CancellableOrdersAreCancelled ==
    answer # None /\ ~StatementsMayFail /\ answer.code = "Failed" =>
        answer.req.op # "CancelOrder"
=============================================================================
