----------------------------- MODULE StoreReads -----------------------------
(***************************************************************************)
(* The reading half of IO-Server's REST API: the lists, which a client     *)
(* turns page by page, the lookups of one row, and the two calculations    *)
(* over stored bars.                                                       *)
(*                                                                         *)
(* SQLiteDB::query fetches one row per sqlite3_step and holds no lock over  *)
(* the loop, so other threads insert between two rows of one result.  When  *)
(* the planner sorts, the first step has read the table; when it follows an *)
(* index, the cursor meets what is inserted ahead of it.                    *)
(*                                                                         *)
(* One table is read by one client.  Rows are never deleted: the table is a *)
(* sequence, and a row's id is its position.                               *)
(***************************************************************************)
EXTENDS Integers, Sequences, FiniteSets, SequencesExt

CONSTANTS
    Requests,            \* what the client may ask for
    Times,               \* values of the column a list is ordered by
    MaxRows,             \* bound of the table ...
    MaxBarsOfTwo,        \* ... and, for correlations, of the bars of both symbols together
    StatementsMayFail

\* group 1 passes the filters of a list or belongs to a calculation's first symbol.
Rows == [time: Times, group: {1, 2}, close: {0, 1}]

Listing(ascending, limit) == [kind |-> "page", ascending |-> ascending, limit |-> limit]
NoLimit == MaxRows + 1

\* The lists, by the order of their rows; filters and joins only choose the rows.
get_symbols(limit) == Listing(TRUE, limit)                \* by ticker
get_strategies(limit) == Listing(TRUE, limit)             \* by name
get_ohlcv(order_dir, limit) == Listing(order_dir = "ASC", limit)
get_orderbook(limit) == Listing(FALSE, limit)             \* by snapshot_time
get_orders(limit) == Listing(FALSE, limit)                \* by submitted_at
get_signals(limit) == Listing(FALSE, limit)               \* by signal_time
get_positions(limit) == Listing(FALSE, limit)             \* by opened_at
get_positions_by_strategy == Listing(FALSE, NoLimit)
get_performance(limit) == Listing(FALSE, limit)           \* by date
get_strategy_performance(limit) == Listing(FALSE, limit)
get_orderbook_snapshot == Listing(TRUE, NoLimit)          \* by level; none is a 404
get_orders_by_client_id == Listing(TRUE, NoLimit)         \* none is a 404

\* The first row of a result, or a 404: of a unique key, or the latest bar.
Lookup(limit) == [kind |-> "row", ascending |-> FALSE, limit |-> limit]
ByKey == Lookup(NoLimit)
get_symbol == ByKey
get_strategy == ByKey
get_order == ByKey
get_signal == ByKey
get_position == ByKey
get_latest_ohlcv == Lookup(1)

\* Fetched for one bar more than the window than are asked for: rows, oldest first.
\* Faulty: the rows of the first window are forgotten.
WithoutWindow(window, limit) == limit
WithWindow(window, limit) == limit + window

Calculation(kind, window, points) ==
    [kind |-> kind, ascending |-> TRUE, limit |-> WithWindow(window, points),
     window |-> window, points |-> points]

rca(window, points) == Calculation("rca", window, points)
mca(window, points) == Calculation("mca", window, points)

ASSUME ReadsAssumption ==
    /\ Times \subseteq Nat
    /\ MaxRows \in Nat /\ MaxBarsOfTwo \in Nat
    /\ \A r \in Requests :
        /\ r.limit \in Nat \ {0}
        /\ \/ r.kind = "page" /\ r.ascending \in BOOLEAN /\ r = Listing(r.ascending, r.limit)
           \/ r \in {ByKey, get_latest_ohlcv}
           \/ /\ r.kind \in {"rca", "mca"} /\ r.window \in Nat \ {0} /\ r.points \in Nat \ {0}
              /\ r = Calculation(r.kind, r.window, r.points)

VARIABLES
    rows,       \* the table
    request,    \* what the client asks for
    plan,       \* how SQLite runs the statement: sorted or not, and the order of equal keys
    at,         \* "idle" between statements, "stepping" within one, "done"
    offset,     \* the offset of the statement
    base,       \* rows in the table when the statement took its first step
    page,       \* the ids fetched by the statement
    got,        \* what the client has been answered with
    series,     \* what a calculation has from its statements before
    first       \* history: the rows the client is owed

readVars == <<rows, request, plan, at, offset, base, page, got, series, first>>

ReadsInit ==
    /\ rows = <<>>
    /\ request \in Requests
    /\ plan \in [sorted: BOOLEAN, ties: {"up", "down"}]
    /\ at = "idle"
    /\ offset = 0 /\ base = 0 /\ page = <<>>
    /\ got = {} /\ series = <<>> /\ first = {}

-----------------------------------------------------------------------------
(* A statement. *)

IsPage == request.kind = "page"

\* Row i comes before row j in the result.
Before(i, j) ==
    IF rows[i].time = rows[j].time THEN (IF plan.ties = "up" THEN i < j ELSE i > j)
    ELSE IF request.ascending THEN rows[i].time < rows[j].time
    ELSE rows[i].time > rows[j].time

\* The second statement of mca is for the other symbol.
Group == Len(series) + 1
Chosen == {i \in DOMAIN rows : rows[i].group = Group}

Starting == at = "idle"

Visible == IF plan.sorted /\ ~Starting THEN {i \in Chosen : i <= base} ELSE Chosen

\* What the cursor has not passed, and how many of them it passes over.
Ahead == IF page = <<>> THEN Visible ELSE {i \in Visible : Before(Last(page), i)}

\* Faulty: limit and offset are bound in the wrong order.
SkippedLimit == IF Starting /\ IsPage THEN request.limit ELSE 0
Skipped == IF Starting /\ IsPage THEN offset ELSE 0

IsNext(i) == Cardinality({j \in Ahead : Before(j, i)}) = Skipped

\* A page is owed what was in the table when the client asked for the first one, and
\* a calculation what was there when it began.
Owed == IF Starting /\ offset = 0 /\ series = <<>> THEN Chosen ELSE first

Fetch(i) ==
    /\ at \in {"idle", "stepping"}
    /\ Len(page) < request.limit
    /\ i \in Ahead /\ IsNext(i)
    /\ page' = Append(page, i)
    /\ at' = "stepping"
    /\ base' = IF Starting THEN Len(rows) ELSE base
    /\ first' = Owed
    /\ UNCHANGED <<rows, request, plan, offset, got, series>>

NothingToFetch == Len(page) = request.limit \/ \A i \in Ahead : ~IsNext(i)

\* The client asks for the next page until one is not full.
PageEnds ==
    /\ at \in {"idle", "stepping"} /\ IsPage
    /\ NothingToFetch
    /\ got' = got \cup ToSet(page)
    /\ offset' = offset + Len(page)
    /\ at' = IF Len(page) < request.limit THEN "done" ELSE "idle"
    /\ page' = <<>>
    /\ first' = Owed
    /\ UNCHANGED <<rows, request, plan, base, series>>

RowEnds ==
    /\ at \in {"idle", "stepping"} /\ request.kind = "row"
    /\ NothingToFetch
    /\ got' = {page[n] : n \in DOMAIN page \cap {1}}
    /\ at' = "done"
    /\ page' = <<>>
    /\ first' = Owed
    /\ UNCHANGED <<rows, request, plan, offset, base, series>>

IsCalculation == request.kind \in {"rca", "mca"}

SeriesEnds ==
    /\ at \in {"idle", "stepping"} /\ IsCalculation
    /\ NothingToFetch
    /\ series' = Append(series, page)
    /\ at' = IF request.kind = "mca" /\ series = <<>> THEN "idle" ELSE "done"
    /\ page' = <<>>
    /\ first' = Owed
    /\ UNCHANGED <<rows, request, plan, offset, base, got>>

\* query throws, the client is told so and asks again.
QueryFails ==
    /\ StatementsMayFail
    /\ at \in {"idle", "stepping"}
    /\ at' = "idle" /\ page' = <<>> /\ series' = <<>>
    /\ UNCHANGED <<rows, request, plan, offset, base, got, first>>

\* Other threads insert: orders with any submitted_at, and bars as time goes on.
Insert(row) ==
    /\ at # "done"
    /\ Len(rows) < IF request.kind = "mca" THEN MaxBarsOfTwo ELSE MaxRows
    /\ request = ByKey /\ row.group = 1 => Chosen = {}
    /\ \A i \in DOMAIN rows : IsCalculation /\ rows[i].group = row.group => rows[i].time < row.time
    /\ request.kind # "rca" => row.close = 1
    /\ request.kind = "rca" => row.group = 1
    /\ rows' = Append(rows, row)
    /\ UNCHANGED <<request, plan, at, offset, base, page, got, series, first>>

-----------------------------------------------------------------------------
(* What the calculations make of the rows. *)

TimeOf(i) == rows[i].time

\* RCAHandler: the times a rate is given for, each with the time it looks back to.
Candles == series[1]
Rates ==
    {<<TimeOf(Candles[i]), TimeOf(Candles[i - request.window])>> :
        i \in {n \in request.window + 1 .. Len(Candles) :
                /\ n <= request.window + request.points
                /\ rows[Candles[n - request.window]].close # 0}}

\* MCAHandler: the bars of both symbols are put side by side by time.
\* Faulty: the bar after one that only the first symbol has is passed over.
PassesOver ==
    LET second == {TimeOf(series[2][i]) : i \in DOMAIN series[2]}
        Kept == {i \in DOMAIN series[1] : i > 1 => TimeOf(series[1][i - 1]) \in second}
    IN  {TimeOf(series[1][i]) : i \in Kept} \cap second
SharedTimes == {TimeOf(series[1][i]) : i \in DOMAIN series[1]}
                   \cap {TimeOf(series[2][i]) : i \in DOMAIN series[2]}
Aligned ==
    CHOOSE s \in [1 .. Cardinality(SharedTimes) -> SharedTimes] :
        \A i, j \in DOMAIN s : i < j => s[i] < s[j]

Correlations ==
    [n \in {i \in request.window .. Len(Aligned) : i < request.window + request.points} |->
        SubSeq(Aligned, n - request.window + 1, n)]

ReadsNext ==
    \/ \E row \in Rows : Insert(row)
    \/ \E i \in DOMAIN rows : Fetch(i)
    \/ PageEnds \/ RowEnds \/ SeriesEnds
    \/ QueryFails

ReadsSpec == ReadsInit /\ [][ReadsNext]_readVars

-----------------------------------------------------------------------------
(* Properties. *)

(* api_router.cpp:842-890 and its likes: a client that turns the pages until one  *)
(* is not full has every row that was there when it began, whatever is inserted  *)
(* between two pages or two rows of a page; it may have some of them twice.  A    *)
(* lookup is answered with 404 only when there was no such row, and the latest    *)
(* bar (472-515) is none that was replaced before the statement began.            *)
ReadsMissNothing ==
    at = "done" /\ ~IsCalculation =>
        \A i \in first :
            \/ i \in got
            \/ request = get_latest_ohlcv /\ \E j \in got : rows[i].time <= rows[j].time

(* rca_handler.cpp:38-82: each rate looks back over `window` bars of the table.    *)
(* Every bar that was there has one, but for the first `window` of them, those    *)
(* that more than `window` + `limit` - 1 precede, and those whose close `window`  *)
(* bars before is 0 (91).                                                         *)
RatesLookBackAWindow ==
    at = "done" /\ request.kind = "rca" =>
        /\ \A r \in Rates :
            Cardinality({i \in DOMAIN rows : r[2] <= TimeOf(i) /\ TimeOf(i) < r[1]}) = request.window
        /\ \A i \in first :
            LET earlier == {j \in DOMAIN rows : TimeOf(j) < TimeOf(i)}
            IN  /\ Cardinality(earlier) \in request.window .. request.window + request.points - 1
                /\ \A j \in earlier :
                    Cardinality({k \in earlier : TimeOf(j) <= TimeOf(k)}) = request.window
                        => rows[j].close # 0
                => \E r \in Rates : r[1] = TimeOf(i)

(* mca_handler.cpp:76-130: the two symbols are read one after the other while     *)
(* bars arrive, and still each correlation is over `window` bars in a row that    *)
(* both symbols have: no bar that only one of them has is in it, and none they     *)
(* share is left out between two that are taken.                                  *)
CorrelationsHaveNoHoles ==
    at = "done" /\ request.kind = "mca" =>
        \A n \in DOMAIN Correlations :
            LET window == Correlations[n]
                Shared == {TimeOf(i) : i \in {k \in DOMAIN rows : rows[k].group = 1}}
                              \cap {TimeOf(j) : j \in {k \in DOMAIN rows : rows[k].group = 2}}
            IN  ToSet(window) = {t \in Shared : window[1] <= t /\ t <= Last(window)}
=============================================================================
