--------------------------- MODULE MessageIngest ---------------------------
(***************************************************************************)
(* The RedisSubscriber of IO-Server: one detached thread that subscribes   *)
(* to Redis channels, keeps every message in raw_messages, and stores it   *)
(* in the table of its channel.  For a trade it then marks the raw row as  *)
(* processed.  The statements of one message are not one transaction, each *)
(* may fail, and the process may end between two.                          *)
(*                                                                         *)
(* The connection is that of OrderStore: an insert here changes what       *)
(* last_insert_rowid returns there.                                        *)
(***************************************************************************)
EXTENDS Connection, Sequences, FiniteSets, Functions

CONSTANTS
    Messages,            \* what Redis delivers: a channel and a text
    Wellformed,          \* the messages whose text parses
    MaxDeliveries        \* bound: messages delivered in a behaviour

\* In the order in which the subscriber names them.
ChannelList == <<"trades", "orderbook", "tickers">>
Channels == Range(ChannelList)

ASSUME IngestAssumption ==
    /\ \A m \in Messages : m.channel \in Channels
    /\ Wellformed \subseteq Messages
    /\ None \notin Messages
    /\ MaxDeliveries \in Nat

VARIABLES
    raw,          \* table raw_messages
    typed,        \* tables trades, orderbook_updates, ticker_updates, by channel
    stage,        \* what the thread does next
    current,      \* the message it works on, or worked on last
    subscribed,   \* how many channels it has subscribed to since it started
    delivered,    \* history: how often each message was taken from Redis
    unlogged,     \* history: how often its first raw row was not inserted
    again,        \* history: how many raw rows of it the fallback inserted
    troubled      \* history: how often, since it was marked last, its storing or marking
                  \* failed or was cut off

ingestVars ==
    <<raw, typed, stage, current, subscribed, delivered, unlogged, again, troubled>>

Stages == {"connecting", "waiting", "audit", "store", "mark", "fallback", "gone"}

Zero == [m \in Messages |-> 0]

IngestInit ==
    /\ raw = <<>>
    /\ typed = [ch \in Channels |-> <<>>]
    /\ stage = "connecting"
    /\ current = None
    /\ subscribed = 0
    /\ delivered = Zero /\ unlogged = Zero /\ again = Zero
    /\ troubled = Zero
    /\ last = NoInsert

Deliveries == FoldFunction(+, 0, delivered)

\* 1 for the message the thread works on, when it is at one of these stages.
InHand(m, stages) == IF stage \in stages /\ current = m THEN 1 ELSE 0

-----------------------------------------------------------------------------
(* connect() sends one SUBSCRIBE per channel and reads one reply to each.  *)

Subscribing ==
    /\ stage = "connecting"
    /\ subscribed' = subscribed + 1
    /\ stage' = IF subscribed' = Len(ChannelList) THEN "waiting" ELSE "connecting"
    /\ UNCHANGED <<raw, typed, last, current, again, troubled>>

\* The reply is the confirmation of Redis.
SubscribeChannel == Subscribing /\ UNCHANGED <<delivered, unlogged>>

\* The reply is a message of a channel subscribed to before: it is freed unread, and
\* the confirmation that follows is only logged by run().
Swallow(m) ==
    /\ Subscribing
    /\ \E i \in 1..subscribed : ChannelList[i] = m.channel
    /\ Deliveries < MaxDeliveries
    /\ delivered' = [delivered EXCEPT ![m] = @ + 1]
    /\ unlogged' = [unlogged EXCEPT ![m] = @ + 1]

\* Redis is not there, or a SUBSCRIBE gets no reply: the thread returns.
ConnectFails ==
    /\ stage = "connecting"
    /\ stage' = "gone"
    /\ UNCHANGED <<raw, typed, last, current, subscribed, delivered, unlogged, again, troubled>>

\* A faulty subscriber stores ticker updates without their raw row.
TakeUnaudited(m) ==
    /\ stage = "waiting"
    /\ Deliveries < MaxDeliveries
    /\ stage' = IF m.channel = "tickers" THEN "store" ELSE "audit"
    /\ current' = m
    /\ delivered' = [delivered EXCEPT ![m] = @ + 1]
    /\ UNCHANGED <<raw, typed, last, subscribed, unlogged, again, troubled>>

(* redisGetReply returns a message of a subscribed channel. *)
Take(m) ==
    /\ stage = "waiting"
    /\ Deliveries < MaxDeliveries
    /\ stage' = "audit"
    /\ current' = m
    /\ delivered' = [delivered EXCEPT ![m] = @ + 1]
    /\ UNCHANGED <<raw, typed, last, subscribed, unlogged, again, troubled>>

\* redisGetReply fails: run() leaves its loop and the thread ends for good.
Disconnect ==
    /\ stage = "waiting"
    /\ stage' = "gone"
    /\ UNCHANGED <<raw, typed, last, current, subscribed, delivered, unlogged, again, troubled>>

\* None: whoever it is, it is no worker of OrderStore.
Insert(table) == Inserts(None, Len(table))

RawRow == [message |-> current, processed |-> FALSE]

\* After storeRawMessage, which swallows its errors, the message is routed by
\* its channel; what does not parse is stored raw a second time.
AfterAudit == IF current \in Wellformed THEN "store" ELSE "fallback"

Audit ==
    /\ stage = "audit"
    /\ raw' = Append(raw, RawRow)
    /\ Insert(raw')
    /\ stage' = AfterAudit
    /\ UNCHANGED <<typed, current, subscribed, delivered, unlogged, again, troubled>>

AuditFails ==
    /\ StatementsMayFail
    /\ stage = "audit"
    /\ stage' = AfterAudit
    /\ unlogged' = [unlogged EXCEPT ![current] = @ + 1]
    /\ UNCHANGED <<raw, typed, last, current, subscribed, delivered, again, troubled>>

\* Only storeTrade goes on to mark the raw row.
AfterStore == IF current.channel = "trades" THEN "mark" ELSE "waiting"

Store ==
    /\ stage = "store"
    /\ typed' = [typed EXCEPT ![current.channel] = Append(@, current)]
    /\ Insert(typed'[current.channel])
    /\ stage' = AfterStore
    /\ UNCHANGED <<raw, current, subscribed, delivered, unlogged, again, troubled>>

\* UPDATE raw_messages SET processed = 1 WHERE message = ? AND channel = ?: all
\* rows with that text, not the one of this delivery.
Marked(r) == IF r.message = current THEN [r EXCEPT !.processed = TRUE] ELSE r

Mark ==
    /\ stage = "mark"
    /\ raw' = [i \in DOMAIN raw |-> Marked(raw[i])]
    /\ stage' = "waiting"
    /\ troubled' = [troubled EXCEPT ![current] = 0]
    /\ UNCHANGED <<typed, last, current, subscribed, delivered, unlogged, again>>

\* A faulty storeTrade logs that the insert failed, and goes on.
StoreFailsOnwards ==
    /\ StatementsMayFail
    /\ stage \in {"store", "mark"}
    /\ stage' = IF stage = "store" THEN "mark" ELSE "fallback"
    /\ troubled' = [troubled EXCEPT ![current] = @ + 1]
    /\ UNCHANGED <<raw, typed, last, current, subscribed, delivered, unlogged, again>>

\* One catch for the insert and the mark.
StoreFails ==
    /\ StatementsMayFail
    /\ stage \in {"store", "mark"}
    /\ stage' = "fallback"
    /\ troubled' = [troubled EXCEPT ![current] = @ + 1]
    /\ UNCHANGED <<raw, typed, last, current, subscribed, delivered, unlogged, again>>

\* A faulty fallback tries to store once more.
FallbackAndRetry ==
    /\ stage = "fallback"
    /\ raw' = Append(raw, RawRow)
    /\ Insert(raw')
    /\ stage' = IF current \in Wellformed THEN "store" ELSE "waiting"
    /\ again' = [again EXCEPT ![current] = @ + 1]
    /\ UNCHANGED <<typed, current, subscribed, delivered, unlogged, troubled>>

Fallback ==
    /\ stage = "fallback"
    /\ raw' = Append(raw, RawRow)
    /\ Insert(raw')
    /\ stage' = "waiting"
    /\ again' = [again EXCEPT ![current] = @ + 1]
    /\ UNCHANGED <<typed, current, subscribed, delivered, unlogged, troubled>>

FallbackFails ==
    /\ StatementsMayFail
    /\ stage = "fallback"
    /\ stage' = "waiting"
    /\ UNCHANGED <<raw, typed, last, current, subscribed, delivered, unlogged, again, troubled>>

IngestStep ==
    \/ SubscribeChannel \/ ConnectFails
    \/ \E m \in Messages : Swallow(m) \/ Take(m)
    \/ Disconnect
    \/ Audit \/ AuditFails
    \/ Store \/ Mark \/ StoreFails
    \/ Fallback \/ FallbackFails

Busy == stage \in {"audit", "store", "mark", "fallback"}

\* The process ends and starts again.  Redis keeps nothing for a subscriber that
\* is away, so the message in hand is not delivered again.
IngestRestart ==
    /\ stage' = "connecting"
    /\ current' = None
    /\ subscribed' = 0
    /\ unlogged' = [m \in Messages |-> unlogged[m] + InHand(m, {"audit"})]
    /\ troubled' = [m \in Messages |-> troubled[m] + InHand(m, {"store", "mark"})]
    /\ last' = NoInsert
    /\ UNCHANGED <<raw, typed, delivered, again>>

\* As in OrderStore, others use the connection at any time.
IngestSpec == IngestInit /\ [][IngestStep \/ IngestRestart]_ingestVars

-----------------------------------------------------------------------------
(* Properties. *)

(* Types of the subscriber's state; a table holds messages of its own channel. *)
IngestTypeOK ==
    /\ raw \in Seq([message: Messages, processed: BOOLEAN])
    /\ typed \in [Channels -> Seq(Wellformed)]
    /\ stage \in Stages
    /\ current \in Messages \cup {None}
    /\ Busy => current # None
    /\ subscribed \in 0..Len(ChannelList)
    /\ stage # "gone" => (stage = "connecting" <=> subscribed < Len(ChannelList))
    /\ delivered \in [Messages -> Nat]
    /\ unlogged \in [Messages -> Nat]
    /\ again \in [Messages -> Nat]
    /\ troubled \in [Messages -> Nat]

RawRows(m) == {i \in DOMAIN raw : raw[i].message = m}
TypedRows(m) == {i \in DOMAIN typed[m.channel] : typed[m.channel][i] = m}
UnmarkedRows(m) == {i \in RawRows(m) : ~raw[i].processed}

\* A raw row is marked only when the trade is stored: whoever skips processed rows
\* misses no trade, whatever failed in between.
MarkedTradesAreStored ==
    \A i \in DOMAIN raw : raw[i].processed => TypedRows(raw[i].message) # {}

\* Since the rows of a trade were marked last, no more of its deliveries left rows
\* unmarked than met trouble, the two rows of such a delivery at most: whoever takes up
\* the unmarked trades finds only those in trouble, and the one in hand.
UnmarkedTradesMetTrouble ==
    \A m \in Wellformed : m.channel = "trades" =>
        Cardinality(UnmarkedRows(m)) <= 2 * troubled[m] + InHand(m, {"store", "mark"})

(* Redissubscriber.cpp:161-180, whatever fails and restarts in between: a raw row *)
(* is marked as processed only when its trade is stored, and left unmarked only   *)
(* by a delivery whose insert or mark failed or was cut off since the last mark.  *)
(* Failures of the raw inserts themselves leave nothing unmarked.                 *)
MarksTellTheTruth == MarkedTradesAreStored /\ UnmarkedTradesMetTrouble

(* c4-diagrams.md:165,171 "audit log, always called first", "audit every         *)
(* message": whatever fails or restarts, each message taken from Redis has one    *)
(* raw row of its own beside those of the fallback, but for those whose insert    *)
(* failed or was cut off, and those that were taken for the reply to a SUBSCRIBE. *)
EveryMessageIsAudited ==
    \A m \in Messages :
        delivered[m] = Cardinality(RawRows(m)) - again[m] + unlogged[m] + InHand(m, {"audit"})

(* A delivery leaves at most one typed row and two raw rows: neither a fallback  *)
(* nor a restart stores a trade again.                                           *)
StoredOncePerDelivery ==
    \A m \in Messages :
        /\ Cardinality(TypedRows(m)) <= delivered[m]
        /\ Cardinality(RawRows(m)) <= 2 * delivered[m]
============================================================================
