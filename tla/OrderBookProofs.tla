--------------------------- MODULE OrderBookProofs ---------------------------
(***************************************************************************)
(* What holds of OrderBook for any threads, ids, prices and quantities.    *)
(***************************************************************************)
EXTENDS OrderBook, DataLemmas

-----------------------------------------------------------------------------
(* Lists of ids and maps of levels. *)

Levels(f) == PartialFunction(f, Prices, Seq(OrderIds))

LEMMA PushBackType ==
    ASSUME NEW f, Levels(f), NEW p \in Prices, NEW i \in OrderIds
    PROVE  Levels(PushBack(f, p, i))
BY AppendProperties DEF Levels, PartialFunction, PushBack

LEMMA SetOrEraseType ==
    ASSUME NEW f, Levels(f), NEW p \in DOMAIN f, NEW list \in Seq(OrderIds)
    PROVE  Levels(SetOrErase(f, p, list))
BY DEF Levels, PartialFunction, SetOrErase, Restrict

-----------------------------------------------------------------------------
(* How the operations on the maps keep them in step with the index. *)

Index(f) == PartialFunction(f, OrderIds, Orders)

(* An index that gained an order of the other side, or lost one, or changed  *)
(* nothing but remainders, files the same lists on this side.                *)
LEMMA FilesOtherSide ==
    ASSUME NEW f, NEW idx, NEW new, NEW s, Levels(f), Files(f, idx, s),
           \A i \in DOMAIN idx : idx[i].side = s =>
                i \in DOMAIN new /\ new[i].side = s /\ new[i].price = idx[i].price,
           \A i \in DOMAIN new : new[i].side = s => i \in DOMAIN idx /\ idx[i].side = s
    PROVE  Files(f, new, s)
BY DEF Files

(* A new order filed at the back of its level. *)
LEMMA FilesPushBack ==
    ASSUME NEW f, NEW idx, NEW s, Levels(f), Files(f, idx, s),
           NEW i \in OrderIds, i \notin DOMAIN idx,
           NEW o, o.side = s, o.price \in Prices
    PROVE  Files(PushBack(f, o.price, i),
                 [j \in DOMAIN idx \cup {i} |-> IF j = i THEN o ELSE idx[j]], s)
<1> DEFINE p == o.price
           old == IF p \in DOMAIN f THEN f[p] ELSE <<>>
           g == PushBack(f, p, i)
           new == [j \in DOMAIN idx \cup {i} |-> IF j = i THEN o ELSE idx[j]]
<1>1. /\ DOMAIN g = DOMAIN f \cup {p}
      /\ \A r \in DOMAIN f : r # p => g[r] = f[r]
      /\ g[p] = Append(old, i)
  BY DEF PushBack
<1>2. /\ old \in Seq(OrderIds)
      /\ IsInjective(old)
      /\ \A k \in DOMAIN old : /\ old[k] \in DOMAIN idx
                               /\ idx[old[k]].side = s
                               /\ idx[old[k]].price = p
  BY DEF Levels, PartialFunction, Files, IsInjective
<1>3. /\ g[p] \in Seq(OrderIds)
      /\ Len(g[p]) = Len(old) + 1
      /\ \A k \in 1 .. Len(old) : g[p][k] = old[k]
      /\ g[p][Len(old) + 1] = i
  BY <1>1, <1>2, AppendProperties
<1>4. DOMAIN old = 1 .. Len(old) /\ DOMAIN g[p] = 1 .. Len(old) + 1 /\ Len(old) \in Nat
  BY <1>2, <1>3
<1>5. /\ DOMAIN new = DOMAIN idx \cup {i}
      /\ new[i] = o
      /\ \A j \in DOMAIN idx : new[j] = idx[j]
  OBVIOUS
<1> HIDE DEF p, old, g, new
<1>6. IsInjective(g[p])
  <2>1. \A j, k \in 1 .. Len(old) : old[j] = old[k] => j = k
    BY <1>2, <1>4 DEF IsInjective
  <2>2. \A k \in 1 .. Len(old) : old[k] # i
    BY <1>2, <1>4
  <2>3. ASSUME NEW j \in 1 .. Len(old) + 1, NEW k \in 1 .. Len(old) + 1, g[p][j] = g[p][k]
        PROVE  j = k
    <3>1. CASE j \in 1 .. Len(old) /\ k \in 1 .. Len(old)
      BY <3>1, <2>1, <2>3, <1>3
    <3>2. CASE j = Len(old) + 1 \/ k = Len(old) + 1
      BY <3>2, <2>2, <2>3, <1>3, <1>4
    <3> QED BY <3>1, <3>2, <1>4
  <2> QED BY <2>3, <1>4 DEF IsInjective
<1>7. \A k \in DOMAIN g[p] : g[p][k] \in DOMAIN new /\ new[g[p][k]].side = s
                             /\ new[g[p][k]].price = p
  <2> SUFFICES ASSUME NEW k \in 1 .. Len(old) + 1
               PROVE  g[p][k] \in DOMAIN new /\ new[g[p][k]].side = s
                      /\ new[g[p][k]].price = p
    BY <1>4
  <2>1. CASE k \in 1 .. Len(old)
    BY <2>1, <1>2, <1>3, <1>4, <1>5
  <2>2. CASE k = Len(old) + 1
    BY <2>2, <1>3, <1>5 DEF p
  <2> QED BY <2>1, <2>2, <1>4
<1>8. \A r \in DOMAIN g : /\ IsInjective(g[r])
                          /\ \A k \in DOMAIN g[r] : /\ g[r][k] \in DOMAIN new
                                                    /\ new[g[r][k]].side = s
                                                    /\ new[g[r][k]].price = r
  <2> SUFFICES ASSUME NEW r \in DOMAIN f, r # p
               PROVE  /\ IsInjective(g[r])
                      /\ \A k \in DOMAIN g[r] : /\ g[r][k] \in DOMAIN new
                                                /\ new[g[r][k]].side = s
                                                /\ new[g[r][k]].price = r
    BY <1>1, <1>6, <1>7
  <2> QED BY <1>1, <1>5 DEF Files
<1>9. ASSUME NEW j \in DOMAIN new, new[j].side = s
      PROVE  /\ new[j].price \in DOMAIN g
             /\ \E k \in DOMAIN g[new[j].price] : g[new[j].price][k] = j
  <2>1. CASE j = i
    BY <2>1, <1>1, <1>3, <1>4, <1>5 DEF p
  <2>2. CASE j \in DOMAIN idx
    <3>1. /\ idx[j].price \in DOMAIN f
          /\ \E k \in DOMAIN f[idx[j].price] : f[idx[j].price][k] = j
      BY <2>2, <1>9, <1>5 DEF Files
    <3>2. CASE idx[j].price # p
      BY <3>1, <3>2, <2>2, <1>1, <1>5
    <3>3. CASE idx[j].price = p
      <4>1. PICK k \in DOMAIN old : old[k] = j
        BY <3>1, <3>3 DEF old
      <4>2. k \in DOMAIN g[p] /\ g[p][k] = j
        BY <4>1, <1>3, <1>4
      <4> QED BY <4>2, <3>3, <2>2, <1>1, <1>5
    <3> QED BY <3>2, <3>3
  <2> QED BY <2>1, <2>2, <1>5
<1>10. Files(g, new, s)
  BY <1>8, <1>9 DEF Files
<1> QED BY <1>10 DEF g, new, p

(* An id leaves its list and the index together; the level may be erased if   *)
(* the list became empty, or stay.                                            *)
LEMMA FilesRemove ==
    ASSUME NEW f, NEW idx, NEW s, Levels(f), Files(f, idx, s),
           NEW p \in DOMAIN f, NEW h,
           NEW list \in Seq(OrderIds), IsInjective(list),
           \A k \in DOMAIN list : list[k] # h /\ \E j \in DOMAIN f[p] : f[p][j] = list[k],
           \A j \in DOMAIN f[p] : f[p][j] # h => \E k \in DOMAIN list : list[k] = f[p][j],
           NEW new, h \notin DOMAIN new, idx[h].price = p,
           \A i \in DOMAIN new :
                i \in DOMAIN idx /\ new[i].side = idx[i].side /\ new[i].price = idx[i].price,
           \A i \in DOMAIN idx : idx[i].side = s /\ i # h => i \in DOMAIN new
    PROVE  /\ Files([f EXCEPT ![p] = list], new, s)
           /\ Files(SetOrErase(f, p, list), new, s)
<1> DEFINE g == [f EXCEPT ![p] = list]
<1>1. DOMAIN g = DOMAIN f /\ g[p] = list /\ \A r \in DOMAIN f : r # p => g[r] = f[r]
  OBVIOUS
<1> HIDE DEF g
<1>2. ASSUME NEW r \in DOMAIN f
      PROVE  /\ IsInjective(g[r])
             /\ \A k \in DOMAIN g[r] : /\ g[r][k] \in DOMAIN new
                                       /\ new[g[r][k]].side = s
                                       /\ new[g[r][k]].price = r
  <2>1. CASE r = p
    <3>1. ASSUME NEW k \in DOMAIN list
          PROVE  list[k] \in DOMAIN new /\ new[list[k]].side = s /\ new[list[k]].price = p
      <4>1. list[k] \in DOMAIN idx /\ idx[list[k]].side = s /\ idx[list[k]].price = p
        BY DEF Files
      <4> QED BY <4>1
    <3> QED BY <3>1, <2>1, <1>1
  <2>2. CASE r # p
    <3>1. ASSUME NEW k \in DOMAIN f[r]
          PROVE  f[r][k] \in DOMAIN new /\ new[f[r][k]].side = s /\ new[f[r][k]].price = r
      <4>1. f[r][k] \in DOMAIN idx /\ idx[f[r][k]].side = s /\ idx[f[r][k]].price = r
        BY DEF Files
      <4>2. f[r][k] # h
        BY <4>1, <2>2
      <4> QED BY <4>1, <4>2
    <3> QED BY <3>1, <2>2, <1>1 DEF Files
  <2> QED BY <2>1, <2>2
<1>3. ASSUME NEW i \in DOMAIN new, new[i].side = s
      PROVE  /\ new[i].price \in DOMAIN g
             /\ \E k \in DOMAIN g[new[i].price] : g[new[i].price][k] = i
  <2>1. i \in DOMAIN idx /\ idx[i].side = s /\ new[i].price = idx[i].price /\ i # h
    BY <1>3
  <2>2. PICK j \in DOMAIN f[idx[i].price] : f[idx[i].price][j] = i
    BY <2>1 DEF Files
  <2>3. idx[i].price \in DOMAIN f
    BY <2>1 DEF Files
  <2>4. CASE idx[i].price = p
    BY <2>1, <2>2, <2>3, <2>4, <1>1
  <2>5. CASE idx[i].price # p
    BY <2>1, <2>2, <2>3, <2>5, <1>1
  <2> QED BY <2>4, <2>5
<1>4. Files(g, new, s)
  BY <1>1, <1>2, <1>3 DEF Files
<1>5. Files(SetOrErase(f, p, list), new, s)
  <2>1. CASE list # <<>>
    BY <2>1, <1>4 DEF SetOrErase, g
  <2>2. CASE list = <<>>
    <3>1. DOMAIN list = {}
      BY <2>2
    <3>2. /\ DOMAIN SetOrErase(f, p, list) = DOMAIN f \ {p}
          /\ \A r \in DOMAIN f \ {p} : SetOrErase(f, p, list)[r] = f[r]
      BY <2>2 DEF SetOrErase, Restrict
    <3>3. \A i \in DOMAIN new : new[i].side = s => new[i].price # p
      BY <3>1, <1>3, <1>1
    <3> QED BY <3>2, <3>3, <1>1, <1>2, <1>3 DEF Files
  <2> QED BY <2>1, <2>2
<1> QED BY <1>4, <1>5 DEF g

(* The iterator an index entry stores points at the entry's own list node. *)
LEMMA UnlinkFiles ==
    ASSUME NEW f, NEW idx, NEW s, Levels(f), Index(idx), Files(f, idx, s),
           NEW i \in DOMAIN idx, idx[i].side = s
    PROVE  /\ Levels(Unlink(f, idx[i].price, i))
           /\ Files(Unlink(f, idx[i].price, i), Restrict(idx, DOMAIN idx \ {i}), s)
<1> DEFINE p == idx[i].price
           k == CHOOSE j \in DOMAIN f[p] : f[p][j] = i
           list == RemoveAt(f[p], k)
           new == Restrict(idx, DOMAIN idx \ {i})
<1>1. p \in DOMAIN f /\ \E j \in DOMAIN f[p] : f[p][j] = i
  BY DEF Files
<1>2. k \in DOMAIN f[p] /\ f[p][k] = i
  BY <1>1
<1>3. f[p] \in Seq(OrderIds) /\ IsInjective(f[p]) /\ DOMAIN f[p] = 1 .. Len(f[p])
  BY <1>1 DEF Levels, PartialFunction, Files
<1> HIDE DEF k, p
<1>4. list \in Seq(OrderIds) /\ Len(list) = Len(f[p]) - 1
      /\ \A j \in 1 .. Len(f[p]) - 1 : list[j] = IF j < k THEN f[p][j] ELSE f[p][j + 1]
  BY <1>2, <1>3, RemoveAtProperties
<1>5. /\ IsInjective(list)
      /\ \A j \in 1 .. Len(f[p]) - 1 : list[j] # i
      /\ \A j \in 1 .. Len(f[p]) : j # k => \E m \in 1 .. Len(f[p]) - 1 : list[m] = f[p][j]
  <2>1. k \in 1 .. Len(f[p])
    BY <1>2, <1>3
  <2>2. /\ IsInjective(list)
        /\ \A j \in 1 .. Len(f[p]) - 1 : list[j] # f[p][k]
        /\ \A j \in 1 .. Len(f[p]) : j # k => \E m \in 1 .. Len(f[p]) - 1 : list[m] = f[p][j]
    BY <2>1, <1>3, RemoveAtFromInjective
  <2> QED BY <2>2, <1>2
<1>6. DOMAIN list = 1 .. Len(f[p]) - 1
  BY <1>4
<1>7. \A j \in DOMAIN list : list[j] # i /\ \E m \in DOMAIN f[p] : f[p][m] = list[j]
  <2> SUFFICES ASSUME NEW j \in 1 .. Len(f[p]) - 1
               PROVE  \E m \in 1 .. Len(f[p]) : f[p][m] = list[j]
    BY <1>3, <1>5, <1>6
  <2>1. list[j] = IF j < k THEN f[p][j] ELSE f[p][j + 1]
    BY <1>4
  <2>2. j \in 1 .. Len(f[p]) /\ j + 1 \in 1 .. Len(f[p])
    BY <1>3
  <2> QED BY <2>1, <2>2
<1>8. \A j \in DOMAIN f[p] : f[p][j] # i => \E m \in DOMAIN list : list[m] = f[p][j]
  BY <1>2, <1>3, <1>5, <1>6
<1>9. /\ DOMAIN new = DOMAIN idx \ {i}
      /\ \A j \in DOMAIN new : new[j] = idx[j]
  BY DEF Restrict
<1>10. Unlink(f, p, i) = SetOrErase(f, p, list)
  BY DEF Unlink, k
<1> HIDE DEF list, new
<1>11. Levels(SetOrErase(f, p, list))
  BY <1>1, <1>4, SetOrEraseType
<1>12. Files(SetOrErase(f, p, list), new, s)
  BY <1>1, <1>4, <1>5, <1>7, <1>8, <1>9, FilesRemove DEF p
<1> QED BY <1>10, <1>11, <1>12 DEF p, new

-----------------------------------------------------------------------------
(* The inductive invariant: types, the mutex and the calls, and the index.    *)

BookTypes == Levels(bids) /\ Levels(asks) /\ Index(orders)

ThreadTypes ==
    /\ holder \in Threads \cup {None}
    /\ pc \in [Threads -> {"idle", "waiting", "matching", "hung"}]
    /\ call \in [Threads -> Calls \cup {None}]
    /\ trades \in [Threads -> Seq(TradeRecords)]

(* The mutex is owned by the one thread inside the book, and a thread inside   *)
(* MatchOrders got there by AddOrder.                                          *)
CallOK ==
    \A t \in Threads :
        /\ pc[t] # "idle" => call[t] \in Calls
        /\ pc[t] = "matching" => call[t] \in AddCalls
        /\ pc[t] # "matching" => trades[t] = <<>>
        /\ pc[t] \in {"matching", "hung"} <=> holder = t

BookInv == BookTypes /\ ThreadTypes /\ CallOK /\ IndexConsistent

LEMMA TypeOKParts == TypeOK <=> BookTypes /\ ThreadTypes
BY DEF TypeOK, BookTypes, ThreadTypes, Levels, Index

LEMMA ReturnKeepsThreads ==
    ASSUME ThreadTypes, CallOK, NEW t \in Threads, Return(t), holder \in {None, t}
    PROVE  ThreadTypes' /\ CallOK'
<1>1. ThreadTypes'
  BY DEF ThreadTypes, Return
<1>2. CallOK'
  BY BookAssumption DEF ThreadTypes, CallOK, Return
<1> QED BY <1>1, <1>2

LEMMA RelockKeepsThreads ==
    ASSUME ThreadTypes, CallOK, NEW t \in Threads, Relock(t), holder = None, pc[t] = "waiting"
    PROVE  ThreadTypes' /\ CallOK'
<1>1. CASE Return(t)
  BY <1>1, ReturnKeepsThreads
<1>2. CASE /\ holder' = t
           /\ pc' = [pc EXCEPT ![t] = "hung"]
           /\ UNCHANGED <<call, trades>>
  <2>1. ThreadTypes'
    BY <1>2 DEF ThreadTypes
  <2>2. CallOK'
    BY <1>2, BookAssumption DEF ThreadTypes, CallOK
  <2> QED BY <2>1, <2>2
<1> QED BY <1>1, <1>2 DEF Relock

LEMMA BookUnchanged ==
    ASSUME UNCHANGED book, BookTypes, IndexConsistent
    PROVE  BookTypes' /\ IndexConsistent'
BY DEF book, BookTypes, IndexConsistent

LEMMA InitBookInv == Init => BookInv
<1> SUFFICES ASSUME Init PROVE BookInv
  OBVIOUS
<1>1. BookTypes /\ ThreadTypes
  BY DEF Init, BookTypes, ThreadTypes, Levels, Index, PartialFunction
<1>2. CallOK
  BY BookAssumption DEF Init, CallOK
<1>3. IndexConsistent
  BY DEF Init, IndexConsistent, Files
<1> QED BY <1>1, <1>2, <1>3 DEF BookInv

LEMMA InvokeBookInv ==
    ASSUME BookInv, NEW t \in Threads, NEW c \in Calls, Invoke(t, c)
    PROVE  BookInv'
<1> USE DEF BookInv
<1>1. ThreadTypes'
  BY DEF Invoke, ThreadTypes
<1>2. CallOK'
  BY DEF Invoke, ThreadTypes, CallOK
<1>3. BookTypes' /\ IndexConsistent'
  BY BookUnchanged DEF Invoke
<1> QED BY <1>1, <1>2, <1>3

(* The critical sections that leave the book as it was. *)
LEMMA IdleSectionBookInv ==
    ASSUME BookInv, NEW t \in Threads,
           \/ AddDuplicate(t) \/ AddFillAndKill(t) \/ CancelUnknown(t)
           \/ ModifyUnknown(t) \/ ModifyKnown(t) \/ MatchDone(t)
    PROVE  BookInv'
<1> USE DEF BookInv
<1>1. UNCHANGED book
  BY DEF AddDuplicate, AddFillAndKill, CancelUnknown, ModifyUnknown, ModifyKnown, MatchDone
<1>2. BookTypes' /\ IndexConsistent'
  BY <1>1, BookUnchanged
<1>3. ThreadTypes' /\ CallOK'
  <2>1. CASE AddDuplicate(t) \/ CancelUnknown(t) \/ ModifyUnknown(t)
    <3>1. Return(t) /\ holder = None
      BY <2>1 DEF AddDuplicate, CancelUnknown, ModifyUnknown, Enters
    <3> QED BY <3>1, ReturnKeepsThreads
  <2>2. CASE AddFillAndKill(t) \/ ModifyKnown(t)
    <3>1. Relock(t) /\ holder = None /\ pc[t] = "waiting"
      BY <2>2 DEF AddFillAndKill, ModifyKnown, Enters
    <3> QED BY <3>1, RelockKeepsThreads
  <2>3. CASE MatchDone(t)
    <3>1. Return(t) /\ holder = t
      BY <2>3 DEF MatchDone, CallOK
    <3> QED BY <3>1, ReturnKeepsThreads
  <2> QED BY <2>1, <2>2, <2>3
<1> QED BY <1>2, <1>3

LEMMA AddOrderBookInv ==
    ASSUME BookInv, NEW t \in Threads, AddOrder(t)
    PROVE  BookInv'
<1> USE DEF BookInv
<1> DEFINE c == call[t]
           o == [type |-> c.type, side |-> c.side, price |-> c.price, remaining |-> c.quantity]
<1>1. /\ c \in AddCalls /\ pc[t] = "waiting" /\ holder = None
      /\ c.id \notin DOMAIN orders /\ c.type = "GoodTillCancel"
      /\ bids' = IF c.side = "Buy" THEN PushBack(bids, c.price, c.id) ELSE bids
      /\ asks' = IF c.side = "Sell" THEN PushBack(asks, c.price, c.id) ELSE asks
      /\ orders' = [i \in DOMAIN orders \cup {c.id} |-> IF i = c.id THEN o ELSE orders[i]]
      /\ holder' = t
      /\ pc' = [pc EXCEPT ![t] = "matching"]
      /\ UNCHANGED <<call, trades>>
  <2>1. c \in Calls /\ c.op = "AddOrder" /\ pc[t] = "waiting" /\ holder = None
    BY DEF AddOrder, Enters, CallOK
  <2>2. c \in AddCalls
    BY <2>1 DEF Calls
  <2>3. c.type \in OrderTypes
    BY <2>2 DEF AddCalls
  <2> QED BY <2>1, <2>2, <2>3 DEF AddOrder, Known, NeedsCanMatch, OrderTypes
<1>2. /\ c.id \in OrderIds /\ c.price \in Prices /\ c.side \in {"Buy", "Sell"}
      /\ c.quantity \in 0 .. QuantityRange - 1
  BY <1>1, BookAssumption DEF AddCalls, Sides
<1>3. o \in Orders /\ o.side = c.side /\ o.price = c.price
  BY <1>1, <1>2 DEF Orders, Sides
<1> HIDE DEF c, o
<1>4. BookTypes'
  <2>1. Levels(bids') /\ Levels(asks')
    BY <1>1, <1>2, PushBackType DEF BookTypes
  <2>2. Index(orders')
    BY <1>1, <1>2, <1>3 DEF BookTypes, Index, PartialFunction
  <2> QED BY <2>1, <2>2 DEF BookTypes
<1>5. ThreadTypes'
  BY <1>1 DEF ThreadTypes
<1>6. CallOK'
  BY <1>1, BookAssumption DEF ThreadTypes, CallOK, c
<1>7. \A i \in DOMAIN orders : orders'[i] = orders[i]
  BY <1>1
<1>8. orders'[c.id] = o /\ DOMAIN orders' = DOMAIN orders \cup {c.id}
  BY <1>1
<1>9. CASE c.side = "Buy"
  <2>1. Files(bids', orders', "Buy")
    BY <1>1, <1>2, <1>3, <1>9, FilesPushBack DEF BookTypes, IndexConsistent
  <2>2. Files(asks', orders', "Sell")
    BY <1>1, <1>3, <1>7, <1>8, <1>9, FilesOtherSide DEF BookTypes, IndexConsistent
  <2> QED BY <1>4, <1>5, <1>6, <2>1, <2>2 DEF IndexConsistent
<1>10. CASE c.side = "Sell"
  <2>1. Files(asks', orders', "Sell")
    BY <1>1, <1>2, <1>3, <1>10, FilesPushBack DEF BookTypes, IndexConsistent
  <2>2. Files(bids', orders', "Buy")
    BY <1>1, <1>3, <1>7, <1>8, <1>10, FilesOtherSide DEF BookTypes, IndexConsistent
  <2> QED BY <1>4, <1>5, <1>6, <2>1, <2>2 DEF IndexConsistent
<1> QED BY <1>2, <1>9, <1>10

LEMMA CancelOrderBookInv ==
    ASSUME BookInv, NEW t \in Threads, CancelOrder(t)
    PROVE  BookInv'
<1> USE DEF BookInv
<1> DEFINE i == call[t].id
           o == orders[i]
<1>1. /\ i \in DOMAIN orders /\ holder = None
      /\ bids' = IF o.side = "Buy" THEN Unlink(bids, o.price, i) ELSE bids
      /\ asks' = IF o.side = "Sell" THEN Unlink(asks, o.price, i) ELSE asks
      /\ orders' = Restrict(orders, DOMAIN orders \ {i})
      /\ Return(t)
  BY DEF CancelOrder, Enters, Known
<1> HIDE DEF i
<1>2. o.side \in {"Buy", "Sell"}
  BY <1>1 DEF BookTypes, Index, PartialFunction, Orders, Sides
<1>3. /\ DOMAIN orders' = DOMAIN orders \ {i}
      /\ \A j \in DOMAIN orders' : orders'[j] = orders[j]
  BY <1>1 DEF Restrict
<1>4. Index(orders')
  BY <1>1 DEF BookTypes, Index, PartialFunction, Restrict
<1>5. ThreadTypes' /\ CallOK'
  BY <1>1, ReturnKeepsThreads
<1>6. CASE o.side = "Buy"
  <2>1. Levels(bids') /\ Files(bids', orders', "Buy")
    BY <1>1, <1>6, UnlinkFiles DEF BookTypes, IndexConsistent
  <2>2. asks' = asks
    BY <1>1, <1>6
  <2>3. Files(asks', orders', "Sell")
    BY <2>2, <1>1, <1>3, <1>6, FilesOtherSide DEF BookTypes, IndexConsistent
  <2> QED BY <1>4, <1>5, <2>1, <2>2, <2>3 DEF BookTypes, IndexConsistent
<1>7. CASE o.side = "Sell"
  <2>1. Levels(asks') /\ Files(asks', orders', "Sell")
    BY <1>1, <1>7, UnlinkFiles DEF BookTypes, IndexConsistent
  <2>2. bids' = bids
    BY <1>1, <1>7
  <2>3. Files(bids', orders', "Buy")
    BY <2>2, <1>1, <1>3, <1>7, FilesOtherSide DEF BookTypes, IndexConsistent
  <2> QED BY <1>4, <1>5, <2>1, <2>2, <2>3 DEF BookTypes, IndexConsistent
<1> QED BY <1>2, <1>6, <1>7

(* A side of the book after its front order traded: popped when it was        *)
(* filled, with the level erased or not.                                       *)
LEMMA PopFiles ==
    ASSUME NEW f, NEW idx, NEW s, Levels(f), Files(f, idx, s),
           NEW p \in DOMAIN f, f[p] # <<>>,
           NEW o, NEW new, o.remaining = 0 <=> Head(f[p]) \notin DOMAIN new,
           \A i \in DOMAIN new :
                i \in DOMAIN idx /\ new[i].side = idx[i].side /\ new[i].price = idx[i].price,
           \A i \in DOMAIN idx : idx[i].side = s /\ i # Head(f[p]) => i \in DOMAIN new
    PROVE  LET list == PopIfFilled(f[p], o)
           IN  /\ list \in Seq(OrderIds)
               /\ Levels([f EXCEPT ![p] = list]) /\ Levels(SetOrErase(f, p, list))
               /\ Files([f EXCEPT ![p] = list], new, s)
               /\ Files(SetOrErase(f, p, list), new, s)
<1> DEFINE h == Head(f[p])
<1>1. f[p] \in Seq(OrderIds) /\ IsInjective(f[p]) /\ p \in Prices
  BY DEF Levels, PartialFunction, Files
<1>2. /\ Tail(f[p]) \in Seq(OrderIds)
      /\ Len(Tail(f[p])) = Len(f[p]) - 1
      /\ \A i \in 1 .. Len(f[p]) - 1 : Tail(f[p])[i] = f[p][i + 1]
      /\ Len(f[p]) >= 1
      /\ h = f[p][1]
  BY <1>1, HeadTailProperties
<1>3. DOMAIN f[p] = 1 .. Len(f[p]) /\ 1 \in DOMAIN f[p]
  BY <1>1, <1>2
<1>4. idx[h].price = p
  BY <1>2, <1>3 DEF Files
<1> HIDE DEF h
<1>5. CASE o.remaining = 0
  <2> DEFINE list == Tail(f[p])
  <2>1. PopIfFilled(f[p], o) = list
    BY <1>5 DEF PopIfFilled
  <2>2. /\ IsInjective(list)
        /\ \A j \in 1 .. Len(f[p]) - 1 : list[j] # h
        /\ \A i \in 1 .. Len(f[p]) : f[p][i] # h =>
                \E j \in 1 .. Len(f[p]) - 1 : list[j] = f[p][i]
    BY <1>1, TailOfInjective DEF h
  <2>3. DOMAIN list = 1 .. Len(f[p]) - 1
    BY <1>2
  <2>4. list \in Seq(OrderIds)
    BY <1>2
  <2> HIDE DEF list
  <2>5. \A k \in DOMAIN list : list[k] # h /\ \E j \in DOMAIN f[p] : f[p][j] = list[k]
    <3> SUFFICES ASSUME NEW k \in 1 .. Len(f[p]) - 1
                 PROVE  list[k] # h /\ \E j \in 1 .. Len(f[p]) : f[p][j] = list[k]
      BY <1>3, <2>3
    <3>1. k + 1 \in 1 .. Len(f[p]) /\ f[p][k + 1] = list[k]
      BY <1>2 DEF list
    <3> QED BY <3>1, <2>2
  <2>6. \A j \in DOMAIN f[p] : f[p][j] # h => \E k \in DOMAIN list : list[k] = f[p][j]
    BY <1>3, <2>2, <2>3
  <2>7. h \notin DOMAIN new
    BY <1>5 DEF h
  <2>8. /\ Files([f EXCEPT ![p] = list], new, s)
        /\ Files(SetOrErase(f, p, list), new, s)
    <3>1. \A i \in DOMAIN idx : idx[i].side = s /\ i # h => i \in DOMAIN new
      BY DEF h
    <3>2. IsInjective(list)
      BY <2>2
    <3> QED BY <3>1, <3>2, <2>4, <2>5, <2>6, <2>7, <1>4, FilesRemove, SMTT(60)
  <2>9. Levels([f EXCEPT ![p] = list]) /\ Levels(SetOrErase(f, p, list))
    BY <2>4, SetOrEraseType DEF Levels, PartialFunction
  <2> QED BY <2>1, <2>4, <2>8, <2>9
<1>6. CASE o.remaining # 0
  <2>1. PopIfFilled(f[p], o) = f[p]
    BY <1>6 DEF PopIfFilled
  <2>2. [f EXCEPT ![p] = f[p]] = f
    BY DEF Levels, PartialFunction
  <2>3. SetOrErase(f, p, f[p]) = f
    BY <2>2 DEF SetOrErase
  <2>4. \A i \in DOMAIN idx : idx[i].side = s =>
            i \in DOMAIN new /\ new[i].side = s /\ new[i].price = idx[i].price
    BY <1>6
  <2>5. Files(f, new, s)
    BY <2>4, FilesOtherSide
  <2> QED BY <1>1, <2>1, <2>2, <2>3, <2>5
<1> QED BY <1>5, <1>6

(* What a trade does to the index, and what its two orders are. *)
LEMMA TradeFacts ==
    ASSUME BookInv,
           NEW bp \in DOMAIN bids, NEW ap \in DOMAIN asks, CanTrade(bp, ap),
           NEW b, b = Head(bids[bp]), NEW a, a = Head(asks[ap])
    PROVE  /\ b \in DOMAIN orders /\ orders[b].side = "Buy" /\ orders[b].price = bp
           /\ a \in DOMAIN orders /\ orders[a].side = "Sell" /\ orders[a].price = ap
           /\ a # b
           /\ orders[a].remaining \in Nat /\ orders[b].remaining \in Nat
           /\ TradeQuantity(b, a) \in 1 .. QuantityRange - 1
           /\ TradeQuantity(b, a) <= orders[a].remaining
           /\ TradeQuantity(b, a) <= orders[b].remaining
           /\ TradeQuantity(b, a) \in {orders[a].remaining, orders[b].remaining}
<1> USE DEF BookInv
<1>1. /\ bids[bp] # <<>> /\ asks[ap] # <<>> /\ TradeQuantity(b, a) > 0
  BY DEF CanTrade
<1>2. /\ b \in DOMAIN orders /\ orders[b].side = "Buy" /\ orders[b].price = bp
  <2>1. bids[bp] \in Seq(OrderIds)
    BY DEF BookTypes, Levels, PartialFunction
  <2>2. 1 \in DOMAIN bids[bp] /\ b = bids[bp][1]
    BY <2>1, <1>1, HeadTailProperties
  <2> QED BY <2>2 DEF IndexConsistent, Files
<1>3. /\ a \in DOMAIN orders /\ orders[a].side = "Sell" /\ orders[a].price = ap
  <2>1. asks[ap] \in Seq(OrderIds)
    BY DEF BookTypes, Levels, PartialFunction
  <2>2. 1 \in DOMAIN asks[ap] /\ a = asks[ap][1]
    BY <2>1, <1>1, HeadTailProperties
  <2> QED BY <2>2 DEF IndexConsistent, Files
<1>4. a # b
  BY <1>2, <1>3
<1>5. orders[a] \in Orders /\ orders[b] \in Orders
  BY <1>2, <1>3 DEF BookTypes, Index, PartialFunction
<1>6. /\ orders[a].remaining \in 0 .. QuantityRange - 1
      /\ orders[b].remaining \in 0 .. QuantityRange - 1
  BY <1>5 DEF Orders
<1> QED BY <1>1, <1>2, <1>3, <1>4, <1>6, BookAssumption DEF TradeQuantity

(* Both orders keep all but the traded quantity, one of them keeps nothing,     *)
(* and the rest of the index is left alone.                                     *)
LEMMA FilledFacts ==
    ASSUME BookInv, NEW b \in DOMAIN orders, NEW a \in DOMAIN orders, a # b,
           TradeQuantity(b, a) \in 1 .. QuantityRange - 1,
           TradeQuantity(b, a) <= orders[a].remaining,
           TradeQuantity(b, a) <= orders[b].remaining
    PROVE  /\ DOMAIN Filled(b, a) = DOMAIN orders
           /\ Filled(b, a)[b].remaining = orders[b].remaining - TradeQuantity(b, a)
           /\ Filled(b, a)[a].remaining = orders[a].remaining - TradeQuantity(b, a)
           /\ \A i \in DOMAIN orders : i \notin {a, b} => Filled(b, a)[i] = orders[i]
           /\ \A i \in DOMAIN orders :
                /\ Filled(b, a)[i] \in Orders
                /\ Filled(b, a)[i].side = orders[i].side
                /\ Filled(b, a)[i].price = orders[i].price
<1> DEFINE q == TradeQuantity(b, a)
<1>1. \A i \in DOMAIN orders : orders[i] \in Orders
  BY DEF BookInv, BookTypes, Index, PartialFunction
<1>2. /\ orders[a].remaining \in 0 .. QuantityRange - 1
      /\ orders[b].remaining \in 0 .. QuantityRange - 1
  BY <1>1 DEF Orders
<1> HIDE DEF q
<1>3. /\ Fill(orders[b], q) = [orders[b] EXCEPT !.remaining = @ - q]
      /\ Fill(orders[a], q) = [orders[a] EXCEPT !.remaining = @ - q]
  BY <1>2 DEF Fill, q
<1>4. /\ DOMAIN Filled(b, a) = DOMAIN orders
      /\ Filled(b, a)[b] = [orders[b] EXCEPT !.remaining = @ - q]
      /\ Filled(b, a)[a] = [orders[a] EXCEPT !.remaining = @ - q]
      /\ \A i \in DOMAIN orders : i \notin {a, b} => Filled(b, a)[i] = orders[i]
  <2>1. Filled(b, a) = [orders EXCEPT ![b] = Fill(@, q), ![a] = Fill(@, q)]
    BY DEF Filled, q
  <2> QED BY <2>1, <1>3
<1>5. /\ orders[a].remaining - q \in 0 .. QuantityRange - 1
      /\ orders[b].remaining - q \in 0 .. QuantityRange - 1
  BY <1>2, BookAssumption DEF q
<1>6. /\ Filled(b, a)[a] \in Orders
      /\ Filled(b, a)[a].side = orders[a].side
      /\ Filled(b, a)[a].price = orders[a].price
      /\ Filled(b, a)[a].remaining = orders[a].remaining - q
  BY <1>1, <1>4, <1>5 DEF Orders
<1>7. /\ Filled(b, a)[b] \in Orders
      /\ Filled(b, a)[b].side = orders[b].side
      /\ Filled(b, a)[b].price = orders[b].price
      /\ Filled(b, a)[b].remaining = orders[b].remaining - q
  BY <1>1, <1>4, <1>5 DEF Orders
<1> QED BY <1>1, <1>4, <1>6, <1>7 DEF q

LEMMA WithoutFilledFacts ==
    ASSUME NEW idx, NEW traded
    PROVE  /\ DOMAIN WithoutFilled(idx, traded)
                = {i \in DOMAIN idx : i \in traded => idx[i].remaining # 0}
           /\ \A i \in DOMAIN WithoutFilled(idx, traded) : WithoutFilled(idx, traded)[i] = idx[i]
           /\ Index(idx) => Index(WithoutFilled(idx, traded))
BY DEF WithoutFilled, Restrict, Index, PartialFunction

(* MatchTrade, with its two orders named and what is known of them. *)
MatchTradeStep(t, bp, ap, b, a) ==
    /\ pc[t] = "matching"
    /\ IsBestBid(bp) /\ IsBestAsk(ap) /\ Crosses(bp, ap) /\ CanTrade(bp, ap)
    /\ b = Head(bids[bp])
    /\ a = Head(asks[ap])
    /\ orders' = WithoutFilled(Filled(b, a), {b, a})
    /\ EraseEmptied(bp, ap, PopIfFilled(bids[bp], Filled(b, a)[b]),
                             PopIfFilled(asks[ap], Filled(b, a)[a]))
    /\ trades' = [trades EXCEPT ![t] = Append(@,
          [bid |-> b, ask |-> a, quantity |-> TradeQuantity(b, a),
           bidPrice |-> orders[b].price, askPrice |-> orders[a].price])]
    /\ UNCHANGED <<holder, pc, call>>

LEMMA MatchTradeNamed ==
    ASSUME NEW t, MatchTrade(t)
    PROVE  \E bp \in DOMAIN bids, ap \in DOMAIN asks : \E b, a :
                MatchTradeStep(t, bp, ap, b, a)
BY DEF MatchTrade, MatchTradeStep

LEMMA MatchTradeBookInv ==
    ASSUME BookInv, NEW t \in Threads, MatchTrade(t)
    PROVE  BookInv'
<1>1. PICK bp \in DOMAIN bids, ap \in DOMAIN asks : \E b, a : MatchTradeStep(t, bp, ap, b, a)
  BY MatchTradeNamed
<1>2. PICK b, a : MatchTradeStep(t, bp, ap, b, a)
  BY <1>1
<1> DEFINE filled == Filled(b, a)
           bidList == PopIfFilled(bids[bp], filled[b])
           askList == PopIfFilled(asks[ap], filled[a])
<1>3. /\ b \in DOMAIN orders /\ orders[b].side = "Buy" /\ orders[b].price = bp
      /\ a \in DOMAIN orders /\ orders[a].side = "Sell" /\ orders[a].price = ap
      /\ a # b
      /\ TradeQuantity(b, a) \in 1 .. QuantityRange - 1
      /\ TradeQuantity(b, a) <= orders[a].remaining
      /\ TradeQuantity(b, a) <= orders[b].remaining
  BY <1>2, TradeFacts DEF MatchTradeStep
<1>4. /\ DOMAIN filled = DOMAIN orders
      /\ \A i \in DOMAIN orders :
            filled[i] \in Orders /\ filled[i].side = orders[i].side
            /\ filled[i].price = orders[i].price
  <2>1. b \in DOMAIN orders /\ a \in DOMAIN orders
    BY <1>3
  <2> QED BY ONLY BookInv, <2>1, <1>3, FilledFacts
<1>5. bids[bp] # <<>> /\ asks[ap] # <<>> /\ b = Head(bids[bp]) /\ a = Head(asks[ap])
  BY <1>2 DEF MatchTradeStep, CanTrade
<1>6. /\ bids' = SetOrErase(bids, bp, bidList)
      /\ asks' = IF bidList = <<>> THEN [asks EXCEPT ![ap] = askList]
                 ELSE SetOrErase(asks, ap, askList)
  BY <1>2 DEF MatchTradeStep, EraseEmptied
<1>7. orders' = WithoutFilled(filled, {b, a})
  BY <1>2 DEF MatchTradeStep
<1> HIDE DEF filled
<1>8. Index(orders')
  <2>1. Index(filled)
    <3>1. DOMAIN orders \subseteq OrderIds
      BY DEF BookInv, BookTypes, Index, PartialFunction
    <3>2. filled = [i \in DOMAIN filled |-> filled[i]]
      BY DEF filled, Filled
    <3> QED BY <3>1, <3>2, <1>4 DEF Index, PartialFunction
  <2> QED BY <2>1, <1>7, WithoutFilledFacts
<1>9. /\ DOMAIN orders' = {i \in DOMAIN orders : i \in {b, a} => filled[i].remaining # 0}
      /\ \A i \in DOMAIN orders' :
            i \in DOMAIN orders /\ orders'[i].side = orders[i].side
            /\ orders'[i].price = orders[i].price
  <2> DEFINE new == WithoutFilled(filled, {b, a})
  <2>1. /\ DOMAIN new = {i \in DOMAIN filled : i \in {b, a} => filled[i].remaining # 0}
        /\ \A i \in DOMAIN new : new[i] = filled[i]
    BY WithoutFilledFacts
  <2> HIDE DEF new
  <2>2. orders' = new
    BY <1>7 DEF new
  <2> QED BY <2>1, <2>2, <1>4
<1>10. /\ filled[b].remaining = 0 <=> Head(bids[bp]) \notin DOMAIN orders'
       /\ filled[a].remaining = 0 <=> Head(asks[ap]) \notin DOMAIN orders'
       /\ \A i \in DOMAIN orders :
                orders[i].side = "Buy" /\ i # Head(bids[bp]) => i \in DOMAIN orders'
       /\ \A i \in DOMAIN orders :
                orders[i].side = "Sell" /\ i # Head(asks[ap]) => i \in DOMAIN orders'
  BY <1>3, <1>5, <1>9
<1>11. /\ Levels(bids) /\ Files(bids, orders, "Buy")
       /\ Levels(asks) /\ Files(asks, orders, "Sell")
  BY DEF BookInv, IndexConsistent, BookTypes
<1>12. Levels(bids') /\ Files(bids', orders', "Buy")
  <2>1. Levels(SetOrErase(bids, bp, bidList)) /\ Files(SetOrErase(bids, bp, bidList), orders', "Buy")
    BY <1>5, <1>9, <1>10, <1>11, PopFiles
  <2> QED BY <2>1, <1>6
<1>13. Levels(asks') /\ Files(asks', orders', "Sell")
  <2>1. /\ Levels([asks EXCEPT ![ap] = askList]) /\ Levels(SetOrErase(asks, ap, askList))
        /\ Files([asks EXCEPT ![ap] = askList], orders', "Sell")
        /\ Files(SetOrErase(asks, ap, askList), orders', "Sell")
    BY <1>5, <1>9, <1>10, <1>11, PopFiles
  <2> QED BY <2>1, <1>6
<1>14. trades' \in [Threads -> Seq(TradeRecords)]
  <2> DEFINE rec == [bid |-> b, ask |-> a, quantity |-> TradeQuantity(b, a),
                     bidPrice |-> orders[b].price, askPrice |-> orders[a].price]
  <2>1. b \in OrderIds /\ a \in OrderIds /\ bp \in Prices /\ ap \in Prices
    BY <1>3, <1>11 DEF BookInv, BookTypes, Index, Levels, PartialFunction
  <2>2. TradeQuantity(b, a) \in 0 .. QuantityRange - 1
    BY <1>3, BookAssumption
  <2>3. rec \in TradeRecords
    BY <2>1, <2>2, <1>3 DEF TradeRecords
  <2> HIDE DEF rec
  <2>4. trades' = [trades EXCEPT ![t] = Append(@, rec)]
    BY <1>2 DEF MatchTradeStep, rec
  <2> QED BY <2>3, <2>4, AppendProperties DEF BookInv, ThreadTypes
<1>15. ThreadTypes' /\ CallOK'
  BY <1>2, <1>14 DEF MatchTradeStep, BookInv, ThreadTypes, CallOK
<1> QED BY <1>8, <1>12, <1>13, <1>15 DEF BookInv, BookTypes, IndexConsistent

LEMMA NextBookInv == BookInv /\ [Next]_vars => BookInv'
<1> SUFFICES ASSUME BookInv, [Next]_vars PROVE BookInv'
  OBVIOUS
<1>1. CASE UNCHANGED vars
  <2>1. UNCHANGED book /\ UNCHANGED threadVars
    BY <1>1 DEF vars, book, threadVars
  <2>2. ThreadTypes' /\ CallOK'
    BY <2>1 DEF threadVars, BookInv, ThreadTypes, CallOK
  <2> QED BY <2>1, <2>2, BookUnchanged DEF BookInv
<1>2. CASE Next
  <2>1. PICK t \in Threads : \/ \E c \in Calls : Invoke(t, c)
                             \/ EnterCriticalSection(t)
                             \/ Match(t)
    BY <1>2 DEF Next
  <2>2. CASE \E c \in Calls : Invoke(t, c)
    BY <2>2, InvokeBookInv
  <2>3. CASE EnterCriticalSection(t)
    BY <2>3, IdleSectionBookInv, AddOrderBookInv, CancelOrderBookInv DEF EnterCriticalSection
  <2>4. CASE MatchTrade(t)
    BY <2>4, MatchTradeBookInv
  <2>5. CASE MatchSpin(t)
    BY <2>5, <1>1 DEF MatchSpin
  <2>6. CASE MatchDone(t)
    BY <2>6, IdleSectionBookInv
  <2> QED BY <2>1, <2>2, <2>3, <2>4, <2>5, <2>6 DEF Match
<1> QED BY <1>1, <1>2

LEMMA AlwaysBookInv == Spec => []BookInv
BY InitBookInv, NextBookInv, PTL DEF Spec

(* Every variable keeps its type whatever the threads do.  For the index that  *)
(* says that no order of another type than GoodTillCancel ever rests, which is *)
(* why cancel_fak at the end of MatchOrders has nothing to cancel.             *)
THEOREM TypeCorrect == Spec => []TypeOK
<1>1. BookInv => TypeOK
  BY TypeOKParts DEF BookInv
<1> QED BY <1>1, AlwaysBookInv, PTL

(* For any number of threads and orders the index and the price levels never   *)
(* disagree, not even between two trades of one AddOrder: an iterator kept in  *)
(* the index always points at the order's own node.                            *)
THEOREM IndexStaysConsistent == Spec => []IndexConsistent
<1>1. BookInv => IndexConsistent
  BY DEF BookInv
<1> QED BY <1>1, AlwaysBookInv, PTL

-----------------------------------------------------------------------------
(* Crossing: what matching keeps true beyond BookInv.                         *)

(* The levels have a best price.  The maps are finite, and this is the one      *)
(* consequence of it that is needed.                                            *)
Ordered(S) ==
    \A T \in SUBSET S : T # {} => /\ \E p \in T : \A r \in T : r <= p
                                 /\ \E p \in T : \A r \in T : p <= r

BestPricesExist == Ordered(DOMAIN bids) /\ Ordered(DOMAIN asks)

(* Thread t is matching the order that alone makes these levels cross. *)
TakerAlone(t, bp, ap) ==
    /\ pc[t] = "matching"
    /\ IF call[t].side = "Buy" THEN bp = call[t].price /\ bids[bp] = <<call[t].id>>
                               ELSE ap = call[t].price /\ asks[ap] = <<call[t].id>>

OnlyTakerCrosses ==
    \A bp \in DOMAIN bids, ap \in DOMAIN asks :
        bids[bp] # <<>> /\ asks[ap] # <<>> /\ bp >= ap =>
            \E t \in Threads : TakerAlone(t, bp, ap)

CrossInv == BookInv /\ BestPricesExist /\ OnlyTakerCrosses /\ TakerInEveryTrade

LEMMA OrderedGrows ==
    ASSUME NEW S \in SUBSET Int, NEW p \in Int, Ordered(S)
    PROVE  Ordered(S \cup {p})
<1> SUFFICES ASSUME NEW T \in SUBSET (S \cup {p}), T # {}
             PROVE  /\ \E m \in T : \A r \in T : r <= m
                    /\ \E m \in T : \A r \in T : m <= r
  BY DEF Ordered
<1>1. CASE T \subseteq S
  BY <1>1 DEF Ordered
<1>2. CASE T = {p}
  BY <1>2
<1>3. CASE p \in T /\ T # {p}
  <2> DEFINE U == T \ {p}
  <2>1. U \in SUBSET S /\ U # {} /\ T = U \cup {p}
    BY <1>3
  <2>2. PICK hi \in U : \A r \in U : r <= hi
    BY <2>1 DEF Ordered
  <2>3. PICK lo \in U : \A r \in U : lo <= r
    BY <2>1 DEF Ordered
  <2> HIDE DEF U
  <2>4. hi \in Int /\ lo \in Int /\ \A r \in U : r \in Int
    BY <2>1, <2>2, <2>3
  <2>5. \E m \in T : \A r \in T : r <= m
    <3>1. CASE hi <= p
      BY <3>1, <2>1, <2>2, <2>4
    <3>2. CASE p <= hi
      BY <3>2, <2>1, <2>2, <2>4
    <3> QED BY <3>1, <3>2, <2>4
  <2>6. \E m \in T : \A r \in T : m <= r
    <3>1. CASE lo <= p
      BY <3>1, <2>1, <2>3, <2>4
    <3>2. CASE p <= lo
      BY <3>2, <2>1, <2>3, <2>4
    <3> QED BY <3>1, <3>2, <2>4
  <2> QED BY <2>5, <2>6
<1> QED BY <1>1, <1>2, <1>3

LEMMA OrderedShrinks ==
    ASSUME NEW S, NEW R \in SUBSET S, Ordered(S)
    PROVE  Ordered(R)
BY DEF Ordered

(* With no thread inside MatchOrders the book is not crossed. *)
LEMMA RestNotCrossed ==
    ASSUME BookInv, OnlyTakerCrosses, \A t \in Threads : pc[t] # "matching"
    PROVE  NotCrossed
<1> SUFFICES ASSUME NEW bp \in DOMAIN bids, NEW ap \in DOMAIN asks,
                    bids[bp] # <<>>, asks[ap] # <<>>
             PROVE  bp < ap
  BY DEF NotCrossed
<1>1. bp \in Int /\ ap \in Int
  BY BookAssumption DEF BookInv, BookTypes, Levels, PartialFunction
<1>2. ~(bp >= ap)
  BY DEF OnlyTakerCrosses, TakerAlone
<1> QED BY <1>1, <1>2

(* A book that is not crossed has nothing for OnlyTakerCrosses to explain. *)
LEMMA NotCrossedSuffices ==
    ASSUME NotCrossed, DOMAIN bids \subseteq Int, DOMAIN asks \subseteq Int
    PROVE  OnlyTakerCrosses
BY DEF NotCrossed, OnlyTakerCrosses

LEMMA SetOrEraseDomain ==
    ASSUME NEW f, NEW p \in DOMAIN f, NEW list
    PROVE  /\ DOMAIN SetOrErase(f, p, list) \subseteq DOMAIN f
           /\ \A r \in DOMAIN SetOrErase(f, p, list) :
                SetOrErase(f, p, list)[r] = IF r = p THEN list ELSE f[r]
BY DEF SetOrErase, Restrict

LEMMA InitCrossInv == Init => CrossInv
<1> SUFFICES ASSUME Init PROVE CrossInv
  OBVIOUS
<1>1. BookInv
  BY InitBookInv
<1>2. BestPricesExist
  BY DEF Init, BestPricesExist, Ordered
<1>3. OnlyTakerCrosses
  BY DEF Init, OnlyTakerCrosses
<1>4. TakerInEveryTrade
  BY DEF Init, TakerInEveryTrade
<1> QED BY <1>1, <1>2, <1>3, <1>4 DEF CrossInv

(* Steps outside the matching loop start and end with no trade recorded. *)
LEMMA OtherStepsKeepTakers ==
    ASSUME BookInv, TakerInEveryTrade, NEW t \in Threads,
           \/ trades' = [trades EXCEPT ![t] = <<>>]
           \/ trades' = trades /\ pc[t] # "matching",
           \A u \in Threads : u # t => call'[u] = call[u]
    PROVE  TakerInEveryTrade'
<1>1. trades \in [Threads -> Seq(TradeRecords)]
  BY DEF BookInv, ThreadTypes
<1>2. trades'[t] = <<>>
  BY <1>1 DEF BookInv, CallOK
<1>3. \A u \in Threads : u # t => trades'[u] = trades[u]
  BY <1>1
<1> QED BY <1>2, <1>3 DEF TakerInEveryTrade

LEMMA InvokeCrossInv ==
    ASSUME CrossInv, NEW t \in Threads, NEW c \in Calls, Invoke(t, c)
    PROVE  CrossInv'
<1> USE DEF CrossInv
<1>1. BookInv'
  BY InvokeBookInv
<1>2. /\ UNCHANGED <<bids, asks, trades>> /\ pc[t] = "idle"
      /\ \A u \in Threads : u # t => call'[u] = call[u] /\ pc'[u] = pc[u]
  BY DEF Invoke, book, BookInv, ThreadTypes
<1>3. BestPricesExist'
  BY <1>2 DEF BestPricesExist
<1>4. OnlyTakerCrosses'
  BY <1>2 DEF OnlyTakerCrosses, TakerAlone
<1>5. TakerInEveryTrade'
  BY <1>2, OtherStepsKeepTakers
<1> QED BY <1>1, <1>3, <1>4, <1>5

(* A section that leaves the book alone, entered with the mutex free. *)
LEMMA IdleSectionCrossInv ==
    ASSUME CrossInv, NEW t \in Threads,
           \/ AddDuplicate(t) \/ AddFillAndKill(t) \/ CancelUnknown(t)
           \/ ModifyUnknown(t) \/ ModifyKnown(t)
    PROVE  CrossInv'
<1> USE DEF CrossInv
<1>1. BookInv'
  BY IdleSectionBookInv
<1>2. UNCHANGED book /\ holder = None /\ pc[t] = "waiting" /\ (Return(t) \/ Relock(t))
  BY DEF AddDuplicate, AddFillAndKill, CancelUnknown, ModifyUnknown, ModifyKnown, Enters
<1>3. \A u \in Threads : pc[u] # "matching"
  BY <1>2, BookAssumption DEF BookInv, CallOK
<1>4. /\ \A u \in Threads : u # t => call'[u] = call[u]
      /\ trades' = [trades EXCEPT ![t] = <<>>] \/ trades' = trades
  BY <1>2 DEF Return, Relock, BookInv, ThreadTypes
<1>5. BestPricesExist'
  BY <1>2 DEF book, BestPricesExist
<1>6. OnlyTakerCrosses'
  BY <1>2, <1>3 DEF book, OnlyTakerCrosses, TakerAlone
<1>7. TakerInEveryTrade'
  BY <1>3, <1>4, OtherStepsKeepTakers
<1> QED BY <1>1, <1>5, <1>6, <1>7

(* The added order joins a queue of a book that was not crossed: if its level   *)
(* crosses now, nobody else was there.                                          *)
LEMMA AddOrderCrossInv ==
    ASSUME CrossInv, NEW t \in Threads, AddOrder(t)
    PROVE  CrossInv'
<1> USE DEF CrossInv
<1> DEFINE c == call[t]
<1>1. BookInv'
  BY AddOrderBookInv
<1>2. /\ pc[t] = "waiting" /\ holder = None
      /\ bids' = IF c.side = "Buy" THEN PushBack(bids, c.price, c.id) ELSE bids
      /\ asks' = IF c.side = "Sell" THEN PushBack(asks, c.price, c.id) ELSE asks
      /\ pc' = [pc EXCEPT ![t] = "matching"]
      /\ UNCHANGED <<call, trades>>
  BY DEF AddOrder, Enters
<1>3. c.side \in {"Buy", "Sell"} /\ c.price \in Prices /\ c.id \in OrderIds
  <2>1. c \in Calls /\ c.op = "AddOrder"
    BY DEF AddOrder, Enters, BookInv, CallOK
  <2>2. c \in AddCalls
    BY <2>1 DEF Calls
  <2> QED BY <2>2 DEF AddCalls, Sides
<1>4. NotCrossed
  <2>1. \A u \in Threads : pc[u] # "matching"
    BY <1>2, BookAssumption DEF BookInv, CallOK
  <2> QED BY <2>1, RestNotCrossed
<1>5. DOMAIN bids \in SUBSET Int /\ DOMAIN asks \in SUBSET Int /\ c.price \in Int
  BY <1>3, BookAssumption DEF BookInv, BookTypes, Levels, PartialFunction
<1>6. pc'[t] = "matching" /\ call'[t] = c
  BY <1>2 DEF BookInv, ThreadTypes
<1> HIDE DEF c
<1>7. BestPricesExist'
  BY <1>2, <1>5, OrderedGrows DEF BestPricesExist, PushBack
<1>8. OnlyTakerCrosses'
  <2>1. CASE c.side = "Buy"
    <3>1. asks' = asks /\ DOMAIN bids' = DOMAIN bids \cup {c.price}
      BY <1>2, <2>1 DEF PushBack
    <3>2. \A r \in DOMAIN bids : r # c.price => bids'[r] = bids[r]
      BY <1>2, <2>1 DEF PushBack
    <3>3. SUFFICES ASSUME NEW bp \in DOMAIN bids', NEW ap \in DOMAIN asks,
                          bids'[bp] # <<>>, asks[ap] # <<>>, bp >= ap
                   PROVE  bp = c.price /\ bids'[bp] = <<c.id>>
      BY <3>1, <2>1, <1>6 DEF OnlyTakerCrosses, TakerAlone
    <3>4. bp = c.price
      BY <3>1, <3>2, <3>3, <1>4, <1>5 DEF NotCrossed
    <3>5. bp \in DOMAIN bids => bids[bp] = <<>>
      BY <3>1, <3>3, <1>4, <1>5 DEF NotCrossed
    <3>6. bids'[bp] = Append(<<>>, c.id)
      BY <3>4, <3>5, <2>1, <1>2 DEF PushBack
    <3> QED BY <3>4, <3>6
  <2>2. CASE c.side = "Sell"
    <3>1. bids' = bids /\ DOMAIN asks' = DOMAIN asks \cup {c.price}
      BY <1>2, <2>2 DEF PushBack
    <3>2. \A r \in DOMAIN asks : r # c.price => asks'[r] = asks[r]
      BY <1>2, <2>2 DEF PushBack
    <3>3. SUFFICES ASSUME NEW bp \in DOMAIN bids, NEW ap \in DOMAIN asks',
                          bids[bp] # <<>>, asks'[ap] # <<>>, bp >= ap
                   PROVE  ap = c.price /\ asks'[ap] = <<c.id>>
      BY <3>1, <2>2, <1>6 DEF OnlyTakerCrosses, TakerAlone
    <3>4. ap = c.price
      BY <3>1, <3>2, <3>3, <1>4, <1>5 DEF NotCrossed
    <3>5. ap \in DOMAIN asks => asks[ap] = <<>>
      BY <3>1, <3>3, <1>4, <1>5 DEF NotCrossed
    <3>6. asks'[ap] = Append(<<>>, c.id)
      BY <3>4, <3>5, <2>2, <1>2 DEF PushBack
    <3> QED BY <3>4, <3>6
  <2> QED BY <2>1, <2>2, <1>3
<1>9. TakerInEveryTrade'
  BY <1>2, OtherStepsKeepTakers
<1> QED BY <1>1, <1>7, <1>8, <1>9

(* Cancelling only takes orders away. *)
LEMMA CancelOrderCrossInv ==
    ASSUME CrossInv, NEW t \in Threads, CancelOrder(t)
    PROVE  CrossInv'
<1> USE DEF CrossInv
<1> DEFINE i == call[t].id
           p == orders[i].price
<1>1. BookInv'
  BY CancelOrderBookInv
<1>2. /\ i \in DOMAIN orders /\ holder = None /\ pc[t] = "waiting"
      /\ bids' = IF orders[i].side = "Buy" THEN Unlink(bids, p, i) ELSE bids
      /\ asks' = IF orders[i].side = "Sell" THEN Unlink(asks, p, i) ELSE asks
      /\ Return(t)
  BY DEF CancelOrder, Enters, Known
<1>3. /\ orders[i].side = "Buy" => p \in DOMAIN bids /\ \E j \in DOMAIN bids[p] : bids[p][j] = i
      /\ orders[i].side = "Sell" => p \in DOMAIN asks /\ \E j \in DOMAIN asks[p] : asks[p][j] = i
  BY <1>2 DEF BookInv, IndexConsistent, Files
<1> HIDE DEF i, p
<1>4. /\ DOMAIN bids' \subseteq DOMAIN bids
      /\ \A r \in DOMAIN bids' : bids'[r] # <<>> => bids[r] # <<>>
  <2>1. CASE orders[i].side = "Buy"
    <3> DEFINE list == RemoveAt(bids[p], CHOOSE j \in DOMAIN bids[p] : bids[p][j] = i)
    <3>1. bids' = SetOrErase(bids, p, list)
      BY <2>1, <1>2 DEF Unlink
    <3>2. bids[p] # <<>>
      BY <2>1, <1>3
    <3> HIDE DEF list
    <3> QED BY <3>1, <3>2, <2>1, <1>3, SetOrEraseDomain
  <2>2. CASE orders[i].side # "Buy"
    BY <2>2, <1>2
  <2> QED BY <2>1, <2>2
<1>5. /\ DOMAIN asks' \subseteq DOMAIN asks
      /\ \A r \in DOMAIN asks' : asks'[r] # <<>> => asks[r] # <<>>
  <2>1. CASE orders[i].side = "Sell"
    <3> DEFINE list == RemoveAt(asks[p], CHOOSE j \in DOMAIN asks[p] : asks[p][j] = i)
    <3>1. asks' = SetOrErase(asks, p, list)
      BY <2>1, <1>2 DEF Unlink
    <3>2. asks[p] # <<>>
      BY <2>1, <1>3
    <3> HIDE DEF list
    <3> QED BY <3>1, <3>2, <2>1, <1>3, SetOrEraseDomain
  <2>2. CASE orders[i].side # "Sell"
    BY <2>2, <1>2
  <2> QED BY <2>1, <2>2
<1>6. BestPricesExist'
  BY <1>4, <1>5, OrderedShrinks DEF BestPricesExist
<1>7. OnlyTakerCrosses'
  <2>1. \A u \in Threads : pc[u] # "matching"
    BY <1>2, BookAssumption DEF BookInv, CallOK
  <2>2. NotCrossed
    BY <2>1, RestNotCrossed
  <2>3. DOMAIN bids \subseteq Int /\ DOMAIN asks \subseteq Int
    BY BookAssumption DEF BookInv, BookTypes, Levels, PartialFunction
  <2> QED BY <2>2, <2>3, <1>4, <1>5 DEF NotCrossed, OnlyTakerCrosses
<1>8. TakerInEveryTrade'
  BY <1>2, OtherStepsKeepTakers DEF Return, BookInv, ThreadTypes
<1> QED BY <1>1, <1>6, <1>7, <1>8

(* The loop ends when the best levels do not cross, and then no levels do. *)
LEMMA MatchDoneCrossInv ==
    ASSUME CrossInv, NEW t \in Threads, MatchDone(t)
    PROVE  CrossInv'
<1> USE DEF CrossInv
<1>1. BookInv'
  BY IdleSectionBookInv
<1>2. UNCHANGED book /\ Return(t) /\ TopsApart(t)
  BY DEF MatchDone
<1>3. DOMAIN bids \subseteq Int /\ DOMAIN asks \subseteq Int
  BY BookAssumption DEF BookInv, BookTypes, Levels, PartialFunction
<1>4. NotCrossed
  <2> SUFFICES ASSUME NEW bp \in DOMAIN bids, NEW ap \in DOMAIN asks
               PROVE  bp < ap
    BY DEF NotCrossed
  <2>1. PICK best \in DOMAIN bids : \A r \in DOMAIN bids : r <= best
    BY DEF BestPricesExist, Ordered
  <2>2. PICK least \in DOMAIN asks : \A r \in DOMAIN asks : least <= r
    BY DEF BestPricesExist, Ordered
  <2>3. ~(best >= least)
    BY <2>1, <2>2, <1>2 DEF TopsApart, IsBestBid, IsBestAsk, Crosses
  <2> QED BY <2>1, <2>2, <2>3, <1>3
<1>5. OnlyTakerCrosses'
  BY <1>2, <1>3, <1>4 DEF book, NotCrossed, OnlyTakerCrosses
<1>6. BestPricesExist'
  BY <1>2 DEF book, BestPricesExist
<1>7. TakerInEveryTrade'
  BY <1>2, OtherStepsKeepTakers DEF Return, BookInv, ThreadTypes
<1> QED BY <1>1, <1>5, <1>6, <1>7

(* What the trade leaves of a level was there before, and the only crossing      *)
(* level of the taker's side holds the taker alone.                              *)
LEMMA MatchTradeCrossInv ==
    ASSUME CrossInv, NEW t \in Threads, MatchTrade(t)
    PROVE  CrossInv'
<1> USE DEF CrossInv
<1>1. BookInv'
  BY MatchTradeBookInv
<1>2. PICK bp \in DOMAIN bids, ap \in DOMAIN asks : \E b, a : MatchTradeStep(t, bp, ap, b, a)
  BY MatchTradeNamed
<1>3. PICK b, a : MatchTradeStep(t, bp, ap, b, a)
  BY <1>2
<1> DEFINE bidList == PopIfFilled(bids[bp], Filled(b, a)[b])
           askList == PopIfFilled(asks[ap], Filled(b, a)[a])
<1>4. /\ pc[t] = "matching" /\ bp >= ap
      /\ bids[bp] # <<>> /\ asks[ap] # <<>>
      /\ b = Head(bids[bp]) /\ a = Head(asks[ap])
      /\ bids' = SetOrErase(bids, bp, bidList)
      /\ asks' = IF bidList = <<>> THEN [asks EXCEPT ![ap] = askList]
                 ELSE SetOrErase(asks, ap, askList)
      /\ UNCHANGED <<pc, call>>
  BY <1>3 DEF MatchTradeStep, CanTrade, Crosses, EraseEmptied
<1>5. /\ bidList = bids[bp] \/ bidList = Tail(bids[bp])
      /\ askList = asks[ap] \/ askList = Tail(asks[ap])
  BY DEF PopIfFilled
<1>6. \A u \in Threads : pc[u] = "matching" => u = t
  BY <1>4 DEF BookInv, CallOK
<1>7. TakerAlone(t, bp, ap)
  BY <1>4, <1>6 DEF OnlyTakerCrosses, TakerAlone
<1> HIDE DEF bidList, askList
<1>8. /\ DOMAIN bids' \subseteq DOMAIN bids
      /\ \A r \in DOMAIN bids' : bids'[r] = IF r = bp THEN bidList ELSE bids[r]
  BY <1>4, SetOrEraseDomain
<1>9. /\ DOMAIN asks' \subseteq DOMAIN asks
      /\ \A r \in DOMAIN asks' : asks'[r] = IF r = ap THEN askList ELSE asks[r]
  <2>1. CASE bidList = <<>>
    BY <2>1, <1>4
  <2>2. CASE bidList # <<>>
    BY <2>2, <1>4, SetOrEraseDomain
  <2> QED BY <2>1, <2>2
<1>10. BestPricesExist'
  BY <1>8, <1>9, OrderedShrinks DEF BestPricesExist
<1>11. Tail(<<call[t].id>>) = <<>> /\ Head(<<call[t].id>>) = call[t].id
  OBVIOUS
<1>12. OnlyTakerCrosses'
  <2> SUFFICES ASSUME NEW r \in DOMAIN bids', NEW s \in DOMAIN asks',
                      bids'[r] # <<>>, asks'[s] # <<>>, r >= s
               PROVE  TakerAlone(t, r, s)'
    BY DEF OnlyTakerCrosses
  <2>1. bids[r] # <<>> /\ asks[s] # <<>>
    BY <1>4, <1>8, <1>9
  <2>2. TakerAlone(t, r, s)
    BY <2>1, <1>6, <1>8, <1>9 DEF OnlyTakerCrosses, TakerAlone
  <2>3. CASE call[t].side = "Buy"
    BY <2>2, <2>3, <1>4, <1>5, <1>8, <1>11 DEF TakerAlone
  <2>4. CASE call[t].side # "Buy"
    BY <2>2, <2>4, <1>4, <1>5, <1>9, <1>11 DEF TakerAlone
  <2> QED BY <2>3, <2>4
<1>13. TakerInEveryTrade'
  <2> DEFINE rec == [bid |-> b, ask |-> a, quantity |-> TradeQuantity(b, a),
                     bidPrice |-> orders[b].price, askPrice |-> orders[a].price]
  <2>1. trades' = [trades EXCEPT ![t] = Append(@, rec)]
    BY <1>3 DEF MatchTradeStep
  <2>2. rec.bid = b /\ rec.ask = a
    OBVIOUS
  <2> HIDE DEF rec
  <2>3. trades \in [Threads -> Seq(TradeRecords)]
    BY DEF BookInv, ThreadTypes
  <2>4. call[t].id = IF call[t].side = "Buy" THEN rec.bid ELSE rec.ask
    BY <2>2, <1>4, <1>7, <1>11 DEF TakerAlone
  <2>5. trades'[t] = Append(trades[t], rec)
    BY <2>1, <2>3
  <2>6. \A k \in DOMAIN trades'[t] :
            \/ k \in DOMAIN trades[t] /\ trades'[t][k] = trades[t][k]
            \/ trades'[t][k] = rec
    BY <2>3, <2>5
  <2>7. \A u \in Threads : u # t => trades'[u] = trades[u]
    BY <2>1, <2>3
  <2> QED BY <2>4, <2>6, <2>7, <1>4 DEF TakerInEveryTrade
<1> QED BY <1>1, <1>10, <1>12, <1>13

LEMMA NextCrossInv == CrossInv /\ [Next]_vars => CrossInv'
<1> SUFFICES ASSUME CrossInv, [Next]_vars PROVE CrossInv'
  OBVIOUS
<1>1. CASE UNCHANGED vars
  <2>1. BookInv'
    BY NextBookInv DEF CrossInv
  <2> QED BY <1>1, <2>1 DEF vars, CrossInv, BestPricesExist, OnlyTakerCrosses, TakerAlone,
                            TakerInEveryTrade
<1>2. CASE Next
  <2>1. PICK t \in Threads : \/ \E c \in Calls : Invoke(t, c)
                             \/ EnterCriticalSection(t)
                             \/ Match(t)
    BY <1>2 DEF Next
  <2>2. CASE \E c \in Calls : Invoke(t, c)
    BY <2>2, InvokeCrossInv
  <2>3. CASE EnterCriticalSection(t)
    BY <2>3, IdleSectionCrossInv, AddOrderCrossInv, CancelOrderCrossInv DEF EnterCriticalSection
  <2>4. CASE MatchTrade(t)
    BY <2>4, MatchTradeCrossInv
  <2>5. CASE MatchSpin(t)
    BY <2>5, <1>1 DEF MatchSpin
  <2>6. CASE MatchDone(t)
    BY <2>6, MatchDoneCrossInv
  <2> QED BY <2>1, <2>2, <2>3, <2>4, <2>5, <2>6 DEF Match
<1> QED BY <1>1, <1>2

LEMMA AlwaysCrossInv == Spec => []CrossInv
BY InitCrossInv, NextCrossInv, PTL DEF Spec

(* For any threads, prices and quantities: when no thread is inside             *)
(* MatchOrders, every bid is below every ask.                                   *)
THEOREM NeverCrossedAtRest == Spec => []NotCrossedAtRest
<1>1. CrossInv => NotCrossedAtRest
  BY RestNotCrossed DEF CrossInv, NotCrossedAtRest
<1> QED BY <1>1, AlwaysCrossInv, PTL

(* AddOrder never trades two orders that were both resting: the order it added *)
(* is a party of each trade it returns.                                         *)
THEOREM TakerTradesOnly == Spec => []TakerInEveryTrade
<1>1. CrossInv => TakerInEveryTrade
  BY DEF CrossInv
<1> QED BY <1>1, AlwaysCrossInv, PTL

-----------------------------------------------------------------------------
(* Prices: a taker eats the other side from the best level outwards.          *)

(* What TradesWalkTheBook says of the prices in the trades of one call.         *)
WalksOutwards(t) ==
    \A j, k \in DOMAIN trades[t] :
        /\ trades[t][k].bidPrice >= trades[t][k].askPrice
        /\ j < k => IF call[t].side = "Buy" THEN trades[t][j].askPrice <= trades[t][k].askPrice
                    ELSE trades[t][j].bidPrice >= trades[t][k].bidPrice

(* While t matches, no level of the other side is better than one it has had.  *)
BehindBest(t) ==
    pc[t] = "matching" =>
        \A k \in DOMAIN trades[t] :
            IF call[t].side = "Buy" THEN \A r \in DOMAIN asks : trades[t][k].askPrice <= r
            ELSE \A r \in DOMAIN bids : r <= trades[t][k].bidPrice

WalkOK == \A t \in Threads : WalksOutwards(t) /\ BehindBest(t)

WalkInv == CrossInv /\ WalkOK

LEMMA EmptyWalk ==
    ASSUME NEW t \in Threads, trades[t] = <<>>
    PROVE  WalksOutwards(t) /\ BehindBest(t)
BY DEF WalksOutwards, BehindBest

LEMMA InitWalkInv == Init => WalkInv
BY InitCrossInv, EmptyWalk DEF Init, WalkInv, WalkOK

(* A step that finds and leaves no trade of a thread, or leaves the thread and  *)
(* the levels as they are.                                                      *)
LEMMA QuietWalk ==
    ASSUME WalkOK,
           \A u \in Threads :
                \/ trades'[u] = <<>>
                \/ UNCHANGED <<bids, asks>> /\ trades'[u] = trades[u] /\ call'[u] = call[u]
                       /\ pc'[u] = pc[u]
    PROVE  WalkOK'
<1> SUFFICES ASSUME NEW u \in Threads PROVE WalksOutwards(u)' /\ BehindBest(u)'
  BY DEF WalkOK
<1>1. CASE trades'[u] = <<>>
  BY <1>1 DEF WalksOutwards, BehindBest
<1>2. CASE /\ UNCHANGED <<bids, asks>>
           /\ trades'[u] = trades[u] /\ call'[u] = call[u] /\ pc'[u] = pc[u]
  BY <1>2 DEF WalkOK, WalksOutwards, BehindBest
<1> QED BY <1>1, <1>2

(* Whoever enters finds nobody matching, so there is no trade of anybody.      *)
LEMMA NoTradesAfter ==
    ASSUME BookInv, NEW t \in Threads, EnterCriticalSection(t) \/ MatchDone(t)
    PROVE  \A u \in Threads : trades'[u] = <<>>
<1>1. \A u \in Threads : u # t => trades[u] = <<>>
  BY BookAssumption DEF BookInv, CallOK, EnterCriticalSection, AddDuplicate, AddFillAndKill,
     AddOrder, CancelUnknown, CancelOrder, ModifyUnknown, ModifyKnown, Enters, MatchDone
<1>2. \/ trades' = [trades EXCEPT ![t] = <<>>]
      \/ trades' = trades /\ pc[t] # "matching"
  BY DEF EnterCriticalSection, AddDuplicate, AddFillAndKill, AddOrder, CancelUnknown,
     CancelOrder, ModifyUnknown, ModifyKnown, Enters, MatchDone, Return, Relock
<1>3. trades \in [Threads -> Seq(TradeRecords)]
  BY DEF BookInv, ThreadTypes
<1> QED BY <1>1, <1>2, <1>3 DEF BookInv, CallOK

LEMMA MatchTradeWalk ==
    ASSUME BookInv, WalkOK, NEW t \in Threads, MatchTrade(t)
    PROVE  WalkOK'
<1>1. PICK bp \in DOMAIN bids, ap \in DOMAIN asks : \E b, a : MatchTradeStep(t, bp, ap, b, a)
  BY MatchTradeNamed
<1>2. PICK b, a : MatchTradeStep(t, bp, ap, b, a)
  BY <1>1
<1> DEFINE bidList == PopIfFilled(bids[bp], Filled(b, a)[b])
           askList == PopIfFilled(asks[ap], Filled(b, a)[a])
           rec == [bid |-> b, ask |-> a, quantity |-> TradeQuantity(b, a),
                   bidPrice |-> orders[b].price, askPrice |-> orders[a].price]
<1>3. /\ pc[t] = "matching" /\ bp >= ap /\ CanTrade(bp, ap)
      /\ b = Head(bids[bp]) /\ a = Head(asks[ap])
      /\ \A r \in DOMAIN bids : r <= bp
      /\ \A r \in DOMAIN asks : ap <= r
      /\ bids' = SetOrErase(bids, bp, bidList)
      /\ asks' = IF bidList = <<>> THEN [asks EXCEPT ![ap] = askList]
                 ELSE SetOrErase(asks, ap, askList)
      /\ trades' = [trades EXCEPT ![t] = Append(@, rec)]
      /\ UNCHANGED <<pc, call>>
  BY <1>2 DEF MatchTradeStep, Crosses, IsBestBid, IsBestAsk, EraseEmptied
<1>4. rec.bidPrice = bp /\ rec.askPrice = ap
  BY <1>3, TradeFacts
<1> HIDE DEF bidList, askList, rec
<1>5. DOMAIN bids' \subseteq DOMAIN bids /\ DOMAIN asks' \subseteq DOMAIN asks
  <2>1. CASE bidList = <<>>
    BY <2>1, <1>3, SetOrEraseDomain
  <2>2. CASE bidList # <<>>
    BY <2>2, <1>3, SetOrEraseDomain
  <2> QED BY <2>1, <2>2
<1>6. trades \in [Threads -> Seq(TradeRecords)]
  BY DEF BookInv, ThreadTypes
<1>7. /\ trades'[t] = Append(trades[t], rec) /\ trades[t] \in Seq(TradeRecords)
      /\ \A u \in Threads : u # t => trades'[u] = trades[u]
  BY <1>3, <1>6
<1>8. \A u \in Threads : u # t => trades[u] = <<>>
  BY <1>3 DEF BookInv, CallOK
<1>9. /\ DOMAIN trades[t] = 1 .. Len(trades[t]) /\ Len(trades[t]) \in Nat
      /\ DOMAIN trades'[t] = 1 .. Len(trades[t]) + 1
      /\ trades'[t][Len(trades[t]) + 1] = rec
      /\ \A k \in DOMAIN trades[t] : trades'[t][k] = trades[t][k]
  BY <1>7
<1>10. BehindBest(t)
  BY DEF WalkOK
<1>11. WalksOutwards(t)'
  <2> SUFFICES ASSUME NEW j \in DOMAIN trades'[t], NEW k \in DOMAIN trades'[t]
               PROVE  /\ trades'[t][k].bidPrice >= trades'[t][k].askPrice
                      /\ j < k => IF call[t].side = "Buy"
                                  THEN trades'[t][j].askPrice <= trades'[t][k].askPrice
                                  ELSE trades'[t][j].bidPrice >= trades'[t][k].bidPrice
    BY <1>3 DEF WalksOutwards
  <2>1. CASE k \in DOMAIN trades[t]
    <3>1. j < k => j \in DOMAIN trades[t]
      BY <2>1, <1>9
    <3>2. trades[t][k].bidPrice >= trades[t][k].askPrice
      BY <2>1 DEF WalkOK, WalksOutwards
    <3>3. j \in DOMAIN trades[t] /\ j < k =>
              IF call[t].side = "Buy" THEN trades[t][j].askPrice <= trades[t][k].askPrice
              ELSE trades[t][j].bidPrice >= trades[t][k].bidPrice
      BY <2>1 DEF WalkOK, WalksOutwards
    <3> QED BY <3>1, <3>2, <3>3, <2>1, <1>9
  <2>2. CASE k = Len(trades[t]) + 1
    <3>1. j < k => j \in DOMAIN trades[t] /\ trades'[t][j] = trades[t][j]
      BY <2>2, <1>9
    <3>2. trades'[t][k] = rec
      BY <2>2, <1>9
    <3>3. ap \in Int /\ bp \in Int
      BY BookAssumption DEF BookInv, BookTypes, Levels, PartialFunction
    <3>4. \A i \in DOMAIN trades[t] :
              IF call[t].side = "Buy" THEN trades[t][i].askPrice <= ap
              ELSE bp <= trades[t][i].bidPrice
      BY <1>3, <1>10 DEF BehindBest
    <3>5. \A i \in DOMAIN trades[t] : trades[t][i].bidPrice \in Int /\ trades[t][i].askPrice \in Int
      <4>1. \A i \in DOMAIN trades[t] : trades[t][i] \in TradeRecords
        BY <1>7
      <4>2. \A x \in TradeRecords : x.bidPrice \in Int /\ x.askPrice \in Int
        BY BookAssumption DEF TradeRecords
      <4> QED BY <4>1, <4>2
    <3> QED BY <3>1, <3>2, <3>3, <3>4, <3>5, <1>3, <1>4
  <2> QED BY <2>1, <2>2, <1>9
<1>12. BehindBest(t)'
  <2> SUFFICES ASSUME NEW k \in DOMAIN trades'[t]
               PROVE  IF call[t].side = "Buy" THEN \A r \in DOMAIN asks' : trades'[t][k].askPrice <= r
                      ELSE \A r \in DOMAIN bids' : r <= trades'[t][k].bidPrice
    BY <1>3 DEF BehindBest
  <2>1. CASE k \in DOMAIN trades[t]
    BY <2>1, <1>3, <1>5, <1>9, <1>10 DEF BehindBest
  <2>2. CASE k = Len(trades[t]) + 1
    BY <2>2, <1>3, <1>4, <1>5, <1>9
  <2> QED BY <2>1, <2>2, <1>9
<1>13. \A u \in Threads : u # t => WalksOutwards(u)' /\ BehindBest(u)'
  BY <1>7, <1>8 DEF WalksOutwards, BehindBest
<1> QED BY <1>11, <1>12, <1>13 DEF WalkOK

LEMMA NextWalkInv == WalkInv /\ [Next]_vars => WalkInv'
<1> SUFFICES ASSUME WalkInv, [Next]_vars PROVE WalkInv'
  OBVIOUS
<1>1. CrossInv' /\ BookInv /\ WalkOK
  BY NextCrossInv DEF WalkInv, CrossInv
<1>2. CASE UNCHANGED vars
  BY <1>1, <1>2, QuietWalk DEF vars, WalkInv
<1>3. CASE Next
  <2>1. PICK t \in Threads : \/ \E c \in Calls : Invoke(t, c)
                             \/ EnterCriticalSection(t)
                             \/ Match(t)
    BY <1>3 DEF Next
  <2>2. CASE \E c \in Calls : Invoke(t, c)
    <3>1. /\ UNCHANGED <<bids, asks, trades>> /\ pc[t] = "idle"
          /\ \A u \in Threads : u # t => call'[u] = call[u] /\ pc'[u] = pc[u]
      BY <2>2, <1>1 DEF Invoke, book, BookInv, ThreadTypes
    <3>2. trades'[t] = <<>>
      BY <3>1, <1>1 DEF BookInv, CallOK
    <3> QED BY <3>1, <3>2, <1>1, QuietWalk DEF WalkInv
  <2>3. CASE EnterCriticalSection(t) \/ MatchDone(t)
    BY <2>3, <1>1, NoTradesAfter, QuietWalk DEF WalkInv
  <2>4. CASE MatchTrade(t)
    BY <2>4, <1>1, MatchTradeWalk DEF WalkInv
  <2>5. CASE MatchSpin(t)
    BY <2>5, <1>2 DEF MatchSpin
  <2> QED BY <2>1, <2>2, <2>3, <2>4, <2>5 DEF Match
<1> QED BY <1>2, <1>3

(* For any number of threads, orders and prices: AddOrder's trades are those of *)
(* its own order, within its limit, and go through the other side's prices from *)
(* the best one outwards (order_book.cpp:62-117).                               *)
THEOREM TradesGoOutwards == Spec => []TradesWalkTheBook
<1>1. WalkInv => TradesWalkTheBook
  BY DEF WalkInv, CrossInv, WalkOK, WalksOutwards, TradesWalkTheBook
<1>2. Spec => []WalkInv
  BY InitWalkInv, NextWalkInv, PTL DEF Spec
<1> QED BY <1>1, <1>2, PTL

-----------------------------------------------------------------------------
(* Quantities: what the taker asked for is what it traded plus what it wants.  *)

Traded(list) == [k \in 1 .. Len(list) |-> list[k].quantity]

(* The fold of TakerAccounted is the sum of the traded quantities. *)
LEMMA TradedIsSum ==
    ASSUME NEW list \in Seq(TradeRecords)
    PROVE  /\ Traded(list) \in Seq(Int)
           /\ FoldLeft(LAMBDA sum, tr : sum + tr.quantity, 0, list) = SumOf(Traded(list))
<1> DEFINE v == Traded(list)
           Def(F) == F = [T \in SUBSET (DOMAIN list) |->
                            IF T = {} THEN 0 ELSE F[T \ {Max(T)}] + list[Max(T)].quantity]
           F == CHOOSE iter : Def(iter)
<1>1. FoldLeft(LAMBDA sum, tr : sum + tr.quantity, 0, list) = F[DOMAIN list]
  BY DEF FoldLeft, MapThenFoldSet
<1>2. \A k \in DOMAIN list : list[k].quantity \in Int
  <2>1. \A k \in DOMAIN list : list[k] \in TradeRecords
    OBVIOUS
  <2>2. \A tr \in TradeRecords : tr.quantity \in Int
    BY BookAssumption DEF TradeRecords
  <2> QED BY <2>1, <2>2
<1>3. /\ DOMAIN list = 1 .. Len(list) /\ Len(list) \in Nat
      /\ v \in Seq(Int) /\ Len(v) = Len(list)
      /\ \A k \in DOMAIN list : v[k] = list[k].quantity
  BY <1>2 DEF Traded
<1> HIDE DEF v
<1>4. \A T \in SUBSET (DOMAIN list) : T # {} => v[Max(T)] = list[Max(T)].quantity
  BY <1>3, MaxIsLast
<1>5. PICK G : FoldsToSum(G, v)
  BY <1>3, SumFoldExists
<1>6. Def(G)
  BY <1>3, <1>4, <1>5 DEF FoldsToSum
<1>7. Def(F)
  BY <1>6
<1> HIDE DEF F
<1>8. \A T \in SUBSET (1 .. Len(v)) : F[T] = IF T = {} THEN 0 ELSE F[T \ {Max(T)}] + v[Max(T)]
  <2> TAKE T \in SUBSET (1 .. Len(v))
  <2>1. T \in SUBSET (DOMAIN list)
    BY <1>3
  <2>2. F[T] = IF T = {} THEN 0 ELSE F[T \ {Max(T)}] + list[Max(T)].quantity
    BY <1>7, <2>1
  <2>3. T # {} => v[Max(T)] = list[Max(T)].quantity
    BY <1>4, <2>1
  <2> QED BY ONLY <2>2, <2>3
<1>9. F[1 .. Len(v)] = SumOf(v)
  BY <1>3, <1>8, SumFold
<1> QED BY <1>1, <1>3, <1>9 DEF v

LEMMA TradedAppend ==
    ASSUME NEW list \in Seq(TradeRecords), NEW tr \in TradeRecords
    PROVE  SumOf(Traded(Append(list, tr))) = SumOf(Traded(list)) + tr.quantity
<1>1. tr.quantity \in Int
  BY BookAssumption DEF TradeRecords
<1>2. /\ Len(Append(list, tr)) = Len(list) + 1 /\ Len(list) \in Nat
      /\ \A k \in 1 .. Len(list) : Append(list, tr)[k] = list[k]
      /\ Append(list, tr)[Len(list) + 1] = tr
  OBVIOUS
<1>3. Traded(list) \in Seq(Int)
  BY TradedIsSum
<1>4. Traded(Append(list, tr)) = Append(Traded(list), tr.quantity)
  <2>1. /\ Len(Traded(list)) = Len(list)
        /\ \A k \in 1 .. Len(list) : Traded(list)[k] = list[k].quantity
    BY <1>2 DEF Traded
  <2>2. Append(Traded(list), tr.quantity)
            = [k \in 1 .. Len(list) + 1 |->
                  IF k = Len(list) + 1 THEN tr.quantity ELSE Traded(list)[k]]
    BY <1>1, <1>3, <2>1
  <2> QED BY <1>2, <2>1, <2>2 DEF Traded
<1> QED BY <1>1, <1>3, <1>4, SumAppend

(* What the order of a call still wants in the book. *)
Wanted(i) == IF i \in DOMAIN orders THEN orders[i].remaining ELSE 0

Accounted(t) == call[t].quantity = SumOf(Traded(trades[t])) + Wanted(call[t].id)

AccountInv == CrossInv /\ \A t \in Threads : pc[t] = "matching" => Accounted(t)

(* A thread that goes on matching while another makes a step sees nothing of it. *)
LEMMA OthersKeepAccount ==
    ASSUME BookInv, NEW t \in Threads, NEW u \in Threads, u # t,
           \/ \E c \in Calls : Invoke(t, c)
           \/ EnterCriticalSection(t)
           \/ Match(t),
           pc'[u] = "matching"
    PROVE  /\ UNCHANGED <<orders, trades>>
           /\ pc[u] = "matching" /\ call'[u] = call[u]
<1>1. pc[u] = "matching"
  BY DEF BookInv, ThreadTypes, Invoke, EnterCriticalSection, Match, AddDuplicate,
     AddFillAndKill, AddOrder, CancelUnknown, CancelOrder, ModifyUnknown, ModifyKnown,
     MatchTrade, MatchSpin, MatchDone, Return, Relock, vars
<1>2. holder = u /\ holder # None
  BY <1>1, BookAssumption DEF BookInv, CallOK
<1>3. ~ EnterCriticalSection(t)
  BY <1>2 DEF EnterCriticalSection, AddDuplicate, AddFillAndKill, AddOrder, CancelUnknown,
     CancelOrder, ModifyUnknown, ModifyKnown, Enters
<1>4. ~ Match(t)
  BY <1>2 DEF Match, MatchTrade, MatchSpin, MatchDone, BookInv, CallOK
<1>5. PICK c \in Calls : Invoke(t, c)
  BY <1>3, <1>4
<1> QED BY <1>1, <1>5 DEF Invoke, book, BookInv, ThreadTypes

LEMMA AddOrderAccount ==
    ASSUME BookInv, NEW t \in Threads, AddOrder(t)
    PROVE  Accounted(t)'
<1>1. /\ call' = call /\ trades' = trades /\ trades[t] = <<>>
      /\ call[t].id \in DOMAIN orders'
      /\ orders'[call[t].id].remaining = call[t].quantity
  BY DEF AddOrder, Enters, BookInv, CallOK
<1>2. call[t].quantity \in Int
  <2>1. call[t] \in Calls /\ call[t].op = "AddOrder"
    BY DEF AddOrder, Enters, BookInv, CallOK
  <2>2. call[t] \in AddCalls
    BY <2>1 DEF Calls
  <2>3. call[t].quantity \in Quantities
    BY <2>2 DEF AddCalls
  <2>4. \A x \in Quantities : x \in Int
    BY BookAssumption
  <2> QED BY <2>3, <2>4
<1>3. Traded(<<>>) = <<>>
  BY DEF Traded
<1> QED BY <1>1, <1>2, <1>3, SumEmpty DEF Accounted, Wanted

(* A trade takes from the taker's remainder what it adds to its trades. *)
LEMMA MatchTradeAccount ==
    ASSUME CrossInv, NEW t \in Threads, Accounted(t), MatchTrade(t)
    PROVE  Accounted(t)'
<1> USE DEF CrossInv
<1>1. PICK bp \in DOMAIN bids, ap \in DOMAIN asks : \E b, a : MatchTradeStep(t, bp, ap, b, a)
  BY MatchTradeNamed
<1>2. PICK b, a : MatchTradeStep(t, bp, ap, b, a)
  BY <1>1
<1> DEFINE q == TradeQuantity(b, a)
           filled == Filled(b, a)
           rec == [bid |-> b, ask |-> a, quantity |-> q,
                   bidPrice |-> orders[b].price, askPrice |-> orders[a].price]
           i == call[t].id
<1>3. /\ pc[t] = "matching" /\ bp >= ap
      /\ CanTrade(bp, ap) /\ bids[bp] # <<>> /\ asks[ap] # <<>>
      /\ b = Head(bids[bp]) /\ a = Head(asks[ap])
      /\ orders' = WithoutFilled(filled, {b, a})
      /\ trades' = [trades EXCEPT ![t] = Append(@, rec)]
      /\ UNCHANGED <<pc, call>>
  BY <1>2 DEF MatchTradeStep, CanTrade, Crosses
<1>4. /\ b \in DOMAIN orders /\ a \in DOMAIN orders /\ a # b
      /\ orders[b].price = bp /\ orders[a].price = ap
      /\ orders[a].remaining \in Nat /\ orders[b].remaining \in Nat
      /\ q \in 1 .. QuantityRange - 1
      /\ q <= orders[a].remaining /\ q <= orders[b].remaining
  BY <1>3, TradeFacts
<1>5. /\ DOMAIN filled = DOMAIN orders
      /\ filled[b].remaining = orders[b].remaining - q
      /\ filled[a].remaining = orders[a].remaining - q
  <2>1. b \in DOMAIN orders /\ a \in DOMAIN orders
    BY <1>4
  <2> QED BY ONLY BookInv, <2>1, <1>4, FilledFacts
<1>6. i \in {a, b}
  <2>1. \A u \in Threads : pc[u] = "matching" => u = t
    BY <1>3 DEF BookInv, CallOK
  <2>2. TakerAlone(t, bp, ap)
    BY <2>1, <1>3 DEF OnlyTakerCrosses, TakerAlone
  <2>3. Head(<<i>>) = i
    OBVIOUS
  <2> QED BY <2>2, <2>3, <1>3 DEF TakerAlone
<1>7. rec \in TradeRecords /\ rec.quantity = q
  <2>1. b \in OrderIds /\ a \in OrderIds /\ bp \in Prices /\ ap \in Prices
    BY <1>4 DEF BookInv, BookTypes, Index, Levels, PartialFunction
  <2>2. q \in 0 .. QuantityRange - 1
    BY <1>4, BookAssumption
  <2> QED BY <2>1, <2>2, <1>4 DEF TradeRecords
<1>8. trades[t] \in Seq(TradeRecords) /\ trades'[t] = Append(trades[t], rec)
  BY <1>3 DEF BookInv, ThreadTypes
<1> HIDE DEF filled, rec, q, i
<1>9. SumOf(Traded(trades'[t])) = SumOf(Traded(trades[t])) + q
  BY <1>7, <1>8, TradedAppend
<1>10. Wanted(i)' = Wanted(i) - q /\ Wanted(i) \in Int
  <2> DEFINE new == WithoutFilled(filled, {b, a})
  <2>1. /\ DOMAIN new = {j \in DOMAIN filled : j \in {b, a} => filled[j].remaining # 0}
        /\ \A j \in DOMAIN new : new[j] = filled[j]
    BY WithoutFilledFacts
  <2>2. orders' = new
    BY <1>3
  <2> HIDE DEF new
  <2>3. /\ i \in DOMAIN orders /\ filled[i].remaining = orders[i].remaining - q
        /\ orders[i].remaining \in Nat
    BY <1>4, <1>5, <1>6
  <2>4. i \in DOMAIN new <=> orders[i].remaining - q # 0
    BY <2>1, <2>3, <1>5, <1>6
  <2>5. i' = i
    BY <1>3 DEF i
  <2> QED BY <2>1, <2>2, <2>3, <2>4, <2>5, <1>4, BookAssumption DEF Wanted
<1>11. SumOf(Traded(trades[t])) \in Int /\ q \in Int
  <2>1. Traded(trades[t]) \in Seq(Int)
    BY <1>8, TradedIsSum
  <2> QED BY <2>1, <1>4, SumType
<1>12. call[t].quantity = SumOf(Traded(trades[t])) + Wanted(i)
  BY DEF Accounted, i
<1>13. call' = call /\ call'[t].id = i /\ i' = i
  BY <1>3 DEF i
<1> QED BY <1>9, <1>10, <1>11, <1>12, <1>13 DEF Accounted, Wanted

LEMMA NextAccountInv == AccountInv /\ [Next]_vars => AccountInv'
<1> SUFFICES ASSUME AccountInv, [Next]_vars PROVE AccountInv'
  OBVIOUS
<1>1. CrossInv' /\ CrossInv /\ BookInv
  BY NextCrossInv DEF AccountInv, CrossInv
<1>2. CASE UNCHANGED vars
  BY <1>1, <1>2 DEF AccountInv, Accounted, Wanted, vars
<1>3. CASE Next
  <2> SUFFICES ASSUME NEW u \in Threads, pc'[u] = "matching"
               PROVE  Accounted(u)'
    BY <1>1 DEF AccountInv
  <2>1. PICK t \in Threads : \/ \E c \in Calls : Invoke(t, c)
                             \/ EnterCriticalSection(t)
                             \/ Match(t)
    BY <1>3 DEF Next
  <2>2. CASE u # t
    BY <2>1, <2>2, <1>1, OthersKeepAccount DEF AccountInv, Accounted, Wanted
  <2>3. CASE u = t
    <3>1. AddOrder(t) \/ MatchTrade(t) \/ MatchSpin(t)
      BY <2>1, <2>3, <1>1 DEF BookInv, ThreadTypes, Invoke, EnterCriticalSection, Match,
         AddDuplicate, AddFillAndKill, CancelUnknown, CancelOrder, ModifyUnknown,
         ModifyKnown, MatchDone, Return, Relock
    <3>2. CASE AddOrder(t)
      BY <3>2, <2>3, <1>1, AddOrderAccount
    <3>3. CASE MatchTrade(t)
      <4>1. Accounted(t)
        BY <3>3 DEF AccountInv, MatchTrade
      <4> QED BY <4>1, <3>3, <2>3, <1>1, MatchTradeAccount
    <3>4. CASE MatchSpin(t)
      BY <3>4, <2>3 DEF MatchSpin, vars, AccountInv, Accounted, Wanted
    <3> QED BY <3>1, <3>2, <3>3, <3>4
  <2> QED BY <2>2, <2>3
<1> QED BY <1>2, <1>3

(* However AddOrder's quantity is split over trades and orders, none of it is     *)
(* lost or filled twice: order_book.cpp:62-117 takes from the added order what    *)
(* it writes into the trades (order.h Fill), whatever rests in the book.          *)
THEOREM NothingLostInMatching == Spec => []TakerAccounted
<1>1. Init => AccountInv
  BY InitCrossInv DEF Init, AccountInv
<1>2. AccountInv => TakerAccounted
  <2> SUFFICES ASSUME AccountInv, NEW t \in Threads, pc[t] = "matching"
               PROVE  call[t].quantity =
                          FoldLeft(LAMBDA sum, tr : sum + tr.quantity, 0, trades[t])
                          + (IF call[t].id \in DOMAIN orders
                             THEN orders[call[t].id].remaining ELSE 0)
    BY DEF TakerAccounted
  <2>1. trades[t] \in Seq(TradeRecords)
    BY DEF AccountInv, CrossInv, BookInv, ThreadTypes
  <2> QED BY <2>1, TradedIsSum DEF AccountInv, Accounted, Wanted
<1> QED BY <1>1, <1>2, NextAccountInv, PTL DEF Spec

-----------------------------------------------------------------------------
(* What is reported of a level is what the index holds of it. *)

(* std::accumulate over a level wraps around once, however often it does. *)
LEMMA LevelIsSum ==
    ASSUME BookInv, NEW list \in Seq(DOMAIN orders)
    PROVE  LevelQuantity(list) = SumOf(Weights(list, Open)) % QuantityRange
<1> DEFINE v == Weights(list, Open)
           Def(F) == F = [T \in SUBSET (DOMAIN list) |->
                            IF T = {} THEN 0
                            ELSE (F[T \ {Max(T)}] + orders[list[Max(T)]].remaining) % QuantityRange]
           F == CHOOSE iter : Def(iter)
<1>1. LevelQuantity(list) = F[DOMAIN list]
  BY DEF LevelQuantity, FoldLeft, MapThenFoldSet
<1>2. Open \in [DOMAIN orders -> Int] /\ \A i \in DOMAIN orders : Open[i] = orders[i].remaining
  BY BookAssumption DEF Open, BookInv, BookTypes, Index, PartialFunction, Orders
<1>3. /\ DOMAIN list = 1 .. Len(list) /\ Len(list) \in Nat
      /\ v \in Seq(Int) /\ Len(v) = Len(list)
      /\ \A k \in DOMAIN list : v[k] = orders[list[k]].remaining
  <2> DEFINE S == DOMAIN orders
  <2>1. Open \in [S -> Int] /\ list \in Seq(S)
    BY <1>2
  <2> HIDE DEF S
  <2>2. /\ v \in Seq(Int) /\ Len(v) = Len(list)
        /\ \A k \in 1 .. Len(list) : v[k] = Open[list[k]]
    BY ONLY <2>1, WeightsType
  <2> HIDE DEF v
  <2>3. DOMAIN list = 1 .. Len(list) /\ Len(list) \in Nat
    OBVIOUS
  <2> QED BY <2>2, <2>3, <1>2
<1>4. QuantityRange \in Nat \ {0}
  BY BookAssumption
<1> HIDE DEF v
<1>5. \A T \in SUBSET (DOMAIN list) : T # {} => v[Max(T)] = orders[list[Max(T)]].remaining
  BY <1>3, MaxIsLast
<1>6. PICK G : FoldsModulo(G, v, QuantityRange)
  BY <1>3, <1>4, ModuloFoldExists
<1>7. Def(G)
  BY <1>3, <1>5, <1>6 DEF FoldsModulo
<1>8. Def(F)
  BY <1>7
<1> HIDE DEF F
<1>9. \A T \in SUBSET (1 .. Len(v)) :
          F[T] = IF T = {} THEN 0 ELSE (F[T \ {Max(T)}] + v[Max(T)]) % QuantityRange
  <2> TAKE T \in SUBSET (1 .. Len(v))
  <2>1. T \in SUBSET (DOMAIN list)
    BY <1>3
  <2>2. F[T] = IF T = {} THEN 0 ELSE (F[T \ {Max(T)}] + orders[list[Max(T)]].remaining) % QuantityRange
    BY <1>8, <2>1
  <2>3. CASE T = {}
    BY <2>2, <2>3
  <2>4. CASE T # {}
    <3>1. v[Max(T)] = orders[list[Max(T)]].remaining
      BY <1>5, <2>1, <2>4
    <3> QED BY ONLY <2>2, <2>4, <3>1
  <2> QED BY <2>3, <2>4
<1>10. F[1 .. Len(v)] = SumOf(v) % QuantityRange
  BY <1>3, <1>4, <1>9, ModuloFold
<1> QED BY <1>1, <1>3, <1>10 DEF v

(* The orders of side s at price p. *)
Here(s, p) == {i \in DOMAIN orders : orders[i].side = s /\ orders[i].price = p}

(* The sum over a set is that of any list of its members. *)
LEMMA WantedIsSum ==
    ASSUME BookInv, NEW s, NEW p, NEW list, Lists(list, Here(s, p))
    PROVE  MapThenSumSet(LAMBDA i : orders[i].remaining, Here(s, p))
               = SumOf(Weights(list, Open))
<1> DEFINE S == Here(s, p)
           w == [i \in S |-> orders[i].remaining]
           pick == AnyOf(S)
           Def(F) == F = [T \in SUBSET S |->
                            IF T = {} THEN 0
                            ELSE orders[CHOOSE x \in T : TRUE].remaining
                                     + F[T \ {CHOOSE x \in T : TRUE}]]
           F == CHOOSE iter : Def(iter)
<1>1. MapThenSumSet(LAMBDA i : orders[i].remaining, S) = F[S]
  BY DEF MapThenSumSet, MapThenFoldSet
<1>2. w \in [S -> Int] /\ \A i \in S : w[i] = orders[i].remaining /\ w[i] = Open[i]
  <2>1. \A i \in DOMAIN orders : orders[i].remaining \in Int
    BY BookAssumption DEF BookInv, BookTypes, Index, PartialFunction, Orders
  <2> QED BY <2>1 DEF Here, Open
<1>3. IsFiniteSet(S) /\ list \in Seq(S)
  BY ListIsFinite DEF Lists
<1>4. \A T \in SUBSET S : T # {} => /\ pick[T] = CHOOSE x \in T : TRUE
                                   /\ pick[T] \in T
                                   /\ w[pick[T]] = orders[pick[T]].remaining
  BY DEF AnyOf
<1> HIDE DEF S, w, pick
<1>5. PICK G \in [SUBSET S -> Int] : AddsUp(G, S, w, pick)
  BY <1>2, <1>3, SetSumExists DEF pick
<1>6. Def(G)
  BY <1>4, <1>5 DEF AddsUp
<1>7. Def(F)
  BY <1>6
<1> HIDE DEF F
<1>8. AddsUp(F, S, w, pick)
  <2>1. \A T \in SUBSET S :
            F[T] = IF T = {} THEN 0
                   ELSE orders[CHOOSE x \in T : TRUE].remaining
                            + F[T \ {CHOOSE x \in T : TRUE}]
    BY <1>7
  <2> QED BY <2>1, <1>4 DEF AddsUp
<1>9. ListedSum(Len(list), F, S, w)
  <2>1. \A T \in SUBSET S : T # {} => pick[T] \in T
    BY <1>4
  <2>2. w \in [S -> Int]
    BY <1>2
  <2>3. \A n \in Nat : ListedSum(n, F, S, w)
    BY ONLY <2>1, <2>2, <1>8, SumOfListed
  <2> QED BY <2>3, <1>3
<1>10. F[S] = SumOf(Weights(list, w))
  BY <1>3, <1>9 DEF ListedSum, S
<1>11. Weights(list, w) = Weights(list, Open)
  BY <1>2, <1>3 DEF Weights
<1> QED BY <1>1, <1>10, <1>11 DEF S

(* The level at a price lists the index's orders at that price, each once. *)
LEMMA LevelListsHere ==
    ASSUME BookInv, NEW s \in Sides, NEW p \in Prices
    PROVE  LET levels == IF s = "Buy" THEN bids ELSE asks
           IN  Lists(AtPrice(levels, p), Here(s, p))
<1> DEFINE levels == IF s = "Buy" THEN bids ELSE asks
           list == AtPrice(levels, p)
<1>1. Levels(levels) /\ Files(levels, orders, s)
  BY DEF Sides, BookInv, BookTypes, IndexConsistent
<1> HIDE DEF levels
<1>2. CASE p \in DOMAIN levels
  <2>1. list = levels[p] /\ list \in Seq(OrderIds)
    BY <1>1, <1>2 DEF AtPrice, Levels, PartialFunction
  <2>2. /\ IsInjective(list)
        /\ \A k \in DOMAIN list : list[k] \in Here(s, p)
        /\ \A i \in Here(s, p) : \E k \in DOMAIN list : list[k] = i
    BY <1>1, <1>2, <2>1 DEF Files, Here
  <2> HIDE DEF list
  <2>3. list \in Seq(Here(s, p))
    <3>1. DOMAIN list = 1 .. Len(list) /\ Len(list) \in Nat
      BY <2>1
    <3> QED BY <2>1, <2>2, <3>1
  <2> QED BY <2>2, <2>3 DEF Lists, list, levels
<1>3. CASE p \notin DOMAIN levels
  <2>1. list = <<>>
    BY <1>3 DEF AtPrice
  <2>2. Here(s, p) = {}
    BY <1>1, <1>3 DEF Files, Here
  <2>3. <<>> \in Seq(Here(s, p)) /\ IsInjective(<<>>)
    BY DEF IsInjective
  <2> QED BY <2>1, <2>2, <2>3 DEF Lists, levels
<1> QED BY <1>2, <1>3

LEMMA ReportedIsHeld ==
    ASSUME BookInv, NEW s \in Sides, NEW p \in Prices
    PROVE  (IF p \in DOMAIN GetOrderInfos[s] THEN GetOrderInfos[s][p] ELSE 0)
               = MapThenSumSet(LAMBDA i : orders[i].remaining, Here(s, p)) % QuantityRange
<1> DEFINE levels == IF s = "Buy" THEN bids ELSE asks
           list == AtPrice(levels, p)
<1>1. Lists(list, Here(s, p))
  BY LevelListsHere
<1>2. list \in Seq(DOMAIN orders)
  <2>1. list \in Seq(Here(s, p)) /\ Here(s, p) \subseteq DOMAIN orders
    BY <1>1 DEF Lists, Here
  <2> HIDE DEF list
  <2> QED BY <2>1
<1>3. GetOrderInfos[s] = [r \in DOMAIN levels |-> LevelQuantity(levels[r])]
  BY DEF GetOrderInfos, Sides
<1>4. (IF p \in DOMAIN GetOrderInfos[s] THEN GetOrderInfos[s][p] ELSE 0)
          = SumOf(Weights(list, Open)) % QuantityRange
  <2>1. CASE p \in DOMAIN levels
    BY <2>1, <1>2, <1>3, LevelIsSum DEF AtPrice
  <2>2. CASE p \notin DOMAIN levels
    <3>1. list = <<>>
      BY <2>2 DEF AtPrice
    <3>2. Weights(<<>>, Open) = <<>>
      BY DEF Weights
    <3>3. 0 % QuantityRange = 0
      <4>1. QuantityRange \in Nat \ {0}
        BY BookAssumption
      <4>2. 0 \in Int /\ 0 \in 0 .. QuantityRange - 1 /\ 0 = QuantityRange * 0 + 0
        BY <4>1
      <4> QED BY <4>1, <4>2, RemainderUnique
    <3> QED BY <3>1, <3>2, <3>3, <2>2, <1>3, SumEmpty
  <2> QED BY <2>1, <2>2
<1>5. MapThenSumSet(LAMBDA i : orders[i].remaining, Here(s, p)) = SumOf(Weights(list, Open))
  <2> HIDE DEF list
  <2> QED BY <1>1, WantedIsSum
<1> QED BY <1>4, <1>5

(* For any number of orders at a price, and whatever width the accumulator has:  *)
(* the quantity GetOrderInfos reports of a level, counted from its list, is the   *)
(* one the index holds at that price, modulo the width (order_book.cpp:190-216).  *)
THEOREM ReportsAreTheIndex == Spec => []ReportsMatchIndex
<1>1. BookInv => ReportsMatchIndex
  BY ReportedIsHeld DEF ReportsMatchIndex, Here
<1> QED BY <1>1, AlwaysBookInv, PTL

-----------------------------------------------------------------------------
(* What the operations on a map of levels do to the queue at each price. *)

LEMMA AtPricePushBack ==
    ASSUME NEW f, NEW p, NEW i, NEW r
    PROVE  AtPrice(PushBack(f, p, i), r)
                = IF r = p THEN Append(AtPrice(f, p), i) ELSE AtPrice(f, r)
BY DEF AtPrice, PushBack

LEMMA AtPriceReplace ==
    ASSUME NEW f, NEW p \in DOMAIN f, NEW list, NEW r
    PROVE  /\ AtPrice([f EXCEPT ![p] = list], r) = IF r = p THEN list ELSE AtPrice(f, r)
           /\ AtPrice(SetOrErase(f, p, list), r) = IF r = p THEN list ELSE AtPrice(f, r)
BY DEF AtPrice, SetOrErase, Restrict

(* Replacing the queue of one side at one price. *)
LEMMA ReplaceOne ==
    ASSUME NEW A, NEW B, NEW S, NEW f \in [A -> [B -> S]], NEW a \in A, NEW b \in B, NEW x
    PROVE  [f EXCEPT ![a][b] = x]
                = [u \in A |-> [r \in B |-> IF u = a /\ r = b THEN x ELSE f[u][r]]]
<1>1. \A u \in A : [f EXCEPT ![a][b] = x][u]
                        = [r \in B |-> IF u = a /\ r = b THEN x ELSE f[u][r]]
  OBVIOUS
<1> QED BY <1>1

LEMMA QueueType == BookTypes => Queue \in [Sides -> [Prices -> Seq(OrderIds)]]
<1> SUFFICES ASSUME BookTypes, NEW s \in Sides, NEW p \in Prices
             PROVE  AtPrice(IF s = "Buy" THEN bids ELSE asks, p) \in Seq(OrderIds)
  BY DEF Queue
<1> QED BY DEF BookTypes, Levels, PartialFunction, AtPrice

(* If only the queue of side s at price p changes, the abstract queue changes there. *)
LEMMA QueueChange ==
    ASSUME BookTypes, NEW s \in Sides, NEW p \in Prices, NEW list,
           \A u \in Sides, r \in Prices :
               AtPrice(IF u = "Buy" THEN bids' ELSE asks', r)
                   = IF u = s /\ r = p THEN list
                     ELSE AtPrice(IF u = "Buy" THEN bids ELSE asks, r)
    PROVE  Queue' = [Queue EXCEPT ![s][p] = list]
<1>1. [Queue EXCEPT ![s][p] = list]
        = [u \in Sides |-> [r \in Prices |-> IF u = s /\ r = p THEN list ELSE Queue[u][r]]]
  BY QueueType, ReplaceOne
<1>2. \A u \in Sides, r \in Prices :
        Queue[u][r] = AtPrice(IF u = "Buy" THEN bids ELSE asks, r)
  BY DEF Queue
<1>3. Queue' = [u \in Sides |-> [r \in Prices |->
                    AtPrice(IF u = "Buy" THEN bids' ELSE asks', r)]]
  BY DEF Queue
<1> QED BY <1>1, <1>2, <1>3

LEMMA BookOnly == UNCHANGED book => UNCHANGED <<Queue, Open>>
BY DEF book, Queue, Open, AtPrice

LEMMA InitRefines == Init => PTP!Init
BY DEF Init, PTP!Init, Queue, Open, AtPrice, Sides, PTP!Sides

-----------------------------------------------------------------------------
(* AddOrder places the order. *)
LEMMA AddOrderPlaces ==
    ASSUME BookInv, NEW t \in Threads, AddOrder(t)
    PROVE  PTP!Next
<1> DEFINE c == call[t]
           o == [type |-> c.type, side |-> c.side, price |-> c.price, remaining |-> c.quantity]
<1>1. /\ c \in AddCalls /\ c.id \notin DOMAIN orders
      /\ bids' = IF c.side = "Buy" THEN PushBack(bids, c.price, c.id) ELSE bids
      /\ asks' = IF c.side = "Sell" THEN PushBack(asks, c.price, c.id) ELSE asks
      /\ orders' = [i \in DOMAIN orders \cup {c.id} |-> IF i = c.id THEN o ELSE orders[i]]
  <2>1. c \in Calls /\ c.op = "AddOrder"
    BY BookAssumption DEF AddOrder, Enters, BookInv, ThreadTypes, CallOK
  <2>2. c \in AddCalls
    BY <2>1 DEF Calls, AddCalls
  <2> QED BY <2>2 DEF AddOrder, Known
<1>2. c.id \in OrderIds /\ c.side \in Sides /\ c.price \in Prices /\ c.quantity \in Quantities
  BY <1>1 DEF AddCalls
<1> HIDE DEF c
<1>3. Open' = [j \in DOMAIN Open \cup {c.id} |-> IF j = c.id THEN c.quantity ELSE Open[j]]
  BY <1>1 DEF Open
<1>4. Queue' = [Queue EXCEPT ![c.side][c.price] = Append(@, c.id)]
  <2> DEFINE levels == IF c.side = "Buy" THEN bids ELSE asks
             new == IF c.side = "Buy" THEN bids' ELSE asks'
             list == Append(Queue[c.side][c.price], c.id)
  <2>1. Queue[c.side][c.price] = AtPrice(levels, c.price)
    BY <1>2 DEF Queue
  <2>2. new = PushBack(levels, c.price, c.id)
    BY <1>1, <1>2 DEF Sides
  <2>3. \A r \in Prices : AtPrice(new, r) = IF r = c.price THEN list ELSE AtPrice(levels, r)
    <3> HIDE DEF new, levels
    <3> QED BY <2>1, <2>2 DEF AtPrice, PushBack
  <2>4. \A u \in Sides : u # c.side =>
            (IF u = "Buy" THEN bids' ELSE asks') = (IF u = "Buy" THEN bids ELSE asks)
    BY <1>1, <1>2 DEF Sides
  <2> HIDE DEF list
  <2>5. Queue' = [Queue EXCEPT ![c.side][c.price] = list]
    BY <1>2, <2>3, <2>4, QueueChange DEF BookInv
  <2> QED BY <2>5 DEF list
<1>5. PTP!Place(c.side, c.price, c.id, c.quantity)
  BY <1>1, <1>3, <1>4 DEF PTP!Place, Open
<1> QED BY <1>2, <1>5 DEF PTP!Next, PTP!Sides, Sides

(* CancelOrder withdraws the order. *)
LEMMA CancelOrderWithdraws ==
    ASSUME BookInv, NEW t \in Threads, CancelOrder(t)
    PROVE  PTP!Next
<1> DEFINE i == call[t].id
           o == orders[i]
           levels == IF o.side = "Buy" THEN bids ELSE asks
           k == CHOOSE j \in DOMAIN levels[o.price] : levels[o.price][j] = i
           list == RemoveAt(levels[o.price], k)
<1>1. /\ i \in DOMAIN orders
      /\ bids' = IF o.side = "Buy" THEN Unlink(bids, o.price, i) ELSE bids
      /\ asks' = IF o.side = "Sell" THEN Unlink(asks, o.price, i) ELSE asks
      /\ orders' = Restrict(orders, DOMAIN orders \ {i})
  BY DEF CancelOrder, Known
<1> HIDE DEF i
<1>2. o.side \in Sides /\ o.price \in Prices
  BY <1>1 DEF BookInv, BookTypes, Index, PartialFunction, Orders
<1>3. /\ o.price \in DOMAIN levels
      /\ \E j \in DOMAIN levels[o.price] : levels[o.price][j] = i
  BY <1>1, <1>2 DEF BookInv, IndexConsistent, Files, Sides
<1> HIDE DEF o, levels
<1>4. k \in DOMAIN levels[o.price] /\ levels[o.price][k] = i
  BY <1>3
<1>5. Unlink(levels, o.price, i) = SetOrErase(levels, o.price, list)
  BY DEF Unlink
<1> HIDE DEF k
<1>6. Queue[o.side][o.price] = levels[o.price]
  BY <1>2, <1>3 DEF Queue, AtPrice, levels
<1>7. Queue' = [Queue EXCEPT ![o.side][o.price] = list]
  <2> DEFINE new == IF o.side = "Buy" THEN bids' ELSE asks'
  <2> HIDE DEF list
  <2>1. new = SetOrErase(levels, o.price, list)
    BY <1>1, <1>2, <1>5 DEF Sides, levels
  <2>2. \A r \in Prices : AtPrice(new, r) = IF r = o.price THEN list ELSE AtPrice(levels, r)
    <3> HIDE DEF new
    <3> QED BY <2>1, <1>3 DEF AtPrice, SetOrErase, Restrict
  <2>3. \A u \in Sides : u # o.side =>
            (IF u = "Buy" THEN bids' ELSE asks') = (IF u = "Buy" THEN bids ELSE asks)
    BY <1>1, <1>2 DEF Sides
  <2> QED BY <1>2, <2>2, <2>3, QueueChange DEF BookInv, levels
<1>8. Open' = Restrict(Open, DOMAIN Open \ {i})
  BY <1>1 DEF Open, Restrict
<1>9. PTP!Withdraw(o.side, o.price, k)
  <2>1. list = PTP!RemoveAt(Queue[o.side][o.price], k)
    BY <1>6 DEF RemoveAt, PTP!RemoveAt
  <2>2. Open' = PTP!Restrict(Open, DOMAIN Open \ {Queue[o.side][o.price][k]})
    BY <1>4, <1>6, <1>8 DEF Restrict, PTP!Restrict
  <2> HIDE DEF list
  <2> QED BY <1>4, <1>6, <1>7, <2>1, <2>2 DEF PTP!Withdraw
<1> QED BY <1>2, <1>4, <1>6, <1>9 DEF PTP!Next, PTP!Sides, Sides
(* A turn of the matching loop is a trade between the heads of the best queues. *)
LEMMA MatchTradeTrades ==
    ASSUME BookInv, NEW t \in Threads, MatchTrade(t)
    PROVE  PTP!Next
<1>1. PICK bp \in DOMAIN bids, ap \in DOMAIN asks : \E b, a : MatchTradeStep(t, bp, ap, b, a)
  BY MatchTradeNamed
<1>2. PICK b, a : MatchTradeStep(t, bp, ap, b, a)
  BY <1>1
<1> DEFINE q == TradeQuantity(b, a)
           filled == Filled(b, a)
           bidList == PopIfFilled(bids[bp], filled[b])
           askList == PopIfFilled(asks[ap], filled[a])
<1>3. /\ b = Head(bids[bp]) /\ a = Head(asks[ap]) /\ CanTrade(bp, ap)
      /\ bids[bp] # <<>> /\ asks[ap] # <<>>
      /\ IsBestBid(bp) /\ IsBestAsk(ap) /\ bp >= ap
  BY <1>2 DEF MatchTradeStep, CanTrade, Crosses
<1>4. /\ b \in DOMAIN orders /\ a \in DOMAIN orders /\ a # b
      /\ orders[a].remaining \in Nat /\ orders[b].remaining \in Nat
      /\ q \in 1 .. QuantityRange - 1
      /\ q <= orders[a].remaining /\ q <= orders[b].remaining
  BY <1>3, TradeFacts
<1>5. /\ bp \in Prices /\ ap \in Prices
      /\ Queue["Buy"][bp] = bids[bp] /\ Queue["Sell"][ap] = asks[ap]
  BY DEF BookInv, BookTypes, Levels, PartialFunction, Queue, AtPrice, Sides
<1>6. DOMAIN Open = DOMAIN orders /\ \A i \in DOMAIN orders : Open[i] = orders[i].remaining
  BY DEF Open
<1>7. q = IF Open[b] <= Open[a] THEN Open[b] ELSE Open[a]
  BY <1>4, <1>6 DEF TradeQuantity
<1>8. /\ DOMAIN filled = DOMAIN orders
      /\ filled[b].remaining = Open[b] - q
      /\ filled[a].remaining = Open[a] - q
      /\ \A i \in DOMAIN orders : i \notin {a, b} => filled[i] = orders[i]
  <2>1. b \in DOMAIN orders /\ a \in DOMAIN orders
    BY <1>4
  <2> QED BY ONLY BookInv, <2>1, <1>4, <1>6, FilledFacts
<1>9. PTP!BestPrice("Buy", bp) /\ PTP!BestPrice("Sell", ap)
  <2>1. \A r \in Prices : Queue["Buy"][r] # <<>> => r <= bp
    BY <1>3 DEF Queue, Sides, AtPrice, IsBestBid
  <2>2. \A r \in Prices : Queue["Sell"][r] # <<>> => r >= ap
    <3>1. \A r \in DOMAIN asks : r >= ap
      BY <1>3, <1>5, BookAssumption
         DEF IsBestAsk, BookInv, BookTypes, Levels, PartialFunction
    <3> QED BY <3>1 DEF Queue, Sides, AtPrice
  <2> QED BY <2>1, <2>2, <1>3, <1>5 DEF PTP!BestPrice
<1>10. /\ bidList = IF Open[b] = q THEN Tail(Queue["Buy"][bp]) ELSE Queue["Buy"][bp]
       /\ askList = IF Open[a] = q THEN Tail(Queue["Sell"][ap]) ELSE Queue["Sell"][ap]
  BY <1>4, <1>5, <1>6, <1>8 DEF PopIfFilled
<1>11. /\ bids' = SetOrErase(bids, bp, bidList)
       /\ asks' = IF bidList = <<>> THEN [asks EXCEPT ![ap] = askList]
                  ELSE SetOrErase(asks, ap, askList)
       /\ orders' = WithoutFilled(filled, {b, a})
  BY <1>2 DEF MatchTradeStep, EraseEmptied
<1> HIDE DEF filled, bidList, askList, q
<1>12. \A r \in Prices : AtPrice(bids', r) = IF r = bp THEN bidList ELSE AtPrice(bids, r)
  BY <1>11 DEF AtPrice, SetOrErase, Restrict
<1>13. \A r \in Prices : AtPrice(asks', r) = IF r = ap THEN askList ELSE AtPrice(asks, r)
  BY <1>11 DEF AtPrice, SetOrErase, Restrict
<1>14. Queue' = [s \in Sides |-> IF s = "Buy" THEN [Queue[s] EXCEPT ![bp] = bidList]
                                 ELSE [Queue[s] EXCEPT ![ap] = askList]]
  <2>1. /\ Queue["Buy"] = [r \in Prices |-> AtPrice(bids, r)]
        /\ Queue["Sell"] = [r \in Prices |-> AtPrice(asks, r)]
    BY DEF Queue, Sides
  <2>2. [Queue["Buy"] EXCEPT ![bp] = bidList] = [r \in Prices |-> AtPrice(bids', r)]
    BY <2>1, <1>5, <1>12
  <2>3. [Queue["Sell"] EXCEPT ![ap] = askList] = [r \in Prices |-> AtPrice(asks', r)]
    BY <2>1, <1>5, <1>13
  <2>4. Queue' = [s \in Sides |-> [r \in Prices |->
                        AtPrice(IF s = "Buy" THEN bids' ELSE asks', r)]]
    BY DEF Queue
  <2> QED BY <2>2, <2>3, <2>4 DEF Sides
<1>15. Open' = [i \in {j \in DOMAIN Open : j \in {a, b} => Open[j] > q} |->
                   IF i \in {a, b} THEN Open[i] - q ELSE Open[i]]
  <2> DEFINE new == WithoutFilled(filled, {b, a})
  <2>1. /\ DOMAIN new = {i \in DOMAIN filled : i \in {b, a} => filled[i].remaining # 0}
        /\ \A i \in DOMAIN new : new[i] = filled[i]
    BY WithoutFilledFacts
  <2> HIDE DEF new
  <2>2. Open' = [i \in DOMAIN new |-> new[i].remaining]
    BY <1>11 DEF Open, new
  <2>3. DOMAIN new = {j \in DOMAIN Open : j \in {a, b} => Open[j] > q}
    BY <2>1, <1>4, <1>6, <1>8
  <2>4. \A i \in DOMAIN new :
            new[i].remaining = IF i \in {a, b} THEN Open[i] - q ELSE Open[i]
    BY <2>1, <1>6, <1>8
  <2> QED BY <2>2, <2>3, <2>4
<1>16. PTP!Trade(bp, ap)
  <2>1. b = Head(Queue["Buy"][bp]) /\ a = Head(Queue["Sell"][ap])
    BY <1>3, <1>5
  <2>2. bp >= ap /\ q > 0
    BY <1>3, <1>4, BookAssumption
  <2>3. Queue' = [s \in PTP!Sides |->
            IF s = "Buy"
            THEN [Queue[s] EXCEPT ![bp] =
                    IF Open[b] = q THEN Tail(Queue[s][bp]) ELSE Queue[s][bp]]
            ELSE [Queue[s] EXCEPT ![ap] =
                    IF Open[a] = q THEN Tail(Queue[s][ap]) ELSE Queue[s][ap]]]
    BY <1>10, <1>14 DEF PTP!Sides, Sides
  <2> QED BY ONLY <2>1, <2>2, <2>3, <1>7, <1>9, <1>15 DEF PTP!Trade
<1> QED BY <1>5, <1>16 DEF PTP!Next

-----------------------------------------------------------------------------

LEMMA NextRefines == BookInv /\ [Next]_vars => [PTP!Next]_PTP!absVars
<1> SUFFICES ASSUME BookInv, [Next]_vars
             PROVE  PTP!Next \/ UNCHANGED <<Queue, Open>>
  BY DEF PTP!absVars
<1>1. CASE UNCHANGED vars
  BY <1>1, BookOnly DEF vars, book
<1>2. CASE Next
  <2>1. PICK t \in Threads : \/ \E c \in Calls : Invoke(t, c)
                             \/ EnterCriticalSection(t)
                             \/ Match(t)
    BY <1>2 DEF Next
  <2>2. CASE AddOrder(t)
    BY <2>2, AddOrderPlaces
  <2>3. CASE CancelOrder(t)
    BY <2>3, CancelOrderWithdraws
  <2>4. CASE MatchTrade(t)
    BY <2>4, MatchTradeTrades
  <2>5. CASE \/ \E c \in Calls : Invoke(t, c)
             \/ AddDuplicate(t) \/ AddFillAndKill(t) \/ CancelUnknown(t)
             \/ ModifyUnknown(t) \/ ModifyKnown(t) \/ MatchSpin(t) \/ MatchDone(t)
    <3>1. UNCHANGED book
      BY <2>5 DEF Invoke, AddDuplicate, AddFillAndKill, CancelUnknown, ModifyUnknown,
                  ModifyKnown, MatchSpin, MatchDone, vars, book
    <3> QED BY <3>1, BookOnly
  <2> QED BY <2>1, <2>2, <2>3, <2>4, <2>5 DEF EnterCriticalSection, Match
<1> QED BY <1>1, <1>2 DEF vars

(* However many threads use it, and in whatever order they come, what the book *)
(* of order_book.cpp does to its queues is what the price-time rule allows.     *)
THEOREM BookKeepsPriceTimePriority == Spec => ImplementsPriceTimePriority
<1> QED BY InitRefines, NextRefines, AlwaysBookInv, PTL
        DEF Spec, ImplementsPriceTimePriority, PTP!Spec
=============================================================================
