-------------------------------- MODULE Tpcc --------------------------------
(* The TPC-C transactions of the benchmark crate over the engine's tables:    *)
(* new_order, payment, delivery, order_status and stock_level, and bench_task,*)
(* which retries a transaction that returns an error and gives it up after a  *)
(* number of attempts, and reset_order between two iterations of a benchmark. *)
(*                                                                            *)
(* A table is a function from keys to records: DbTable looks a key up in its  *)
(* index and tries to lock the record, and a busy lock is an error that ends  *)
(* the transaction with `?`, which drops its guards and keeps its writes.     *)
(* What a guard protects (reads and writes of the fields through the cache)   *)
(* is ClockCache's; here a held lock makes an update a single step.  Only     *)
(* stock and customer records are reached from other warehouses, so every     *)
(* lock of theirs is a step of its own; the order and order_line records of a *)
(* warehouse are reached by its own task alone.  But the cache locks a record *)
(* of any warehouse for the moment it evicts it.                              *)
(*                                                                            *)
(* A run is followed up to its first panic, which fails the benchmark.        *)
EXTENDS Integers, SequencesExt, FiniteSetsExt

CONSTANTS
  NTasks,       \* tasks running bench_task: one per thread, or a group of them
  NWarehouses,
  NDistricts,   \* DISTRICT_SCALE, 10 in the code
  NCustomers,   \* CUSTOMER_SCALE per district, 3000
  NItems,       \* ITEM_SCALE, 100000
  OlCnt,        \* the numbers of lines an order may have, 5..15
  Quantities,   \* ol_quantity, 1..10
  MinStock,     \* 10: a stock that would fall below is refilled
  Refill,       \* 91
  LoadedStock,  \* s_quantity at load, in 10..100
  LoadedDone,   \* 2101: loaded orders with a smaller id are delivered already
  c_discount,   \* <<w, d, c>> -> the discount the customer was loaded with
  MaxDiscount,  \* 0.5, the end of the range discounts are drawn from
  RecentOrders, \* 20, the orders stock_level says it looks at
  Radix,        \* 2^16, the room of one field of an order key
  RidBuffer,    \* 12, the rids order_status has room for
  LineBuffer,   \* 128, the rids stock_level has room for
  MaxRetry,     \* 5
  MaxTxns,      \* bound: task -> the transactions it starts in a run
  IterationEnds \* bound: the values of started at which an iteration may end

Tasks      == 0 .. NTasks - 1
Warehouses == 0 .. NWarehouses - 1
Districts  == 0 .. NDistricts - 1
Customers  == 0 .. NCustomers - 1
Items      == 0 .. NItems - 1
None       == [type |-> "none"]         \* no transaction
Nobody     == -1                       \* a last name or an item that does not exist

\* Every task has a warehouse, an order has a line, and a refill makes up for
\* any quantity that is ordered.
ASSUME ScaleAssumption ==
  /\ NWarehouses \in Nat /\ NItems \in Nat /\ Radix \in Nat
  /\ NTasks \in 1 .. NWarehouses
  /\ OlCnt \subseteq Nat \ {0}
  /\ MinStock \in Nat /\ Refill \in Nat
  /\ \A q \in Quantities : q \in 1 .. Refill
  /\ LoadedStock \in MinStock .. MinStock + Refill - 1
  /\ NCustomers \in 1 .. Radix /\ NDistricts \in 1 .. Radix
  /\ RidBuffer \in Nat \ {0}
  /\ RecentOrders \in 0 .. NCustomers + 1
  /\ MaxDiscount \in Nat
  /\ c_discount \in [Warehouses \X Districts \X Customers -> 0 .. MaxDiscount]

VARIABLES
  warehouse,   \* w_id -> w_ytd
  district,    \* <<w, d>> -> [d_ytd, d_next_o_id]
  customer,    \* <<w, d, c>> -> [c_balance, c_ytd_payment, c_delivery_cnt]
  stock,       \* <<w, i>> -> [s_quantity, s_ytd, s_order_cnt, s_remote_cnt]
  order,       \* order key -> record
  order_line,  \* <<w, d, o, i>> -> record
  new_order,   \* the keys of the new_order index
  wlock,       \* task -> records it holds an OidWriteGuard on
  rlock,       \* task -> records it holds an OidReadGuard on
  pc, txn, loc,
  retry,       \* task -> failed attempts of its transaction
  started,     \* task -> transactions it has started
  base,        \* history: what the last load or reset_order left as it was
  strayed      \* history: w_id -> payments that failed after they were added to it

tables == <<warehouse, district, customer, stock, order, order_line, new_order>>
vars == <<tables, wlock, rlock, pc, txn, loc, retry, started, base, strayed>>

-----------------------------------------------------------------------------
\* Four fields, the lower three of them of Radix values, added without a mask.
make_key(w, d, x, y) == ((w * Radix + d) * Radix + x) * Radix + y

\* OrderTuple::make_key, of the fields of the record.
order_key(r) == make_key(r.w, r.d, r.o_c_id, r.o_id)

\* Mutant: the fields in the order of the other key.
new_order_key_Swapped(r) == make_key(r.w, r.d, r.o_c_id, r.o_id)

\* NewOrderTuple::make_key.
new_order_key(r) == make_key(r.w, r.d, r.o_id, r.o_c_id)

\* NewOrderTuple::o_c_id_from_key, which does mask.
o_c_id_from_key(k) == [o |-> (k \div Radix) % Radix, c |-> k % Radix]

\* ArtRaw::range: the first n keys in [low, high), in key order.
ScanKeys(keys, low, high, n) ==
  LET found == {k \in keys : low <= k /\ k < high} IN
    [i \in 1 .. Min({n, Cardinality(found)}) |->
       CHOOSE k \in found : Cardinality({j \in found : j < k}) = i - 1]

\* The keys of the first n order lines of a district with an order in os and
\* an item below high, in key order.
ScanLines(w, d, os, high, n) ==
  LET found == {k \in DOMAIN order_line : k[1] = w /\ k[2] = d /\ k[3] \in os /\ k[4] < high}
      Before(a, b) == a[3] < b[3] \/ (a[3] = b[3] /\ a[4] < b[4])
  IN  [i \in 1 .. Min({n, Cardinality(found)}) |->
         CHOOSE k \in found : Cardinality({j \in found : Before(j, k)}) = i - 1]

-----------------------------------------------------------------------------
\* The slice of the warehouses that the inputs of a task are drawn from.
Home(t) ==
  LET n == NWarehouses \div NTasks IN n * t .. Min({n * (t + 1), NWarehouses}) - 1

\* NewOrderInput::gen: lines of consecutive items, each supplied by the home
\* warehouse or any other.  With rbk the last item is one that does not exist,
\* as are the ones that run past the last item.
Item(i, rbk) == IF rbk \/ i \notin Items THEN Nobody ELSE i
NewOrderInputs(t) ==
  UNION {{[type |-> "new_order", w |-> w, d |-> d, c |-> c,
           lines |-> [n \in 1 .. cnt |->
             [item     |-> Item(start + n - 1, rbk /\ n = cnt),
              supply   |-> IF Item(start + n - 1, rbk /\ n = cnt) = Nobody THEN w ELSE supply[n],
              quantity |-> q]]] :
            w \in Home(t), d \in Districts, c \in Customers, start \in Items,
            rbk \in BOOLEAN, supply \in [1 .. cnt -> Warehouses], q \in Quantities} :
         cnt \in OlCnt}

\* PaymentInput::gen: a customer by id or by last name, mostly of the home
\* district, sometimes of any.
PaymentInputs(t) ==
  {[type |-> "payment", w |-> w, d |-> d, cw |-> cw, cd |-> cd, c |-> c] :
     w \in Home(t), d \in Districts, cw \in Warehouses, cd \in Districts,
     c \in Customers \cup {Nobody}}

\* The inputs of the other three: OrderStatusInput by id or by last name.
DeliveryInputs(t) == {[type |-> "delivery", w |-> w] : w \in Home(t)}
OrderStatusInputs(t) ==
  {[type |-> "order_status", w |-> w, d |-> d, c |-> c] :
     w \in Home(t), d \in Districts, c \in Customers \cup {Nobody}}
StockLevelInputs(t) ==
  {[type |-> "stock_level", w |-> w, d |-> d] : w \in Home(t), d \in Districts}

\* WorkloadMix::gen: any of the five.
Inputs(t) ==
  NewOrderInputs(t) \cup PaymentInputs(t) \cup DeliveryInputs(t) \cup
  OrderStatusInputs(t) \cup StockLevelInputs(t)

FirstStep ==
  [new_order |-> "no_w", payment |-> "pay_w", delivery |-> "dlv_scan",
   order_status |-> "os_c", stock_level |-> "sl_d"]

\* The locals of a transaction: the line or district of its loops, the order it
\* works on, the rids it has scanned and the sum of their amounts.
Fresh == [n |-> 0, key |-> 0, o |-> 0, c |-> 0, rids |-> <<>>, sum |-> 0]

-----------------------------------------------------------------------------
W(w)       == <<"warehouse", w>>
D(w, d)    == <<"district", w, d>>
C(w, d, c) == <<"customer", w, d, c>>
S(w, i)    == <<"stock", w, i>>
O(key)     == <<"order", key>>
OL(key)    == <<"order_line", key>>

\* try_write and try_read find no guard of a transaction on the record.
Writable(r) == \A t \in Tasks : r \notin wlock[t] \cup rlock[t]
Readable(r) == \A t \in Tasks : r \notin wlock[t]

\* The line of the order that new_order locks or writes next.
Line(t) == txn[t].lines[loc[t].n + 1]

\* The record whose lock the transaction tries to take in its present step.
Wanted(t) ==
  LET x == txn[t] IN
    CASE pc[t] \in {"no_w", "pay_w"}         -> W(x.w)
      [] pc[t] \in {"no_d", "pay_d", "sl_d"} -> D(x.w, x.d)
      [] pc[t] \in {"no_c", "os_c"}          -> C(x.w, x.d, x.c)
      [] pc[t] = "pay_c"                     -> C(x.cw, x.cd, x.c)
      [] pc[t] = "no_s"                      -> S(Line(t).supply, Line(t).item)
      [] pc[t] \in {"dlv_o", "os_o"}         -> O(loc[t].key)
      [] pc[t] \in {"dlv_ol", "os_ol", "sl_ol"} -> OL(Head(loc[t].rids))
      [] pc[t] = "dlv_c"                     -> C(x.w, loc[t].n, loc[t].c)
      [] pc[t] = "sl_s"                      -> S(x.w, Head(loc[t].rids)[4])

Shared == {"os_o", "os_ol", "sl_d", "sl_ol", "sl_s"}
Exclusive == {"no_w", "no_d", "no_c", "no_s", "pay_w", "pay_d", "pay_c",
              "dlv_o", "dlv_ol", "dlv_c", "os_c"}

\* The key is in the index of its table.
Indexed(r) ==
  CASE r[1] = "stock"    -> r[3] \in Items
    [] r[1] = "order"    -> r[2] \in DOMAIN order
    [] r[1] = "customer" -> r[4] # Nobody
    [] OTHER             -> TRUE

\* DbTable::insert: a key that is there already names the new record from now on.
Inserted(table, key, record) ==
  [k \in DOMAIN table \cup {key} |-> IF k = key THEN record ELSE table[k]]

\* The lock of the present step, taken.
Lock(t) ==
  /\ Indexed(Wanted(t))
  /\ \/ /\ pc[t] \in Exclusive /\ Writable(Wanted(t))
        /\ wlock' = [wlock EXCEPT ![t] = @ \cup {Wanted(t)}]
        /\ UNCHANGED rlock
     \/ /\ pc[t] \in Shared /\ Readable(Wanted(t))
        /\ rlock' = [rlock EXCEPT ![t] = @ \cup {Wanted(t)}]
        /\ UNCHANGED wlock

Goto(t, p)   == pc' = [pc EXCEPT ![t] = p]
Set(t, v)    == loc' = [loc EXCEPT ![t] = v]
Release(t, rs) ==
  /\ wlock' = [wlock EXCEPT ![t] = @ \ rs]
  /\ rlock' = [rlock EXCEPT ![t] = @ \ rs]

\* The transaction returns: its guards are dropped and bench_task goes on.
Return(t) ==
  /\ Release(t, wlock[t] \cup rlock[t])
  /\ Goto(t, "idle")
  /\ Set(t, Fresh)
  /\ txn' = [txn EXCEPT ![t] = None]
  /\ retry' = [retry EXCEPT ![t] = 0]

\* It goes on with the same input.
Continue == UNCHANGED <<txn, retry>>

\* The next attempt, from the start and with the same input.
Again(t) ==
  /\ Release(t, wlock[t] \cup rlock[t])
  /\ Set(t, Fresh)
  /\ Goto(t, FirstStep[txn[t].type])
  /\ retry' = [retry EXCEPT ![t] = @ + 1]
  /\ UNCHANGED txn

\* Mutant: the transaction is tried until it succeeds.
Fail_Forever(t) ==
  /\ Release(t, wlock[t] \cup rlock[t])
  /\ Set(t, Fresh)
  /\ Goto(t, FirstStep[txn[t].type])
  /\ Continue
  /\ UNCHANGED <<tables, started>>

\* The transaction returns an error: its guards are dropped, what it wrote
\* stays, and bench_task tries the same input again or gives it up, logging and
\* counting it like one that succeeded.
Fail(t) ==
  /\ IF retry[t] + 1 >= MaxRetry THEN Return(t) ELSE Again(t)
  /\ UNCHANGED <<tables, started>>

\* The record that the task may be promoting into its cache before its present
\* step, by read_and_promote under its lock: order and order_line are not cached,
\* items and what stock_level reads are not promoted.
Promoted(t) ==
  LET x == txn[t] IN
    CASE pc[t] \in {"no_d", "pay_d"}       -> {W(x.w)}
      [] pc[t] \in {"no_c", "pay_c"}       -> {D(x.w, x.d)}
      [] pc[t] = "no_s" /\ loc[t].n = 0    -> {C(x.w, x.d, x.c)}
      [] pc[t] = "pay_upd"                 -> {C(x.cw, x.cd, x.c)}
      [] pc[t] = "dlv_upd"                 -> {C(x.w, loc[t].n, loc[t].c)}
      [] pc[t] = "os_scan"                 -> {C(x.w, x.d, x.c)}
      [] pc[t] = "no_line"                 -> {S(Line(t).supply, Line(t).item)}
      [] OTHER                             -> {}

\* probe_and_replace_rng of a task on another thread may hold the write lock of
\* the record, to evict it in favour of one of the same table.
Evicted(t, r) ==
  \E u \in Tasks \ {t} : \E q \in Promoted(u) : q[1] = r[1] /\ q # r

\* The lock is busy: try_read or try_write returned an error, because of another
\* transaction's guard or of an eviction.
LockBusy(t) ==
  /\ pc[t] \in Exclusive \cup Shared
  /\ Indexed(Wanted(t))
  /\ \/ pc[t] \in Exclusive /\ ~Writable(Wanted(t))
     \/ pc[t] \in Shared /\ ~Readable(Wanted(t))
     \/ Writable(Wanted(t)) /\ Evicted(t, Wanted(t))
  /\ Fail(t)

\* new_order meets an item that does not exist: UserAbort.
UserAbort(t) == pc[t] = "no_s" /\ Line(t).item \notin Items /\ Fail(t)

-----------------------------------------------------------------------------
\* load_one_customer and load_stock.
LoadedCustomer == [c_balance |-> -1, c_ytd_payment |-> 1, c_delivery_cnt |-> 0]
LoadedStockRec == [s_quantity |-> LoadedStock, s_ytd |-> 0, s_order_cnt |-> 0, s_remote_cnt |-> 0]

\* load_order: one order per customer of a district, in any order of the
\* customers, the older ones delivered.  An order has one line, of item 0.
LoadedOrder(w, d, o, c) ==
  [w |-> w, d |-> d, o_id |-> o, o_c_id |-> c, o_ol_cnt |-> 1, delivered |-> o < LoadedDone]
LoadedLine(w, o) ==
  [supply |-> w, quantity |-> 1, amount |-> IF o < LoadedDone THEN 0 ELSE 1,
   delivered |-> o < LoadedDone]

\* load_order of every district: what the tables get.
Shuffles == [Warehouses \X Districts -> Bijection(Customers, Customers)]
LoadedOrders(shuffle) ==
  {LoadedOrder(x[1], x[2], x[3], shuffle[<<x[1], x[2]>>][x[3]]) :
     x \in Warehouses \X Districts \X Customers}
OrderTable(rs) ==
  [k \in {order_key(r) : r \in rs} |-> CHOOSE r \in rs : order_key(r) = k]
NewOrderIndex(rs) == {new_order_key(r) : r \in {x \in rs : ~x.delivered}}
LoadedLines ==
  [k \in Warehouses \X Districts \X Customers \X {0} |-> LoadedLine(k[1], k[3])]

\* load; the next order id is one above what is free.
Init ==
  /\ warehouse = [w \in Warehouses |-> NDistricts]
  /\ district = [wd \in Warehouses \X Districts |->
                   [d_ytd |-> 1, d_next_o_id |-> NCustomers + 1]]
  /\ customer = [wdc \in Warehouses \X Districts \X Customers |-> LoadedCustomer]
  /\ stock = [wi \in Warehouses \X Items |-> LoadedStockRec]
  /\ \E shuffle \in Shuffles :
       /\ order = OrderTable(LoadedOrders(shuffle))
       /\ new_order = NewOrderIndex(LoadedOrders(shuffle))
  /\ order_line = LoadedLines
  /\ wlock = [t \in Tasks |-> {}]
  /\ rlock = [t \in Tasks |-> {}]
  /\ pc = [t \in Tasks |-> "idle"]
  /\ txn = [t \in Tasks |-> None]
  /\ loc = [t \in Tasks |-> Fresh]
  /\ retry = [t \in Tasks |-> 0]
  /\ started = [t \in Tasks |-> 0]
  /\ base = [district |-> district, customer |-> customer, stock |-> stock]
  /\ strayed = [w \in Warehouses |-> 0]

\* Nothing has panicked.
Alive == \A t \in Tasks : pc[t] # "panic"

\* Mutant: the order lines stay.
reset_order_Lines ==
  /\ \A t \in Tasks : pc[t] = "idle"
  /\ started \in IterationEnds
  /\ \E shuffle \in Shuffles :
       /\ order' = OrderTable(LoadedOrders(shuffle))
       /\ new_order' = NewOrderIndex(LoadedOrders(shuffle))
  /\ base' = [district |-> district, customer |-> customer, stock |-> stock]
  /\ UNCHANGED <<warehouse, district, customer, stock, order_line, wlock, rlock, pc, txn,
                 loc, retry, started, strayed>>

\* reset_order(&mut self), between two iterations: orders, order lines and new
\* orders are loaded anew; the other tables stay, the next order ids included.
reset_order ==
  /\ \A t \in Tasks : pc[t] = "idle"
  /\ started \in IterationEnds
  /\ \E shuffle \in Shuffles :
       /\ order' = OrderTable(LoadedOrders(shuffle))
       /\ new_order' = NewOrderIndex(LoadedOrders(shuffle))
  /\ order_line' = LoadedLines
  /\ base' = [district |-> district, customer |-> customer, stock |-> stock]
  /\ UNCHANGED <<warehouse, district, customer, stock, wlock, rlock, pc, txn, loc, retry,
                 started, strayed>>

\* bench_task draws a workload and an input.
Begin(t) ==
  /\ Alive
  /\ pc[t] = "idle"
  /\ started[t] < MaxTxns[t]
  /\ \E x \in Inputs(t) :
       /\ txn' = [txn EXCEPT ![t] = x]
       /\ Goto(t, FirstStep[x.type])
  /\ started' = [started EXCEPT ![t] = @ + 1]
  /\ UNCHANGED <<tables, wlock, rlock, loc, retry, base, strayed>>

-----------------------------------------------------------------------------
\* Mutant: the order id is taken with the district's lock.
NewOrderLock_Eager(t) ==
  /\ pc[t] \in {"no_w", "no_d", "no_c"}
  /\ Lock(t)
  /\ Goto(t, CASE pc[t] = "no_w" -> "no_d" [] pc[t] = "no_d" -> "no_c" [] OTHER -> "no_s")
  /\ district' = IF pc[t] # "no_d" THEN district
                 ELSE [district EXCEPT ![<<txn[t].w, txn[t].d>>].d_next_o_id = @ + 1]
  /\ UNCHANGED <<warehouse, customer, stock, order, order_line, new_order, txn, loc, retry, started>>

\* new_order, phase 1: lock the warehouse, the district, the customer.
NewOrderLock(t) ==
  /\ pc[t] \in {"no_w", "no_d", "no_c"}
  /\ Lock(t)
  /\ Goto(t, CASE pc[t] = "no_w" -> "no_d" [] pc[t] = "no_d" -> "no_c" [] OTHER -> "no_s")
  /\ UNCHANGED <<tables, txn, loc, retry, started>>

\* Lock the stock of every item.  Items are never locked for writing.
NewOrderStock(t) ==
  /\ pc[t] = "no_s"
  /\ Lock(t)
  /\ IF loc[t].n + 1 = Len(txn[t].lines)
       THEN Goto(t, "no_order") /\ Set(t, Fresh)
       ELSE Set(t, [loc[t] EXCEPT !.n = @ + 1]) /\ UNCHANGED pc
  /\ UNCHANGED <<tables, txn, retry, started>>

\* Phase 2: take the next order id, insert into new_order and order.
NewOrderPlace(t) ==
  LET x == txn[t]
      o == district[<<x.w, x.d>>].d_next_o_id
      rec == [w |-> x.w, d |-> x.d, o_id |-> o, o_c_id |-> x.c,
              o_ol_cnt |-> Len(x.lines), delivered |-> FALSE]
  IN  /\ pc[t] = "no_order"
      /\ district' = [district EXCEPT ![<<x.w, x.d>>].d_next_o_id = @ + 1]
      /\ new_order' = new_order \cup {new_order_key(rec)}
      /\ order' = Inserted(order, order_key(rec), rec)
      /\ Set(t, [loc[t] EXCEPT !.o = o])
      /\ Goto(t, "no_line")
      /\ UNCHANGED <<warehouse, customer, stock, order_line, wlock, rlock, txn, retry, started>>

\* Mutant: a stock is refilled only once it is empty.
s_quantity_Empty(q, n) == IF q - n >= 0 THEN q - n ELSE q - n + Refill

\* What is left of a stock, refilled when it would get too small.
s_quantity(q, n) == IF q - n >= MinStock THEN q - n ELSE q - n + Refill

\* The line is one more that another warehouse supplies.
Remote(l, w) == IF l.supply # w THEN 1 ELSE 0

\* Update the stock of a line, insert the order line and drop the stock's lock.
NewOrderLine(t) ==
  LET x == txn[t]
      l == Line(t)
  IN  /\ pc[t] = "no_line"
      /\ stock' = [stock EXCEPT ![<<l.supply, l.item>>] =
           [s_quantity   |-> s_quantity(@.s_quantity, l.quantity),
            s_ytd        |-> @.s_ytd + l.quantity,
            s_order_cnt  |-> @.s_order_cnt + 1,
            s_remote_cnt |-> @.s_remote_cnt + Remote(l, x.w)]]
      /\ order_line' = Inserted(order_line, <<x.w, x.d, loc[t].o, l.item>>,
           [supply |-> l.supply, quantity |-> l.quantity, amount |-> l.quantity,
            delivered |-> FALSE])
      /\ IF loc[t].n + 1 = Len(x.lines)
           THEN Return(t)
           ELSE /\ Release(t, {S(l.supply, l.item)})
                /\ Set(t, [loc[t] EXCEPT !.n = @ + 1])
                /\ Continue /\ UNCHANGED pc
      /\ UNCHANGED <<warehouse, district, customer, order, new_order, started>>

-----------------------------------------------------------------------------
\* payment: lock the warehouse and add the amount to it.
PayWarehouse(t) ==
  /\ pc[t] = "pay_w"
  /\ Lock(t)
  /\ warehouse' = [warehouse EXCEPT ![txn[t].w] = @ + 1]
  /\ Goto(t, "pay_d")
  /\ UNCHANGED <<district, customer, stock, order, order_line, new_order, txn, loc, retry, started>>

\* Mutant: the amount is added to the customer's district.
PayDistrict_Customers(t) ==
  /\ pc[t] = "pay_d"
  /\ Lock(t)
  /\ district' = [district EXCEPT ![<<txn[t].cw, txn[t].cd>>].d_ytd = @ + 1]
  /\ Goto(t, "pay_c")
  /\ UNCHANGED <<warehouse, customer, stock, order, order_line, new_order, txn, loc, retry, started>>

\* Lock the district and add the amount to it.
PayDistrict(t) ==
  /\ pc[t] = "pay_d"
  /\ Lock(t)
  /\ district' = [district EXCEPT ![<<txn[t].w, txn[t].d>>].d_ytd = @ + 1]
  /\ Goto(t, "pay_c")
  /\ UNCHANGED <<warehouse, customer, stock, order, order_line, new_order, txn, loc, retry, started>>

\* Lock the customer, by id or the middle one of the name.
PayCustomer(t) ==
  /\ pc[t] = "pay_c"
  /\ Lock(t)
  /\ Goto(t, "pay_upd")
  /\ UNCHANGED <<tables, txn, loc, retry, started>>

\* The customer of a payment has no discount, or all there can be.
DiscountAtEnd(x) == c_discount[<<x.cw, x.cd, x.c>>] \in {0, MaxDiscount}

\* Charge the customer.  The discount is asserted to be inside its range.
PayUpdate(t) ==
  /\ pc[t] = "pay_upd"
  /\ LET k == <<txn[t].cw, txn[t].cd, txn[t].c>> IN
       customer' = [customer EXCEPT ![k].c_balance = @ - 1, ![k].c_ytd_payment = @ + 1]
  /\ IF DiscountAtEnd(txn[t])
       THEN Goto(t, "panic") /\ Continue /\ UNCHANGED <<wlock, rlock, loc>>
       ELSE Return(t)
  /\ UNCHANGED <<warehouse, district, stock, order, order_line, new_order, started>>

\* payment and order_status by a name nobody has: Ok, with nothing more done.
NameNotFound(t) ==
  /\ pc[t] \in {"pay_c", "os_c"}
  /\ txn[t].c = Nobody
  /\ Return(t)
  /\ UNCHANGED <<tables, started>>

-----------------------------------------------------------------------------
\* Mutant: the key stays in the index.
Taken_Keep(k) == new_order

\* The new_order index without the key that a delivery has found.
Taken(k) == new_order \ {k}

\* delivery: the oldest new order of a district is found and removed from the
\* index; a district without one ends the transaction.
DeliveryScan(t) ==
  LET w     == txn[t].w
      d     == loc[t].n
      found == ScanKeys(new_order, make_key(w, d, 0, 0), make_key(w, d, Radix - 1, Radix - 1), 1)
      oc    == o_c_id_from_key(found[1])
  IN  /\ pc[t] = "dlv_scan"
      /\ IF found = <<>>
           THEN Return(t) /\ UNCHANGED new_order
           ELSE /\ new_order' = Taken(found[1])
                /\ Set(t, [Fresh EXCEPT !.n = d, !.key = make_key(w, d, oc.c, oc.o),
                                        !.o = oc.o, !.c = oc.c])
                /\ Goto(t, "dlv_o")
                /\ Continue /\ UNCHANGED <<wlock, rlock>>
      /\ UNCHANGED <<warehouse, district, customer, stock, order, order_line, started>>

\* Lock the order, set its carrier, check its customer, scan its lines.  A key
\* that is not in the index makes txn_err_to_counter panic.
DeliveryOrder(t) ==
  LET k    == loc[t].key
      rids == ScanLines(txn[t].w, loc[t].n, {loc[t].o}, NItems, 20)
  IN  /\ pc[t] = "dlv_o"
      /\ IF k \in DOMAIN order
           THEN /\ Lock(t)
                /\ order' = [order EXCEPT ![k].delivered = TRUE]
                /\ Set(t, [loc[t] EXCEPT !.rids = rids])
                /\ Goto(t, CASE order[k].o_c_id # loc[t].c -> "panic"
                             [] rids = <<>> -> "dlv_c"
                             [] OTHER -> "dlv_ol")
           ELSE Goto(t, "panic") /\ UNCHANGED <<order, wlock, rlock, loc>>
      /\ UNCHANGED <<warehouse, district, customer, stock, order_line, new_order, txn, retry, started>>

\* Lock an order line, set its delivery date, add its amount, drop the lock.
DeliveryLine(t) ==
  LET k == Head(loc[t].rids) IN
    /\ pc[t] = "dlv_ol"
    /\ Writable(Wanted(t))
    /\ order_line' = [order_line EXCEPT ![k].delivered = TRUE]
    /\ Set(t, [loc[t] EXCEPT !.rids = Tail(@), !.sum = @ + order_line[k].amount])
    /\ Goto(t, IF Len(loc[t].rids) = 1 THEN "dlv_c" ELSE "dlv_ol")
    /\ UNCHANGED <<warehouse, district, customer, stock, order, new_order, wlock, rlock, txn, retry, started>>

\* Lock the customer.
DeliveryCustomer(t) ==
  /\ pc[t] = "dlv_c"
  /\ Lock(t)
  /\ Goto(t, "dlv_upd")
  /\ UNCHANGED <<tables, txn, loc, retry, started>>

\* Credit the customer and go on to the next district.
DeliveryUpdate(t) ==
  LET w == txn[t].w
      d == loc[t].n
      c == loc[t].c
      k == <<w, d, c>>
  IN  /\ pc[t] = "dlv_upd"
      /\ customer' = [customer EXCEPT ![k].c_balance = @ + loc[t].sum, ![k].c_delivery_cnt = @ + 1]
      /\ IF d + 1 = NDistricts
           THEN Return(t)
           ELSE /\ Release(t, {O(loc[t].key), C(w, d, c)})
                /\ Set(t, [Fresh EXCEPT !.n = d + 1])
                /\ Goto(t, "dlv_scan")
                /\ Continue
      /\ UNCHANGED <<warehouse, district, stock, order, order_line, new_order, started>>

-----------------------------------------------------------------------------
\* order_status: lock the customer (for writing, to be promoted).
OrderStatusCustomer(t) ==
  /\ pc[t] = "os_c"
  /\ Lock(t)
  /\ Goto(t, "os_scan")
  /\ UNCHANGED <<tables, txn, loc, retry, started>>

\* Scan the orders of the customer: the last rid that was found, and a rid
\* before the first of the buffer if none was.
OrderStatusScan(t) ==
  LET x    == txn[t]
      keys == ScanKeys(DOMAIN order, make_key(x.w, x.d, x.c, 0),
                       make_key(x.w, x.d, x.c, Radix - 1), RidBuffer)
  IN  /\ pc[t] = "os_scan"
      /\ IF keys = <<>>
           THEN Goto(t, "panic") /\ UNCHANGED loc
           ELSE Goto(t, "os_o") /\ Set(t, [loc[t] EXCEPT !.key = Last(keys)])
      /\ UNCHANGED <<tables, wlock, rlock, txn, retry, started>>

\* Lock and read the order, scan its lines into the same buffer.
OrderStatusOrder(t) ==
  LET rids == ScanLines(txn[t].w, txn[t].d, {order[loc[t].key].o_id}, Radix - 1, RidBuffer) IN
    /\ pc[t] = "os_o"
    /\ Readable(Wanted(t))
    /\ IF rids = <<>>
         THEN Return(t)
         ELSE /\ Lock(t)
              /\ Set(t, [loc[t] EXCEPT !.rids = rids])
              /\ Goto(t, "os_ol")
              /\ Continue
    /\ UNCHANGED <<tables, started>>

\* Lock a line, read it, drop the lock.
OrderStatusLine(t) ==
  /\ pc[t] = "os_ol"
  /\ Readable(Wanted(t))
  /\ IF Len(loc[t].rids) = 1
       THEN Return(t)
       ELSE /\ Set(t, [loc[t] EXCEPT !.rids = Tail(@)])
            /\ Continue /\ UNCHANGED <<pc, wlock, rlock>>
  /\ UNCHANGED <<tables, started>>

-----------------------------------------------------------------------------
\* stock_level: lock the district, assert that it has had enough orders, scan
\* the district's lines from its first order to the next order id.
StockLevelDistrict(t) ==
  LET x    == txn[t]
      next == district[<<x.w, x.d>>].d_next_o_id
      rids == ScanLines(x.w, x.d, 0 .. next, NItems, LineBuffer)
  IN  /\ pc[t] = "sl_d"
      /\ Readable(Wanted(t))
      /\ IF next < RecentOrders
           THEN Lock(t) /\ Goto(t, "panic") /\ Continue /\ UNCHANGED loc
           ELSE IF rids = <<>>
           THEN Return(t)
           ELSE /\ Lock(t)
                /\ Set(t, [loc[t] EXCEPT !.rids = rids])
                /\ Goto(t, "sl_ol")
                /\ Continue
      /\ UNCHANGED <<tables, started>>

\* Lock an order line, then the home warehouse's stock of its item.
StockLevelLock(t) ==
  /\ pc[t] \in {"sl_ol", "sl_s"}
  /\ Lock(t)
  /\ Goto(t, IF pc[t] = "sl_ol" THEN "sl_s" ELSE "sl_read")
  /\ UNCHANGED <<tables, txn, loc, retry, started>>

\* Read the quantity, drop both locks.
StockLevelRead(t) ==
  LET k == Head(loc[t].rids) IN
    /\ pc[t] = "sl_read"
    /\ IF Len(loc[t].rids) = 1
         THEN Return(t)
         ELSE /\ Release(t, {OL(k), S(txn[t].w, k[4])})
              /\ Set(t, [loc[t] EXCEPT !.rids = Tail(@)])
              /\ Goto(t, "sl_ol")
              /\ Continue
    /\ UNCHANGED <<tables, started>>

-----------------------------------------------------------------------------
Work(t) ==
  \/ NewOrderLock(t) \/ NewOrderStock(t) \/ NewOrderPlace(t) \/ NewOrderLine(t)
  \/ PayWarehouse(t) \/ PayDistrict(t) \/ PayCustomer(t) \/ PayUpdate(t)
  \/ DeliveryScan(t) \/ DeliveryOrder(t) \/ DeliveryLine(t)
  \/ DeliveryCustomer(t) \/ DeliveryUpdate(t)
  \/ OrderStatusCustomer(t) \/ OrderStatusScan(t) \/ OrderStatusOrder(t) \/ OrderStatusLine(t)
  \/ StockLevelDistrict(t) \/ StockLevelLock(t) \/ StockLevelRead(t)
  \/ NameNotFound(t) \/ LockBusy(t) \/ UserAbort(t)

\* A payment fails between its warehouse and its district.
Stray(t) == pc[t] = "pay_d" /\ pc'[t] # "pay_c"

Step(t) ==
  /\ Alive
  /\ Work(t)
  /\ strayed' = IF Stray(t) THEN [strayed EXCEPT ![txn[t].w] = @ + 1] ELSE strayed
  /\ UNCHANGED base

Next == (\E t \in Tasks : Begin(t) \/ Step(t)) \/ reset_order
Spec == Init /\ [][Next]_vars

\* A task in a transaction is polled again: by its executor, or by block_on.
FairSpec == Spec /\ \A t \in Tasks : WF_vars(Step(t))

-----------------------------------------------------------------------------
\* The lines of an order.
LinesOf(w, d, o) == {k \in DOMAIN order_line : k[1] = w /\ k[2] = d /\ k[3] = o}

\* The order ids of a district: the loaded ones and those taken since.
TakenIds(w, d) ==
  base.district[<<w, d>>].d_next_o_id .. district[<<w, d>>].d_next_o_id - 1
OrderIds(w, d) == Customers \cup TakenIds(w, d)

\* In no district have order ids outgrown their field of a key.
IdsFit ==
  \A w \in Warehouses, d \in Districts : district[<<w, d>>].d_next_o_id <= Radix

\* While ids fit, the order ids of a district that nobody is ordering from: the
\* loaded ones and those since, each used once and none skipped by a failed
\* attempt, and every order has all of its lines, and no others: no line of an
\* order from before a reset_order is left.
OrdersComplete ==
  IdsFit =>
  \A w \in Warehouses, d \in Districts :
    LET os == {order[k] : k \in {j \in DOMAIN order : order[j].w = w /\ order[j].d = d}}
    IN  Writable(D(w, d)) =>
          /\ {r.o_id : r \in os} = OrderIds(w, d)
          /\ Cardinality(os) = NCustomers + Cardinality(TakenIds(w, d))
          /\ {k[3] : k \in {j \in DOMAIN order_line : j[1] = w /\ j[2] = d}} = OrderIds(w, d)
          /\ \A r \in os : r.o_ol_cnt = Cardinality(LinesOf(w, d, r.o_id))

\* The lines since load or reset_order that a stock supplied, and how much.
Supplied(w, i) ==
  {k \in DOMAIN order_line : order_line[k].supply = w /\ k[4] = i /\ k[3] >= NCustomers}
Ordered == [k \in DOMAIN order_line |-> order_line[k].quantity]

\* The totals of a stock have grown by the lines it supplied.
Tally(w, i) ==
  LET r == stock[<<w, i>>]
      b == base.stock[<<w, i>>]
  IN  /\ r.s_order_cnt = b.s_order_cnt + Cardinality(Supplied(w, i))
      /\ r.s_ytd = b.s_ytd + SumFunctionOnSet(Ordered, Supplied(w, i))
      /\ r.s_remote_cnt = b.s_remote_cnt + Cardinality({k \in Supplied(w, i) : k[1] # w})

\* The totals of a stock that is not being changed have grown by the order lines
\* it supplied since load or reset_order, whichever warehouse ordered them and
\* however many attempts failed.
StockAccounts ==
  \A w \in Warehouses, i \in Items :
    (\A t \in Tasks : S(w, i) \notin wlock[t]) => Tally(w, i)

\* A stock neither runs out nor is refilled beyond its limit.
StockInRange ==
  \A w \in Warehouses, i \in Items : stock[<<w, i>>].s_quantity \in MinStock .. MinStock + Refill - 1

\* What has been paid to districts of a warehouse.
YtdSum(table, w, ds) == SumFunctionOnSet([d \in ds |-> table[<<w, d>>].d_ytd], ds)

\* The total of a warehouse that is not being paid to is that of its districts
\* and what attempts of payments left there that found the district's lock busy:
\* no failure at the customer, no retry and no interleaving accounts for more.
TotalsExplained ==
  \A w \in Warehouses :
    Writable(W(w)) => warehouse[w] = YtdSum(district, w, Districts) + strayed[w]

\* The orders of a customer that are out of the new_order index.
Gone(w, d, c) ==
  {k \in DOMAIN order : /\ order[k].w = w /\ order[k].d = d /\ order[k].o_c_id = c
                        /\ new_order_key(order[k]) \notin new_order}

\* What the lines of an order come to.
Amounts == [l \in DOMAIN order_line |-> order_line[l].amount]
OrderAmount(w, d, o) == SumFunctionOnSet(Amounts, LinesOf(w, d, o))
Owed == [k \in DOMAIN order |-> OrderAmount(order[k].w, order[k].d, order[k].o_id)]

\* A customer's balance and deliveries since load or reset_order are no more
\* than what the given orders pay for.
PaidFor(w, d, c, keys) ==
  LET r == customer[<<w, d, c>>]
      b == base.customer[<<w, d, c>>]
  IN  /\ r.c_delivery_cnt <= b.c_delivery_cnt + Cardinality(keys)
      /\ r.c_balance + r.c_ytd_payment <=
           b.c_balance + b.c_ytd_payment + SumFunctionOnSet(Owed, keys)

\* While ids fit, no order is credited to its customer twice: a customer's
\* balance and deliveries since load or reset_order never exceed what the orders
\* out of the new_order index pay for.
CreditedOnce ==
  IdsFit =>
  \A w \in Warehouses, d \in Districts, c \in Customers : PaidFor(w, d, c, Gone(w, d, c))

\* A panic is that of a payment by a customer whose discount was drawn at an end
\* of its range, or order ids have outgrown their keys.  Otherwise a key that a
\* transaction derives from what it has read is in its index ("Index not found
\* is not possible with TPCC transactions"), the order of a new_order key is its
\* customer's, and a customer has an order.
PanicsExplained ==
  \A t \in Tasks : pc[t] = "panic" =>
    ~IdsFit \/ (txn[t].type = "payment" /\ DiscountAtEnd(txn[t]))

\* Every transaction ends, done or given up, unless the run panics: no lock is
\* waited for, and the retries of an input that can never succeed are bounded.
TxnsEnd == \A t \in Tasks : (pc[t] # "idle") ~> (pc[t] = "idle" \/ ~Alive)

-----------------------------------------------------------------------------
(* The inductive invariants behind the properties.                            *)
NewOrderSteps    == {"no_w", "no_d", "no_c", "no_s", "no_order", "no_line"}
PaymentSteps     == {"pay_w", "pay_d", "pay_c", "pay_upd"}
DeliverySteps    == {"dlv_scan", "dlv_o", "dlv_ol", "dlv_c", "dlv_upd"}
OrderStatusSteps == {"os_c", "os_scan", "os_o", "os_ol"}
StockLevelSteps  == {"sl_d", "sl_ol", "sl_s", "sl_read"}
Steps == NewOrderSteps \cup PaymentSteps \cup DeliverySteps \cup OrderStatusSteps
         \cup StockLevelSteps

\* The input a task works on is of the kind its step is of, and the loops of
\* new_order and delivery are within their lines and districts.
TxnAt(t) ==
  /\ pc[t] \in Steps \cup {"idle", "panic"}
  /\ DOMAIN loc[t] = DOMAIN Fresh
  /\ pc[t] \in NewOrderSteps => txn[t] \in NewOrderInputs(t)
  /\ pc[t] \in PaymentSteps => txn[t] \in PaymentInputs(t)
  /\ pc[t] \in DeliverySteps => txn[t] \in DeliveryInputs(t) /\ loc[t].n \in Districts
  /\ pc[t] \in OrderStatusSteps => txn[t] \in OrderStatusInputs(t)
  /\ pc[t] \in StockLevelSteps => txn[t] \in StockLevelInputs(t)
  /\ pc[t] = "idle" => loc[t] = Fresh
  /\ pc[t] \in {"no_w", "no_d", "no_c", "no_order"} => loc[t].n = 0
  /\ pc[t] \in {"no_s", "no_line"} => loc[t].n \in 0 .. Len(txn[t].lines) - 1

TxnOK ==
  /\ DOMAIN pc = Tasks /\ DOMAIN txn = Tasks /\ DOMAIN loc = Tasks
  /\ \A t \in Tasks : TxnAt(t)

\* Every line that new_order has locked the stock of names an item that exists,
\* and before it writes anything it has locked all of them.
ItemsAt(t) ==
  /\ pc[t] = "no_s" => \A i \in 1 .. loc[t].n : txn[t].lines[i].item \in Items
  /\ pc[t] \in {"no_order", "no_line"} =>
       \A i \in 1 .. Len(txn[t].lines) : txn[t].lines[i].item \in Items

ItemsOK == \A t \in Tasks : ItemsAt(t)

\* The record of a stock, its quantity within its limits.
StockOK ==
  stock \in [Warehouses \X Items ->
    [s_quantity : MinStock .. MinStock + Refill - 1, s_ytd : Nat, s_order_cnt : Nat,
     s_remote_cnt : Nat]]

StockInv == TxnOK /\ ItemsOK /\ StockOK

\* A task holds warehouses and districts of its own slice only, none before its
\* first step, and in payment exactly the warehouse when it tries the district.
HomeLocksAt(t) ==
  /\ \A r \in wlock[t] \cup rlock[t] : r[1] \in {"warehouse", "district"} => r[2] \in Home(t)
  /\ pc[t] \in {"idle", "no_w", "pay_w", "os_c", "sl_d"} => wlock[t] = {} /\ rlock[t] = {}
  /\ pc[t] = "pay_d" => wlock[t] = {W(txn[t].w)} /\ rlock[t] = {}

HomeLocksOK ==
  /\ DOMAIN wlock = Tasks /\ DOMAIN rlock = Tasks
  /\ \A t \in Tasks : HomeLocksAt(t)

\* The payments a warehouse has and its district has not yet.
Unpaid(w) == {t \in Tasks : pc[t] = "pay_d" /\ txn[t].w = w}

\* The total of a warehouse is that of its districts, but for the payments that
\* failed in between and the one on its way from the one to the other.
TotalsOK ==
  /\ warehouse \in [Warehouses -> Int]
  /\ strayed \in [Warehouses -> Int]
  /\ district \in [Warehouses \X Districts -> [d_ytd : Int, d_next_o_id : Nat]]
  /\ \A w \in Warehouses :
       warehouse[w] =
         YtdSum(district, w, Districts) + strayed[w] + (IF Unpaid(w) = {} THEN 0 ELSE 1)

TotalsInv == TxnOK /\ ItemsOK /\ HomeLocksOK /\ TotalsOK

OrderRecords ==
  [w : Warehouses, d : Districts, o_id : 0 .. Radix - 1, o_c_id : Customers, o_ol_cnt : Nat,
   delivered : BOOLEAN]

\* An order is found under the key of its fields, every key of new_order is
\* that of an order, and every customer has one of the loaded orders.
OrdersOK ==
  /\ order \in [DOMAIN order -> OrderRecords]
  /\ \A k \in DOMAIN order : order_key(order[k]) = k
  /\ \A k \in new_order : \E j \in DOMAIN order : k = new_order_key(order[j])
  /\ \A w \in Warehouses, d \in Districts, c \in Customers :
       \E o \in Customers : make_key(w, d, c, o) \in DOMAIN order

\* The order that a delivery has found is in the index of orders, and whose
\* orders order_status scans is a customer.
FoundAt(t) ==
  /\ pc[t] = "dlv_o" =>
       /\ loc[t].key \in DOMAIN order
       /\ loc[t].o \in 0 .. Radix - 1 /\ loc[t].c \in 0 .. Radix - 1
       /\ loc[t].key = make_key(txn[t].w, loc[t].n, loc[t].c, loc[t].o)
  /\ pc[t] = "os_scan" => txn[t].c \in Customers

FoundOK == \A t \in Tasks : FoundAt(t)

\* What PanicsExplained rests on.  It holds while IdsFit does, as do PlacedInv
\* and CreditInv.
PanicInv == TxnOK /\ ItemsOK /\ OrdersOK /\ FoundOK /\ PanicsExplained

\* The lines there are have ids that have been taken, and those of the order
\* that a task is writing are not there from its present line on.
LineRecords == [supply : Warehouses, quantity : Nat, amount : Nat, delivered : BOOLEAN]

WritingAt(t) ==
  pc[t] = "no_line" =>
    LET x == txn[t] IN
      /\ loc[t].o = district[<<x.w, x.d>>].d_next_o_id - 1
      /\ \A i \in loc[t].n + 1 .. Len(x.lines) :
           <<x.w, x.d, loc[t].o, x.lines[i].item>> \notin DOMAIN order_line

LinesOK ==
  /\ district \in [Warehouses \X Districts -> [d_ytd : Int, d_next_o_id : Nat]]
  /\ \A w \in Warehouses, d \in Districts : district[<<w, d>>].d_next_o_id > NCustomers
  /\ IsFiniteSet(DOMAIN order_line)
  /\ order_line \in [DOMAIN order_line -> LineRecords]
  /\ \A k \in DOMAIN order_line :
       /\ k = <<k[1], k[2], k[3], k[4]>>
       /\ k[1] \in Warehouses /\ k[2] \in Districts /\ k[3] \in Nat /\ k[4] \in Nat
       /\ k[3] < district[<<k[1], k[2]>>].d_next_o_id
  /\ \A t \in Tasks : WritingAt(t)

\* Every stock tallies, those that a task has locked included.
TalliesOK ==
  /\ base.stock \in [Warehouses \X Items ->
       [s_quantity : Nat, s_ytd : Nat, s_order_cnt : Nat, s_remote_cnt : Nat]]
  /\ \A w \in Warehouses, i \in Items : Tally(w, i)

TalliesInv == StockInv /\ LinesOK /\ TalliesOK

\* new_order holds its district from when it has locked it to its end, and the
\* id it has taken is not one that was taken before load or reset_order.
DistrictHeldAt(t) ==
  LET x == txn[t] IN
    /\ pc[t] \in {"no_c", "no_s", "no_order", "no_line"} => D(x.w, x.d) \in wlock[t]
    /\ pc[t] = "no_line" => base.district[<<x.w, x.d>>].d_next_o_id <= loc[t].o

\* An id taken is that of an order.
IdsPlaced(w, d) ==
  /\ NCustomers < base.district[<<w, d>>].d_next_o_id
  /\ base.district[<<w, d>>].d_next_o_id <= district[<<w, d>>].d_next_o_id
  /\ \A o \in OrderIds(w, d) :
       \E k \in DOMAIN order : order[k].w = w /\ order[k].d = d /\ order[k].o_id = o

\* The task is writing the lines of the order.
Writing(t, r) == pc[t] = "no_line" /\ txn[t].w = r.w /\ txn[t].d = r.d /\ loc[t].o = r.o_id

\* An order is the only one of its id, and has its lines, or those before the
\* present line of the task that is writing it.
OrderWhole(k) ==
  LET r == order[k]
      written == Cardinality(LinesOf(r.w, r.d, r.o_id))
  IN  /\ r.o_id \in OrderIds(r.w, r.d)
      /\ r.o_ol_cnt >= 1
      /\ written = r.o_ol_cnt \/ \E t \in Tasks : Writing(t, r)
      /\ \A t \in Tasks : Writing(t, r) => r.o_ol_cnt = Len(txn[t].lines) /\ written = loc[t].n
      /\ \A j \in DOMAIN order :
           order[j].w = r.w /\ order[j].d = r.d /\ order[j].o_id = r.o_id => j = k

PlacedOK ==
  /\ base.district \in [Warehouses \X Districts -> [d_ytd : Int, d_next_o_id : Nat]]
  /\ \A w \in Warehouses, d \in Districts : IdsPlaced(w, d)
  /\ \A k \in DOMAIN order_line : k[3] \in OrderIds(k[1], k[2])
  /\ \A k \in DOMAIN order : OrderWhole(k)
  /\ \A t \in Tasks : DistrictHeldAt(t)

PlacedInv == PanicInv /\ HomeLocksOK /\ LinesOK /\ PlacedOK

\* The orders that deliveries have taken out of the index and not credited yet.
Delivering(t) == pc[t] \in {"dlv_o", "dlv_ol", "dlv_c", "dlv_upd"}
InDelivery == {loc[t].key : t \in {u \in Tasks : Delivering(u)}}
Settled(w, d, c) == Gone(w, d, c) \ InDelivery

\* What a delivery has added up and what is left to add is no more than the
\* order comes to: the lines to visit are lines of the order, each once.
DeliveryAt(t) ==
  LET rids == loc[t].rids
      due  == OrderAmount(txn[t].w, loc[t].n, loc[t].o)
  IN  /\ Delivering(t) =>
           /\ loc[t].key \in Gone(txn[t].w, loc[t].n, loc[t].c)
           /\ order[loc[t].key].o_id = loc[t].o
           /\ loc[t].sum \in Nat
      /\ pc[t] = "dlv_o" => loc[t].sum = 0
      /\ pc[t] = "dlv_ol" =>
           /\ rids \in Seq(LinesOf(txn[t].w, loc[t].n, loc[t].o)) /\ rids # <<>>
           /\ IsInjective(rids)
           /\ loc[t].sum + SumFunctionOnSet(Amounts, Range(rids)) <= due
      /\ pc[t] \in {"dlv_c", "dlv_upd"} => loc[t].sum <= due

CustomersOK ==
  customer \in [Warehouses \X Districts \X Customers ->
                 [c_balance : Int, c_ytd_payment : Int, c_delivery_cnt : Int]]

\* A customer has been credited with settled orders only, each once.
CreditOK ==
  /\ CustomersOK
  /\ base.customer \in [Warehouses \X Districts \X Customers ->
                          [c_balance : Int, c_ytd_payment : Int, c_delivery_cnt : Int]]
  /\ \A w \in Warehouses, d \in Districts, c \in Customers : PaidFor(w, d, c, Settled(w, d, c))
  /\ \A t \in Tasks : DeliveryAt(t)

CreditInv == PlacedInv /\ CreditOK
=============================================================================
