------------------------------ MODULE TpccProofs ------------------------------
(* Proofs about the TPC-C transactions, for every scale of the tables, every   *)
(* number of tasks and every mix of inputs.                                    *)
EXTENDS Tpcc, FiniteSetTheorems, SequenceTheorems, WellFoundedInduction, TLAPS

\* The scales are numbers.
LEMMA Scales ==
  /\ NTasks \in Nat /\ NWarehouses \in Nat /\ NDistricts \in Nat /\ NCustomers \in Nat
  /\ NItems \in Nat /\ Radix \in Nat /\ MinStock \in Nat /\ Refill \in Nat
  /\ NTasks >= 1 /\ NTasks <= NWarehouses /\ NDistricts >= 1 /\ NCustomers >= 1
  /\ NDistricts <= Radix /\ NCustomers <= Radix
  BY ScaleAssumption

\* There are n + 1 numbers up to n.
LEMMA UpTo ==
  ASSUME NEW n \in Nat
  PROVE  IsFiniteSet(0 .. n) /\ Cardinality(0 .. n) = n + 1
  <1>1. n \in Int /\ 0 \in Int /\ ~(0 > n) /\ n - 0 + 1 = n + 1  OBVIOUS
  <1>2. IsFiniteSet(0 .. n) /\ Cardinality(0 .. n) = IF 0 > n THEN 0 ELSE n - 0 + 1
    BY ONLY <1>1, FS_Interval, Zenon
  <1> QED  BY ONLY <1>1, <1>2, Zenon

\* There are NDistricts districts.
LEMMA DistrictsFinite == IsFiniteSet(Districts) /\ Cardinality(Districts) = NDistricts
  <1> PICK n : n = NDistricts - 1  OBVIOUS
  <1>1. n \in Nat /\ n + 1 = NDistricts /\ NDistricts - 1 = n  BY Scales
  <1>2. IsFiniteSet(0 .. n) /\ Cardinality(0 .. n) = n + 1  BY ONLY <1>1, UpTo, Zenon
  <1> QED  BY <1>1, <1>2 DEF Districts

\* The smaller of two numbers.
LEMMA MinOfTwo ==
  ASSUME NEW a \in Int, NEW b \in Int
  PROVE  Min({a, b}) = IF a <= b THEN a ELSE b
  <1>1. CASE a <= b
    <2>1. a \in {a, b} /\ \A y \in {a, b} : a =< y  BY <1>1
    <2>2. \A x \in {a, b} : (\A y \in {a, b} : x =< y) => x = a  BY <1>1
    <2> QED  BY <1>1, <2>1, <2>2 DEF Min
  <1>2. CASE ~(a <= b)
    <2>1. b \in {a, b} /\ \A y \in {a, b} : b =< y  BY <1>2
    <2>2. \A x \in {a, b} : (\A y \in {a, b} : x =< y) => x = b  BY <1>2
    <2> QED  BY <1>2, <2>1, <2>2 DEF Min
  <1> QED  BY <1>1, <1>2

\* The warehouses of a task exist.
LEMMA HomeIn ==
  ASSUME NEW t \in Tasks
  PROVE  Home(t) \subseteq Warehouses
  <1> PICK n : n = NWarehouses \div NTasks  OBVIOUS
  <1>1. n \in Nat /\ t \in Nat  BY Scales DEF Tasks
  <1>2. n * t \in Nat /\ n * (t + 1) \in Nat  BY <1>1
  <1>3. Home(t) = n * t .. (IF n * (t + 1) <= NWarehouses THEN n * (t + 1) ELSE NWarehouses) - 1
    BY <1>2, MinOfTwo, Scales DEF Home
  <1> QED  BY <1>2, <1>3, Scales DEF Warehouses

\* No warehouse is in the slices of two tasks.
LEMMA HomeApart ==
  ASSUME NEW t \in Tasks, NEW u \in Tasks, NEW w \in Home(t), w \in Home(u)
  PROVE  t = u
  <1> PICK n : n = NWarehouses \div NTasks  OBVIOUS
  <1>1. n \in Nat /\ t \in Nat /\ u \in Nat  BY Scales DEF Tasks
  <1>2. ASSUME NEW v \in Tasks, w \in Home(v)
        PROVE  w \in Int /\ n * v <= w /\ w < n * (v + 1)
    <2>1. v \in Nat  BY Scales DEF Tasks
    <2> PICK a, b : a = n * v /\ b = n * (v + 1)  OBVIOUS
    <2>2. a \in Nat /\ b \in Nat  BY <1>1, <2>1
    <2>3. w \in a .. (IF b <= NWarehouses THEN b ELSE NWarehouses) - 1
      BY <1>2, <2>2, MinOfTwo, Scales DEF Home
    <2> QED  BY <2>2, <2>3, Scales
  <1>3. ASSUME NEW a \in Nat, NEW b \in Nat, a < b
        PROVE  n * (a + 1) <= n * b
    <2>1. PICK d \in Nat : b = a + 1 + d
      <3>1. b - a - 1 \in Nat  BY <1>3
      <3> QED  BY <3>1
    <2>2. n * d \in Nat /\ n * (a + 1) \in Nat  BY <1>1
    <2>3. n * b = n * (a + 1) + n * d  BY <1>1, <2>1
    <2> QED  BY <2>2, <2>3
  <1>4. n * (t + 1) \in Int /\ n * (u + 1) \in Int /\ n * t \in Int /\ n * u \in Int  BY <1>1
  <1>5. ~(t < u)  BY <1>1, <1>2, <1>3, <1>4
  <1>6. ~(u < t)  BY <1>1, <1>2, <1>3, <1>4
  <1> QED  BY <1>1, <1>5, <1>6

\* What NewOrderInput::gen yields: one line or more, of items that exist or not.
LEMMA NewOrderInput ==
  ASSUME NEW t \in Tasks, NEW x \in NewOrderInputs(t)
  PROVE  /\ x.type = "new_order" /\ x.w \in Home(t) /\ x.d \in Districts /\ x.c \in Customers
         /\ Len(x.lines) \in Nat /\ Len(x.lines) >= 1
         /\ \A i \in 1 .. Len(x.lines) :
              x.lines[i].supply \in Warehouses /\ x.lines[i].quantity \in Quantities
  <1>0. PICK cnt \in OlCnt :
          x \in {[type |-> "new_order", w |-> w, d |-> d, c |-> c,
                  lines |-> [n \in 1 .. cnt |->
                    [item     |-> Item(start + n - 1, rbk /\ n = cnt),
                     supply   |-> IF Item(start + n - 1, rbk /\ n = cnt) = Nobody THEN w ELSE supply[n],
                     quantity |-> q]]] :
                   w \in Home(t), d \in Districts, c \in Customers, start \in Items,
                   rbk \in BOOLEAN, supply \in [1 .. cnt -> Warehouses], q \in Quantities}
    BY SMTT(30) DEF NewOrderInputs
  <1>1. PICK w \in Home(t), d \in Districts, c \in Customers, start \in Items,
             rbk \in BOOLEAN, supply \in [1 .. cnt -> Warehouses], q \in Quantities :
          x = [type |-> "new_order", w |-> w, d |-> d, c |-> c,
               lines |-> [n \in 1 .. cnt |->
                 [item     |-> Item(start + n - 1, rbk /\ n = cnt),
                  supply   |-> IF Item(start + n - 1, rbk /\ n = cnt) = Nobody THEN w ELSE supply[n],
                  quantity |-> q]]]
    BY <1>0, SMTT(30)
  <1>2. cnt \in Nat /\ cnt >= 1  BY ScaleAssumption
  <1>3. Len(x.lines) = cnt  BY <1>1, <1>2
  <1>4. w \in Warehouses  BY HomeIn
  <1> QED  BY <1>1, <1>2, <1>3, <1>4

\* What the other four yield.
LEMMA OtherInput ==
  ASSUME NEW t \in Tasks, NEW x
  PROVE  /\ x \in PaymentInputs(t) =>
              /\ x.type = "payment" /\ x.w \in Home(t) /\ x.d \in Districts
         /\ x \in DeliveryInputs(t) => x.type = "delivery" /\ x.w \in Home(t)
         /\ x \in OrderStatusInputs(t) =>
              /\ x.type = "order_status" /\ x.w \in Home(t) /\ x.d \in Districts
              /\ x.c \in Customers \cup {Nobody}
         /\ x \in StockLevelInputs(t) =>
              x.type = "stock_level" /\ x.w \in Home(t) /\ x.d \in Districts
  BY DEF PaymentInputs, DeliveryInputs, OrderStatusInputs, StockLevelInputs

\* Where a new attempt of an input starts.
LEMMA FirstSteps ==
  /\ FirstStep["new_order"] = "no_w" /\ FirstStep["payment"] = "pay_w"
  /\ FirstStep["delivery"] = "dlv_scan" /\ FirstStep["order_status"] = "os_c"
  /\ FirstStep["stock_level"] = "sl_d"
  BY DEF FirstStep

-----------------------------------------------------------------------------
(* The inputs and the loops: TxnOK and ItemsOK.                                *)

\* A step of a task leaves the locals of the others alone.
Others(t) ==
  /\ DOMAIN pc' = Tasks /\ DOMAIN txn' = Tasks /\ DOMAIN loc' = Tasks
  /\ \A u \in Tasks \ {t} : pc'[u] = pc[u] /\ txn'[u] = txn[u] /\ loc'[u] = loc[u]

Kept(t) == Others(t) /\ TxnAt(t)' /\ ItemsAt(t)'

\* What one task keeps, every task keeps: the others do not move.
LEMMA KeptIsEnough ==
  ASSUME TxnOK, ItemsOK, NEW t \in Tasks, Kept(t)
  PROVE  TxnOK' /\ ItemsOK'
  <1>1. ASSUME NEW u \in Tasks \ {t}
        PROVE  TxnAt(u)' /\ ItemsAt(u)'
    <2>1. pc'[u] = pc[u] /\ txn'[u] = txn[u] /\ loc'[u] = loc[u]  BY <1>1 DEF Kept, Others
    <2>2. TxnAt(u) /\ ItemsAt(u)  BY <1>1 DEF TxnOK, ItemsOK
    <2> QED  BY <2>1, <2>2 DEF TxnAt, ItemsAt
  <1> QED  BY <1>1 DEF Kept, Others, TxnOK, ItemsOK

\* The steps of a transaction that end it, or one of its attempts, keep TxnAt.
LEMMA ReturnKept ==
  ASSUME TxnOK, NEW t \in Tasks, Return(t)
  PROVE  Kept(t)
  <1>1. pc' = [pc EXCEPT ![t] = "idle"] /\ txn' = [txn EXCEPT ![t] = None]
        /\ loc' = [loc EXCEPT ![t] = Fresh]
    BY DEF Return, Goto, Set
  <1>2. Others(t) /\ pc'[t] = "idle" /\ loc'[t] = Fresh  BY <1>1 DEF Others, TxnOK
  <1>3. TxnAt(t)' /\ ItemsAt(t)'
    BY <1>2 DEF TxnAt, ItemsAt, NewOrderSteps, PaymentSteps, DeliverySteps, OrderStatusSteps,
               StockLevelSteps
  <1> QED  BY <1>2, <1>3 DEF Kept

\* The step an input starts with, its locals fresh.
LEMMA FreshKept ==
  ASSUME TxnOK, NEW t \in Tasks, Others(t), txn'[t] \in Inputs(t),
         pc'[t] = FirstStep[txn'[t].type], loc'[t] = Fresh
  PROVE  Kept(t)
  <1> PICK x, p : x = txn'[t] /\ p = pc'[t]  OBVIOUS
  <1>1. Fresh.n = 0 /\ 0 \in Districts  BY Scales DEF Fresh, Districts
  <1>2. \/ x \in NewOrderInputs(t) /\ p = "no_w"
        \/ x \in PaymentInputs(t) /\ p = "pay_w"
        \/ x \in DeliveryInputs(t) /\ p = "dlv_scan"
        \/ x \in OrderStatusInputs(t) /\ p = "os_c"
        \/ x \in StockLevelInputs(t) /\ p = "sl_d"
    BY NewOrderInput, OtherInput, FirstSteps DEF Inputs
  <1>3. TxnAt(t)' /\ ItemsAt(t)'
    BY <1>1, <1>2 DEF TxnAt, ItemsAt, Steps, NewOrderSteps, PaymentSteps, DeliverySteps,
               OrderStatusSteps, StockLevelSteps
  <1> QED  BY <1>3 DEF Kept

\* A refused lock ends the transaction or starts its next attempt.
LEMMA FailKept ==
  ASSUME TxnOK, NEW t \in Tasks, pc[t] \in Steps, Fail(t)
  PROVE  Kept(t)
  <1>1. CASE Return(t)  BY <1>1, ReturnKept
  <1>2. CASE Again(t)
    <2>1. pc' = [pc EXCEPT ![t] = FirstStep[txn[t].type]] /\ txn' = txn
          /\ loc' = [loc EXCEPT ![t] = Fresh]
      BY <1>2 DEF Again, Goto, Set
    <2>2. Others(t) /\ pc'[t] = FirstStep[txn'[t].type] /\ loc'[t] = Fresh
      BY <2>1 DEF Others, TxnOK
    <2>3. txn'[t] \in Inputs(t)  BY <2>1 DEF TxnOK, TxnAt, Steps, Inputs
    <2> QED  BY <2>2, <2>3, FreshKept
  <1> QED  BY <1>1, <1>2 DEF Fail

\* A step that keeps the input and goes on in the same transaction.
LEMMA GoOnKept ==
  ASSUME TxnOK, NEW t \in Tasks, Others(t), txn'[t] = txn[t], DOMAIN loc'[t] = DOMAIN Fresh
  PROVE  /\ pc[t] \in PaymentSteps /\ pc'[t] \in PaymentSteps => Kept(t)
         /\ pc[t] \in DeliverySteps /\ pc'[t] \in DeliverySteps /\ loc'[t].n \in Districts => Kept(t)
         /\ pc[t] \in OrderStatusSteps /\ pc'[t] \in OrderStatusSteps => Kept(t)
         /\ pc[t] \in StockLevelSteps /\ pc'[t] \in StockLevelSteps => Kept(t)
         /\ pc'[t] = "panic" => Kept(t)
  <1> PICK p, v : p = pc'[t] /\ v = loc'[t]  OBVIOUS
  <1>1. pc'[t] = p /\ loc'[t] = v /\ txn'[t] = txn[t]  OBVIOUS
  <1>2. TxnAt(t)  BY DEF TxnOK
  <1>3. pc[t] \in PaymentSteps /\ p \in PaymentSteps => TxnAt(t)' /\ ItemsAt(t)'
    BY <1>1, <1>2 DEF TxnAt, ItemsAt, Steps, NewOrderSteps, PaymentSteps, DeliverySteps,
               OrderStatusSteps, StockLevelSteps
  <1>4. pc[t] \in DeliverySteps /\ p \in DeliverySteps /\ v.n \in Districts =>
          TxnAt(t)' /\ ItemsAt(t)'
    BY <1>1, <1>2 DEF TxnAt, ItemsAt, Steps, NewOrderSteps, PaymentSteps, DeliverySteps,
               OrderStatusSteps, StockLevelSteps
  <1>5. pc[t] \in OrderStatusSteps /\ p \in OrderStatusSteps => TxnAt(t)' /\ ItemsAt(t)'
    BY <1>1, <1>2 DEF TxnAt, ItemsAt, Steps, NewOrderSteps, PaymentSteps, DeliverySteps,
               OrderStatusSteps, StockLevelSteps
  <1>6. pc[t] \in StockLevelSteps /\ p \in StockLevelSteps => TxnAt(t)' /\ ItemsAt(t)'
    BY <1>1, <1>2 DEF TxnAt, ItemsAt, Steps, NewOrderSteps, PaymentSteps, DeliverySteps,
               OrderStatusSteps, StockLevelSteps
  <1>7. p = "panic" => TxnAt(t)' /\ ItemsAt(t)'
    BY <1>1, <1>2 DEF TxnAt, ItemsAt, Steps, NewOrderSteps, PaymentSteps, DeliverySteps,
               OrderStatusSteps, StockLevelSteps
  <1> QED  BY <1>1, <1>3, <1>4, <1>5, <1>6, <1>7 DEF Kept

\* Every step of every transaction keeps TxnAt and ItemsAt.
LEMMA WorkKept ==
  ASSUME TxnOK, ItemsOK, NEW t \in Tasks, Work(t)
  PROVE  Kept(t)
  <1> USE DEF Goto, Set
  <1>0. TxnAt(t) /\ ItemsAt(t)  BY DEF TxnOK, ItemsOK
  <1>d. DOMAIN pc = Tasks /\ DOMAIN txn = Tasks /\ DOMAIN loc = Tasks /\ DOMAIN loc[t] = DOMAIN Fresh
    BY <1>0 DEF TxnOK, TxnAt
  <1>f. /\ \A v : DOMAIN [loc[t] EXCEPT !.n = v] = DOMAIN Fresh /\ [loc[t] EXCEPT !.n = v].n = v
        /\ \A v : DOMAIN [loc[t] EXCEPT !.o = v] = DOMAIN Fresh /\ [loc[t] EXCEPT !.o = v].n = loc[t].n
        /\ \A v : DOMAIN [loc[t] EXCEPT !.key = v] = DOMAIN Fresh
        /\ \A v : DOMAIN [loc[t] EXCEPT !.rids = v] = DOMAIN Fresh /\ [loc[t] EXCEPT !.rids = v].n = loc[t].n
        /\ Fresh.n = 0
    BY <1>d DEF Fresh
  <1>1. ASSUME NewOrderLock(t)  PROVE Kept(t)
    <2>1. pc[t] \in NewOrderSteps /\ pc[t] \in {"no_w", "no_d", "no_c"}
      BY <1>1 DEF NewOrderLock, NewOrderSteps
    <2>2. Others(t) /\ txn'[t] = txn[t] /\ loc'[t] = loc[t]
          /\ pc'[t] = CASE pc[t] = "no_w" -> "no_d" [] pc[t] = "no_d" -> "no_c" [] OTHER -> "no_s"
      BY <1>1, <1>d DEF NewOrderLock, Others
    <2>3. pc'[t] \in {"no_d", "no_c", "no_s"} /\ loc[t].n = 0  BY <1>0, <2>1, <2>2 DEF TxnAt
    <2>4. txn[t] \in NewOrderInputs(t) /\ Len(txn[t].lines) >= 1 /\ Len(txn[t].lines) \in Nat
      BY <1>0, <2>1, NewOrderInput DEF TxnAt
    <2>5. TxnAt(t)' /\ ItemsAt(t)'
      BY <1>d, <2>2, <2>3, <2>4 DEF TxnAt, ItemsAt, Steps, NewOrderSteps, PaymentSteps,
         DeliverySteps, OrderStatusSteps, StockLevelSteps
    <2> QED  BY <2>2, <2>5 DEF Kept
  <1>2. ASSUME NewOrderStock(t)  PROVE Kept(t)
    <2>1. pc[t] = "no_s" /\ pc[t] \in NewOrderSteps  BY <1>2 DEF NewOrderStock, NewOrderSteps
    <2>2. txn[t] \in NewOrderInputs(t) /\ Len(txn[t].lines) >= 1 /\ Len(txn[t].lines) \in Nat
      BY <1>0, <2>1, NewOrderInput DEF TxnAt
    <2>3. txn[t].lines[loc[t].n + 1].item \in Items
      BY <1>2, <2>1 DEF NewOrderStock, Lock, Indexed, Wanted, S, Line
    <2>4. loc[t].n \in 0 .. Len(txn[t].lines) - 1 /\ \A i \in 1 .. loc[t].n : txn[t].lines[i].item \in Items
      BY <1>0, <2>1 DEF TxnAt, ItemsAt
    <2>5. \A i \in 1 .. loc[t].n + 1 : txn[t].lines[i].item \in Items
      BY <2>2, <2>3, <2>4
    <2>6. Others(t) /\ txn'[t] = txn[t]  BY <1>2, <1>d DEF NewOrderStock, Others
    <2>7. CASE loc[t].n + 1 = Len(txn[t].lines)
      <3>1. pc'[t] = "no_order" /\ loc'[t] = Fresh  BY <1>2, <1>d, <2>7 DEF NewOrderStock
      <3>2. TxnAt(t)' /\ ItemsAt(t)'
        BY <1>f, <2>2, <2>5, <2>6, <2>7, <3>1 DEF TxnAt, ItemsAt, Steps, NewOrderSteps, PaymentSteps,
           DeliverySteps, OrderStatusSteps, StockLevelSteps
      <3> QED  BY <2>6, <3>2 DEF Kept
    <2>8. CASE loc[t].n + 1 # Len(txn[t].lines)
      <3>1. pc'[t] = "no_s" /\ DOMAIN loc'[t] = DOMAIN Fresh /\ loc'[t].n = loc[t].n + 1
        BY <1>2, <1>d, <1>f, <2>1, <2>8 DEF NewOrderStock
      <3>2. TxnAt(t)' /\ ItemsAt(t)'
        BY <2>2, <2>4, <2>5, <2>6, <2>8, <3>1 DEF TxnAt, ItemsAt, Steps, NewOrderSteps, PaymentSteps,
           DeliverySteps, OrderStatusSteps, StockLevelSteps
      <3> QED  BY <2>6, <3>2 DEF Kept
    <2> QED  BY <2>7, <2>8
  <1>3. ASSUME NewOrderPlace(t)  PROVE Kept(t)
    <2>1. pc[t] = "no_order" /\ pc[t] \in NewOrderSteps  BY <1>3 DEF NewOrderPlace, NewOrderSteps
    <2>2. txn[t] \in NewOrderInputs(t) /\ Len(txn[t].lines) >= 1 /\ Len(txn[t].lines) \in Nat
      BY <1>0, <2>1, NewOrderInput DEF TxnAt
    <2>3. Others(t) /\ txn'[t] = txn[t] /\ pc'[t] = "no_line"
      BY <1>3, <1>d DEF NewOrderPlace, Others
    <2>4. DOMAIN loc'[t] = DOMAIN Fresh /\ loc'[t].n = 0
      BY <1>0, <1>3, <1>d, <1>f, <2>1 DEF NewOrderPlace, TxnAt
    <2>5. TxnAt(t)' /\ ItemsAt(t)'
      BY <1>0, <2>1, <2>2, <2>3, <2>4 DEF TxnAt, ItemsAt, Steps, NewOrderSteps, PaymentSteps,
         DeliverySteps, OrderStatusSteps, StockLevelSteps
    <2> QED  BY <2>3, <2>5 DEF Kept
  <1>4. ASSUME NewOrderLine(t)  PROVE Kept(t)
    <2>1. pc[t] = "no_line" /\ pc[t] \in NewOrderSteps  BY <1>4 DEF NewOrderLine, NewOrderSteps
    <2>2. txn[t] \in NewOrderInputs(t) /\ Len(txn[t].lines) >= 1 /\ Len(txn[t].lines) \in Nat
      BY <1>0, <2>1, NewOrderInput DEF TxnAt
    <2>3. CASE loc[t].n + 1 = Len(txn[t].lines)
      BY <1>4, <2>3, ReturnKept DEF NewOrderLine
    <2>4. CASE loc[t].n + 1 # Len(txn[t].lines)
      <3>1. Others(t) /\ pc'[t] = "no_line" /\ DOMAIN loc'[t] = DOMAIN Fresh
            /\ loc'[t].n = loc[t].n + 1 /\ txn'[t] = txn[t]
        BY <1>4, <1>d, <1>f, <2>1, <2>4 DEF NewOrderLine, Continue, Others
      <3>2. TxnAt(t)' /\ ItemsAt(t)'
        BY <1>0, <2>1, <2>2, <2>4, <3>1 DEF TxnAt, ItemsAt, Steps, NewOrderSteps, PaymentSteps,
           DeliverySteps, OrderStatusSteps, StockLevelSteps
      <3> QED  BY <3>1, <3>2 DEF Kept
    <2> QED  BY <2>3, <2>4
  <1>5. ASSUME PayWarehouse(t) \/ PayDistrict(t) \/ PayCustomer(t)  PROVE Kept(t)
    <2>1. pc[t] \in PaymentSteps /\ pc'[t] \in PaymentSteps /\ Others(t)
          /\ txn'[t] = txn[t] /\ loc'[t] = loc[t]
      BY <1>5, <1>d DEF PayWarehouse, PayDistrict, PayCustomer, PaymentSteps, Others
    <2> QED  BY <1>d, <2>1, GoOnKept
  <1>6. ASSUME PayUpdate(t) \/ NameNotFound(t)  PROVE Kept(t)
    <2>1. CASE Return(t)  BY <2>1, ReturnKept
    <2>2. CASE ~Return(t)
      <3>1. Others(t) /\ txn'[t] = txn[t] /\ loc'[t] = loc[t] /\ pc'[t] = "panic"
        BY <1>6, <1>d, <2>2 DEF PayUpdate, NameNotFound, Continue, Others
      <3> QED  BY <1>d, <3>1, GoOnKept
    <2> QED  BY <2>1, <2>2
  <1>7. ASSUME DeliveryScan(t)  PROVE Kept(t)
    <2>1. CASE Return(t)  BY <2>1, ReturnKept
    <2>2. CASE ~Return(t)
      <3>1. PICK k, o, c : /\ loc' = [loc EXCEPT ![t] = [Fresh EXCEPT !.n = loc[t].n, !.key = k, !.o = o, !.c = c]]
                           /\ pc' = [pc EXCEPT ![t] = "dlv_o"] /\ txn' = txn /\ pc[t] = "dlv_scan"
        <4> DEFINE found == ScanKeys(new_order, make_key(txn[t].w, loc[t].n, 0, 0),
                                     make_key(txn[t].w, loc[t].n, Radix - 1, Radix - 1), 1)
                   oc == o_c_id_from_key(found[1])
        <4>1. /\ loc' = [loc EXCEPT ![t] = [Fresh EXCEPT !.n = loc[t].n,
                           !.key = make_key(txn[t].w, loc[t].n, oc.c, oc.o), !.o = oc.o, !.c = oc.c]]
              /\ pc' = [pc EXCEPT ![t] = "dlv_o"] /\ txn' = txn /\ pc[t] = "dlv_scan"
          BY <1>7, <2>2 DEF DeliveryScan, Continue
        <4> HIDE DEF oc
        <4> QED  BY <4>1
      <3>2. DOMAIN [Fresh EXCEPT !.n = loc[t].n, !.key = k, !.o = o, !.c = c] = DOMAIN Fresh
            /\ [Fresh EXCEPT !.n = loc[t].n, !.key = k, !.o = o, !.c = c].n = loc[t].n
        BY DEF Fresh
      <3>3. Others(t) /\ txn'[t] = txn[t] /\ pc'[t] = "dlv_o" /\ DOMAIN loc'[t] = DOMAIN Fresh
            /\ loc'[t].n = loc[t].n
        BY <1>d, <3>1, <3>2 DEF Others
      <3> QED  BY <1>0, <3>1, <3>3, GoOnKept DEF TxnAt, DeliverySteps
    <2> QED  BY <2>1, <2>2
  <1>8. ASSUME DeliveryOrder(t)  PROVE Kept(t)
    <2>1. Others(t) /\ txn'[t] = txn[t] /\ DOMAIN loc'[t] = DOMAIN Fresh /\ loc'[t].n = loc[t].n
          /\ pc'[t] \in {"panic", "dlv_c", "dlv_ol"} /\ pc[t] = "dlv_o"
      <3>1. CASE loc[t].key \in DOMAIN order
        <4>1. PICK v, p : /\ loc' = [loc EXCEPT ![t] = [loc[t] EXCEPT !.rids = v]] /\ txn' = txn
                          /\ pc' = [pc EXCEPT ![t] = p] /\ p \in {"panic", "dlv_c", "dlv_ol"}
                          /\ pc[t] = "dlv_o"
          <5> DEFINE rids == ScanLines(txn[t].w, loc[t].n, {loc[t].o}, NItems, 20)
                     p == CASE order[loc[t].key].o_c_id # loc[t].c -> "panic"
                            [] rids = <<>> -> "dlv_c"
                            [] OTHER -> "dlv_ol"
          <5>1. /\ loc' = [loc EXCEPT ![t] = [loc[t] EXCEPT !.rids = rids]] /\ txn' = txn
                /\ pc' = [pc EXCEPT ![t] = p] /\ pc[t] = "dlv_o"
            BY <1>8, <3>1 DEF DeliveryOrder
          <5> HIDE DEF rids
          <5>2. p \in {"panic", "dlv_c", "dlv_ol"}  OBVIOUS
          <5> QED  BY <5>1, <5>2
        <4> QED  BY <1>d, <1>f, <4>1 DEF Others
      <3>2. CASE loc[t].key \notin DOMAIN order
        BY <1>8, <1>d, <3>2 DEF DeliveryOrder, Others
      <3> QED  BY <3>1, <3>2
    <2> QED  BY <1>0, <2>1, GoOnKept DEF TxnAt, DeliverySteps
  <1>9. ASSUME DeliveryLine(t)  PROVE Kept(t)
    <2>1. \A v, x : DOMAIN [loc[t] EXCEPT !.rids = v, !.sum = x] = DOMAIN Fresh
                  /\ [loc[t] EXCEPT !.rids = v, !.sum = x].n = loc[t].n
      BY <1>d DEF Fresh
    <2>2. PICK v, x : loc' = [loc EXCEPT ![t] = [loc[t] EXCEPT !.rids = v, !.sum = x]]
      BY <1>9 DEF DeliveryLine
    <2>3. Others(t) /\ txn'[t] = txn[t] /\ DOMAIN loc'[t] = DOMAIN Fresh /\ loc'[t].n = loc[t].n
          /\ pc'[t] \in {"dlv_c", "dlv_ol"} /\ pc[t] = "dlv_ol"
      BY <1>9, <1>d, <2>1, <2>2 DEF DeliveryLine, Others
    <2> QED  BY <1>0, <2>3, GoOnKept DEF TxnAt, DeliverySteps
  <1>10. ASSUME DeliveryCustomer(t)  PROVE Kept(t)
    <2>1. Others(t) /\ txn'[t] = txn[t] /\ loc'[t] = loc[t] /\ pc'[t] = "dlv_upd" /\ pc[t] = "dlv_c"
      BY <1>10, <1>d DEF DeliveryCustomer, Others
    <2> QED  BY <1>0, <1>d, <2>1, GoOnKept DEF TxnAt, DeliverySteps
  <1>11. ASSUME DeliveryUpdate(t)  PROVE Kept(t)
    <2>1. CASE Return(t)  BY <2>1, ReturnKept
    <2>2. CASE ~Return(t)
      <3>1. DOMAIN [Fresh EXCEPT !.n = loc[t].n + 1] = DOMAIN Fresh
            /\ [Fresh EXCEPT !.n = loc[t].n + 1].n = loc[t].n + 1
        BY DEF Fresh
      <3>2. Others(t) /\ txn'[t] = txn[t] /\ pc'[t] = "dlv_scan" /\ pc[t] = "dlv_upd"
            /\ DOMAIN loc'[t] = DOMAIN Fresh /\ loc'[t].n = loc[t].n + 1 /\ loc[t].n + 1 # NDistricts
        BY <1>11, <1>d, <2>2, <3>1 DEF DeliveryUpdate, Continue, Others
      <3>3. loc[t].n \in Districts  BY <1>0, <3>2 DEF TxnAt, DeliverySteps
      <3>4. loc'[t].n \in Districts  BY <3>2, <3>3, Scales DEF Districts
      <3> QED  BY <3>2, <3>4, GoOnKept DEF DeliverySteps
    <2> QED  BY <2>1, <2>2
  <1>12. ASSUME OrderStatusCustomer(t) \/ OrderStatusScan(t)  PROVE Kept(t)
    <2>1. Others(t) /\ txn'[t] = txn[t] /\ DOMAIN loc'[t] = DOMAIN Fresh
          /\ pc[t] \in {"os_c", "os_scan"} /\ pc'[t] \in {"os_scan", "panic", "os_o"}
      BY <1>12, <1>d, <1>f DEF OrderStatusCustomer, OrderStatusScan, Others
    <2> QED  BY <2>1, GoOnKept DEF OrderStatusSteps
  <1>13. ASSUME OrderStatusOrder(t)  PROVE Kept(t)
    <2>1. CASE Return(t)  BY <2>1, ReturnKept
    <2>2. CASE ~Return(t)
      <3>1. Others(t) /\ txn'[t] = txn[t] /\ DOMAIN loc'[t] = DOMAIN Fresh
            /\ pc[t] = "os_o" /\ pc'[t] = "os_ol"
        BY <1>13, <1>d, <1>f, <2>2 DEF OrderStatusOrder, Continue, Others
      <3> QED  BY <3>1, GoOnKept DEF OrderStatusSteps
    <2> QED  BY <2>1, <2>2
  <1>14. ASSUME OrderStatusLine(t)  PROVE Kept(t)
    <2>1. CASE Return(t)  BY <2>1, ReturnKept
    <2>2. CASE ~Return(t)
      <3>1. Others(t) /\ txn'[t] = txn[t] /\ DOMAIN loc'[t] = DOMAIN Fresh
            /\ pc[t] = "os_ol" /\ pc'[t] = "os_ol"
        BY <1>14, <1>d, <1>f, <2>2 DEF OrderStatusLine, Continue, Others
      <3> QED  BY <3>1, GoOnKept DEF OrderStatusSteps
    <2> QED  BY <2>1, <2>2
  <1>15. ASSUME StockLevelDistrict(t)  PROVE Kept(t)
    <2>1. CASE Return(t)  BY <2>1, ReturnKept
    <2>2. CASE ~Return(t)
      <3>1. Others(t) /\ txn'[t] = txn[t] /\ DOMAIN loc'[t] = DOMAIN Fresh
            /\ pc[t] = "sl_d" /\ pc'[t] \in {"sl_ol", "panic"}
        BY <1>15, <1>d, <1>f, <2>2 DEF StockLevelDistrict, Continue, Others
      <3> QED  BY <3>1, GoOnKept DEF StockLevelSteps
    <2> QED  BY <2>1, <2>2
  <1>16. ASSUME StockLevelLock(t)  PROVE Kept(t)
    <2>1. Others(t) /\ txn'[t] = txn[t] /\ loc'[t] = loc[t]
          /\ pc[t] \in {"sl_ol", "sl_s"} /\ pc'[t] \in {"sl_s", "sl_read"}
      BY <1>16, <1>d DEF StockLevelLock, Others
    <2> QED  BY <1>d, <2>1, GoOnKept DEF StockLevelSteps
  <1>17. ASSUME StockLevelRead(t)  PROVE Kept(t)
    <2>1. CASE Return(t)  BY <2>1, ReturnKept
    <2>2. CASE ~Return(t)
      <3>1. Others(t) /\ txn'[t] = txn[t] /\ DOMAIN loc'[t] = DOMAIN Fresh
            /\ pc[t] = "sl_read" /\ pc'[t] = "sl_ol"
        BY <1>17, <1>d, <1>f, <2>2 DEF StockLevelRead, Continue, Others
      <3> QED  BY <3>1, GoOnKept DEF StockLevelSteps
    <2> QED  BY <2>1, <2>2
  <1>18. ASSUME LockBusy(t) \/ UserAbort(t)  PROVE Kept(t)
    <2>1. pc[t] \in Steps /\ Fail(t)
      BY <1>18 DEF LockBusy, UserAbort, Exclusive, Shared, Steps, NewOrderSteps, PaymentSteps,
         DeliverySteps, OrderStatusSteps, StockLevelSteps
    <2> QED  BY <2>1, FailKept
  <1> QED  BY <1>1, <1>2, <1>3, <1>4, <1>5, <1>6, <1>7, <1>8, <1>9, <1>10, <1>11, <1>12, <1>13,
              <1>14, <1>15, <1>16, <1>17, <1>18 DEF Work

\* The table each step writes.
LEMMA Writes ==
  ASSUME NEW t, Work(t)
  PROVE  /\ NewOrderLine(t) \/ stock' = stock
         /\ NewOrderPlace(t) \/ PayDistrict(t) \/ district' = district
         /\ PayWarehouse(t) \/ warehouse' = warehouse
         /\ NewOrderPlace(t) \/ DeliveryOrder(t) \/ order' = order
         /\ NewOrderPlace(t) \/ DeliveryScan(t) \/ new_order' = new_order
         /\ started' = started
  <1>1. CASE NewOrderLock(t) \/ NewOrderStock(t) \/ NewOrderPlace(t) \/ NewOrderLine(t)
    BY <1>1 DEF NewOrderLock, NewOrderStock, NewOrderPlace, NewOrderLine, tables
  <1>2. CASE PayWarehouse(t) \/ PayDistrict(t) \/ PayCustomer(t) \/ PayUpdate(t)
    BY <1>2 DEF PayWarehouse, PayDistrict, PayCustomer, PayUpdate, tables
  <1>3. CASE DeliveryScan(t) \/ DeliveryOrder(t) \/ DeliveryLine(t)
    BY <1>3 DEF DeliveryScan, DeliveryOrder, DeliveryLine, tables
  <1>4. CASE DeliveryCustomer(t) \/ DeliveryUpdate(t)
    BY <1>4 DEF DeliveryCustomer, DeliveryUpdate, tables
  <1>5. CASE OrderStatusCustomer(t) \/ OrderStatusScan(t) \/ OrderStatusOrder(t) \/ OrderStatusLine(t)
    BY <1>5 DEF OrderStatusCustomer, OrderStatusScan, OrderStatusOrder, OrderStatusLine, tables
  <1>6. CASE StockLevelDistrict(t) \/ StockLevelLock(t) \/ StockLevelRead(t)
    BY <1>6 DEF StockLevelDistrict, StockLevelLock, StockLevelRead, tables
  <1>7. CASE NameNotFound(t) \/ LockBusy(t) \/ UserAbort(t)
    BY <1>7 DEF NameNotFound, LockBusy, UserAbort, Fail, tables
  <1> QED  BY <1>1, <1>2, <1>3, <1>4, <1>5, <1>6, <1>7 DEF Work

\* A new transaction starts at its first step, with its own input.
LEMMA BeginKept ==
  ASSUME TxnOK, NEW t \in Tasks, Begin(t)
  PROVE  Kept(t)
  <1>1. PICK x \in Inputs(t) : txn' = [txn EXCEPT ![t] = x] /\ pc' = [pc EXCEPT ![t] = FirstStep[x.type]]
                              /\ loc' = loc /\ pc[t] = "idle"
    BY DEF Begin, Goto
  <1>2. Others(t) /\ txn'[t] = x /\ pc'[t] = FirstStep[x.type] /\ loc'[t] = Fresh
    BY <1>1 DEF Others, TxnOK, TxnAt
  <1> QED  BY <1>2, FreshKept

\* TxnOK and ItemsOK hold at the start ...
LEMMA InitTxn == Init => TxnOK /\ ItemsOK
  <1> SUFFICES ASSUME Init  PROVE TxnOK /\ ItemsOK  OBVIOUS
  <1>1. DOMAIN pc = Tasks /\ DOMAIN txn = Tasks /\ DOMAIN loc = Tasks  BY DEF Init
  <1>2. ASSUME NEW t \in Tasks  PROVE TxnAt(t) /\ ItemsAt(t)
    <2>1. pc[t] = "idle" /\ loc[t] = Fresh  BY DEF Init
    <2> QED  BY <2>1 DEF TxnAt, ItemsAt, NewOrderSteps, PaymentSteps, DeliverySteps,
                OrderStatusSteps, StockLevelSteps
  <1> QED  BY <1>1, <1>2 DEF TxnOK, ItemsOK

\* ... and are preserved by every step.
LEMMA NextTxn == TxnOK /\ ItemsOK /\ [Next]_vars => TxnOK' /\ ItemsOK'
  <1> SUFFICES ASSUME TxnOK, ItemsOK, [Next]_vars  PROVE TxnOK' /\ ItemsOK'  OBVIOUS
  <1>1. ASSUME NEW t \in Tasks, Begin(t) \/ Step(t)  PROVE TxnOK' /\ ItemsOK'
    BY <1>1, BeginKept, WorkKept, KeptIsEnough DEF Step
  <1>2. ASSUME reset_order \/ UNCHANGED vars  PROVE TxnOK' /\ ItemsOK'
    <2>1. pc' = pc /\ txn' = txn /\ loc' = loc  BY <1>2 DEF reset_order, vars
    <2> QED  BY <2>1 DEF TxnOK, ItemsOK, TxnAt, ItemsAt
  <1> QED  BY <1>1, <1>2 DEF Next

-----------------------------------------------------------------------------
(* The quantities in stock.                                                    *)

\* What new_order leaves of a stock is within the limits again.
LEMMA Refilled ==
  ASSUME NEW q \in MinStock .. MinStock + Refill - 1, NEW n \in Quantities
  PROVE  s_quantity(q, n) \in MinStock .. MinStock + Refill - 1 /\ n \in Nat
  <1>1. n \in 1 .. Refill  BY ScaleAssumption
  <1> QED  BY <1>1, Scales DEF s_quantity

\* Only an order line writes a stock, and it keeps the limits.
LEMMA NextStock == StockInv /\ [Next]_vars => StockOK'
  <1> SUFFICES ASSUME StockInv, [Next]_vars  PROVE StockOK'  OBVIOUS
  <1>1. ASSUME NEW t \in Tasks, NewOrderLine(t)  PROVE StockOK'
    <2> DEFINE x == txn[t]
               l == Line(t)
    <2>1. pc[t] = "no_line" /\ TxnAt(t) /\ ItemsAt(t)
      BY <1>1 DEF NewOrderLine, StockInv, TxnOK, ItemsOK
    <2>2. x \in NewOrderInputs(t) /\ loc[t].n \in 0 .. Len(x.lines) - 1
          /\ \A i \in 1 .. Len(x.lines) : x.lines[i].item \in Items
      BY <2>1 DEF TxnAt, ItemsAt, NewOrderSteps
    <2>3. loc[t].n + 1 \in 1 .. Len(x.lines)  BY <2>2, NewOrderInput
    <2>4. l.item \in Items /\ l.supply \in Warehouses /\ l.quantity \in Quantities
      BY <2>2, <2>3, NewOrderInput DEF Line
    <2>5. <<l.supply, l.item>> \in Warehouses \X Items  BY <2>4
    <2> PICK r : r = stock[<<l.supply, l.item>>]  OBVIOUS
    <2> PICK v : v = [s_quantity |-> s_quantity(r.s_quantity, l.quantity),
                      s_ytd |-> r.s_ytd + l.quantity, s_order_cnt |-> r.s_order_cnt + 1,
                      s_remote_cnt |-> r.s_remote_cnt + Remote(l, x.w)]
      OBVIOUS
    <2>6. stock' = [stock EXCEPT ![<<l.supply, l.item>>] = v]  BY <1>1, <2>5 DEF NewOrderLine, StockInv, StockOK
    <2>7. r \in [s_quantity : MinStock .. MinStock + Refill - 1, s_ytd : Nat, s_order_cnt : Nat,
                 s_remote_cnt : Nat]
      BY <2>5 DEF StockInv, StockOK
    <2>8. Remote(l, x.w) \in Nat  BY DEF Remote
    <2> HIDE DEF l, x
    <2>9. s_quantity(r.s_quantity, l.quantity) \in MinStock .. MinStock + Refill - 1 /\ l.quantity \in Nat
      BY <2>4, <2>7, Refilled
    <2>10. v \in [s_quantity : MinStock .. MinStock + Refill - 1, s_ytd : Nat, s_order_cnt : Nat,
                  s_remote_cnt : Nat]
      BY <2>7, <2>8, <2>9
    <2> QED  BY <2>5, <2>6, <2>10 DEF StockInv, StockOK
  <1>2. CASE stock' = stock  BY <1>2 DEF StockInv, StockOK
  <1>3. stock' = stock \/ \E t \in Tasks : NewOrderLine(t)
    BY Writes DEF Next, Step, Begin, reset_order, vars, tables
  <1> QED  BY <1>1, <1>2, <1>3

\* The quantity of every stock stays within its limits, whatever new_order
\* orders from it, from whichever warehouse: StockInRange.
THEOREM StockStaysInRange == Spec => []StockInRange
  <1>1. Init => StockInv
    <2>1. Init => StockOK  BY Scales, ScaleAssumption DEF Init, StockOK, LoadedStockRec
    <2> QED  BY <2>1, InitTxn DEF StockInv
  <1>2. StockInv /\ [Next]_vars => StockInv'  BY NextTxn, NextStock DEF StockInv
  <1>3. StockInv => StockInRange  BY DEF StockInv, StockOK, StockInRange
  <1> QED  BY <1>1, <1>2, <1>3, PTL DEF Spec

-----------------------------------------------------------------------------
(* Sums over the districts of a warehouse.  MapThenSumSet is a recursive      *)
(* function on the subsets of its set: it exists because it can be extended   *)
(* from the subsets of n elements to those of n + 1, and what it yields is    *)
(* shown by the least number of elements for which it would not.              *)

\* A set of natural numbers has a least element.
LEMMA LeastNat ==
  ASSUME NEW T, T \subseteq Nat, T # {}
  PROVE  \E m \in T : \A y \in T : m <= y
  <1>1. PICK m \in T : \A y \in T : ~(<<y, m>> \in OpToRel(<, Nat))
    BY WFMin, NatLessThanWellFounded
  <1>2. \A y \in T : ~(y < m)  BY <1>1 DEF OpToRel
  <1> QED  BY <1>2

\* The equation of the sum of f over the subsets of a set.
SumEq(f, g, s) ==
  g[s] = IF s = {} THEN 0
         ELSE f[CHOOSE x \in s : TRUE] + g[s \ {CHOOSE x \in s : TRUE}]

\* The values of f at the members of a set are numbers.
Ints(f, Ds) == \A d \in Ds : f[d] \in Int

IsSum(f, Ds, g) == g \in [SUBSET Ds -> Int] /\ \A s \in SUBSET Ds : SumEq(f, g, s)

\* A set without the element that is taken first is smaller by one.
LEMMA OneLess ==
  ASSUME NEW s, IsFiniteSet(s), s # {}
  PROVE  /\ (CHOOSE x \in s : TRUE) \in s
         /\ IsFiniteSet(s \ {CHOOSE x \in s : TRUE})
         /\ Cardinality(s \ {CHOOSE x \in s : TRUE}) = Cardinality(s) - 1
         /\ Cardinality(s) \in Nat /\ Cardinality(s) >= 1
         /\ Cardinality(s \ {CHOOSE x \in s : TRUE}) \in Nat
  <1> PICK e : e = CHOOSE x \in s : TRUE  OBVIOUS
  <1>1. e \in s  OBVIOUS
  <1>2. Cardinality(s) \in Nat  BY FS_CardinalityType
  <1>3. IsFiniteSet(s \ {e}) /\ Cardinality(s \ {e}) = Cardinality(s) - 1 /\ Cardinality(s \ {e}) \in Nat
    BY <1>1, FS_RemoveElement, FS_CardinalityType
  <1> QED  BY <1>1, <1>2, <1>3

\* Induction over the subsets of a finite set, in the order they are summed.
LEMMA SubsetInduction ==
  ASSUME NEW Ds, IsFiniteSet(Ds), NEW G, {} \in G,
         \A s \in SUBSET Ds : s # {} /\ s \ {CHOOSE x \in s : TRUE} \in G => s \in G
  PROVE  SUBSET Ds \subseteq G
  <1> DEFINE Bad == {Cardinality(s) : s \in (SUBSET Ds) \ G}
  <1>0. \A s \in SUBSET Ds : IsFiniteSet(s) /\ Cardinality(s) \in Nat  BY FS_Subset, FS_CardinalityType
  <1>1. ASSUME NEW z \in SUBSET Ds, z \notin G  PROVE FALSE
    <2>1. Bad \subseteq Nat /\ Bad # {}  BY <1>0, <1>1
    <2>2. PICK m \in Bad : \A y \in Bad : m <= y
      <3> HIDE DEF Bad
      <3> QED  BY <2>1, LeastNat
    <2>3. PICK s \in (SUBSET Ds) \ G : m = Cardinality(s)  BY <2>2
    <2>4. s # {}  BY <2>3
    <2> PICK r : r = s \ {CHOOSE x \in s : TRUE}  OBVIOUS
    <2>5. Cardinality(r) = Cardinality(s) - 1 /\ Cardinality(s) \in Nat  BY <1>0, <2>3, <2>4, OneLess
    <2>6. r \in SUBSET Ds /\ r \notin G  BY <2>3, <2>4
    <2>7. Cardinality(r) \in Bad  BY <2>6
    <2>8. Cardinality(s) <= Cardinality(r)  BY <2>2, <2>3, <2>7
    <2> QED  BY <2>5, <2>8
  <1> QED  BY <1>1

\* A sum over the sets of at most n elements exists, by induction on n.
LEMMA SumStage ==
  ASSUME NEW f, NEW Ds, IsFiniteSet(Ds), Ints(f, Ds), NEW n \in Nat
  PROVE  \E g \in [{s \in SUBSET Ds : Cardinality(s) <= n} -> Int] :
           \A s \in SUBSET Ds : Cardinality(s) <= n => SumEq(f, g, s)
  <1> DEFINE Stage(k) == {s \in SUBSET Ds : Cardinality(s) <= k}
             Good(k) == \E g \in [Stage(k) -> Int] : \A s \in Stage(k) : SumEq(f, g, s)
             Bad == {k \in Nat : ~Good(k)}
  <1>0. \A s \in SUBSET Ds : IsFiniteSet(s) /\ Cardinality(s) \in Nat  BY FS_Subset, FS_CardinalityType
  <1>1. ASSUME Bad # {}  PROVE FALSE
    <2>1. PICK m \in Bad : \A y \in Bad : m <= y
      <3>1. Bad \subseteq Nat  OBVIOUS
      <3> HIDE DEF Bad
      <3> QED  BY <1>1, <3>1, LeastNat
    <2>2. CASE m = 0
      <3>1. \A s \in Stage(0) : s = {}
        BY <1>0, FS_EmptySet
      <3> DEFINE g == [s \in Stage(0) |-> 0]
      <3>2. g \in [Stage(0) -> Int] /\ \A s \in Stage(0) : SumEq(f, g, s)
        BY <3>1 DEF SumEq
      <3>3. Good(0)  BY <3>2
      <3> QED  BY <2>1, <2>2, <3>3
    <2>3. CASE m # 0
      <3>1. m \in Nat /\ m - 1 \in Nat /\ m - 1 < m  BY <2>1, <2>3
      <3>2. Good(m - 1)
        <4>1. m - 1 \notin Bad
          <5> HIDE DEF Bad
          <5> QED  BY <2>1, <3>1
        <4> QED  BY <3>1, <4>1
      <3>3. PICK g \in [Stage(m - 1) -> Int] : \A s \in Stage(m - 1) : SumEq(f, g, s)  BY <3>2
      <3> DEFINE v(s) == f[CHOOSE x \in s : TRUE] + g[s \ {CHOOSE x \in s : TRUE}]
                 h == [s \in Stage(m) |-> IF s = {} THEN 0 ELSE v(s)]
      <3>4. ASSUME NEW s \in Stage(m), s # {}
            PROVE  /\ s \ {CHOOSE x \in s : TRUE} \in Stage(m - 1)
                   /\ s \ {CHOOSE x \in s : TRUE} \in Stage(m)
                   /\ (CHOOSE x \in s : TRUE) \in Ds
                   /\ v(s) \in Int
        <4>1. IsFiniteSet(s) /\ s \in SUBSET Ds /\ Cardinality(s) <= m  BY <1>0
        <4> PICK e : e = CHOOSE x \in s : TRUE  OBVIOUS
        <4>2. e \in s /\ Cardinality(s \ {e}) = Cardinality(s) - 1 /\ Cardinality(s) \in Nat /\ Cardinality(s \ {e}) \in Nat
          BY <3>4, <4>1, OneLess
        <4>3. s \ {e} \in Stage(m - 1) /\ s \ {e} \in Stage(m)  BY <3>1, <4>1, <4>2
        <4>4. g[s \ {e}] \in Int /\ f[e] \in Int  BY <4>1, <4>2, <4>3 DEF Ints
        <4> QED  BY <4>1, <4>2, <4>3, <4>4
      <3>5. h \in [Stage(m) -> Int]  BY <3>4
      <3>6. \A s \in Stage(m - 1) : s \in Stage(m) /\ h[s] = g[s]
        <4> SUFFICES ASSUME NEW s \in Stage(m - 1)  PROVE s \in Stage(m) /\ h[s] = g[s]  OBVIOUS
        <4>1. s \in Stage(m)  BY <1>0, <3>1
        <4>2. SumEq(f, g, s)  BY <3>3
        <4> QED  BY <4>1, <4>2 DEF SumEq
      <3>7. ASSUME NEW s \in Stage(m)  PROVE SumEq(f, h, s)
        <4>1. CASE s = {}  BY <4>1 DEF SumEq
        <4>2. CASE s # {}
          <5>1. h[s] = v(s)  BY <4>2
          <5>2. h[s \ {CHOOSE x \in s : TRUE}] = g[s \ {CHOOSE x \in s : TRUE}]  BY <3>4, <3>6, <4>2
          <5> QED  BY <4>2, <5>1, <5>2 DEF SumEq
        <4> QED  BY <4>1, <4>2
      <3>8. Good(m)  BY <3>5, <3>7
      <3> QED  BY <2>1, <3>8
    <2> QED  BY <2>2, <2>3
  <1>2. Good(n)  BY <1>1
  <1> QED  BY <1>2

\* The sum is the value at the whole set of a function that satisfies the
\* equation on every subset.
LEMMA SumExists ==
  ASSUME NEW f, NEW Ds, IsFiniteSet(Ds), Ints(f, Ds)
  PROVE  \E g : IsSum(f, Ds, g) /\ SumFunctionOnSet(f, Ds) = g[Ds]
  <1> DEFINE Is(g) == g = [s \in SUBSET Ds |-> IF s = {} THEN 0
                             ELSE f[CHOOSE x \in s : TRUE] + g[s \ {CHOOSE x \in s : TRUE}]]
  <1>1. Cardinality(Ds) \in Nat  BY FS_CardinalityType
  <1>2. \A s \in SUBSET Ds : IsFiniteSet(s) /\ Cardinality(s) <= Cardinality(Ds)  BY FS_Subset
  <1>3. PICK h \in [SUBSET Ds -> Int] : \A s \in SUBSET Ds : SumEq(f, h, s)
    <2>1. {s \in SUBSET Ds : Cardinality(s) <= Cardinality(Ds)} = SUBSET Ds  BY <1>2
    <2> QED  BY <1>1, <1>2, <2>1, SumStage
  <1>4. h = [s \in SUBSET Ds |-> h[s]]  OBVIOUS
  <1>5. Is(h)  BY <1>3, <1>4 DEF SumEq
  <1> DEFINE c == CHOOSE g : Is(g)
  <1>6. Is(c)  BY <1>5
  <1>7. SumFunctionOnSet(f, Ds) = c[Ds]
    BY DEF SumFunctionOnSet, FoldFunctionOnSet, MapThenFoldSet
  <1> HIDE DEF c
  <1>8. DOMAIN c = SUBSET Ds /\ \A s \in SUBSET Ds : SumEq(f, c, s)  BY <1>6 DEF SumEq
  <1>9. c[Ds] = h[Ds] /\ \A s \in SUBSET Ds : c[s] \in Int
    <2> DEFINE G == {s \in SUBSET Ds : c[s] = h[s]}
    <2>1. {} \in G  BY <1>3, <1>8 DEF SumEq
    <2>2. ASSUME NEW s \in SUBSET Ds, s # {}, s \ {CHOOSE x \in s : TRUE} \in G  PROVE s \in G
      BY <1>3, <1>8, <2>2 DEF SumEq
    <2>3. SUBSET Ds \subseteq G
      <3> HIDE DEF G
      <3> QED  BY <2>1, <2>2, SubsetInduction
    <2> QED  BY <1>3, <2>3
  <1>10. c = [s \in SUBSET Ds |-> c[s]]  BY <1>6
  <1>11. c \in [SUBSET Ds -> Int]  BY <1>9, <1>10
  <1> QED  BY <1>7, <1>8, <1>11 DEF IsSum

\* Induction over the subsets of a finite set, from all smaller ones.
LEMMA SmallerInduction ==
  ASSUME NEW Ds, IsFiniteSet(Ds), NEW G,
         \A s \in SUBSET Ds : (\A r \in SUBSET s : r # s => r \in G) => s \in G
  PROVE  SUBSET Ds \subseteq G
  <1> DEFINE Bad == {Cardinality(s) : s \in (SUBSET Ds) \ G}
  <1>0. \A s \in SUBSET Ds : IsFiniteSet(s) /\ Cardinality(s) \in Nat  BY FS_Subset, FS_CardinalityType
  <1>1. ASSUME NEW z \in SUBSET Ds, z \notin G  PROVE FALSE
    <2>1. Bad \subseteq Nat /\ Bad # {}  BY <1>0, <1>1
    <2>2. PICK m \in Bad : \A y \in Bad : m <= y
      <3> HIDE DEF Bad
      <3> QED  BY <2>1, LeastNat
    <2>3. PICK s \in (SUBSET Ds) \ G : m = Cardinality(s)  BY <2>2
    <2>4. ASSUME NEW r \in SUBSET s, r # s, r \notin G  PROVE FALSE
      <3>1. r \in (SUBSET Ds) \ G  BY <2>4
      <3>2. Cardinality(r) \in Bad  BY <3>1
      <3>3. Cardinality(s) <= Cardinality(r)  BY <2>2, <2>3, <3>2
      <3>4. Cardinality(r) <= Cardinality(s) /\ (Cardinality(s) = Cardinality(r) => s = r)
        BY <1>0, FS_Subset
      <3>5. Cardinality(r) \in Nat /\ Cardinality(s) \in Nat  BY <1>0, <3>1
      <3> QED  BY <2>4, <3>3, <3>4, <3>5
    <2> QED  BY <2>3, <2>4
  <1> QED  BY <1>1

\* Any element may be taken first.
LEMMA SumAnyFirst ==
  ASSUME NEW f, NEW Ds, IsFiniteSet(Ds), Ints(f, Ds), NEW F, IsSum(f, Ds, F),
         NEW s \in SUBSET Ds, NEW x \in s
  PROVE  F[s] = f[x] + F[s \ {x}]
  <1> DEFINE G == {r \in SUBSET Ds : \A y \in r : F[r] = f[y] + F[r \ {y}]}
  <1>1. ASSUME NEW r \in SUBSET Ds, \A q \in SUBSET r : q # r => q \in G  PROVE r \in G
    <2>1. ASSUME NEW y \in r  PROVE F[r] = f[y] + F[r \ {y}]
      <3> PICK c, p, q, v : c = (CHOOSE z \in r : TRUE) /\ p = r \ {c} /\ q = r \ {y} /\ v = p \ {y}
        OBVIOUS
      <3>1. c \in r /\ p \in SUBSET Ds /\ q \in SUBSET Ds /\ v \in SUBSET Ds  OBVIOUS
      <3>2. F[r] = f[c] + F[p]  BY <2>1 DEF IsSum, SumEq
      <3>3. CASE y = c  BY <3>2, <3>3
      <3>4. CASE y # c
        <4>1. p \in G /\ q \in G
          <5>1. p \in SUBSET r /\ q \in SUBSET r /\ p # r /\ q # r  BY <2>1, <3>1
          <5> HIDE DEF G
          <5> QED  BY <1>1, <5>1
        <4>2. F[p] = f[y] + F[v]  BY <2>1, <3>4, <4>1
        <4>3. q \ {c} = v  OBVIOUS
        <4>4. F[q] = f[c] + F[v]  BY <3>1, <3>4, <4>1, <4>3
        <4>5. f[c] \in Int /\ f[y] \in Int /\ F[v] \in Int  BY <2>1, <3>1 DEF IsSum, Ints
        <4> HIDE DEF G
        <4> QED  BY <3>2, <4>2, <4>4, <4>5
      <3> QED  BY <3>3, <3>4
    <2> QED  BY <2>1
  <1>2. SUBSET Ds \subseteq G
    <2> HIDE DEF G
    <2> QED  BY <1>1, SmallerInduction
  <1> QED  BY <1>2

\* The sum over a part of a set is the value of the set's sum function there.
LEMMA SumOfPart ==
  ASSUME NEW f, NEW Ds, IsFiniteSet(Ds), Ints(f, Ds), NEW F, IsSum(f, Ds, F), NEW s \in SUBSET Ds
  PROVE  SumFunctionOnSet(f, s) = F[s]
  <1>1. IsFiniteSet(s) /\ Ints(f, s)  BY FS_Subset DEF Ints
  <1>2. PICK H : IsSum(f, s, H) /\ SumFunctionOnSet(f, s) = H[s]  BY <1>1, SumExists
  <1> DEFINE G == {r \in SUBSET s : F[r] = H[r]}
  <1>3. {} \in G
    <2>1. {} \in SUBSET Ds /\ {} \in SUBSET s  OBVIOUS
    <2>2. SumEq(f, F, {}) /\ SumEq(f, H, {})  BY <1>2, <2>1 DEF IsSum
    <2> QED  BY <2>1, <2>2 DEF SumEq
  <1>4. ASSUME NEW r \in SUBSET s, r # {}, r \ {CHOOSE x \in r : TRUE} \in G  PROVE r \in G
    <2>1. r \in SUBSET Ds  OBVIOUS
    <2>2. SumEq(f, F, r) /\ SumEq(f, H, r)  BY <1>2, <2>1 DEF IsSum
    <2> QED  BY <1>4, <2>2 DEF SumEq
  <1>5. SUBSET s \subseteq G
    <2> HIDE DEF G
    <2> QED  BY <1>1, <1>3, <1>4, SubsetInduction
  <1> QED  BY <1>2, <1>5

\* The sum over the empty set is 0, ...
LEMMA SumEmpty ==
  ASSUME NEW f
  PROVE  SumFunctionOnSet(f, {}) = 0
  <1>1. IsFiniteSet({}) /\ Ints(f, {})  BY FS_EmptySet DEF Ints
  <1>2. PICK F : IsSum(f, {}, F) /\ SumFunctionOnSet(f, {}) = F[{}]  BY <1>1, SumExists
  <1>3. SumEq(f, F, {})  BY <1>2 DEF IsSum
  <1> QED  BY <1>2, <1>3 DEF SumEq

\* ... every sum of integers is one, ...
LEMMA SumIsInt ==
  ASSUME NEW f, NEW s, IsFiniteSet(s), Ints(f, s)
  PROVE  SumFunctionOnSet(f, s) \in Int
  <1>1. PICK F : IsSum(f, s, F) /\ SumFunctionOnSet(f, s) = F[s]  BY SumExists
  <1> QED  BY <1>1 DEF IsSum

\* ... any element may be taken out of it ...
LEMMA SumTake ==
  ASSUME NEW f, NEW s, IsFiniteSet(s), Ints(f, s), NEW x \in s
  PROVE  SumFunctionOnSet(f, s) = f[x] + SumFunctionOnSet(f, s \ {x})
  <1>1. PICK F : IsSum(f, s, F) /\ SumFunctionOnSet(f, s) = F[s]  BY SumExists
  <1>2. SumFunctionOnSet(f, s \ {x}) = F[s \ {x}]  BY <1>1, SumOfPart
  <1>3. F[s] = f[x] + F[s \ {x}]  BY <1>1, SumAnyFirst
  <1> QED  BY <1>1, <1>2, <1>3

\* ... and any other added to it.
LEMMA SumAdd ==
  ASSUME NEW f, NEW s, IsFiniteSet(s), NEW x, x \notin s, Ints(f, s \cup {x})
  PROVE  SumFunctionOnSet(f, s \cup {x}) = f[x] + SumFunctionOnSet(f, s)
  <1>1. IsFiniteSet(s \cup {x}) /\ (s \cup {x}) \ {x} = s  BY FS_AddElement
  <1> QED  BY <1>1, SumTake

\* A sum is no larger where no value is.
LEMMA SumLeq ==
  ASSUME NEW f, NEW g, NEW s, IsFiniteSet(s), Ints(f, s), Ints(g, s), \A x \in s : f[x] <= g[x]
  PROVE  SumFunctionOnSet(f, s) <= SumFunctionOnSet(g, s)
  <1> DEFINE G == {r \in SUBSET s : SumFunctionOnSet(f, r) <= SumFunctionOnSet(g, r)}
  <1>1. {} \in G  BY SumEmpty
  <1>2. ASSUME NEW r \in SUBSET s, r # {}, r \ {CHOOSE x \in r : TRUE} \in G  PROVE r \in G
    <2> PICK c, q : c = (CHOOSE x \in r : TRUE) /\ q = r \ {c}  OBVIOUS
    <2>1. c \in r /\ c \in s /\ IsFiniteSet(r) /\ IsFiniteSet(q)  BY <1>2, FS_Subset
    <2>2. Ints(f, r) /\ Ints(g, r) /\ Ints(f, q) /\ Ints(g, q)  BY DEF Ints
    <2>3. /\ SumFunctionOnSet(f, r) = f[c] + SumFunctionOnSet(f, q)
          /\ SumFunctionOnSet(g, r) = g[c] + SumFunctionOnSet(g, q)
      <3> HIDE DEF G
      <3>1. SumFunctionOnSet(f, r) = f[c] + SumFunctionOnSet(f, r \ {c})  BY ONLY <2>1, <2>2, SumTake
      <3>2. SumFunctionOnSet(g, r) = g[c] + SumFunctionOnSet(g, r \ {c})  BY ONLY <2>1, <2>2, SumTake
      <3> QED  BY <3>1, <3>2
    <2>4. SumFunctionOnSet(f, q) \in Int /\ SumFunctionOnSet(g, q) \in Int  BY <2>1, <2>2, SumIsInt
    <2>5. SumFunctionOnSet(f, q) <= SumFunctionOnSet(g, q)  BY <1>2
    <2>6. f[c] \in Int /\ g[c] \in Int /\ f[c] <= g[c]  BY <2>1 DEF Ints
    <2>7. SumFunctionOnSet(f, r) <= SumFunctionOnSet(g, r)
      <3> HIDE DEF G
      <3> QED  BY <2>3, <2>4, <2>5, <2>6
    <2> QED  BY <2>7
  <1>3. SUBSET s \subseteq G
    <2> HIDE DEF G
    <2> QED  BY <1>1, <1>2, SubsetInduction
  <1> QED  BY <1>3

\* Functions that agree on a set have the same sum there.
LEMMA SumSame ==
  ASSUME NEW f, NEW g, NEW s, IsFiniteSet(s), Ints(f, s), \A x \in s : g[x] = f[x]
  PROVE  SumFunctionOnSet(g, s) = SumFunctionOnSet(f, s)
  <1>1. Ints(g, s)  BY DEF Ints
  <1>2. (\A x \in s : f[x] <= g[x]) /\ (\A x \in s : g[x] <= f[x])  BY DEF Ints
  <1>3. SumFunctionOnSet(f, s) <= SumFunctionOnSet(g, s) /\ SumFunctionOnSet(g, s) <= SumFunctionOnSet(f, s)
    BY <1>1, <1>2, SumLeq
  <1>4. SumFunctionOnSet(f, s) \in Int /\ SumFunctionOnSet(g, s) \in Int  BY <1>1, SumIsInt
  <1> QED  BY <1>3, <1>4

\* A sum of amounts is no larger over a part.
LEMMA SumPart ==
  ASSUME NEW f, NEW s, IsFiniteSet(s), \A x \in s : f[x] \in Nat, NEW p \in SUBSET s
  PROVE  /\ SumFunctionOnSet(f, p) \in Nat
         /\ SumFunctionOnSet(f, p) <= SumFunctionOnSet(f, s)
  <1>0. Ints(f, s)  BY DEF Ints
  <1> DEFINE G == {r \in SUBSET s : /\ SumFunctionOnSet(f, r) \in Nat
                                   /\ SumFunctionOnSet(f, r \cap p) <= SumFunctionOnSet(f, r)}
  <1>1. {} \in G
    <2>1. {} \cap p = {}  OBVIOUS
    <2> QED  BY <2>1, SumEmpty
  <1>2. ASSUME NEW r \in SUBSET s, r # {}, r \ {CHOOSE x \in r : TRUE} \in G  PROVE r \in G
    <2> PICK c, q : c = (CHOOSE x \in r : TRUE) /\ q = r \ {c}  OBVIOUS
    <2>1. c \in r /\ c \in s /\ IsFiniteSet(r) /\ IsFiniteSet(q) /\ IsFiniteSet(r \cap p) /\ IsFiniteSet(q \cap p)
      BY <1>2, FS_Subset
    <2>2. Ints(f, r) /\ Ints(f, q) /\ Ints(f, r \cap p) /\ Ints(f, q \cap p)  BY <1>0 DEF Ints
    <2>3. SumFunctionOnSet(f, r) = f[c] + SumFunctionOnSet(f, q)
      <3>1. SumFunctionOnSet(f, r) = f[c] + SumFunctionOnSet(f, r \ {c})  BY ONLY <2>1, <2>2, SumTake
      <3> QED  BY <3>1
    <2>4. SumFunctionOnSet(f, q) \in Nat /\ SumFunctionOnSet(f, q \cap p) <= SumFunctionOnSet(f, q)
      BY <1>2
    <2>5. f[c] \in Nat  BY <2>1
    <2>6. SumFunctionOnSet(f, q \cap p) \in Int  BY <2>1, <2>2, SumIsInt
    <2>7. SumFunctionOnSet(f, r \cap p) = SumFunctionOnSet(f, q \cap p)
          \/ SumFunctionOnSet(f, r \cap p) = f[c] + SumFunctionOnSet(f, q \cap p)
      <3>1. CASE c \in p
        <4>1. (r \cap p) \ {c} = q \cap p /\ c \in r \cap p  BY <2>1, <3>1
        <4>2. SumFunctionOnSet(f, r \cap p) = f[c] + SumFunctionOnSet(f, (r \cap p) \ {c})
          BY ONLY <2>1, <2>2, <4>1, SumTake
        <4> QED  BY <4>1, <4>2
      <3>2. CASE c \notin p
        <4>1. r \cap p = q \cap p  BY <3>2
        <4> QED  BY <4>1
      <3> QED  BY <3>1, <3>2
    <2>8. SumFunctionOnSet(f, r) \in Nat /\ SumFunctionOnSet(f, r \cap p) <= SumFunctionOnSet(f, r)
      <3> HIDE DEF G
      <3> QED  BY <2>3, <2>4, <2>5, <2>6, <2>7
    <2> QED  BY <2>8
  <1>3. SUBSET s \subseteq G
    <2> HIDE DEF G
    <2> QED  BY <1>1, <1>2, SubsetInduction
  <1>4. s \cap p = p  OBVIOUS
  <1>5. SumFunctionOnSet(f, s \cap p) <= SumFunctionOnSet(f, s)  BY <1>3
  <1>6. SumFunctionOnSet(f, p) \in Nat  BY <1>3
  <1> QED  BY <1>4, <1>5, <1>6

\* The sum over the districts grows by what one of them grows by.
LEMMA SumChange ==
  ASSUME NEW f, NEW g, NEW w, NEW Ds, IsFiniteSet(Ds), NEW e,
         \A d \in Ds : f[<<w, d>>].d_ytd \in Int,
         \A d \in Ds : g[<<w, d>>].d_ytd = f[<<w, d>>].d_ytd + (IF d = e THEN 1 ELSE 0)
  PROVE  /\ YtdSum(f, w, Ds) \in Int
         /\ YtdSum(g, w, Ds) =
              YtdSum(f, w, Ds) + (IF e \in Ds THEN 1 ELSE 0)
  <1> PICK h, k : /\ h = [d \in Ds |-> f[<<w, d>>].d_ytd]
                  /\ k = [d \in Ds |-> g[<<w, d>>].d_ytd]
    OBVIOUS
  <1>1. YtdSum(f, w, Ds) = SumFunctionOnSet(h, Ds) /\ YtdSum(g, w, Ds) = SumFunctionOnSet(k, Ds)
    BY DEF YtdSum
  <1>2. Ints(h, Ds) /\ Ints(k, Ds) /\ \A d \in Ds : d # e => k[d] = h[d]  BY DEF Ints
  <1>3. SumFunctionOnSet(h, Ds) \in Int  BY <1>2, SumIsInt
  <1>4. CASE e \notin Ds
    <2>1. SumFunctionOnSet(k, Ds) = SumFunctionOnSet(h, Ds)  BY <1>2, <1>4, SumSame
    <2> QED  BY <1>1, <1>3, <1>4, <2>1
  <1>5. CASE e \in Ds
    <2> PICK r : r = Ds \ {e}  OBVIOUS
    <2>1. IsFiniteSet(r) /\ Ints(h, r) /\ Ints(k, r) /\ \A d \in r : k[d] = h[d]
      BY <1>2, FS_RemoveElement DEF Ints
    <2>2. SumFunctionOnSet(k, r) = SumFunctionOnSet(h, r) /\ SumFunctionOnSet(h, r) \in Int
      <3>1. SumFunctionOnSet(k, r) = SumFunctionOnSet(h, r)  BY ONLY <2>1, SumSame
      <3>2. SumFunctionOnSet(h, r) \in Int  BY ONLY <2>1, SumIsInt
      <3> QED  BY <3>1, <3>2
    <2>3. SumFunctionOnSet(h, Ds) = h[e] + SumFunctionOnSet(h, r)
          /\ SumFunctionOnSet(k, Ds) = k[e] + SumFunctionOnSet(k, r)
      BY <1>2, <1>5, SumTake
    <2>4. k[e] = h[e] + 1 /\ h[e] \in Int  BY <1>5
    <2> QED  BY <1>1, <1>3, <1>5, <2>2, <2>3, <2>4
  <1> QED  BY <1>4, <1>5

\* Ones sum up to their number.
LEMMA SumOnes ==
  ASSUME NEW f, NEW w, NEW Ds, IsFiniteSet(Ds), \A d \in Ds : f[<<w, d>>].d_ytd = 1
  PROVE  YtdSum(f, w, Ds) = Cardinality(Ds)
  <1> PICK h : h = [d \in Ds |-> f[<<w, d>>].d_ytd]  OBVIOUS
  <1>1. YtdSum(f, w, Ds) = SumFunctionOnSet(h, Ds)  BY DEF YtdSum
  <1>2. \A d \in Ds : h[d] = 1  OBVIOUS
  <1> DEFINE G == {s \in SUBSET Ds : SumFunctionOnSet(h, s) = Cardinality(s)}
  <1>3. {} \in G  BY SumEmpty, FS_EmptySet
  <1>4. ASSUME NEW s \in SUBSET Ds, s # {}, s \ {CHOOSE x \in s : TRUE} \in G  PROVE s \in G
    <2> PICK c, r : c = (CHOOSE x \in s : TRUE) /\ r = s \ {c}  OBVIOUS
    <2>1. c \in s /\ SumFunctionOnSet(h, r) = Cardinality(r)  BY <1>4
    <2>2. Cardinality(r) = Cardinality(s) - 1 /\ Cardinality(s) \in Nat /\ IsFiniteSet(s)
      BY <1>4, FS_Subset, OneLess
    <2>3. Ints(h, s) /\ h[c] = 1  BY <1>2, <2>1 DEF Ints
    <2>4. SumFunctionOnSet(h, s) = h[c] + SumFunctionOnSet(h, r)
      <3>1. SumFunctionOnSet(h, s) = h[c] + SumFunctionOnSet(h, s \ {c})  BY ONLY <2>1, <2>2, <2>3, SumTake
      <3> QED  BY <3>1
    <2>5. SumFunctionOnSet(h, s) = Cardinality(s)  BY <2>1, <2>2, <2>3, <2>4
    <2> QED  BY <2>5
  <1>5. SUBSET Ds \subseteq G
    <2> HIDE DEF G
    <2> QED  BY <1>3, <1>4, SubsetInduction
  <1> QED  BY <1>1, <1>5

-----------------------------------------------------------------------------
(* The locks on warehouses and districts.                                      *)

\* What a step tries to lock in the warehouse and district tables is of its slice.
LEMMA WantedAtHome ==
  ASSUME TxnOK, NEW t \in Tasks, pc[t] \in Exclusive \cup Shared
  PROVE  Wanted(t)[1] \in {"warehouse", "district"} => Wanted(t)[2] \in Home(t)
  <1>1. TxnAt(t)  BY DEF TxnOK
  <1>2. CASE pc[t] \in {"no_w", "no_d", "pay_w", "pay_d", "sl_d"}
    <2>1. txn[t].w \in Home(t)
      BY <1>1, <1>2, NewOrderInput, OtherInput DEF TxnAt, NewOrderSteps, PaymentSteps, StockLevelSteps
    <2>2. Wanted(t) \in {W(txn[t].w), D(txn[t].w, txn[t].d)}  BY <1>2 DEF Wanted
    <2> QED  BY <2>1, <2>2 DEF W, D
  <1>3. CASE pc[t] \notin {"no_w", "no_d", "pay_w", "pay_d", "sl_d"}
    <2>1. Wanted(t)[1] \in {"customer", "stock", "order", "order_line"}
      BY <1>3 DEF Wanted, Exclusive, Shared, C, S, O, OL
    <2> QED  BY <2>1
  <1> QED  BY <1>2, <1>3

\* The steps before which a task holds nothing.
Bare == {"idle", "no_w", "pay_w", "os_c", "sl_d"}

\* How a step changes the locks of its task.
LEMMA LockKinds ==
  ASSUME TxnOK, NEW t \in Tasks, Work(t)
  PROVE  \/ Return(t)
         \/ Again(t) /\ pc[t] \in Steps
         \/ PayWarehouse(t)
         \/ /\ pc'[t] \notin Bare \cup {"pay_d"}
            /\ \/ wlock' = wlock /\ rlock' = rlock
               \/ Lock(t)
               \/ \E rs : Release(t, rs)
  <1> USE DEF Goto, Bare
  <1>d. DOMAIN pc = Tasks  BY DEF TxnOK
  <1>1. CASE NewOrderLock(t) \/ NewOrderStock(t) \/ NewOrderPlace(t)
    BY <1>d, <1>1 DEF NewOrderLock, NewOrderStock, NewOrderPlace
  <1>2. CASE NewOrderLine(t)  BY <1>d, <1>2 DEF NewOrderLine
  <1>3. CASE PayDistrict(t) \/ PayCustomer(t) \/ PayUpdate(t)
    BY <1>d, <1>3 DEF PayDistrict, PayCustomer, PayUpdate
  <1>4. CASE DeliveryScan(t)
    <2>1. Return(t) \/ (pc' = [pc EXCEPT ![t] = "dlv_o"] /\ wlock' = wlock /\ rlock' = rlock)
      BY <1>4 DEF DeliveryScan
    <2> QED  BY <1>d, <2>1
  <1>5. CASE DeliveryOrder(t)
    <2>1. CASE loc[t].key \in DOMAIN order
      <3>1. Lock(t) /\ pc' = [pc EXCEPT ![t] =
              CASE order[loc[t].key].o_c_id # loc[t].c -> "panic"
                [] ScanLines(txn[t].w, loc[t].n, {loc[t].o}, NItems, 20) = <<>> -> "dlv_c"
                [] OTHER -> "dlv_ol"]
        BY <1>5, <2>1 DEF DeliveryOrder
      <3> HIDE DEF Lock
      <3>2. pc'[t] \in {"panic", "dlv_c", "dlv_ol"}  BY <1>d, <3>1
      <3> QED  BY <3>1, <3>2
    <2>2. CASE loc[t].key \notin DOMAIN order  BY <1>d, <1>5, <2>2 DEF DeliveryOrder
    <2> QED  BY <2>1, <2>2
  <1>6. CASE DeliveryLine(t) \/ DeliveryCustomer(t)
    BY <1>d, <1>6 DEF DeliveryLine, DeliveryCustomer
  <1>7. CASE DeliveryUpdate(t)  BY <1>d, <1>7 DEF DeliveryUpdate
  <1>8. CASE OrderStatusCustomer(t) \/ OrderStatusScan(t)
    BY <1>d, <1>8 DEF OrderStatusCustomer, OrderStatusScan
  <1>9. CASE OrderStatusOrder(t) \/ OrderStatusLine(t)
    BY <1>d, <1>9 DEF OrderStatusOrder, OrderStatusLine
  <1>10. CASE StockLevelDistrict(t) \/ StockLevelLock(t) \/ StockLevelRead(t)
    BY <1>d, <1>10 DEF StockLevelDistrict, StockLevelLock, StockLevelRead
  <1>11. CASE NameNotFound(t) \/ LockBusy(t) \/ UserAbort(t)
    <2>1. Return(t) \/ (Again(t) /\ pc[t] \in Exclusive \cup Shared)
      BY <1>11 DEF NameNotFound, LockBusy, UserAbort, Fail, Exclusive
    <2>2. Exclusive \cup Shared \subseteq Steps
      BY DEF Exclusive, Shared, Steps, NewOrderSteps, PaymentSteps, DeliverySteps, OrderStatusSteps,
         StockLevelSteps
    <2> QED  BY <2>1, <2>2
  <1> QED  BY <1>1, <1>2, <1>3, <1>4, <1>5, <1>6, <1>7, <1>8, <1>9, <1>10, <1>11 DEF Work

\* The next attempt of a transaction begins before it has taken a lock.
LEMMA AgainAtFirst ==
  ASSUME TxnOK, NEW t \in Tasks, pc[t] \in Steps
  PROVE  FirstStep[txn[t].type] \in {"no_w", "pay_w", "dlv_scan", "os_c", "sl_d"}
  <1>1. TxnAt(t)  BY DEF TxnOK
  <1> QED  BY <1>1, NewOrderInput, OtherInput, FirstSteps DEF TxnAt, Steps

\* HomeLocksOK holds at the start ...
LEMMA InitLocks == Init => HomeLocksOK
  <1> SUFFICES ASSUME Init  PROVE HomeLocksOK  OBVIOUS
  <1>1. ASSUME NEW t \in Tasks  PROVE HomeLocksAt(t)
    <2>1. wlock[t] = {} /\ rlock[t] = {} /\ pc[t] = "idle"  BY DEF Init
    <2> QED  BY <2>1 DEF HomeLocksAt
  <1> QED  BY <1>1 DEF Init, HomeLocksOK

\* ... is kept by every step of a transaction, since a task takes warehouses
\* and districts of its home only ...
LEMMA WorkLocks ==
  ASSUME TxnOK, ItemsOK, HomeLocksOK, NEW t \in Tasks, Work(t)
  PROVE  HomeLocksOK'
  <1>d. DOMAIN wlock = Tasks /\ DOMAIN rlock = Tasks /\ DOMAIN pc = Tasks  BY DEF HomeLocksOK, TxnOK
  <1>k. Kept(t)  BY WorkKept
  <1>1. SUFFICES /\ DOMAIN wlock' = Tasks /\ DOMAIN rlock' = Tasks
                 /\ \A u \in Tasks \ {t} : wlock'[u] = wlock[u] /\ rlock'[u] = rlock[u]
                 /\ HomeLocksAt(t)'
    <2>1. ASSUME NEW u \in Tasks \ {t}  PROVE HomeLocksAt(u)'
      <3>1. pc'[u] = pc[u] /\ txn'[u] = txn[u] /\ wlock'[u] = wlock[u] /\ rlock'[u] = rlock[u]
        BY <1>k, <1>1, <2>1 DEF Kept, Others
      <3>2. HomeLocksAt(u)  BY <2>1 DEF HomeLocksOK
      <3> QED  BY <3>1, <3>2 DEF HomeLocksAt
    <2> QED  BY <1>1, <2>1 DEF HomeLocksOK
  <1>0. HomeLocksAt(t)  BY DEF HomeLocksOK
  <1>2. CASE Return(t)
    <2>1. pc'[t] = "idle"  BY <1>d, <1>2 DEF Return, Goto
    <2>2. wlock'[t] = {} /\ rlock'[t] = {}  BY <1>d, <1>2 DEF Return, Release
    <2>3. HomeLocksAt(t)'  BY <2>1, <2>2 DEF HomeLocksAt
    <2> QED  BY <1>d, <1>2, <2>3 DEF Return, Release
  <1>3. CASE Again(t) /\ pc[t] \in Steps
    <2>1. pc'[t] # "pay_d"  BY <1>d, <1>3, AgainAtFirst DEF Again, Goto
    <2>2. wlock'[t] = {} /\ rlock'[t] = {}  BY <1>d, <1>3 DEF Again, Release
    <2>3. HomeLocksAt(t)'  BY <2>1, <2>2 DEF HomeLocksAt
    <2> QED  BY <1>d, <1>3, <2>3 DEF Again, Release
  <1>4. CASE PayWarehouse(t)
    <2>1. pc[t] = "pay_w" /\ pc'[t] = "pay_d" /\ txn'[t] = txn[t]
      BY <1>d, <1>4 DEF PayWarehouse, Goto
    <2>2. Wanted(t) = W(txn[t].w) /\ txn[t].w \in Home(t)
      <3>1. txn[t] \in PaymentInputs(t)  BY <2>1 DEF TxnOK, TxnAt, PaymentSteps
      <3> QED  BY <2>1, <3>1, OtherInput DEF Wanted
    <2>3. wlock' = [wlock EXCEPT ![t] = @ \cup {Wanted(t)}] /\ rlock' = rlock
      BY <1>4, <2>1 DEF PayWarehouse, Lock, Shared
    <2>4. wlock[t] = {} /\ rlock[t] = {}  BY <1>0, <2>1 DEF HomeLocksAt
    <2>5. wlock'[t] = {W(txn[t].w)} /\ rlock'[t] = {}  BY <1>d, <2>2, <2>3, <2>4
    <2>6. HomeLocksAt(t)'  BY <2>1, <2>2, <2>5 DEF HomeLocksAt, W
    <2> QED  BY <1>d, <2>3, <2>6
  <1>5. CASE /\ pc'[t] \notin Bare \cup {"pay_d"}
             /\ \/ wlock' = wlock /\ rlock' = rlock
                \/ Lock(t)
                \/ \E rs : Release(t, rs)
    <2>1. SUFFICES /\ DOMAIN wlock' = Tasks /\ DOMAIN rlock' = Tasks
                   /\ \A u \in Tasks \ {t} : wlock'[u] = wlock[u] /\ rlock'[u] = rlock[u]
                   /\ \A r \in wlock'[t] \cup rlock'[t] :
                        r \in wlock[t] \cup rlock[t] \/ (pc[t] \in Exclusive \cup Shared /\ r = Wanted(t))
      <3>1. \A r \in wlock'[t] \cup rlock'[t] : r[1] \in {"warehouse", "district"} => r[2] \in Home(t)
        BY <1>0, <2>1, WantedAtHome DEF HomeLocksAt
      <3>2. HomeLocksAt(t)'  BY <1>5, <3>1 DEF HomeLocksAt, Bare
      <3> QED  BY <2>1, <3>2
    <2>2. CASE wlock' = wlock /\ rlock' = rlock  BY <1>d, <2>2
    <2>3. CASE Lock(t)  BY <1>d, <2>3 DEF Lock
    <2>4. CASE \E rs : Release(t, rs)  BY <1>d, <2>4 DEF Release
    <2> QED  BY <1>5, <2>2, <2>3, <2>4
  <1> QED  BY <1>2, <1>3, <1>4, <1>5, LockKinds

\* ... and by every step.
LEMMA NextLocks == TxnOK /\ ItemsOK /\ HomeLocksOK /\ [Next]_vars => HomeLocksOK'
  <1> SUFFICES ASSUME TxnOK, ItemsOK, HomeLocksOK, [Next]_vars  PROVE HomeLocksOK'  OBVIOUS
  <1>1. ASSUME NEW t \in Tasks, Step(t)  PROVE HomeLocksOK'  BY <1>1, WorkLocks DEF Step
  <1>2. ASSUME NEW t \in Tasks, Begin(t)  PROVE HomeLocksOK'
    <2>1. wlock' = wlock /\ rlock' = rlock /\ pc[t] = "idle"  BY <1>2 DEF Begin
    <2>2. Kept(t)  BY <1>2, BeginKept
    <2>3. PICK x \in Inputs(t) : pc' = [pc EXCEPT ![t] = FirstStep[x.type]]
      BY <1>2 DEF Begin, Goto
    <2>4. FirstStep[x.type] # "pay_d"
      BY NewOrderInput, OtherInput, FirstSteps DEF Inputs
    <2>5. pc'[t] # "pay_d" /\ wlock[t] = {} /\ rlock[t] = {}
      BY <2>1, <2>3, <2>4 DEF TxnOK, HomeLocksOK, HomeLocksAt
    <2>6. HomeLocksAt(t)'  BY <2>1, <2>5 DEF HomeLocksAt
    <2>7. ASSUME NEW u \in Tasks \ {t}  PROVE HomeLocksAt(u)'
      <3>1. pc'[u] = pc[u] /\ txn'[u] = txn[u]  BY <2>2, <2>7 DEF Kept, Others
      <3>2. HomeLocksAt(u)  BY <2>7 DEF HomeLocksOK
      <3> QED  BY <2>1, <3>1, <3>2 DEF HomeLocksAt
    <2> QED  BY <2>1, <2>6, <2>7 DEF HomeLocksOK
  <1>3. ASSUME reset_order \/ UNCHANGED vars  PROVE HomeLocksOK'
    <2>1. wlock' = wlock /\ rlock' = rlock /\ pc' = pc /\ txn' = txn  BY <1>3 DEF reset_order, vars
    <2> QED  BY <2>1 DEF HomeLocksOK, HomeLocksAt
  <1> QED  BY <1>1, <1>2, <1>3 DEF Next

-----------------------------------------------------------------------------
(* The totals of warehouses and districts.                                     *)

\* A payment is on its way to the district from PayWarehouse to PayDistrict, or
\* until the district's lock is busy.
LEMMA PayDistrictOnly ==
  ASSUME TxnOK, NEW t \in Tasks, Work(t)
  PROVE  /\ pc[t] = "pay_d" => PayDistrict(t) \/ LockBusy(t)
         /\ LockBusy(t) => pc'[t] \notin {"pay_d", "pay_c"}
         /\ PayDistrict(t) => pc[t] = "pay_d" /\ pc'[t] = "pay_c"
         /\ pc'[t] = "pay_d" => PayWarehouse(t)
  <1>d. DOMAIN pc = Tasks  BY DEF TxnOK
  <1>1. ASSUME pc[t] = "pay_d"  PROVE PayDistrict(t) \/ LockBusy(t)
    BY <1>1 DEF Work, NewOrderLock, NewOrderStock, NewOrderPlace, NewOrderLine, PayWarehouse,
       PayCustomer, PayUpdate, DeliveryScan, DeliveryOrder, DeliveryLine, DeliveryCustomer,
       DeliveryUpdate, OrderStatusCustomer, OrderStatusScan, OrderStatusOrder, OrderStatusLine,
       StockLevelDistrict, StockLevelLock, StockLevelRead, NameNotFound, UserAbort
  <1>2. ASSUME LockBusy(t)  PROVE pc'[t] \notin {"pay_d", "pay_c"}
    <2>1. pc[t] \in Exclusive \cup Shared /\ (Return(t) \/ Again(t))  BY <1>2 DEF LockBusy, Fail
    <2>2. pc[t] \in Steps
      BY <2>1 DEF Exclusive, Shared, Steps, NewOrderSteps, PaymentSteps, DeliverySteps,
         OrderStatusSteps, StockLevelSteps
    <2>3. CASE Return(t)  BY <1>d, <2>3 DEF Return, Goto
    <2>4. CASE Again(t)  BY <1>d, <2>2, <2>4, AgainAtFirst DEF Again, Goto
    <2> QED  BY <2>1, <2>3, <2>4
  <1>3. ASSUME PayDistrict(t)  PROVE pc[t] = "pay_d" /\ pc'[t] = "pay_c"
    BY <1>d, <1>3 DEF PayDistrict, Goto
  <1>4. ASSUME pc'[t] = "pay_d"  PROVE PayWarehouse(t)
    <2>1. ~Return(t)  BY <1>4, <1>d DEF Return, Goto
    <2>2. ~(Again(t) /\ pc[t] \in Steps)  BY <1>4, <1>d, AgainAtFirst DEF Again, Goto
    <2> QED  BY <1>4, <2>1, <2>2, LockKinds
  <1> QED  BY <1>1, <1>2, <1>3, <1>4

\* At most one payment of a warehouse is on its way: its own task's.
LEMMA OnePayment ==
  ASSUME TxnOK, NEW t \in Tasks, NEW u \in Tasks, NEW w \in Home(t), pc[u] = "pay_d", txn[u].w = w
  PROVE  u = t
  <1>1. txn[u] \in PaymentInputs(u)  BY DEF TxnOK, TxnAt, PaymentSteps
  <1>2. w \in Home(u)  BY <1>1, OtherInput
  <1> QED  BY <1>2, HomeApart

\* The total does not depend on anything but d_ytd.
LEMMA TotalKept ==
  ASSUME NEW w, district \in [Warehouses \X Districts -> [d_ytd : Int, d_next_o_id : Nat]],
         w \in Warehouses, \A d \in Districts : district'[<<w, d>>].d_ytd = district[<<w, d>>].d_ytd
  PROVE  YtdSum(district, w, Districts)' = YtdSum(district, w, Districts)
  <1>1. IsFiniteSet(Districts)  BY DistrictsFinite
  <1>2. -1 \notin Districts  BY Scales DEF Districts
  <1>3. \A d \in Districts : district[<<w, d>>].d_ytd \in Int  OBVIOUS
  <1>4. \A d \in Districts : district'[<<w, d>>].d_ytd = district[<<w, d>>].d_ytd + (IF d = -1 THEN 1 ELSE 0)
    BY <1>2, <1>3
  <1> PICK f, g : f = district /\ g = district'  OBVIOUS
  <1>5. YtdSum(f, w, Districts) \in Int /\ YtdSum(g, w, Districts) = YtdSum(f, w, Districts) + 0
    BY <1>1, <1>2, <1>3, <1>4, SumChange
  <1>6. YtdSum(g, w, Districts) = YtdSum(f, w, Districts)  BY <1>5
  <1> QED  BY <1>6

\* The total of the districts of a warehouse is an integer.
LEMMA TotalIsInt ==
  ASSUME NEW w \in Warehouses,
         district \in [Warehouses \X Districts -> [d_ytd : Int, d_next_o_id : Nat]]
  PROVE  YtdSum(district, w, Districts) \in Int
  <1>1. IsFiniteSet(Districts)  BY DistrictsFinite
  <1>2. Ints([d \in Districts |-> district[<<w, d>>].d_ytd], Districts)  BY DEF Ints
  <1> QED  BY <1>1, <1>2, SumIsInt DEF YtdSum

\* It grows with the total of a district.
LEMMA TotalGrows ==
  ASSUME NEW w, district \in [Warehouses \X Districts -> [d_ytd : Int, d_next_o_id : Nat]],
         w \in Warehouses, NEW e \in Districts,
         \A d \in Districts : district'[<<w, d>>].d_ytd = district[<<w, d>>].d_ytd + (IF d = e THEN 1 ELSE 0)
  PROVE  YtdSum(district, w, Districts) \in Int /\ YtdSum(district, w, Districts)' = YtdSum(district, w, Districts) + 1
  <1>1. IsFiniteSet(Districts)  BY DistrictsFinite
  <1>2. \A d \in Districts : district[<<w, d>>].d_ytd \in Int  OBVIOUS
  <1> PICK f, g : f = district /\ g = district'  OBVIOUS
  <1>3. YtdSum(f, w, Districts) \in Int /\ YtdSum(g, w, Districts) = YtdSum(f, w, Districts) + 1
    BY <1>1, <1>2, SumChange
  <1> QED  BY <1>3

\* TotalsOK holds at the start: each district has been paid 1 ...
LEMMA InitTotals == Init => TotalsOK
  <1> SUFFICES ASSUME Init  PROVE TotalsOK  OBVIOUS
  <1>1. warehouse = [w \in Warehouses |-> NDistricts]
        /\ district = [wd \in Warehouses \X Districts |-> [d_ytd |-> 1, d_next_o_id |-> NCustomers + 1]]
    BY DEF Init
  <1>s. strayed = [w \in Warehouses |-> 0]  BY DEF Init
  <1>2. warehouse \in [Warehouses -> Int] /\ strayed \in [Warehouses -> Int]
        /\ district \in [Warehouses \X Districts -> [d_ytd : Int, d_next_o_id : Nat]]
    BY <1>1, <1>s, Scales
  <1>3. ASSUME NEW w \in Warehouses
        PROVE  warehouse[w] =
                 YtdSum(district, w, Districts) + strayed[w] + (IF Unpaid(w) = {} THEN 0 ELSE 1)
    <2>1. IsFiniteSet(Districts) /\ Cardinality(Districts) = NDistricts
      BY DistrictsFinite
    <2>2. \A d \in Districts : district[<<w, d>>].d_ytd = 1  BY <1>1
    <2>3. YtdSum(district, w, Districts) = NDistricts  BY <2>1, <2>2, SumOnes
    <2>4. Unpaid(w) = {}  BY DEF Unpaid, Init
    <2> QED  BY <1>1, <1>s, <2>3, <2>4, Scales
  <1> QED  BY <1>2, <1>3 DEF TotalsOK

\* ... is kept by payment, whose two updates change Unpaid, by its failure
\* between them, which strayed counts, and by the rest, which touch no total ...
LEMMA StepTotals ==
  ASSUME TotalsInv, NEW t \in Tasks, Step(t)
  PROVE  TotalsOK'
  <1>0. TxnOK /\ ItemsOK /\ HomeLocksOK /\ TotalsOK /\ Work(t)  BY DEF TotalsInv, Step
  <1>k. \A u \in Tasks \ {t} : pc'[u] = pc[u] /\ txn'[u] = txn[u]
    BY <1>0, WorkKept DEF Kept, Others
  <1>s. strayed' = IF Stray(t) THEN [strayed EXCEPT ![txn[t].w] = @ + 1] ELSE strayed  BY DEF Step
  <1>t. warehouse \in [Warehouses -> Int] /\ strayed \in [Warehouses -> Int]
        /\ district \in [Warehouses \X Districts -> [d_ytd : Int, d_next_o_id : Nat]]
    BY <1>0 DEF TotalsOK
  <1>1. CASE PayWarehouse(t)
    <2>1. pc[t] = "pay_w" /\ pc'[t] = "pay_d" /\ txn'[t] = txn[t] /\ district' = district
          /\ warehouse' = [warehouse EXCEPT ![txn[t].w] = @ + 1]
      BY <1>0, <1>1 DEF PayWarehouse, Goto, TxnOK
    <2>s. strayed' = strayed  BY <1>s, <2>1 DEF Stray
    <2>2. txn[t] \in PaymentInputs(t)  BY <1>0, <2>1 DEF TxnOK, TxnAt, PaymentSteps
    <2> PICK z : z = txn[t].w  OBVIOUS
    <2>3. z \in Home(t) /\ z \in Warehouses  BY <2>2, OtherInput, HomeIn
    <2>4. Unpaid(z) = {}  BY <1>0, <2>1, <2>3, OnePayment DEF Unpaid
    <2>5. t \in Unpaid(z)'  BY <2>1 DEF Unpaid
    <2>6. \A w \in Warehouses : w # z => Unpaid(w)' = Unpaid(w)  BY <1>k, <2>1 DEF Unpaid
    <2>7. ASSUME NEW w \in Warehouses
          PROVE  warehouse'[w] = YtdSum(district', w, Districts) + strayed'[w] + (IF Unpaid(w)' = {} THEN 0 ELSE 1)
      <3>1. warehouse[w] = YtdSum(district, w, Districts) + strayed[w] + (IF Unpaid(w) = {} THEN 0 ELSE 1)
        BY <1>0 DEF TotalsOK
      <3>2. YtdSum(district, w, Districts) \in Int /\ strayed[w] \in Int
        BY <1>t, TotalIsInt
      <3>3. CASE w = z
        <4>1. warehouse'[w] = warehouse[w] + 1  BY <1>t, <2>1, <3>3
        <4> QED  BY <2>1, <2>s, <2>4, <2>5, <3>1, <3>2, <3>3, <4>1
      <3>4. CASE w # z
        <4>1. warehouse'[w] = warehouse[w]  BY <1>t, <2>1, <3>4
        <4> QED  BY <2>1, <2>s, <2>6, <3>1, <3>4, <4>1
      <3> QED  BY <3>3, <3>4
    <2>8. warehouse' \in [Warehouses -> Int]  BY <1>t, <2>1, <2>3
    <2> QED  BY <1>t, <2>1, <2>s, <2>7, <2>8 DEF TotalsOK
  <1>2. CASE PayDistrict(t)
    <2> PICK z, e : z = txn[t].w /\ e = txn[t].d  OBVIOUS
    <2>1. pc[t] = "pay_d" /\ pc'[t] = "pay_c" /\ txn'[t] = txn[t] /\ warehouse' = warehouse
          /\ district' = [district EXCEPT ![<<z, e>>].d_ytd = @ + 1]
      BY <1>0, <1>2 DEF PayDistrict, Goto, TxnOK
    <2>s. strayed' = strayed  BY <1>s, <2>1 DEF Stray
    <2>2. txn[t] \in PaymentInputs(t)  BY <1>0, <2>1 DEF TxnOK, TxnAt, PaymentSteps
    <2>3. z \in Home(t) /\ z \in Warehouses /\ e \in Districts  BY <2>2, OtherInput, HomeIn
    <2>4. t \in Unpaid(z)  BY <2>1 DEF Unpaid
    <2>5. \A u \in Tasks : u \in Unpaid(z) => u = t  BY <1>0, <2>3, OnePayment DEF Unpaid
    <2>6. Unpaid(z)' = {}  BY <1>k, <2>1, <2>5 DEF Unpaid
    <2>7. \A w \in Warehouses : w # z => Unpaid(w)' = Unpaid(w)  BY <1>k, <2>1 DEF Unpaid
    <2>8. /\ district' \in [Warehouses \X Districts -> [d_ytd : Int, d_next_o_id : Nat]]
          /\ \A w \in Warehouses, d \in Districts :
               district'[<<w, d>>].d_ytd = district[<<w, d>>].d_ytd + (IF w = z /\ d = e THEN 1 ELSE 0)
      <3> PICK r, v : r = district[<<z, e>>] /\ v = [r EXCEPT !.d_ytd = @ + 1]  OBVIOUS
      <3>1. r \in [d_ytd : Int, d_next_o_id : Nat] /\ <<z, e>> \in Warehouses \X Districts  BY <1>t, <2>3
      <3>2. v \in [d_ytd : Int, d_next_o_id : Nat] /\ v.d_ytd = r.d_ytd + 1  BY <3>1
      <3>3. district' = [district EXCEPT ![<<z, e>>] = v]  BY <2>1
      <3>4. district' \in [Warehouses \X Districts -> [d_ytd : Int, d_next_o_id : Nat]]
        BY <1>t, <3>1, <3>2, <3>3
      <3>5. ASSUME NEW w \in Warehouses, NEW d \in Districts
            PROVE  district'[<<w, d>>].d_ytd = district[<<w, d>>].d_ytd + (IF w = z /\ d = e THEN 1 ELSE 0)
        <4>1. CASE w = z /\ d = e  BY <1>t, <3>1, <3>2, <3>3, <4>1
        <4>2. CASE ~(w = z /\ d = e)
          <5>1. <<w, d>> # <<z, e>> /\ <<w, d>> \in Warehouses \X Districts  BY <4>2
          <5>2. district'[<<w, d>>] = district[<<w, d>>]  BY <1>t, <3>3, <5>1
          <5>3. district[<<w, d>>].d_ytd \in Int  BY <1>t, <5>1
          <5> QED  BY <4>2, <5>2, <5>3
        <4> QED  BY <4>1, <4>2
      <3> QED  BY <3>4, <3>5
    <2>9. ASSUME NEW w \in Warehouses
          PROVE  warehouse'[w] = YtdSum(district', w, Districts) + strayed'[w] + (IF Unpaid(w)' = {} THEN 0 ELSE 1)
      <3>1. warehouse[w] = YtdSum(district, w, Districts) + strayed[w] + (IF Unpaid(w) = {} THEN 0 ELSE 1)
        BY <1>0 DEF TotalsOK
      <3>2. YtdSum(district, w, Districts) \in Int /\ strayed[w] \in Int
        BY <1>t, TotalIsInt
      <3>3. CASE w = z
        <4>1. \A d \in Districts : district'[<<w, d>>].d_ytd = district[<<w, d>>].d_ytd + (IF d = e THEN 1 ELSE 0)
          BY <2>8, <3>3
        <4>2. YtdSum(district', w, Districts) = YtdSum(district, w, Districts) + 1
          BY <1>t, <2>3, <4>1, TotalGrows
        <4> QED  BY <2>1, <2>s, <2>4, <2>6, <3>1, <3>2, <3>3, <4>2
      <3>4. CASE w # z
        <4>1. \A d \in Districts : district'[<<w, d>>].d_ytd = district[<<w, d>>].d_ytd
          BY <1>t, <2>8, <3>4
        <4>2. YtdSum(district', w, Districts) = YtdSum(district, w, Districts)
          BY <1>t, <4>1, TotalKept
        <4> QED  BY <2>1, <2>s, <2>7, <3>1, <3>4, <4>2
      <3> QED  BY <3>3, <3>4
    <2> QED  BY <1>t, <2>1, <2>s, <2>8, <2>9 DEF TotalsOK
  <1>3. CASE pc[t] = "pay_d" /\ LockBusy(t)
    <2> PICK z : z = txn[t].w  OBVIOUS
    <2>1. pc'[t] \notin {"pay_d", "pay_c"}  BY <1>0, <1>3, PayDistrictOnly
    <2>2. warehouse' = warehouse /\ district' = district  BY <1>3 DEF LockBusy, Fail, tables
    <2>3. z \in Home(t) /\ z \in Warehouses
      BY <1>0, <1>3, OtherInput, HomeIn DEF TxnOK, TxnAt, PaymentSteps
    <2>4. t \in Unpaid(z)  BY <1>3 DEF Unpaid
    <2>5. \A u \in Tasks : u \in Unpaid(z) => u = t  BY <1>0, <2>3, OnePayment DEF Unpaid
    <2>6. Unpaid(z)' = {}  BY <1>k, <2>1, <2>5 DEF Unpaid
    <2>7. \A w \in Warehouses : w # z => Unpaid(w)' = Unpaid(w)  BY <1>3, <1>k, <2>1 DEF Unpaid
    <2>8. strayed' = [strayed EXCEPT ![z] = @ + 1]  BY <1>s, <1>3, <2>1 DEF Stray
    <2>9. ASSUME NEW w \in Warehouses
          PROVE  warehouse'[w] = YtdSum(district', w, Districts) + strayed'[w] + (IF Unpaid(w)' = {} THEN 0 ELSE 1)
      <3>1. warehouse[w] = YtdSum(district, w, Districts) + strayed[w] + (IF Unpaid(w) = {} THEN 0 ELSE 1)
        BY <1>0 DEF TotalsOK
      <3>2. YtdSum(district, w, Districts) \in Int /\ strayed[w] \in Int
        BY <1>t, TotalIsInt
      <3>3. CASE w = z
        <4>1. strayed'[w] = strayed[w] + 1  BY <1>t, <2>8, <3>3
        <4> QED  BY <2>2, <2>4, <2>6, <3>1, <3>2, <3>3, <4>1
      <3>4. CASE w # z
        <4>1. strayed'[w] = strayed[w]  BY <1>t, <2>8, <3>4
        <4> QED  BY <2>2, <2>7, <3>1, <3>4, <4>1
      <3> QED  BY <3>3, <3>4
    <2>10. strayed' \in [Warehouses -> Int]  BY <1>t, <2>3, <2>8
    <2> QED  BY <1>t, <2>2, <2>9, <2>10 DEF TotalsOK
  <1>4. CASE ~PayWarehouse(t) /\ ~PayDistrict(t) /\ ~(pc[t] = "pay_d" /\ LockBusy(t))
    <2>1. pc[t] # "pay_d" /\ pc'[t] # "pay_d"  BY <1>0, <1>4, PayDistrictOnly
    <2>s. strayed' = strayed  BY <1>s, <2>1 DEF Stray
    <2>2. \A w \in Warehouses : Unpaid(w)' = Unpaid(w)  BY <1>k, <2>1 DEF Unpaid
    <2>3. warehouse' = warehouse  BY <1>0, <1>4, Writes
    <2>4. /\ district' \in [Warehouses \X Districts -> [d_ytd : Int, d_next_o_id : Nat]]
          /\ \A w \in Warehouses, d \in Districts : district'[<<w, d>>].d_ytd = district[<<w, d>>].d_ytd
      <3>1. CASE district' = district  BY <1>t, <3>1
      <3>2. CASE NewOrderPlace(t)
        <4>1. txn[t] \in NewOrderInputs(t)
          BY <1>0, <3>2 DEF NewOrderPlace, TxnOK, TxnAt, NewOrderSteps
        <4> PICK z, e : z = txn[t].w /\ e = txn[t].d  OBVIOUS
        <4>2. z \in Warehouses /\ e \in Districts  BY <4>1, NewOrderInput, HomeIn
        <4> PICK r, v : r = district[<<z, e>>] /\ v = [r EXCEPT !.d_next_o_id = @ + 1]  OBVIOUS
        <4>3. district' = [district EXCEPT ![<<z, e>>] = v]  BY <3>2 DEF NewOrderPlace
        <4>4. r \in [d_ytd : Int, d_next_o_id : Nat] /\ <<z, e>> \in Warehouses \X Districts  BY <1>t, <4>2
        <4>5. v \in [d_ytd : Int, d_next_o_id : Nat] /\ v.d_ytd = r.d_ytd  BY <4>4
        <4> QED  BY <1>t, <4>3, <4>4, <4>5
      <3> QED  BY <1>0, <1>4, <3>1, <3>2, Writes
    <2>5. \A w \in Warehouses : YtdSum(district', w, Districts) = YtdSum(district, w, Districts)
      BY <1>t, <2>4, TotalKept
    <2> QED  BY <1>0, <2>2, <2>s, <2>3, <2>4, <2>5 DEF TotalsOK
  <1> QED  BY <1>1, <1>2, <1>3, <1>4

\* ... and by every step.
LEMMA NextTotals == TotalsInv /\ [Next]_vars => TotalsOK'
  <1> SUFFICES ASSUME TotalsInv, [Next]_vars  PROVE TotalsOK'  OBVIOUS
  <1>1. ASSUME NEW t \in Tasks, Step(t)  PROVE TotalsOK'  BY <1>1, StepTotals
  <1>2. ASSUME NEW t \in Tasks, Begin(t)  PROVE TotalsOK'
    <2>1. warehouse' = warehouse /\ district' = district /\ strayed' = strayed /\ pc[t] = "idle"
      BY <1>2 DEF Begin, tables
    <2>2. \A u \in Tasks \ {t} : pc'[u] = pc[u] /\ txn'[u] = txn[u]
      BY <1>2, BeginKept DEF Kept, Others, TotalsInv
    <2>3. PICK x \in Inputs(t) : pc' = [pc EXCEPT ![t] = FirstStep[x.type]]
      BY <1>2 DEF Begin, Goto
    <2>4. FirstStep[x.type] # "pay_d"  BY NewOrderInput, OtherInput, FirstSteps DEF Inputs
    <2>5. pc'[t] # "pay_d"  BY <2>3, <2>4 DEF TotalsInv, TxnOK
    <2>6. \A w \in Warehouses : Unpaid(w)' = Unpaid(w)  BY <2>1, <2>2, <2>5 DEF Unpaid
    <2> QED  BY <2>1, <2>6 DEF TotalsInv, TotalsOK
  <1>3. ASSUME reset_order \/ UNCHANGED vars  PROVE TotalsOK'
    <2>1. warehouse' = warehouse /\ district' = district /\ strayed' = strayed
          /\ pc' = pc /\ txn' = txn
      BY <1>3 DEF reset_order, vars, tables
    <2> QED  BY <2>1 DEF TotalsInv, TotalsOK, Unpaid
  <1> QED  BY <1>1, <1>2, <1>3 DEF Next

\* payment adds to the warehouse before it has the district's lock, and drops
\* the warehouse's only at its end: whoever could lock a warehouse sees its
\* total exceed its districts' by exactly the payments that found the district
\* busy, whatever else failed and was retried: TotalsExplained.
THEOREM TotalsStayInStep == Spec => []TotalsExplained
  <1>1. Init => TotalsInv  BY InitTxn, InitLocks, InitTotals DEF TotalsInv
  <1>2. TotalsInv /\ [Next]_vars => TotalsInv'  BY NextTxn, NextLocks, NextTotals DEF TotalsInv
  <1>3. TotalsInv => TotalsExplained
    <2> SUFFICES ASSUME TotalsInv, NEW w \in Warehouses, Writable(W(w))
                 PROVE  warehouse[w] = YtdSum(district, w, Districts) + strayed[w]
      BY DEF TotalsExplained
    <2>1. Unpaid(w) = {}
      BY DEF TotalsInv, HomeLocksOK, HomeLocksAt, Unpaid, Writable
    <2>2. YtdSum(district, w, Districts) \in Int /\ strayed[w] \in Int
      BY TotalIsInt DEF TotalsInv, TotalsOK
    <2> QED  BY <2>1, <2>2 DEF TotalsInv, TotalsOK
  <1> QED  BY <1>1, <1>2, <1>3, PTL DEF Spec

-----------------------------------------------------------------------------
(* The keys of orders: make_key is injective while its fields fit, and the     *)
(* keys of a district are those between its bounds.                            *)
Fields == 0 .. Radix - 1

\* Two numbers of two digits are ordered by the first.
LEMMA DigitsOrdered ==
  ASSUME NEW a \in Nat, NEW c \in Nat, NEW b \in Fields, NEW d \in Fields, a < c
  PROVE  a * Radix + b < c * Radix + d
  <1>1. PICK e \in Nat : c = a + 1 + e
    <2>1. c - a - 1 \in Nat  OBVIOUS
    <2> QED  BY <2>1
  <1>2. e * Radix \in Nat /\ a * Radix \in Nat  BY Scales
  <1>3. c * Radix = a * Radix + Radix + e * Radix  BY <1>1, Scales
  <1> QED  BY <1>2, <1>3, Scales DEF Fields

\* A number has one way to be written with a last digit in base Radix.
LEMMA DigitsUnique ==
  ASSUME NEW a \in Nat, NEW c \in Nat, NEW b \in Fields, NEW d \in Fields,
         a * Radix + b = c * Radix + d
  PROVE  a = c /\ b = d
  <1>1. a * Radix \in Nat /\ c * Radix \in Nat /\ b \in Int /\ d \in Int  BY Scales DEF Fields
  <1>2. ~(a < c)  BY <1>1, DigitsOrdered
  <1>3. ~(c < a)  BY <1>1, DigitsOrdered
  <1>4. a = c  BY <1>2, <1>3
  <1> QED  BY <1>1, <1>4

\* Appending a digit gives a number.
LEMMA DigitsNat ==
  ASSUME NEW a \in Nat, NEW b \in Fields
  PROVE  a * Radix + b \in Nat
  <1>1. a * Radix \in Nat  BY Scales
  <1> QED  BY <1>1, Scales DEF Fields

\* Taking the last digit off again gives what it was appended to.
LEMMA DigitsDivMod ==
  ASSUME NEW a \in Nat, NEW b \in Fields
  PROVE  (a * Radix + b) \div Radix = a /\ (a * Radix + b) % Radix = b
  <1> PICK k : k = a * Radix + b  OBVIOUS
  <1>1. k \in Nat /\ Radix \in Nat /\ Radix >= 1  BY DigitsNat, Scales
  <1> PICK q, m : q = k \div Radix /\ m = k % Radix  OBVIOUS
  <1>2. q \in Int /\ m \in Fields /\ k = Radix * q + m  BY <1>1 DEF Fields
  <1>3. q \in Nat
    <2>1. CASE q < 0
      <3>1. PICK e \in Nat : q = -1 - e
        <4>1. -1 - q \in Nat  BY <1>2, <2>1
        <4> QED  BY <1>2, <4>1
      <3>2. Radix * q = -Radix - Radix * e /\ Radix * e \in Nat  BY <1>1, <3>1
      <3> QED  BY <1>1, <1>2, <3>2 DEF Fields
    <2> QED  BY <1>2, <2>1
  <1>4. k = q * Radix + m  BY <1>1, <1>2
  <1> QED  BY <1>2, <1>3, <1>4, DigitsUnique

\* The key of fields that fit, digit by digit.
LEMMA KeyDigits ==
  ASSUME NEW w \in Nat, NEW d \in Fields, NEW x \in Fields, NEW y \in Fields
  PROVE  /\ w * Radix + d \in Nat /\ (w * Radix + d) * Radix + x \in Nat
         /\ make_key(w, d, x, y) \in Nat
         /\ make_key(w, d, x, y) = ((w * Radix + d) * Radix + x) * Radix + y
  <1>1. w * Radix + d \in Nat  BY DigitsNat
  <1>2. (w * Radix + d) * Radix + x \in Nat  BY <1>1, DigitsNat
  <1>3. ((w * Radix + d) * Radix + x) * Radix + y \in Nat  BY <1>2, DigitsNat
  <1> QED  BY <1>1, <1>2, <1>3 DEF make_key

\* A key determines its fields.
LEMMA KeyFields ==
  ASSUME NEW w \in Nat, NEW d \in Fields, NEW x \in Fields, NEW y \in Fields
  PROVE  LET k == make_key(w, d, x, y) IN
           /\ w = ((k \div Radix) \div Radix) \div Radix
           /\ d = ((k \div Radix) \div Radix) % Radix
           /\ x = (k \div Radix) % Radix
           /\ y = k % Radix
  <1> PICK a : a = w * Radix + d  OBVIOUS
  <1> PICK b : b = a * Radix + x  OBVIOUS
  <1> PICK k : k = b * Radix + y  OBVIOUS
  <1>1. a \in Nat /\ b \in Nat  BY KeyDigits
  <1>2. make_key(w, d, x, y) = k  BY DEF make_key
  <1>3. k \div Radix = b /\ k % Radix = y  BY <1>1, DigitsDivMod
  <1>4. b \div Radix = a /\ b % Radix = x  BY <1>1, DigitsDivMod
  <1>5. a \div Radix = w /\ a % Radix = d  BY DigitsDivMod
  <1> QED  BY <1>2, <1>3, <1>4, <1>5

\* delivery gets back the order id and the customer that new_order put in.
LEMMA KeyParts ==
  ASSUME NEW w \in Nat, NEW d \in Fields, NEW x \in Fields, NEW y \in Fields
  PROVE  o_c_id_from_key(make_key(w, d, x, y)) = [o |-> x, c |-> y]
  <1> PICK k : k = make_key(w, d, x, y)  OBVIOUS
  <1>1. x = (k \div Radix) % Radix /\ y = k % Radix  BY KeyFields
  <1>2. o_c_id_from_key(k) = [o |-> (k \div Radix) % Radix, c |-> k % Radix]  BY DEF o_c_id_from_key
  <1> QED  BY <1>1, <1>2

\* A key within the bounds of a district is one of its keys.
LEMMA KeyOfDistrict ==
  ASSUME NEW w \in Nat, NEW d \in Fields,
         NEW w2 \in Nat, NEW d2 \in Fields, NEW x2 \in Fields, NEW y2 \in Fields,
         make_key(w, d, 0, 0) <= make_key(w2, d2, x2, y2),
         make_key(w2, d2, x2, y2) < make_key(w, d, Radix - 1, Radix - 1)
  PROVE  w2 = w /\ d2 = d
  <1>0. 0 \in Fields /\ Radix - 1 \in Fields  BY Scales DEF Fields
  <1> PICK a, a2 : a = w * Radix + d /\ a2 = w2 * Radix + d2  OBVIOUS
  <1> PICK l, b2, h : l = a * Radix + 0 /\ b2 = a2 * Radix + x2 /\ h = a * Radix + (Radix - 1)  OBVIOUS
  <1>1. a \in Nat /\ a2 \in Nat /\ b2 \in Nat /\ l \in Nat /\ h \in Nat
    BY <1>0, KeyDigits, DigitsNat
  <1>2. l * Radix + 0 <= b2 * Radix + y2 /\ b2 * Radix + y2 < h * Radix + (Radix - 1)
    BY DEF make_key
  <1>n. l * Radix + 0 \in Nat /\ b2 * Radix + y2 \in Nat /\ h * Radix + (Radix - 1) \in Nat
    BY <1>0, <1>1, DigitsNat
  <1>3. ~(b2 < l)
    <2>1. b2 < l => b2 * Radix + y2 < l * Radix + 0  BY <1>0, <1>1, DigitsOrdered
    <2> QED  BY <1>2, <1>n, <2>1
  <1>4. ~(h < b2)
    <2>1. h < b2 => h * Radix + (Radix - 1) < b2 * Radix + y2  BY <1>0, <1>1, DigitsOrdered
    <2> QED  BY <1>2, <1>n, <2>1
  <1>5. ~(a2 < a)
    <2>1. a2 < a => b2 < l  BY <1>0, <1>1, DigitsOrdered
    <2> QED  BY <1>3, <2>1
  <1>6. ~(a < a2)
    <2>1. a < a2 => h < b2  BY <1>0, <1>1, DigitsOrdered
    <2> QED  BY <1>4, <2>1
  <1>7. a = a2  BY <1>1, <1>5, <1>6
  <1> QED  BY <1>7, DigitsUnique

\* The records' keys are natural numbers below that of the first warehouse that
\* does not exist: there are finitely many.
LEMMA RecordKeys ==
  ASSUME NEW r \in OrderRecords
  PROVE  /\ r.w \in Nat /\ r.d \in Fields /\ r.o_c_id \in Fields /\ r.o_id \in Fields
         /\ order_key(r) = make_key(r.w, r.d, r.o_c_id, r.o_id)
         /\ new_order_key(r) = make_key(r.w, r.d, r.o_id, r.o_c_id)
         /\ order_key(r) \in 0 .. make_key(NWarehouses, 0, 0, 0)
         /\ new_order_key(r) \in 0 .. make_key(NWarehouses, 0, 0, 0)
  <1>1. r.w \in Nat /\ r.w < NWarehouses /\ r.d \in Fields /\ r.o_c_id \in Fields /\ r.o_id \in Fields
    BY Scales DEF OrderRecords, Warehouses, Districts, Customers, Fields
  <1>2. ASSUME NEW x \in Fields, NEW y \in Fields
        PROVE  make_key(r.w, r.d, x, y) \in 0 .. make_key(NWarehouses, 0, 0, 0)
    <2>0. 0 \in Fields  BY Scales DEF Fields
    <2> PICK a, a2 : a = r.w * Radix + r.d /\ a2 = NWarehouses * Radix + 0  OBVIOUS
    <2> PICK b, b2 : b = a * Radix + x /\ b2 = a2 * Radix + 0  OBVIOUS
    <2>1. a \in Nat /\ a2 \in Nat /\ b \in Nat /\ b2 \in Nat
      BY <1>1, <2>0, KeyDigits, Scales
    <2>2. a < a2  BY <1>1, <2>0, DigitsOrdered, Scales
    <2>3. b < b2  BY <2>0, <2>1, <2>2, DigitsOrdered
    <2>4. b * Radix + y < b2 * Radix + 0  BY <2>0, <2>1, <2>3, DigitsOrdered
    <2>5. b * Radix + y \in Nat /\ b2 * Radix + 0 \in Nat  BY <2>0, <2>1, DigitsNat
    <2>6. make_key(r.w, r.d, x, y) = b * Radix + y /\ make_key(NWarehouses, 0, 0, 0) = b2 * Radix + 0
      BY DEF make_key
    <2> QED  BY <2>4, <2>5, <2>6
  <1> QED  BY <1>1, <1>2 DEF order_key, new_order_key

\* Records with the same key in one index have the same key in the other.
LEMMA SameKeys ==
  ASSUME NEW r \in OrderRecords, NEW q \in OrderRecords, order_key(r) = order_key(q)
  PROVE  new_order_key(r) = new_order_key(q) /\ r.o_c_id = q.o_c_id
  <1> PICK k : k = order_key(r)  OBVIOUS
  <1>1. /\ r.w = ((k \div Radix) \div Radix) \div Radix /\ r.d = ((k \div Radix) \div Radix) % Radix
        /\ r.o_c_id = (k \div Radix) % Radix /\ r.o_id = k % Radix
    BY RecordKeys, KeyFields
  <1>2. /\ q.w = ((k \div Radix) \div Radix) \div Radix /\ q.d = ((k \div Radix) \div Radix) % Radix
        /\ q.o_c_id = (k \div Radix) % Radix /\ q.o_id = k % Radix
    BY RecordKeys, KeyFields
  <1>3. r.w = q.w /\ r.d = q.d /\ r.o_c_id = q.o_c_id /\ r.o_id = q.o_id  BY <1>1, <1>2
  <1> QED  BY <1>3 DEF new_order_key

\* The scan of a range that a key is in finds something.
LEMMA ScanFinds ==
  ASSUME NEW keys, NEW low, NEW high, NEW n \in Nat \ {0}, NEW b \in Nat,
         keys \subseteq 0 .. b, NEW k \in keys, low <= k, k < high
  PROVE  ScanKeys(keys, low, high, n) # <<>>
  <1> DEFINE found == {j \in keys : low <= j /\ j < high}
  <1>1. IsFiniteSet(found) /\ found # {}
    <2>1. IsFiniteSet(0 .. b)  BY FS_Interval
    <2> QED  BY <2>1, FS_Subset
  <1>2. Cardinality(found) \in Nat /\ Cardinality(found) # 0  BY <1>1, FS_CardinalityType, FS_EmptySet
  <1> PICK m : m = Min({n, Cardinality(found)})  OBVIOUS
  <1>3. m \in Nat /\ m >= 1  BY <1>2, MinOfTwo
  <1>4. DOMAIN ScanKeys(keys, low, high, n) = 1 .. m  BY DEF ScanKeys
  <1>5. 1 \in DOMAIN ScanKeys(keys, low, high, n)  BY <1>3, <1>4
  <1> QED  BY <1>5

\* What the scan for one key finds is in the range.
LEMMA ScanFirst ==
  ASSUME NEW keys, NEW low, NEW high, NEW b \in Nat, keys \subseteq 0 .. b,
         ScanKeys(keys, low, high, 1) # <<>>
  PROVE  LET k == ScanKeys(keys, low, high, 1)[1] IN k \in keys /\ low <= k /\ k < high
  <1> DEFINE found == {j \in keys : low <= j /\ j < high}
             at(i) == CHOOSE k \in found : Cardinality({j \in found : j < k}) = i - 1
             scan == [i \in 1 .. Min({1, Cardinality(found)}) |-> at(i)]
  <1>0. ScanKeys(keys, low, high, 1) = scan  BY DEF ScanKeys
  <1>1. IsFiniteSet(found) /\ found \subseteq Nat
    <2>1. IsFiniteSet(0 .. b)  BY FS_Interval
    <2>2. found \subseteq 0 .. b  OBVIOUS
    <2>3. 0 .. b \subseteq Nat  OBVIOUS
    <2> HIDE DEF found
    <2> QED  BY <2>1, <2>2, <2>3, FS_Subset
  <1>2. Cardinality(found) \in Nat  BY <1>1, FS_CardinalityType
  <1>3. found # {}
    <2>1. SUFFICES ASSUME found = {}  PROVE FALSE  OBVIOUS
    <2>2. Cardinality(found) = 0  BY <2>1, FS_EmptySet
    <2>3. Min({1, Cardinality(found)}) = 0  BY <2>2, MinOfTwo
    <2>4. DOMAIN scan = 1 .. Min({1, Cardinality(found)})  OBVIOUS
    <2>5. DOMAIN scan = {}
      <3> HIDE DEF scan, found
      <3> QED  BY <2>3, <2>4
    <2>6. scan = <<>>
      <3> HIDE DEF at
      <3>1. scan = [i \in DOMAIN scan |-> scan[i]]  OBVIOUS
      <3> HIDE DEF scan
      <3> QED  BY <2>5, <3>1
    <2> QED  BY <1>0, <2>6
  <1>4. Cardinality(found) # 0  BY <1>1, <1>3, FS_EmptySet
  <1>5. Min({1, Cardinality(found)}) = 1  BY <1>2, <1>4, MinOfTwo
  <1>6. scan[1] = CHOOSE k \in found : Cardinality({j \in found : j < k}) = 1 - 1
    <2> HIDE DEF found
    <2>1. 1 \in 1 .. Min({1, Cardinality(found)})  BY <1>5
    <2> QED  BY <2>1
  <1>7. PICK m \in found : \A j \in found : m <= j
    <2> HIDE DEF found
    <2> QED  BY <1>1, <1>3, LeastNat
  <1>8. {j \in found : j < m} = {}
    <2> HIDE DEF found
    <2>1. ASSUME NEW j \in found, j < m  PROVE FALSE
      <3>1. j \in Nat /\ m \in Nat /\ m <= j  BY <1>1, <1>7
      <3> QED  BY <2>1, <3>1
    <2> QED  BY <2>1
  <1>9. Cardinality({j \in found : j < m}) = 1 - 1  BY <1>8, FS_EmptySet
  <1>10. scan[1] \in found
    <2> HIDE DEF found
    <2> QED  BY <1>6, <1>7, <1>9
  <1> QED  BY <1>0, <1>10

\* The tables that load_order leaves.
LEMMA LoadedOK ==
  ASSUME NEW shuffle \in Shuffles, NEW table, table = OrderTable(LoadedOrders(shuffle)),
         NEW index, index = NewOrderIndex(LoadedOrders(shuffle))
  PROVE  /\ table \in [DOMAIN table -> OrderRecords]
         /\ \A k \in DOMAIN table : order_key(table[k]) = k
         /\ \A k \in index : \E j \in DOMAIN table : k = new_order_key(table[j])
         /\ \A w \in Warehouses, d \in Districts, c \in Customers :
              \E o \in Customers : make_key(w, d, c, o) \in DOMAIN table
  <1> PICK rs : rs = LoadedOrders(shuffle)  OBVIOUS
  <1>1. ASSUME NEW w \in Warehouses, NEW d \in Districts
        PROVE  /\ shuffle[<<w, d>>] \in [Customers -> Customers]
               /\ \A c \in Customers : \E o \in Customers : shuffle[<<w, d>>][o] = c
    <2>1. shuffle[<<w, d>>] \in Bijection(Customers, Customers)  BY DEF Shuffles
    <2> QED  BY <2>1 DEF Bijection, Surjection
  <1>2. rs \subseteq OrderRecords
    <2>1. ASSUME NEW w \in Warehouses, NEW d \in Districts, NEW o \in Customers
          PROVE  LoadedOrder(w, d, o, shuffle[<<w, d>>][o]) \in OrderRecords
      <3>1. shuffle[<<w, d>>][o] \in Customers  BY <1>1
      <3>2. o \in 0 .. Radix - 1  BY Scales DEF Customers
      <3> QED  BY <3>1, <3>2 DEF LoadedOrder, OrderRecords
    <2>2. ASSUME NEW r \in rs  PROVE r \in OrderRecords
      <3>1. PICK x \in Warehouses \X Districts \X Customers :
              r = LoadedOrder(x[1], x[2], x[3], shuffle[<<x[1], x[2]>>][x[3]])
        BY <2>2 DEF LoadedOrders
      <3>2. x[1] \in Warehouses /\ x[2] \in Districts /\ x[3] \in Customers  BY <3>1
      <3> QED  BY <2>1, <3>1, <3>2
    <2> QED  BY <2>2
  <1>3. DOMAIN table = {order_key(r) : r \in rs}
        /\ \A k \in DOMAIN table : table[k] \in rs /\ order_key(table[k]) = k
    <2>1. table = [k \in {order_key(r) : r \in rs} |-> CHOOSE r \in rs : order_key(r) = k]
      BY DEF OrderTable
    <2>2. ASSUME NEW k \in {order_key(r) : r \in rs}
          PROVE  (CHOOSE r \in rs : order_key(r) = k) \in rs
                 /\ order_key(CHOOSE r \in rs : order_key(r) = k) = k
      <3>1. \E r \in rs : order_key(r) = k  OBVIOUS
      <3> QED  BY <3>1
    <2> QED  BY <2>1, <2>2
  <1>4. table \in [DOMAIN table -> OrderRecords]
    <2>1. table = [k \in DOMAIN table |-> table[k]]  BY DEF OrderTable
    <2> QED  BY <1>2, <1>3, <2>1
  <1>5. ASSUME NEW k \in index  PROVE \E j \in DOMAIN table : k = new_order_key(table[j])
    <2>1. PICK r \in rs : k = new_order_key(r)  BY <1>5 DEF NewOrderIndex
    <2> PICK j : j = order_key(r)  OBVIOUS
    <2>2. j \in DOMAIN table  BY <1>3, <2>1
    <2>3. order_key(table[j]) = order_key(r) /\ table[j] \in OrderRecords /\ r \in OrderRecords
      BY <1>2, <1>3, <2>1, <2>2
    <2>4. new_order_key(table[j]) = new_order_key(r)  BY <2>3, SameKeys
    <2> QED  BY <2>1, <2>2, <2>4
  <1>6. ASSUME NEW w \in Warehouses, NEW d \in Districts, NEW c \in Customers
        PROVE  \E o \in Customers : make_key(w, d, c, o) \in DOMAIN table
    <2>1. PICK o \in Customers : shuffle[<<w, d>>][o] = c  BY <1>1
    <2> PICK r : r = LoadedOrder(w, d, o, c)  OBVIOUS
    <2>2. r \in rs
      <3>1. <<w, d, o>> \in Warehouses \X Districts \X Customers  OBVIOUS
      <3> QED  BY <2>1, <3>1 DEF LoadedOrders
    <2>3. order_key(r) = make_key(w, d, c, o)  BY DEF order_key, LoadedOrder
    <2> QED  BY <1>3, <2>2, <2>3
  <1> QED  BY <1>3, <1>4, <1>5, <1>6

-----------------------------------------------------------------------------
(* Which transactions panic.                                                   *)

\* The steps that lead to the places that matter.
LEMMA Moves ==
  ASSUME TxnOK, ItemsOK, NEW t \in Tasks, Work(t)
  PROVE  /\ pc'[t] = "dlv_o" => DeliveryScan(t)
         /\ pc'[t] = "os_scan" => OrderStatusCustomer(t)
         /\ pc'[t] = "panic" => \/ DeliveryOrder(t) \/ OrderStatusScan(t)
                                \/ PayUpdate(t) \/ StockLevelDistrict(t)
  <1> USE DEF Goto
  <1>d. DOMAIN pc = Tasks  BY DEF TxnOK
  <1>r. Return(t) => pc'[t] = "idle"  BY <1>d DEF Return
  <1> HIDE DEF Return
  <1>1. CASE NewOrderLock(t) \/ NewOrderStock(t) \/ NewOrderPlace(t)
    BY <1>d, <1>1 DEF NewOrderLock, NewOrderStock, NewOrderPlace
  <1>2. CASE NewOrderLine(t)  BY <1>d, <1>r, <1>2 DEF NewOrderLine
  <1>3. CASE PayWarehouse(t) \/ PayDistrict(t) \/ PayCustomer(t) \/ PayUpdate(t)
    BY <1>d, <1>r, <1>3 DEF PayWarehouse, PayDistrict, PayCustomer, PayUpdate
  <1>4. CASE DeliveryScan(t)
    <2>1. Return(t) \/ pc' = [pc EXCEPT ![t] = "dlv_o"]  BY <1>4 DEF DeliveryScan
    <2> QED  BY <1>d, <1>r, <1>4, <2>1
  <1>5. CASE DeliveryOrder(t)
    <2>1. pc'[t] \in {"panic", "dlv_c", "dlv_ol"}
      <3>1. CASE loc[t].key \in DOMAIN order
        <4>1. pc' = [pc EXCEPT ![t] =
                CASE order[loc[t].key].o_c_id # loc[t].c -> "panic"
                  [] ScanLines(txn[t].w, loc[t].n, {loc[t].o}, NItems, 20) = <<>> -> "dlv_c"
                  [] OTHER -> "dlv_ol"]
          BY <1>5, <3>1 DEF DeliveryOrder
        <4> QED  BY <1>d, <4>1
      <3>2. CASE loc[t].key \notin DOMAIN order  BY <1>d, <1>5, <3>2 DEF DeliveryOrder
      <3> QED  BY <3>1, <3>2
    <2> QED  BY <1>5, <2>1
  <1>6. CASE DeliveryLine(t) \/ DeliveryCustomer(t)
    BY <1>d, <1>6 DEF DeliveryLine, DeliveryCustomer
  <1>7. CASE DeliveryUpdate(t)  BY <1>d, <1>r, <1>7 DEF DeliveryUpdate
  <1>8. CASE OrderStatusCustomer(t) \/ OrderStatusScan(t)
    BY <1>d, <1>8 DEF OrderStatusCustomer, OrderStatusScan
  <1>9. CASE OrderStatusOrder(t) \/ OrderStatusLine(t)
    BY <1>d, <1>r, <1>9 DEF OrderStatusOrder, OrderStatusLine
  <1>10. CASE StockLevelDistrict(t) \/ StockLevelLock(t) \/ StockLevelRead(t)
    BY <1>d, <1>r, <1>10 DEF StockLevelDistrict, StockLevelLock, StockLevelRead
  <1>11. CASE NameNotFound(t) \/ LockBusy(t) \/ UserAbort(t)
    <2>1. Return(t) \/ (Again(t) /\ pc[t] \in Exclusive \cup Shared)
      BY <1>11 DEF NameNotFound, LockBusy, UserAbort, Fail, Exclusive
    <2>2. CASE Again(t) /\ pc[t] \in Exclusive \cup Shared
      <3>1. pc[t] \in Steps
        BY <2>2 DEF Exclusive, Shared, Steps, NewOrderSteps, PaymentSteps, DeliverySteps,
           OrderStatusSteps, StockLevelSteps
      <3>2. pc'[t] = FirstStep[txn[t].type]  BY <1>d, <2>2 DEF Again
      <3> QED  BY <3>1, <3>2, AgainAtFirst
    <2> QED  BY <1>r, <2>1, <2>2
  <1> QED  BY <1>1, <1>2, <1>3, <1>4, <1>5, <1>6, <1>7, <1>8, <1>9, <1>10, <1>11 DEF Work

\* A district whose order id is taken or that is paid to stays a record.
LEMMA DistrictWrites ==
  ASSUME TxnOK, NEW t \in Tasks, Work(t),
         district \in [Warehouses \X Districts -> [d_ytd : Int, d_next_o_id : Nat]]
  PROVE  /\ district' \in [Warehouses \X Districts -> [d_ytd : Int, d_next_o_id : Nat]]
         /\ \A w \in Warehouses, d \in Districts :
              district'[<<w, d>>].d_next_o_id =
                district[<<w, d>>].d_next_o_id
                + (IF NewOrderPlace(t) /\ w = txn[t].w /\ d = txn[t].d THEN 1 ELSE 0)
  <1> PICK z, e, r : z = txn[t].w /\ e = txn[t].d /\ r = district[<<z, e>>]  OBVIOUS
  <1>t. TxnAt(t)  BY DEF TxnOK
  <1>0. \A w \in Warehouses, d \in Districts : district[<<w, d>>].d_next_o_id \in Nat  OBVIOUS
  <1>1. CASE NewOrderPlace(t)
    <2>1. z \in Warehouses /\ e \in Districts
      BY <1>t, <1>1, NewOrderInput, HomeIn DEF NewOrderPlace, TxnAt, NewOrderSteps
    <2> PICK v : v = [r EXCEPT !.d_next_o_id = @ + 1]  OBVIOUS
    <2>2. r \in [d_ytd : Int, d_next_o_id : Nat] /\ <<z, e>> \in Warehouses \X Districts  BY <2>1
    <2>3. v \in [d_ytd : Int, d_next_o_id : Nat] /\ v.d_next_o_id = r.d_next_o_id + 1  BY <2>2
    <2>4. district' = [district EXCEPT ![<<z, e>>] = v]  BY <1>1 DEF NewOrderPlace
    <2>5. district' \in [Warehouses \X Districts -> [d_ytd : Int, d_next_o_id : Nat]]  BY <2>2, <2>3, <2>4
    <2>6. ASSUME NEW w \in Warehouses, NEW d \in Districts
          PROVE  district'[<<w, d>>].d_next_o_id =
                   district[<<w, d>>].d_next_o_id + (IF w = z /\ d = e THEN 1 ELSE 0)
      <3>1. CASE w = z /\ d = e  BY <2>2, <2>3, <2>4, <3>1
      <3>2. CASE ~(w = z /\ d = e)
        <4>1. <<w, d>> # <<z, e>> /\ <<w, d>> \in Warehouses \X Districts  BY <3>2
        <4>2. district'[<<w, d>>] = district[<<w, d>>]  BY <2>4, <4>1
        <4> QED  BY <1>0, <3>2, <4>2
      <3> QED  BY <3>1, <3>2
    <2> QED  BY <1>1, <2>5, <2>6
  <1>2. CASE PayDistrict(t) /\ ~NewOrderPlace(t)
    <2>1. z \in Warehouses /\ e \in Districts
      BY <1>t, <1>2, OtherInput, HomeIn DEF PayDistrict, TxnAt, PaymentSteps
    <2> PICK v : v = [r EXCEPT !.d_ytd = @ + 1]  OBVIOUS
    <2>2. r \in [d_ytd : Int, d_next_o_id : Nat] /\ <<z, e>> \in Warehouses \X Districts  BY <2>1
    <2>3. v \in [d_ytd : Int, d_next_o_id : Nat] /\ v.d_next_o_id = r.d_next_o_id  BY <2>2
    <2>4. district' = [district EXCEPT ![<<z, e>>] = v]  BY <1>2 DEF PayDistrict
    <2>5. district' \in [Warehouses \X Districts -> [d_ytd : Int, d_next_o_id : Nat]]  BY <2>2, <2>3, <2>4
    <2>6. \A w \in Warehouses, d \in Districts :
            district'[<<w, d>>].d_next_o_id = district[<<w, d>>].d_next_o_id
      BY <2>2, <2>3, <2>4
    <2> QED  BY <1>0, <1>2, <2>5, <2>6
  <1>3. CASE district' = district /\ ~NewOrderPlace(t)  BY <1>0, <1>3
  <1> QED  BY <1>1, <1>2, <1>3, Writes

\* The districts are records, and their next ids are above those of the loaded
\* orders.
DistrictsOK ==
  /\ district \in [Warehouses \X Districts -> [d_ytd : Int, d_next_o_id : Nat]]
  /\ \A w \in Warehouses, d \in Districts : district[<<w, d>>].d_next_o_id > NCustomers

\* No step takes an id back: once they do not fit, they never fit again.
LEMMA WorkDistricts ==
  ASSUME TxnOK, DistrictsOK, NEW t \in Tasks, Work(t)
  PROVE  DistrictsOK' /\ (IdsFit' => IdsFit)
  <1>0. district \in [Warehouses \X Districts -> [d_ytd : Int, d_next_o_id : Nat]]
    BY DEF DistrictsOK
  <1>1. district' \in [Warehouses \X Districts -> [d_ytd : Int, d_next_o_id : Nat]]
    BY <1>0, DistrictWrites
  <1>2. ASSUME NEW w \in Warehouses, NEW d \in Districts
        PROVE  /\ district'[<<w, d>>].d_next_o_id > NCustomers
               /\ district'[<<w, d>>].d_next_o_id <= Radix => district[<<w, d>>].d_next_o_id <= Radix
    <2> PICK n, m : n = district[<<w, d>>].d_next_o_id /\ m = district'[<<w, d>>].d_next_o_id  OBVIOUS
    <2>1. n \in Nat /\ n > NCustomers  BY DEF DistrictsOK
    <2>2. m = n + (IF NewOrderPlace(t) /\ w = txn[t].w /\ d = txn[t].d THEN 1 ELSE 0)
      BY <1>0, DistrictWrites
    <2>3. m = n \/ m = n + 1  BY <2>1, <2>2
    <2> QED  BY <2>1, <2>3, Scales
  <1> QED  BY <1>1, <1>2 DEF DistrictsOK, IdsFit

\* DistrictsOK holds at the start ...
LEMMA InitDistricts == Init => DistrictsOK
  <1> SUFFICES ASSUME Init  PROVE DistrictsOK  OBVIOUS
  <1>1. district = [wd \in Warehouses \X Districts |-> [d_ytd |-> 1, d_next_o_id |-> NCustomers + 1]]
    BY DEF Init
  <1> QED  BY <1>1, Scales DEF DistrictsOK

\* ... and is preserved by every step, none of which makes ids fit again.
LEMMA NextDistricts ==
  TxnOK /\ DistrictsOK /\ [Next]_vars => DistrictsOK' /\ (IdsFit' => IdsFit)
  <1> SUFFICES ASSUME TxnOK, DistrictsOK, [Next]_vars  PROVE DistrictsOK' /\ (IdsFit' => IdsFit)
    OBVIOUS
  <1>1. ASSUME NEW t \in Tasks, Step(t)  PROVE DistrictsOK' /\ (IdsFit' => IdsFit)
    BY <1>1, WorkDistricts DEF Step
  <1>2. CASE district' = district  BY <1>2 DEF DistrictsOK, IdsFit
  <1>3. district' = district \/ \E t \in Tasks : Step(t)
    BY DEF Next, Begin, reset_order, vars, tables
  <1> QED  BY <1>1, <1>2, <1>3

\* The id that new_order takes fits, when the next one does.
LEMMA TakenFits ==
  ASSUME IdsFit', TxnOK, DistrictsOK, NEW t \in Tasks, NewOrderPlace(t)
  PROVE  district[<<txn[t].w, txn[t].d>>].d_next_o_id \in 0 .. Radix - 1
  <1>1. txn[t] \in NewOrderInputs(t)  BY DEF NewOrderPlace, TxnOK, TxnAt, NewOrderSteps
  <1> PICK w, d : w = txn[t].w /\ d = txn[t].d  OBVIOUS
  <1>2. w \in Warehouses /\ d \in Districts  BY <1>1, NewOrderInput, HomeIn
  <1> PICK n, m : n = district[<<w, d>>].d_next_o_id /\ m = district'[<<w, d>>].d_next_o_id  OBVIOUS
  <1>3. n \in Nat /\ district \in [Warehouses \X Districts -> [d_ytd : Int, d_next_o_id : Nat]]
    BY <1>2 DEF DistrictsOK
  <1>4. Work(t)  BY DEF Work
  <1>5. m = n + (IF NewOrderPlace(t) /\ w = txn[t].w /\ d = txn[t].d THEN 1 ELSE 0)
    BY <1>2, <1>3, <1>4, DistrictWrites
  <1>6. m = n + 1  BY <1>5
  <1>7. m <= Radix  BY <1>2 DEF IdsFit
  <1> QED  BY <1>3, <1>6, <1>7, Scales

\* The keys in the two indexes are numbers below a bound.
LEMMA KeysBounded ==
  ASSUME OrdersOK
  PROVE  /\ make_key(NWarehouses, 0, 0, 0) \in Nat
         /\ DOMAIN order \subseteq 0 .. make_key(NWarehouses, 0, 0, 0)
         /\ new_order \subseteq 0 .. make_key(NWarehouses, 0, 0, 0)
  <1>0. \A k \in DOMAIN order : order[k] \in OrderRecords  BY DEF OrdersOK
  <1>1. ASSUME NEW k \in DOMAIN order  PROVE k \in 0 .. make_key(NWarehouses, 0, 0, 0)
    <2>1. order_key(order[k]) = k /\ order[k] \in OrderRecords  BY <1>0 DEF OrdersOK
    <2> QED  BY <2>1, RecordKeys
  <1>2. ASSUME NEW k \in new_order  PROVE k \in 0 .. make_key(NWarehouses, 0, 0, 0)
    <2>1. PICK j \in DOMAIN order : k = new_order_key(order[j])  BY DEF OrdersOK
    <2> QED  BY <1>0, <2>1, RecordKeys
  <1>3. 0 \in Fields  BY Scales DEF Fields
  <1>4. make_key(NWarehouses, 0, 0, 0) \in Nat  BY <1>3, KeyDigits, Scales
  <1> QED  BY <1>1, <1>2, <1>4

\* A new order is found under its key, next to all that were there.
LEMMA PlaceOrders ==
  ASSUME IdsFit', TxnOK, DistrictsOK, OrdersOK, NEW t \in Tasks, NewOrderPlace(t)
  PROVE  OrdersOK' /\ DOMAIN order \subseteq DOMAIN order'
  <1>1. pc[t] = "no_order" /\ TxnAt(t)  BY DEF NewOrderPlace, TxnOK
  <1>2. txn[t] \in NewOrderInputs(t)  BY <1>1 DEF TxnAt, NewOrderSteps
  <1> PICK w, d, c, n : w = txn[t].w /\ d = txn[t].d /\ c = txn[t].c /\ n = Len(txn[t].lines)  OBVIOUS
  <1>3. w \in Home(t) /\ w \in Warehouses /\ d \in Districts /\ c \in Customers /\ n \in Nat
    BY <1>2, NewOrderInput, HomeIn
  <1> PICK o : o = district[<<w, d>>].d_next_o_id  OBVIOUS
  <1>4. o \in 0 .. Radix - 1  BY TakenFits
  <1> PICK rec : rec = [w |-> w, d |-> d, o_id |-> o, o_c_id |-> c, o_ol_cnt |-> n, delivered |-> FALSE]
    OBVIOUS
  <1>5. rec \in OrderRecords  BY <1>3, <1>4 DEF OrderRecords
  <1>6. new_order' = new_order \cup {new_order_key(rec)} /\ order' = Inserted(order, order_key(rec), rec)
    BY DEF NewOrderPlace
  <1> PICK z : z = order_key(rec)  OBVIOUS
  <1>7. /\ DOMAIN order' = DOMAIN order \cup {z} /\ order'[z] = rec
        /\ \A k \in DOMAIN order : k # z => order'[k] = order[k]
        /\ order' = [k \in DOMAIN order' |-> order'[k]]
    BY <1>6 DEF Inserted
  <1>8. \A k \in DOMAIN order : order[k] \in OrderRecords /\ order_key(order[k]) = k  BY DEF OrdersOK
  <1>9. \A k \in DOMAIN order' : order'[k] \in OrderRecords /\ order_key(order'[k]) = k
    BY <1>5, <1>7, <1>8
  <1>10. order' \in [DOMAIN order' -> OrderRecords]  BY <1>7, <1>9
  <1>11. ASSUME NEW k \in new_order'  PROVE \E j \in DOMAIN order' : k = new_order_key(order'[j])
    <2>1. CASE k = new_order_key(rec)  BY <1>7, <2>1
    <2>2. CASE k \in new_order
      <3>1. PICK j \in DOMAIN order : k = new_order_key(order[j])  BY <2>2 DEF OrdersOK
      <3>2. j \in DOMAIN order' /\ order_key(order'[j]) = order_key(order[j])
            /\ order'[j] \in OrderRecords /\ order[j] \in OrderRecords
        BY <1>7, <1>8, <1>9
      <3>3. new_order_key(order'[j]) = new_order_key(order[j])  BY <3>2, SameKeys
      <3> QED  BY <3>1, <3>2, <3>3
    <2> QED  BY <1>6, <1>11, <2>1, <2>2
  <1>12. \A w1 \in Warehouses, d1 \in Districts, c1 \in Customers :
           \E o1 \in Customers : make_key(w1, d1, c1, o1) \in DOMAIN order'
    BY <1>7 DEF OrdersOK
  <1> QED  BY <1>7, <1>9, <1>10, <1>11, <1>12 DEF OrdersOK

\* A delivery marks an order that exists, and removes no order.
LEMMA DeliverOrders ==
  ASSUME OrdersOK, NEW t, DeliveryOrder(t)
  PROVE  OrdersOK' /\ DOMAIN order' = DOMAIN order
  <1>1. CASE order' = order /\ new_order' = new_order  BY <1>1 DEF OrdersOK
  <1>2. CASE loc[t].key \in DOMAIN order
    <2> PICK z, v : z = loc[t].key /\ v = [order[z] EXCEPT !.delivered = TRUE]  OBVIOUS
    <2>1. order' = [order EXCEPT ![z] = v] /\ new_order' = new_order
      BY <1>2 DEF DeliveryOrder
    <2>2. \A k \in DOMAIN order : order[k] \in OrderRecords /\ order_key(order[k]) = k  BY DEF OrdersOK
    <2>3. v \in OrderRecords /\ v.w = order[z].w /\ v.d = order[z].d /\ v.o_id = order[z].o_id
          /\ v.o_c_id = order[z].o_c_id
      BY <1>2, <2>2 DEF OrderRecords
    <2>4. order_key(v) = order_key(order[z]) /\ new_order_key(v) = new_order_key(order[z])
      BY <2>3 DEF order_key, new_order_key
    <2>5. DOMAIN order' = DOMAIN order /\ order' \in [DOMAIN order -> OrderRecords]
          /\ \A k \in DOMAIN order : order_key(order'[k]) = order_key(order[k])
                                     /\ new_order_key(order'[k]) = new_order_key(order[k])
      <3>1. order \in [DOMAIN order -> OrderRecords]  BY DEF OrdersOK
      <3>2. DOMAIN order' = DOMAIN order /\ order' \in [DOMAIN order -> OrderRecords]  BY <2>1, <2>3, <3>1
      <3>3. \A k \in DOMAIN order : order'[k] = IF k = z THEN v ELSE order[k]  BY <2>1, <3>1
      <3> QED  BY <2>4, <3>2, <3>3
    <2> QED  BY <2>1, <2>2, <2>5 DEF OrdersOK
  <1> QED  BY <1>1, <1>2 DEF DeliveryOrder

\* Every step of a transaction keeps OrdersOK and the orders there are.
LEMMA WorkOrders ==
  ASSUME IdsFit', TxnOK, DistrictsOK, OrdersOK, NEW t \in Tasks, Work(t)
  PROVE  OrdersOK' /\ DOMAIN order \subseteq DOMAIN order'
  <1>1. CASE NewOrderPlace(t)  BY <1>1, PlaceOrders
  <1>2. CASE DeliveryOrder(t)  BY <1>2, DeliverOrders
  <1>3. CASE DeliveryScan(t)
    <2>1. order' = order /\ new_order' \subseteq new_order  BY <1>3 DEF DeliveryScan, Taken
    <2> QED  BY <2>1 DEF OrdersOK
  <1>4. CASE order' = order /\ new_order' = new_order  BY <1>4 DEF OrdersOK
  <1> QED  BY <1>1, <1>2, <1>3, <1>4, Writes

\* What a delivery takes from the new_order index is the key of an order of the
\* district, and what it makes of it is the key of that order and its fields.
LEMMA ScanTakes ==
  ASSUME TxnOK, OrdersOK, NEW t \in Tasks, DeliveryScan(t), pc'[t] = "dlv_o",
         NEW v, v = loc'[t], NEW r, r = order[v.key]
  PROVE  /\ v.key \in DOMAIN order /\ r \in OrderRecords
         /\ r.w = txn[t].w /\ r.d = v.n /\ r.o_id = v.o /\ r.o_c_id = v.c
         /\ v.key = make_key(r.w, r.d, r.o_c_id, r.o_id)
         /\ new_order_key(r) \in new_order /\ new_order_key(r) \notin new_order'
         /\ v.n = loc[t].n /\ v.sum = 0 /\ txn'[t] = txn[t] /\ order' = order
  <1>d. DOMAIN pc = Tasks /\ DOMAIN loc = Tasks  BY DEF TxnOK
  <1>1. ~Return(t)  BY <1>d DEF Return, Goto
  <1>2. pc[t] = "dlv_scan" /\ TxnAt(t)  BY DEF DeliveryScan, TxnOK
  <1>w. PICK w, d : w = txn[t].w /\ d = loc[t].n  OBVIOUS
  <1>3. w \in Warehouses /\ d \in Districts
    BY <1>2, <1>w, OtherInput, HomeIn DEF TxnAt, DeliverySteps
  <1>4. w \in Nat /\ d \in Fields  BY <1>3, Scales DEF Warehouses, Districts, Fields
  <1>f. PICK found : found = ScanKeys(new_order, make_key(w, d, 0, 0), make_key(w, d, Radix - 1, Radix - 1), 1)
    OBVIOUS
  <1>k. PICK k, oc : k = found[1] /\ oc = o_c_id_from_key(k)  OBVIOUS
  <1>v. PICK u : u = [Fresh EXCEPT !.n = d, !.key = make_key(w, d, oc.c, oc.o), !.o = oc.o, !.c = oc.c]
    OBVIOUS
  <1>5. found # <<>> /\ txn' = txn /\ loc' = [loc EXCEPT ![t] = u] /\ new_order' = new_order \ {k} /\ order' = order
    BY <1>1, <1>w, <1>f, <1>k, <1>v DEF DeliveryScan, Set, Continue, Taken
  <1>6. k \in new_order /\ make_key(w, d, 0, 0) <= k /\ k < make_key(w, d, Radix - 1, Radix - 1)
    BY <1>5, <1>f, <1>k, ScanFirst, KeysBounded
  <1>7. PICK j \in DOMAIN order : k = new_order_key(order[j])  BY <1>6 DEF OrdersOK
  <1>r. PICK q, x, y, w2, d2 : /\ q = order[j] /\ x = q.o_id /\ y = q.o_c_id
                               /\ w2 = q.w /\ d2 = q.d
    OBVIOUS
  <1>8. q \in OrderRecords /\ order_key(q) = j  BY <1>7, <1>r DEF OrdersOK
  <1>9. /\ w2 \in Nat /\ d2 \in Fields /\ x \in Fields /\ y \in Fields
        /\ k = make_key(w2, d2, x, y) /\ j = make_key(w2, d2, y, x)
    BY <1>7, <1>8, <1>r, RecordKeys
  <1>10. w2 = w /\ d2 = d  BY <1>4, <1>6, <1>9, KeyOfDistrict
  <1>11. oc = [o |-> x, c |-> y]
    <2>1. o_c_id_from_key(make_key(w2, d2, x, y)) = [o |-> x, c |-> y]  BY <1>9, KeyParts
    <2> QED  BY <1>9, <1>k, <2>1
  <1>12. v = u  BY <1>5, <1>d
  <1>13. v.n = d /\ v.key = make_key(w, d, oc.c, oc.o) /\ v.o = oc.o /\ v.c = oc.c /\ v.sum = 0
    BY <1>v, <1>12 DEF Fresh
  <1>14. oc.o = x /\ oc.c = y  BY <1>11
  <1>15. v.key = j /\ r = q  BY <1>9, <1>10, <1>13, <1>14, <1>r
  <1>16. /\ r.w = w /\ r.d = d /\ r.o_id = v.o /\ r.o_c_id = v.c
         /\ v.key = make_key(r.w, r.d, r.o_c_id, r.o_id)
    BY <1>9, <1>10, <1>13, <1>14, <1>15, <1>r
  <1>17. new_order_key(r) = k /\ k \in new_order /\ k \notin new_order'  BY <1>5, <1>6, <1>7, <1>15, <1>r
  <1>18. txn'[t] = txn[t] /\ order' = order  BY <1>5
  <1> QED  BY <1>7, <1>8, <1>13, <1>15, <1>16, <1>17, <1>18, <1>w

\* The key a delivery makes of what it has found finds the order.
LEMMA ScanFound ==
  ASSUME TxnOK, OrdersOK, NEW t \in Tasks, DeliveryScan(t), pc'[t] = "dlv_o"
  PROVE  /\ loc'[t].key \in DOMAIN order /\ loc'[t].o \in Fields /\ loc'[t].c \in Fields
         /\ loc'[t].key = make_key(txn'[t].w, loc'[t].n, loc'[t].c, loc'[t].o)
  <1> PICK v, r : v = loc'[t] /\ r = order[v.key]  OBVIOUS
  <1>1. /\ v.key \in DOMAIN order /\ r \in OrderRecords /\ txn'[t] = txn[t]
        /\ r.w = txn[t].w /\ r.d = v.n /\ r.o_id = v.o /\ r.o_c_id = v.c
        /\ v.key = make_key(r.w, r.d, r.o_c_id, r.o_id)
    BY ScanTakes
  <1>2. r.o_id \in Fields /\ r.o_c_id \in Fields  BY <1>1, RecordKeys
  <1> QED  BY <1>1, <1>2

\* What a delivery or an order_status has found stays there for it.
LEMMA WorkFound ==
  ASSUME TxnOK, ItemsOK, OrdersOK, FoundOK, NEW t \in Tasks, Work(t), DOMAIN order \subseteq DOMAIN order'
  PROVE  FoundOK'
  <1>1. FoundAt(t)'
    <2>1. ASSUME pc'[t] = "dlv_o"
          PROVE  /\ loc'[t].key \in DOMAIN order' /\ loc'[t].o \in 0 .. Radix - 1 /\ loc'[t].c \in 0 .. Radix - 1
                 /\ loc'[t].key = make_key(txn'[t].w, loc'[t].n, loc'[t].c, loc'[t].o)
      BY <2>1, Moves, ScanFound DEF Fields
    <2>2. ASSUME pc'[t] = "os_scan"  PROVE txn'[t].c \in Customers
      <3>1. OrderStatusCustomer(t)  BY <2>2, Moves
      <3>2. pc[t] = "os_c" /\ txn' = txn /\ Indexed(Wanted(t))  BY <3>1 DEF OrderStatusCustomer, Lock
      <3>3. Wanted(t) = C(txn[t].w, txn[t].d, txn[t].c)  BY <3>2 DEF Wanted
      <3>4. txn[t].c # Nobody  BY <3>2, <3>3 DEF Indexed, C
      <3>5. txn[t] \in OrderStatusInputs(t)  BY <3>2 DEF TxnOK, TxnAt, OrderStatusSteps
      <3>6. txn[t].c \in Customers \cup {Nobody}  BY <3>5, OtherInput
      <3> QED  BY <3>2, <3>4, <3>6
    <2> QED  BY <2>1, <2>2 DEF FoundAt
  <1>2. ASSUME NEW u \in Tasks \ {t}  PROVE FoundAt(u)'
    <2>1. pc'[u] = pc[u] /\ txn'[u] = txn[u] /\ loc'[u] = loc[u]  BY WorkKept DEF Kept, Others
    <2>2. FoundAt(u)  BY DEF FoundOK
    <2> QED  BY <2>1, <2>2 DEF FoundAt
  <1> QED  BY <1>1, <1>2 DEF FoundOK

\* Of the four places where a transaction may panic, all but the assertion on
\* the discount are out of reach.
LEMMA WorkNoPanic ==
  ASSUME IdsFit, Alive, TxnOK, ItemsOK, DistrictsOK, OrdersOK, FoundOK, NEW t \in Tasks, Work(t)
  PROVE  PanicsExplained'
  <1>t. TxnAt(t) /\ DOMAIN pc = Tasks  BY DEF TxnOK
  <1>1. ASSUME DeliveryOrder(t)  PROVE pc'[t] # "panic"
    <2> PICK w, d, o, c, k : w = txn[t].w /\ d = loc[t].n /\ o = loc[t].o /\ c = loc[t].c /\ k = loc[t].key
      OBVIOUS
    <2>1. pc[t] = "dlv_o"  BY <1>1 DEF DeliveryOrder
    <2>2. k \in DOMAIN order /\ o \in Fields /\ c \in Fields /\ k = make_key(w, d, c, o)
      BY <2>1 DEF FoundOK, FoundAt, Fields
    <2>3. w \in Warehouses /\ d \in Districts
      BY <1>t, <2>1, OtherInput, HomeIn DEF TxnAt, DeliverySteps
    <2>4. w \in Nat /\ d \in Fields  BY <2>3, Scales DEF Warehouses, Districts, Fields
    <2>5. c = (k \div Radix) % Radix  BY <2>2, <2>4, KeyFields
    <2> PICK r : r = order[k]  OBVIOUS
    <2>6. r \in OrderRecords /\ order_key(r) = k  BY <2>2 DEF OrdersOK
    <2>7. r.o_c_id = (k \div Radix) % Radix  BY <2>6, RecordKeys, KeyFields
    <2>8. pc' = [pc EXCEPT ![t] =
            CASE order[k].o_c_id # loc[t].c -> "panic"
              [] ScanLines(txn[t].w, loc[t].n, {loc[t].o}, NItems, 20) = <<>> -> "dlv_c"
              [] OTHER -> "dlv_ol"]
      BY <1>1, <2>2 DEF DeliveryOrder, Goto
    <2>9. order[k].o_c_id = loc[t].c  BY <2>5, <2>7
    <2> QED  BY <1>t, <2>8, <2>9
  <1>2. ASSUME OrderStatusScan(t)  PROVE pc'[t] # "panic"
    <2> PICK w, d, c : w = txn[t].w /\ d = txn[t].d /\ c = txn[t].c  OBVIOUS
    <2>1. pc[t] = "os_scan"  BY <1>2 DEF OrderStatusScan
    <2>2. w \in Warehouses /\ d \in Districts
      BY <1>t, <2>1, OtherInput, HomeIn DEF TxnAt, OrderStatusSteps
    <2>3. c \in Customers  BY <2>1 DEF FoundOK, FoundAt
    <2>4. PICK o \in Customers : make_key(w, d, c, o) \in DOMAIN order  BY <2>2, <2>3 DEF OrdersOK
    <2>5. o \in Nat /\ o < Radix - 1
      <3> PICK n : n = district[<<w, d>>].d_next_o_id  OBVIOUS
      <3>1. n \in Nat /\ n > NCustomers /\ n <= Radix  BY <2>2 DEF DistrictsOK, IdsFit
      <3>2. o \in Nat /\ o < NCustomers  BY Scales DEF Customers
      <3> QED  BY <3>1, <3>2, Scales
    <2>6. w \in Nat /\ d \in Fields /\ c \in Fields  BY <2>2, <2>3, Scales DEF Warehouses, Districts, Customers, Fields
    <2>7. make_key(w, d, c, 0) <= make_key(w, d, c, o) /\ make_key(w, d, c, o) < make_key(w, d, c, Radix - 1)
      <3> PICK b : b = ((w * Radix + d) * Radix + c) * Radix  OBVIOUS
      <3>1. b \in Nat
        <4> PICK a : a = (w * Radix + d) * Radix + c  OBVIOUS
        <4>1. a \in Nat  BY <2>6, KeyDigits
        <4> QED  BY <4>1, Scales
      <3>2. make_key(w, d, c, 0) = b + 0 /\ make_key(w, d, c, o) = b + o
            /\ make_key(w, d, c, Radix - 1) = b + (Radix - 1)
        BY DEF make_key
      <3> QED  BY <2>5, <3>1, <3>2, Scales
    <2>8. RidBuffer \in Nat \ {0}  BY ScaleAssumption
    <2>9. ScanKeys(DOMAIN order, make_key(w, d, c, 0), make_key(w, d, c, Radix - 1), RidBuffer) # <<>>
      BY <2>4, <2>7, <2>8, KeysBounded, ScanFinds
    <2>10. pc' = [pc EXCEPT ![t] = "os_o"]  BY <1>2, <2>9 DEF OrderStatusScan, Goto
    <2> QED  BY <1>t, <2>10
  <1>3. ASSUME StockLevelDistrict(t)  PROVE pc'[t] # "panic"
    <2> PICK n : n = district[<<txn[t].w, txn[t].d>>].d_next_o_id  OBVIOUS
    <2>1. txn[t] \in StockLevelInputs(t)
      BY <1>t, <1>3 DEF StockLevelDistrict, TxnAt, StockLevelSteps
    <2>2. n \in Nat /\ n > NCustomers  BY <2>1, OtherInput, HomeIn DEF DistrictsOK
    <2>3. RecentOrders \in 0 .. NCustomers + 1  BY ScaleAssumption
    <2>4. ~(n < RecentOrders) /\ n >= RecentOrders  BY <2>2, <2>3, Scales
    <2>5. Return(t) \/ pc' = [pc EXCEPT ![t] = "sl_ol"]
      BY <1>3, <2>4 DEF StockLevelDistrict, Goto
    <2> QED  BY <1>t, <2>5 DEF Return, Goto
  <1>4. ASSUME PayUpdate(t), pc'[t] = "panic"
        PROVE  txn'[t].type = "payment" /\ DiscountAtEnd(txn'[t])
    <2>1. ~Return(t)  BY <1>t, <1>4 DEF Return, Goto
    <2>2. DiscountAtEnd(txn[t]) /\ txn' = txn  BY <1>4, <2>1 DEF PayUpdate, Continue
    <2>3. txn[t] \in PaymentInputs(t)  BY <1>t, <1>4 DEF PayUpdate, TxnAt, PaymentSteps
    <2> QED  BY <2>2, <2>3, OtherInput
  <1>5. pc'[t] = "panic" => txn'[t].type = "payment" /\ DiscountAtEnd(txn'[t])
    BY <1>1, <1>2, <1>3, <1>4, Moves
  <1>6. \A u \in Tasks \ {t} : pc'[u] = pc[u] /\ pc[u] # "panic"
    BY WorkKept DEF Kept, Others, Alive
  <1> QED  BY <1>5, <1>6 DEF PanicsExplained

\* PanicInv holds at the start ...
LEMMA InitPanic == Init => PanicInv
  <1> SUFFICES ASSUME Init  PROVE PanicInv  OBVIOUS
  <1>1. \A t \in Tasks : pc[t] = "idle"  BY DEF Init
  <1>2. OrdersOK
    <2>1. PICK shuffle \in Shuffles : order = OrderTable(LoadedOrders(shuffle))
                                    /\ new_order = NewOrderIndex(LoadedOrders(shuffle))
      BY DEF Init
    <2> QED  BY <2>1, LoadedOK DEF OrdersOK
  <1>3. FoundOK /\ PanicsExplained  BY <1>1 DEF FoundOK, FoundAt, PanicsExplained
  <1> QED  BY <1>2, <1>3, InitTxn DEF PanicInv

\* ... and is preserved by every step after which ids fit.
LEMMA NextPanic == IdsFit' /\ DistrictsOK /\ PanicInv /\ [Next]_vars => PanicInv'
  <1> SUFFICES ASSUME IdsFit', DistrictsOK, PanicInv, [Next]_vars
               PROVE  OrdersOK' /\ FoundOK' /\ PanicsExplained'
    BY NextTxn DEF PanicInv
  <1>0. TxnOK /\ ItemsOK /\ OrdersOK /\ FoundOK /\ PanicsExplained /\ IdsFit
    BY NextDistricts DEF PanicInv
  <1>1. ASSUME NEW t \in Tasks, Step(t)  PROVE OrdersOK' /\ FoundOK' /\ PanicsExplained'
    <2>1. Work(t) /\ Alive  BY <1>1 DEF Step
    <2>2. OrdersOK' /\ DOMAIN order \subseteq DOMAIN order'  BY <1>0, <2>1, WorkOrders
    <2> QED  BY <1>0, <2>1, <2>2, WorkFound, WorkNoPanic
  <1>2. ASSUME NEW t \in Tasks, Begin(t)  PROVE OrdersOK' /\ FoundOK' /\ PanicsExplained'
    <2>1. order' = order /\ new_order' = new_order  BY <1>2 DEF Begin, tables
    <2>2. \A u \in Tasks \ {t} : pc'[u] = pc[u] /\ txn'[u] = txn[u] /\ loc'[u] = loc[u]
      BY <1>0, <1>2, BeginKept DEF Kept, Others
    <2>3. PICK x \in Inputs(t) : pc' = [pc EXCEPT ![t] = FirstStep[x.type]]
      BY <1>2 DEF Begin, Goto
    <2>4. FirstStep[x.type] \notin {"dlv_o", "os_scan", "panic"}
      BY NewOrderInput, OtherInput, FirstSteps DEF Inputs
    <2>5. pc'[t] \notin {"dlv_o", "os_scan", "panic"}  BY <1>0, <2>3, <2>4 DEF TxnOK
    <2>6. FoundAt(t)'  BY <2>5 DEF FoundAt
    <2>7. ASSUME NEW u \in Tasks \ {t}  PROVE FoundAt(u)'
      <3>1. FoundAt(u)  BY <1>0 DEF FoundOK
      <3> QED  BY <2>1, <2>2, <3>1 DEF FoundAt
    <2>8. FoundOK'  BY <2>6, <2>7 DEF FoundOK
    <2>9. PanicsExplained'  BY <1>2, <2>2, <2>5 DEF PanicsExplained, Begin, Alive
    <2>10. OrdersOK'  BY <1>0, <2>1 DEF OrdersOK
    <2> QED  BY <2>8, <2>9, <2>10
  <1>3. ASSUME reset_order  PROVE OrdersOK' /\ FoundOK' /\ PanicsExplained'
    <2>1. \A t \in Tasks : pc'[t] = "idle"  BY <1>3 DEF reset_order
    <2>2. PICK shuffle \in Shuffles : order' = OrderTable(LoadedOrders(shuffle))
                                    /\ new_order' = NewOrderIndex(LoadedOrders(shuffle))
      BY <1>3 DEF reset_order
    <2>3. OrdersOK'  BY <2>2, LoadedOK DEF OrdersOK
    <2>4. FoundOK' /\ PanicsExplained'  BY <2>1 DEF FoundOK, FoundAt, PanicsExplained
    <2> QED  BY <2>3, <2>4
  <1>4. ASSUME UNCHANGED vars  PROVE OrdersOK' /\ FoundOK' /\ PanicsExplained'
    <2>1. order' = order /\ new_order' = new_order /\ pc' = pc /\ txn' = txn /\ loc' = loc
      BY <1>4 DEF vars, tables
    <2>2. OrdersOK' /\ FoundOK'  BY <1>0, <2>1 DEF OrdersOK, FoundOK, FoundAt
    <2>3. PanicsExplained'  BY <1>0, <2>1 DEF PanicsExplained, DiscountAtEnd
    <2> QED  BY <2>2, <2>3
  <1> QED  BY <1>1, <1>2, <1>3, <1>4 DEF Next

\* "Index not found is not possible with TPCC transactions": while the order ids
\* of every district fit into their field of a key, every key that delivery makes
\* of a new_order key is in the order index, the order is its customer's,
\* order_status finds an order of every customer and stock_level enough orders;
\* what panics is a payment whose customer's discount is at an end of the range
\* it was loaded from: PanicsExplained.
THEOREM NoPanic == Spec => []PanicsExplained
  <1> DEFINE Inv == TxnOK /\ ItemsOK /\ DistrictsOK /\ (IdsFit => PanicInv)
  <1>1. Init => Inv  BY InitTxn, InitDistricts, InitPanic
  <1>2. Inv /\ [Next]_vars => Inv'
    <2>1. Inv /\ [Next]_vars => (TxnOK /\ ItemsOK /\ DistrictsOK)' /\ (IdsFit' => IdsFit)
      BY NextTxn, NextDistricts
    <2>2. Inv /\ [Next]_vars /\ IdsFit' => PanicInv'  BY <2>1, NextPanic
    <2> QED  BY <2>1, <2>2
  <1>3. Inv => PanicsExplained
    <2>1. IdsFit /\ PanicInv => PanicsExplained  BY DEF PanicInv
    <2>2. ~IdsFit => PanicsExplained  BY DEF PanicsExplained
    <2> QED  BY <2>1, <2>2
  <1> QED  BY <1>1, <1>2, <1>3, PTL DEF Spec

-----------------------------------------------------------------------------
(* The order lines: who writes them, and under which keys.                    *)

\* The lines of an input whose items exist name different items.
LEMMA LinesApart ==
  ASSUME NEW t \in Tasks, NEW x \in NewOrderInputs(t),
         NEW i \in 1 .. Len(x.lines), NEW j \in 1 .. Len(x.lines), i # j,
         x.lines[i].item \in Items, x.lines[j].item \in Items
  PROVE  x.lines[i].item # x.lines[j].item
  <1>0. PICK cnt \in OlCnt :
          x \in {[type |-> "new_order", w |-> w, d |-> d, c |-> c,
                  lines |-> [n \in 1 .. cnt |->
                    [item     |-> Item(start + n - 1, rbk /\ n = cnt),
                     supply   |-> IF Item(start + n - 1, rbk /\ n = cnt) = Nobody THEN w ELSE supply[n],
                     quantity |-> q]]] :
                   w \in Home(t), d \in Districts, c \in Customers, start \in Items,
                   rbk \in BOOLEAN, supply \in [1 .. cnt -> Warehouses], q \in Quantities}
    BY SMTT(30) DEF NewOrderInputs
  <1>1. PICK start \in Items, rbk \in BOOLEAN :
          \E w \in Home(t), d \in Districts, c \in Customers, supply \in [1 .. cnt -> Warehouses],
             q \in Quantities :
          x = [type |-> "new_order", w |-> w, d |-> d, c |-> c,
               lines |-> [n \in 1 .. cnt |->
                 [item     |-> Item(start + n - 1, rbk /\ n = cnt),
                  supply   |-> IF Item(start + n - 1, rbk /\ n = cnt) = Nobody THEN w ELSE supply[n],
                  quantity |-> q]]]
    BY <1>0, SMTT(30)
  <1>2. cnt \in Nat  BY ScaleAssumption
  <1>3. Len(x.lines) = cnt  BY <1>1, <1>2
  <1>4. \A n \in 1 .. cnt : x.lines[n].item = Item(start + n - 1, rbk /\ n = cnt)  BY <1>1
  <1>5. ASSUME NEW n \in 1 .. cnt, x.lines[n].item \in Items  PROVE x.lines[n].item = start + n - 1
    <2>1. Nobody \notin Items  BY DEF Nobody, Items
    <2> QED  BY <1>4, <1>5, <2>1 DEF Item
  <1>6. start \in Int /\ i \in Int /\ j \in Int  BY <1>2, <1>3, Scales DEF Items
  <1>7. x.lines[i].item = start + i - 1 /\ x.lines[j].item = start + j - 1  BY <1>3, <1>5
  <1> QED  BY <1>6, <1>7

\* The steps that write the lines and the customers.
LEMMA MoreWrites ==
  ASSUME NEW t, Work(t)
  PROVE  /\ NewOrderLine(t) \/ DeliveryLine(t) \/ order_line' = order_line
         /\ PayUpdate(t) \/ DeliveryUpdate(t) \/ customer' = customer
  <1>1. CASE NewOrderLock(t) \/ NewOrderStock(t) \/ NewOrderPlace(t) \/ NewOrderLine(t)
    BY <1>1 DEF NewOrderLock, NewOrderStock, NewOrderPlace, NewOrderLine, tables
  <1>2. CASE PayWarehouse(t) \/ PayDistrict(t) \/ PayCustomer(t) \/ PayUpdate(t)
    BY <1>2 DEF PayWarehouse, PayDistrict, PayCustomer, PayUpdate, tables
  <1>3. CASE DeliveryScan(t) \/ DeliveryOrder(t) \/ DeliveryLine(t)
    BY <1>3 DEF DeliveryScan, DeliveryOrder, DeliveryLine, tables
  <1>4. CASE DeliveryCustomer(t) \/ DeliveryUpdate(t)
    BY <1>4 DEF DeliveryCustomer, DeliveryUpdate, tables
  <1>5. CASE OrderStatusCustomer(t) \/ OrderStatusScan(t) \/ OrderStatusOrder(t) \/ OrderStatusLine(t)
    BY <1>5 DEF OrderStatusCustomer, OrderStatusScan, OrderStatusOrder, OrderStatusLine, tables
  <1>6. CASE StockLevelDistrict(t) \/ StockLevelLock(t) \/ StockLevelRead(t)
    BY <1>6 DEF StockLevelDistrict, StockLevelLock, StockLevelRead, tables
  <1>7. CASE NameNotFound(t) \/ LockBusy(t) \/ UserAbort(t)
    BY <1>7 DEF NameNotFound, LockBusy, UserAbort, Fail, tables
  <1> QED  BY <1>1, <1>2, <1>3, <1>4, <1>5, <1>6, <1>7 DEF Work

\* Where the steps of new_order and of delivery are reached from.
LEMMA Arrivals ==
  ASSUME TxnOK, ItemsOK, NEW t \in Tasks, Work(t)
  PROVE  /\ pc'[t] = "no_c" => NewOrderLock(t) /\ pc[t] = "no_d"
         /\ pc'[t] = "no_s" => NewOrderStock(t) \/ (NewOrderLock(t) /\ pc[t] = "no_c")
         /\ pc'[t] = "no_order" => NewOrderStock(t)
         /\ pc'[t] = "no_line" => NewOrderPlace(t) \/ NewOrderLine(t)
         /\ pc'[t] = "dlv_ol" => DeliveryOrder(t) \/ DeliveryLine(t)
         /\ pc'[t] = "dlv_c" => DeliveryOrder(t) \/ DeliveryLine(t)
         /\ pc'[t] = "dlv_upd" => DeliveryCustomer(t)
  <1> USE DEF Goto
  <1>d. DOMAIN pc = Tasks  BY DEF TxnOK
  <1>r. Return(t) => pc'[t] = "idle"  BY <1>d DEF Return
  <1> HIDE DEF Return
  <1>1. CASE NewOrderLock(t) \/ NewOrderStock(t) \/ NewOrderPlace(t)
    BY <1>d, <1>1 DEF NewOrderLock, NewOrderStock, NewOrderPlace
  <1>2. CASE NewOrderLine(t)  BY <1>d, <1>r, <1>2 DEF NewOrderLine
  <1>3. CASE PayWarehouse(t) \/ PayDistrict(t) \/ PayCustomer(t) \/ PayUpdate(t)
    BY <1>d, <1>r, <1>3 DEF PayWarehouse, PayDistrict, PayCustomer, PayUpdate
  <1>4. CASE DeliveryScan(t)
    <2>1. Return(t) \/ pc' = [pc EXCEPT ![t] = "dlv_o"]  BY <1>4 DEF DeliveryScan
    <2> QED  BY <1>d, <1>r, <1>4, <2>1
  <1>5. CASE DeliveryOrder(t)
    <2>1. pc'[t] \in {"panic", "dlv_c", "dlv_ol"}
      <3>1. CASE loc[t].key \in DOMAIN order
        <4>1. pc' = [pc EXCEPT ![t] =
                CASE order[loc[t].key].o_c_id # loc[t].c -> "panic"
                  [] ScanLines(txn[t].w, loc[t].n, {loc[t].o}, NItems, 20) = <<>> -> "dlv_c"
                  [] OTHER -> "dlv_ol"]
          BY <1>5, <3>1 DEF DeliveryOrder
        <4> QED  BY <1>d, <4>1
      <3>2. CASE loc[t].key \notin DOMAIN order  BY <1>d, <1>5, <3>2 DEF DeliveryOrder
      <3> QED  BY <3>1, <3>2
    <2> QED  BY <1>5, <2>1
  <1>6. CASE DeliveryLine(t) \/ DeliveryCustomer(t)
    BY <1>d, <1>6 DEF DeliveryLine, DeliveryCustomer
  <1>7. CASE DeliveryUpdate(t)  BY <1>d, <1>r, <1>7 DEF DeliveryUpdate
  <1>8. CASE OrderStatusCustomer(t) \/ OrderStatusScan(t)
    BY <1>d, <1>8 DEF OrderStatusCustomer, OrderStatusScan
  <1>9. CASE OrderStatusOrder(t) \/ OrderStatusLine(t)
    BY <1>d, <1>r, <1>9 DEF OrderStatusOrder, OrderStatusLine
  <1>10. CASE StockLevelDistrict(t) \/ StockLevelLock(t) \/ StockLevelRead(t)
    BY <1>d, <1>r, <1>10 DEF StockLevelDistrict, StockLevelLock, StockLevelRead
  <1>11. CASE NameNotFound(t) \/ LockBusy(t) \/ UserAbort(t)
    <2>1. Return(t) \/ (Again(t) /\ pc[t] \in Exclusive \cup Shared)
      BY <1>11 DEF NameNotFound, LockBusy, UserAbort, Fail, Exclusive
    <2>2. CASE Again(t) /\ pc[t] \in Exclusive \cup Shared
      <3>1. pc[t] \in Steps
        BY <2>2 DEF Exclusive, Shared, Steps, NewOrderSteps, PaymentSteps, DeliverySteps,
           OrderStatusSteps, StockLevelSteps
      <3> QED  BY <1>d, <2>2, <3>1, AgainAtFirst DEF Again
    <2> QED  BY <1>r, <2>1, <2>2
  <1> QED  BY <1>1, <1>2, <1>3, <1>4, <1>5, <1>6, <1>7, <1>8, <1>9, <1>10, <1>11 DEF Work

\* A line of an order is inserted under a key of its own.
LEMMA LineWritten ==
  ASSUME TxnOK, ItemsOK, LinesOK, NEW t \in Tasks, NewOrderLine(t),
         NEW l, l = txn[t].lines[loc[t].n + 1],
         NEW k, k = <<txn[t].w, txn[t].d, loc[t].o, l.item>>
  PROVE  /\ txn[t].w \in Home(t) /\ txn[t].w \in Warehouses /\ txn[t].d \in Districts
         /\ loc[t].n \in Nat /\ loc[t].n + 1 \in 1 .. Len(txn[t].lines) /\ Len(txn[t].lines) \in Nat
         /\ txn[t] \in NewOrderInputs(t)
         /\ loc[t].o \in Nat /\ loc[t].o >= NCustomers
         /\ loc[t].o = district[<<txn[t].w, txn[t].d>>].d_next_o_id - 1
         /\ l.supply \in Warehouses /\ l.item \in Items /\ l.item \in Nat /\ l.quantity \in Nat
         /\ k \notin DOMAIN order_line /\ DOMAIN order_line' = DOMAIN order_line \cup {k}
         /\ order_line'[k] = [supply |-> l.supply, quantity |-> l.quantity, amount |-> l.quantity,
                              delivered |-> FALSE]
         /\ \A j \in DOMAIN order_line : order_line'[j] = order_line[j]
         /\ order_line' \in [DOMAIN order_line' -> LineRecords]
         /\ district' = district
  <1>1. pc[t] = "no_line" /\ TxnAt(t) /\ ItemsAt(t) /\ WritingAt(t)
    BY DEF NewOrderLine, TxnOK, ItemsOK, LinesOK
  <1>2. txn[t] \in NewOrderInputs(t)  BY <1>1 DEF TxnAt, NewOrderSteps
  <1>3. txn[t].w \in Home(t) /\ txn[t].w \in Warehouses /\ txn[t].d \in Districts /\ Len(txn[t].lines) \in Nat
    BY <1>2, NewOrderInput, HomeIn
  <1>4. loc[t].n \in 0 .. Len(txn[t].lines) - 1  BY <1>1 DEF TxnAt
  <1>5. loc[t].n \in Nat /\ loc[t].n + 1 \in 1 .. Len(txn[t].lines)  BY <1>3, <1>4
  <1>6. l.supply \in Warehouses /\ l.quantity \in Quantities /\ l.item \in Items
    BY <1>1, <1>2, <1>5, NewOrderInput DEF ItemsAt
  <1>7. l.quantity \in Nat /\ l.item \in Nat
    BY <1>6, ScaleAssumption, Scales DEF Items
  <1>8. loc[t].o = district[<<txn[t].w, txn[t].d>>].d_next_o_id - 1  BY <1>1 DEF WritingAt
  <1>9. district[<<txn[t].w, txn[t].d>>].d_next_o_id \in Nat
        /\ district[<<txn[t].w, txn[t].d>>].d_next_o_id > NCustomers
    BY <1>3 DEF LinesOK
  <1>10. loc[t].o \in Nat /\ loc[t].o >= NCustomers  BY <1>8, <1>9, Scales
  <1>11. k \notin DOMAIN order_line
    <2>1. loc[t].n + 1 \in loc[t].n + 1 .. Len(txn[t].lines)  BY <1>5
    <2> QED  BY <1>1, <2>1 DEF WritingAt
  <1>r. PICK rec : rec = [supply |-> l.supply, quantity |-> l.quantity, amount |-> l.quantity, delivered |-> FALSE]
    OBVIOUS
  <1>12. order_line' = Inserted(order_line, k, rec) /\ district' = district
    BY <1>r DEF NewOrderLine, Line
  <1>13. /\ DOMAIN order_line' = DOMAIN order_line \cup {k} /\ order_line'[k] = rec
         /\ \A j \in DOMAIN order_line : order_line'[j] = order_line[j]
         /\ order_line' = [j \in DOMAIN order_line' |-> order_line'[j]]
    BY <1>11, <1>12 DEF Inserted
  <1>14. rec \in LineRecords  BY <1>6, <1>7, <1>r DEF LineRecords
  <1>15. \A j \in DOMAIN order_line : order_line[j] \in LineRecords  BY DEF LinesOK
  <1>16. \A j \in DOMAIN order_line' : order_line'[j] \in LineRecords
    BY <1>13, <1>14, <1>15
  <1>17. order_line' \in [DOMAIN order_line' -> LineRecords]  BY <1>13, <1>16
  <1> QED  BY <1>2, <1>3, <1>5, <1>6, <1>7, <1>8, <1>10, <1>11, <1>12, <1>13, <1>17, <1>r

\* Every other step leaves the lines there are, but for their delivery dates.
LEMMA LinesStay ==
  ASSUME LinesOK, NEW t, Work(t), ~NewOrderLine(t)
  PROVE  /\ DOMAIN order_line' = DOMAIN order_line
         /\ order_line' \in [DOMAIN order_line -> LineRecords]
         /\ \A k \in DOMAIN order_line : /\ order_line'[k].supply = order_line[k].supply
                                        /\ order_line'[k].quantity = order_line[k].quantity
                                        /\ order_line'[k].amount = order_line[k].amount
  <1>0. order_line \in [DOMAIN order_line -> LineRecords]  BY DEF LinesOK
  <1>1. CASE order_line' = order_line  BY <1>0, <1>1
  <1>2. CASE DeliveryLine(t)
    <2> PICK z, v : z = Head(loc[t].rids) /\ v = [order_line[z] EXCEPT !.delivered = TRUE]  OBVIOUS
    <2>1. order_line' = [order_line EXCEPT ![z] = v]  BY <1>2 DEF DeliveryLine
    <2>2. CASE z \notin DOMAIN order_line
      <3>1. order_line' = order_line  BY <1>0, <2>1, <2>2
      <3> QED  BY <1>0, <3>1
    <2>3. CASE z \in DOMAIN order_line
      <3>1. order_line[z] \in LineRecords  BY <1>0, <2>3
      <3>2. v \in LineRecords /\ v.supply = order_line[z].supply /\ v.quantity = order_line[z].quantity
            /\ v.amount = order_line[z].amount
        BY <3>1 DEF LineRecords
      <3>3. DOMAIN order_line' = DOMAIN order_line /\ order_line' \in [DOMAIN order_line -> LineRecords]
        BY <1>0, <2>1, <3>2
      <3>4. \A k \in DOMAIN order_line : order_line'[k] = IF k = z THEN v ELSE order_line[k]
        BY <1>0, <2>1
      <3> QED  BY <3>2, <3>3, <3>4
    <2> QED  BY <2>2, <2>3
  <1> QED  BY <1>1, <1>2, MoreWrites

\* A step of one task leaves the order that another is writing alone.
LEMMA WritingOther ==
  ASSUME TxnOK, ItemsOK, LinesOK, NEW t \in Tasks, Work(t), NEW u \in Tasks \ {t}
  PROVE  WritingAt(u)'
  <1> SUFFICES ASSUME pc'[u] = "no_line"  PROVE WritingAt(u)'  BY DEF WritingAt
  <1>1. pc'[u] = pc[u] /\ txn'[u] = txn[u] /\ loc'[u] = loc[u]  BY WorkKept DEF Kept, Others
  <1>w. PICK w, d, o : w = txn[u].w /\ d = txn[u].d /\ o = loc[u].o  OBVIOUS
  <1>2. w \in Home(u) /\ w \in Warehouses /\ d \in Districts
    BY <1>1, <1>w, NewOrderInput, HomeIn DEF TxnOK, TxnAt, NewOrderSteps
  <1>3. WritingAt(u)  BY DEF LinesOK
  <1>4. ASSUME NewOrderPlace(t) \/ NewOrderLine(t)  PROVE txn[t].w # w
    <2>1. txn[t] \in NewOrderInputs(t)
      BY <1>4 DEF NewOrderPlace, NewOrderLine, TxnOK, TxnAt, NewOrderSteps
    <2>2. txn[t].w \in Home(t)  BY <2>1, NewOrderInput
    <2> QED  BY <1>2, <2>2, HomeApart
  <1>5. district'[<<w, d>>].d_next_o_id = district[<<w, d>>].d_next_o_id
    <2>1. district'[<<w, d>>].d_next_o_id =
            district[<<w, d>>].d_next_o_id
              + (IF NewOrderPlace(t) /\ w = txn[t].w /\ d = txn[t].d THEN 1 ELSE 0)
      BY <1>2, DistrictWrites DEF LinesOK
    <2>2. district[<<w, d>>].d_next_o_id \in Nat  BY <1>2 DEF LinesOK
    <2> QED  BY <1>4, <2>1, <2>2
  <1>6. ASSUME NEW i, <<w, d, o, i>> \in DOMAIN order_line'  PROVE <<w, d, o, i>> \in DOMAIN order_line
    <2>1. CASE ~NewOrderLine(t)  BY <1>6, <2>1, LinesStay
    <2>2. CASE NewOrderLine(t)
      <3>1. DOMAIN order_line' = DOMAIN order_line \cup
              {<<txn[t].w, txn[t].d, loc[t].o, txn[t].lines[loc[t].n + 1].item>>}
        BY <2>2, LineWritten
      <3>2. txn[t].w # w  BY <1>4, <2>2
      <3> QED  BY <1>6, <3>1, <3>2
    <2> QED  BY <2>1, <2>2
  <1> QED  BY <1>1, <1>3, <1>5, <1>6, <1>w DEF WritingAt

\* A task that goes on writing an order, or begins to, has not written its
\* present line.
LEMMA WritingSelf ==
  ASSUME TxnOK, ItemsOK, LinesOK, NEW t \in Tasks, Work(t)
  PROVE  WritingAt(t)'
  <1> SUFFICES ASSUME pc'[t] = "no_line"  PROVE WritingAt(t)'  BY DEF WritingAt
  <1>d. DOMAIN pc = Tasks /\ DOMAIN txn = Tasks /\ DOMAIN loc = Tasks /\ TxnAt(t)  BY DEF TxnOK
  <1>x. PICK x, w, d, v : x = txn[t] /\ w = x.w /\ d = x.d /\ v = loc[t]  OBVIOUS
  <1>1. CASE NewOrderPlace(t)
    <2>1. pc[t] = "no_order"  BY <1>1 DEF NewOrderPlace
    <2>2. w \in Warehouses /\ d \in Districts
      BY <1>d, <1>x, <2>1, NewOrderInput, HomeIn DEF TxnAt, NewOrderSteps
    <2>o. PICK o : o = district[<<w, d>>].d_next_o_id  OBVIOUS
    <2>3. txn' = txn /\ order_line' = order_line /\ loc' = [loc EXCEPT ![t] = [v EXCEPT !.o = o]]
      BY <1>1, <1>x, <2>o DEF NewOrderPlace, Set
    <2>4. loc'[t].o = o
      <3>1. DOMAIN v = DOMAIN Fresh  BY <1>d, <1>x DEF TxnAt
      <3>2. "o" \in DOMAIN Fresh  BY DEF Fresh
      <3>3. [v EXCEPT !.o = o].o = o  BY <3>1, <3>2
      <3> QED  BY <1>d, <2>3, <3>3
    <2>5. o \in Nat /\ district'[<<w, d>>].d_next_o_id = o + 1
      BY <1>1, <1>x, <2>2, <2>o, DistrictWrites DEF LinesOK
    <2>6. \A i : <<w, d, o, i>> \notin DOMAIN order_line
      <3>1. ASSUME NEW i, <<w, d, o, i>> \in DOMAIN order_line  PROVE FALSE
        <4>1. o < district[<<w, d>>].d_next_o_id  BY <3>1 DEF LinesOK
        <4> QED  BY <2>5, <2>o, <4>1
      <3> QED  BY <3>1
    <2>7. loc'[t].o = district'[<<w, d>>].d_next_o_id - 1  BY <2>4, <2>5
    <2> QED  BY <1>x, <2>3, <2>4, <2>6, <2>7 DEF WritingAt
  <1>2. CASE NewOrderLine(t)
    <2>1. ~Return(t)  BY <1>d DEF Return, Goto
    <2>2. txn' = txn /\ loc' = [loc EXCEPT ![t] = [v EXCEPT !.n = @ + 1]]
      BY <1>2, <1>x, <2>1 DEF NewOrderLine, Set, Continue
    <2>3. loc'[t].o = v.o /\ loc'[t].n = v.n + 1
      <3>1. DOMAIN v = DOMAIN Fresh  BY <1>d, <1>x DEF TxnAt
      <3>2. "o" \in DOMAIN Fresh /\ "n" \in DOMAIN Fresh  BY DEF Fresh
      <3>3. [v EXCEPT !.n = @ + 1].o = v.o /\ [v EXCEPT !.n = @ + 1].n = v.n + 1  BY <3>1, <3>2
      <3> QED  BY <1>d, <2>2, <3>3
    <2>l. PICK l, k : l = x.lines[v.n + 1] /\ k = <<w, d, v.o, l.item>>  OBVIOUS
    <2>4. /\ v.n \in Nat /\ v.n + 1 \in 1 .. Len(x.lines) /\ x \in NewOrderInputs(t) /\ Len(x.lines) \in Nat
          /\ v.o = district[<<w, d>>].d_next_o_id - 1 /\ l.item \in Items
          /\ DOMAIN order_line' = DOMAIN order_line \cup {k} /\ district' = district
      BY <1>2, <1>x, <2>l, LineWritten
    <2>5. ASSUME NEW i \in v.n + 1 + 1 .. Len(x.lines)  PROVE <<w, d, v.o, x.lines[i].item>> \notin DOMAIN order_line'
      <3>1. i \in v.n + 1 .. Len(x.lines) /\ i \in 1 .. Len(x.lines) /\ i # v.n + 1  BY <2>4
      <3>2. x.lines[i].item \in Items
        BY <1>2, <1>x, <3>1 DEF NewOrderLine, ItemsOK, ItemsAt
      <3>3. x.lines[i].item # l.item  BY <2>4, <2>l, <3>1, <3>2, LinesApart
      <3>4. <<w, d, v.o, x.lines[i].item>> \notin DOMAIN order_line
        BY <1>2, <1>x, <3>1 DEF NewOrderLine, LinesOK, WritingAt
      <3> QED  BY <2>4, <2>l, <3>3, <3>4
    <2> QED  BY <1>x, <2>2, <2>3, <2>4, <2>5 DEF WritingAt
  <1> QED  BY <1>1, <1>2, Arrivals

\* Every step of a transaction keeps LinesOK.
LEMMA WorkLines ==
  ASSUME TxnOK, ItemsOK, LinesOK, NEW t \in Tasks, Work(t)
  PROVE  LinesOK'
  <1>0. district \in [Warehouses \X Districts -> [d_ytd : Int, d_next_o_id : Nat]]  BY DEF LinesOK
  <1>1. district' \in [Warehouses \X Districts -> [d_ytd : Int, d_next_o_id : Nat]]
    BY <1>0, DistrictWrites
  <1>2. ASSUME NEW w \in Warehouses, NEW d \in Districts
        PROVE  /\ district[<<w, d>>].d_next_o_id \in Nat /\ district'[<<w, d>>].d_next_o_id \in Nat
               /\ district[<<w, d>>].d_next_o_id <= district'[<<w, d>>].d_next_o_id
    <2>1. district[<<w, d>>].d_next_o_id \in Nat /\ district'[<<w, d>>].d_next_o_id \in Nat  BY <1>0, <1>1
    <2>2. district'[<<w, d>>].d_next_o_id =
            district[<<w, d>>].d_next_o_id
              + (IF NewOrderPlace(t) /\ w = txn[t].w /\ d = txn[t].d THEN 1 ELSE 0)
      BY <1>0, DistrictWrites
    <2> QED  BY <2>1, <2>2
  <1>3. \A w \in Warehouses, d \in Districts : district'[<<w, d>>].d_next_o_id > NCustomers
    <2> SUFFICES ASSUME NEW w \in Warehouses, NEW d \in Districts
                 PROVE  district'[<<w, d>>].d_next_o_id > NCustomers  OBVIOUS
    <2>1. district[<<w, d>>].d_next_o_id > NCustomers  BY DEF LinesOK
    <2> QED  BY <1>2, <2>1, Scales
  <1>4. \A u \in Tasks : WritingAt(u)'  BY WritingSelf, WritingOther
  <1>5. ASSUME NEW k \in DOMAIN order_line
        PROVE  /\ k = <<k[1], k[2], k[3], k[4]>>
               /\ k[1] \in Warehouses /\ k[2] \in Districts /\ k[3] \in Nat /\ k[4] \in Nat
               /\ k[3] < district'[<<k[1], k[2]>>].d_next_o_id
    <2>1. /\ k = <<k[1], k[2], k[3], k[4]>>
          /\ k[1] \in Warehouses /\ k[2] \in Districts /\ k[3] \in Nat /\ k[4] \in Nat
          /\ k[3] < district[<<k[1], k[2]>>].d_next_o_id
      BY DEF LinesOK
    <2>2. /\ district[<<k[1], k[2]>>].d_next_o_id \in Nat /\ district'[<<k[1], k[2]>>].d_next_o_id \in Nat
          /\ district[<<k[1], k[2]>>].d_next_o_id <= district'[<<k[1], k[2]>>].d_next_o_id
      BY <1>2, <2>1
    <2> QED  BY <2>1, <2>2
  <1>6. CASE ~NewOrderLine(t)
    <2>1. DOMAIN order_line' = DOMAIN order_line /\ order_line' \in [DOMAIN order_line -> LineRecords]
      BY <1>6, LinesStay
    <2>2. IsFiniteSet(DOMAIN order_line')  BY <2>1 DEF LinesOK
    <2> QED  BY <1>1, <1>3, <1>4, <1>5, <2>1, <2>2 DEF LinesOK
  <1>7. CASE NewOrderLine(t)
    <2>k. PICK x, l, k : x = txn[t] /\ l = x.lines[loc[t].n + 1] /\ k = <<x.w, x.d, loc[t].o, l.item>>
      OBVIOUS
    <2>1. /\ x.w \in Warehouses /\ x.d \in Districts /\ loc[t].o \in Nat /\ l.item \in Nat
          /\ loc[t].o = district[<<x.w, x.d>>].d_next_o_id - 1
          /\ DOMAIN order_line' = DOMAIN order_line \cup {k} /\ district' = district
          /\ order_line' \in [DOMAIN order_line' -> LineRecords]
      BY <1>7, <2>k, LineWritten
    <2>2. IsFiniteSet(DOMAIN order_line')  BY <2>1, FS_AddElement DEF LinesOK
    <2>3. /\ k = <<k[1], k[2], k[3], k[4]>>
          /\ k[1] \in Warehouses /\ k[2] \in Districts /\ k[3] \in Nat /\ k[4] \in Nat
          /\ k[3] < district'[<<k[1], k[2]>>].d_next_o_id
      <3>1. district[<<x.w, x.d>>].d_next_o_id \in Nat  BY <1>0, <2>1
      <3>2. loc[t].o < district'[<<x.w, x.d>>].d_next_o_id  BY <2>1, <3>1
      <3> QED  BY <2>1, <2>k, <3>2
    <2>4. \A j \in DOMAIN order_line' :
            /\ j = <<j[1], j[2], j[3], j[4]>>
            /\ j[1] \in Warehouses /\ j[2] \in Districts /\ j[3] \in Nat /\ j[4] \in Nat
            /\ j[3] < district'[<<j[1], j[2]>>].d_next_o_id
      BY <1>5, <2>1, <2>3
    <2> QED  BY <1>1, <1>3, <1>4, <2>1, <2>2, <2>4 DEF LinesOK
  <1> QED  BY <1>6, <1>7

\* The lines that load_order leaves.
LEMMA LoadedLinesOK ==
  /\ IsFiniteSet(DOMAIN LoadedLines)
  /\ LoadedLines \in [DOMAIN LoadedLines -> LineRecords]
  /\ \A k \in DOMAIN LoadedLines :
       /\ k = <<k[1], k[2], k[3], k[4]>> /\ k[4] = 0
       /\ k[1] \in Warehouses /\ k[2] \in Districts /\ k[3] \in Customers
  <1>1. DOMAIN LoadedLines = Warehouses \X Districts \X Customers \X {0}  BY DEF LoadedLines
  <1>2. IsFiniteSet(Warehouses \X Districts \X Customers \X {0})
    <2>1. IsFiniteSet(Warehouses) /\ IsFiniteSet(Districts) /\ IsFiniteSet(Customers)
      BY FS_Interval, Scales DEF Warehouses, Districts, Customers
    <2>p. PICK P, Q, T : P = Warehouses \X Districts /\ Q = P \X Customers /\ T = Q \X {0}  OBVIOUS
    <2>2. IsFiniteSet(P)  BY <2>1, <2>p, FS_Product
    <2>3. IsFiniteSet(Q)  BY <2>1, <2>2, <2>p, FS_Product
    <2>4. IsFiniteSet({0})  BY FS_Singleton
    <2>5. IsFiniteSet(T)  BY <2>3, <2>4, <2>p, FS_Product
    <2>6. \A x \in T : x = <<x[1], x[2]>> /\ x[1] = <<x[1][1], x[1][2]>> /\ x[1][1] = <<x[1][1][1], x[1][1][2]>>
            /\ x[1][1][1] \in Warehouses /\ x[1][1][2] \in Districts /\ x[1][2] \in Customers /\ x[2] = 0
      BY <2>p
    <2> DEFINE f == [x \in T |-> <<x[1][1][1], x[1][1][2], x[1][2], x[2]>>]
    <2>7. f \in Surjection(T, Warehouses \X Districts \X Customers \X {0})
      <3>1. f \in [T -> Warehouses \X Districts \X Customers \X {0}]  BY <2>6
      <3>2. ASSUME NEW y \in Warehouses \X Districts \X Customers \X {0}  PROVE \E x \in T : f[x] = y
        <4>1. PICK w \in Warehouses, d \in Districts, c \in Customers : y = <<w, d, c, 0>>  OBVIOUS
        <4>2. <<w, d>> \in P  BY <2>p
        <4>3. <<<<w, d>>, c>> \in Q  BY <2>p, <4>2
        <4>4. <<<<<<w, d>>, c>>, 0>> \in T  BY <2>p, <4>3
        <4>5. f[<<<<<<w, d>>, c>>, 0>>] = y  BY <4>1, <4>4
        <4> QED  BY <4>4, <4>5
      <3> HIDE DEF f
      <3> QED  BY <3>1, <3>2 DEF Surjection
    <2> HIDE DEF f
    <2> QED  BY <2>5, <2>7, FS_Surjection
  <1>3. ASSUME NEW k \in Warehouses \X Districts \X Customers \X {0}
        PROVE  LoadedLines[k] \in LineRecords
    <2>1. k[1] \in Warehouses  OBVIOUS
    <2>2. LoadedLines[k] = LoadedLine(k[1], k[3])  BY DEF LoadedLines
    <2>3. (IF k[3] < LoadedDone THEN 0 ELSE 1) \in Nat /\ (k[3] < LoadedDone) \in BOOLEAN  OBVIOUS
    <2> QED  BY <2>1, <2>2, <2>3 DEF LoadedLine, LineRecords
  <1>4. LoadedLines = [k \in DOMAIN LoadedLines |-> LoadedLines[k]]  BY DEF LoadedLines
  <1>5. LoadedLines \in [DOMAIN LoadedLines -> LineRecords]  BY <1>1, <1>3, <1>4
  <1>6. \A k \in Warehouses \X Districts \X Customers \X {0} :
          /\ k = <<k[1], k[2], k[3], k[4]>> /\ k[4] = 0
          /\ k[1] \in Warehouses /\ k[2] \in Districts /\ k[3] \in Customers
    OBVIOUS
  <1> QED  BY <1>1, <1>2, <1>5, <1>6

\* LinesOK holds at the start ...
LEMMA InitLines == Init => LinesOK
  <1> SUFFICES ASSUME Init  PROVE LinesOK  OBVIOUS
  <1>1. district = [wd \in Warehouses \X Districts |-> [d_ytd |-> 1, d_next_o_id |-> NCustomers + 1]]
        /\ order_line = LoadedLines /\ \A t \in Tasks : pc[t] = "idle"
    BY DEF Init
  <1>2. district \in [Warehouses \X Districts -> [d_ytd : Int, d_next_o_id : Nat]]
        /\ \A w \in Warehouses, d \in Districts : district[<<w, d>>].d_next_o_id = NCustomers + 1
    BY <1>1, Scales
  <1>3. \A k \in DOMAIN order_line :
          /\ k = <<k[1], k[2], k[3], k[4]>>
          /\ k[1] \in Warehouses /\ k[2] \in Districts /\ k[3] \in Nat /\ k[4] \in Nat
          /\ k[3] < district[<<k[1], k[2]>>].d_next_o_id
    <2> SUFFICES ASSUME NEW k \in DOMAIN order_line
                 PROVE  /\ k = <<k[1], k[2], k[3], k[4]>>
                        /\ k[1] \in Warehouses /\ k[2] \in Districts /\ k[3] \in Nat /\ k[4] \in Nat
                        /\ k[3] < district[<<k[1], k[2]>>].d_next_o_id
      OBVIOUS
    <2>1. k = <<k[1], k[2], k[3], k[4]>> /\ k[4] = 0
          /\ k[1] \in Warehouses /\ k[2] \in Districts /\ k[3] \in Customers
      BY <1>1, LoadedLinesOK
    <2>2. district[<<k[1], k[2]>>].d_next_o_id = NCustomers + 1  BY <1>2, <2>1
    <2>3. k[3] \in Nat /\ k[3] < NCustomers + 1  BY <2>1, Scales DEF Customers
    <2> QED  BY <2>1, <2>2, <2>3
  <1>4. \A t \in Tasks : WritingAt(t)  BY <1>1 DEF WritingAt
  <1>5. \A w \in Warehouses, d \in Districts : district[<<w, d>>].d_next_o_id > NCustomers
    <2>1. NCustomers + 1 > NCustomers  BY Scales
    <2> QED  BY <1>2, <2>1
  <1> QED  BY <1>1, <1>2, <1>3, <1>4, <1>5, LoadedLinesOK DEF LinesOK

\* ... and is preserved by every step.
LEMMA NextLines == TxnOK /\ ItemsOK /\ LinesOK /\ [Next]_vars => LinesOK'
  <1> SUFFICES ASSUME TxnOK, ItemsOK, LinesOK, [Next]_vars  PROVE LinesOK'  OBVIOUS
  <1>1. ASSUME NEW t \in Tasks, Step(t)  PROVE LinesOK'  BY <1>1, WorkLines DEF Step
  <1>2. ASSUME NEW t \in Tasks, Begin(t)  PROVE LinesOK'
    <2>1. district' = district /\ order_line' = order_line  BY <1>2 DEF Begin, tables
    <2>2. PICK x \in Inputs(t) : pc' = [pc EXCEPT ![t] = FirstStep[x.type]]
      BY <1>2 DEF Begin, Goto
    <2>3. FirstStep[x.type] # "no_line"
      BY NewOrderInput, OtherInput, FirstSteps DEF Inputs
    <2>4. WritingAt(t)'  BY <2>2, <2>3 DEF WritingAt, TxnOK
    <2>5. ASSUME NEW u \in Tasks \ {t}  PROVE WritingAt(u)'
      <3>1. pc'[u] = pc[u] /\ txn'[u] = txn[u] /\ loc'[u] = loc[u]
        BY <1>2, BeginKept DEF Kept, Others
      <3>2. WritingAt(u)  BY DEF LinesOK
      <3> QED  BY <2>1, <3>1, <3>2 DEF WritingAt
    <2> QED  BY <2>1, <2>4, <2>5 DEF LinesOK
  <1>3. ASSUME reset_order  PROVE LinesOK'
    <2>1. order_line' = LoadedLines /\ district' = district /\ \A t \in Tasks : pc'[t] = "idle"
      BY <1>3 DEF reset_order
    <2>2. ASSUME NEW k \in DOMAIN order_line'
          PROVE  /\ k = <<k[1], k[2], k[3], k[4]>>
                 /\ k[1] \in Warehouses /\ k[2] \in Districts /\ k[3] \in Nat /\ k[4] \in Nat
                 /\ k[3] < district[<<k[1], k[2]>>].d_next_o_id
      <3>1. k = <<k[1], k[2], k[3], k[4]>> /\ k[4] = 0
            /\ k[1] \in Warehouses /\ k[2] \in Districts /\ k[3] \in Customers
        BY <2>1, <2>2, LoadedLinesOK
      <3>2. district[<<k[1], k[2]>>].d_next_o_id > NCustomers /\ district[<<k[1], k[2]>>].d_next_o_id \in Nat
        BY <3>1 DEF LinesOK
      <3>3. k[3] \in Nat /\ k[3] < NCustomers  BY <3>1, Scales DEF Customers
      <3> QED  BY <3>1, <3>2, <3>3, Scales
    <2>3. \A t \in Tasks : WritingAt(t)'  BY <2>1 DEF WritingAt
    <2>4. IsFiniteSet(DOMAIN order_line') /\ order_line' \in [DOMAIN order_line' -> LineRecords]
      BY <2>1, LoadedLinesOK
    <2> QED  BY <2>1, <2>2, <2>3, <2>4 DEF LinesOK
  <1>4. ASSUME UNCHANGED vars  PROVE LinesOK'
    <2>1. district' = district /\ order_line' = order_line /\ pc' = pc /\ txn' = txn /\ loc' = loc
      BY <1>4 DEF vars, tables
    <2> QED  BY <2>1 DEF LinesOK, WritingAt
  <1> QED  BY <1>1, <1>2, <1>3, <1>4 DEF Next

-----------------------------------------------------------------------------
(* The stocks: StockAccounts.                                                 *)

\* The lines a stock supplied are finitely many, of whole quantities.
LEMMA SuppliedFinite ==
  ASSUME LinesOK, NEW w, NEW i
  PROVE  /\ IsFiniteSet(Supplied(w, i)) /\ Ints(Ordered, Supplied(w, i))
         /\ \A k \in Supplied(w, i) : Ordered[k] \in Nat
  <1>1. Supplied(w, i) \subseteq DOMAIN order_line  BY DEF Supplied
  <1>2. IsFiniteSet(Supplied(w, i))  BY <1>1, FS_Subset DEF LinesOK
  <1>3. \A k \in DOMAIN order_line : Ordered[k] \in Nat  BY DEF LinesOK, Ordered, LineRecords
  <1>4. \A k \in Supplied(w, i) : Ordered[k] \in Nat  BY <1>1, <1>3
  <1> QED  BY <1>2, <1>4 DEF Ints

\* A stock tallies still after a step that touches neither it nor what was
\* ordered from it.
LEMMA TallyKept ==
  ASSUME LinesOK, NEW w, NEW i, Tally(w, i), stock' = stock, base' = base,
         DOMAIN order_line' = DOMAIN order_line,
         \A k \in DOMAIN order_line : /\ order_line'[k].supply = order_line[k].supply
                                     /\ order_line'[k].quantity = order_line[k].quantity
  PROVE  Tally(w, i)'
  <1>s. PICK s, s2, f, g : /\ s = Supplied(w, i) /\ s2 = Supplied(w, i)'
                           /\ f = Ordered /\ g = Ordered'
    OBVIOUS
  <1>1. s2 = s  BY <1>s DEF Supplied
  <1>2. IsFiniteSet(s) /\ Ints(f, s)  BY <1>s, SuppliedFinite
  <1>3. \A k \in s : g[k] = f[k]  BY <1>s DEF Supplied, Ordered
  <1>4. SumFunctionOnSet(g, s) = SumFunctionOnSet(f, s)  BY <1>2, <1>3, SumSame
  <1> QED  BY <1>1, <1>4, <1>s DEF Tally

\* An order line is one more for the stock that supplies it, and for no other.
LEMMA LineTallies ==
  ASSUME TalliesInv, NEW t \in Tasks, NewOrderLine(t), base' = base,
         NEW w \in Warehouses, NEW i \in Items
  PROVE  Tally(w, i)'
  <1>0. TxnOK /\ ItemsOK /\ LinesOK /\ StockOK /\ Tally(w, i)
    BY DEF TalliesInv, StockInv, TalliesOK
  <1>l. PICK x, l, k : x = txn[t] /\ l = x.lines[loc[t].n + 1] /\ k = <<x.w, x.d, loc[t].o, l.item>>
    OBVIOUS
  <1>1. /\ x.w \in Warehouses /\ loc[t].o \in Nat /\ loc[t].o >= NCustomers
        /\ l.supply \in Warehouses /\ l.item \in Items /\ l.quantity \in Nat
        /\ k \notin DOMAIN order_line /\ DOMAIN order_line' = DOMAIN order_line \cup {k}
        /\ order_line'[k] = [supply |-> l.supply, quantity |-> l.quantity, amount |-> l.quantity,
                             delivered |-> FALSE]
        /\ \A j \in DOMAIN order_line : order_line'[j] = order_line[j]
    <2>1. l = txn[t].lines[loc[t].n + 1] /\ k = <<txn[t].w, txn[t].d, loc[t].o, l.item>> /\ x.w = txn[t].w
      BY <1>l
    <2>2. /\ txn[t].w \in Warehouses /\ loc[t].o \in Nat /\ loc[t].o >= NCustomers
          /\ l.supply \in Warehouses /\ l.item \in Items /\ l.quantity \in Nat
          /\ k \notin DOMAIN order_line /\ DOMAIN order_line' = DOMAIN order_line \cup {k}
          /\ order_line'[k] = [supply |-> l.supply, quantity |-> l.quantity, amount |-> l.quantity,
                               delivered |-> FALSE]
          /\ \A j \in DOMAIN order_line : order_line'[j] = order_line[j]
      BY ONLY t \in Tasks, NewOrderLine(t), <1>0, <2>1, LineWritten, ZenonT(40)
    <2> QED  BY <2>1, <2>2, Zenon
  <1>2. k[1] = x.w /\ k[3] = loc[t].o /\ k[4] = l.item  BY <1>l
  <1>s. PICK s, s2, f, g : /\ s = Supplied(w, i) /\ s2 = Supplied(w, i)'
                           /\ f = Ordered /\ g = Ordered'
    OBVIOUS
  <1>3. IsFiniteSet(s) /\ Ints(f, s)  BY <1>0, <1>s, SuppliedFinite
  <1>4. k \notin s /\ \A j \in s : g[j] = f[j]  BY <1>1, <1>s DEF Supplied, Ordered
  <1>5. Ints(g, s)  BY <1>3, <1>4 DEF Ints
  <1>6. SumFunctionOnSet(g, s) = SumFunctionOnSet(f, s)  BY <1>3, <1>4, SumSame
  <1>7. SumFunctionOnSet(f, s) \in Int  BY <1>3, SumIsInt
  <1>r. PICK r, b : r = stock[<<w, i>>] /\ b = base.stock[<<w, i>>]  OBVIOUS
  <1>8. /\ r.s_order_cnt = b.s_order_cnt + Cardinality(s)
        /\ r.s_ytd = b.s_ytd + SumFunctionOnSet(f, s)
        /\ r.s_remote_cnt = b.s_remote_cnt + Cardinality({j \in s : j[1] # w})
    BY <1>0, <1>r, <1>s DEF Tally
  <1>9. b.s_order_cnt \in Nat /\ b.s_ytd \in Nat /\ b.s_remote_cnt \in Nat
    BY <1>r DEF TalliesInv, TalliesOK
  <1>10. stock \in [Warehouses \X Items ->
           [s_quantity : MinStock .. MinStock + Refill - 1, s_ytd : Nat, s_order_cnt : Nat,
            s_remote_cnt : Nat]]
    BY <1>0 DEF StockOK
  <1>v. PICK q, v : /\ q = stock[<<l.supply, l.item>>]
                    /\ v = [s_quantity |-> s_quantity(q.s_quantity, l.quantity),
                            s_ytd |-> q.s_ytd + l.quantity, s_order_cnt |-> q.s_order_cnt + 1,
                            s_remote_cnt |-> q.s_remote_cnt + Remote(l, x.w)]
    OBVIOUS
  <1>11. stock' = [stock EXCEPT ![<<l.supply, l.item>>] = v]
    BY <1>l, <1>v, <1>10 DEF NewOrderLine, Line
  <1>12. CASE w = l.supply /\ i = l.item
    <2>1. s2 = s \cup {k}
      BY <1>1, <1>2, <1>s, <1>12 DEF Supplied
    <2>2. stock'[<<w, i>>] = v /\ q = r  BY <1>10, <1>11, <1>12, <1>r, <1>v
    <2>3. Cardinality(s2) = Cardinality(s) + 1  BY <1>3, <1>4, <2>1, FS_AddElement
    <2>4. Cardinality(s) \in Nat  BY <1>3, FS_CardinalityType
    <2>5. g[k] = l.quantity  BY <1>1, <1>s DEF Ordered
    <2>6. SumFunctionOnSet(g, s2) = l.quantity + SumFunctionOnSet(f, s)
      <3>1. Ints(g, s \cup {k})  BY <1>1, <1>5, <2>5 DEF Ints
      <3>2. SumFunctionOnSet(g, s \cup {k}) = g[k] + SumFunctionOnSet(g, s)
        BY ONLY <1>3, <1>4, <3>1, SumAdd
      <3> QED  BY <1>6, <2>1, <2>5, <3>2
    <2>m. PICK m, m2 : m = {j \in s : j[1] # w} /\ m2 = {j \in s2 : j[1] # w}  OBVIOUS
    <2>7. IsFiniteSet(m) /\ Cardinality(m) \in Nat /\ k \notin m
      BY <1>3, <1>4, <2>m, FS_Subset, FS_CardinalityType
    <2>8. Cardinality(m2) = Cardinality(m) + Remote(l, x.w)
      <3>1. CASE x.w # w
        <4>1. m2 = m \cup {k}  BY <1>2, <2>1, <2>m, <3>1
        <4>2. Remote(l, x.w) = 1  BY <1>12, <3>1 DEF Remote
        <4> QED  BY <2>7, <4>1, <4>2, FS_AddElement
      <3>2. CASE x.w = w
        <4>1. m2 = m  BY <1>2, <2>1, <2>m, <3>2
        <4>2. Remote(l, x.w) = 0  BY <1>12, <3>2 DEF Remote
        <4> QED  BY <2>7, <4>1, <4>2
      <3> QED  BY <3>1, <3>2
    <2>9. Remote(l, x.w) \in Nat  BY DEF Remote
    <2>10. /\ v.s_order_cnt = b.s_order_cnt + Cardinality(s2)
           /\ v.s_ytd = b.s_ytd + SumFunctionOnSet(g, s2)
           /\ v.s_remote_cnt = b.s_remote_cnt + Cardinality(m2)
      <3>v. /\ v.s_order_cnt = r.s_order_cnt + 1 /\ v.s_ytd = r.s_ytd + l.quantity
            /\ v.s_remote_cnt = r.s_remote_cnt + Remote(l, x.w)
        BY <1>v, <2>2
      <3>1. v.s_order_cnt = b.s_order_cnt + Cardinality(s2)  BY <1>8, <1>9, <2>3, <2>4, <3>v
      <3>2. v.s_ytd = b.s_ytd + SumFunctionOnSet(g, s2)  BY <1>1, <1>7, <1>8, <1>9, <2>6, <3>v
      <3>3. v.s_remote_cnt = b.s_remote_cnt + Cardinality(m2)  BY <1>8, <1>9, <2>7, <2>8, <2>9, <2>m, <3>v
      <3> QED  BY <3>1, <3>2, <3>3
    <2> QED  BY <1>r, <1>s, <2>2, <2>10, <2>m DEF Tally
  <1>13. CASE ~(w = l.supply /\ i = l.item)
    <2>1. s2 = s  BY <1>1, <1>2, <1>s, <1>13 DEF Supplied
    <2>2. stock'[<<w, i>>] = r
      <3>1. <<w, i>> # <<l.supply, l.item>> /\ <<w, i>> \in Warehouses \X Items  BY <1>13
      <3> QED  BY <1>10, <1>11, <1>r, <3>1
    <2> QED  BY <1>6, <1>8, <1>r, <1>s, <2>1, <2>2 DEF Tally
  <1> QED  BY <1>12, <1>13

\* What load and reset_order leave: the loaded orders, and nobody at work.
Loaded ==
  /\ \E shuffle \in Shuffles : /\ order = OrderTable(LoadedOrders(shuffle))
                               /\ new_order = NewOrderIndex(LoadedOrders(shuffle))
  /\ order_line = LoadedLines
  /\ base = [district |-> district, customer |-> customer, stock |-> stock]
  /\ \A t \in Tasks : pc[t] = "idle"

\* load is one way to get there, ...
LEMMA InitLoaded == Init => Loaded
  BY DEF Init, Loaded

\* ... reset_order the other.
LEMMA ResetLoaded == reset_order => Loaded'
  BY DEF reset_order, Loaded

\* After either no line counts, as the loaded ones are of older orders.
LEMMA LoadedTallies == Loaded /\ StockOK => TalliesOK
  <1> SUFFICES ASSUME Loaded, StockOK  PROVE TalliesOK  OBVIOUS
  <1>1. order_line = LoadedLines /\ base.stock = stock  BY DEF Loaded
  <1>2. MinStock .. MinStock + Refill - 1 \subseteq Nat  BY Scales
  <1>3. stock \in [Warehouses \X Items ->
          [s_quantity : Nat, s_ytd : Nat, s_order_cnt : Nat, s_remote_cnt : Nat]]
    BY <1>2 DEF StockOK
  <1>4. ASSUME NEW w \in Warehouses, NEW i \in Items  PROVE Tally(w, i)
    <2>1. stock[<<w, i>>].s_order_cnt \in Nat /\ stock[<<w, i>>].s_ytd \in Nat
          /\ stock[<<w, i>>].s_remote_cnt \in Nat
      BY <1>3
    <2>2. Supplied(w, i) = {}
      <3> SUFFICES ASSUME NEW k \in DOMAIN LoadedLines, k[3] >= NCustomers  PROVE FALSE
        BY <1>1 DEF Supplied
      <3> QED  BY LoadedLinesOK, Scales DEF Customers
    <2>3. {k \in Supplied(w, i) : k[1] # w} = {}  BY <2>2
    <2>4. Cardinality({}) = 0 /\ SumFunctionOnSet(Ordered, {}) = 0  BY FS_EmptySet, SumEmpty
    <2>5. /\ Cardinality(Supplied(w, i)) = 0 /\ Cardinality({k \in Supplied(w, i) : k[1] # w}) = 0
          /\ SumFunctionOnSet(Ordered, Supplied(w, i)) = 0
      BY <2>2, <2>3, <2>4
    <2> QED  BY <1>1, <2>1, <2>5 DEF Tally
  <1> QED  BY <1>1, <1>3, <1>4 DEF TalliesOK

\* The same of the next state.
LEMMA ResetTallies == Loaded' /\ StockOK' => TalliesOK'
  BY LoadedTallies, PTL

\* Every stock tallies after every step.
LEMMA NextTallies == TalliesInv /\ [Next]_vars => TalliesOK'
  <1> SUFFICES ASSUME TalliesInv, [Next]_vars  PROVE TalliesOK'  OBVIOUS
  <1>0. LinesOK /\ StockOK /\ TalliesOK  BY DEF TalliesInv, StockInv
  <1>1. ASSUME NEW t \in Tasks, NewOrderLine(t), base' = base  PROVE TalliesOK'
    BY <1>0, <1>1, LineTallies DEF TalliesOK
  <1>2. ASSUME stock' = stock, base' = base, DOMAIN order_line' = DOMAIN order_line,
               \A k \in DOMAIN order_line : /\ order_line'[k].supply = order_line[k].supply
                                           /\ order_line'[k].quantity = order_line[k].quantity
        PROVE  TalliesOK'
    <2>1. \A w \in Warehouses, i \in Items : Tally(w, i)'  BY <1>0, <1>2, TallyKept DEF TalliesOK
    <2> QED  BY <1>0, <1>2, <2>1 DEF TalliesOK
  <1>3. ASSUME NEW t \in Tasks, Step(t), ~NewOrderLine(t)  PROVE TalliesOK'
    <2>1. Work(t) /\ base' = base  BY <1>3 DEF Step
    <2>2. stock' = stock  BY <1>3, <2>1, Writes
    <2> QED  BY <1>0, <1>2, <1>3, <2>1, <2>2, LinesStay
  <1>4. ASSUME NEW t \in Tasks, Begin(t)  PROVE TalliesOK'
    <2>1. stock' = stock /\ base' = base /\ order_line' = order_line  BY <1>4 DEF Begin, tables
    <2> QED  BY <1>2, <2>1
  <1>5. ASSUME UNCHANGED vars  PROVE TalliesOK'
    <2>1. stock' = stock /\ base' = base /\ order_line' = order_line  BY <1>5 DEF vars, tables
    <2> QED  BY <1>2, <2>1
  <1>6. ASSUME reset_order  PROVE TalliesOK'
    <2>1. StockOK'  BY NextStock DEF TalliesInv
    <2> QED  BY <1>6, <2>1, ResetLoaded, ResetTallies
  <1> QED  BY <1>1, <1>3, <1>4, <1>5, <1>6 DEF Next, Step

\* The totals of a stock that nobody is changing have grown by exactly the order
\* lines it supplied since load or reset_order, whichever warehouse ordered them
\* and however many attempts failed: StockAccounts.
THEOREM StocksTally == Spec => []StockAccounts
  <1>1. Init => TalliesInv
    <2>1. Init => StockOK  BY Scales, ScaleAssumption DEF Init, StockOK, LoadedStockRec
    <2> QED  BY <2>1, InitTxn, InitLines, InitLoaded, LoadedTallies DEF TalliesInv, StockInv
  <1>2. TalliesInv /\ [Next]_vars => TalliesInv'
    BY NextTxn, NextStock, NextLines, NextTallies DEF TalliesInv, StockInv
  <1>3. TalliesInv => StockAccounts  BY DEF TalliesInv, TalliesOK, StockAccounts
  <1> QED  BY <1>1, <1>2, <1>3, PTL DEF Spec

-----------------------------------------------------------------------------
(* The orders and their ids: OrdersComplete.                                  *)

\* A task that is writing its lines writes a line next.
LEMMA LineNext ==
  ASSUME NEW t, Work(t), pc[t] = "no_line"
  PROVE  NewOrderLine(t)
  BY DEF Work, NewOrderLock, NewOrderStock, NewOrderPlace, PayWarehouse, PayDistrict, PayCustomer,
     PayUpdate, DeliveryScan, DeliveryOrder, DeliveryLine, DeliveryCustomer, DeliveryUpdate,
     OrderStatusCustomer, OrderStatusScan, OrderStatusOrder, OrderStatusLine, StockLevelDistrict,
     StockLevelLock, StockLevelRead, NameNotFound, UserAbort, LockBusy, Exclusive, Shared

\* A step of one task leaves the locks of the others alone.
LEMMA OtherLocks ==
  ASSUME TxnOK, HomeLocksOK, NEW t \in Tasks, Work(t), NEW u \in Tasks \ {t}
  PROVE  wlock'[u] = wlock[u]
  <1>d. DOMAIN wlock = Tasks  BY DEF HomeLocksOK
  <1>1. \/ \E rs : Release(t, rs)
        \/ Lock(t)
        \/ wlock' = wlock
    BY LockKinds DEF Return, Again, PayWarehouse
  <1>2. CASE \E rs : Release(t, rs)  BY <1>d, <1>2 DEF Release
  <1>3. CASE Lock(t)  BY <1>d, <1>3 DEF Lock
  <1> QED  BY <1>1, <1>2, <1>3

\* A task that takes a lock keeps the ones it has.
LEMMA LockAdds ==
  ASSUME HomeLocksOK, NEW t \in Tasks, Lock(t)
  PROVE  /\ wlock[t] \subseteq wlock'[t]
         /\ pc[t] \in Exclusive => Wanted(t) \in wlock'[t]
  <1>d. DOMAIN wlock = Tasks  BY DEF HomeLocksOK
  <1>1. Exclusive \cap Shared = {}  BY DEF Exclusive, Shared
  <1> QED  BY <1>d, <1>1 DEF Lock

\* The order that new_order places.
Placed(t) ==
  [w |-> txn[t].w, d |-> txn[t].d, o_id |-> district[<<txn[t].w, txn[t].d>>].d_next_o_id,
   o_c_id |-> txn[t].c, o_ol_cnt |-> Len(txn[t].lines), delivered |-> FALSE]

\* The id of an order is one that its district has given out.
IdsTaken ==
  \A k \in DOMAIN order :
    order[k].o_id \in Nat /\ order[k].o_id < district[<<order[k].w, order[k].d>>].d_next_o_id

\* Its id is the next of the district, and it is the first under its key.
LEMMA OrderPlaced ==
  ASSUME IdsFit', PanicInv, LinesOK, IdsTaken, NEW t \in Tasks, NewOrderPlace(t),
         NEW rec, rec = Placed(t)
  PROVE  /\ rec.w = txn[t].w /\ rec.d = txn[t].d /\ rec.o_id = district[<<rec.w, rec.d>>].d_next_o_id
         /\ rec.o_c_id = txn[t].c /\ rec.o_ol_cnt = Len(txn[t].lines) /\ rec.delivered = FALSE
         /\ rec.w \in Home(t) /\ rec.w \in Warehouses /\ rec.d \in Districts /\ rec.o_c_id \in Customers
         /\ rec.o_id \in Nat /\ rec.o_id > NCustomers /\ rec.o_ol_cnt \in Nat /\ rec.o_ol_cnt >= 1
         /\ rec \in OrderRecords /\ order_key(rec) \notin DOMAIN order
         /\ DOMAIN order' = DOMAIN order \cup {order_key(rec)} /\ order'[order_key(rec)] = rec
         /\ \A k \in DOMAIN order : order'[k] = order[k]
         /\ new_order' = new_order \cup {new_order_key(rec)}
         /\ order_line' = order_line /\ customer' = customer
         /\ txn'[t] = txn[t] /\ loc[t].n = 0 /\ pc[t] = "no_order" /\ pc'[t] = "no_line"
         /\ loc'[t].o = rec.o_id /\ loc'[t].n = 0
         /\ district'[<<rec.w, rec.d>>].d_next_o_id = rec.o_id + 1
  <1>w. PICK w, d, o, z : /\ w = txn[t].w /\ d = txn[t].d /\ o = district[<<w, d>>].d_next_o_id
                          /\ z = order_key(rec)
    OBVIOUS
  <1>r. /\ rec = [w |-> w, d |-> d, o_id |-> o, o_c_id |-> txn[t].c,
                  o_ol_cnt |-> Len(txn[t].lines), delivered |-> FALSE]
        /\ rec.w = w /\ rec.d = d /\ rec.o_id = o
        /\ rec.o_c_id = txn[t].c /\ rec.o_ol_cnt = Len(txn[t].lines) /\ rec.delivered = FALSE
    BY <1>w DEF Placed
  <1>0. TxnOK /\ OrdersOK  BY DEF PanicInv
  <1>1. pc[t] = "no_order" /\ TxnAt(t)  BY <1>0 DEF NewOrderPlace, TxnOK
  <1>2. txn[t] \in NewOrderInputs(t) /\ loc[t].n = 0 /\ DOMAIN loc[t] = DOMAIN Fresh
    BY <1>1 DEF TxnAt, NewOrderSteps
  <1>3. w \in Home(t) /\ w \in Warehouses /\ d \in Districts /\ txn[t].c \in Customers
        /\ Len(txn[t].lines) \in Nat /\ Len(txn[t].lines) >= 1
    BY <1>2, <1>w, NewOrderInput, HomeIn
  <1>4. o \in Nat /\ o > NCustomers  BY <1>3, <1>w DEF LinesOK
  <1>5. o \in 0 .. Radix - 1
    <2>1. DistrictsOK  BY DEF LinesOK, DistrictsOK
    <2> QED  BY <1>0, <1>w, <2>1, TakenFits
  <1>6. rec \in OrderRecords  BY <1>3, <1>5, <1>r DEF OrderRecords
  <1>7. z \notin DOMAIN order
    <2> SUFFICES ASSUME z \in DOMAIN order  PROVE FALSE  OBVIOUS
    <2> PICK q : q = order[z]  OBVIOUS
    <2>1. q \in OrderRecords /\ order_key(q) = order_key(rec)  BY <1>0, <1>w DEF OrdersOK
    <2>2. q.w = rec.w /\ q.d = rec.d /\ q.o_id = rec.o_id
      <3> PICK k : k = order_key(rec)  OBVIOUS
      <3>1. /\ q.w = ((k \div Radix) \div Radix) \div Radix /\ q.d = ((k \div Radix) \div Radix) % Radix
            /\ q.o_id = k % Radix
        BY <2>1, RecordKeys, KeyFields
      <3>2. /\ rec.w = ((k \div Radix) \div Radix) \div Radix /\ rec.d = ((k \div Radix) \div Radix) % Radix
            /\ rec.o_id = k % Radix
        BY <1>6, RecordKeys, KeyFields
      <3> QED  BY <3>1, <3>2
    <2>4. o < o  BY <1>r, <1>w, <2>2 DEF IdsTaken
    <2> QED  BY <1>4, <2>4
  <1>8. new_order' = new_order \cup {new_order_key(rec)} /\ order' = Inserted(order, z, rec)
        /\ order_line' = order_line /\ customer' = customer /\ txn' = txn
        /\ pc' = [pc EXCEPT ![t] = "no_line"] /\ loc' = [loc EXCEPT ![t] = [loc[t] EXCEPT !.o = o]]
    BY <1>r, <1>w DEF NewOrderPlace, Goto, Set
  <1>9. DOMAIN order' = DOMAIN order \cup {z} /\ order'[z] = rec /\ \A k \in DOMAIN order : order'[k] = order[k]
    BY <1>7, <1>8 DEF Inserted
  <1>10. pc'[t] = "no_line" /\ loc'[t] = [loc[t] EXCEPT !.o = o]  BY <1>0, <1>8 DEF TxnOK
  <1>11. loc'[t].o = o /\ loc'[t].n = 0
    <2>1. "o" \in DOMAIN Fresh /\ "n" \in DOMAIN Fresh  BY DEF Fresh
    <2> QED  BY <1>2, <1>10, <2>1
  <1>12. \A v \in Warehouses, e \in Districts :
           district'[<<v, e>>].d_next_o_id = district[<<v, e>>].d_next_o_id + (IF v = w /\ e = d THEN 1 ELSE 0)
    <2>1. Work(t)  BY DEF Work
    <2>2. district \in [Warehouses \X Districts -> [d_ytd : Int, d_next_o_id : Nat]]  BY DEF LinesOK
    <2>3. ASSUME NEW v \in Warehouses, NEW e \in Districts
          PROVE  district'[<<v, e>>].d_next_o_id =
                   district[<<v, e>>].d_next_o_id + (IF NewOrderPlace(t) /\ v = txn[t].w /\ e = txn[t].d THEN 1 ELSE 0)
      BY <1>0, <2>1, <2>2, DistrictWrites
    <2> QED  BY <1>w, <2>3
  <1>13. district'[<<w, d>>].d_next_o_id = o + 1  BY <1>3, <1>12, <1>w
  <1> QED  BY <1>1, <1>2, <1>3, <1>4, <1>6, <1>7, <1>8, <1>9, <1>10, <1>11, <1>13, <1>r, <1>w

\* PlacedOK says of every order that its id has been given out.
LEMMA PlacedBefore ==
  ASSUME LinesOK, PlacedOK, OrdersOK
  PROVE  IdsTaken
  <1> SUFFICES ASSUME NEW k \in DOMAIN order
               PROVE  /\ order[k].o_id \in Nat
                      /\ order[k].o_id < district[<<order[k].w, order[k].d>>].d_next_o_id
    BY DEF IdsTaken
  <1>r. PICK r : r = order[k]  OBVIOUS
  <1>1. r \in OrderRecords  BY <1>r DEF OrdersOK
  <1>2. r.w \in Warehouses /\ r.d \in Districts /\ r.o_id \in Nat  BY <1>1, Scales DEF OrderRecords
  <1>3. r.o_id \in OrderIds(r.w, r.d)  BY <1>r DEF PlacedOK, OrderWhole
  <1>4. district[<<r.w, r.d>>].d_next_o_id \in Nat /\ district[<<r.w, r.d>>].d_next_o_id > NCustomers
    BY <1>2 DEF LinesOK
  <1>5. base.district[<<r.w, r.d>>].d_next_o_id \in Nat  BY <1>2 DEF PlacedOK
  <1>6. r.o_id < district[<<r.w, r.d>>].d_next_o_id
    <2>1. CASE r.o_id \in Customers  BY <1>2, <1>4, <2>1, Scales DEF Customers
    <2>2. CASE r.o_id \in TakenIds(r.w, r.d)  BY <1>2, <1>4, <1>5, <2>2 DEF TakenIds
    <2> QED  BY <1>3, <2>1, <2>2 DEF OrderIds
  <1> QED  BY <1>2, <1>6, <1>r

\* new_order holds its district until it returns.
LEMMA WorkHeld ==
  ASSUME TxnOK, ItemsOK, HomeLocksOK, LinesOK, PlacedOK, NEW t \in Tasks, Work(t), base' = base,
         NEW u \in Tasks
  PROVE  DistrictHeldAt(u)'
  <1>d. DOMAIN wlock = Tasks /\ DOMAIN loc = Tasks /\ DOMAIN txn = Tasks  BY DEF HomeLocksOK, TxnOK
  <1>1. DistrictHeldAt(u)  BY DEF PlacedOK
  <1>2. CASE u # t
    <2>1. pc'[u] = pc[u] /\ txn'[u] = txn[u] /\ loc'[u] = loc[u]  BY <1>2, WorkKept DEF Kept, Others
    <2>2. wlock'[u] = wlock[u]  BY <1>2, OtherLocks
    <2> QED  BY <1>1, <2>1, <2>2 DEF DistrictHeldAt
  <1>3. CASE u = t
    <2>x. PICK x, h : x = txn[t] /\ h = D(x.w, x.d)  OBVIOUS
    <2>1. CASE NewOrderLock(t) \/ NewOrderStock(t)
      <3>1. Lock(t) /\ txn' = txn  BY <2>1 DEF NewOrderLock, NewOrderStock
      <3>2. wlock[t] \subseteq wlock'[t] /\ (pc[t] \in Exclusive => Wanted(t) \in wlock'[t])
        BY <3>1, LockAdds
      <3>3. Work(t) /\ pc'[t] # "no_line"
        <4>1. Work(t)  BY <2>1 DEF Work
        <4>2. ~(NewOrderPlace(t) \/ NewOrderLine(t))
          BY <2>1 DEF NewOrderLock, NewOrderStock, NewOrderPlace, NewOrderLine
        <4> QED  BY <4>1, <4>2, Arrivals
      <3>4. CASE pc[t] = "no_d"
        <4>1. Wanted(t) = h /\ pc[t] \in Exclusive  BY <2>x, <3>4 DEF Wanted, Exclusive
        <4> QED  BY <1>3, <2>x, <3>1, <3>2, <3>3, <4>1 DEF DistrictHeldAt
      <3>5. CASE pc[t] \in {"no_c", "no_s"}
        <4>1. h \in wlock[t]  BY <1>1, <1>3, <2>x, <3>5 DEF DistrictHeldAt
        <4> QED  BY <1>3, <2>x, <3>1, <3>2, <3>3, <4>1 DEF DistrictHeldAt
      <3>6. CASE pc[t] = "no_w"
        <4>1. ~NewOrderStock(t)  BY <3>6 DEF NewOrderStock
        <4>2. pc'[t] \notin {"no_c", "no_s", "no_order", "no_line"}  BY <3>3, <3>6, <4>1, Arrivals
        <4> QED  BY <1>3, <4>2 DEF DistrictHeldAt
      <3> QED  BY <2>1, <3>4, <3>5, <3>6 DEF NewOrderLock, NewOrderStock
    <2>2. CASE NewOrderPlace(t)
      <3>1. pc[t] = "no_order" /\ txn' = txn /\ wlock' = wlock
            /\ loc' = [loc EXCEPT ![t] = [loc[t] EXCEPT !.o = district[<<x.w, x.d>>].d_next_o_id]]
        BY <2>2, <2>x DEF NewOrderPlace, Set
      <3>2. h \in wlock[t] /\ TxnAt(t)  BY <1>1, <1>3, <2>x, <3>1 DEF DistrictHeldAt, TxnOK
      <3>3. loc'[t].o = district[<<x.w, x.d>>].d_next_o_id
        <4>1. "o" \in DOMAIN Fresh /\ DOMAIN loc[t] = DOMAIN Fresh  BY <3>2 DEF Fresh, TxnAt
        <4> QED  BY <1>d, <3>1, <4>1
      <3>4. x.w \in Warehouses /\ x.d \in Districts
        <4>1. x \in NewOrderInputs(t)  BY <2>x, <3>1, <3>2 DEF TxnAt, NewOrderSteps
        <4> QED  BY <4>1, NewOrderInput, HomeIn
      <3>5. base'.district[<<x.w, x.d>>].d_next_o_id <= loc'[t].o
        BY <3>3, <3>4 DEF PlacedOK, IdsPlaced
      <3> QED  BY <1>3, <2>x, <3>1, <3>2, <3>5 DEF DistrictHeldAt
    <2>3. CASE NewOrderLine(t)
      <3>1. pc[t] = "no_line" /\ TxnAt(t)  BY <2>3 DEF NewOrderLine, TxnOK
      <3>2. h \in wlock[t] /\ base.district[<<x.w, x.d>>].d_next_o_id <= loc[t].o
        BY <1>1, <1>3, <2>x, <3>1 DEF DistrictHeldAt
      <3>3. CASE Return(t)
        <4>1. pc'[t] = "idle"  BY <3>3 DEF Return, Goto, TxnOK
        <4> QED  BY <1>3, <4>1 DEF DistrictHeldAt
      <3>4. CASE ~Return(t)
        <4>1. PICK s, i : /\ wlock' = [wlock EXCEPT ![t] = @ \ {S(s, i)}]
                          /\ loc' = [loc EXCEPT ![t] = [loc[t] EXCEPT !.n = loc[t].n + 1]] /\ txn' = txn
          BY <2>3, <3>4 DEF NewOrderLine, Release, Set, Continue
        <4>2. h # S(s, i)  BY <2>x DEF D, S
        <4>3. h \in wlock'[t]  BY <1>d, <3>2, <4>1, <4>2
        <4>4. loc'[t].o = loc[t].o
          <5>1. "o" \in DOMAIN Fresh /\ DOMAIN loc[t] = DOMAIN Fresh  BY <3>1 DEF Fresh, TxnAt
          <5> QED  BY <1>d, <4>1, <5>1
        <4> QED  BY <1>3, <2>x, <3>2, <4>1, <4>3, <4>4 DEF DistrictHeldAt
      <3> QED  BY <3>3, <3>4
    <2>4. CASE ~(NewOrderLock(t) \/ NewOrderStock(t) \/ NewOrderPlace(t) \/ NewOrderLine(t))
      <3>1. pc'[t] \notin {"no_c", "no_s", "no_order", "no_line"}  BY <2>4, Arrivals
      <3> QED  BY <1>3, <3>1 DEF DistrictHeldAt
    <2> QED  BY <2>1, <2>2, <2>3, <2>4
  <1> QED  BY <1>2, <1>3

\* A delivery changes nothing of an order but that it is delivered.
LEMMA OrderFields ==
  ASSUME OrdersOK, NEW t, Work(t), ~NewOrderPlace(t)
  PROVE  /\ DOMAIN order' = DOMAIN order
         /\ \A k \in DOMAIN order : /\ order'[k].w = order[k].w /\ order'[k].d = order[k].d
                                   /\ order'[k].o_id = order[k].o_id /\ order'[k].o_c_id = order[k].o_c_id
                                   /\ order'[k].o_ol_cnt = order[k].o_ol_cnt
  <1>0. order \in [DOMAIN order -> OrderRecords]  BY DEF OrdersOK
  <1>1. CASE order' = order  BY <1>1
  <1>2. CASE DeliveryOrder(t) /\ loc[t].key \in DOMAIN order
    <2> PICK z, v : z = loc[t].key /\ v = [order[z] EXCEPT !.delivered = TRUE]  OBVIOUS
    <2>1. order' = [order EXCEPT ![z] = v]  BY <1>2 DEF DeliveryOrder
    <2>2. order[z] \in OrderRecords  BY <1>0, <1>2
    <2>3. /\ v.w = order[z].w /\ v.d = order[z].d /\ v.o_id = order[z].o_id
          /\ v.o_c_id = order[z].o_c_id /\ v.o_ol_cnt = order[z].o_ol_cnt
      BY <2>2 DEF OrderRecords
    <2>4. DOMAIN order' = DOMAIN order /\ \A k \in DOMAIN order : order'[k] = IF k = z THEN v ELSE order[k]
      BY <1>0, <2>1
    <2> QED  BY <2>3, <2>4
  <1>3. DeliveryOrder(t) \/ order' = order  BY Writes
  <1> QED  BY <1>1, <1>2, <1>3 DEF DeliveryOrder

\* PlacedOK holds still after a step that neither places an order nor writes a line.
LEMMA PlacedKept ==
  ASSUME PlacedOK, LinesOK, OrdersOK, base' = base,
         DOMAIN order' = DOMAIN order, DOMAIN order_line' = DOMAIN order_line,
         \A k \in DOMAIN order : /\ order'[k].w = order[k].w /\ order'[k].d = order[k].d
                                 /\ order'[k].o_id = order[k].o_id
                                 /\ order'[k].o_ol_cnt = order[k].o_ol_cnt,
         \A w \in Warehouses, d \in Districts :
            district'[<<w, d>>].d_next_o_id = district[<<w, d>>].d_next_o_id,
         \A u \in Tasks : pc'[u] = "no_line" <=> pc[u] = "no_line",
         \A u \in Tasks : pc[u] = "no_line" => txn'[u] = txn[u] /\ loc'[u] = loc[u],
         \A u \in Tasks : DistrictHeldAt(u)'
  PROVE  PlacedOK'
  <1>1. \A w \in Warehouses, d \in Districts : OrderIds(w, d)' = OrderIds(w, d)
    BY DEF OrderIds, TakenIds
  <1>2. \A w, d, o : LinesOf(w, d, o)' = LinesOf(w, d, o)  BY DEF LinesOf
  <1>3. ASSUME NEW w \in Warehouses, NEW d \in Districts  PROVE IdsPlaced(w, d)'
    <2>1. IdsPlaced(w, d)  BY DEF PlacedOK
    <2>2. OrderIds(w, d)' = OrderIds(w, d)  BY <1>1
    <2>3. ASSUME NEW o \in OrderIds(w, d)
          PROVE  \E k \in DOMAIN order' : order'[k].w = w /\ order'[k].d = d /\ order'[k].o_id = o
      <3>1. PICK k \in DOMAIN order : order[k].w = w /\ order[k].d = d /\ order[k].o_id = o
        BY <2>1 DEF IdsPlaced
      <3> QED  BY <3>1
    <2> QED  BY <2>1, <2>2, <2>3 DEF IdsPlaced
  <1>4. ASSUME NEW k \in DOMAIN order_line'  PROVE k[3] \in OrderIds(k[1], k[2])'
    <2>1. k[1] \in Warehouses /\ k[2] \in Districts /\ k[3] \in OrderIds(k[1], k[2])
      BY DEF LinesOK, PlacedOK
    <2> QED  BY <1>1, <2>1
  <1>5. ASSUME NEW k \in DOMAIN order'  PROVE OrderWhole(k)'
    <2>r. PICK r, q : r = order[k] /\ q = order'[k]  OBVIOUS
    <2>1. q.w = r.w /\ q.d = r.d /\ q.o_id = r.o_id /\ q.o_ol_cnt = r.o_ol_cnt  BY <2>r
    <2>2. OrderWhole(k) /\ r \in OrderRecords  BY <2>r DEF PlacedOK, OrdersOK
    <2>3. r.w \in Warehouses /\ r.d \in Districts  BY <2>2 DEF OrderRecords
    <2>4. \A u \in Tasks : Writing(u, q)' <=> Writing(u, r)  BY <2>1 DEF Writing
    <2>5. \A u \in Tasks : Writing(u, r) => txn'[u] = txn[u] /\ loc'[u] = loc[u]  BY DEF Writing
    <2>6. OrderIds(q.w, q.d)' = OrderIds(r.w, r.d) /\ LinesOf(q.w, q.d, q.o_id)' = LinesOf(r.w, r.d, r.o_id)
      BY <1>1, <1>2, <2>1, <2>3
    <2>7. \A j \in DOMAIN order' :
            order'[j].w = q.w /\ order'[j].d = q.d /\ order'[j].o_id = q.o_id => j = k
      BY <2>1, <2>2, <2>r DEF OrderWhole
    <2>8. /\ q.o_id \in OrderIds(q.w, q.d)' /\ q.o_ol_cnt >= 1
          /\ Cardinality(LinesOf(q.w, q.d, q.o_id)') = q.o_ol_cnt \/ \E u \in Tasks : Writing(u, q)'
          /\ \A u \in Tasks : Writing(u, q)' =>
               q.o_ol_cnt = Len(txn'[u].lines) /\ Cardinality(LinesOf(q.w, q.d, q.o_id)') = loc'[u].n
      BY <2>1, <2>2, <2>4, <2>5, <2>6, <2>r DEF OrderWhole
    <2> QED  BY <2>7, <2>8, <2>r DEF OrderWhole
  <1> QED  BY <1>3, <1>4, <1>5 DEF PlacedOK

\* new_order places an order with the next id, and none of its lines yet.
LEMMA PlacePlaced ==
  ASSUME IdsFit', PanicInv, LinesOK, PlacedOK, NEW t \in Tasks, NewOrderPlace(t), base' = base,
         \A u \in Tasks \ {t} : pc'[u] = pc[u] /\ txn'[u] = txn[u] /\ loc'[u] = loc[u],
         \A u \in Tasks : DistrictHeldAt(u)'
  PROVE  PlacedOK'
  <1>r. PICK rec : rec = Placed(t)  OBVIOUS
  <1>w. PICK w, d, o, z : w = rec.w /\ d = rec.d /\ o = rec.o_id /\ z = order_key(rec)  OBVIOUS
  <1>0. TxnOK /\ OrdersOK  BY DEF PanicInv
  <1>i. IdsTaken  BY <1>0, PlacedBefore
  <1>1. \A k \in DOMAIN order : /\ order[k].w \in Warehouses /\ order[k].d \in Districts
                                /\ order[k].o_id < district[<<order[k].w, order[k].d>>].d_next_o_id
    BY <1>0, <1>i DEF IdsTaken, OrdersOK, OrderRecords
  <1>p. /\ rec.w = txn[t].w /\ rec.d = txn[t].d /\ rec.o_id = district[<<rec.w, rec.d>>].d_next_o_id
        /\ rec.o_c_id = txn[t].c /\ rec.o_ol_cnt = Len(txn[t].lines) /\ rec.delivered = FALSE
        /\ rec.w \in Home(t) /\ rec.w \in Warehouses /\ rec.d \in Districts /\ rec.o_c_id \in Customers
        /\ rec.o_id \in Nat /\ rec.o_id > NCustomers /\ rec.o_ol_cnt \in Nat /\ rec.o_ol_cnt >= 1
        /\ rec \in OrderRecords /\ order_key(rec) \notin DOMAIN order
        /\ DOMAIN order' = DOMAIN order \cup {order_key(rec)} /\ order'[order_key(rec)] = rec
        /\ \A k \in DOMAIN order : order'[k] = order[k]
        /\ new_order' = new_order \cup {new_order_key(rec)}
        /\ order_line' = order_line /\ customer' = customer
        /\ txn'[t] = txn[t] /\ loc[t].n = 0 /\ pc[t] = "no_order" /\ pc'[t] = "no_line"
        /\ loc'[t].o = rec.o_id /\ loc'[t].n = 0
        /\ district'[<<rec.w, rec.d>>].d_next_o_id = rec.o_id + 1
    BY ONLY IdsFit', PanicInv, LinesOK, t \in Tasks, NewOrderPlace(t), <1>i, <1>r, OrderPlaced, ZenonT(40)
  <1>o. w = txn[t].w /\ d = txn[t].d /\ o = district[<<w, d>>].d_next_o_id  BY <1>p, <1>w
  <1>2. \A k \in DOMAIN order : order[k].w = w /\ order[k].d = d => order[k].o_id < o
    BY <1>1, <1>o
  <1>3. /\ w \in Home(t) /\ w \in Warehouses /\ d \in Districts /\ o \in Nat
        /\ Len(txn[t].lines) \in Nat /\ Len(txn[t].lines) >= 1
        /\ z \notin DOMAIN order /\ DOMAIN order' = DOMAIN order \cup {z} /\ order'[z] = rec
        /\ \A k \in DOMAIN order : order'[k] = order[k]
        /\ order_line' = order_line
        /\ txn'[t] = txn[t] /\ pc[t] = "no_order" /\ pc'[t] = "no_line"
        /\ loc'[t].o = o /\ loc'[t].n = 0
        /\ district'[<<w, d>>].d_next_o_id = o + 1
    BY <1>p, <1>w
  <1>d. \A v \in Warehouses, e \in Districts :
          v # w \/ e # d => district'[<<v, e>>].d_next_o_id = district[<<v, e>>].d_next_o_id
    <2> SUFFICES ASSUME NEW v \in Warehouses, NEW e \in Districts, v # w \/ e # d
                 PROVE  district'[<<v, e>>].d_next_o_id = district[<<v, e>>].d_next_o_id
      OBVIOUS
    <2>1. district'[<<v, e>>].d_next_o_id = district[<<v, e>>].d_next_o_id
            + (IF NewOrderPlace(t) /\ v = txn[t].w /\ e = txn[t].d THEN 1 ELSE 0)
      BY <1>0, DistrictWrites DEF LinesOK, Work
    <2>2. district[<<v, e>>].d_next_o_id \in Nat  BY DEF LinesOK
    <2> QED  BY <1>o, <2>1, <2>2
  <1>4. ASSUME NEW v \in Warehouses, NEW e \in Districts
        PROVE  OrderIds(v, e)' = OrderIds(v, e) \cup (IF <<v, e>> = <<w, d>> THEN {o} ELSE {})
    <2>1. CASE <<v, e>> = <<w, d>>
      <3>b. PICK b : b = base.district[<<w, d>>].d_next_o_id  OBVIOUS
      <3>1. b \in Nat /\ b <= o  BY <1>3, <1>o, <3>b DEF PlacedOK, IdsPlaced
      <3>2. b .. (o + 1) - 1 = (b .. o - 1) \cup {o}  BY <1>3, <3>1
      <3>3. v = w /\ e = d  BY <2>1
      <3>4. OrderIds(w, d) = Customers \cup (b .. o - 1)  BY <1>o, <3>b DEF OrderIds, TakenIds
      <3>5. OrderIds(w, d)' = Customers \cup (b .. (o + 1) - 1)  BY <1>3, <3>b DEF OrderIds, TakenIds
      <3>6. OrderIds(w, d)' = OrderIds(w, d) \cup {o}  BY <3>2, <3>4, <3>5
      <3> QED  BY <2>1, <3>3, <3>6
    <2>2. CASE <<v, e>> # <<w, d>>  BY <1>d, <2>2 DEF OrderIds, TakenIds
    <2> QED  BY <2>1, <2>2
  <1>5. ASSUME NEW v \in Warehouses, NEW e \in Districts  PROVE IdsPlaced(v, e)'
    <2>1. IdsPlaced(v, e)  BY DEF PlacedOK
    <2>2. ASSUME NEW i \in OrderIds(v, e)'
          PROVE  \E k \in DOMAIN order' : order'[k].w = v /\ order'[k].d = e /\ order'[k].o_id = i
      <3>1. CASE i \in OrderIds(v, e)
        <4>1. PICK k \in DOMAIN order : order[k].w = v /\ order[k].d = e /\ order[k].o_id = i
          BY <2>1, <3>1 DEF IdsPlaced
        <4> QED  BY <1>3, <4>1
      <3>2. CASE <<v, e>> = <<w, d>> /\ i = o  BY <1>3, <1>w, <3>2
      <3> QED  BY <1>4, <2>2, <3>1, <3>2
    <2>3. base.district[<<v, e>>].d_next_o_id <= district'[<<v, e>>].d_next_o_id
      <3>1. base.district[<<v, e>>].d_next_o_id \in Nat /\ district[<<v, e>>].d_next_o_id \in Nat
            /\ base.district[<<v, e>>].d_next_o_id <= district[<<v, e>>].d_next_o_id
        BY <2>1 DEF PlacedOK, LinesOK, IdsPlaced
      <3>2. CASE <<v, e>> = <<w, d>>  BY <1>3, <1>o, <3>1, <3>2
      <3>3. CASE <<v, e>> # <<w, d>>  BY <1>d, <3>1, <3>3
      <3> QED  BY <3>2, <3>3
    <2> QED  BY <2>1, <2>2, <2>3 DEF IdsPlaced
  <1>6. ASSUME NEW k \in DOMAIN order_line'  PROVE k[3] \in OrderIds(k[1], k[2])'
    <2>1. k[1] \in Warehouses /\ k[2] \in Districts /\ k[3] \in OrderIds(k[1], k[2])
      BY <1>3 DEF LinesOK, PlacedOK
    <2> QED  BY <1>4, <2>1
  <1>7. \A v, e, i : LinesOf(v, e, i)' = LinesOf(v, e, i)  BY <1>3 DEF LinesOf
  <1>8. OrderWhole(z)'
    <2>1. rec.w = w /\ rec.d = d /\ rec.o_id = o /\ rec.o_ol_cnt = Len(txn[t].lines)  BY <1>p, <1>w
    <2>2. o \in OrderIds(w, d)'  BY <1>3, <1>4
    <2>3. LinesOf(w, d, o) = {}
      <3> SUFFICES ASSUME NEW k \in DOMAIN order_line, k[1] = w, k[2] = d, k[3] = o  PROVE FALSE
        BY DEF LinesOf
      <3>1. k[3] < district[<<k[1], k[2]>>].d_next_o_id  BY DEF LinesOK
      <3> QED  BY <1>3, <1>o, <3>1
    <2>4. Cardinality(LinesOf(w, d, o)') = 0  BY <1>7, <2>3, FS_EmptySet
    <2>5. Writing(t, rec)'  BY <1>3, <1>o, <2>1 DEF Writing
    <2>6. ASSUME NEW u \in Tasks, Writing(u, rec)'  PROVE u = t
      <3> SUFFICES ASSUME u # t  PROVE FALSE  OBVIOUS
      <3>1. pc[u] = "no_line" /\ txn[u].w = w  BY <2>1, <2>6 DEF Writing
      <3>2. txn[u] \in NewOrderInputs(u)  BY <1>0, <3>1 DEF TxnOK, TxnAt, NewOrderSteps
      <3>3. w \in Home(u)  BY <3>1, <3>2, NewOrderInput
      <3> QED  BY <1>3, <3>3, HomeApart
    <2>7. ASSUME NEW j \in DOMAIN order', order'[j].w = w, order'[j].d = d, order'[j].o_id = o  PROVE j = z
      <3> SUFFICES ASSUME j \in DOMAIN order  PROVE FALSE  BY <1>3
      <3>1. o < o  BY <1>2, <1>3, <2>7
      <3> QED  BY <1>3, <3>1
    <2>8. /\ rec.o_id \in OrderIds(rec.w, rec.d)' /\ rec.o_ol_cnt >= 1
          /\ \E u \in Tasks : Writing(u, rec)'
      BY <1>3, <2>1, <2>2, <2>5
    <2>9. \A u \in Tasks : Writing(u, rec)' =>
            /\ rec.o_ol_cnt = Len(txn'[u].lines)
            /\ Cardinality(LinesOf(rec.w, rec.d, rec.o_id)') = loc'[u].n
      BY <1>3, <2>1, <2>4, <2>6
    <2>10. \A j \in DOMAIN order' :
             order'[j].w = rec.w /\ order'[j].d = rec.d /\ order'[j].o_id = rec.o_id => j = z
      BY <2>1, <2>7
    <2> QED  BY <1>3, <2>8, <2>9, <2>10 DEF OrderWhole
  <1>9. ASSUME NEW k \in DOMAIN order  PROVE OrderWhole(k)'
    <2>r. PICK r : r = order[k]  OBVIOUS
    <2>1. OrderWhole(k) /\ order'[k] = r /\ r.w \in Warehouses /\ r.d \in Districts
      BY <1>1, <1>3, <2>r DEF PlacedOK
    <2>2. ~(r.w = w /\ r.d = d /\ r.o_id = o)
      <3> SUFFICES ASSUME r.w = w, r.d = d, r.o_id = o  PROVE FALSE  OBVIOUS
      <3>1. o < o  BY <1>2, <2>r
      <3> QED  BY <1>3, <3>1
    <2>3. r.o_id \in OrderIds(r.w, r.d)'  BY <1>4, <2>1, <2>r DEF OrderWhole
    <2>4. \A u \in Tasks : Writing(u, r)' <=> Writing(u, r)
      <3>1. ~Writing(t, r) /\ ~Writing(t, r)'  BY <1>3, <1>o, <2>2 DEF Writing
      <3>2. \A u \in Tasks \ {t} : Writing(u, r)' <=> Writing(u, r)  BY DEF Writing
      <3> QED  BY <3>1, <3>2
    <2>5. \A u \in Tasks : Writing(u, r) => u # t /\ txn'[u] = txn[u] /\ loc'[u] = loc[u]
      BY <1>3 DEF Writing
    <2>6. LinesOf(r.w, r.d, r.o_id)' = LinesOf(r.w, r.d, r.o_id)  BY <1>7
    <2>7. \A j \in DOMAIN order' :
            order'[j].w = r.w /\ order'[j].d = r.d /\ order'[j].o_id = r.o_id => j = k
      <3> SUFFICES ASSUME NEW j \in DOMAIN order', order'[j].w = r.w, order'[j].d = r.d,
                          order'[j].o_id = r.o_id
                   PROVE  j = k
        OBVIOUS
      <3>1. j # z  BY <1>3, <1>w, <2>2
      <3>2. j \in DOMAIN order /\ order'[j] = order[j]  BY <1>3, <3>1
      <3> QED  BY <2>1, <2>r, <3>2 DEF OrderWhole
    <2>8. /\ r.o_ol_cnt >= 1
          /\ Cardinality(LinesOf(r.w, r.d, r.o_id)') = r.o_ol_cnt \/ \E u \in Tasks : Writing(u, r)'
          /\ \A u \in Tasks : Writing(u, r)' =>
               r.o_ol_cnt = Len(txn'[u].lines) /\ Cardinality(LinesOf(r.w, r.d, r.o_id)') = loc'[u].n
      BY <2>1, <2>4, <2>5, <2>6, <2>r DEF OrderWhole
    <2> QED  BY <2>1, <2>3, <2>7, <2>8 DEF OrderWhole
  <1>10. \A k \in DOMAIN order' : OrderWhole(k)'  BY <1>3, <1>8, <1>9
  <1> QED  BY <1>5, <1>6, <1>10 DEF PlacedOK

\* new_order writes a line of its own order, which is whole with the last one.
LEMMA LinePlaced ==
  ASSUME PanicInv, LinesOK, PlacedOK, NEW t \in Tasks, NewOrderLine(t), base' = base,
         \A u \in Tasks \ {t} : pc'[u] = pc[u] /\ txn'[u] = txn[u] /\ loc'[u] = loc[u],
         \A u \in Tasks : DistrictHeldAt(u)'
  PROVE  PlacedOK'
  <1>0. TxnOK /\ ItemsOK /\ OrdersOK  BY DEF PanicInv
  <1>l. PICK w, d, o, n, l, k : /\ w = txn[t].w /\ d = txn[t].d /\ o = loc[t].o /\ n = loc[t].n
                                /\ l = txn[t].lines[n + 1] /\ k = <<w, d, o, l.item>>
    OBVIOUS
  <1>1. /\ w \in Home(t) /\ w \in Warehouses /\ d \in Districts /\ o \in Nat
        /\ n \in Nat /\ n + 1 \in 1 .. Len(txn[t].lines) /\ Len(txn[t].lines) \in Nat
        /\ o = district[<<w, d>>].d_next_o_id - 1
        /\ k \notin DOMAIN order_line /\ DOMAIN order_line' = DOMAIN order_line \cup {k}
        /\ district' = district
    <2>1. l = txn[t].lines[loc[t].n + 1] /\ k = <<txn[t].w, txn[t].d, loc[t].o, l.item>>  BY <1>l
    <2>2. /\ txn[t].w \in Home(t) /\ txn[t].w \in Warehouses /\ txn[t].d \in Districts /\ loc[t].o \in Nat
          /\ loc[t].n \in Nat /\ loc[t].n + 1 \in 1 .. Len(txn[t].lines) /\ Len(txn[t].lines) \in Nat
          /\ loc[t].o = district[<<txn[t].w, txn[t].d>>].d_next_o_id - 1
          /\ k \notin DOMAIN order_line /\ DOMAIN order_line' = DOMAIN order_line \cup {k}
          /\ district' = district
      BY <1>0, <2>1, LineWritten, Zenon
    <2> QED  BY <1>l, <2>2
  <1>2. k[1] = w /\ k[2] = d /\ k[3] = o  BY <1>l
  <1>3. pc[t] = "no_line" /\ order' = order  BY DEF NewOrderLine
  <1>4. \A v, e : OrderIds(v, e)' = OrderIds(v, e)  BY <1>1 DEF OrderIds, TakenIds
  <1>5. \A v \in Warehouses, e \in Districts : IdsPlaced(v, e)'
    <2> SUFFICES ASSUME NEW v \in Warehouses, NEW e \in Districts  PROVE IdsPlaced(v, e)'  OBVIOUS
    <2>1. IdsPlaced(v, e)  BY DEF PlacedOK
    <2>2. OrderIds(v, e)' = OrderIds(v, e)  BY <1>4
    <2> QED  BY <1>1, <1>3, <2>1, <2>2 DEF IdsPlaced
  <1>6. o \in OrderIds(w, d)
    <2>b. PICK b : b = base.district[<<w, d>>].d_next_o_id  OBVIOUS
    <2>1. b <= o /\ b \in Nat  BY <1>1, <1>3, <1>l, <2>b DEF PlacedOK, DistrictHeldAt
    <2>2. district[<<w, d>>].d_next_o_id \in Nat  BY <1>1 DEF LinesOK
    <2>3. o \in b .. district[<<w, d>>].d_next_o_id - 1  BY <1>1, <2>1, <2>2
    <2> QED  BY <2>3, <2>b DEF OrderIds, TakenIds
  <1>7. \A j \in DOMAIN order_line' : j[3] \in OrderIds(j[1], j[2])'
    BY <1>1, <1>2, <1>4, <1>6 DEF PlacedOK
  <1>8. (n + 1 = Len(txn[t].lines) /\ pc'[t] = "idle")
        \/ (/\ n + 1 # Len(txn[t].lines) /\ pc'[t] = "no_line" /\ txn'[t] = txn[t]
            /\ loc'[t].o = o /\ loc'[t].n = n + 1)
    <2>1. CASE n + 1 = Len(txn[t].lines)
      <3>1. Return(t)  BY <1>l, <2>1 DEF NewOrderLine
      <3> QED  BY <1>0, <2>1, <3>1 DEF Return, Goto, TxnOK
    <2>2. CASE n + 1 # Len(txn[t].lines)
      <3>1. pc' = pc /\ txn' = txn /\ loc' = [loc EXCEPT ![t] = [loc[t] EXCEPT !.n = n + 1]]
        BY <1>l, <2>2 DEF NewOrderLine, Set, Continue
      <3>2. DOMAIN loc = Tasks /\ DOMAIN loc[t] = DOMAIN Fresh /\ "o" \in DOMAIN Fresh /\ "n" \in DOMAIN Fresh
        BY <1>0 DEF TxnOK, TxnAt, Fresh
      <3>3. loc'[t].o = o /\ loc'[t].n = n + 1  BY <1>l, <3>1, <3>2
      <3> QED  BY <1>3, <2>2, <3>1, <3>3
    <2> QED  BY <2>1, <2>2
  <1>9. ASSUME NEW j \in DOMAIN order  PROVE OrderWhole(j)'
    <2>r. PICK r : r = order[j]  OBVIOUS
    <2>1. OrderWhole(j)  BY DEF PlacedOK
    <2>2. \A u \in Tasks \ {t} : Writing(u, r)' <=> Writing(u, r)  BY DEF Writing
    <2>3. CASE r.w = w /\ r.d = d /\ r.o_id = o
      <3>1. Writing(t, r)  BY <1>3, <1>l, <2>3 DEF Writing
      <3>2. r.o_ol_cnt = Len(txn[t].lines) /\ Cardinality(LinesOf(w, d, o)) = n
        BY <1>l, <2>1, <2>3, <2>r, <3>1 DEF OrderWhole
      <3>3. LinesOf(w, d, o)' = LinesOf(w, d, o) \cup {k} /\ k \notin LinesOf(w, d, o)
        BY <1>1, <1>2 DEF LinesOf
      <3>4. IsFiniteSet(LinesOf(w, d, o))
        <4>1. LinesOf(w, d, o) \subseteq DOMAIN order_line  BY DEF LinesOf
        <4> QED  BY <4>1, FS_Subset DEF LinesOK
      <3>5. Cardinality(LinesOf(w, d, o)') = n + 1
        <4> HIDE DEF LinesOf
        <4>1. Cardinality(LinesOf(w, d, o) \cup {k}) = Cardinality(LinesOf(w, d, o)) + 1
          BY ONLY <3>3, <3>4, FS_AddElement
        <4> QED  BY <3>2, <3>3, <4>1
      <3>6. ASSUME NEW u \in Tasks, u # t  PROVE ~Writing(u, r)
        <4> SUFFICES ASSUME pc[u] = "no_line", txn[u].w = w  PROVE FALSE  BY <2>3 DEF Writing
        <4>1. txn[u] \in NewOrderInputs(u)  BY <1>0 DEF TxnOK, TxnAt, NewOrderSteps
        <4>2. w \in Home(u)  BY <4>1, NewOrderInput
        <4> QED  BY <1>1, <3>6, <4>2, HomeApart
      <3>7. \/ (n + 1 = Len(txn[t].lines) /\ \A u \in Tasks : ~Writing(u, r)')
            \/ (Writing(t, r)' /\ txn'[t] = txn[t] /\ loc'[t].n = n + 1)
        BY <1>8, <1>l, <2>2, <2>3, <3>6 DEF Writing
      <3>8. Cardinality(LinesOf(r.w, r.d, r.o_id)') = n + 1  BY <2>3, <3>5
      <3>9. /\ Cardinality(LinesOf(r.w, r.d, r.o_id)') = r.o_ol_cnt \/ \E u \in Tasks : Writing(u, r)'
            /\ \A u \in Tasks : Writing(u, r)' =>
                 r.o_ol_cnt = Len(txn'[u].lines) /\ Cardinality(LinesOf(r.w, r.d, r.o_id)') = loc'[u].n
        BY <2>2, <3>2, <3>6, <3>7, <3>8
      <3> QED  BY <1>3, <1>4, <2>1, <2>r, <3>9 DEF OrderWhole
    <2>4. CASE ~(r.w = w /\ r.d = d /\ r.o_id = o)
      <3>1. LinesOf(r.w, r.d, r.o_id)' = LinesOf(r.w, r.d, r.o_id)  BY <1>1, <1>2, <2>4 DEF LinesOf
      <3>2. ~Writing(t, r) /\ ~Writing(t, r)'  BY <1>8, <1>l, <2>4 DEF Writing
      <3>3. /\ Cardinality(LinesOf(r.w, r.d, r.o_id)') = r.o_ol_cnt \/ \E u \in Tasks : Writing(u, r)'
            /\ \A u \in Tasks : Writing(u, r)' =>
                 r.o_ol_cnt = Len(txn'[u].lines) /\ Cardinality(LinesOf(r.w, r.d, r.o_id)') = loc'[u].n
        BY <2>1, <2>2, <2>r, <3>1, <3>2 DEF OrderWhole
      <3> QED  BY <1>3, <1>4, <2>1, <2>r, <3>3 DEF OrderWhole
    <2> QED  BY <2>3, <2>4
  <1> QED  BY <1>3, <1>5, <1>7, <1>9 DEF PlacedOK

\* Every step of a transaction keeps PlacedOK.
LEMMA WorkPlaced ==
  ASSUME IdsFit', PlacedInv, NEW t \in Tasks, Work(t), base' = base
  PROVE  PlacedOK'
  <1>0. TxnOK /\ ItemsOK /\ OrdersOK /\ PanicInv /\ HomeLocksOK /\ LinesOK /\ PlacedOK
    BY DEF PlacedInv, PanicInv
  <1>1. \A u \in Tasks \ {t} : pc'[u] = pc[u] /\ txn'[u] = txn[u] /\ loc'[u] = loc[u]
    BY <1>0, WorkKept DEF Kept, Others
  <1>2. \A u \in Tasks : DistrictHeldAt(u)'  BY <1>0, WorkHeld
  <1>3. CASE NewOrderPlace(t)  BY <1>0, <1>1, <1>2, <1>3, PlacePlaced
  <1>4. CASE NewOrderLine(t)  BY <1>0, <1>1, <1>2, <1>4, LinePlaced
  <1>5. CASE ~(NewOrderPlace(t) \/ NewOrderLine(t))
    <2>1. pc[t] # "no_line" /\ pc'[t] # "no_line"  BY <1>0, <1>5, LineNext, Arrivals
    <2>2. /\ \A u \in Tasks : pc'[u] = "no_line" <=> pc[u] = "no_line"
          /\ \A u \in Tasks : pc[u] = "no_line" => txn'[u] = txn[u] /\ loc'[u] = loc[u]
      BY <1>1, <2>1
    <2>3. \A w \in Warehouses, d \in Districts :
            district'[<<w, d>>].d_next_o_id = district[<<w, d>>].d_next_o_id
      <3> SUFFICES ASSUME NEW w \in Warehouses, NEW d \in Districts
                   PROVE  district'[<<w, d>>].d_next_o_id = district[<<w, d>>].d_next_o_id
        OBVIOUS
      <3>1. district'[<<w, d>>].d_next_o_id = district[<<w, d>>].d_next_o_id
              + (IF NewOrderPlace(t) /\ w = txn[t].w /\ d = txn[t].d THEN 1 ELSE 0)
        BY <1>0, DistrictWrites DEF LinesOK
      <3>2. district[<<w, d>>].d_next_o_id \in Nat  BY <1>0 DEF LinesOK
      <3> QED  BY <1>5, <3>1, <3>2
    <2>4. DOMAIN order_line' = DOMAIN order_line  BY <1>0, <1>5, LinesStay
    <2>5. /\ DOMAIN order' = DOMAIN order
          /\ \A k \in DOMAIN order : /\ order'[k].w = order[k].w /\ order'[k].d = order[k].d
                                    /\ order'[k].o_id = order[k].o_id
                                    /\ order'[k].o_ol_cnt = order[k].o_ol_cnt
      BY <1>0, <1>5, OrderFields
    <2> QED  BY <1>0, <1>2, <2>2, <2>3, <2>4, <2>5, PlacedKept
  <1> QED  BY <1>3, <1>4, <1>5

\* load_order: every customer of a district has one order, every id is that of one.
LEMMA LoadedTable ==
  ASSUME NEW shuffle \in Shuffles, NEW table, table = OrderTable(LoadedOrders(shuffle))
  PROVE  /\ \A k \in DOMAIN table : /\ table[k].w \in Warehouses /\ table[k].d \in Districts
                                    /\ table[k].o_id \in Customers /\ table[k].o_ol_cnt = 1
         /\ \A w \in Warehouses, d \in Districts, o \in Customers :
              \E k \in DOMAIN table : table[k].w = w /\ table[k].d = d /\ table[k].o_id = o
         /\ \A j \in DOMAIN table, k \in DOMAIN table :
              table[j].w = table[k].w /\ table[j].d = table[k].d /\ table[j].o_id = table[k].o_id => j = k
  <1>s. PICK rs : rs = LoadedOrders(shuffle)  OBVIOUS
  <1>1. ASSUME NEW r \in rs
        PROVE  /\ r.w \in Warehouses /\ r.d \in Districts /\ r.o_id \in Customers /\ r.o_ol_cnt = 1
               /\ r = LoadedOrder(r.w, r.d, r.o_id, shuffle[<<r.w, r.d>>][r.o_id])
    <2>1. PICK x \in Warehouses \X Districts \X Customers :
            r = LoadedOrder(x[1], x[2], x[3], shuffle[<<x[1], x[2]>>][x[3]])
      BY <1>1, <1>s DEF LoadedOrders
    <2>2. x[1] \in Warehouses /\ x[2] \in Districts /\ x[3] \in Customers  BY <2>1
    <2>3. r.w = x[1] /\ r.d = x[2] /\ r.o_id = x[3] /\ r.o_ol_cnt = 1  BY <2>1 DEF LoadedOrder
    <2> QED  BY <2>1, <2>2, <2>3
  <1>2. DOMAIN table = {order_key(r) : r \in rs}
        /\ \A k \in DOMAIN table : table[k] \in rs /\ order_key(table[k]) = k
    <2>1. table = [k \in {order_key(r) : r \in rs} |-> CHOOSE r \in rs : order_key(r) = k]
      BY <1>s DEF OrderTable
    <2>2. ASSUME NEW k \in {order_key(r) : r \in rs}
          PROVE  (CHOOSE r \in rs : order_key(r) = k) \in rs
                 /\ order_key(CHOOSE r \in rs : order_key(r) = k) = k
      <3>1. \E r \in rs : order_key(r) = k  OBVIOUS
      <3> QED  BY <3>1
    <2> QED  BY <2>1, <2>2
  <1>3. ASSUME NEW j \in DOMAIN table, NEW k \in DOMAIN table,
               table[j].w = table[k].w, table[j].d = table[k].d, table[j].o_id = table[k].o_id
        PROVE  j = k
    <2>1. table[j] \in rs /\ table[k] \in rs  BY <1>2
    <2>2. table[j] = table[k]  BY <1>1, <1>3, <2>1
    <2> QED  BY <1>2, <2>2
  <1>4. ASSUME NEW w \in Warehouses, NEW d \in Districts, NEW o \in Customers
        PROVE  \E k \in DOMAIN table : table[k].w = w /\ table[k].d = d /\ table[k].o_id = o
    <2>r. PICK r : r = LoadedOrder(w, d, o, shuffle[<<w, d>>][o])  OBVIOUS
    <2>1. r \in rs
      <3>1. <<w, d, o>> \in Warehouses \X Districts \X Customers  OBVIOUS
      <3> QED  BY <1>s, <2>r, <3>1 DEF LoadedOrders
    <2>k. PICK k, q : k = order_key(r) /\ q = table[k]  OBVIOUS
    <2>2. k \in DOMAIN table  BY <1>2, <2>1, <2>k
    <2>3. q \in rs /\ order_key(q) = order_key(r)  BY <1>2, <2>2, <2>k
    <2>4. q \in OrderRecords /\ r \in OrderRecords
      <3>1. ASSUME NEW p \in rs  PROVE p \in OrderRecords
        <4>c. PICK c : c = shuffle[<<p.w, p.d>>][p.o_id]  OBVIOUS
        <4>1. p = LoadedOrder(p.w, p.d, p.o_id, c) /\ p.w \in Warehouses /\ p.d \in Districts
              /\ p.o_id \in Customers
          BY <1>1, <3>1, <4>c
        <4>2. c \in Customers
          <5>1. shuffle[<<p.w, p.d>>] \in Bijection(Customers, Customers)  BY <4>1 DEF Shuffles
          <5>2. shuffle[<<p.w, p.d>>] \in [Customers -> Customers]  BY <5>1 DEF Bijection, Injection
          <5> QED  BY <4>1, <4>c, <5>2
        <4>3. p.o_id \in 0 .. Radix - 1  BY <4>1, Scales DEF Customers
        <4>4. LoadedOrder(p.w, p.d, p.o_id, c) \in OrderRecords
          BY <4>1, <4>2, <4>3 DEF LoadedOrder, OrderRecords
        <4> QED  BY <4>1, <4>4
      <3> QED  BY <2>1, <2>3, <3>1
    <2>5. q.w = r.w /\ q.d = r.d /\ q.o_id = r.o_id
      <3>1. /\ q.w = ((k \div Radix) \div Radix) \div Radix /\ q.d = ((k \div Radix) \div Radix) % Radix
            /\ q.o_id = k % Radix
        BY <2>3, <2>4, <2>k, RecordKeys, KeyFields
      <3>2. /\ r.w = ((k \div Radix) \div Radix) \div Radix /\ r.d = ((k \div Radix) \div Radix) % Radix
            /\ r.o_id = k % Radix
        BY <2>4, <2>k, RecordKeys, KeyFields
      <3> QED  BY <3>1, <3>2
    <2>6. r.w = w /\ r.d = d /\ r.o_id = o  BY <2>r DEF LoadedOrder
    <2> QED  BY <2>2, <2>5, <2>6, <2>k
  <1> QED  BY <1>1, <1>2, <1>3, <1>4

\* The loaded orders are whole.
LEMMA LoadedPlaced == Loaded /\ LinesOK => PlacedOK
  <1> SUFFICES ASSUME Loaded, LinesOK  PROVE PlacedOK  OBVIOUS
  <1>1. PICK shuffle \in Shuffles : order = OrderTable(LoadedOrders(shuffle))  BY DEF Loaded
  <1>2. order_line = LoadedLines /\ base.district = district /\ \A t \in Tasks : pc[t] = "idle"
    BY DEF Loaded
  <1>3. \A k \in DOMAIN order : /\ order[k].w \in Warehouses /\ order[k].d \in Districts
                                /\ order[k].o_id \in Customers /\ order[k].o_ol_cnt = 1
    BY <1>1, LoadedTable
  <1>4. ASSUME NEW w \in Warehouses, NEW d \in Districts
        PROVE  OrderIds(w, d) = Customers /\ IdsPlaced(w, d)
    <2>1. district[<<w, d>>].d_next_o_id \in Nat /\ district[<<w, d>>].d_next_o_id > NCustomers
      BY DEF LinesOK
    <2>2. TakenIds(w, d) = {}  BY <1>2, <2>1 DEF TakenIds
    <2>3. OrderIds(w, d) = Customers  BY <2>2 DEF OrderIds
    <2>4. \A o \in Customers :
            \E k \in DOMAIN order : order[k].w = w /\ order[k].d = d /\ order[k].o_id = o
      BY <1>1, LoadedTable
    <2> QED  BY <1>2, <2>1, <2>3, <2>4, Scales DEF IdsPlaced
  <1>5. \A k \in DOMAIN order_line : k[3] \in OrderIds(k[1], k[2])
    BY <1>2, <1>4, LoadedLinesOK
  <1>6. ASSUME NEW k \in DOMAIN order  PROVE OrderWhole(k)
    <2>r. PICK w, d, o : w = order[k].w /\ d = order[k].d /\ o = order[k].o_id  OBVIOUS
    <2>1. w \in Warehouses /\ d \in Districts /\ o \in Customers /\ order[k].o_ol_cnt = 1  BY <1>3, <2>r
    <2>2. LinesOf(w, d, o) = {<<w, d, o, 0>>}
      <3>1. DOMAIN order_line = Warehouses \X Districts \X Customers \X {0}  BY <1>2 DEF LoadedLines
      <3>2. <<w, d, o, 0>> \in DOMAIN order_line  BY <2>1, <3>1
      <3>3. <<w, d, o, 0>> \in LinesOf(w, d, o)  BY <3>2 DEF LinesOf
      <3>4. ASSUME NEW j \in LinesOf(w, d, o)  PROVE j = <<w, d, o, 0>>
        <4>1. j \in DOMAIN LoadedLines /\ j[1] = w /\ j[2] = d /\ j[3] = o  BY <1>2, <3>4 DEF LinesOf
        <4>2. j = <<j[1], j[2], j[3], j[4]>> /\ j[4] = 0  BY <4>1, LoadedLinesOK
        <4> QED  BY <4>1, <4>2
      <3> QED  BY <3>3, <3>4
    <2>3. Cardinality(LinesOf(w, d, o)) = 1  BY <2>2, FS_Singleton
    <2>4. \A j \in DOMAIN order : order[j].w = w /\ order[j].d = d /\ order[j].o_id = o => j = k
      BY <1>1, <2>r, LoadedTable
    <2>5. \A t \in Tasks : ~Writing(t, order[k])  BY <1>2 DEF Writing
    <2>6. o \in OrderIds(w, d)  BY <1>4, <2>1
    <2>7. 1 >= 1  OBVIOUS
    <2> QED  BY <2>1, <2>3, <2>4, <2>5, <2>6, <2>7, <2>r DEF OrderWhole
  <1>7. \A t \in Tasks : DistrictHeldAt(t)  BY <1>2 DEF DistrictHeldAt
  <1>8. base.district \in [Warehouses \X Districts -> [d_ytd : Int, d_next_o_id : Nat]]
    BY <1>2 DEF LinesOK
  <1> QED  BY <1>4, <1>5, <1>6, <1>7, <1>8 DEF PlacedOK

\* The same of the next state.
LEMMA ResetPlaced == Loaded' /\ LinesOK' => PlacedOK'
  BY LoadedPlaced, PTL

\* PlacedOK is preserved by every step after which ids fit.
LEMMA NextPlaced == IdsFit' /\ PlacedInv /\ [Next]_vars => PlacedOK'
  <1> SUFFICES ASSUME IdsFit', PlacedInv, [Next]_vars  PROVE PlacedOK'  OBVIOUS
  <1>0. TxnOK /\ ItemsOK /\ OrdersOK /\ PanicInv /\ HomeLocksOK /\ LinesOK /\ PlacedOK
    BY DEF PlacedInv, PanicInv
  <1>1. ASSUME NEW t \in Tasks, Step(t)  PROVE PlacedOK'  BY <1>1, WorkPlaced DEF Step
  <1>2. ASSUME NEW t \in Tasks, Begin(t)  PROVE PlacedOK'
    <2>1. district' = district /\ order' = order /\ order_line' = order_line /\ base' = base
          /\ wlock' = wlock /\ pc[t] = "idle"
      BY <1>2 DEF Begin, tables
    <2>2. \A u \in Tasks \ {t} : pc'[u] = pc[u] /\ txn'[u] = txn[u] /\ loc'[u] = loc[u]
      BY <1>0, <1>2, BeginKept DEF Kept, Others
    <2>3. PICK x \in Inputs(t) : pc' = [pc EXCEPT ![t] = FirstStep[x.type]]
      BY <1>2 DEF Begin, Goto
    <2>4. FirstStep[x.type] \notin {"no_c", "no_s", "no_order", "no_line"}
      BY NewOrderInput, OtherInput, FirstSteps DEF Inputs
    <2>5. pc'[t] \notin {"no_c", "no_s", "no_order", "no_line"}  BY <1>0, <2>3, <2>4 DEF TxnOK
    <2>6. ASSUME NEW u \in Tasks  PROVE DistrictHeldAt(u)'
      <3>1. DistrictHeldAt(u)  BY <1>0 DEF PlacedOK
      <3>2. CASE u = t  BY <2>5, <3>2 DEF DistrictHeldAt
      <3>3. CASE u # t  BY <2>1, <2>2, <3>1, <3>3 DEF DistrictHeldAt
      <3> QED  BY <3>2, <3>3
    <2>7. /\ \A u \in Tasks : pc'[u] = "no_line" <=> pc[u] = "no_line"
          /\ \A u \in Tasks : pc[u] = "no_line" => txn'[u] = txn[u] /\ loc'[u] = loc[u]
      BY <2>1, <2>2, <2>5
    <2> QED  BY <1>0, <2>1, <2>6, <2>7, PlacedKept
  <1>3. ASSUME reset_order  PROVE PlacedOK'
    <2>1. LinesOK'  BY <1>0, NextLines
    <2> QED  BY <1>3, <2>1, ResetLoaded, ResetPlaced
  <1>4. ASSUME UNCHANGED vars  PROVE PlacedOK'
    <2>1. district' = district /\ order' = order /\ order_line' = order_line /\ base' = base
          /\ wlock' = wlock /\ pc' = pc /\ txn' = txn /\ loc' = loc
      BY <1>4 DEF vars, tables
    <2>2. \A u \in Tasks : DistrictHeldAt(u)'  BY <1>0, <2>1 DEF PlacedOK, DistrictHeldAt
    <2> QED  BY <1>0, <2>1, <2>2, PlacedKept
  <1> QED  BY <1>1, <1>2, <1>3, <1>4 DEF Next

\* The whole invariant holds at the start ...
LEMMA InitPlaced == Init => PlacedInv
  BY InitPanic, InitLocks, InitLines, InitLoaded, LoadedPlaced DEF PlacedInv

\* ... and is preserved by every step after which ids fit.
LEMMA NextPlacedInv == IdsFit' /\ PlacedInv /\ [Next]_vars => PlacedInv'
  <1>1. LinesOK => DistrictsOK  BY DEF LinesOK, DistrictsOK
  <1> QED  BY <1>1, NextPanic, NextLocks, NextLines, NextPlaced DEF PlacedInv, PanicInv

\* The orders of a district that nobody is ordering from are whole.
LEMMA PlacedComplete == PlacedInv => OrdersComplete
  <1> SUFFICES ASSUME PlacedInv, NEW w \in Warehouses, NEW d \in Districts, Writable(D(w, d)),
                      NEW os, os = {order[k] : k \in {j \in DOMAIN order : order[j].w = w /\ order[j].d = d}}
               PROVE  /\ {r.o_id : r \in os} = OrderIds(w, d)
                      /\ Cardinality(os) = NCustomers + Cardinality(TakenIds(w, d))
                      /\ {k[3] : k \in {j \in DOMAIN order_line : j[1] = w /\ j[2] = d}} = OrderIds(w, d)
                      /\ \A r \in os : r.o_ol_cnt = Cardinality(LinesOf(w, d, r.o_id))
    BY DEF OrdersComplete
  <1>0. LinesOK /\ PlacedOK  BY DEF PlacedInv
  <1>p. IdsPlaced(w, d)  BY <1>0 DEF PlacedOK
  <1>1. \A t \in Tasks : ~(pc[t] = "no_line" /\ txn[t].w = w /\ txn[t].d = d)
    BY <1>0 DEF PlacedOK, DistrictHeldAt, Writable
  <1>2. ASSUME NEW r \in os
        PROVE  /\ \E k \in DOMAIN order : r = order[k] /\ r.w = w /\ r.d = d
               /\ r.o_id \in OrderIds(w, d) /\ r.o_ol_cnt >= 1
               /\ r.o_ol_cnt = Cardinality(LinesOf(w, d, r.o_id))
    <2>1. PICK k \in DOMAIN order : r = order[k] /\ r.w = w /\ r.d = d  BY <1>2
    <2>2. OrderWhole(k)  BY <1>0 DEF PlacedOK
    <2>3. \A t \in Tasks : ~Writing(t, r)  BY <1>1, <2>1 DEF Writing
    <2> QED  BY <2>1, <2>2, <2>3 DEF OrderWhole
  <1>3. ASSUME NEW q \in os, NEW r \in os, q.o_id = r.o_id  PROVE q = r
    <2>1. PICK j \in DOMAIN order : q = order[j] /\ q.w = w /\ q.d = d  BY <1>2
    <2>2. PICK k \in DOMAIN order : r = order[k] /\ r.w = w /\ r.d = d  BY <1>2
    <2>3. OrderWhole(k)  BY <1>0 DEF PlacedOK
    <2>4. j = k  BY <1>3, <2>1, <2>2, <2>3 DEF OrderWhole
    <2> QED  BY <2>1, <2>2, <2>4
  <1>4. ASSUME NEW o \in OrderIds(w, d)  PROVE \E r \in os : r.o_id = o
    BY <1>p DEF IdsPlaced
  <1>5. {r.o_id : r \in os} = OrderIds(w, d)  BY <1>2, <1>4
  <1>6. IsFiniteSet(OrderIds(w, d)) /\ Cardinality(OrderIds(w, d)) = NCustomers + Cardinality(TakenIds(w, d))
    <2>b. PICK b, e : b = base.district[<<w, d>>].d_next_o_id /\ e = district[<<w, d>>].d_next_o_id  OBVIOUS
    <2>1. b \in Nat /\ e \in Nat /\ NCustomers < b  BY <1>0, <1>p, <2>b DEF PlacedOK, LinesOK, IdsPlaced
    <2>t. PICK T : T = TakenIds(w, d)  OBVIOUS
    <2>2. T = b .. e - 1  BY <2>b, <2>t DEF TakenIds
    <2>3. IsFiniteSet(T) /\ Cardinality(T) \in Nat
      <3>1. IsFiniteSet(b .. e - 1)  BY <2>1, FS_Interval
      <3> QED  BY <2>2, <3>1, FS_CardinalityType
    <2>4. IsFiniteSet(Customers) /\ Cardinality(Customers) = NCustomers
      <3> PICK n : n = NCustomers - 1  OBVIOUS
      <3>1. n \in Nat /\ Customers = 0 .. n  BY Scales DEF Customers
      <3>2. IsFiniteSet(0 .. n) /\ Cardinality(0 .. n) = n + 1  BY ONLY <3>1, UpTo, Zenon
      <3> QED  BY <3>1, <3>2, Scales
    <2>5. Customers \cap T = {}  BY <2>1, <2>2, Scales DEF Customers
    <2>6. Cardinality(Customers \cap T) = 0  BY <2>5, FS_EmptySet
    <2>7. IsFiniteSet(Customers \cup T)
          /\ Cardinality(Customers \cup T) = Cardinality(Customers) + Cardinality(T) - Cardinality(Customers \cap T)
      BY <2>3, <2>4, FS_Union
    <2> QED  BY <2>3, <2>4, <2>6, <2>7, <2>t, Scales DEF OrderIds
  <1>7. Cardinality(os) = Cardinality(OrderIds(w, d))
    <2> DEFINE f == [r \in os |-> r.o_id]
    <2>1. f \in [os -> OrderIds(w, d)] /\ (\A q, r \in os : f[q] = f[r] => q = r)
          /\ (\A o \in OrderIds(w, d) : \E r \in os : f[r] = o)
      BY <1>2, <1>3, <1>4
    <2>2. f \in Injection(os, OrderIds(w, d)) /\ f \in Surjection(os, OrderIds(w, d))
      <3> HIDE DEF f
      <3>1. f \in Injection(os, OrderIds(w, d))  BY <2>1 DEF Injection, IsInjective
      <3>2. f \in Surjection(os, OrderIds(w, d))  BY <2>1 DEF Surjection
      <3> QED  BY <3>1, <3>2
    <2> HIDE DEF f
    <2> QED  BY <1>6, <2>2, FS_Injection
  <1>8. {k[3] : k \in {j \in DOMAIN order_line : j[1] = w /\ j[2] = d}} = OrderIds(w, d)
    <2>1. ASSUME NEW k \in DOMAIN order_line, k[1] = w, k[2] = d  PROVE k[3] \in OrderIds(w, d)
      BY <1>0, <2>1 DEF PlacedOK
    <2>2. ASSUME NEW o \in OrderIds(w, d)
          PROVE  \E k \in DOMAIN order_line : k[1] = w /\ k[2] = d /\ k[3] = o
      <3>1. PICK r \in os : r.o_id = o  BY <1>4
      <3>2. Cardinality(LinesOf(w, d, o)) >= 1  BY <1>2, <3>1
      <3>3. LinesOf(w, d, o) # {}  BY <3>2, FS_EmptySet
      <3> QED  BY <3>3 DEF LinesOf
    <2> QED  BY <2>1, <2>2
  <1>9. \A r \in os : r.o_ol_cnt = Cardinality(LinesOf(w, d, r.o_id))  BY <1>2
  <1> QED  BY <1>5, <1>6, <1>7, <1>8, <1>9

\* In a district that nobody is ordering from, the ids given out since load or
\* reset_order are those of one order each, none skipped by an attempt that
\* failed, and every order has exactly the lines it was placed with, as long as
\* no district's ids have outgrown their field of a key: OrdersComplete.
THEOREM OrdersStayComplete == Spec => []OrdersComplete
  <1> DEFINE Inv == TxnOK /\ ItemsOK /\ DistrictsOK /\ (IdsFit => PlacedInv)
  <1>1. Init => Inv  BY InitTxn, InitDistricts, InitPlaced
  <1>2. Inv /\ [Next]_vars => Inv'
    <2>1. Inv /\ [Next]_vars => (TxnOK /\ ItemsOK /\ DistrictsOK)' /\ (IdsFit' => IdsFit)
      BY NextTxn, NextDistricts
    <2>2. Inv /\ [Next]_vars /\ IdsFit' => PlacedInv'  BY <2>1, NextPlacedInv
    <2> QED  BY <2>1, <2>2
  <1>3. Inv => OrdersComplete
    <2>1. PlacedInv => OrdersComplete  BY PlacedComplete
    <2>2. ~IdsFit => OrdersComplete  BY DEF OrdersComplete
    <2> QED  BY <2>1, <2>2
  <1> QED  BY <1>1, <1>2, <1>3, PTL DEF Spec

-----------------------------------------------------------------------------
(* Deliveries: CreditedOnce.                                                  *)

\* Every place of a sorted scan is that of one key: as many keys come before it.
LEMMA Ranks ==
  ASSUME NEW found, IsFiniteSet(found), \A k \in found : k[4] \in Int,
         \A j \in found, k \in found : j[4] = k[4] => j = k,
         NEW i \in 1 .. Cardinality(found)
  PROVE  \E k \in found : Cardinality({j \in found : j[4] < k[4]}) = i - 1
  <1> DEFINE low(k) == {j \in found : j[4] < k[4]}
             rank == [k \in found |-> Cardinality(low(k))]
             n == Cardinality(found)
  <1>0. n \in Nat  BY FS_CardinalityType
  <1>1. ASSUME NEW k \in found  PROVE IsFiniteSet(low(k)) /\ rank[k] \in 0 .. n - 1
    <2>1. low(k) \in SUBSET found /\ k \notin low(k)  OBVIOUS
    <2> HIDE DEF low
    <2>2. IsFiniteSet(low(k)) /\ Cardinality(low(k)) <= n /\ (n = Cardinality(low(k)) => found = low(k))
      BY <2>1, FS_Subset
    <2>3. Cardinality(low(k)) \in Nat /\ Cardinality(low(k)) # n  BY <1>1, <2>1, <2>2, FS_CardinalityType
    <2> HIDE DEF n
    <2> QED  BY <1>0, <2>2, <2>3
  <1>t. \A k \in found : rank[k] \in Nat
    <2>1. \A k \in found : rank[k] \in 0 .. n - 1  BY <1>1
    <2> HIDE DEF rank, n
    <2> QED  BY <1>0, <2>1
  <1>2. ASSUME NEW j \in found, NEW k \in found, j[4] < k[4]  PROVE rank[j] < rank[k]
    <2>1. low(j) \in SUBSET low(k) /\ j \in low(k) /\ j \notin low(j)
      <3>1. \A m \in found : m[4] < j[4] => m[4] < k[4]
        <4> SUFFICES ASSUME NEW m \in found, m[4] < j[4]  PROVE m[4] < k[4]  OBVIOUS
        <4>1. m[4] \in Int /\ j[4] \in Int /\ k[4] \in Int  BY <1>2
        <4> QED  BY <1>2, <4>1
      <3> QED  BY <1>2, <3>1
    <2>2. IsFiniteSet(low(k)) /\ rank[j] = Cardinality(low(j)) /\ rank[k] = Cardinality(low(k))
      BY <1>1
    <2>t. rank[j] \in Nat /\ rank[k] \in Nat  BY <1>t
    <2> HIDE DEF low, rank
    <2>3. Cardinality(low(j)) <= Cardinality(low(k)) /\ Cardinality(low(k)) # Cardinality(low(j))
      BY <2>1, <2>2, FS_Subset
    <2> QED  BY <2>2, <2>3, <2>t
  <1>3. rank \in Injection(found, 0 .. n - 1)
    <2>1. ASSUME NEW j \in found, NEW k \in found, rank[j] = rank[k]  PROVE j = k
      <3>1. j[4] \in Int /\ k[4] \in Int
        <4> HIDE DEF rank
        <4> QED  OBVIOUS
      <3>2. ~(rank[j] < rank[k]) /\ ~(rank[k] < rank[j])
        <4>1. rank[j] \in Nat /\ rank[k] \in Nat  BY <1>t
        <4> HIDE DEF rank
        <4> QED  BY <2>1, <4>1
      <3>3. ~(j[4] < k[4]) /\ ~(k[4] < j[4])
        <4> HIDE DEF rank
        <4> QED  BY <1>2, <3>2
      <3> QED  BY <3>1, <3>3
    <2>2. rank \in [found -> 0 .. n - 1]
      <3>1. \A k \in found : rank[k] \in 0 .. n - 1  BY <1>1
      <3>2. rank = [k \in found |-> rank[k]]  OBVIOUS
      <3> HIDE DEF rank, n
      <3> QED  BY <3>1, <3>2
    <2> HIDE DEF rank, n
    <2>3. DOMAIN rank = found  BY <2>2
    <2> QED  BY <2>1, <2>2, <2>3 DEF Injection, IsInjective
  <1>4. rank \in Surjection(found, 0 .. n - 1)
    <2> HIDE DEF rank
    <2>1. IsFiniteSet(0 .. n - 1) /\ Cardinality(0 .. n - 1) = n
      <3> HIDE DEF n
      <3> QED  BY <1>0, FS_Interval
    <2> QED  BY <1>3, <2>1, FS_Injection
  <1>5. i - 1 \in 0 .. n - 1
    <2>1. i \in 1 .. n  OBVIOUS
    <2> HIDE DEF n
    <2> QED  BY <1>0, <2>1
  <1>6. PICK k \in found : rank[k] = i - 1
    <2> HIDE DEF rank, n
    <2> QED  BY <1>4, <1>5 DEF Surjection
  <1> QED  BY <1>6

\* The scan of an order's lines yields lines of the order, each once.
LEMMA ScanOfOrder ==
  ASSUME LinesOK, NEW w, NEW d, NEW o, NEW rids, rids = ScanLines(w, d, {o}, NItems, 20)
  PROVE  rids \in Seq(LinesOf(w, d, o)) /\ IsInjective(rids)
  <1> DEFINE found == {k \in DOMAIN order_line : k[1] = w /\ k[2] = d /\ k[3] \in {o} /\ k[4] < NItems}
             before(k) == {j \in found : j[3] < k[3] \/ (j[3] = k[3] /\ j[4] < k[4])}
             low(k) == {j \in found : j[4] < k[4]}
             m == Min({20, Cardinality(found)})
             at(i) == CHOOSE k \in found : Cardinality(before(k)) = i - 1
  <1>1. rids = [i \in 1 .. m |-> at(i)]  BY DEF ScanLines
  <1>2. /\ IsFiniteSet(found) /\ found \in SUBSET LinesOf(w, d, o)
        /\ \A k \in found : k[4] \in Int /\ k[3] \in Nat /\ k[3] = o /\ k = <<k[1], k[2], k[3], k[4]>>
    <2>1. IsFiniteSet(DOMAIN order_line) /\ found \in SUBSET DOMAIN order_line  BY DEF LinesOK
    <2>2. IsFiniteSet(found)
      <3> HIDE DEF found
      <3> QED  BY <2>1, FS_Subset
    <2>3. found \in SUBSET LinesOf(w, d, o)  BY DEF LinesOf
    <2>4. ASSUME NEW k \in found
          PROVE  k[4] \in Int /\ k[3] \in Nat /\ k[3] = o /\ k = <<k[1], k[2], k[3], k[4]>>
      <3>1. k \in DOMAIN order_line /\ k[3] = o  OBVIOUS
      <3> HIDE DEF found
      <3>2. k[4] \in Nat /\ k[3] \in Nat /\ k = <<k[1], k[2], k[3], k[4]>>  BY <3>1 DEF LinesOK
      <3> QED  BY <3>1, <3>2
    <2> HIDE DEF found
    <2> QED  BY <2>2, <2>3, <2>4
  <1>3. \A j \in found, k \in found : j[4] = k[4] => j = k
    <2> SUFFICES ASSUME NEW j \in found, NEW k \in found, j[4] = k[4]  PROVE j = k  OBVIOUS
    <2>1. j[1] = w /\ k[1] = w /\ j[2] = d /\ k[2] = d  OBVIOUS
    <2> HIDE DEF found
    <2> QED  BY <1>2, <2>1
  <1>4. \A k \in found : before(k) = low(k)
    <2> SUFFICES ASSUME NEW k \in found  PROVE before(k) = low(k)  OBVIOUS
    <2> HIDE DEF found
    <2>1. \A j \in found : j[3] = k[3] /\ ~(j[3] < k[3])  BY <1>2
    <2> QED  BY <2>1
  <1>5. m \in Nat /\ m <= Cardinality(found) /\ Cardinality(found) \in Nat
    <2> HIDE DEF found
    <2>1. Cardinality(found) \in Nat  BY <1>2, FS_CardinalityType
    <2> QED  BY <2>1, MinOfTwo
  <1>6. ASSUME NEW i \in 1 .. m  PROVE at(i) \in found /\ Cardinality(before(at(i))) = i - 1
    <2>1. i \in 1 .. Cardinality(found)
      <3> HIDE DEF m, found
      <3> QED  BY <1>5
    <2>2. \E k \in found : Cardinality(low(k)) = i - 1
      <3> HIDE DEF found
      <3> QED  BY <1>2, <1>3, <2>1, Ranks
    <2> HIDE DEF found, low, before
    <2>3. PICK k \in found : Cardinality(before(k)) = i - 1  BY <1>4, <2>2
    <2> QED  BY <2>3
  <1> HIDE DEF found, before, low, at, m
  <1>7. DOMAIN rids = 1 .. m /\ \A i \in 1 .. m : rids[i] = at(i)  BY <1>1
  <1>8. rids \in [1 .. m -> LinesOf(w, d, o)]
    <2>1. \A i \in 1 .. m : rids[i] \in LinesOf(w, d, o)  BY <1>2, <1>6, <1>7
    <2>2. rids = [i \in 1 .. m |-> rids[i]]  BY <1>1
    <2> QED  BY <2>1, <2>2
  <1>9. rids \in Seq(LinesOf(w, d, o))
    <2>1. \E n \in Nat : rids \in [1 .. n -> LinesOf(w, d, o)]  BY <1>5, <1>8
    <2> PICK Ls : Ls = LinesOf(w, d, o)  OBVIOUS
    <2>2. Seq(Ls) = UNION {[1 .. n -> Ls] : n \in Nat}  BY SeqDef
    <2> QED  BY <2>1, <2>2, Zenon
  <1>10. IsInjective(rids)
    <2> SUFFICES ASSUME NEW a \in 1 .. m, NEW b \in 1 .. m, rids[a] = rids[b]  PROVE a = b
      BY <1>7 DEF IsInjective
    <2>1. a - 1 = b - 1  BY <1>6, <1>7
    <2> QED  BY <1>5, <2>1
  <1> QED  BY <1>9, <1>10

\* What is left to visit after the first line.
LEMMA RestOfLines ==
  ASSUME NEW Ls, NEW rids \in Seq(Ls), rids # <<>>, IsInjective(rids)
  PROVE  /\ Head(rids) \in Range(rids) /\ Range(rids) \in SUBSET Ls
         /\ Tail(rids) \in Seq(Ls) /\ IsInjective(Tail(rids))
         /\ Range(Tail(rids)) = Range(rids) \ {Head(rids)}
         /\ Len(rids) # 1 => Tail(rids) # <<>>
         /\ Len(rids) = 1 => Range(rids) = {Head(rids)}
  <1>n. PICK n : n = Len(rids) - 1  OBVIOUS
  <1>1. n \in Nat /\ Len(rids) = n + 1 /\ DOMAIN rids = 1 .. n + 1
    <2>1. Len(rids) \in Nat /\ Len(rids) # 0 /\ DOMAIN rids = 1 .. Len(rids)  OBVIOUS
    <2>2. n \in Nat /\ Len(rids) = n + 1  BY <1>n, <2>1
    <2> QED  BY <2>1, <2>2
  <1>t. PICK tl : tl = Tail(rids)  OBVIOUS
  <1>2. /\ tl \in Seq(Ls) /\ Len(tl) = n /\ DOMAIN tl = 1 .. n
        /\ \A i \in 1 .. n : tl[i] = rids[i + 1]
    <2>1. Tail(rids) \in Seq(Ls) /\ Len(Tail(rids)) = Len(rids) - 1  OBVIOUS
    <2>2. ASSUME NEW i \in 1 .. n  PROVE Tail(rids)[i] = rids[i + 1]  BY <1>1
    <2>3. DOMAIN Tail(rids) = 1 .. Len(Tail(rids))  BY <2>1
    <2> QED  BY <1>1, <1>t, <2>1, <2>2, <2>3
  <1>3. Head(rids) = rids[1]  OBVIOUS
  <1>4. \A a \in 1 .. n + 1, b \in 1 .. n + 1 : rids[a] = rids[b] => a = b  BY <1>1 DEF IsInjective
  <1>5. Head(rids) \in Range(rids)  BY <1>1, <1>3 DEF Range
  <1>6. Range(rids) \in SUBSET Ls  BY DEF Range
  <1>7. IsInjective(tl)
    <2> SUFFICES ASSUME NEW a \in 1 .. n, NEW b \in 1 .. n, tl[a] = tl[b]  PROVE a = b
      BY <1>2 DEF IsInjective
    <2>1. rids[a + 1] = rids[b + 1] /\ a + 1 \in 1 .. n + 1 /\ b + 1 \in 1 .. n + 1  BY <1>2
    <2>2. a + 1 = b + 1  BY <1>4, <2>1
    <2> QED  BY <2>2
  <1>8. Range(tl) = Range(rids) \ {Head(rids)}
    <2>1. ASSUME NEW x \in Range(tl)  PROVE x \in Range(rids) /\ x # Head(rids)
      <3>1. PICK i \in 1 .. n : x = tl[i]  BY <1>2 DEF Range
      <3>2. x = rids[i + 1] /\ i + 1 \in 1 .. n + 1 /\ 1 \in 1 .. n + 1 /\ i + 1 # 1  BY <1>2, <3>1
      <3> QED  BY <1>1, <1>3, <1>4, <3>2 DEF Range
    <2>2. ASSUME NEW x \in Range(rids), x # Head(rids)  PROVE x \in Range(tl)
      <3>1. PICK i \in 1 .. n + 1 : x = rids[i]  BY <1>1 DEF Range
      <3>2. i # 1  BY <1>3, <2>2, <3>1
      <3>3. i - 1 \in 1 .. n /\ (i - 1) + 1 = i  BY <1>1, <3>1, <3>2
      <3>4. tl[i - 1] = x  BY <1>2, <3>1, <3>3
      <3> QED  BY <1>2, <3>3, <3>4 DEF Range
    <2> QED  BY <2>1, <2>2
  <1>9. Len(rids) # 1 => tl # <<>>
    <2> SUFFICES ASSUME Len(rids) # 1  PROVE tl # <<>>  OBVIOUS
    <2>1. Len(tl) # 0  BY <1>1, <1>2
    <2> QED  BY <2>1
  <1>10. Len(rids) = 1 => Range(rids) = {Head(rids)}
    <2> SUFFICES ASSUME Len(rids) = 1  PROVE Range(rids) = {rids[1]}  BY <1>3
    <2>1. DOMAIN rids = {1}  BY <1>1
    <2> QED  BY <2>1 DEF Range
  <1> QED  BY <1>t, <1>2, <1>5, <1>6, <1>7, <1>8, <1>9, <1>10

\* The lines and the orders there are stay, what they say of amounts and ids too.
LinesGrow ==
  /\ DOMAIN order_line \subseteq DOMAIN order_line'
  /\ \A k \in DOMAIN order_line : order_line'[k].amount = order_line[k].amount
OrdersGrow ==
  /\ DOMAIN order \subseteq DOMAIN order'
  /\ \A k \in DOMAIN order : /\ order'[k].w = order[k].w /\ order'[k].d = order[k].d
                             /\ order'[k].o_id = order[k].o_id /\ order'[k].o_c_id = order[k].o_c_id

\* No step of a transaction removes a line ...
LEMMA WorkLinesGrow ==
  ASSUME TxnOK, ItemsOK, LinesOK, NEW t \in Tasks, Work(t)
  PROVE  LinesGrow
  <1>1. CASE NewOrderLine(t)
    <2>l. PICK l : l = txn[t].lines[loc[t].n + 1]  OBVIOUS
    <2>k. PICK k : k = <<txn[t].w, txn[t].d, loc[t].o, l.item>>  OBVIOUS
    <2>1. DOMAIN order_line' = DOMAIN order_line \cup {k}
          /\ \A j \in DOMAIN order_line : order_line'[j] = order_line[j]
      BY <1>1, <2>l, <2>k, LineWritten
    <2> QED  BY <2>1 DEF LinesGrow
  <1>2. CASE ~NewOrderLine(t)  BY <1>2, LinesStay DEF LinesGrow
  <1> QED  BY <1>1, <1>2

\* ... or an order.
LEMMA WorkOrdersGrow ==
  ASSUME IdsFit', PlacedInv, NEW t \in Tasks, Work(t)
  PROVE  OrdersGrow
  <1>1. PanicInv /\ LinesOK /\ PlacedOK /\ OrdersOK  BY DEF PlacedInv, PanicInv
  <1>2. CASE NewOrderPlace(t)
    <2>r. PICK rec : rec = Placed(t)  OBVIOUS
    <2>1. DOMAIN order' = DOMAIN order \cup {order_key(rec)} /\ \A k \in DOMAIN order : order'[k] = order[k]
      BY <1>1, <1>2, <2>r, PlacedBefore, OrderPlaced
    <2> QED  BY <2>1 DEF OrdersGrow
  <1>3. CASE ~NewOrderPlace(t)  BY <1>1, <1>3, OrderFields DEF OrdersGrow
  <1> QED  BY <1>2, <1>3

\* An order that is out of the new_order index stays out: the key of a new order
\* is new.
LEMMA WorkGoneGrows ==
  ASSUME IdsFit', PlacedInv, NEW t \in Tasks, Work(t), NEW w, NEW d, NEW c
  PROVE  Gone(w, d, c) \subseteq Gone(w, d, c)'
  <1>1. PanicInv /\ LinesOK /\ PlacedOK /\ OrdersOK /\ IdsTaken  BY PlacedBefore DEF PlacedInv, PanicInv
  <1>2. OrdersGrow  BY WorkOrdersGrow
  <1> SUFFICES ASSUME NEW k \in Gone(w, d, c)  PROVE k \in Gone(w, d, c)'  OBVIOUS
  <1>3. /\ k \in DOMAIN order /\ order[k].w = w /\ order[k].d = d /\ order[k].o_c_id = c
        /\ new_order_key(order[k]) \notin new_order
    BY DEF Gone
  <1>4. /\ k \in DOMAIN order' /\ order'[k].w = w /\ order'[k].d = d /\ order'[k].o_c_id = c
        /\ new_order_key(order'[k]) = new_order_key(order[k])
    BY <1>2, <1>3 DEF OrdersGrow, new_order_key
  <1>5. new_order_key(order[k]) \notin new_order'
    <2>1. CASE NewOrderPlace(t)
      <3>r. PICK rec, r : rec = Placed(t) /\ r = order[k]  OBVIOUS
      <3>1. /\ new_order' = new_order \cup {new_order_key(rec)} /\ rec \in OrderRecords
            /\ rec.o_id = district[<<rec.w, rec.d>>].d_next_o_id /\ rec.o_id \in Nat
        BY <1>1, <2>1, <3>r, OrderPlaced
      <3>2. r \in OrderRecords /\ r.o_id < district[<<r.w, r.d>>].d_next_o_id
        BY <1>1, <1>3, <3>r DEF OrdersOK, IdsTaken
      <3>3. SUFFICES ASSUME new_order_key(r) = new_order_key(rec)  PROVE FALSE  BY <1>3, <3>1, <3>r
      <3>4. PICK q : q = new_order_key(r)  OBVIOUS
      <3>5. /\ r.w \in Nat /\ r.d \in Fields /\ r.o_id \in Fields /\ r.o_c_id \in Fields
            /\ q = make_key(r.w, r.d, r.o_id, r.o_c_id)
        BY <3>2, <3>4, RecordKeys
      <3>6. /\ rec.w \in Nat /\ rec.d \in Fields /\ rec.o_id \in Fields /\ rec.o_c_id \in Fields
            /\ q = make_key(rec.w, rec.d, rec.o_id, rec.o_c_id)
        BY <3>1, <3>3, <3>4, RecordKeys
      <3>7. /\ r.w = ((q \div Radix) \div Radix) \div Radix /\ r.d = ((q \div Radix) \div Radix) % Radix
            /\ r.o_id = (q \div Radix) % Radix
        BY <3>5, KeyFields
      <3>8. /\ rec.w = ((q \div Radix) \div Radix) \div Radix /\ rec.d = ((q \div Radix) \div Radix) % Radix
            /\ rec.o_id = (q \div Radix) % Radix
        BY <3>6, KeyFields
      <3>9. r.w = rec.w /\ r.d = rec.d /\ r.o_id = rec.o_id  BY <3>7, <3>8
      <3>10. rec.o_id < rec.o_id  BY <3>1, <3>2, <3>9
      <3> QED  BY <3>1, <3>10
    <2>2. CASE ~NewOrderPlace(t)
      <3>1. new_order' \subseteq new_order
        <4>1. CASE DeliveryScan(t)  BY <4>1 DEF DeliveryScan, Taken
        <4>2. CASE ~DeliveryScan(t)  BY <2>2, <4>2, Writes
        <4> QED  BY <4>1, <4>2
      <3> QED  BY <1>3, <3>1
    <2> QED  BY <2>1, <2>2
  <1> QED  BY <1>4, <1>5 DEF Gone

\* The lines of an order are finitely many, of whole amounts.
AmountsOK ==
  \A w, d, o : /\ IsFiniteSet(LinesOf(w, d, o))
               /\ \A k \in LinesOf(w, d, o) : /\ Amounts[k] \in Nat
                                             /\ Amounts[k] = order_line[k].amount
               /\ OrderAmount(w, d, o) \in Nat

\* It follows from LinesOK ...
LEMMA LineAmounts == LinesOK => AmountsOK
  <1> SUFFICES ASSUME LinesOK, NEW w, NEW d, NEW o
               PROVE  /\ IsFiniteSet(LinesOf(w, d, o))
                      /\ \A k \in LinesOf(w, d, o) : /\ Amounts[k] \in Nat
                                                    /\ Amounts[k] = order_line[k].amount
                      /\ OrderAmount(w, d, o) \in Nat
    BY DEF AmountsOK
  <1>1. LinesOf(w, d, o) \subseteq DOMAIN order_line  BY DEF LinesOf
  <1>2. IsFiniteSet(LinesOf(w, d, o))  BY <1>1, FS_Subset DEF LinesOK
  <1>3. \A k \in LinesOf(w, d, o) : Amounts[k] \in Nat /\ Amounts[k] = order_line[k].amount
    BY <1>1 DEF LinesOK, LineRecords, Amounts
  <1>4. SumFunctionOnSet(Amounts, LinesOf(w, d, o)) \in Nat  BY <1>2, <1>3, SumPart
  <1> QED  BY <1>2, <1>3, <1>4 DEF OrderAmount

\* ... in the next state too.
LEMMA LineAmountsNext == LinesOK' => AmountsOK'
  BY LineAmounts, PTL

\* An order comes to no less after a step.
LEMMA OrderAmountGrows ==
  ASSUME LinesOK, LinesOK', LinesGrow, NEW w, NEW d, NEW o
  PROVE  OrderAmount(w, d, o) <= OrderAmount(w, d, o)'
  <1>p. PICK s, s2, f, g : /\ s = LinesOf(w, d, o) /\ s2 = LinesOf(w, d, o)'
                           /\ f = Amounts /\ g = Amounts'
    OBVIOUS
  <1>1. /\ IsFiniteSet(s2) /\ s \in SUBSET s2 /\ IsFiniteSet(s)
        /\ \A k \in s2 : g[k] \in Nat
        /\ \A k \in s : f[k] \in Nat /\ g[k] = f[k]
    <2>1. s \in SUBSET s2  BY <1>p DEF LinesOf, LinesGrow
    <2>2. IsFiniteSet(s2) /\ \A k \in s2 : g[k] \in Nat /\ g[k] = order_line'[k].amount
      BY <1>p, LineAmountsNext DEF AmountsOK
    <2>3. IsFiniteSet(s) /\ \A k \in s : f[k] \in Nat /\ f[k] = order_line[k].amount
      BY <1>p, LineAmounts DEF AmountsOK
    <2>4. \A k \in s : k \in DOMAIN order_line  BY <1>p DEF LinesOf
    <2> QED  BY <2>1, <2>2, <2>3, <2>4 DEF LinesGrow
  <1>2. SumFunctionOnSet(g, s) = SumFunctionOnSet(f, s)
    <2>1. Ints(f, s)  BY <1>1 DEF Ints
    <2> QED  BY <1>1, <2>1, SumSame
  <1>3. SumFunctionOnSet(g, s) <= SumFunctionOnSet(g, s2)  BY <1>1, SumPart
  <1> QED  BY <1>p, <1>2, <1>3 DEF OrderAmount

\* What an order comes to is a number.
OwedOK == \A k \in DOMAIN order : Owed[k] \in Nat

\* It is, ...
LEMMA OrdersOwed == LinesOK => OwedOK
  BY LineAmounts DEF Owed, OwedOK, AmountsOK

\* ... in the next state too, ...
LEMMA OrdersOwedNext == LinesOK' => OwedOK'
  BY OrdersOwed, PTL

\* ... and no less there.
LEMMA OwedGrows ==
  ASSUME LinesOK, LinesOK', LinesGrow, OrdersGrow, NEW k \in DOMAIN order
  PROVE  Owed[k] <= Owed'[k]
  <1>p. PICK w, d, o : w = order[k].w /\ d = order[k].d /\ o = order[k].o_id  OBVIOUS
  <1>1. k \in DOMAIN order' /\ order'[k].w = w /\ order'[k].d = d /\ order'[k].o_id = o
    BY <1>p DEF OrdersGrow
  <1>2. Owed[k] = OrderAmount(w, d, o)  BY <1>p DEF Owed
  <1>3. Owed'[k] = OrderAmount(w, d, o)'
    <2>1. Owed' = [j \in DOMAIN order' |-> OrderAmount(order[j].w, order[j].d, order[j].o_id)']  BY DEF Owed
    <2> QED  BY <1>1, <2>1
  <1>4. OrderAmount(w, d, o) <= OrderAmount(w, d, o)'  BY OrderAmountGrows
  <1> QED  BY <1>2, <1>3, <1>4

\* A task that is delivering has just taken the order, or goes on with it.
LEMMA DeliveryMoves ==
  ASSUME TxnOK, ItemsOK, NEW t \in Tasks, Work(t), Delivering(t)'
  PROVE  \/ DeliveryScan(t) /\ pc'[t] = "dlv_o"
         \/ /\ DeliveryOrder(t) \/ DeliveryLine(t) \/ DeliveryCustomer(t)
            /\ Delivering(t) /\ txn'[t] = txn[t] /\ loc'[t].key = loc[t].key
            /\ loc'[t].n = loc[t].n /\ loc'[t].o = loc[t].o /\ loc'[t].c = loc[t].c
  <1>d. DOMAIN pc = Tasks /\ DOMAIN loc = Tasks /\ DOMAIN txn = Tasks /\ DOMAIN loc[t] = DOMAIN Fresh
    BY DEF TxnOK, TxnAt
  <1>f. "rids" # "key" /\ "rids" # "n" /\ "rids" # "o" /\ "rids" # "c" /\ "sum" # "key" /\ "sum" # "n"
        /\ "sum" # "o" /\ "sum" # "c"
    OBVIOUS
  <1>1. pc'[t] \in {"dlv_o", "dlv_ol", "dlv_c", "dlv_upd"}  BY DEF Delivering
  <1>2. \/ DeliveryScan(t) /\ pc'[t] = "dlv_o"
        \/ DeliveryOrder(t) /\ pc'[t] # "panic"
        \/ DeliveryLine(t) \/ DeliveryCustomer(t)
    BY <1>1, Moves, Arrivals
  <1>3. CASE DeliveryOrder(t) /\ pc'[t] # "panic"
    <2>p. PICK rids : rids = ScanLines(txn[t].w, loc[t].n, {loc[t].o}, NItems, 20)  OBVIOUS
    <2>1. pc[t] = "dlv_o" /\ txn' = txn  BY <1>3 DEF DeliveryOrder
    <2>2. loc' = [loc EXCEPT ![t] = [loc[t] EXCEPT !.rids = rids]]
      BY <1>3, <1>d, <2>p DEF DeliveryOrder, Set, Goto
    <2>3. loc'[t] = [loc[t] EXCEPT !.rids = rids]  BY <1>d, <2>2
    <2>4. /\ loc'[t].key = loc[t].key /\ loc'[t].n = loc[t].n /\ loc'[t].o = loc[t].o
          /\ loc'[t].c = loc[t].c
      BY <1>d, <1>f, <2>3 DEF Fresh
    <2> QED  BY <1>3, <2>1, <2>4 DEF Delivering
  <1>4. CASE DeliveryLine(t)
    <2>p. PICK a, b : a = Tail(loc[t].rids) /\ b = loc[t].sum + order_line[Head(loc[t].rids)].amount  OBVIOUS
    <2>1. pc[t] = "dlv_ol" /\ txn' = txn  BY <1>4 DEF DeliveryLine
    <2>2. loc' = [loc EXCEPT ![t] = [loc[t] EXCEPT !.rids = a, !.sum = b]]
      BY <1>4, <2>p DEF DeliveryLine, Set
    <2>3. loc'[t] = [loc[t] EXCEPT !.rids = a, !.sum = b]  BY <1>d, <2>2
    <2>4. /\ loc'[t].key = loc[t].key /\ loc'[t].n = loc[t].n /\ loc'[t].o = loc[t].o
          /\ loc'[t].c = loc[t].c
      BY <1>d, <1>f, <2>3 DEF Fresh
    <2> QED  BY <1>4, <2>1, <2>4 DEF Delivering
  <1>5. CASE DeliveryCustomer(t)  BY <1>5 DEF DeliveryCustomer, Delivering
  <1> QED  BY <1>2, <1>3, <1>4, <1>5

\* The orders in delivery are those that were, and the one that is taken.
LEMMA InDeliveryNext ==
  ASSUME TxnOK, ItemsOK, NEW t \in Tasks, Work(t), NEW k \in InDelivery'
  PROVE  k \in InDelivery \/ (DeliveryScan(t) /\ pc'[t] = "dlv_o" /\ k = loc'[t].key)
  <1>1. PICK u \in Tasks : Delivering(u)' /\ k = loc'[u].key  BY DEF InDelivery
  <1>2. CASE u = t
    <2>0. Delivering(t)'  BY <1>1, <1>2 DEF Delivering
    <2>1. (Delivering(t) /\ loc'[t].key = loc[t].key) \/ (DeliveryScan(t) /\ pc'[t] = "dlv_o")
      BY <2>0, DeliveryMoves
    <2> QED  BY <1>1, <1>2, <2>1 DEF InDelivery
  <1>3. CASE u # t
    <2>1. pc'[u] = pc[u] /\ loc'[u] = loc[u]  BY <1>3, WorkKept DEF Kept, Others
    <2> QED  BY <1>1, <2>1 DEF InDelivery, Delivering
  <1> QED  BY <1>2, <1>3

\* What is settled stays settled: an order is taken from the index once.
LEMMA SettledGrows ==
  ASSUME IdsFit', PlacedInv, NEW t \in Tasks, Work(t), NEW w, NEW d, NEW c
  PROVE  Settled(w, d, c) \subseteq Settled(w, d, c)'
  <1>0. TxnOK /\ ItemsOK /\ OrdersOK  BY DEF PlacedInv, PanicInv
  <1> SUFFICES ASSUME NEW k \in Settled(w, d, c)  PROVE k \in Settled(w, d, c)'  OBVIOUS
  <1>1. k \in Gone(w, d, c) /\ k \notin InDelivery  BY DEF Settled
  <1>2. k \in Gone(w, d, c)'  BY <1>1, WorkGoneGrows
  <1>3. ASSUME k \in InDelivery'  PROVE FALSE
    <2>1. DeliveryScan(t) /\ pc'[t] = "dlv_o" /\ k = loc'[t].key  BY <1>0, <1>1, <1>3, InDeliveryNext
    <2>v. PICK v, r : v = loc'[t] /\ r = order[v.key]  OBVIOUS
    <2>2. new_order_key(r) \in new_order  BY <1>0, <2>1, <2>v, ScanTakes
    <2>3. new_order_key(order[k]) \notin new_order  BY <1>1 DEF Gone
    <2> QED  BY <2>1, <2>2, <2>3, <2>v
  <1> QED  BY <1>2, <1>3 DEF Settled

\* The lines that a delivery has left to visit stay, with their amounts.
LEMMA RidsStay ==
  ASSUME LinesOK, LinesOK', LinesGrow, NEW w, NEW d, NEW o, NEW rids \in Seq(LinesOf(w, d, o))
  PROVE  /\ rids \in Seq(LinesOf(w, d, o)')
         /\ IsFiniteSet(Range(rids)) /\ Range(rids) \subseteq LinesOf(w, d, o)
         /\ SumFunctionOnSet(Amounts, Range(rids)) \in Nat
         /\ SumFunctionOnSet(Amounts, Range(rids)) <= OrderAmount(w, d, o)
         /\ SumFunctionOnSet(Amounts', Range(rids)) = SumFunctionOnSet(Amounts, Range(rids))
  <1>p. PICK s, s2, f, g, p : /\ s = LinesOf(w, d, o) /\ s2 = LinesOf(w, d, o)'
                              /\ f = Amounts /\ g = Amounts' /\ p = Range(rids)
    OBVIOUS
  <1>1. s \subseteq s2  BY <1>p DEF LinesOf, LinesGrow
  <1>2. rids \in Seq(s2)
    <2>1. rids \in Seq(s)  BY <1>p
    <2> QED  BY <1>1, <2>1
  <1>3. p \in SUBSET s
    <2>1. rids \in Seq(s)  BY <1>p
    <2> QED  BY <1>p, <2>1 DEF Range
  <1>4. IsFiniteSet(s) /\ \A k \in s : f[k] \in Nat /\ f[k] = order_line[k].amount
    BY <1>p, LineAmounts DEF AmountsOK
  <1>5. \A k \in s2 : g[k] = order_line'[k].amount  BY <1>p, LineAmountsNext DEF AmountsOK
  <1>6. \A k \in s : k \in DOMAIN order_line  BY <1>p DEF LinesOf
  <1>7. IsFiniteSet(p) /\ Ints(f, p) /\ \A k \in p : g[k] = f[k]
    <2>1. IsFiniteSet(p)  BY <1>3, <1>4, FS_Subset
    <2>2. Ints(f, p)  BY <1>3, <1>4 DEF Ints
    <2>3. \A k \in p : g[k] = f[k]  BY <1>1, <1>3, <1>4, <1>5, <1>6 DEF LinesGrow
    <2> QED  BY <2>1, <2>2, <2>3
  <1>8. SumFunctionOnSet(g, p) = SumFunctionOnSet(f, p)  BY <1>7, SumSame
  <1>9. SumFunctionOnSet(f, p) \in Nat /\ SumFunctionOnSet(f, p) <= SumFunctionOnSet(f, s)
    BY <1>3, <1>4, SumPart
  <1> QED  BY <1>p, <1>2, <1>3, <1>7, <1>8, <1>9 DEF OrderAmount

\* A delivery that does not move has what it had.
LEMMA DeliveryStays ==
  ASSUME LinesOK, LinesOK', LinesGrow, OrdersGrow,
         \A w, d, c : Gone(w, d, c) \subseteq Gone(w, d, c)',
         NEW u \in Tasks, DeliveryAt(u), pc'[u] = pc[u], txn'[u] = txn[u], loc'[u] = loc[u]
  PROVE  DeliveryAt(u)'
  <1>p. PICK w, d, c, o, k, rids, sum :
          /\ w = txn[u].w /\ d = loc[u].n /\ c = loc[u].c /\ o = loc[u].o /\ k = loc[u].key
          /\ rids = loc[u].rids /\ sum = loc[u].sum
    OBVIOUS
  <1>q. /\ w = txn'[u].w /\ d = loc'[u].n /\ c = loc'[u].c /\ o = loc'[u].o /\ k = loc'[u].key
        /\ rids = loc'[u].rids /\ sum = loc'[u].sum
    BY <1>p
  <1>g. Gone(w, d, c) \subseteq Gone(w, d, c)'  OBVIOUS
  <1>a. OrderAmount(w, d, o) \in Nat /\ OrderAmount(w, d, o)' \in Nat
        /\ OrderAmount(w, d, o) <= OrderAmount(w, d, o)'
    BY LineAmounts, LineAmountsNext, OrderAmountGrows DEF AmountsOK
  <1>1. ASSUME Delivering(u)'
        PROVE  k \in Gone(w, d, c)' /\ order'[k].o_id = o /\ sum \in Nat
    <2>1. Delivering(u)  BY <1>1 DEF Delivering
    <2>2. k \in Gone(w, d, c) /\ order[k].o_id = o /\ sum \in Nat  BY <1>p, <2>1 DEF DeliveryAt
    <2>3. k \in DOMAIN order  BY <2>2 DEF Gone
    <2> QED  BY <1>g, <2>2, <2>3 DEF OrdersGrow
  <1>2. ASSUME pc'[u] = "dlv_o"  PROVE sum = 0  BY <1>2, <1>p DEF DeliveryAt
  <1>3. ASSUME pc'[u] = "dlv_ol"
        PROVE  /\ rids \in Seq(LinesOf(w, d, o)') /\ rids # <<>> /\ IsInjective(rids)
               /\ sum + SumFunctionOnSet(Amounts', Range(rids)) <= OrderAmount(w, d, o)'
    <2>1. /\ rids \in Seq(LinesOf(w, d, o)) /\ rids # <<>> /\ IsInjective(rids)
          /\ sum + SumFunctionOnSet(Amounts, Range(rids)) <= OrderAmount(w, d, o)
          /\ sum \in Nat
      BY <1>3, <1>p DEF DeliveryAt, Delivering
    <2>2. /\ rids \in Seq(LinesOf(w, d, o)')
          /\ SumFunctionOnSet(Amounts, Range(rids)) \in Nat
          /\ SumFunctionOnSet(Amounts', Range(rids)) = SumFunctionOnSet(Amounts, Range(rids))
      BY <2>1, RidsStay
    <2> QED  BY <1>a, <2>1, <2>2
  <1>4. ASSUME pc'[u] \in {"dlv_c", "dlv_upd"}  PROVE sum <= OrderAmount(w, d, o)'
    <2>1. sum <= OrderAmount(w, d, o) /\ sum \in Nat  BY <1>4, <1>p DEF DeliveryAt, Delivering
    <2> QED  BY <1>a, <2>1
  <1> QED  BY <1>q, <1>1, <1>2, <1>3, <1>4 DEF DeliveryAt

\* A delivery has the order it has just taken.
LEMMA DeliveryTaken ==
  ASSUME TxnOK, OrdersOK, NEW t \in Tasks, DeliveryScan(t), pc'[t] = "dlv_o"
  PROVE  DeliveryAt(t)'
  <1>p. PICK v, r : v = loc'[t] /\ r = order[v.key]  OBVIOUS
  <1>1. /\ v.key \in DOMAIN order /\ r.w = txn[t].w /\ r.d = v.n /\ r.o_id = v.o /\ r.o_c_id = v.c
        /\ new_order_key(r) \notin new_order' /\ v.sum = 0 /\ txn'[t] = txn[t] /\ order' = order
    BY <1>p, ScanTakes
  <1>w. PICK w, d, c : w = txn'[t].w /\ d = v.n /\ c = v.c  OBVIOUS
  <1>2. v.key \in Gone(w, d, c)'  BY <1>1, <1>p, <1>w DEF Gone
  <1> QED  BY <1>1, <1>2, <1>p, <1>w DEF DeliveryAt

\* It scans the lines of the order, ...
LEMMA DeliveryScanned ==
  ASSUME TxnOK, ItemsOK, LinesOK, LinesOK', NEW t \in Tasks, DeliveryOrder(t), pc'[t] # "panic",
         DeliveryAt(t), OrdersGrow, \A w, d, c : Gone(w, d, c) \subseteq Gone(w, d, c)'
  PROVE  DeliveryAt(t)'
  <1>d. DOMAIN pc = Tasks /\ DOMAIN loc = Tasks /\ DOMAIN loc[t] = DOMAIN Fresh
    BY DEF TxnOK, TxnAt
  <1>p. PICK w, d, c, o, k, rids :
          /\ w = txn[t].w /\ d = loc[t].n /\ c = loc[t].c /\ o = loc[t].o /\ k = loc[t].key
          /\ rids = ScanLines(w, d, {o}, NItems, 20)
    OBVIOUS
  <1>1. /\ pc[t] = "dlv_o" /\ txn' = txn /\ order_line' = order_line
        /\ loc' = [loc EXCEPT ![t] = [loc[t] EXCEPT !.rids = rids]]
        /\ pc' = [pc EXCEPT ![t] = CASE order[k].o_c_id # c -> "panic"
                                     [] rids = <<>> -> "dlv_c"
                                     [] OTHER -> "dlv_ol"]
    BY <1>d, <1>p DEF DeliveryOrder, Set, Goto
  <1>2. loc'[t] = [loc[t] EXCEPT !.rids = rids]  BY <1>1, <1>d
  <1>3. "rids" \in DOMAIN Fresh  BY DEF Fresh
  <1>q. /\ w = txn'[t].w /\ d = loc'[t].n /\ c = loc'[t].c /\ o = loc'[t].o /\ k = loc'[t].key
        /\ rids = loc'[t].rids /\ loc'[t].sum = loc[t].sum
    BY <1>1, <1>2, <1>3, <1>d, <1>p
  <1>4. /\ k \in Gone(w, d, c) /\ order[k].o_id = o /\ loc[t].sum = 0
    BY <1>1, <1>p DEF DeliveryAt, Delivering
  <1>5. k \in Gone(w, d, c)' /\ order'[k].o_id = o
    <2>1. k \in DOMAIN order  BY <1>4 DEF Gone
    <2> QED  BY <1>4, <2>1 DEF OrdersGrow
  <1>6. pc'[t] = IF rids = <<>> THEN "dlv_c" ELSE "dlv_ol"
    <2>1. pc'[t] = CASE order[k].o_c_id # c -> "panic" [] rids = <<>> -> "dlv_c" [] OTHER -> "dlv_ol"
      BY <1>1, <1>d
    <2>2. order[k].o_c_id = c  BY <1>4 DEF Gone
    <2> QED  BY <2>1, <2>2
  <1>7. LinesGrow  BY <1>1 DEF LinesGrow
  <1>8. rids \in Seq(LinesOf(w, d, o)) /\ IsInjective(rids)  BY <1>p, ScanOfOrder
  <1>9. /\ rids \in Seq(LinesOf(w, d, o)')
        /\ SumFunctionOnSet(Amounts, Range(rids)) \in Nat
        /\ SumFunctionOnSet(Amounts, Range(rids)) <= OrderAmount(w, d, o)
        /\ SumFunctionOnSet(Amounts', Range(rids)) = SumFunctionOnSet(Amounts, Range(rids))
    BY <1>7, <1>8, RidsStay
  <1>10. OrderAmount(w, d, o) \in Nat /\ OrderAmount(w, d, o)' \in Nat
        /\ OrderAmount(w, d, o) <= OrderAmount(w, d, o)'
    BY <1>7, LineAmounts, LineAmountsNext, OrderAmountGrows DEF AmountsOK
  <1>11. /\ 0 + SumFunctionOnSet(Amounts', Range(rids)) <= OrderAmount(w, d, o)'
         /\ 0 <= OrderAmount(w, d, o)'
    BY <1>9, <1>10
  <1> QED  BY <1>q, <1>4, <1>5, <1>6, <1>8, <1>9, <1>11 DEF DeliveryAt

\* ... adds up their amounts, one by one, ...
LEMMA DeliveryAdds ==
  ASSUME TxnOK, ItemsOK, LinesOK, LinesOK', LinesGrow, NEW t \in Tasks, DeliveryLine(t),
         DeliveryAt(t), OrdersGrow, \A w, d, c : Gone(w, d, c) \subseteq Gone(w, d, c)'
  PROVE  DeliveryAt(t)'
  <1>d. DOMAIN pc = Tasks /\ DOMAIN loc = Tasks /\ DOMAIN loc[t] = DOMAIN Fresh
    BY DEF TxnOK, TxnAt
  <1>p. PICK w, d, c, o, k, rids, rest, l, sum, more :
          /\ w = txn[t].w /\ d = loc[t].n /\ c = loc[t].c /\ o = loc[t].o /\ k = loc[t].key
          /\ rids = loc[t].rids /\ rest = Tail(rids) /\ l = Head(rids) /\ sum = loc[t].sum
          /\ more = sum + order_line[l].amount
    OBVIOUS
  <1>1. /\ pc[t] = "dlv_ol" /\ txn' = txn
        /\ loc' = [loc EXCEPT ![t] = [loc[t] EXCEPT !.rids = rest, !.sum = more]]
        /\ pc' = [pc EXCEPT ![t] = IF Len(rids) = 1 THEN "dlv_c" ELSE "dlv_ol"]
    BY <1>p DEF DeliveryLine, Set, Goto
  <1>2. loc'[t] = [loc[t] EXCEPT !.rids = rest, !.sum = more]  BY <1>1, <1>d
  <1>3. "rids" \in DOMAIN Fresh /\ "sum" \in DOMAIN Fresh  BY DEF Fresh
  <1>q. /\ w = txn'[t].w /\ d = loc'[t].n /\ c = loc'[t].c /\ o = loc'[t].o /\ k = loc'[t].key
        /\ rest = loc'[t].rids /\ more = loc'[t].sum
    BY <1>1, <1>2, <1>3, <1>d, <1>p
  <1>4. /\ k \in Gone(w, d, c) /\ order[k].o_id = o /\ sum \in Nat
        /\ rids \in Seq(LinesOf(w, d, o)) /\ rids # <<>> /\ IsInjective(rids)
        /\ sum + SumFunctionOnSet(Amounts, Range(rids)) <= OrderAmount(w, d, o)
    BY <1>1, <1>p DEF DeliveryAt, Delivering
  <1>5. k \in Gone(w, d, c)' /\ order'[k].o_id = o
    <2>1. k \in DOMAIN order  BY <1>4 DEF Gone
    <2> QED  BY <1>4, <2>1 DEF OrdersGrow
  <1>6. pc'[t] = IF Len(rids) = 1 THEN "dlv_c" ELSE "dlv_ol"  BY <1>1, <1>d
  <1>7. /\ l \in Range(rids) /\ Range(rids) \in SUBSET LinesOf(w, d, o)
        /\ rest \in Seq(LinesOf(w, d, o)) /\ IsInjective(rest)
        /\ Range(rest) = Range(rids) \ {l}
        /\ Len(rids) # 1 => rest # <<>>
        /\ Len(rids) = 1 => Range(rids) = {l}
    <2>1. \A Ls : rids \in Seq(Ls) => /\ Range(rids) \in SUBSET Ls /\ rest \in Seq(Ls)
      BY <1>4, <1>p, RestOfLines
    <2>2. /\ l \in Range(rids) /\ IsInjective(rest)
          /\ Range(rest) = Range(rids) \ {l}
          /\ Len(rids) # 1 => rest # <<>>
          /\ Len(rids) = 1 => Range(rids) = {l}
      BY <1>4, <1>p, RestOfLines
    <2> QED  BY <1>4, <2>1, <2>2
  <1>8. /\ rest \in Seq(LinesOf(w, d, o)')
        /\ SumFunctionOnSet(Amounts, Range(rest)) \in Nat
        /\ SumFunctionOnSet(Amounts', Range(rest)) = SumFunctionOnSet(Amounts, Range(rest))
    BY <1>7, RidsStay
  <1>9. IsFiniteSet(Range(rids))  BY <1>4, RidsStay
  <1>10. /\ Amounts[l] \in Nat /\ Amounts[l] = order_line[l].amount /\ Ints(Amounts, Range(rids))
    <2>1. \A j \in LinesOf(w, d, o) : Amounts[j] \in Nat /\ Amounts[j] = order_line[j].amount
      BY LineAmounts DEF AmountsOK
    <2> QED  BY <1>7, <2>1 DEF Ints
  <1>11. SumFunctionOnSet(Amounts, Range(rids)) = Amounts[l] + SumFunctionOnSet(Amounts, Range(rest))
    BY ONLY <1>7, <1>9, <1>10, SumTake
  <1>12. OrderAmount(w, d, o) \in Nat /\ OrderAmount(w, d, o)' \in Nat
         /\ OrderAmount(w, d, o) <= OrderAmount(w, d, o)'
    BY LineAmounts, LineAmountsNext, OrderAmountGrows DEF AmountsOK
  <1>13. /\ more \in Nat
         /\ more + SumFunctionOnSet(Amounts', Range(rest)) <= OrderAmount(w, d, o)'
         /\ more <= OrderAmount(w, d, o)'
    <2>1. more = sum + Amounts[l]  BY <1>p, <1>10
    <2> PICK x, y, z, a, b, e : /\ x = SumFunctionOnSet(Amounts, Range(rids)) /\ a = Amounts[l]
                                /\ y = SumFunctionOnSet(Amounts, Range(rest))
                                /\ z = SumFunctionOnSet(Amounts', Range(rest))
                                /\ b = OrderAmount(w, d, o) /\ e = OrderAmount(w, d, o)'
      OBVIOUS
    <2>2. /\ sum \in Nat /\ a \in Nat /\ y \in Nat /\ z = y /\ b \in Nat /\ e \in Nat /\ b <= e
          /\ x = a + y /\ sum + x <= b /\ more = sum + a
      BY <1>4, <1>8, <1>10, <1>11, <1>12, <2>1
    <2>3. more \in Nat /\ more + z <= e /\ more <= e  BY ONLY <2>2
    <2> QED  BY <2>3
  <1> QED  BY <1>q, <1>5, <1>6, <1>7, <1>8, <1>13 DEF DeliveryAt

\* ... and has the sum when it has the customer.
LEMMA DeliveryLocked ==
  ASSUME TxnOK, NEW t \in Tasks, DeliveryCustomer(t), DeliveryAt(t)
  PROVE  DeliveryAt(t)'
  <1>1. /\ pc[t] = "dlv_c" /\ pc'[t] = "dlv_upd"
        /\ txn' = txn /\ loc' = loc /\ order' = order /\ order_line' = order_line /\ new_order' = new_order
    BY DEF DeliveryCustomer, Goto, tables, TxnOK
  <1>p. PICK w, d, c, o, k, sum :
          /\ w = txn[t].w /\ d = loc[t].n /\ c = loc[t].c /\ o = loc[t].o /\ k = loc[t].key
          /\ sum = loc[t].sum
    OBVIOUS
  <1>2. /\ k \in Gone(w, d, c) /\ order[k].o_id = o /\ sum \in Nat /\ sum <= OrderAmount(w, d, o)
    BY <1>1, <1>p DEF DeliveryAt, Delivering
  <1>3. Gone(w, d, c)' = Gone(w, d, c)  BY <1>1 DEF Gone
  <1>4. OrderAmount(w, d, o)' = OrderAmount(w, d, o)
    <2>1. Amounts' = Amounts  BY <1>1 DEF Amounts
    <2>2. LinesOf(w, d, o)' = LinesOf(w, d, o)  BY <1>1 DEF LinesOf
    <2> QED  BY <2>1, <2>2 DEF OrderAmount
  <1>q. /\ w = txn'[t].w /\ d = loc'[t].n /\ c = loc'[t].c /\ o = loc'[t].o /\ k = loc'[t].key
        /\ sum = loc'[t].sum
    BY <1>1, <1>p
  <1>5. k \in Gone(w, d, c)' /\ order'[k].o_id = o /\ sum <= OrderAmount(w, d, o)'
    BY <1>1, <1>2, <1>3, <1>4
  <1> QED  BY <1>q, <1>1, <1>2, <1>5 DEF DeliveryAt

\* Every delivery has added up no more than its order comes to, after every step.
LEMMA WorkDelivery ==
  ASSUME IdsFit', PlacedInv, LinesOK', \A u \in Tasks : DeliveryAt(u),
         NEW t \in Tasks, Work(t), NEW u \in Tasks
  PROVE  DeliveryAt(u)'
  <1>0. TxnOK /\ ItemsOK /\ OrdersOK /\ LinesOK  BY DEF PlacedInv, PanicInv
  <1>1. LinesGrow /\ OrdersGrow  BY <1>0, WorkLinesGrow, WorkOrdersGrow
  <1>2. \A w, d, c : Gone(w, d, c) \subseteq Gone(w, d, c)'  BY WorkGoneGrows
  <1>3. CASE u # t
    <2>1. pc'[u] = pc[u] /\ txn'[u] = txn[u] /\ loc'[u] = loc[u]  BY <1>0, <1>3, WorkKept DEF Kept, Others
    <2>2. DeliveryAt(u)  OBVIOUS
    <2> QED  BY <1>0, <1>1, <1>2, <2>1, <2>2, DeliveryStays
  <1>4. CASE u = t
    <2>t. DeliveryAt(t)  OBVIOUS
    <2> SUFFICES DeliveryAt(t)'  BY <1>4
    <2>1. CASE ~Delivering(t)'  BY <2>1 DEF Delivering, DeliveryAt
    <2>2. CASE Delivering(t)'
      <3>1. pc'[t] # "panic"  BY <2>2 DEF Delivering
      <3>2. \/ DeliveryScan(t) /\ pc'[t] = "dlv_o"
            \/ DeliveryOrder(t) \/ DeliveryLine(t) \/ DeliveryCustomer(t)
        BY <1>0, <2>2, DeliveryMoves
      <3>3. CASE DeliveryScan(t) /\ pc'[t] = "dlv_o"  BY <1>0, <3>3, DeliveryTaken
      <3>4. CASE DeliveryOrder(t)  BY <1>0, <1>1, <1>2, <2>t, <3>1, <3>4, DeliveryScanned
      <3>5. CASE DeliveryLine(t)  BY <1>0, <1>1, <1>2, <2>t, <3>5, DeliveryAdds
      <3>6. CASE DeliveryCustomer(t)  BY <1>0, <2>t, <3>6, DeliveryLocked
      <3> QED  BY <3>2, <3>3, <3>4, <3>5, <3>6
    <2> QED  BY <2>1, <2>2
  <1> QED  BY <1>3, <1>4

\* The orders are finitely many.
OrdersFinite == IsFiniteSet(DOMAIN order)

\* They are, ...
LEMMA OrderCount == OrdersOK => OrdersFinite
  <1> SUFFICES ASSUME OrdersOK  PROVE IsFiniteSet(DOMAIN order)  BY DEF OrdersFinite
  <1> PICK b : b = make_key(NWarehouses, 0, 0, 0)  OBVIOUS
  <1>1. b \in Nat /\ DOMAIN order \subseteq 0 .. b  BY KeysBounded
  <1>2. IsFiniteSet(0 .. b)  BY <1>1, FS_Interval
  <1> QED  BY <1>1, <1>2, FS_Subset

\* ... in the next state too.
LEMMA OrderCountNext == OrdersOK' => OrdersFinite'
  BY OrderCount, PTL

\* What is credited and charged of a customer.
CreditRecords == [c_balance : Int, c_ytd_payment : Int, c_delivery_cnt : Int]

\* What some orders paid for before a step, more of them pay for after it.
LEMMA PaidForMore ==
  ASSUME LinesOK, LinesOK', LinesGrow, OrdersGrow, OrdersOK, OrdersOK', base' = base,
         NEW w, NEW d, NEW c, NEW T, T \subseteq DOMAIN order', NEW p, p \subseteq T, p \subseteq DOMAIN order,
         NEW b, b = base.customer[<<w, d, c>>], b \in CreditRecords,
         NEW r, r = customer'[<<w, d, c>>], r \in CreditRecords,
         r.c_delivery_cnt <= b.c_delivery_cnt + Cardinality(p),
         r.c_balance + r.c_ytd_payment <= b.c_balance + b.c_ytd_payment + SumFunctionOnSet(Owed, p)
  PROVE  PaidFor(w, d, c, T)'
  <1>p. PICK f, g : f = Owed /\ g = Owed'  OBVIOUS
  <1>1. IsFiniteSet(T) /\ IsFiniteSet(p)
    <2>1. IsFiniteSet(DOMAIN order')  BY OrderCountNext DEF OrdersFinite
    <2> QED  BY <2>1, FS_Subset
  <1>2. /\ Cardinality(p) <= Cardinality(T) /\ Cardinality(p) \in Nat /\ Cardinality(T) \in Nat
    BY <1>1, FS_Subset, FS_CardinalityType
  <1>3. /\ \A k \in p : f[k] \in Nat /\ f[k] <= g[k]
        /\ \A k \in T : g[k] \in Nat
    <2>1. \A k \in T : g[k] \in Nat  BY <1>p, OrdersOwedNext DEF OwedOK
    <2>2. \A k \in p : f[k] \in Nat  BY <1>p, OrdersOwed DEF OwedOK
    <2>3. \A k \in p : f[k] <= g[k]  BY <1>p, OwedGrows
    <2> QED  BY <2>1, <2>2, <2>3
  <1>4. SumFunctionOnSet(f, p) <= SumFunctionOnSet(g, p)
    <2>1. Ints(f, p) /\ Ints(g, p)  BY <1>3 DEF Ints
    <2> QED  BY <1>1, <1>3, <2>1, SumLeq
  <1>5. SumFunctionOnSet(g, p) \in Nat /\ SumFunctionOnSet(g, p) <= SumFunctionOnSet(g, T)
    BY <1>1, <1>3, SumPart
  <1>6. SumFunctionOnSet(f, p) \in Nat /\ SumFunctionOnSet(g, T) \in Nat  BY <1>1, <1>3, SumPart
  <1>7. /\ r.c_delivery_cnt \in Int /\ r.c_balance \in Int /\ r.c_ytd_payment \in Int
        /\ b.c_delivery_cnt \in Int /\ b.c_balance \in Int /\ b.c_ytd_payment \in Int
    BY DEF CreditRecords
  <1>8. /\ r.c_delivery_cnt <= b.c_delivery_cnt + Cardinality(T)
        /\ r.c_balance + r.c_ytd_payment <= b.c_balance + b.c_ytd_payment + SumFunctionOnSet(g, T)
    <2>1. SumFunctionOnSet(f, p) = SumFunctionOnSet(Owed, p)  BY <1>p
    <2> PICK x, y, z : x = SumFunctionOnSet(f, p) /\ y = SumFunctionOnSet(g, p) /\ z = SumFunctionOnSet(g, T)
      OBVIOUS
    <2>2. x \in Nat /\ y \in Nat /\ z \in Nat /\ x <= y /\ y <= z
          /\ r.c_balance + r.c_ytd_payment <= b.c_balance + b.c_ytd_payment + x
      BY <1>4, <1>5, <1>6, <2>1
    <2> QED  BY <1>2, <1>7, <2>2
  <1> QED  BY <1>p, <1>8 DEF PaidFor

\* The customers there are.
CreditKeys == Warehouses \X Districts \X Customers

\* payment charges a customer what it adds to the payments, and delivery credits
\* the sum of an order and counts it.
LEMMA CustomerWrites ==
  ASSUME CustomersOK, NEW t \in Tasks, DeliveryAt(t), Work(t), NEW x \in CreditKeys,
         NEW r, r = customer[x], NEW s, s = customer'[x]
  PROVE  /\ r \in CreditRecords /\ s \in CreditRecords
         /\ DeliveryUpdate(t) /\ x = <<txn[t].w, loc[t].n, loc[t].c>> =>
              /\ s.c_delivery_cnt = r.c_delivery_cnt + 1
              /\ s.c_balance + s.c_ytd_payment = r.c_balance + r.c_ytd_payment + loc[t].sum
         /\ ~(DeliveryUpdate(t) /\ x = <<txn[t].w, loc[t].n, loc[t].c>>) =>
              /\ s.c_delivery_cnt = r.c_delivery_cnt
              /\ s.c_balance + s.c_ytd_payment = r.c_balance + r.c_ytd_payment
  <1>0. customer \in [CreditKeys -> CreditRecords] /\ DOMAIN customer = CreditKeys /\ r \in CreditRecords
    BY DEF CustomersOK, CreditKeys, CreditRecords
  <1>1. r.c_delivery_cnt \in Int /\ r.c_balance \in Int /\ r.c_ytd_payment \in Int  BY <1>0 DEF CreditRecords
  <1>2. CASE DeliveryUpdate(t) /\ x = <<txn[t].w, loc[t].n, loc[t].c>>
    <2>p. PICK a : a = loc[t].sum  OBVIOUS
    <2>1. a \in Nat  BY <1>2, <2>p DEF DeliveryAt, Delivering, DeliveryUpdate
    <2>2. customer' = [customer EXCEPT ![x].c_balance = @ + a, ![x].c_delivery_cnt = @ + 1]
      BY <1>2, <2>p DEF DeliveryUpdate
    <2>3. /\ s.c_balance = r.c_balance + a /\ s.c_delivery_cnt = r.c_delivery_cnt + 1
          /\ s.c_ytd_payment = r.c_ytd_payment /\ s \in CreditRecords
      BY <1>0, <2>1, <2>2 DEF CreditRecords
    <2> QED  BY <1>0, <1>1, <1>2, <2>1, <2>3, <2>p
  <1>3. CASE PayUpdate(t) /\ x = <<txn[t].cw, txn[t].cd, txn[t].c>>
    <2>1. customer' = [customer EXCEPT ![x].c_balance = @ - 1, ![x].c_ytd_payment = @ + 1]
      BY <1>3 DEF PayUpdate
    <2>2. /\ s.c_balance = r.c_balance - 1 /\ s.c_ytd_payment = r.c_ytd_payment + 1
          /\ s.c_delivery_cnt = r.c_delivery_cnt /\ s \in CreditRecords
      BY <1>0, <2>1 DEF CreditRecords
    <2>3. ~DeliveryUpdate(t)  BY <1>3 DEF PayUpdate, DeliveryUpdate
    <2> QED  BY <1>0, <1>1, <2>2, <2>3
  <1>4. CASE /\ ~(DeliveryUpdate(t) /\ x = <<txn[t].w, loc[t].n, loc[t].c>>)
             /\ ~(PayUpdate(t) /\ x = <<txn[t].cw, txn[t].cd, txn[t].c>>)
    <2>1. s = r
      <3>1. CASE DeliveryUpdate(t)
        <4>p. PICK y, a : y = <<txn[t].w, loc[t].n, loc[t].c>> /\ a = loc[t].sum  OBVIOUS
        <4>1. customer' = [customer EXCEPT ![y].c_balance = @ + a, ![y].c_delivery_cnt = @ + 1]
          BY <3>1, <4>p DEF DeliveryUpdate
        <4> QED  BY <1>0, <1>4, <3>1, <4>1, <4>p
      <3>2. CASE PayUpdate(t)
        <4>p. PICK y : y = <<txn[t].cw, txn[t].cd, txn[t].c>>  OBVIOUS
        <4>1. customer' = [customer EXCEPT ![y].c_balance = @ - 1, ![y].c_ytd_payment = @ + 1]
          BY <3>2, <4>p DEF PayUpdate
        <4> QED  BY <1>0, <1>4, <3>2, <4>1, <4>p
      <3>3. CASE customer' = customer  BY <3>3
      <3> QED  BY <3>1, <3>2, <3>3, MoreWrites
    <2> QED  BY <1>0, <1>4, <2>1
  <1> QED  BY <1>2, <1>3, <1>4

\* The customers stay records of numbers.
LEMMA WorkCustomers ==
  ASSUME CustomersOK, NEW t \in Tasks, DeliveryAt(t), Work(t)
  PROVE  CustomersOK'
  <1>1. \A x \in CreditKeys : customer'[x] \in CreditRecords  BY CustomerWrites
  <1>2. DOMAIN customer = CreditKeys  BY DEF CustomersOK, CreditKeys
  <1>3. customer' = [x \in CreditKeys |-> customer'[x]]
    <2>1. CASE DeliveryUpdate(t)
      <3>p. PICK y, a : y = <<txn[t].w, loc[t].n, loc[t].c>> /\ a = loc[t].sum  OBVIOUS
      <3>1. customer' = [customer EXCEPT ![y].c_balance = @ + a, ![y].c_delivery_cnt = @ + 1]
        BY <2>1, <3>p DEF DeliveryUpdate
      <3> QED  BY <1>2, <3>1
    <2>2. CASE PayUpdate(t)
      <3>p. PICK y : y = <<txn[t].cw, txn[t].cd, txn[t].c>>  OBVIOUS
      <3>1. customer' = [customer EXCEPT ![y].c_balance = @ - 1, ![y].c_ytd_payment = @ + 1]
        BY <2>2, <3>p DEF PayUpdate
      <3> QED  BY <1>2, <3>1
    <2>3. CASE customer' = customer  BY <1>2, <2>3 DEF CustomersOK, CreditKeys
    <2> QED  BY <2>1, <2>2, <2>3, MoreWrites
  <1>4. customer' \in [CreditKeys -> CreditRecords]  BY <1>1, <1>3
  <1> QED  BY <1>4 DEF CustomersOK, CreditKeys, CreditRecords

\* The order that a delivery credits has not been credited, and is settled now.
LEMMA CreditedNow ==
  ASSUME IdsFit', PlacedInv, \A u \in Tasks : DeliveryAt(u), NEW t \in Tasks, DeliveryUpdate(t),
         NEW k, k = loc[t].key, NEW w, w = txn[t].w, NEW d, d = loc[t].n, NEW c, c = loc[t].c
  PROVE  /\ k \in DOMAIN order /\ k \notin Settled(w, d, c) /\ k \in Settled(w, d, c)'
         /\ loc[t].sum \in Nat /\ loc[t].sum <= Owed[k]
  <1>0. TxnOK /\ ItemsOK /\ OrdersOK /\ LinesOK  BY DEF PlacedInv, PanicInv
  <1>w. Work(t)  BY DEF Work
  <1>1. pc[t] = "dlv_upd" /\ Delivering(t) /\ order' = order  BY DEF DeliveryUpdate, Delivering
  <1>2. /\ k \in Gone(w, d, c) /\ order[k].o_id = loc[t].o /\ loc[t].sum \in Nat
        /\ loc[t].sum <= OrderAmount(w, d, loc[t].o)
    <2>1. DeliveryAt(t)  OBVIOUS
    <2> QED  BY <1>1, <2>1 DEF DeliveryAt
  <1>3. k \in DOMAIN order /\ order[k].w = w /\ order[k].d = d  BY <1>2 DEF Gone
  <1>4. loc[t].sum <= Owed[k]  BY <1>2, <1>3 DEF Owed
  <1>5. k \notin Settled(w, d, c)  BY <1>1 DEF Settled, InDelivery
  <1>6. k \in Gone(w, d, c)'  BY <1>2, <1>w, WorkGoneGrows
  <1>7. ASSUME k \in InDelivery'  PROVE FALSE
    <2>1. PICK u \in Tasks : Delivering(u)' /\ k = loc'[u].key  BY <1>7 DEF InDelivery
    <2>2. u # t
      <3>1. pc'[t] \in {"idle", "dlv_scan"}  BY <1>0 DEF DeliveryUpdate, Return, Goto, TxnOK
      <3> QED  BY <2>1, <3>1 DEF Delivering
    <2>3. pc'[u] = pc[u] /\ loc'[u] = loc[u]  BY <1>0, <1>w, <2>2, WorkKept DEF Kept, Others
    <2>4. Delivering(u) /\ k = loc[u].key  BY <2>1, <2>3 DEF Delivering
    <2>5. order[k].w = txn[u].w
      <3>1. DeliveryAt(u)  OBVIOUS
      <3>2. k \in Gone(txn[u].w, loc[u].n, loc[u].c)  BY <2>4, <3>1 DEF DeliveryAt
      <3> QED  BY <3>2 DEF Gone
    <2>6. txn[u].w \in Home(u) /\ txn[t].w \in Home(t)
      <3>1. TxnAt(u) /\ TxnAt(t)  BY <1>0 DEF TxnOK
      <3>2. pc[u] \in DeliverySteps /\ pc[t] \in DeliverySteps  BY <1>1, <2>4 DEF Delivering, DeliverySteps
      <3> QED  BY <3>1, <3>2, OtherInput DEF TxnAt
    <2> QED  BY <1>3, <2>2, <2>5, <2>6, HomeApart
  <1> QED  BY <1>2, <1>3, <1>4, <1>5, <1>6, <1>7 DEF Settled

\* Every step of a transaction keeps CreditOK.
LEMMA WorkCredit ==
  ASSUME IdsFit', CreditInv, LinesOK', OrdersOK', NEW t \in Tasks, Work(t), base' = base
  PROVE  CreditOK'
  <1>0. PlacedInv /\ CreditOK /\ TxnOK /\ ItemsOK /\ OrdersOK /\ LinesOK /\ CustomersOK
    BY DEF CreditInv, CreditOK, PlacedInv, PanicInv
  <1>d. \A u \in Tasks : DeliveryAt(u)  BY <1>0 DEF CreditOK
  <1>1. \A u \in Tasks : DeliveryAt(u)'  BY <1>0, <1>d, WorkDelivery
  <1>2. CustomersOK'  BY <1>0, <1>d, WorkCustomers
  <1>3. LinesGrow /\ OrdersGrow  BY <1>0, WorkLinesGrow, WorkOrdersGrow
  <1>4. ASSUME NEW w \in Warehouses, NEW d \in Districts, NEW c \in Customers
        PROVE  PaidFor(w, d, c, Settled(w, d, c))'
    <2>p. PICK paid, paid2, x, b, r, s :
            /\ paid = Settled(w, d, c) /\ paid2 = Settled(w, d, c)' /\ x = <<w, d, c>>
            /\ b = base.customer[x] /\ r = customer[x] /\ s = customer'[x]
      OBVIOUS
    <2>1. x \in CreditKeys  BY <2>p DEF CreditKeys
    <2>2. r \in CreditRecords /\ s \in CreditRecords  BY <1>0, <1>d, <2>1, <2>p, CustomerWrites
    <2>3. b \in CreditRecords  BY <1>0, <2>1, <2>p DEF CreditOK, CreditKeys, CreditRecords
    <2>4. paid \subseteq paid2 /\ paid \subseteq DOMAIN order /\ paid2 \subseteq DOMAIN order'
      <3>1. paid \subseteq paid2  BY <1>0, <2>p, SettledGrows
      <3> QED  BY <2>p, <3>1 DEF Settled, Gone
    <2>5. /\ r.c_delivery_cnt <= b.c_delivery_cnt + Cardinality(paid)
          /\ r.c_balance + r.c_ytd_payment <= b.c_balance + b.c_ytd_payment + SumFunctionOnSet(Owed, paid)
      <3>1. PaidFor(w, d, c, paid)  BY <1>0, <2>p DEF CreditOK
      <3> QED  BY <2>p, <3>1 DEF PaidFor
    <2> SUFFICES PaidFor(w, d, c, paid2)'  BY <2>p
    <2>6. CASE ~(DeliveryUpdate(t) /\ x = <<txn[t].w, loc[t].n, loc[t].c>>)
      <3>1. /\ s.c_delivery_cnt = r.c_delivery_cnt
            /\ s.c_balance + s.c_ytd_payment = r.c_balance + r.c_ytd_payment
        BY <1>0, <1>d, <2>1, <2>6, <2>p, CustomerWrites
      <3>2. /\ s.c_delivery_cnt <= b.c_delivery_cnt + Cardinality(paid)
            /\ s.c_balance + s.c_ytd_payment <= b.c_balance + b.c_ytd_payment + SumFunctionOnSet(Owed, paid)
        BY <2>5, <3>1
      <3>3. b = base.customer[<<w, d, c>>] /\ s = customer'[<<w, d, c>>]  BY <2>p
      <3> QED  BY <1>0, <1>3, <2>2, <2>3, <2>4, <3>2, <3>3, PaidForMore
    <2>7. CASE DeliveryUpdate(t) /\ x = <<txn[t].w, loc[t].n, loc[t].c>>
      <3>k. PICK k, p, a : k = loc[t].key /\ p = paid \cup {k} /\ a = loc[t].sum  OBVIOUS
      <3>0. w = txn[t].w /\ d = loc[t].n /\ c = loc[t].c  BY <2>7, <2>p
      <3>1. k \in DOMAIN order /\ k \notin paid /\ k \in paid2 /\ a \in Nat /\ a <= Owed[k]
        BY <1>0, <1>d, <2>7, <2>p, <3>0, <3>k, CreditedNow
      <3>2. /\ s.c_delivery_cnt = r.c_delivery_cnt + 1
            /\ s.c_balance + s.c_ytd_payment = r.c_balance + r.c_ytd_payment + a
        BY <1>0, <1>d, <2>1, <2>7, <2>p, <3>k, CustomerWrites
      <3>3. p \subseteq paid2 /\ p \subseteq DOMAIN order  BY <2>4, <3>1, <3>k
      <3>4. IsFiniteSet(paid)
        <4>1. IsFiniteSet(DOMAIN order)  BY <1>0, OrderCount DEF OrdersFinite
        <4> QED  BY <2>4, <4>1, FS_Subset
      <3>5. Cardinality(p) = Cardinality(paid) + 1 /\ Cardinality(paid) \in Nat
        BY <3>1, <3>4, <3>k, FS_AddElement, FS_CardinalityType
      <3>6. \A j \in DOMAIN order : Owed[j] \in Nat  BY <1>0, OrdersOwed DEF OwedOK
      <3>7. SumFunctionOnSet(Owed, p) = Owed[k] + SumFunctionOnSet(Owed, paid)
            /\ SumFunctionOnSet(Owed, paid) \in Nat /\ Owed[k] \in Nat
        <4> PICK f : f = Owed  OBVIOUS
        <4>1. \A j \in paid \cup {k} : f[j] \in Nat  BY <2>4, <3>1, <3>6
        <4>2. Ints(f, paid \cup {k})  BY <4>1 DEF Ints
        <4>3. SumFunctionOnSet(f, paid \cup {k}) = f[k] + SumFunctionOnSet(f, paid)
          BY ONLY <3>1, <3>4, <4>2, SumAdd
        <4>4. SumFunctionOnSet(f, paid) \in Nat  BY <3>4, <4>1, SumPart
        <4> QED  BY <3>k, <4>1, <4>3, <4>4
      <3>8. /\ s.c_delivery_cnt <= b.c_delivery_cnt + Cardinality(p)
            /\ s.c_balance + s.c_ytd_payment <= b.c_balance + b.c_ytd_payment + SumFunctionOnSet(Owed, p)
        <4>1. /\ r.c_delivery_cnt \in Int /\ r.c_balance \in Int /\ r.c_ytd_payment \in Int
              /\ s.c_delivery_cnt \in Int /\ s.c_balance \in Int /\ s.c_ytd_payment \in Int
              /\ b.c_delivery_cnt \in Int /\ b.c_balance \in Int /\ b.c_ytd_payment \in Int
          BY <2>2, <2>3 DEF CreditRecords
        <4> PICK y, z, q : y = SumFunctionOnSet(Owed, paid) /\ z = SumFunctionOnSet(Owed, p) /\ q = Owed[k]
          OBVIOUS
        <4>2. y \in Nat /\ q \in Nat /\ z = q + y /\ a \in Nat /\ a <= q
              /\ r.c_balance + r.c_ytd_payment <= b.c_balance + b.c_ytd_payment + y
          BY <2>5, <3>1, <3>7
        <4>3. s.c_balance + s.c_ytd_payment <= b.c_balance + b.c_ytd_payment + z
          BY <3>2, <4>1, <4>2
        <4>4. s.c_delivery_cnt <= b.c_delivery_cnt + Cardinality(p)  BY <2>5, <3>2, <3>5, <4>1
        <4> QED  BY <4>3, <4>4
      <3>9. b = base.customer[<<w, d, c>>] /\ s = customer'[<<w, d, c>>]  BY <2>p
      <3> QED  BY <1>0, <1>3, <2>2, <2>3, <2>4, <3>3, <3>8, <3>9, PaidForMore
    <2> QED  BY <2>6, <2>7
  <1>5. base'.customer \in [Warehouses \X Districts \X Customers ->
                           [c_balance : Int, c_ytd_payment : Int, c_delivery_cnt : Int]]
    BY <1>0 DEF CreditOK
  <1> QED  BY <1>1, <1>2, <1>4, <1>5 DEF CreditOK

\* CreditOK holds still after a step that writes no table and in which no
\* delivery moves.
LEMMA CreditKept ==
  ASSUME CreditOK, LinesOK, LinesOK', base' = base, customer' = customer, order' = order,
         order_line' = order_line, new_order' = new_order,
         \A u \in Tasks : \/ pc'[u] = pc[u] /\ txn'[u] = txn[u] /\ loc'[u] = loc[u]
                          \/ ~Delivering(u) /\ ~Delivering(u)'
  PROVE  CreditOK'
  <1>1. LinesGrow /\ OrdersGrow  BY DEF LinesGrow, OrdersGrow
  <1>2. \A w, d, c : Gone(w, d, c)' = Gone(w, d, c)  BY DEF Gone
  <1>3. ASSUME NEW u \in Tasks  PROVE DeliveryAt(u)'
    <2>0. DeliveryAt(u)  BY DEF CreditOK
    <2>1. CASE pc'[u] = pc[u] /\ txn'[u] = txn[u] /\ loc'[u] = loc[u]
      <3>1. \A w, d, c : Gone(w, d, c) \subseteq Gone(w, d, c)'  BY <1>2
      <3> QED  BY <1>1, <2>0, <2>1, <3>1, DeliveryStays
    <2>2. CASE ~Delivering(u)'  BY <2>2 DEF Delivering, DeliveryAt
    <2> QED  BY <2>1, <2>2
  <1>4. InDelivery' = InDelivery
    <2>1. \A u \in Tasks : Delivering(u)' <=> Delivering(u)  BY DEF Delivering
    <2>2. \A u \in Tasks : Delivering(u) => loc'[u] = loc[u]  OBVIOUS
    <2> QED  BY <2>1, <2>2 DEF InDelivery
  <1>5. ASSUME NEW w \in Warehouses, NEW d \in Districts, NEW c \in Customers
        PROVE  PaidFor(w, d, c, Settled(w, d, c))'
    <2>p. PICK paid : paid = Settled(w, d, c)  OBVIOUS
    <2>1. paid = Settled(w, d, c)'
      <3>1. Gone(w, d, c)' = Gone(w, d, c)  BY <1>2
      <3> QED  BY <1>4, <2>p, <3>1 DEF Settled
    <2>2. PaidFor(w, d, c, paid)  BY <2>p DEF CreditOK
    <2>3. Owed' = Owed
      <3>1. \A e, v, o : OrderAmount(e, v, o)' = OrderAmount(e, v, o)
        BY DEF OrderAmount, Amounts, LinesOf
      <3> QED  BY <3>1 DEF Owed
    <2>4. PaidFor(w, d, c, paid)'  BY <2>2, <2>3 DEF PaidFor
    <2> QED  BY <2>1, <2>4
  <1> QED  BY <1>3, <1>5 DEF CreditOK, CustomersOK

\* load and reset_order leave every customer with nothing to pay for.
LEMMA LoadedCredit == Loaded /\ OrdersOK /\ LinesOK /\ CustomersOK => CreditOK
  <1> SUFFICES ASSUME Loaded, OrdersOK, LinesOK, CustomersOK  PROVE CreditOK  OBVIOUS
  <1>1. base.customer = customer /\ \A t \in Tasks : pc[t] = "idle"  BY DEF Loaded
  <1>2. ASSUME NEW t \in Tasks  PROVE DeliveryAt(t)  BY <1>1 DEF DeliveryAt, Delivering
  <1>3. ASSUME NEW w \in Warehouses, NEW d \in Districts, NEW c \in Customers
        PROVE  PaidFor(w, d, c, Settled(w, d, c))
    <2>p. PICK paid, f, r : paid = Settled(w, d, c) /\ f = Owed /\ r = customer[<<w, d, c>>]  OBVIOUS
    <2>1. r.c_delivery_cnt \in Int /\ r.c_balance \in Int /\ r.c_ytd_payment \in Int
      BY <2>p DEF CustomersOK
    <2>2. paid \subseteq DOMAIN order  BY <2>p DEF Settled, Gone
    <2>3. IsFiniteSet(paid)  BY <2>2, OrderCount, FS_Subset DEF OrdersFinite
    <2>4. Cardinality(paid) \in Nat  BY <2>3, FS_CardinalityType
    <2>5. \A k \in paid : f[k] \in Nat  BY <2>2, <2>p, OrdersOwed DEF OwedOK
    <2>6. SumFunctionOnSet(f, paid) \in Nat  BY <2>3, <2>5, SumPart
    <2>7. /\ r.c_delivery_cnt <= r.c_delivery_cnt + Cardinality(paid)
          /\ r.c_balance + r.c_ytd_payment <= r.c_balance + r.c_ytd_payment + SumFunctionOnSet(f, paid)
      BY <2>1, <2>4, <2>6
    <2> QED  BY <1>1, <2>7, <2>p DEF PaidFor
  <1> QED  BY <1>1, <1>2, <1>3 DEF CreditOK, CustomersOK

\* The same of the next state.
LEMMA ResetCredit == Loaded' /\ OrdersOK' /\ LinesOK' /\ CustomersOK' => CreditOK'
  BY LoadedCredit, PTL

\* CreditInv holds at the start ...
LEMMA InitCredit == Init => CreditInv
  <1> SUFFICES ASSUME Init  PROVE CreditInv  OBVIOUS
  <1>1. PlacedInv /\ Loaded  BY InitPlaced, InitLoaded
  <1>2. OrdersOK /\ LinesOK  BY <1>1 DEF PlacedInv, PanicInv
  <1>3. CustomersOK  BY DEF Init, CustomersOK, LoadedCustomer
  <1> QED  BY <1>1, <1>2, <1>3, LoadedCredit DEF CreditInv

\* ... and is preserved by every step after which ids fit.
LEMMA NextCredit == IdsFit' /\ CreditInv /\ [Next]_vars => CreditInv'
  <1> SUFFICES ASSUME IdsFit', CreditInv, [Next]_vars  PROVE CreditInv'  OBVIOUS
  <1>0. PlacedInv /\ CreditOK /\ TxnOK /\ LinesOK /\ CustomersOK
    BY DEF CreditInv, CreditOK, PlacedInv, PanicInv
  <1>1. PlacedInv'  BY <1>0, NextPlacedInv
  <1>2. LinesOK' /\ OrdersOK'  BY <1>1 DEF PlacedInv, PanicInv
  <1>3. ASSUME NEW t \in Tasks, Step(t)  PROVE CreditOK'  BY <1>2, <1>3, WorkCredit DEF Step
  <1>4. ASSUME NEW t \in Tasks, Begin(t)  PROVE CreditOK'
    <2>1. base' = base /\ customer' = customer /\ order' = order /\ order_line' = order_line
          /\ new_order' = new_order /\ pc[t] = "idle"
      BY <1>4 DEF Begin, tables
    <2>2. \A u \in Tasks \ {t} : pc'[u] = pc[u] /\ txn'[u] = txn[u] /\ loc'[u] = loc[u]
      BY <1>0, <1>4, BeginKept DEF Kept, Others
    <2>3. PICK x \in Inputs(t) : pc' = [pc EXCEPT ![t] = FirstStep[x.type]]
      BY <1>4 DEF Begin, Goto
    <2>4. FirstStep[x.type] \notin {"dlv_o", "dlv_ol", "dlv_c", "dlv_upd"}
      BY NewOrderInput, OtherInput, FirstSteps DEF Inputs
    <2>5. ~Delivering(t) /\ ~Delivering(t)'  BY <1>0, <2>1, <2>3, <2>4 DEF TxnOK, Delivering
    <2>6. ASSUME NEW u \in Tasks
          PROVE  \/ pc'[u] = pc[u] /\ txn'[u] = txn[u] /\ loc'[u] = loc[u]
                 \/ ~Delivering(u) /\ ~Delivering(u)'
      <3>1. CASE u = t  BY <2>5, <3>1 DEF Delivering
      <3>2. CASE u # t  BY <2>2, <3>2
      <3> QED  BY <3>1, <3>2
    <2> QED  BY <1>0, <1>2, <2>1, <2>6, CreditKept
  <1>5. ASSUME reset_order  PROVE CreditOK'
    <2>1. CustomersOK'  BY <1>0, <1>5 DEF reset_order, CustomersOK
    <2> QED  BY <1>2, <1>5, <2>1, ResetLoaded, ResetCredit
  <1>6. ASSUME UNCHANGED vars  PROVE CreditOK'
    <2>1. base' = base /\ customer' = customer /\ order' = order /\ order_line' = order_line
          /\ new_order' = new_order /\ pc' = pc /\ txn' = txn /\ loc' = loc
      BY <1>6 DEF vars, tables
    <2> QED  BY <1>0, <1>2, <2>1, CreditKept
  <1>7. CreditOK'  BY <1>3, <1>4, <1>5, <1>6 DEF Next
  <1> QED  BY <1>1, <1>7 DEF CreditInv

\* The settled orders are out of the index, and all that are pay for no less.
LEMMA CreditsCovered == CreditInv => CreditedOnce
  <1> SUFFICES ASSUME CreditInv, NEW w \in Warehouses, NEW d \in Districts, NEW c \in Customers
               PROVE  PaidFor(w, d, c, Gone(w, d, c))
    BY DEF CreditedOnce
  <1>0. CreditOK /\ OrdersOK /\ LinesOK  BY DEF CreditInv, PlacedInv, PanicInv
  <1>p. PICK paid, G, f, r, b : /\ paid = Settled(w, d, c) /\ G = Gone(w, d, c) /\ f = Owed
                             /\ r = customer[<<w, d, c>>] /\ b = base.customer[<<w, d, c>>]
    OBVIOUS
  <1>1. paid \in SUBSET G /\ G \subseteq DOMAIN order  BY <1>p DEF Settled, Gone
  <1>2. /\ r.c_delivery_cnt \in Int /\ r.c_balance \in Int /\ r.c_ytd_payment \in Int
        /\ b.c_delivery_cnt \in Int /\ b.c_balance \in Int /\ b.c_ytd_payment \in Int
    BY <1>0, <1>p DEF CreditOK, CustomersOK
  <1>3. /\ r.c_delivery_cnt <= b.c_delivery_cnt + Cardinality(paid)
        /\ r.c_balance + r.c_ytd_payment <= b.c_balance + b.c_ytd_payment + SumFunctionOnSet(f, paid)
    <2>1. PaidFor(w, d, c, paid)  BY <1>0, <1>p DEF CreditOK
    <2> QED  BY <1>p, <2>1 DEF PaidFor
  <1>4. IsFiniteSet(G)  BY <1>0, <1>1, OrderCount, FS_Subset DEF OrdersFinite
  <1>5. Cardinality(paid) <= Cardinality(G) /\ Cardinality(paid) \in Nat /\ Cardinality(G) \in Nat
    BY <1>1, <1>4, FS_Subset, FS_CardinalityType
  <1>6. \A k \in G : f[k] \in Nat  BY <1>0, <1>1, <1>p, OrdersOwed DEF OwedOK
  <1>7. /\ SumFunctionOnSet(f, paid) \in Nat /\ SumFunctionOnSet(f, G) \in Nat
        /\ SumFunctionOnSet(f, paid) <= SumFunctionOnSet(f, G)
    BY <1>1, <1>4, <1>6, SumPart
  <1>8. /\ r.c_delivery_cnt <= b.c_delivery_cnt + Cardinality(G)
        /\ r.c_balance + r.c_ytd_payment <= b.c_balance + b.c_ytd_payment + SumFunctionOnSet(f, G)
    BY <1>2, <1>3, <1>5, <1>7
  <1> QED  BY <1>p, <1>8 DEF PaidFor

\* A customer is credited, and its deliveries counted, for orders that are out
\* of the new_order index only, each once and with no more than its lines come
\* to, however deliveries of other tasks, new orders and failed attempts are
\* interleaved, as long as no district's ids have outgrown their field of a key:
\* CreditedOnce.
THEOREM CreditsNeverRepeat == Spec => []CreditedOnce
  <1> DEFINE Inv == TxnOK /\ ItemsOK /\ DistrictsOK /\ (IdsFit => CreditInv)
  <1>1. Init => Inv  BY InitTxn, InitDistricts, InitCredit
  <1>2. Inv /\ [Next]_vars => Inv'
    <2>1. Inv /\ [Next]_vars => (TxnOK /\ ItemsOK /\ DistrictsOK)' /\ (IdsFit' => IdsFit)
      BY NextTxn, NextDistricts
    <2>2. Inv /\ [Next]_vars /\ IdsFit' => CreditInv'  BY <2>1, NextCredit
    <2> QED  BY <2>1, <2>2
  <1>3. Inv => CreditedOnce
    <2>1. CreditInv => CreditedOnce  BY CreditsCovered
    <2>2. ~IdsFit => CreditedOnce  BY DEF CreditedOnce
    <2> QED  BY <2>1, <2>2
  <1> QED  BY <1>1, <1>2, <1>3, PTL DEF Spec
====
