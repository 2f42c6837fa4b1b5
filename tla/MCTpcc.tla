------------------------------- MODULE MCTpcc -------------------------------
EXTENDS Tpcc

\* The customers of the last warehouse have no discount, the others some.
Discounts ==
  [wdc \in Warehouses \X Districts \X Customers |->
     IF wdc[1] = NWarehouses - 1 THEN 0 ELSE 1]

\* The first task runs two transactions, the other one.
Starts == [t \in Tasks |-> IF t = 0 THEN 2 ELSE 1]

\* An iteration ends after one transaction of each.
Ends == {[t \in Tasks |-> 1]}
=============================================================================
