---------------------------- MODULE RecordStore -----------------------------
(***************************************************************************)
(* What a table's cache promises a transaction: records that are read and  *)
(* written under record locks.  There are no cache slots, no row storage   *)
(* and no eviction here.  A record has one value per field; only the       *)
(* holder of its write lock changes it, and a lock holder reads the value  *)
(* last written.  The cache takes write locks of its own to evict a        *)
(* record, so a lock may also be taken and dropped without any access.     *)
(***************************************************************************)
CONSTANTS Clients, Rids, Fields, Values, NoRecord

VARIABLES rec,       \* rec[r]: the record named r, or NoRecord
          readers,   \* readers[r]: the clients that hold r for reading
          writers,   \* writers[r]: the client that holds r for writing
          out        \* out[c]: the value c read last

vars == <<rec, readers, writers, out>>

Tuples == [Fields -> Values]

Init ==
  /\ rec = [r \in Rids |-> NoRecord]
  /\ readers = [r \in Rids |-> {}]
  /\ writers = [r \in Rids |-> {}]
  /\ out \in [Clients -> Values]

LockRead(c, r) ==
  /\ writers[r] = {}
  /\ readers' = [readers EXCEPT ![r] = @ \cup {c}]
  /\ UNCHANGED <<rec, writers, out>>

LockWrite(c, r) ==
  /\ readers[r] = {} /\ writers[r] = {}
  /\ writers' = [writers EXCEPT ![r] = {c}]
  /\ UNCHANGED <<rec, readers, out>>

Upgrade(c, r) ==
  /\ readers[r] = {c} /\ writers[r] = {}
  /\ readers' = [readers EXCEPT ![r] = {}]
  /\ writers' = [writers EXCEPT ![r] = {c}]
  /\ UNCHANGED <<rec, out>>

Unlock(c, r) ==
  /\ c \in readers[r] \cup writers[r]
  /\ readers' = [readers EXCEPT ![r] = @ \ {c}]
  /\ writers' = [writers EXCEPT ![r] = @ \ {c}]
  /\ UNCHANGED <<rec, out>>

\* A new record appears, complete, in the hands of its inserter.
Create(c, r) ==
  /\ writers[r] = {c} /\ rec[r] = NoRecord
  /\ \E t \in Tuples : rec' = [rec EXCEPT ![r] = t]
  /\ UNCHANGED <<readers, writers, out>>

Get(c, r, f) ==
  /\ c \in readers[r] \cup writers[r] /\ rec[r] # NoRecord
  /\ out' = [out EXCEPT ![c] = rec[r][f]]
  /\ UNCHANGED <<rec, readers, writers>>

Set(c, r, f) ==
  /\ c \in writers[r] /\ rec[r] # NoRecord
  /\ \E v \in Values : rec' = [rec EXCEPT ![r][f] = v]
  /\ UNCHANGED <<readers, writers, out>>

Clear ==
  /\ \A r \in Rids : readers[r] = {} /\ writers[r] = {}
  /\ rec' = [r \in Rids |-> NoRecord]
  /\ UNCHANGED <<readers, writers, out>>

Next ==
  \/ \E c \in Clients, r \in Rids :
       \/ LockRead(c, r) \/ LockWrite(c, r) \/ Upgrade(c, r) \/ Unlock(c, r)
       \/ Create(c, r)
       \/ \E f \in Fields : Get(c, r, f) \/ Set(c, r, f)
  \/ Clear

Spec == Init /\ [][Next]_vars
=============================================================================
