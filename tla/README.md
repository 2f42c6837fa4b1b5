# Alchemy: a TLA+ model of its core

Alchemy is a DRAM-PM hybrid database engine with an attribute-level cache: rows
live in persistent memory, and a small DRAM cache keeps, per record, only the
fields a schema calls hot. This directory models the concurrent core of the
engine and the TPC-C transactions that run on it, checks the models with TLC
and proves the core with TLAPS.

## The system

| part | source | state | operations |
|---|---|---|---|
| oid lock word | `src/src/attribute_cache/clock_cache/oid.rs` | one atomic word per record: lock byte, is_cached, id | read, try_read, write, try_write, upgrade, store_rid, store_index, guard drops |
| attribute cache | `src/src/attribute_cache/` | slots (rid, ref bit, cached item), oid array, thread-local clock hands | insert, read, read_and_promote, probe and evict, get_value(_mut), reset |
| row storage, PM heap | `src/src/storage/`, `src/src/utils/mmap.rs` | rows by rid; frames, each a file of the pool directory and its mapping | get, insert, alloc_frame, dealloc_frame |
| allocators | `src/src/utils/obj_alloc.rs`, `src/src/storage/oid_array.rs` | lock-free free list, per-thread arenas and free lists | alloc, append, delete, reset |
| logger | `src/src/log/mod.rs` | reserved and flushed offsets, two buffers, the file | acquire_log_buffer, append_log, try_flush_logs, stop_logger |
| executor | `src/src/async_task/` | task slots, outputs, count of finished tasks | spawn, run_ready_tasks |
| table, index | `src/src/table.rs`, `src/src/index/` | index over a cache | insert, read_oid, write_oid, lock_rid, range, reset |
| append-only table | `src/src/table.rs` | thread-local page buffers, pages on a frame | insert, reset |
| transactions | `src/benchmark/` | eight tables, the new_order index | new_order, payment, delivery, order_status, stock_level, bench_task, load, reset_order |

**How they interact.** A transaction is an async function. An executor on each
thread polls N of them, so transactions interleave at every await on one thread
and at every memory access across threads. A transaction finds a rid in an
index, takes a guard on the record's oid with a try-lock (a busy lock aborts
it), and reads or writes fields through a `QueryValue`, a raw pointer into
either a cache slot or a row. `read_and_promote` moves a record into a slot and
may evict another one, for which it takes that record's write lock by itself.
New records get their rid from the oid array, whose threads take arenas from a
lock-free list, and its row is memory of a frame. When a transaction has ended its input is appended to a log,
which one thread flushes.

**What is hard.** The lock word is decided on by a load and changed by a later
swap or store. A probe acts on a rid it saw in a slot that may have changed
hands. An item is written back after its oid already names the row. A query's
pointer is used long after it was computed. A free list reads links out of
blocks others already own. A record is in the cache before its index knows it,
and a rid is used long after the index gave it out. A frame is a counter, a file,
a mapping and a map entry, made and unmade in separate steps any of which the
system can refuse. The log has no hand-shake between writers and
flusher. The executor turns uninitialised memory into results when a `u8` says
so. Transactions keep what they wrote when they fail, and are run again.
`PROJECT.json` lists these hazards with their lines and the properties aimed at
them.

## Modules

| module | models | abstraction it implements |
|---|---|---|
| `OidLock` | the lock word: every load, swap, fetch_sub and store is an action | `RwLock` |
| `ClockCache` | cache, oids and rows; locks at the level of `RwLock` | `RecordStore` |
| `DbTable` | a table: an index over `ClockCache`, whose steps it contains | |
| `FreeList` | `ArrayAllocator` new, reset, alloc; every shared access an action | `Allocator` |
| `InsertonlyTable` | page buffers and pages over `FreeList`, whose steps it contains | |
| `HeapArray` | `HeapArray` and `OidArray`; the global list at the level of `Allocator` | |
| `PmHeap` | frames: files, mappings, `file_mapping`; every system call an action; restarts | |
| `TableStorage` | `HeapArray` and `PmHeap` together: rids have rows in a frame | |
| `Logger` | writers, two buffers, flusher thread, file | |
| `Executor` | the round-robin poll loop | |
| `Tpcc` | the five transactions, the retries and `reset_order`; tables are functions, a record is the unit `ClockCache` makes atomic under its lock | |

`XProofs` holds the theorems about `X` and the components it contains; `MCX` and its `.cfg` files instantiate
it for TLC. The layers meet at the abstractions: `ClockCache` uses the lock that
`OidLock` is proved to implement, `HeapArray` the allocator that `FreeList` is
proved to implement, and `Tpcc` updates a record in one step while it holds the
record's guard, which is what `RecordStore` promises. Its tables are functions
from keys to complete records, which is what `DbTable` promises of lookups.

State and code correspond as follows. A variable of a module is a field or an
atomic of the code, `pc` and `loc` are the program counter and the locals of a
call; variables marked *history* are not in the code. In `OidLock` the 8-bit
lock byte is `0..2*Writer-1` with wrapping arithmetic; in `ClockCache` a tuple
is a function from fields to values, `slots[i].rid = None` is `u32::MAX`, and
`gen_bool` is a free choice. In `DbTable` the key of a
tuple is one of its fields, a call of the index library is one step, and
`call[c].hits` are the rids a client looked up and has yet to lock. In `PmHeap`
`mapped` is the kernel's state and `files` the directory's; both the address of
a mapping and the success of a call are free choices. A page of `InsertonlyTable`
is the sequence of its tuples. In `Logger` a byte is its position in the log;
`write()` takes any number of the bytes of a buffer, and `fsync()` fails or not.
In `Tpcc` a lock is busy because of another transaction's guard, or because a task
on another thread, in a step in which it promotes a record of the same table,
evicts the record (`Evicted`): the eviction itself is `ClockCache`'s, and here it
only makes a try-lock fail. A run is followed up to its first panic (`Alive`),
which fails the benchmark. Amounts are 1 for a payment and the quantity for an order line, so that
sums can be compared; order and new_order keys are numbers in base `Radix`
(2^16 in the code), built without a mask and taken apart with one, as in
`tables.rs`; keys of the other tables never overlap at their scale and are
tuples. Definitions called `X_Something` with the comment *Mutant* are wrong
variants of `X`, used only to show that a property can fail.

## Runs

| run | instance | what it shows |
|---|---|---|
| `oid_safety` | 3 clients, `Writer` 2, spurious swap failures | guards exclude each other, the lock byte counts them exactly, the word refines `RwLock`, and the inductive invariant of the proofs |
| `oid_progress` | the same on x86, fair | a refused upgrade means another reader is there; `read()`/`write()` starve only while new calls keep arriving |
| `oid_saturation` | 2 clients | *violation*, finding 1 |
| `cache_refines` | 2 clients, 2 records, 1 slot, a hot and a cold field | no update is lost, queried fields are there, the cache refines `RecordStore` |
| `cache_slots` | 3 clients, 3 records, 2 slots, probes of 1 | oids and slots agree, no record is in two slots, no query goes stale under its guard, the inductive invariant |
| `db_table` | 2 clients, 2 records, 2 keys, 1 slot, scans of 1, fair | a rid found by a key is a complete record with that key, an inserted record is found, every call returns |
| `insertonly` | 2 threads, 3 pages of 3 tuples, fair | a page has one owner, out of memory means all are taken, `alloc` returns, every tuple is kept once, pages suffice for the table's capacity |
| `storage` | 2 threads, 2 records, arenas of 2 items, 1 spare arena; 2 owners, 2 addresses, 3 files | indexes are given out once, none is lost, the promised number of records fits; every rid has a row; a frame keeps its memory, entry and file, and nothing else stays mapped |
| `logger` | 2 writers, entries of 1 and 2, 2 buffers of 2, 7 bytes | the flushed offset stays behind, the file is the log byte by byte but for exactly the bytes that `write()` left out and those spoiled by a run-over, an early flush or an overwrite, a full buffer is flushed unless the thread ends |
| `logger_slices` | entries of 2 and 3 bytes, buffers of 4 | *violation*, finding 2 |
| `executor` | 3 entries, counter of 4 values | outputs returned were written by their own tasks; a full queue ends |
| `tpcc` | 2 tasks, 2 warehouses, 2 items, two-line orders, 2 transactions of one task and 1 of the other with a `reset_order` after one each, 2 attempts, keys with room for 3 order ids | orders complete and numbered without a gap, stock totals equal the order lines, totals of warehouse and districts differ by exactly the payments that failed between the two, no order credited twice, no panic but those of a discount at the end of its range or of ids that outgrew their keys, every transaction ends unless the run panics |

**Bounds.** `Writer = 2` makes two readers saturate the count that has room for
127 in the code, so three clients pass it. With two slots and three records a
probe meets a slot that was replaced after it read the rid, and a record could be
promoted into a second slot; two fields, one of them hot, are needed for a query
that only the row can answer. `ProbeLen = 2` in `cache_refines` lets a probe come
round to the same slot. In `db_table` two records can be inserted under one key
and evict each other while the other client holds either's rid; `BufLen = 1` cuts a
scan short of two matches. Three pages let a thread hold a successor that another
has taken since, and a page of size 10 with tuples of 3 wastes some of itself, as
the code's pages do. `N` and `Slack` scale 64 items and 128 arenas to 2 and 1: the
slack is one less than the number of threads, which is the least with which the
promised number of records fits (thread ids are never reused, so it counts every
thread that ever appended). Two addresses are reused by the second owner, a size is a
multiple of a huge page or not (`Whole`), and three files leave room for one
that was created and then refused. Entries of 1 and 2 bytes in buffers of 2 fill a
buffer exactly, share one or run over its end, and `MaxLog = 7` lets the writers
come round to the first buffer again.
`Radix = 4` is to `N = 3` of the executor what the `u8` is to 255 tasks. In
`Tpcc`, two tasks with a warehouse each are the smallest instance with remote
stock and remote customers; an order of two lines can be refused at the second;
stock of 2..4 with a quantity of 2 both refills and does not. `MaxTxns` is the
number of transactions a task starts, two and one: one can fail against another
and a third look at the result. `IterationEnds` names the counts after which
orders are reset, so that one transaction runs on reset tables with counters of
before; `MaxRetry = 2` scales 5. A customer has one loaded order, ids start at 2
and `Radix = 3` has room for the first of them: the second order of a district
takes an id that outgrows its field, as the 62536th does in the code. The properties
that need keys to be apart say so (`IdsFit`), and the run covers both sides. The
customers of one warehouse have a discount at the end of the range load draws
from, the others one inside it, and `RecentOrders = 2` is what `stock_level`
asserts of a district's next id, 20 in the code.

**Fairness.** Weak fairness is assumed of a step inside a call: a thread in a
call keeps running, and an executor or `block_on` polls a task again after every
Pending. Nothing is assumed of starting new calls. `oid_progress` also assumes
that a guard is dropped in the end, which Rust's scopes do. The flusher thread
runs. In `db_table` fairness covers the rest of an insert, of a promotion and of
their probes; in `insertonly` the steps of `alloc`, and the copy or the panic that
follows it. No fairness is assumed of winning a race: compare-and-swaps and
try-locks may lose as often as the others let them.

**Deadlock** is checked except where a run ends by design: the log bound, the
executor's last return, the bound on transactions.

## Proofs

All hold for every value of the constants under the named assumptions.

- `OidLockProofs`: exclusion and the exact lock byte, for any finite set of
  clients and any width of the count (`Writer > 1`); that the word implements
  `RwLock`; that `upgrade` is refused only because of another reader. `IndInv`
  adds what a client between its load and its swap knows: the word it loaded
  allows what it is about to do, so a swap that succeeds does too, and a store
  by the writer finds the lock byte it loaded.
- `ClockCacheProofs`: for any clients, records, fields, slots and probe length,
  `IndInv`, and from it that no `QueryValue` goes stale, that none lacks a
  field, that unlocked oids and slots agree and that a record is in one slot.
  `DataInv` follows the data: what a record was last given is in the row and,
  for hot fields, in the slot its oid names; and the item that an insert or a
  promotion carries through its probes is that of the tuple or row it was made
  from (`ItemOK`), in the slot before the oid names the slot. From it, that no
  update is lost and that the cache implements `RecordStore`. The argument is
  the same for every action: a client changes an oid, or the slot that holds a
  record, only under that record's write lock, so whatever another client has a
  guard on is untouched; what is left is that the client keeps its own promises,
  stated per program counter (`CallOK`).
- `DbTableProofs`: every step of a table is a step of its cache or leaves the
  cache alone, so `ClockCache`'s invariant carries over. `TableInv` adds that a
  record between cache and index is write-locked by its one inserter and known
  to nobody else. Hence a rid found by a key, in the index or in a scan, is a
  complete record with that key, and an inserted record is found.
- `InsertonlyTableProofs`, first part: the free list as the engine uses it, from
  which nothing is returned. The head only moves down the list that `new` built,
  so a node that is still the head has never been given out and the successor
  read from it is the original one. One owner per block, and refinement of
  `Allocator`. With `dealloc`, which only unit tests call, the invariant is
  false (a head that comes back is the ABA case), and the module leaves it out.
- Second part, `InsertonlyTable`: every step is one of the free list, the copy
  of a buffer being a use of a block its thread owns. `TableInv` says that the
  buffer of a thread is the last part of what it inserted (`ThreadOK`), that the
  rest fills the pages it owns, but for the one it was given and has not written
  yet (`Hand`), and that a tuple is in one page (`PagesOK`). Hence `TuplesKept`;
  and when `alloc` fails, all pages are full or about to be filled from a full
  buffer, as is the buffer that finds no page: `RunsOutLate`.
- `TableStorageProofs`, first part: an item of a `HeapArray` is in at most one
  place, and in one place at all; and `RecordsFit`, for any finite set of
  threads. `FitOK` is what the latter needs: a thread keeps what is left of at
  most one arena, and after its append failed the global list and its own arena
  are empty. So all items but one arena for each other thread are in use or
  recycled.
- Second part, `PmHeap`: whatever addresses the system picks, whichever calls it
  refuses and wherever the process dies, a frame in use has memory, an entry and
  a file of its own, and nothing else stays mapped. `dealloc_frame` unwraps twice:
  it always finds its entry and its file, so it panics only when the system
  refuses to remove a file that is there (`RemoveFile`'s second case). File names are fresh because every name in use is below the counter;
  an address is not reused before the frame's munmap, which comes after its
  entry is gone.
- Third part, `TableStorage`: every step splits into one of `HeapArray` and one
  of `PmHeap`, so the invariants carry over; rids exist only while the frame
  does.
- `LoggerProofs`: for any set of writers, any entry sizes and buffer
  size, the flushed offset stays behind, at a multiple of the buffer, and every
  byte of the file is accounted for (`FileExact`). Two history variables say
  which bytes may differ: `lost` are those that a failed or short `write` did not
  take, `spoiled` those that had no cell because their entry ran over the end of
  its buffer (finding 2), that were written before they were copied, or
  overwritten before they were written. All others are in the file, in order,
  once and as they were logged, also after an `fsync` whose failure panics
  between the write and the advance. `LogInv` says where a byte is that is
  reserved and not yet written: in its cell, in a slice that its writer has
  still to fill, or spoiled (`BytesOK`).
- `ExecutorProofs`: if `N < Radix`, the counter is the number of finished tasks,
  so no output is returned uninitialised.
- `TpccProofs`, for every scale of the tables, any number of tasks and any
  inputs. `TxnOK` gives every step the kind of input it works on and keeps loops
  within their bounds. `StockInv` adds that the lines a `new_order` writes name
  items that exist, since it has locked their stock: `StockInRange`. `TotalsInv`
  adds that only its own task locks a warehouse and its districts, so at most
  one payment is between the two totals (`Unpaid`), and the warehouse is then
  locked; an attempt that fails there, which an eviction of the district can
  cause, is counted in the history variable `strayed`: `TotalsExplained`.
  `PanicInv` adds that keys have no carry and can be taken apart, and that every
  new_order key is that of an order (`OrdersOK`) which nobody removes while a
  `delivery` is on its way to it (`FoundOK`): `PanicsExplained`.
- `TpccProofs`, the accounts since load or `reset_order`. Each property speaks of
  records that nobody has locked, or of all orders at once, and none is
  inductive: the invariants say what is true in between as well.
  `TalliesInv`: a stock and the line it supplies are written in one step, and
  the line under a key that was not there (`LinesOK`: lines have ids that were
  given out, and those a task has still to write are absent, as the items of an
  input differ), so every stock tallies even while locked: `StockAccounts`.
  `PlacedInv`: `new_order` holds its district until its last line
  (`DistrictHeldAt`), an id given out is that of exactly one order, and an order
  has all of its lines or those before the present line of the one task that is
  writing it (`OrderWhole`); no district that can be locked is in the second
  case: `OrdersComplete`.
  `CreditInv`: a customer has been credited with `Settled` orders only, out of
  the index and no longer in the hands of a delivery, and a delivery has added
  up no more than its order comes to, as the rids left to visit are lines of the
  order, each once (`DeliveryAt`). An order passes from one delivery to settled
  when it is credited, and no other task has it, since tasks deliver in their
  own warehouses: `CreditedOnce`.
- `OrdersComplete`, `CreditedOnce` and `PanicsExplained` hold while `IdsFit`
  does: no district's `d_next_o_id` exceeds `Radix`. In the code that is 62535 new
  orders of a district after its 3000 loaded ones; nothing enforces it, and beyond
  it a key has a carry and one order can replace another in the index. It is a
  condition on states and not on the run: ids never come down again (`IdsFit'`
  implies `IdsFit`), so the invariants are proved as `IdsFit => PlacedInv` and so
  on, for any number of transactions and tasks.

The prover's library has no induction that the backends can instantiate, so
facts about sums over sets (`SumFunctionOnSet`, in `YtdSum`, `Tally` and
`PaidFor`, and `TupleSum`) are proved by taking a smallest counterexample, with
the theorem that `<` on naturals is well-founded.

Every invariant and every safety property that a passing run checks is also
proved. The inductive invariants were checked by TLC on the instances of the runs
before they were proved.

Assumptions on constants are those of the code: finite sets of threads and
clients where a proof counts them, `None` distinct from every value, and in
`ScaleAssumption` that an order has a line, that a task has a warehouse, that
scales fit the fields of a key and that a refill (91) makes up for any quantity
ordered (1 to 10).

Model-checked only: liveness, which is beyond the prover (`BlockedOnlyByNewCalls`,
`AllocReturns`, `FullIsFlushed`, `FullQueueReturns`, `TxnsEnd`, `TableCallsReturn`).

## Findings

1. `oid_saturation`: `upgrade` says "not write locked for sure because we're
   holding read lock" and asserts it. `read()` adds to the reader count without a
   bound, and the 128th reader sets the writer bit.
2. `logger_slices`: `acquire_log_buffer` returns a slice that may reach beyond
   the end of the buffer. The driver logs entries of several sizes that do not
   divide it.

Remarks met while modelling, without a run:

- `payment` that fails after its first update and is tried again has added its
  amount to the warehouse (and district) once per attempt, so totals no longer
  match what customers were charged. Even the totals of a warehouse and its
  districts come apart when an attempt fails between the two: no other
  transaction locks the district of a task that has its warehouse to itself, but
  an eviction may (`cache_inner.rs:208`). `TotalsExplained` counts those attempts
  and shows that nothing else moves the totals apart.
- `payment.rs:275` asserts `0 < c_discount < 0.5`, and `workload.rs:334` draws
  discounts from `0.0..=0.5`, ends included. A customer with such a discount makes
  every payment of theirs panic (`DiscountAtEnd`); the odds of drawing one are
  those of a single value of an `f64`. The one before it (`payment.rs:268`) compares a
  constant of load that nothing changes, and is left out. The assertion of `stock_level.rs:72`,
  `d_next_o_id >= 20`, holds at the code's scale, as 3000 orders are loaded:
  `ScaleAssumption` has it as `RecentOrders <= NCustomers + 1`.
- `delivery` removes the new_order key before it takes its locks: an attempt that
  fails there loses the order for good. `CreditedOnce` is therefore an upper
  bound.
- `order_status.rs:125` speaks of "the most recent order"; the scan keeps the
  first 12 orders of the customer in key order and takes the last of these.
  `stock_level.rs:71` speaks of "the most recent 20 records"; `min(0, ..)` is
  always 0, so it scans from the first order.
- Order ids go into 16 bits of a key without a mask, and `reset_order` does not
  reset `d_next_o_id`. Its comment (`workload.rs:351`) says the tables are "the
  same after each iteration"; orders are, while order ids, stock and customers go
  on from where they were. `OrdersComplete`, `StockAccounts` and `CreditedOnce`
  are therefore stated relative to the last reset.
- A table's two inserts of one key leave the first record without an index entry.
  `FoundHasKey` needs that nobody updates the key field, which no caller does.
- When `MAP_SYNC` is refused, `create_and_map_pool` says it tries "to map as a
  disk file instead" (`mmap.rs:18`) and maps anonymous private memory: no
  data reaches the file. The result of `munmap` is ignored; it is refused for a huge-page
  frame whose size is no multiple of a huge page, the exception in `MappedIsUsed`.
  `Drop for PmHeap` never runs, as the heap is a static: files of frames in use
  stay behind, and the next process truncates them when its counter gets there.
- `InsertonlyTable` computes its pages from the size of its tuples, a page holds
  only whole ones. The buffers of the last, unfinished pages make up for it while
  there are at most as many pages as tuples in one (`InsertonlyAssumption`). Those
  buffers are never copied to a page. Nothing outside `table.rs` uses the type.
- `read_and_promote` counts a `ReadMiss` twice. `acquire_lsn` is said to "reserve
  a slot" (`log/mod.rs:103`) and only counts. `stop_logger` leaves a last, partly
  filled buffer unflushed.

## Not modelled

- Memory orderings weaker than sequential consistency: the crate builds for
  x86-64, whose locked instructions are fences, but `Ordering::Relaxed` guards
  promise less than the models assume.
- `ArrayAllocator::dealloc` (unit tests only), `lsn` and the hotness counter of
  `NodeMeta` (nothing reads them), metrics and backoff (statistics and delays).
- What follows the first panic of a TPC-C run, and `debug_assert`s, which a release
  build leaves out. A `compare_exchange_weak` of the cache's probe does not fail
  spuriously in `ClockCache`, which on x86-64 it does not.
- Schema offsets, the derive macro and the prefetch instructions (layout). A query
  is the set of its fields.
- A rid kept from before `reset` (`reset` takes `&mut self`), and
  `InsertonlyTable::reset` with inserts under way (it takes `&self`, is "for
  benchmark only" and has no caller).
- The micro benchmark only calls what `ClockCache`'s and `DbTable`'s clients
  already do.

## Plan

What is left are runs for the comments at `order_status.rs:125` and
`stock_level.rs:71` (see Findings), which the scans of `Tpcc` are ready for.
