----------------------------- MODULE ClockCache -----------------------------
(***************************************************************************)
(* The attribute-level cache of one table                                  *)
(* (src/src/attribute_cache/clock_cache/): an array of oids that says for  *)
(* every record whether its cached fields live in a cache slot or in its   *)
(* row, an array of cache slots probed clock-wise, and the row storage.    *)
(*                                                                         *)
(* The oid lock is used at the level of RwLock, which OidLock implements:  *)
(* a guard is granted or dropped in one step.  A try_read or try_write     *)
(* that fails leaves no trace and is not a step, except inside the probe,  *)
(* where it moves the probe on; it may fail on a free lock too (LockBusy). *)
(* Otherwise every access to memory that another client can reach is a     *)
(* step of its own, so clients interleave anywhere inside insert and       *)
(* read_and_promote, and a suspended task (an await) is a client that does *)
(* not move.  Random choices (gen_bool) are nondeterministic.              *)
(***************************************************************************)
EXTENDS Integers, FiniteSets

CONSTANTS Clients,    \* transactions, each run by a thread
          Rids,       \* row ids
          Fields,     \* fields of a tuple
          Cached,     \* the fields the schema keeps in the cache
          Values,     \* values of a field
          Queries,    \* the sets of fields a caller may query
          Cap,        \* number of cache slots (capacity)
          ProbeLen,   \* probe_len
          None        \* a null: Option::None, and u32::MAX as the rid of a free slot

Slots == 0..(Cap - 1)
Tuples == [Fields -> Values]
CachedItems == [Cached -> Values]
QueryValues == [query : Queries, slot : Slots \cup {None}, row : Rids \cup {None}]

ASSUME CacheAssumption ==
  /\ Cached \subseteq Fields
  /\ Queries \subseteq SUBSET Fields
  /\ Cap \in Nat \ {0}              \* assert!(cache_cnt > 0)
  /\ ProbeLen \in Nat
  /\ None \notin Rids
  /\ None \notin Slots
  /\ None \notin QueryValues
  /\ None \notin Tuples

VARIABLES allocd,    \* the rids handed out by the oid array
          oid,       \* oid[r]: the body of the oid word of r
          readers,   \* readers[r]: the clients with an OidReadGuard on r
          writers,   \* writers[r]: the client with an OidWriteGuard on r
          slots,     \* the ClockNode array: rid, ref bit, cached item
          store,     \* store[r]: row r of the table storage
          hand,      \* hand[c]: the thread-local clock hand (tls_index)
          pc,        \* where a client is inside insert or read_and_promote
          loc,       \* the locals of that call
          qv,        \* qv[c][r]: the QueryValue c holds on record r
          out,       \* out[c]: the value c read last
          rec        \* history: the records as their writers left them

locks == <<readers, writers>>
vars == <<allocd, oid, readers, writers, slots, store, hand, pc, loc, qv, out, rec>>

-----------------------------------------------------------------------------
RowOf(r)  == [cached |-> FALSE, id |-> r]
SlotOf(i) == [cached |-> TRUE, id |-> i]
ClockNode(r, item) == [rid |-> r, ref |-> FALSE, val |-> item]

\* Schema::to_cached, write_back and matches
to_cached(t) == [f \in Cached |-> t[f]]
write_back(item, t) == [f \in Fields |-> IF f \in Cached THEN item[f] ELSE t[f]]
\* Mutant: a query matches as soon as one of its fields is cached.
matches_Any(q) == q \cap Cached # {}

matches(q) == q \subseteq Cached

QueryValue(q, i, r) == [query |-> q, slot |-> i, row |-> r]

Idle(c) == pc[c] = "idle"
Holds(c, r) == c \in readers[r] \cup writers[r]
Free(r) == readers[r] = {} /\ writers[r] = {}

\* The hand of c moved on by one slot: advance_index.
Advanced(c) == (hand[c] + 1) % Cap

Goto(c, l) == pc' = [pc EXCEPT ![c] = l]
WriteLock(c, r) == writers' = [writers EXCEPT ![r] = {c}]
WriteUnlock(c, r) == writers' = [writers EXCEPT ![r] = @ \ {c}]

\* The next round of the probe, or the end of the loop without a slot.
NextProbe(c) ==
  /\ loc' = [loc EXCEPT ![c].probe = @ + 1]
  /\ Goto(c, IF loc[c].probe + 1 < ProbeLen THEN "probe"
             ELSE IF loc[c].kind = "insert" THEN "store" ELSE "miss")

\* Where a call goes on once its node sits in a slot.
Placed(c) == IF loc[c].kind = "insert" THEN "store" ELSE "hit"

-----------------------------------------------------------------------------
Init ==
  /\ allocd = {}
  /\ oid = [r \in Rids |-> RowOf(None)]
  /\ readers = [r \in Rids |-> {}]
  /\ writers = [r \in Rids |-> {}]
  /\ \E t \in Tuples :
       /\ slots = [i \in Slots |-> ClockNode(None, to_cached(t))]
       /\ store = [r \in Rids |-> t]
  /\ hand \in [Clients -> Slots]
  /\ pc = [c \in Clients |-> "idle"]
  /\ loc = [c \in Clients |-> None]
  /\ qv = [c \in Clients |-> [r \in Rids |-> None]]
  /\ \E v \in Values : out = [c \in Clients |-> v]
  /\ rec = [r \in Rids |-> None]

\* ClockCache::read_lock, write_lock and their sync forms, when they succeed.
ReadLock(c, r) ==
  /\ Idle(c) /\ r \in allocd /\ writers[r] = {} /\ c \notin readers[r]
  /\ readers' = [readers EXCEPT ![r] = @ \cup {c}]
  /\ UNCHANGED <<allocd, oid, writers, slots, store, hand, pc, loc, qv, out, rec>>

TryWriteLock(c, r) ==
  /\ Idle(c) /\ r \in allocd /\ Free(r)
  /\ WriteLock(c, r)
  /\ UNCHANGED <<allocd, oid, readers, slots, store, hand, pc, loc, qv, out, rec>>

\* OidGuard::upgrade, when it succeeds.  It consumes the read guard, and with
\* it whatever was borrowed from it.
UpgradeLock(c, r) ==
  /\ Idle(c) /\ readers[r] = {c}
  /\ readers' = [readers EXCEPT ![r] = {}]
  /\ WriteLock(c, r)
  /\ qv' = [qv EXCEPT ![c][r] = None]
  /\ UNCHANGED <<allocd, oid, slots, store, hand, pc, loc, out, rec>>

\* A guard is dropped; no QueryValue outlives the guard it borrows.
DropGuard(c, r) ==
  /\ Idle(c) /\ Holds(c, r)
  /\ readers' = [readers EXCEPT ![r] = @ \ {c}]
  /\ WriteUnlock(c, r)
  /\ qv' = [qv EXCEPT ![c][r] = None]
  /\ UNCHANGED <<allocd, oid, slots, store, hand, pc, loc, out, rec>>

\* ClockCache::insert up to the probe: a fresh oid, not reachable by anyone
\* else yet, is write-locked and named after itself (alloc_rid).
Insert(c, t) ==
  /\ Idle(c)
  /\ \E r \in Rids \ allocd :
       /\ allocd' = allocd \cup {r}
       /\ oid' = [oid EXCEPT ![r] = RowOf(r)]
       /\ WriteLock(c, r)
       /\ loc' = [loc EXCEPT ![c] =
                    [kind |-> "insert", rid |-> r, tuple |-> t, query |-> {},
                     node |-> ClockNode(r, to_cached(t)), probe |-> 0,
                     seen |-> None, old |-> None]]
  /\ Goto(c, IF ProbeLen > 0 THEN "probe" ELSE "store")
  /\ UNCHANGED <<readers, slots, store, hand, qv, out, rec>>

\* What read() hands out: the cached item if the oid names a slot, and the row
\* unless the cached item satisfies the query.  The row of a cached record is
\* found through the rid of the slot.
Lookup(r, q) ==
  IF oid[r].cached
    THEN QueryValue(q, oid[r].id, IF matches(q) THEN None ELSE slots[oid[r].id].rid)
    ELSE QueryValue(q, None, oid[r].id)

\* CacheInner::read sets the ref bit of the slot with some probability.
MaybeSetRef(i) ==
  \E b \in {TRUE, slots[i].ref} : slots' = [slots EXCEPT ![i].ref = b]

\* ClockCache::read, and the part of read_and_promote that answers at once:
\* a hit, or a miss when probing is switched off.
Read(c, r, q) ==
  /\ Idle(c) /\ Holds(c, r)
  /\ qv' = [qv EXCEPT ![c][r] = Lookup(r, q)]
  /\ IF oid[r].cached THEN MaybeSetRef(oid[r].id) ELSE UNCHANGED slots
  /\ UNCHANGED <<allocd, oid, readers, writers, store, hand, pc, loc, out, rec>>

\* Mutant: a record that is cached already is promoted again.
ReadAndPromote_Twice(c, r, q) ==
  /\ Idle(c) /\ c \in writers[r] /\ ProbeLen > 0
  /\ loc' = [loc EXCEPT ![c] =
               [kind |-> "promote", rid |-> r, tuple |-> None,
                query |-> q, node |-> None, probe |-> 0, seen |-> None,
                old |-> None]]
  /\ Goto(c, "await")
  /\ qv' = [qv EXCEPT ![c][r] = None]
  /\ UNCHANGED <<allocd, oid, readers, writers, slots, store, hand, out, rec>>

\* read_and_promote on a miss, up to its await.
ReadAndPromote(c, r, q) ==
  /\ Idle(c) /\ c \in writers[r]
  /\ ~oid[r].cached /\ ProbeLen > 0
  /\ loc' = [loc EXCEPT ![c] =
               [kind |-> "promote", rid |-> oid[r].id, tuple |-> None,
                query |-> q, node |-> None, probe |-> 0, seen |-> None,
                old |-> None]]
  /\ Goto(c, "await")
  /\ qv' = [qv EXCEPT ![c][r] = None]
  /\ UNCHANGED <<allocd, oid, readers, writers, slots, store, hand, out, rec>>

\* After the await: the cached item is made from the row, and the probe starts
\* or is skipped at random.
Resume(c) ==
  /\ pc[c] = "await"
  /\ loc' = [loc EXCEPT ![c].node = ClockNode(loc[c].rid, to_cached(store[loc[c].rid]))]
  /\ Goto(c, "probe") \/ Goto(c, "miss")
  /\ UNCHANGED <<allocd, oid, readers, writers, slots, store, hand, qv, out, rec>>

-----------------------------------------------------------------------------
(* probe_and_replace_rng, run by insert and by read_and_promote.           *)

\* A round begins: move the hand and load the rid of the slot under it.
Probe(c) ==
  /\ pc[c] = "probe"
  /\ hand' = [hand EXCEPT ![c] = Advanced(c)]
  /\ LET seen == slots[Advanced(c)].rid IN
       /\ loc' = [loc EXCEPT ![c].seen = seen]
       /\ Goto(c, IF seen = None THEN "claim" ELSE "check")
  /\ UNCHANGED <<allocd, oid, readers, writers, slots, store, qv, out, rec>>

\* Mutant: the free slot is claimed with a store.
Claim_Store(c) ==
  /\ pc[c] = "claim"
  /\ slots' = [slots EXCEPT ![hand[c]].rid = loc[c].rid]
  /\ Goto(c, "fill")
  /\ UNCHANGED <<allocd, oid, readers, writers, store, hand, loc, qv, out, rec>>

\* The slot looked free: claim it with a swap of its rid, or go on.
Claim(c) ==
  /\ pc[c] = "claim"
  /\ \/ /\ slots[hand[c]].rid = None
        /\ slots' = [slots EXCEPT ![hand[c]].rid = loc[c].rid]
        /\ Goto(c, "fill")
        /\ UNCHANGED loc
     \/ slots[hand[c]].rid # None /\ NextProbe(c) /\ UNCHANGED slots
  /\ UNCHANGED <<allocd, oid, readers, writers, store, hand, qv, out, rec>>

\* *cur_entry = new_node
Fill(c) ==
  /\ pc[c] = "fill"
  /\ slots' = [slots EXCEPT ![hand[c]] = loc[c].node]
  /\ Goto(c, "index")
  /\ UNCHANGED <<allocd, oid, readers, writers, store, hand, loc, qv, out, rec>>

\* try_clear_ref of an occupied slot is a load ...
CheckRef(c) ==
  /\ pc[c] = "check"
  /\ Goto(c, IF slots[hand[c]].ref THEN "clear" ELSE "lock")
  /\ UNCHANGED <<allocd, oid, readers, writers, slots, store, hand, loc, qv, out, rec>>

\* ... and a store, whatever happened to the slot in between.
ClearRef(c) ==
  /\ pc[c] = "clear"
  /\ slots' = [slots EXCEPT ![hand[c]].ref = FALSE]
  /\ NextProbe(c)
  /\ UNCHANGED <<allocd, oid, readers, writers, store, hand, qv, out, rec>>

\* Mutant: the evictor looks for a writer of the victim only.
LockVictim_IgnoreReaders(c) ==
  /\ pc[c] = "lock"
  /\ \/ /\ writers[loc[c].seen] = {}
        /\ WriteLock(c, loc[c].seen)
        /\ Goto(c, "validate")
        /\ UNCHANGED loc
     \/ NextProbe(c) /\ UNCHANGED writers
  /\ UNCHANGED <<allocd, oid, readers, slots, store, hand, qv, out, rec>>

\* Mutant: the evictor waits for the victim's lock.
LockVictim_Wait(c) ==
  /\ pc[c] = "lock"
  /\ Free(loc[c].seen)
  /\ WriteLock(c, loc[c].seen)
  /\ Goto(c, "validate")
  /\ UNCHANGED <<allocd, oid, readers, slots, store, hand, loc, qv, out, rec>>

\* try_write on the oid of the record seen in the slot.
LockVictim(c) ==
  /\ pc[c] = "lock"
  /\ \/ /\ Free(loc[c].seen)
        /\ WriteLock(c, loc[c].seen)
        /\ Goto(c, "validate")
        /\ UNCHANGED loc
     \/ NextProbe(c) /\ UNCHANGED writers
  /\ UNCHANGED <<allocd, oid, readers, slots, store, hand, qv, out, rec>>

\* Mutant: the slot is not looked at again after the victim was locked.
Validate_Skip(c) ==
  /\ pc[c] = "validate"
  /\ Goto(c, "unindex")
  /\ UNCHANGED <<allocd, oid, readers, writers, slots, store, hand, loc, qv, out, rec>>

\* Does the slot still hold the record that was locked?
Validate(c) ==
  /\ pc[c] = "validate"
  /\ \/ /\ slots[hand[c]].rid = loc[c].seen
        /\ Goto(c, "unindex")
        /\ UNCHANGED <<writers, loc>>
     \/ /\ slots[hand[c]].rid # loc[c].seen
        /\ WriteUnlock(c, loc[c].seen)
        /\ NextProbe(c)
  /\ UNCHANGED <<allocd, oid, readers, slots, store, hand, qv, out, rec>>

\* store_rid: the victim's oid names its row again.
Unindex(c) ==
  /\ pc[c] = "unindex"
  /\ oid' = [oid EXCEPT ![loc[c].seen] = RowOf(slots[hand[c]].rid)]
  /\ Goto(c, "replace")
  /\ UNCHANGED <<allocd, readers, writers, slots, store, hand, loc, qv, out, rec>>

\* mem::replace of the node
Replace(c) ==
  /\ pc[c] = "replace"
  /\ loc' = [loc EXCEPT ![c].old = slots[hand[c]]]
  /\ slots' = [slots EXCEPT ![hand[c]] = loc[c].node]
  /\ Goto(c, "reindex")
  /\ UNCHANGED <<allocd, oid, readers, writers, store, hand, qv, out, rec>>

\* store_index: the oid of the new node names its slot.  read_and_promote then
\* sets the ref bit of the slot at random.
StoreIndex(c, l) ==
  /\ oid' = [oid EXCEPT ![loc[c].rid] = SlotOf(hand[c])]
  /\ IF loc[c].kind = "promote" THEN MaybeSetRef(hand[c]) ELSE UNCHANGED slots
  /\ Goto(c, l)
  /\ UNCHANGED <<allocd, readers, writers, store, hand, loc, qv, out, rec>>

Index(c)   == pc[c] = "index" /\ StoreIndex(c, Placed(c))
Reindex(c) == pc[c] = "reindex" /\ StoreIndex(c, "write_back")

\* Mutant: the evicted item is dropped.
WriteBack_Skip(c) ==
  /\ pc[c] = "write_back"
  /\ Goto(c, "drop_victim")
  /\ UNCHANGED <<allocd, oid, readers, writers, slots, store, hand, loc, qv, out, rec>>

\* The evicted item goes back to its row ...
WriteBack(c) ==
  /\ pc[c] = "write_back"
  /\ store' = [store EXCEPT ![loc[c].old.rid] = write_back(loc[c].old.val, @)]
  /\ Goto(c, "drop_victim")
  /\ UNCHANGED <<allocd, oid, readers, writers, slots, hand, loc, qv, out, rec>>

\* ... before the guard on the evicted record is dropped.
DropVictim(c) ==
  /\ pc[c] = "drop_victim"
  /\ WriteUnlock(c, loc[c].seen)
  /\ loc' = [loc EXCEPT ![c].old = None]
  /\ Goto(c, Placed(c))
  /\ UNCHANGED <<allocd, oid, readers, slots, store, hand, qv, out, rec>>

-----------------------------------------------------------------------------
\* insert ends: the row is written, the guard goes to the caller.
StoreTuple(c) ==
  /\ pc[c] = "store"
  /\ store' = [store EXCEPT ![loc[c].rid] = loc[c].tuple]
  /\ rec' = [rec EXCEPT ![loc[c].rid] = loc[c].tuple]
  /\ Goto(c, "idle")
  /\ loc' = [loc EXCEPT ![c] = None]
  /\ UNCHANGED <<allocd, oid, readers, writers, slots, hand, qv, out>>

\* read_and_promote ends, with or without a slot for the record.
EndPromote(c, value) ==
  /\ qv' = [qv EXCEPT ![c][loc[c].rid] = value]
  /\ Goto(c, "idle")
  /\ loc' = [loc EXCEPT ![c] = None]
  /\ UNCHANGED <<allocd, oid, readers, writers, slots, store, hand, out, rec>>

Promoted(c) ==
  /\ pc[c] = "hit"
  /\ LET q == loc[c].query IN
       EndPromote(c, QueryValue(q, hand[c],
                                IF matches(q) THEN None ELSE slots[hand[c]].rid))

NotPromoted(c) ==
  pc[c] = "miss" /\ EndPromote(c, QueryValue(loc[c].query, None, loc[c].rid))

-----------------------------------------------------------------------------
\* Where get_value and get_value_mut find a field.
InCache(v, f) == f \in Cached /\ v.slot # None

\* get_value: the reference is followed some time after read() returned.
GetValue(c, r, f) ==
  /\ Idle(c) /\ qv[c][r] # None /\ f \in qv[c][r].query
  /\ LET v == qv[c][r] IN
       out' = [out EXCEPT ![c] = IF InCache(v, f) THEN slots[v.slot].val[f]
                                                 ELSE store[v.row][f]]
  /\ UNCHANGED <<allocd, oid, readers, writers, slots, store, hand, pc, loc, qv, rec>>

\* get_value_mut, for a write guard, and the assignment through it.
SetValue(c, r, f, x) ==
  /\ Idle(c) /\ c \in writers[r] /\ qv[c][r] # None /\ f \in qv[c][r].query
  /\ LET v == qv[c][r] IN
       IF InCache(v, f)
         THEN slots' = [slots EXCEPT ![v.slot].val[f] = x] /\ UNCHANGED store
         ELSE store' = [store EXCEPT ![v.row][f] = x] /\ UNCHANGED slots
  /\ rec' = [rec EXCEPT ![r][f] = x]
  /\ UNCHANGED <<allocd, oid, readers, writers, hand, pc, loc, qv, out>>

\* reset() takes &mut self: there is no guard and no call.  Rows, cached items
\* and ref bits stay as they are; the oid array is zeroed and refilled.
Reset ==
  /\ \A c \in Clients : Idle(c)
  /\ \A r \in Rids : Free(r)
  /\ allocd' = {}
  /\ oid' = [r \in Rids |-> RowOf(None)]
  /\ slots' = [i \in Slots |-> [slots[i] EXCEPT !.rid = None]]
  /\ rec' = [r \in Rids |-> None]
  /\ UNCHANGED <<readers, writers, store, hand, pc, loc, qv, out>>

-----------------------------------------------------------------------------
\* A caller begins a call or uses what a call gave it.
Caller(c) ==
  \/ \E r \in Rids :
       \/ ReadLock(c, r) \/ TryWriteLock(c, r) \/ UpgradeLock(c, r) \/ DropGuard(c, r)
       \/ \E q \in Queries : Read(c, r, q) \/ ReadAndPromote(c, r, q)
       \/ \E f \in Fields :
            GetValue(c, r, f) \/ \E x \in Values : SetValue(c, r, f, x)
  \/ \E t \in Tuples : Insert(c, t)

\* A client goes on inside insert or read_and_promote.
Proceed(c) ==
  \/ Resume(c) \/ Probe(c) \/ Claim(c) \/ Fill(c) \/ CheckRef(c) \/ ClearRef(c)
  \/ LockVictim(c) \/ Validate(c) \/ Unindex(c) \/ Replace(c)
  \/ Index(c) \/ Reindex(c) \/ WriteBack(c) \/ DropVictim(c)
  \/ StoreTuple(c) \/ Promoted(c) \/ NotPromoted(c)

Next == (\E c \in Clients : Caller(c) \/ Proceed(c)) \/ Reset

Spec == Init /\ [][Next]_vars

-----------------------------------------------------------------------------
PCs == {"idle", "await", "probe", "claim", "fill", "check", "clear", "lock",
        "validate", "unindex", "replace", "index", "reindex", "write_back",
        "drop_victim", "store", "hit", "miss"}

Oids  == [cached : {FALSE}, id : Rids \cup {None}] \cup [cached : {TRUE}, id : Slots]
Nodes == [rid : Rids \cup {None}, ref : BOOLEAN, val : CachedItems]
Calls == [kind : {"insert", "promote"}, rid : Rids, tuple : Tuples \cup {None},
          query : Queries \cup {{}}, node : Nodes \cup {None}, probe : 0..ProbeLen,
          seen : Rids \cup {None}, old : Nodes \cup {None}]

\* The types of oids, slots, rows, locals and QueryValues; a probe never runs
\* beyond probe_len.
TypeOK ==
  /\ allocd \subseteq Rids
  /\ oid \in [Rids -> Oids]
  /\ readers \in [Rids -> SUBSET Clients]
  /\ writers \in [Rids -> SUBSET Clients]
  /\ slots \in [Slots -> Nodes]
  /\ store \in [Rids -> Tuples]
  /\ hand \in [Clients -> Slots]
  /\ pc \in [Clients -> PCs]
  /\ loc \in [Clients -> Calls \cup {None}]
  /\ qv \in [Clients -> [Rids -> QueryValues \cup {None}]]
  /\ out \in [Clients -> Values]
  /\ rec \in [Rids -> Tuples \cup {None}]

\* At most one slot claims to hold a record, even while slots are claimed,
\* replaced and evicted concurrently.
OneSlotPerRecord ==
  \A i, j \in Slots : slots[i].rid = slots[j].rid /\ i # j => slots[i].rid = None

\* A record nobody holds for writing is where its oid says: an oid that names a
\* slot names the slot that holds the record, and one that names a row names
\* its own row, with no copy left in any slot.
UnlockedIsIndexed ==
  \A r \in allocd : writers[r] = {} =>
    /\ oid[r].cached => slots[oid[r].id].rid = r
    /\ ~oid[r].cached => oid[r].id = r /\ \A i \in Slots : slots[i].rid # r

\* The QueryValue of c on r, if there is one, points to where r is.
Located(c, r) ==
  LET v == qv[c][r] IN
    v # None =>
      /\ Holds(c, r)
      /\ v.slot # None => oid[r] = SlotOf(v.slot) /\ slots[v.slot].rid = r
      /\ v.slot = None => oid[r] = RowOf(r)
      /\ v.row \in {r, None}

\* A QueryValue never goes stale: as long as the guard it was read under is
\* held, it points into the slot or row that holds the record, whatever the
\* other clients promote or evict.
QueryStaysValid == \A c \in Clients, r \in Rids : Located(c, r)

\* It offers every field of its query, in the slot or in the row.
Satisfied(c, r) ==
  LET v == qv[c][r] IN
    v # None => \A f \in v.query : InCache(v, f) \/ v.row # None

\* A queried field is always found: get_value never reaches its
\* expect("cached item can't satisfy the queried item").
QueryIsSatisfied == \A c \in Clients, r \in Rids : Satisfied(c, r)

-----------------------------------------------------------------------------
(* The inductive invariant behind OneSlotPerRecord, UnlockedIsIndexed,      *)
(* QueryStaysValid and QueryIsSatisfied.                                    *)

\* Guards exclude each other, and only records that exist are guarded.
LocksOK ==
  \A r \in Rids :
    /\ writers[r] = {} \/ (readers[r] = {} /\ \E c \in Clients : writers[r] = {c})
    /\ r \notin allocd => Free(r)

\* An oid that names a slot names the one that holds its record.
OidsOK ==
  \A r \in Rids :
    /\ oid[r].cached => r \in allocd /\ slots[oid[r].id].rid = r
    /\ ~oid[r].cached /\ r \in allocd => oid[r].id = r

\* Client c is about to make slot i the place of r, or to take r out of it.
Moving(c, i, r) ==
  /\ hand[c] = i
  /\ \/ pc[c] \in {"fill", "index", "reindex"} /\ loc[c].rid = r
     \/ pc[c] = "replace" /\ loc[c].seen = r

\* A slot that holds a record is the one its oid names, but for the moment in
\* which a client moves the record.
SlotsOK ==
  \A i \in Slots : \A r \in Rids :
    slots[i].rid = r =>
      r \in allocd /\ (oid[r] = SlotOf(i) \/ \E c \in Clients : Moving(c, i, r))

Probing == {"probe", "claim", "check", "clear", "lock", "validate"}
Evicting == {"validate", "unindex", "replace", "reindex", "write_back", "drop_victim"}

\* What a call knows about its own record, ...
OwnOK(c) ==
  LET l == loc[c] IN
    /\ l \in Calls
    /\ l.rid \in allocd /\ c \in writers[l.rid] /\ qv[c][l.rid] = None
    /\ pc[c] \in Probing => l.probe < ProbeLen
    /\ pc[c] = "await" => ProbeLen > 0 /\ l.probe = 0
    /\ pc[c] # "await" => l.node \in Nodes /\ l.node.rid = l.rid
    /\ pc[c] \in {"await", "hit", "miss"} => l.kind = "promote"
    /\ pc[c] = "store" => l.kind = "insert"
    /\ l.kind = "insert" => l.tuple \in Tuples
    /\ l.kind = "promote" => l.query \in Queries
    /\ pc[c] \in {"fill", "index", "reindex"} => slots[hand[c]].rid = l.rid
    /\ pc[c] \in {"hit", "write_back", "drop_victim"} => oid[l.rid] = SlotOf(hand[c])
    /\ pc[c] \notin {"hit", "write_back", "drop_victim", "store"} => ~oid[l.rid].cached

\* ... and about the record it evicts.
VictimOK(c) ==
  LET l == loc[c] IN
    /\ pc[c] \in {"check", "clear", "lock"} => l.seen \in allocd
    /\ pc[c] \in Evicting =>
         /\ l.seen \in allocd /\ l.seen # l.rid
         /\ c \in writers[l.seen] /\ qv[c][l.seen] = None
    /\ pc[c] \in {"unindex", "replace"} => slots[hand[c]].rid = l.seen
    /\ pc[c] \in {"replace", "reindex", "write_back", "drop_victim"} => ~oid[l.seen].cached
    /\ pc[c] \in {"reindex", "write_back"} => l.old \in Nodes /\ l.old.rid = l.seen

CallOK(c) == IF pc[c] = "idle" THEN loc[c] = None ELSE OwnOK(c) /\ VictimOK(c)
CallsOK == \A c \in Clients : CallOK(c)

\* A record that exists has been given a value, unless its insert is under way.
RecordsOK ==
  \A r \in allocd :
    \/ rec[r] \in Tuples
    \/ \E c \in Clients : pc[c] # "idle" /\ loc[c].kind = "insert" /\ loc[c].rid = r

QueryOK(c, r) == Located(c, r) /\ Satisfied(c, r)
QueriesOK == \A c \in Clients, r \in Rids : QueryOK(c, r)

IndInv ==
  TypeOK /\ LocksOK /\ OidsOK /\ SlotsOK /\ CallsOK /\ QueriesOK /\ RecordsOK

-----------------------------------------------------------------------------
(* Where the cached fields of a record are.                                *)

\* The clients that have taken r out of the index and not yet written it back.
Evictors(r) == {c \in Clients : /\ pc[c] \in {"replace", "reindex", "write_back"}
                                /\ loc[c].seen = r}

\* In the hands of an evictor, in a slot, or in the row.
CachedPart(r) ==
  IF Evictors(r) # {}
    THEN LET c == CHOOSE c \in Evictors(r) : TRUE
         IN  IF pc[c] = "replace" THEN slots[hand[c]].val ELSE loc[c].old.val
    ELSE IF oid[r].cached THEN slots[oid[r].id].val ELSE to_cached(store[r])

\* No update is lost and none is invented while the fields of a record move
\* between row, slot and evictor: a record that exists is, field by field, what
\* its writers made it.
NoLostUpdate ==
  \A r \in Rids : rec[r] # None => write_back(CachedPart(r), store[r]) = rec[r]

\* What makes NoLostUpdate inductive.  A call that carries a node for its
\* record made it from the tuple it inserts or from the row, ...
Source(c) == IF loc[c].kind = "insert" THEN loc[c].tuple ELSE store[loc[c].rid]
Carrying == Probing \cup {"fill", "unindex", "replace", "index", "reindex"}

\* ... has put it in its slot before the oid names the slot, and a record that
\* is still being inserted has no value, but its item if it has a slot.
ItemOK(c) ==
  LET l == loc[c] IN
    pc[c] # "idle" =>
      /\ pc[c] \in Carrying => l.node.val = to_cached(Source(c))
      /\ pc[c] \in {"index", "reindex"} => slots[hand[c]].val = to_cached(Source(c))
      /\ l.kind = "insert" => rec[l.rid] = None
      /\ l.kind = "insert" /\ oid[l.rid].cached =>
           slots[oid[l.rid].id].val = to_cached(l.tuple)

\* No record without a rid in use has a value.
FreshOK == \A r \in Rids \ allocd : rec[r] = None

DataInv == FreshOK /\ NoLostUpdate /\ \A c \in Clients : ItemOK(c)

Records == INSTANCE RecordStore WITH NoRecord <- None

\* Reading through slots and rows gives every lock holder the value last
\* written, and nobody writes without the write lock: the cache implements
\* plain records under record locks.
ImplementsRecordStore == Records!Spec
=============================================================================
