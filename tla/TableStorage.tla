---------------------------- MODULE TableStorage ----------------------------
(***************************************************************************)
(* Where the records of a table live: the oid array gives out rids         *)
(* (HeapArray), and row rid of the Storage (src/src/storage/               *)
(* table_storage.rs) is memory of a frame of the PmHeap, from which other  *)
(* tables allocate and free their frames at the same time.                 *)
(***************************************************************************)
EXTENDS HeapArray, PmHeap

CONSTANT Rows          \* the owner that is the Storage of this table

ASSUME StorageAssumption == Rows \in Owners

\* Mutant: room for the records that were asked for.
StorageCap_Records == Records

\* Storage::new(oid_array.capacity()): room for every rid there can be.
StorageCap == ArenaCnt * N

TInit == Init /\ PmInit

\* alloc_rid, and deletes, on a table that exists.
UseTable(t) ==
  /\ Live(Rows)
  /\ append(t) \/ Delete(t)
  /\ UNCHANGED pmVars

TReset == Live(Rows) /\ Reset /\ UNCHANGED pmVars

\* The table is dropped: its frame goes back, its oids are freed.
DropTable == DeallocFrame(Rows) /\ Reset

\* Another Storage or InsertonlyTable is dropped.
DropOther(o) == DeallocFrame(o) /\ UNCHANGED vars

\* ClockCache::new and InsertonlyTable::new on the way to their frames, and
\* the rest of a drop.
PmStep(o) ==
  /\ AllocFrame(o) \/ AllocStep(o) \/ FreeStep(o)
  /\ UNCHANGED vars

TRestart == Restart /\ Reset

TNext ==
  \/ \E t \in Threads : UseTable(t)
  \/ TReset \/ DropTable \/ TRestart
  \/ \E o \in Owners \ {Rows} : DropOther(o)
  \/ \E o \in Owners : PmStep(o)

tsVars == <<vars, pmVars>>
TSpec == TInit /\ [][TNext]_tsVars

-----------------------------------------------------------------------------
\* The row of every rid that was given out is memory of the table's frame,
\* also of the rids beyond the records asked for that the arenas of several
\* threads reach: a frame goes back only with all the rids of its table.
RowsInFrame == \A r \in live : Live(Rows) /\ r < StorageCap
=============================================================================
