------------------------------ MODULE PmHeap --------------------------------
(***************************************************************************)
(* The frames of persistent memory (src/src/storage/pm_heap.rs and         *)
(* src/src/utils/mmap.rs): a table's rows (Storage) and its pages          *)
(* (InsertonlyTable) are each a file of the pool directory, mapped.  A     *)
(* frame is allocated and freed in steps that other owners interleave      *)
(* with; the operating system chooses addresses and may refuse a call.     *)
(* Files survive the process, everything else dies with it.                *)
(***************************************************************************)
EXTENDS Integers

CONSTANTS Owners,     \* those who allocate a frame
          Whole,      \* the owners whose size is a multiple of a huge page
          Addrs,      \* addresses the system may map a frame at
          MaxFiles    \* bound on the files one process creates

VARIABLES fileId,        \* the counter that names files
          files,         \* the ids of the files in the pool directory
          mapped,        \* mapped[a]: how address a is mapped
          fileMapping,   \* file_mapping[a]: the file of the frame at a
          frame          \* frame[o]: the frame of o, and where its owner's call is

pmVars == <<fileId, files, mapped, fileMapping, frame>>

NoFile == -1

\* What a MemoryMapper's flags ask for: the file with MAP_SYNC, or anonymous
\* memory in huge pages (the last one in part, for some sizes) or small ones.
Kinds == {"sync", "huge", "ragged", "small"}
map_nvm_builder == "sync"
map_dram_builder(o, huge_page) ==
  IF ~huge_page THEN "small" ELSE IF o \in Whole THEN "huge" ELSE "ragged"

\* What create_and_map_pool tries, in turn.
Attempts(o) == <<map_nvm_builder, map_dram_builder(o, TRUE), map_dram_builder(o, FALSE)>>

NoFrame == [at |-> "none", file |-> NoFile, addr |-> NoFile, try |-> 1]

At(o, l) == frame[o].at = l
Go(o, l) == frame' = [frame EXCEPT ![o].at = l]

-----------------------------------------------------------------------------
\* PmHeap::new
PmInit ==
  /\ fileId = 0
  /\ files = {}
  /\ mapped = [a \in Addrs |-> "free"]
  /\ fileMapping = [a \in Addrs |-> NoFile]
  /\ frame = [o \in Owners |-> NoFrame]

\* Mutant: the counter is read and not advanced.
AllocFrame_Load(o) ==
  /\ At(o, "none") /\ fileId < MaxFiles
  /\ frame' = [frame EXCEPT ![o] = [NoFrame EXCEPT !.at = "create", !.file = fileId]]
  /\ UNCHANGED <<fileId, files, mapped, fileMapping>>

\* alloc_frame: take a file name, ...
AllocFrame(o) ==
  /\ At(o, "none") /\ fileId < MaxFiles
  /\ frame' = [frame EXCEPT ![o] = [NoFrame EXCEPT !.at = "create", !.file = fileId]]
  /\ fileId' = fileId + 1
  /\ UNCHANGED <<files, mapped, fileMapping>>

\* ... create the file, or truncate the one a former process left, and set its
\* length; an error of either panics (unwrap), ...
CreateFile(o) ==
  /\ At(o, "create")
  /\ \/ files' = files \cup {frame[o].file} /\ (Go(o, "map") \/ Go(o, "refused"))
     \/ UNCHANGED files /\ Go(o, "refused")
  /\ UNCHANGED <<fileId, mapped, fileMapping>>

\* MemoryMapper::map: an address of the system's choice, or an error.
Mmap(o, a) ==
  /\ mapped[a] = "free"
  /\ mapped' = [mapped EXCEPT ![a] = Attempts(o)[frame[o].try]]
  /\ frame' = [frame EXCEPT ![o].at = "enter", ![o].addr = a]

MmapFail(o) ==
  /\ \/ frame[o].try < 3 /\ frame' = [frame EXCEPT ![o].try = @ + 1]
     \/ frame[o].try = 3 /\ Go(o, "refused")
  /\ UNCHANGED mapped

\* ... map it, with up to three attempts (the last error is unwrapped), ...
Map(o) ==
  /\ At(o, "map")
  /\ (\E a \in Addrs : Mmap(o, a)) \/ MmapFail(o)
  /\ UNCHANGED <<fileId, files, fileMapping>>

\* ... and enter it in the table of frames.
EnterFrame(o) ==
  /\ At(o, "enter")
  /\ fileMapping' = [fileMapping EXCEPT ![frame[o].addr] = frame[o].file]
  /\ Go(o, "live")
  /\ UNCHANGED <<fileId, files, mapped>>

\* dealloc_frame: the entry is removed (unwrap), ...
DeallocFrame(o) ==
  /\ At(o, "live")
  /\ LET f == fileMapping[frame[o].addr] IN
       frame' = [frame EXCEPT ![o].at = IF f = NoFile THEN "panic" ELSE "unmap",
                              ![o].file = f]
  /\ fileMapping' = [fileMapping EXCEPT ![frame[o].addr] = NoFile]
  /\ UNCHANGED <<fileId, files, mapped>>

\* Mutant: only a mapped file is unmapped.
Unmap_FileOnly(o) ==
  /\ At(o, "unmap")
  /\ mapped' = [mapped EXCEPT ![frame[o].addr] = IF @ = "sync" THEN "free" ELSE @]
  /\ Go(o, "remove")
  /\ UNCHANGED <<fileId, files, fileMapping>>

\* ... the memory unmapped, which the system refuses (and nobody notices) for
\* huge pages in part, ...
Unmap(o) ==
  /\ At(o, "unmap")
  /\ mapped' = [mapped EXCEPT ![frame[o].addr] =
                  IF @ = "ragged" THEN @ ELSE "free"]
  /\ Go(o, "remove")
  /\ UNCHANGED <<fileId, files, fileMapping>>

\* ... and the file removed; an error panics (unwrap): the system refuses, and
\* the file stays, or there is no such file.
RemoveFile(o) ==
  /\ At(o, "remove")
  /\ \/ /\ files' = files \ {frame[o].file}
        /\ frame' = [frame EXCEPT ![o] = IF frame[o].file \in files THEN NoFrame
                                         ELSE [@ EXCEPT !.at = "panic"]]
     \/ UNCHANGED files /\ Go(o, "refused")
  /\ UNCHANGED <<fileId, mapped, fileMapping>>

\* The process ends anywhere, and another one starts with PmHeap::new.  The
\* files stay (a static is never dropped, so Drop for PmHeap does not run).
Restart ==
  /\ fileId' = 0
  /\ mapped' = [a \in Addrs |-> "free"]
  /\ fileMapping' = [a \in Addrs |-> NoFile]
  /\ frame' = [o \in Owners |-> NoFrame]
  /\ UNCHANGED files

AllocStep(o) == CreateFile(o) \/ Map(o) \/ EnterFrame(o)
FreeStep(o) == Unmap(o) \/ RemoveFile(o)
PmNext ==
  \/ \E o \in Owners : AllocFrame(o) \/ AllocStep(o) \/ DeallocFrame(o) \/ FreeStep(o)
  \/ Restart
PmSpec == PmInit /\ [][PmNext]_pmVars

-----------------------------------------------------------------------------
\* The frame of o is in use: between the return of alloc_frame and the call
\* of dealloc_frame.
Live(o) == At(o, "live")

\* A frame in use is mapped, at an address of its own, and file_mapping knows
\* its file, which exists: freeing a frame never touches another one's memory
\* or file, dealloc_frame never finds its entry or its file gone, and so panics
\* only where the system refuses to remove a file that is there.
FramesTracked ==
  /\ \A o \in Owners : ~At(o, "panic")
  /\ \A o \in Owners : Live(o) =>
       /\ mapped[frame[o].addr] # "free"
       /\ fileMapping[frame[o].addr] = frame[o].file
       /\ frame[o].file \in files
       /\ \A p \in Owners \ {o} : Live(p) => frame[p].addr # frame[o].addr

\* The owners whose call or frame uses memory.
Users == {o \in Owners : frame[o].at \in {"enter", "live", "unmap"}}

\* Memory stays mapped beyond its frame only where munmap was refused, for huge
\* pages of an owner whose size is not a multiple of a huge page.
MappedIsUsed ==
  \A a \in Addrs : mapped[a] \in Kinds \ {"ragged"} =>
                     \E o \in Users : frame[o].addr = a

-----------------------------------------------------------------------------
(* The inductive invariant behind FramesTracked.                           *)

PmTypeOK ==
  /\ fileId \in Nat
  /\ files \subseteq Nat
  /\ mapped \in [Addrs -> Kinds \cup {"free"}]
  /\ fileMapping \in [Addrs -> Nat \cup {NoFile}]
  /\ frame \in [Owners -> [at : {"none", "create", "map", "enter", "live", "unmap",
                                 "remove", "refused"},
                           file : Nat \cup {NoFile}, addr : Addrs \cup {NoFile},
                           try : 1..3]]

\* The owners whose call or frame has a file.
Holders == {o \in Owners : frame[o].at \in {"create", "map", "enter", "live", "unmap", "remove"}}

\* A name is used by one owner, also while its file is created or removed ...
NamesOK ==
  \A o \in Holders :
    /\ frame[o].file \in 0..(fileId - 1)
    /\ frame[o].at # "create" => frame[o].file \in files
    /\ \A p \in Holders \ {o} : frame[p].file # frame[o].file

\* ... and an address by one owner, from mmap to munmap, which outlasts the
\* entry in file_mapping on both sides.
AddrsOK ==
  \A o \in Users :
    /\ frame[o].addr \in Addrs
    /\ mapped[frame[o].addr] # "free"
    /\ Live(o) => fileMapping[frame[o].addr] = frame[o].file
    /\ \A p \in Users \ {o} : frame[p].addr # frame[o].addr

PmInv == PmTypeOK /\ NamesOK /\ AddrsOK /\ MappedIsUsed
=============================================================================
