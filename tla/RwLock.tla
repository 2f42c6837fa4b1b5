------------------------------- MODULE RwLock -------------------------------
(***************************************************************************)
(* What a LockedOid promises its callers: a reader-writer lock that        *)
(* protects the body of the oid (the row id or cache index it names).      *)
(* There is no word, no load and no compare-and-swap here: a guard is      *)
(* granted, upgraded or dropped in one step, and only the holder of the    *)
(* write guard replaces the body.  A call that fails is a stuttering step. *)
(***************************************************************************)
CONSTANTS Clients, Bodies

VARIABLES readers, writers, body

vars == <<readers, writers, body>>

Init ==
  /\ readers = {}
  /\ writers = {}
  /\ body \in Bodies

GrantRead(c) ==
  /\ c \notin readers \cup writers
  /\ writers = {}
  /\ readers' = readers \cup {c}
  /\ UNCHANGED <<writers, body>>

GrantWrite(c) ==
  /\ readers = {}
  /\ writers = {}
  /\ writers' = {c}
  /\ UNCHANGED <<readers, body>>

GrantUpgrade(c) ==
  /\ readers = {c}
  /\ writers = {}
  /\ readers' = {}
  /\ writers' = {c}
  /\ UNCHANGED body

DropRead(c) ==
  /\ c \in readers
  /\ readers' = readers \ {c}
  /\ UNCHANGED <<writers, body>>

DropWrite(c) ==
  /\ c \in writers
  /\ writers' = writers \ {c}
  /\ UNCHANGED <<readers, body>>

Store(c) ==
  /\ c \in writers
  /\ body' \in Bodies
  /\ UNCHANGED <<readers, writers>>

Next ==
  \E c \in Clients :
    \/ GrantRead(c) \/ GrantWrite(c) \/ GrantUpgrade(c)
    \/ DropRead(c) \/ DropWrite(c) \/ Store(c)

Spec == Init /\ [][Next]_vars
=============================================================================
