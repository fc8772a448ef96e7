------------------------------ MODULE EventLog ------------------------------
(***************************************************************************)
(* The memory-mapped event log (include/EventLog.h), store by store.       *)
(*                                                                         *)
(* The file is mapped MAP_SHARED: every store the process executed         *)
(* survives its death, and nothing else does.  The writers are the threads *)
(* that call append(); the header comment of the class demands one.        *)
(* Readers are threads that run replay() or a run of read() calls.         *)
(***************************************************************************)
EXTENDS Naturals, Sequences

CONSTANTS
  Payloads,    \* the events, without sequence and timestamp
  MaxEvents,   \* MAX_EVENTS
  Writers,     \* threads that call append()
  Readers,     \* threads that call replay() or read()
  Zero,        \* a slot that was never written: ftruncate() fills with 0
  Torn,        \* a slot in the middle of the 64-byte copy
  MaxFaults    \* bound on process deaths and failing system calls

ASSUME MaxEventsAssumption == MaxEvents \in Nat
ASSUME MaxFaultsAssumption == MaxFaults \in Nat
ASSUME PayloadsAssumption  == Zero \notin Payloads /\ Torn \notin Payloads /\ Zero # Torn

VARIABLES
  \* the file
  stage,         \* "absent", "empty" (created, no size yet) or "sized"
  magic,         \* header_->magic: "zero" or "LOG_MAGIC"
  header_next,   \* header_->next_sequence
  events,        \* events_[0 .. MAX_EVENTS-1]
  \* the process
  proc,          \* progress of open_or_create(), then "running"; `exists' is
                 \* the difference between "created" and "opened"
  next_seq,      \* next_seq_
  pc, seq, evt,  \* the locals of append(), per writer
  head, seen,    \* the locals of replay(), per reader
  \* history
  returned,      \* the slots whose append() has returned
  faults

file   == <<stage, magic, header_next, events>>
writer == <<pc, seq, evt>>
reader == <<head, seen>>
vars   == <<file, proc, next_seq, writer, reader, returned, faults>>

Slots    == 0..MaxEvents-1
Contents == [ sequence : 0..MaxEvents, payload : Payloads \cup {Zero, Torn} ]

ZeroSlot == [ sequence |-> 0, payload |-> Zero ]
TornSlot == [ sequence |-> 0, payload |-> Torn ]

-----------------------------------------------------------------------------
Init ==
  /\ stage = "absent" /\ magic = "zero" /\ header_next = 0
  /\ events = [ s \in Slots |-> ZeroSlot ]
  /\ proc = "down" /\ next_seq = 0
  /\ pc = [w \in Writers |-> "idle"] /\ seq = [w \in Writers |-> 0]
  /\ evt = [w \in Writers |-> Zero]
  /\ head = [r \in Readers |-> 0] /\ seen = [r \in Readers |-> << >>]
  /\ returned = {}
  /\ faults = 0

-----------------------------------------------------------------------------
(* open_or_create(), one step per system call a death can follow. *)

(* access(), then open(O_CREAT): a file that did not exist has size 0. *)
OpenFile ==
  /\ proc = "down"
  /\ \/ stage = "absent" /\ stage' = "empty" /\ proc' = "created"
     \/ stage # "absent" /\ stage' = stage   /\ proc' = "opened"
  /\ UNCHANGED <<magic, header_next, events, next_seq, writer, reader, returned, faults>>

(* ftruncate(), only for a file this process created. *)
SizeFile ==
  /\ proc = "created"
  /\ proc' = "sized"
  /\ stage' = "sized"
  /\ UNCHANGED <<magic, header_next, events, next_seq, writer, reader, returned, faults>>

(* mmap() of a new file, then the stores of the !exists branch. *)
InitHeader ==
  /\ proc = "sized"
  /\ proc' = "running"
  /\ magic' = "LOG_MAGIC" /\ header_next' = 0 /\ next_seq' = 0
  /\ UNCHANGED <<stage, events, writer, reader, returned, faults>>

(* Mutant of MapExisting: a full log is taken for a corrupt one. *)
MapExistingUnlessFull ==
  /\ proc = "opened"
  /\ IF stage = "sized" /\ magic = "LOG_MAGIC" /\ header_next < MaxEvents
     THEN proc' = "running" /\ next_seq' = header_next
     ELSE proc' = "rejected" /\ next_seq' = next_seq
  /\ UNCHANGED <<file, writer, reader, returned, faults>>

(* Mutant of MapExisting: next_seq_ is not resumed from the header. *)
MapExistingFromZero ==
  /\ proc = "opened"
  /\ proc' = IF stage = "sized" /\ magic = "LOG_MAGIC" THEN "running" ELSE "rejected"
  /\ UNCHANGED <<file, next_seq, writer, reader, returned, faults>>

(* mmap() of an existing file.  Without LOG_MAGIC the constructor throws   *)
(* "corrupt file"; reading the header of a file of size 0 is a bus error.  *)
MapExisting ==
  /\ proc = "opened"
  /\ IF stage = "sized" /\ magic = "LOG_MAGIC"
     THEN proc' = "running" /\ next_seq' = header_next
     ELSE proc' = "rejected" /\ next_seq' = next_seq
  /\ UNCHANGED <<file, writer, reader, returned, faults>>

(* open(), ftruncate() or mmap() fails: the constructor throws. *)
SyscallFails ==
  /\ proc \in {"down", "created", "opened", "sized"}
  /\ faults < MaxFaults
  /\ faults' = faults + 1
  /\ proc' = "failed"
  /\ UNCHANGED <<file, next_seq, writer, reader, returned>>

(* The process dies at any point, or has thrown: only the file is left. *)
Die ==
  /\ \/ proc \in {"rejected", "failed"} /\ faults' = faults
     \/ proc \in {"created", "opened", "sized", "running"} /\ faults < MaxFaults /\ faults' = faults + 1
  /\ proc' = "down" /\ next_seq' = 0
  /\ pc' = [w \in Writers |-> "idle"] /\ seq' = [w \in Writers |-> 0]
  /\ evt' = [w \in Writers |-> Zero]
  /\ head' = [r \in Readers |-> 0] /\ seen' = [r \in Readers |-> << >>]
  /\ UNCHANGED <<file, returned>>

-----------------------------------------------------------------------------
(* Mutant of LoadSeq: the capacity test is off by one. *)
LoadSeqOverrun(w, e) ==
  /\ proc = "running" /\ pc[w] = "idle"
  /\ next_seq <= MaxEvents
  /\ pc'  = [pc EXCEPT ![w] = "loaded"]
  /\ seq' = [seq EXCEPT ![w] = next_seq]
  /\ evt' = [evt EXCEPT ![w] = e]
  /\ UNCHANGED <<file, proc, next_seq, reader, returned, faults>>

(* Mutant of BeginStore: next_seq_ is released before the copy. *)
BeginStorePublished(w) ==
  /\ pc[w] = "loaded"
  /\ pc' = [pc EXCEPT ![w] = "storing"]
  /\ events' = [events EXCEPT ![seq[w]] = TornSlot]
  /\ next_seq' = seq[w] + 1
  /\ UNCHANGED <<stage, magic, header_next, proc, seq, evt, reader, returned, faults>>

(* Mutant of BeginStore: the header is advanced before the copy. *)
BeginStorePersisted(w) ==
  /\ pc[w] = "loaded"
  /\ pc' = [pc EXCEPT ![w] = "storing"]
  /\ events' = [events EXCEPT ![seq[w]] = TornSlot]
  /\ header_next' = seq[w] + 1
  /\ UNCHANGED <<stage, magic, proc, next_seq, seq, evt, reader, returned, faults>>

(* Mutant of PersistHeader: the header names the slot, not the next one. *)
PersistHeaderStale(w) ==
  /\ pc[w] = "published"
  /\ pc' = [pc EXCEPT ![w] = "idle"]
  /\ header_next' = seq[w]
  /\ returned' = returned \cup {[sequence |-> seq[w], payload |-> evt[w]]}
  /\ UNCHANGED <<stage, magic, events, proc, next_seq, seq, evt, reader, faults>>

(* append(), one step per store another thread or a death can fall between. *)
LoadSeq(w, e) ==
  /\ proc = "running" /\ pc[w] = "idle"
  /\ next_seq < MaxEvents
  /\ pc'  = [pc EXCEPT ![w] = "loaded"]
  /\ seq' = [seq EXCEPT ![w] = next_seq]
  /\ evt' = [evt EXCEPT ![w] = e]
  /\ UNCHANGED <<file, proc, next_seq, reader, returned, faults>>

(* The overflow_error of a full log: thrown before anything is stored. *)
LogFull(w) ==
  /\ proc = "running" /\ pc[w] = "idle"
  /\ next_seq >= MaxEvents
  /\ UNCHANGED vars

BeginStore(w) ==
  /\ pc[w] = "loaded"
  /\ pc' = [pc EXCEPT ![w] = "storing"]
  /\ events' = [events EXCEPT ![seq[w]] = TornSlot]
  /\ UNCHANGED <<stage, magic, header_next, proc, next_seq, seq, evt, reader, returned, faults>>

EndStore(w) ==
  /\ pc[w] = "storing"
  /\ pc' = [pc EXCEPT ![w] = "stored"]
  /\ events' = [events EXCEPT ![seq[w]] = [sequence |-> seq[w], payload |-> evt[w]]]
  /\ UNCHANGED <<stage, magic, header_next, proc, next_seq, seq, evt, reader, returned, faults>>

PublishSeq(w) ==
  /\ pc[w] = "stored"
  /\ pc' = [pc EXCEPT ![w] = "published"]
  /\ next_seq' = seq[w] + 1
  /\ UNCHANGED <<file, proc, seq, evt, reader, returned, faults>>

(* The header store, after which append() returns. *)
PersistHeader(w) ==
  /\ pc[w] = "published"
  /\ pc' = [pc EXCEPT ![w] = "idle"]
  /\ header_next' = seq[w] + 1
  /\ returned' = returned \cup {[sequence |-> seq[w], payload |-> evt[w]]}
  /\ UNCHANGED <<stage, magic, events, proc, next_seq, seq, evt, reader, faults>>

-----------------------------------------------------------------------------
(* replay(): one acquire load of next_seq_, then the slots below it. *)
LoadHead(r) ==
  /\ proc = "running" /\ head[r] = 0 /\ next_seq > 0
  /\ head' = [head EXCEPT ![r] = next_seq]
  /\ UNCHANGED <<file, proc, next_seq, writer, seen, returned, faults>>

ReadSlot(r) ==
  /\ Len(seen[r]) < head[r]
  /\ seen' = [seen EXCEPT ![r] = Append(@, events[Len(@)])]
  /\ UNCHANGED <<file, proc, next_seq, writer, head, returned, faults>>

EndReplay(r) ==
  /\ head[r] > 0 /\ Len(seen[r]) = head[r]
  /\ head' = [head EXCEPT ![r] = 0]
  /\ seen' = [seen EXCEPT ![r] = << >>]
  /\ UNCHANGED <<file, proc, next_seq, writer, returned, faults>>

-----------------------------------------------------------------------------
Open == OpenFile \/ SizeFile \/ InitHeader \/ MapExisting

Write(w) ==
  \/ \E e \in Payloads : LoadSeq(w, e)
  \/ LogFull(w)
  \/ BeginStore(w)
  \/ EndStore(w)
  \/ PublishSeq(w)
  \/ PersistHeader(w)

Read(r) == LoadHead(r) \/ ReadSlot(r) \/ EndReplay(r)

Next ==
  \/ Open \/ SyscallFails \/ Die
  \/ \E w \in Writers : Write(w)
  \/ \E r \in Readers : Read(r)

Spec == Init /\ [][Next]_vars

-----------------------------------------------------------------------------
TypeOK ==
  /\ stage \in {"absent", "empty", "sized"}
  /\ magic \in {"zero", "LOG_MAGIC"}
  /\ header_next \in 0..MaxEvents
  /\ events \in [Slots -> Contents]
  /\ proc \in {"down", "created", "opened", "sized", "running", "rejected", "failed"}
  /\ next_seq \in 0..MaxEvents
  /\ pc \in [Writers -> {"idle", "loaded", "storing", "stored", "published"}]
  /\ seq \in [Writers -> 0..MaxEvents]
  /\ evt \in [Writers -> Payloads \cup {Zero}]
  /\ head \in [Readers -> 0..MaxEvents]
  /\ seen \in [Readers -> Seq(Contents)]
  /\ returned \in SUBSET Contents
  /\ faults \in 0..MaxFaults

(* An event whose append() has returned stays in the file, in its slot and *)
(* below the header's next_sequence, through every later append, death and *)
(* restart.                                                                *)
ReturnedSurvives ==
  \A s \in returned :
    /\ s.sequence < header_next
    /\ events[s.sequence] = s

(* Slot k of a reader's view is event k, complete, and is still what the   *)
(* file holds: no reader sees a copy in progress or a slot that changes.   *)
ReadersSeeLog ==
  \A r \in Readers : \A k \in 1..Len(seen[r]) :
    /\ seen[r][k] = events[k-1]
    /\ seen[r][k].sequence = k - 1
    /\ seen[r][k].payload \in Payloads

(* What a restart will replay is complete and numbered without gaps, at    *)
(* every moment the process may die; the header is at most the one append  *)
(* in progress behind next_seq_.                                           *)
DurablePrefix ==
  /\ \A k \in 0..header_next-1 :
       events[k].sequence = k /\ events[k].payload \in Payloads
  /\ proc = "running" => next_seq \in {header_next, header_next + 1}

(* open_or_create() gives up on a file that exists without LOG_MAGIC, and  *)
(* a death between open() and the header leaves such a file.  Refusing it  *)
(* loses nothing: in no life of the process did an append() return on it,  *)
(* or even begin to copy an event into it.                                 *)
RefusedHoldsNothing ==
  proc = "rejected" => returned = {} /\ \A s \in Slots : events[s] = ZeroSlot

(* The durable part of the log, as the components that replay it see it,   *)
(* is an AppendLog: deaths and restarts neither lose nor rewrite events.   *)
DurableLog == [ k \in 1..header_next |-> events[k-1].payload ]

Durable == INSTANCE AppendLog WITH log <- DurableLog

ImplementsAppendLog == Durable!Spec
=============================================================================
