--------------------------- MODULE EventLogProofs ---------------------------
(***************************************************************************)
(* EventLog proved for every capacity, every set of payloads and readers   *)
(* and any number of deaths, under the class comment's condition that one  *)
(* thread appends.                                                         *)
(***************************************************************************)
EXTENDS EventLog, TLAPS

(* "Must be called from the single writer thread only." *)
SingleWriter == \A v, w \in Writers : v = w

(* Slot k holds event k, whole. *)
Complete(k) == events[k].sequence = k /\ events[k].payload \in Payloads

(* What the file's creation has reached, seen from the process. *)
CreationInv ==
  /\ magic = "LOG_MAGIC" => stage = "sized"
  /\ magic = "zero" => /\ header_next = 0 /\ returned = {}
                       /\ \A s \in Slots : events[s] = ZeroSlot
  /\ proc = "running" => magic = "LOG_MAGIC"
  /\ proc \in {"created", "sized", "rejected"} => magic = "zero"
  /\ proc = "sized" => stage = "sized"

(* Where the append in progress stands, and that nobody is in a call when  *)
(* the process is not running.                                             *)
WriterInv ==
  /\ \A w \in Writers :
       /\ pc[w] # "idle" => /\ proc = "running"
                            /\ seq[w] = header_next
                            /\ seq[w] \in Slots
                            /\ evt[w] \in Payloads
                            /\ next_seq = IF pc[w] = "published" THEN header_next + 1
                                                                 ELSE header_next
       /\ pc[w] \in {"stored", "published"} =>
            events[seq[w]] = [sequence |-> seq[w], payload |-> evt[w]]
  /\ proc = "running" /\ (\A w \in Writers : pc[w] = "idle") => next_seq = header_next

(* A reader is inside the part of the log that was published. *)
ReaderInv ==
  \A r \in Readers :
    /\ proc # "running" => head[r] = 0
    /\ proc = "running" => head[r] <= next_seq
    /\ Len(seen[r]) <= head[r]

(* The inductive invariant. *)
IndInv ==
  /\ TypeOK
  /\ CreationInv
  /\ WriterInv
  /\ ReaderInv
  /\ ReturnedSurvives
  /\ ReadersSeeLog
  /\ \A k \in 0..header_next-1 : Complete(k)

USE MaxEventsAssumption, MaxFaultsAssumption

(* No file, no process, nobody in a call. *)
LEMMA InitIndInv == Init => IndInv
<1> SUFFICES ASSUME Init PROVE IndInv
  OBVIOUS
<1>1. TypeOK
  <2>1. ZeroSlot \in Contents
    BY DEF ZeroSlot, Contents
  <2>2. events \in [Slots -> Contents]
    BY <2>1 DEF Init
  <2>3. seen \in [Readers -> Seq(Contents)]
    BY DEF Init
  <2> QED BY <2>2, <2>3 DEF Init, TypeOK
<1>2. CreationInv /\ WriterInv /\ ReaderInv /\ ReturnedSurvives /\ ReadersSeeLog
  BY DEF Init, CreationInv, WriterInv, ReaderInv, ReturnedSurvives, ReadersSeeLog
<1>3. \A k \in 0..header_next-1 : Complete(k)
  BY DEF Init
<1> QED BY <1>1, <1>2, <1>3 DEF IndInv

(* No step of open_or_create() and no death touches an event. *)
LEMMA OpenIndInv ==
  ASSUME IndInv, Open \/ SyscallFails \/ Die
  PROVE  IndInv'
<1>1. /\ TypeOK /\ CreationInv /\ WriterInv /\ ReaderInv
      /\ ReturnedSurvives /\ ReadersSeeLog /\ \A k \in 0..header_next-1 : Complete(k)
  BY DEF IndInv
<1>2. /\ events' = events /\ header_next' = header_next /\ returned' = returned
  BY <1>1 DEF Open, OpenFile, SizeFile, InitHeader, MapExisting, SyscallFails, Die,
              CreationInv, file
<1>3. ReturnedSurvives' /\ \A k \in 0..header_next'-1 : Complete(k)'
  BY <1>1, <1>2 DEF ReturnedSurvives, Complete
<1>4. CASE OpenFile \/ SizeFile \/ InitHeader \/ MapExisting \/ SyscallFails
  <2>1. pc' = pc /\ seq' = seq /\ evt' = evt /\ head' = head /\ seen' = seen
    BY <1>4 DEF OpenFile, SizeFile, InitHeader, MapExisting, SyscallFails, writer, reader
  <2>2. /\ proc # "running" /\ stage' \in {"empty", "sized", stage}
        /\ next_seq' \in 0..MaxEvents
        /\ magic' \in {"zero", "LOG_MAGIC"} /\ faults' \in 0..MaxFaults
        /\ proc' \in {"created", "opened", "sized", "running", "rejected", "failed"}
        /\ proc' = "running" => next_seq' = header_next'
    BY <1>1, <1>4 DEF OpenFile, SizeFile, InitHeader, MapExisting, SyscallFails, TypeOK, file
  <2>3. TypeOK'
    BY <1>1, <1>2, <2>1, <2>2 DEF TypeOK
  <2>4. CreationInv'
    <3>1. CASE OpenFile
      BY <1>1, <1>2, <3>1 DEF OpenFile, CreationInv, TypeOK
    <3>2. CASE SizeFile
      BY <1>1, <1>2, <3>2 DEF SizeFile, CreationInv, TypeOK
    <3>3. CASE InitHeader
      <4>1. stage = "sized"
        BY <1>1, <3>3 DEF InitHeader, CreationInv
      <4> QED BY <1>1, <1>2, <3>3, <4>1 DEF InitHeader, CreationInv, TypeOK
    <3>4. CASE MapExisting
      BY <1>1, <1>2, <3>4 DEF MapExisting, CreationInv, TypeOK, file
    <3>5. CASE SyscallFails
      BY <1>1, <1>2, <3>5 DEF SyscallFails, CreationInv, TypeOK, file
    <3> QED BY <1>4, <3>1, <3>2, <3>3, <3>4, <3>5
  <2>5. WriterInv'
    BY <1>1, <1>2, <2>1, <2>2 DEF WriterInv
  <2>6. ReaderInv' /\ ReadersSeeLog'
    BY <1>1, <1>2, <2>1, <2>2 DEF ReaderInv, ReadersSeeLog, TypeOK
  <2> QED BY <1>3, <2>3, <2>4, <2>5, <2>6 DEF IndInv
<1>5. CASE Die
  <2>1. TypeOK'
    BY <1>1, <1>5 DEF Die, TypeOK, file
  <2>2. CreationInv' /\ WriterInv' /\ ReaderInv' /\ ReadersSeeLog'
    BY <1>1, <1>2, <1>5 DEF Die, CreationInv, WriterInv, ReaderInv, ReadersSeeLog, file
  <2> QED BY <1>3, <2>1, <2>2 DEF IndInv
<1> QED BY <1>4, <1>5 DEF Open

(* One step of the only append in progress. *)
LEMMA WriteIndInv ==
  ASSUME SingleWriter, IndInv, NEW w \in Writers, Write(w)
  PROVE  IndInv'
<1>1. /\ TypeOK /\ CreationInv /\ WriterInv /\ ReaderInv
      /\ ReturnedSurvives /\ ReadersSeeLog /\ \A k \in 0..header_next-1 : Complete(k)
  BY DEF IndInv
<1>2. \A v \in Writers : v = w
  BY DEF SingleWriter
<1>3. ASSUME NEW e \in Payloads, LoadSeq(w, e) PROVE IndInv'
  <2>1. /\ UNCHANGED <<stage, magic, header_next, events, proc, next_seq, head, seen, returned, faults>>
        /\ pc[w] = "idle" /\ proc = "running" /\ next_seq < MaxEvents
        /\ pc' = [pc EXCEPT ![w] = "loaded"]
        /\ seq' = [seq EXCEPT ![w] = next_seq]
        /\ evt' = [evt EXCEPT ![w] = e]
    BY <1>3 DEF LoadSeq, file, reader
  <2>2. TypeOK'
    BY <1>1, <2>1 DEF TypeOK
  <2>3. WriterInv'
    <3>1. next_seq = header_next
      BY <1>1, <1>2, <2>1 DEF WriterInv
    <3>2. next_seq \in Slots
      BY <1>1, <2>1 DEF TypeOK, Slots
    <3>3. pc'[w] = "loaded" /\ seq'[w] = next_seq /\ evt'[w] = e
      BY <1>1, <2>1 DEF TypeOK
    <3> QED BY <1>2, <2>1, <3>1, <3>2, <3>3 DEF WriterInv
  <2> QED BY <1>1, <2>1, <2>2, <2>3
          DEF IndInv, CreationInv, ReaderInv, ReturnedSurvives, ReadersSeeLog, Complete
<1>4. CASE LogFull(w)
  BY <1>1, <1>4 DEF LogFull, vars, file, writer, reader, IndInv, TypeOK, CreationInv,
     WriterInv, ReaderInv, ReturnedSurvives, ReadersSeeLog, Complete
<1>5. CASE BeginStore(w) \/ EndStore(w)
  <2> DEFINE c == events'[seq[w]]
  <2>1. /\ UNCHANGED <<stage, magic, header_next, proc, next_seq, seq, evt, head, seen, returned, faults>>
        /\ pc[w] \in {"loaded", "storing"}
    BY <1>5 DEF BeginStore, EndStore, reader
  <2>2. /\ proc = "running" /\ seq[w] = header_next /\ next_seq = header_next
        /\ seq[w] \in Slots /\ evt[w] \in Payloads
    BY <1>1, <2>1 DEF WriterInv
  <2>3. /\ events' = [events EXCEPT ![seq[w]] = c] /\ c \in Contents
        /\ pc' = [pc EXCEPT ![w] = IF pc[w] = "loaded" THEN "storing" ELSE "stored"]
        /\ pc[w] = "storing" => c = [sequence |-> seq[w], payload |-> evt[w]]
    <3>1. CASE BeginStore(w)
      <4>1. TornSlot \in Contents
        BY DEF TornSlot, Contents
      <4> QED BY <1>1, <2>2, <3>1, <4>1 DEF BeginStore, TypeOK
    <3>2. CASE EndStore(w)
      <4>1. [sequence |-> seq[w], payload |-> evt[w]] \in Contents
        BY <2>2 DEF Contents, Slots
      <4> QED BY <1>1, <2>2, <3>2, <4>1 DEF EndStore, TypeOK
    <3> QED BY <1>5, <3>1, <3>2
  <2>4. \A k \in Slots : k # header_next => events'[k] = events[k]
    BY <1>1, <2>2, <2>3 DEF TypeOK
  <2> HIDE DEF c
  <2>5. TypeOK'
    <3>1. events' \in [Slots -> Contents]
      BY <1>1, <2>3 DEF TypeOK
    <3>2. pc' \in [Writers -> {"idle", "loaded", "storing", "stored", "published"}]
      BY <1>1, <2>3 DEF TypeOK
    <3> QED BY <1>1, <2>1, <3>1, <3>2 DEF TypeOK
  <2>6. WriterInv'
    <3>1. pc'[w] = IF pc[w] = "loaded" THEN "storing" ELSE "stored"
      BY <1>1, <2>3 DEF TypeOK
    <3>2. events'[seq[w]] = c
      BY <1>1, <2>2, <2>3 DEF TypeOK
    <3> QED BY <1>2, <2>1, <2>2, <2>3, <3>1, <3>2 DEF WriterInv
  <2>7. \A k \in 0..header_next-1 : k \in Slots /\ k # header_next
    BY <1>1 DEF TypeOK, Slots
  <2>8. (\A k \in 0..header_next-1 : Complete(k))'
    BY <1>1, <2>1, <2>4, <2>7 DEF Complete
  <2>9. ReturnedSurvives'
    <3> SUFFICES ASSUME NEW s \in returned
                 PROVE  s.sequence < header_next /\ events'[s.sequence] = s
      BY <2>1 DEF ReturnedSurvives
    <3>1. s.sequence < header_next /\ events[s.sequence] = s
      BY <1>1 DEF ReturnedSurvives
    <3>2. s.sequence \in 0..MaxEvents
      BY <1>1 DEF TypeOK, Contents
    <3>3. s.sequence \in 0..header_next-1
      BY <1>1, <3>1, <3>2 DEF TypeOK
    <3> QED BY <2>4, <2>7, <3>1, <3>3
  <2>10. ReadersSeeLog'
    <3> SUFFICES ASSUME NEW r \in Readers, NEW k \in 1..Len(seen[r])
                 PROVE  k - 1 \in 0..header_next-1
      BY <1>1, <2>1, <2>4, <2>7 DEF ReadersSeeLog
    <3>1. Len(seen[r]) <= header_next /\ Len(seen[r]) \in Nat
      BY <1>1, <2>2 DEF ReaderInv, TypeOK
    <3> QED BY <1>1, <3>1 DEF TypeOK
  <2>11. CreationInv'
    BY <1>1, <2>1, <2>2 DEF CreationInv
  <2> QED BY <1>1, <2>1, <2>5, <2>6, <2>8, <2>9, <2>10, <2>11 DEF IndInv, ReaderInv
<1>6. CASE PublishSeq(w)
  <2>1. /\ UNCHANGED <<stage, magic, header_next, events, proc, seq, evt, head, seen, returned, faults>>
        /\ pc[w] = "stored" /\ next_seq' = seq[w] + 1
        /\ pc' = [pc EXCEPT ![w] = "published"]
    BY <1>6 DEF PublishSeq, file, reader
  <2>2. /\ proc = "running" /\ seq[w] = header_next /\ next_seq = header_next
        /\ seq[w] \in Slots
    BY <1>1, <2>1 DEF WriterInv
  <2>3. TypeOK'
    BY <1>1, <2>1, <2>2 DEF TypeOK, Slots
  <2>4. WriterInv'
    <3>1. pc'[w] = "published"
      BY <1>1, <2>1 DEF TypeOK
    <3> QED BY <1>1, <1>2, <2>1, <2>2, <3>1 DEF WriterInv
  <2>5. ReaderInv'
    BY <1>1, <2>1, <2>2 DEF ReaderInv, TypeOK, Slots
  <2> QED BY <1>1, <2>1, <2>3, <2>4, <2>5
          DEF IndInv, CreationInv, ReturnedSurvives, ReadersSeeLog, Complete
<1>7. CASE PersistHeader(w)
  <2> DEFINE s == [sequence |-> seq[w], payload |-> evt[w]]
  <2>1. /\ UNCHANGED <<stage, magic, events, proc, next_seq, seq, evt, head, seen, faults>>
        /\ pc[w] = "published" /\ header_next' = seq[w] + 1
        /\ pc' = [pc EXCEPT ![w] = "idle"]
        /\ returned' = returned \cup {s}
    BY <1>7 DEF PersistHeader, reader
  <2>2. /\ proc = "running" /\ seq[w] = header_next /\ next_seq = header_next + 1
        /\ seq[w] \in Slots /\ evt[w] \in Payloads /\ events[seq[w]] = s
    BY <1>1, <2>1 DEF WriterInv
  <2>3. s \in Contents /\ s.sequence = seq[w] /\ s.payload = evt[w]
    BY <2>2 DEF Contents, Slots
  <2> HIDE DEF s
  <2>4. TypeOK'
    BY <1>1, <2>1, <2>2, <2>3 DEF TypeOK, Slots
  <2>5. CreationInv'
    BY <1>1, <2>1, <2>2 DEF CreationInv
  <2>6. WriterInv'
    <3>1. pc'[w] = "idle"
      BY <1>1, <2>1 DEF TypeOK
    <3> QED BY <1>2, <2>1, <2>2, <3>1 DEF WriterInv
  <2>7. ReturnedSurvives'
    <3> SUFFICES ASSUME NEW x \in returned'
                 PROVE  x.sequence < header_next + 1 /\ events[x.sequence] = x
      BY <2>1, <2>2 DEF ReturnedSurvives
    <3>1. CASE x = s
      BY <1>1, <2>2, <2>3, <3>1 DEF TypeOK
    <3>2. CASE x \in returned
      <4>1. x.sequence < header_next /\ events[x.sequence] = x
        BY <1>1, <3>2 DEF ReturnedSurvives
      <4>2. x.sequence \in 0..MaxEvents
        BY <1>1, <3>2 DEF TypeOK, Contents
      <4> QED BY <1>1, <4>1, <4>2 DEF TypeOK
    <3> QED BY <2>1, <3>1, <3>2
  <2>8. (\A k \in 0..header_next-1 : Complete(k))'
    <3> SUFFICES ASSUME NEW k \in 0..header_next
                 PROVE  Complete(k)
      BY <1>1, <2>1, <2>2 DEF Complete, TypeOK
    <3>1. CASE k = header_next
      BY <2>2, <2>3, <3>1 DEF Complete
    <3>2. CASE k # header_next
      BY <1>1, <3>2 DEF TypeOK
    <3> QED BY <3>1, <3>2
  <2> QED BY <1>1, <2>1, <2>4, <2>5, <2>6, <2>7, <2>8 DEF IndInv, ReaderInv, ReadersSeeLog
<1> QED BY <1>3, <1>4, <1>5, <1>6, <1>7 DEF Write

(* A reader copies slots below a head the writer has published. *)
LEMMA ReadIndInv ==
  ASSUME IndInv, NEW r \in Readers, Read(r)
  PROVE  IndInv'
<1>1. /\ TypeOK /\ CreationInv /\ WriterInv /\ ReaderInv
      /\ ReturnedSurvives /\ ReadersSeeLog /\ \A k \in 0..header_next-1 : Complete(k)
  BY DEF IndInv
<1>2. UNCHANGED <<stage, magic, header_next, events, proc, next_seq, pc, seq, evt, returned, faults>>
  BY DEF Read, LoadHead, ReadSlot, EndReplay, file, writer
<1>3. CreationInv' /\ WriterInv' /\ ReturnedSurvives' /\ (\A k \in 0..header_next-1 : Complete(k))'
  BY <1>1, <1>2 DEF CreationInv, WriterInv, ReturnedSurvives, Complete
<1>4. SUFFICES TypeOK' /\ ReaderInv' /\ ReadersSeeLog'
  BY <1>3 DEF IndInv
<1>5. CASE LoadHead(r)
  <2>1. /\ proc = "running" /\ head[r] = 0 /\ seen' = seen
        /\ head' = [head EXCEPT ![r] = next_seq]
    BY <1>5 DEF LoadHead
  <2>2. TypeOK'
    BY <1>1, <1>2, <2>1 DEF TypeOK
  <2>3. ReaderInv'
    BY <1>1, <1>2, <2>1 DEF ReaderInv, TypeOK
  <2>4. ReadersSeeLog'
    BY <1>1, <1>2, <2>1 DEF ReadersSeeLog
  <2> QED BY <2>2, <2>3, <2>4
<1>6. CASE ReadSlot(r)
  <2> DEFINE n == Len(seen[r])
             c == events[n]
  <2>1. /\ n < head[r] /\ head' = head
        /\ seen' = [seen EXCEPT ![r] = Append(seen[r], c)]
    BY <1>6 DEF ReadSlot
  <2>2. seen[r] \in Seq(Contents) /\ n \in Nat /\ head[r] \in 0..MaxEvents
    BY <1>1 DEF TypeOK
  <2>3. proc = "running" /\ head[r] <= next_seq /\ next_seq \in 0..MaxEvents
    BY <1>1, <2>1, <2>2 DEF ReaderInv, TypeOK
  <2>4. n \in Slots /\ c \in Contents
    BY <1>1, <2>1, <2>2, <2>3 DEF Slots, TypeOK
  <2>5. c.sequence = n /\ c.payload \in Payloads
    <3>1. CASE n < header_next
      BY <1>1, <2>2, <3>1 DEF Complete, TypeOK
    <3>2. CASE n >= header_next
      <4>1. PICK w \in Writers : pc[w] # "idle"
        BY <1>1, <2>1, <2>2, <2>3, <3>2 DEF WriterInv, TypeOK
      <4>2. /\ seq[w] = header_next /\ evt[w] \in Payloads
            /\ next_seq = IF pc[w] = "published" THEN header_next + 1 ELSE header_next
        BY <1>1, <4>1 DEF WriterInv
      <4>3. pc[w] = "published" /\ n = header_next
        BY <1>1, <2>1, <2>2, <2>3, <3>2, <4>2 DEF TypeOK
      <4>4. events[seq[w]] = [sequence |-> seq[w], payload |-> evt[w]]
        BY <1>1, <4>3 DEF WriterInv
      <4> QED BY <4>2, <4>3, <4>4
    <3> QED BY <1>1, <2>2, <3>1, <3>2 DEF TypeOK
  <2>6. /\ seen'[r] = Append(seen[r], c) /\ Append(seen[r], c) \in Seq(Contents)
        /\ \A q \in Readers : q # r => seen'[q] = seen[q]
    BY <1>1, <2>1, <2>2, <2>4 DEF TypeOK
  <2>7. /\ Len(seen'[r]) = n + 1 /\ seen'[r][n + 1] = c
        /\ \A k \in 1..n : seen'[r][k] = seen[r][k]
    BY <2>2, <2>4, <2>6
  <2>8. TypeOK'
    BY <1>1, <1>2, <2>1, <2>6 DEF TypeOK
  <2>9. ReaderInv'
    <3> SUFFICES ASSUME NEW q \in Readers PROVE Len(seen'[q]) <= head[q]
      BY <1>1, <1>2, <2>1 DEF ReaderInv
    <3>1. CASE q = r
      BY <2>1, <2>2, <2>7, <3>1
    <3>2. CASE q # r
      BY <1>1, <2>6, <3>2 DEF ReaderInv
    <3> QED BY <3>1, <3>2
  <2>10. ReadersSeeLog'
    <3> SUFFICES ASSUME NEW q \in Readers, NEW k \in 1..Len(seen'[q])
                 PROVE  /\ seen'[q][k] = events[k-1]
                        /\ seen'[q][k].sequence = k - 1
                        /\ seen'[q][k].payload \in Payloads
      BY <1>2 DEF ReadersSeeLog
    <3>1. CASE q # r
      BY <1>1, <2>6, <3>1 DEF ReadersSeeLog
    <3>2. CASE q = r /\ k = n + 1
      BY <2>2, <2>5, <2>7, <3>2
    <3>3. CASE q = r /\ k \in 1..n
      BY <1>1, <2>7, <3>3 DEF ReadersSeeLog
    <3> QED BY <2>2, <2>7, <3>1, <3>2, <3>3
  <2> QED BY <2>8, <2>9, <2>10
<1>7. CASE EndReplay(r)
  <2>1. /\ head' = [head EXCEPT ![r] = 0]
        /\ seen' = [seen EXCEPT ![r] = << >>]
    BY <1>7 DEF EndReplay
  <2>2. TypeOK'
    BY <1>1, <1>2, <2>1 DEF TypeOK
  <2>3. ReaderInv'
    BY <1>1, <1>2, <2>1 DEF ReaderInv, TypeOK
  <2>4. ReadersSeeLog'
    BY <1>1, <1>2, <2>1 DEF ReadersSeeLog, TypeOK
  <2> QED BY <2>2, <2>3, <2>4
<1> QED BY <1>5, <1>6, <1>7 DEF Read

(* Every step, stuttering included, keeps the inductive invariant. *)
LEMMA NextIndInv ==
  ASSUME SingleWriter, IndInv, [Next]_vars
  PROVE  IndInv'
<1>1. CASE Open \/ SyscallFails \/ Die
  BY <1>1, OpenIndInv
<1>2. ASSUME NEW w \in Writers, Write(w) PROVE IndInv'
  BY <1>2, WriteIndInv
<1>3. ASSUME NEW r \in Readers, Read(r) PROVE IndInv'
  BY <1>3, ReadIndInv
<1>4. CASE UNCHANGED vars
  BY <1>4 DEF vars, file, writer, reader, IndInv, TypeOK, CreationInv, WriterInv, ReaderInv,
     ReturnedSurvives, ReadersSeeLog, Complete
<1> QED BY <1>1, <1>2, <1>3, <1>4 DEF Next

-----------------------------------------------------------------------------
(* With one appending thread, the inductive invariant of open_or_create(), *)
(* append() and replay() holds through every death and restart.            *)
THEOREM EventLogInductive ==
  ASSUME SingleWriter
  PROVE  Spec => []IndInv
<1>1. Init => IndInv
  BY InitIndInv
<1>2. IndInv /\ [Next]_vars => IndInv'
  BY NextIndInv
<1> QED BY <1>1, <1>2, PTL DEF Spec

(* With one appending thread the variables keep their types: no sequence   *)
(* number and no head leaves the mapped array.                             *)
THEOREM EventLogTypeOK ==
  ASSUME SingleWriter
  PROVE  Spec => []TypeOK
<1>1. IndInv => TypeOK
  BY DEF IndInv
<1> QED BY <1>1, EventLogInductive, PTL

(* With one appending thread an event whose append() returned stays in its *)
(* slot, below the header's next_sequence, for ever.                       *)
THEOREM EventLogReturnedSurvives ==
  ASSUME SingleWriter
  PROVE  Spec => []ReturnedSurvives
<1>1. IndInv => ReturnedSurvives
  BY DEF IndInv
<1> QED BY <1>1, EventLogInductive, PTL

(* With one appending thread replay() on any number of other threads only  *)
(* sees complete events, in order, that never change afterwards: the       *)
(* acquire load of next_seq_ is all the synchronisation a reader needs.    *)
THEOREM EventLogReadersSeeLog ==
  ASSUME SingleWriter
  PROVE  Spec => []ReadersSeeLog
<1>1. IndInv => ReadersSeeLog
  BY DEF IndInv
<1> QED BY <1>1, EventLogInductive, PTL

(* With one appending thread what a restart would replay is complete and   *)
(* without gaps at every moment.                                           *)
THEOREM EventLogDurablePrefix ==
  ASSUME SingleWriter
  PROVE  Spec => []DurablePrefix
<1>1. IndInv => DurablePrefix
  <2> SUFFICES ASSUME IndInv PROVE DurablePrefix
    OBVIOUS
  <2>1. \A k \in 0..header_next-1 : Complete(k)
    BY DEF IndInv
  <2>2. ASSUME proc = "running" PROVE next_seq \in {header_next, header_next + 1}
    BY <2>2 DEF IndInv, WriterInv
  <2> QED BY <2>1, <2>2 DEF DurablePrefix, Complete
<1> QED BY <1>1, EventLogInductive, PTL

(* With one appending thread a file that open_or_create() rejects as       *)
(* corrupt is one that no append() of any earlier life has touched.        *)
THEOREM EventLogRefusedHoldsNothing ==
  ASSUME SingleWriter
  PROVE  Spec => []RefusedHoldsNothing
<1>1. IndInv => RefusedHoldsNothing
  BY DEF IndInv, CreationInv, RefusedHoldsNothing
<1> QED BY <1>1, EventLogInductive, PTL

-----------------------------------------------------------------------------
(* The header store of append() commits one event; no other step changes   *)
(* the durable log.                                                        *)
LEMMA StepRefines ==
  ASSUME SingleWriter, IndInv, [Next]_vars
  PROVE  [Durable!Next]_DurableLog
<1>1. /\ TypeOK /\ CreationInv /\ WriterInv
      /\ \A k \in 0..header_next-1 : Complete(k)
  BY DEF IndInv
<1>2. header_next \in 0..MaxEvents
  BY <1>1 DEF TypeOK
<1>3. \A k \in 1..header_next : k - 1 \in 0..header_next-1 /\ k - 1 \in Slots /\ k - 1 # header_next
  BY <1>2 DEF Slots
<1>4. ASSUME header_next' = header_next,
             \A k \in Slots : k # header_next => events'[k] = events[k]
      PROVE  DurableLog' = DurableLog
  BY <1>3, <1>4 DEF DurableLog
<1>5. CASE Open \/ SyscallFails \/ Die
  <2>1. events' = events /\ header_next' = header_next
    BY <1>1, <1>5 DEF Open, OpenFile, SizeFile, InitHeader, MapExisting, SyscallFails, Die,
                      CreationInv, file
  <2> QED BY <1>4, <2>1
<1>6. ASSUME NEW w \in Writers, Write(w) PROVE [Durable!Next]_DurableLog
  <2>1. CASE (\E e \in Payloads : LoadSeq(w, e)) \/ LogFull(w) \/ PublishSeq(w)
    <3>1. events' = events /\ header_next' = header_next
      BY <2>1 DEF LoadSeq, LogFull, PublishSeq, vars, file
    <3> QED BY <1>4, <3>1
  <2>2. CASE BeginStore(w) \/ EndStore(w)
    <3>1. seq[w] = header_next
      BY <1>1, <2>2 DEF BeginStore, EndStore, WriterInv
    <3>2. header_next' = header_next /\ \A k \in Slots : k # header_next => events'[k] = events[k]
      BY <1>1, <2>2, <3>1 DEF BeginStore, EndStore, TypeOK
    <3> QED BY <1>4, <3>2
  <2>3. CASE PersistHeader(w)
    <3>1. /\ events' = events /\ header_next' = seq[w] + 1 /\ pc[w] = "published"
      BY <2>3 DEF PersistHeader
    <3>2. /\ seq[w] = header_next /\ header_next \in Slots /\ evt[w] \in Payloads
          /\ events[header_next].payload = evt[w]
      <4>1. seq[w] = header_next /\ seq[w] \in Slots /\ evt[w] \in Payloads
        BY <1>1, <3>1 DEF WriterInv
      <4>2. events[seq[w]] = [sequence |-> seq[w], payload |-> evt[w]]
        BY <1>1, <3>1 DEF WriterInv
      <4> QED BY <4>1, <4>2
    <3>3. DurableLog \in Seq(Payloads) /\ Len(DurableLog) = header_next
      <4>1. \A k \in 1..header_next : events[k-1].payload \in Payloads
        BY <1>1, <1>3 DEF Complete
      <4> QED BY <1>2, <4>1 DEF DurableLog
    <3>4. DurableLog' = [ k \in 1..header_next+1 |-> events[k-1].payload ]
      BY <3>1, <3>2 DEF DurableLog
    <3>5. DurableLog' = Append(DurableLog, evt[w])
      <4>1. Append(DurableLog, evt[w]) =
            [ k \in 1..header_next+1 |-> IF k = header_next + 1 THEN evt[w] ELSE DurableLog[k] ]
        BY <1>2, <3>2, <3>3
      <4>2. ASSUME NEW k \in 1..header_next+1
            PROVE  events[k-1].payload = IF k = header_next + 1 THEN evt[w] ELSE DurableLog[k]
        <5>1. CASE k = header_next + 1
          BY <1>2, <3>2, <5>1
        <5>2. CASE k \in 1..header_next
          BY <1>2, <5>2 DEF DurableLog
        <5> QED BY <1>2, <5>1, <5>2
      <4> QED BY <3>4, <4>1, <4>2
    <3>6. Durable!Commit(evt[w])
      BY <1>2, <3>2, <3>3, <3>5 DEF Durable!Commit, Slots
    <3> QED BY <3>2, <3>6 DEF Durable!Next
  <2> QED BY <1>6, <2>1, <2>2, <2>3 DEF Write
<1>7. ASSUME NEW r \in Readers, Read(r) PROVE DurableLog' = DurableLog
  <2>1. events' = events /\ header_next' = header_next
    BY <1>7 DEF Read, LoadHead, ReadSlot, EndReplay, file
  <2> QED BY <1>4, <2>1
<1>8. CASE UNCHANGED vars
  <2>1. events' = events /\ header_next' = header_next
    BY <1>8 DEF vars, file
  <2> QED BY <1>4, <2>1
<1> QED BY <1>5, <1>6, <1>7, <1>8 DEF Next

(* With one appending thread the durable part of the file implements the   *)
(* append-only log: "Writes are appends only - never updates", across      *)
(* deaths at any store and restarts.                                       *)
THEOREM EventLogRefines ==
  ASSUME SingleWriter
  PROVE  Spec => ImplementsAppendLog
<1>1. Init => Durable!Init
  BY DEF Init, Durable!Init, DurableLog
<1>2. IndInv /\ [Next]_vars => [Durable!Next]_DurableLog
  BY StepRefines
<1> QED BY <1>1, <1>2, EventLogInductive, PTL DEF Spec, ImplementsAppendLog, Durable!Spec
=============================================================================
