------------------------------ MODULE AppendLog ------------------------------
(***************************************************************************)
(* What EventLog promises the components that are projections over it: a   *)
(* bounded log that only grows at its end.  A restart changes nothing, so  *)
(* it is not a step.                                                       *)
(***************************************************************************)
EXTENDS Naturals, Sequences

CONSTANTS
  Payloads,    \* the events, without their sequence number
  MaxEvents    \* MAX_EVENTS

VARIABLE log

Init == log = << >>

Commit(e) ==
  /\ Len(log) < MaxEvents
  /\ log' = Append(log, e)

Next == \E e \in Payloads : Commit(e)

Spec == Init /\ [][Next]_log
=============================================================================
