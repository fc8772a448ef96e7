------------------------------ MODULE Shutdown ------------------------------
(***************************************************************************)
(* One life of the process from the first order to its end (src/main.cpp): *)
(* the strategy loop, the signal, the killswitch on the thread that takes  *)
(* it, and the stop of the initiator, over Gateway and Killswitch.         *)
(*                                                                         *)
(* The handler runs emergency_cancel_all() itself, on whatever thread the  *)
(* signal interrupts; the loop only looks at g_shutdown.  flatten() is     *)
(* left to a caller outside the repository.                                *)
(***************************************************************************)
EXTENDS Killswitch

VARIABLES
  g_shutdown,  \* g_shutdown
  mpc,         \* main(): "loop", "stopping", then "exited", "failed" or
               \* "terminated"
  targets      \* history: the orders the exchange had or was to get when
               \* cancel_all() began

mvars   == <<g_shutdown, mpc, targets>>
allvars == <<vars, kvars, mvars>>

ShutdownInit ==
  /\ Init /\ InitKillswitch
  /\ g_shutdown = FALSE /\ mpc = "loop" /\ targets = {}

-----------------------------------------------------------------------------
AppendThrows == spc = "passed" /\ Len(log) >= MaxEvents

(* What Gateway does, as long as the killswitch does not hold the thread.  *)
(* The strategy is the body of main's loop: between two tests of the flag  *)
(* it may call send_order() any number of times, whatever has happened in  *)
(* the meantime.  A stopping initiator does not log on.                    *)
RunStrategy ==
  /\ ~Busy("main") /\ mpc = "loop" /\ ~AppendThrows
  /\ Strategy
  /\ UNCHANGED <<kvars, mvars>>

RunIO ==
  /\ ~Busy("io")
  /\ mpc = "stopping" => connected
  /\ IOThread
  /\ UNCHANGED <<kvars, mvars>>

RunExchange == Exchange /\ UNCHANGED <<kvars, mvars>>

-----------------------------------------------------------------------------
(* The signal. *)

OnItsWay(oid) == \E k \in 1..Len(outbound) : /\ outbound[k].msg_type = "NewOrderSingle"
                                             /\ outbound[k].cl_ord_id = oid

Reached == { oid \in OrderIds : book[oid].state = "Live" \/ OnItsWay(oid) }

(* The interrupted thread may be inside malloc(): blocked calls print,     *)
(* messages are built and parsed.                                          *)
InLibrary(th) ==
  IF th = "main" THEN spc \in {"checking", "booked"} ELSE ipc \in {"idle", "tracked"}

(* signal_handler(): the flag, then emergency_cancel_all() on the          *)
(* interrupted thread.  It allocates and prints, which is undefined when   *)
(* the thread was doing so: it may wait for a lock its own thread holds.   *)
(* The bound: one signal.                                                  *)
SignalCancels(th) ==
  /\ up /\ ~g_shutdown
  /\ g_shutdown' = TRUE
  /\ \/ BeginCancelAll(th)
     \/ /\ InLibrary(th)
        /\ kpc' = "hung" /\ kthread' = th /\ UNCHANGED <<slot, count>>
  /\ targets' = Reached
  /\ UNCHANGED <<vars, mpc>>

-----------------------------------------------------------------------------
(* The main thread. *)

AtLoopHead == mpc = "loop" /\ spc = "idle" /\ ~Busy("main")

(* flatten() is called by nobody in the repository.  Killswitch.h leaves it *)
(* to its caller: after cancel_all(), "once you've confirmed all cancels    *)
(* are acknowledged, or after a fixed timeout".  So the code outside may    *)
(* call it in the turn of the loop that is still running, with any message  *)
(* under way.  The bound: one call.                                         *)
CallFlatten ==
  /\ AtLoopHead /\ kpc = "cancelled"
  /\ BeginFlatten("main")
  /\ UNCHANGED <<vars, mvars>>

(* Mutant of LeaveLoop: the loop waits for the answers to the cancels. *)
LeaveLoopAnswered ==
  /\ AtLoopHead /\ g_shutdown
  /\ outbound = << >> /\ inbound = << >>
  /\ mpc' = "stopping"
  /\ UNCHANGED <<vars, kvars, g_shutdown, targets>>

(* The loop ends; initiator.stop() is called. *)
LeaveLoop ==
  /\ AtLoopHead /\ g_shutdown
  /\ mpc' = "stopping"
  /\ UNCHANGED <<vars, kvars, g_shutdown, targets>>

(* stop() has joined the I/O thread; main() returns. *)
Exit ==
  /\ mpc = "stopping" /\ ipc = "idle" /\ ~Busy("io")
  /\ Down /\ crashes' = crashes
  /\ mpc' = "exited"
  /\ UNCHANGED <<kvars, g_shutdown, targets>>

(* append() throws in send_order(): main() catches and returns 1.  Nothing *)
(* is cancelled.                                                           *)
Fatal ==
  /\ ~Busy("main") /\ mpc = "loop" /\ AppendThrows
  /\ Down /\ crashes' = crashes
  /\ mpc' = "failed"
  /\ UNCHANGED <<kvars, g_shutdown, targets>>

(* fromApp() is noexcept.  crack() throws UnsupportedMessageType for an    *)
(* OrderCancelReject, which the gateway does not handle, and append()      *)
(* throws when the log is full.                                            *)
Terminate ==
  /\ ~Busy("io")
  /\ \/ /\ up /\ connected /\ ipc = "idle" /\ inbound # << >>
        /\ Head(inbound).msg_type = "OrderCancelReject"
        /\ Down /\ crashes' = crashes
     \/ TerminateLogFull
  /\ mpc' = "terminated"
  /\ UNCHANGED <<kvars, g_shutdown, targets>>

-----------------------------------------------------------------------------
(* The exchange gets a cancel request.  Its answers carry the id of the    *)
(* request as ClOrdID.                                                     *)
AcceptCancel ==
  LET o == Head(outbound)
  IN  /\ outbound # << >> /\ o.msg_type = "OrderCancelRequest"
      /\ book[o.orig_cl_ord_id].state = "Live"
      /\ book' = [book EXCEPT ![o.orig_cl_ord_id].state = "Cancelled"]
      /\ inbound' = Append(inbound, Report("Canceled", o.cl_ord_id, o.symbol, o.side, 0, 0))
      /\ outbound' = Tail(outbound)
      /\ UNCHANGED <<positions, orders, log, up, connected, order_counter, strategy, io, crashes>>
      /\ UNCHANGED <<kvars, mvars>>

(* Too late to cancel, or an order it does not have. *)
RefuseCancel ==
  LET o == Head(outbound)
  IN  /\ outbound # << >> /\ o.msg_type = "OrderCancelRequest"
      /\ book[o.orig_cl_ord_id].state # "Live"
      /\ inbound' = Append(inbound, [ Report("Rejected", o.cl_ord_id, o.symbol, o.side, 0, 0)
                                        EXCEPT !.msg_type = "OrderCancelReject" ])
      /\ outbound' = Tail(outbound)
      /\ UNCHANGED <<positions, orders, log, up, connected, order_counter, strategy, io, book, crashes>>
      /\ UNCHANGED <<kvars, mvars>>

-----------------------------------------------------------------------------
RunKillswitch == up /\ KillStep /\ UNCHANGED mvars

ShutdownNext ==
  \/ RunStrategy \/ RunIO \/ RunExchange
  \/ \E th \in Threads : SignalCancels(th)
  \/ CallFlatten \/ RunKillswitch
  \/ LeaveLoop \/ Exit \/ Fatal \/ Terminate
  \/ AcceptCancel \/ RefuseCancel

(* Threads that have work keep running.  The loop looks at g_shutdown in   *)
(* every turn, however often send_order() is called in between.  Nothing   *)
(* is asked of the exchange, the session or the sender of the signal.      *)
Fairness ==
  /\ WF_allvars((RunStrategy \/ Fatal) /\ spc # "idle")
  /\ WF_allvars(RunIO /\ ipc # "idle")
  /\ WF_allvars(RunKillswitch)
  /\ SF_allvars(LeaveLoop)
  /\ WF_allvars(Exit)
  /\ WF_allvars(Terminate)

ShutdownSpec == ShutdownInit /\ [][ShutdownNext]_allvars /\ Fairness

-----------------------------------------------------------------------------
(* An order the exchange has, or will get, without a cancel behind it. *)
CancelAfter(oid, k) == \E j \in (k + 1)..Len(outbound) :
                         /\ outbound[j].msg_type = "OrderCancelRequest"
                         /\ outbound[j].orig_cl_ord_id = oid

LeftOpen(oid) ==
  \/ book[oid].state = "Live" /\ ~CancelAfter(oid, 0)
  \/ \E k \in 1..Len(outbound) : /\ outbound[k].msg_type = "NewOrderSingle"
                                 /\ outbound[k].cl_ord_id = oid
                                 /\ ~CancelAfter(oid, k)

(* Killswitch.h: cancel_all() "sends OrderCancelRequest for every open     *)
(* order".  Whichever thread runs it, and whatever the other books in the  *)
(* meantime: of the orders that were sent before it began, none is open    *)
(* without a cancel behind it when it has ended.                           *)
CancelsCover ==
  up /\ kpc \in {"cancelled", "flattening", "flattened"} => \A oid \in targets : ~LeftOpen(oid)

(* FIXGateway.h: "On shutdown or error -> Killswitch::execute() ->         *)
(* cancel_all()".  A process that has shut down leaves no order behind.    *)
NothingLeftOpen ==
  mpc = "exited" => \A oid \in OrderIds : oid[1] = "ORD" => ~LeftOpen(oid)

(* What is still to be sold of a symbol: by orders that are live, and by   *)
(* orders on their way.                                                    *)
ToBeSold(sym) ==
  Exposed(sym, "Sell")
  + FoldLeft(LAMBDA sum, o : IF o.msg_type = "NewOrderSingle" /\ o.symbol = sym /\ o.side = "Sell"
                             THEN sum + o.order_qty ELSE sum, 0, outbound)

(* Killswitch.h: flatten() "sends market orders to close every non-zero    *)
(* position".  Of a strategy that only buys every position is long.  With  *)
(* fills still under way when flatten() reads the positions, even if       *)
(* everything that is to be sold trades and no open buy does, no position  *)
(* at the exchange is ever turned into a short one.                        *)
FlattenNeverReverses ==
  kpc \in {"flattening", "flattened"} =>
    \A sym \in Symbols : Held(sym) - ToBeSold(sym) >= 0

(* main.cpp: "The loop checks for shutdown on every iteration."  A signal  *)
(* ends the process, whichever thread takes it, connected or not, unless   *)
(* the handler itself hangs in a library call it may not make: no thread   *)
(* waits for another, for the exchange or for the session, and no stream   *)
(* of orders keeps the loop from its test.                                 *)
ShutdownEnds ==
  g_shutdown ~> (mpc \in {"exited", "failed", "terminated"} \/ kpc = "hung")

(* The manager closes an order by its own id.  When nothing is under way,  *)
(* an order that is open in the manager and was filled, refused or         *)
(* cancelled at the exchange can only be one the killswitch cancelled: the *)
(* confirmation of a cancel request carries the id of the request.  There  *)
(* are no more of them than confirmations in the log.  An order that       *)
(* expired lingers too, and is not spoken of.                              *)
OnlyCancelledLinger ==
  up /\ spc = "idle" /\ ipc = "idle" /\ inbound = << >> /\ outbound = << >> =>
    Cardinality({ i \in 1..Len(orders) :
                    /\ IsOpen(orders[i])
                    /\ book[orders[i].order_id].state \notin {"Live", "Expired"} })
      <= Cardinality({ k \in 1..Len(log) : log[k].order_id[1] = "KS" })
=============================================================================
