----------------------------- MODULE IBExecution -----------------------------
(***************************************************************************)
(* Execution of approved trade requests against Interactive Brokers: the   *)
(* main thread (app/ib_execution_client.py and the wait of the runner),    *)
(* the IB network thread (app/ib_order_status_transport.py,                *)
(* app/ib_execution_details_transport.py, app/ib_error_handler.py), the    *)
(* durable ledger they share, and IB itself.                               *)
(*                                                                         *)
(* A ledger transition reads in one SQLite connection and writes in        *)
(* another, so it is two steps here, and any step of the other thread, a   *)
(* lost connection or a crash may fall in between.  IB and the socket are  *)
(* external: callbacks arrive in any order and any number of times, and    *)
(* those in flight when the connection drops are lost.                     *)
(***************************************************************************)
EXTENDS Integers, Sequences

CONSTANTS
    EventId, OrderId,
    NoEvent,      \* IB holds no order under an id
    Quantity,     \* contracts per order
    MaxHistory,   \* bound: ledger history
    MaxCrashes,   \* bound: crashes of BTS
    MaxDrops      \* bound: lost IB connections

ASSUME NoEventAssumption == NoEvent \notin EventId
ASSUME OrderIdAssumption == OrderId \subseteq Nat
ASSUME BoundsAssumption ==
    /\ Quantity \in Nat \ {0}
    /\ MaxHistory \in Nat
    /\ MaxCrashes \in Nat
    /\ MaxDrops \in Nat

VARIABLES
    records, history,   \* durable: the execution ledger
    execIds,            \* durable: ib_execution_details, <<order, cumulative>>
    guard,              \* DuplicateOrderGuard: reserved event ids
    main,               \* main thread: step, event, order id, status in hand
    net,                \* network thread: step, event, status, exec id in hand
    killed,             \* KillSwitch.active
    up, linked,         \* the process runs; its IB socket is connected
    orders,             \* external: IB's orders
    wire,               \* external: callbacks IB has sent on this connection
    crashes, drops

Ledger == INSTANCE ExecutionLedger WITH records <- records, history <- history

durable == <<records, history, execIds>>
process == <<guard, killed, up, linked>>
budget  == <<crashes, drops>>
vars    == <<durable, main, net, process, orders, wire, budget>>

NoExec   == <<Ledger!NoOrder, 0>>
MainIdle == [step |-> "idle", e |-> NoEvent, o |-> Ledger!NoOrder, to |-> Ledger!Unknown]
NetIdle  == [step |-> "idle", e |-> NoEvent, to |-> Ledger!Unknown, x |-> NoExec]
NoIBOrder == [e |-> NoEvent, filled |-> 0, state |-> "None"]

MainThread == [step : {"idle", "built", "checked", "marked", "waiting"},
               e : EventId \cup {NoEvent}, o : OrderId \cup {Ledger!NoOrder},
               to : {"Submitted", "Rejected", Ledger!Unknown}]
ExecId   == OrderId \X (1 .. Quantity)
Callback == [kind : {"Submitted", "Filled", "Cancelled", "Exec",
                     "Error201", "Error202"},
             o : OrderId, filled : 0 .. Quantity]

NetThread  == [step : {"idle", "write", "record"}, e : EventId \cup {NoEvent},
               to : Ledger!Status \cup {Ledger!Unknown}, x : ExecId \cup {NoExec}]
BrokerOrder == [e : EventId \cup {NoEvent}, filled : 0 .. Quantity,
                state : {"None", "Working", "Filled", "Cancelled", "Rejected"}]

FlagsOK == killed \in BOOLEAN /\ up \in BOOLEAN /\ linked \in BOOLEAN

TypeOK ==
    /\ Ledger!TypeOK
    /\ FlagsOK
    /\ execIds \subseteq ExecId
    /\ guard \subseteq EventId
    /\ main \in MainThread
    /\ net \in NetThread
    /\ orders \in [OrderId -> BrokerOrder]
    /\ wire \subseteq Callback
    /\ crashes \in 0 .. MaxCrashes
    /\ drops \in 0 .. MaxDrops

Init ==
    /\ Ledger!Init
    /\ execIds = {} /\ guard = {} /\ wire = {}
    /\ main = MainIdle /\ net = NetIdle
    /\ killed = FALSE /\ up = TRUE /\ linked = TRUE
    /\ orders = [o \in OrderId |-> NoIBOrder]
    /\ crashes = 0 /\ drops = 0

-----------------------------------------------------------------------------
(* The main thread.                                                        *)

StatusOf(e) == records[e].status

\* reserve_execution: refused if the event is in the ledger or in the guard.
ReserveExecution(e) ==
    /\ up /\ main = MainIdle
    /\ e \notin guard
    /\ Ledger!Reserve(e)
    /\ guard' = guard \cup {e}
    /\ UNCHANGED <<execIds, main, net, killed, up, linked, orders, wire, budget>>

\* What IBOrderIds provides: an id no record and no IB order carries.
Fresh(o) ==
    /\ \A e \in EventId : records[e].oid # o
    /\ orders[o].state = "None"

\* Readiness passes (IBTradingReadiness.require_ready), an id is allocated,
\* and submit_reserved finds the reservation, restores the guard after a
\* restart and builds the order.  If the factory raises, the reservation is
\* to be rejected before anything reached IB.
BeginSubmit(e, o) ==
    /\ up /\ main = MainIdle /\ linked /\ ~ killed
    /\ StatusOf(e) = "Reserved"
    /\ Fresh(o)
    /\ guard' = guard \cup {e}
    /\ \E s \in {"Submitted", "Rejected"} :
          main' = [step |-> "built", e |-> e, o |-> o, to |-> s]
    /\ UNCHANGED <<durable, net, killed, up, linked, orders, wire, budget>>

\* Faulty variant: the order goes out before the ledger is written.
PlaceUnmarked ==
    /\ up /\ main.step = "built"
    /\ main.to = "Submitted"
    /\ main' = [main EXCEPT !.step = "marked"]
    /\ UNCHANGED <<durable, net, process, orders, wire, budget>>

\* mark_submitted or mark_rejected: the check of transition ...
CheckSubmission ==
    /\ up /\ main.step = "built"
    /\ main.to \in Ledger!Allowed(StatusOf(main.e))
    /\ main' = [main EXCEPT !.step = "checked"]
    /\ UNCHANGED <<durable, net, process, orders, wire, budget>>

\* Faulty variant: the order id is not recorded with the status.
WriteSubmissionWithoutId ==
    /\ up /\ main.step = "checked"
    /\ Len(history[main.e]) < MaxHistory
    /\ Ledger!Write(main.e, main.to, Ledger!NoOrder)
    /\ main' = IF main.to = "Submitted" THEN [main EXCEPT !.step = "marked"] ELSE MainIdle
    /\ UNCHANGED <<execIds, net, process, orders, wire, budget>>

\* ... and its write, which commits the intent to submit before IB is called.
WriteSubmission ==
    /\ up /\ main.step = "checked"
    /\ Len(history[main.e]) < MaxHistory
    /\ IF main.to = "Submitted"
       THEN /\ Ledger!Write(main.e, "Submitted", main.o)
            /\ main' = [main EXCEPT !.step = "marked"]
       ELSE /\ Ledger!Write(main.e, main.to, Ledger!NoOrder)
            /\ main' = MainIdle
    /\ UNCHANGED <<execIds, net, process, orders, wire, budget>>

\* placeOrder.  Without a connection ibapi reports error 504, which is
\* critical: the kill switch activates and the order goes nowhere.
PlaceOrder ==
    /\ up /\ main.step = "marked"
    /\ main' = [main EXCEPT !.step = "waiting"]
    /\ IF linked
       THEN /\ orders' = [orders EXCEPT ![main.o] =
                    [e |-> main.e, filled |-> 0, state |-> "Working"]]
            /\ killed' = killed
       ELSE /\ orders' = orders
            /\ killed' = TRUE
    /\ UNCHANGED <<durable, net, guard, up, linked, wire, budget>>

\* wait_for_execution_resolution returns on a terminal record, or gives up
\* at its deadline; the ledger decides what may happen next.
StopWaiting ==
    /\ up /\ main.step = "waiting"
    /\ main' = MainIdle
    /\ UNCHANGED <<durable, net, process, orders, wire, budget>>

-----------------------------------------------------------------------------
(* The network thread.                                                     *)

\* _find_record_by_broker_order_id; a callback about an order BTS has no
\* record of is dropped (KeyError).
Owner(o) == {e \in EventId : records[e].oid = o}

\* Faulty variant: a fill is taken for the last one.
DesiredStatusAnyFill(m) ==
    CASE m.kind = "Cancelled" -> "Cancelled"
      [] m.kind = "Filled" \/ m.filled > 0 -> "Filled"
      [] OTHER -> "Acknowledged"

\* _determine_execution_status.
DesiredStatus(m) ==
    CASE m.kind = "Filled" -> "Filled"
      [] m.kind = "Cancelled" -> "Cancelled"
      [] m.kind = "Submitted" /\ 0 < m.filled /\ m.filled < Quantity
            -> "PartiallyFilled"
      [] OTHER -> "Acknowledged"

Rank(s) ==
    CASE s = "Reserved" -> 0 [] s = "Submitted" -> 1 [] s = "Acknowledged" -> 2
      [] s = "PartiallyFilled" -> 3 [] OTHER -> 4

\* _is_stale_or_regressive.
StaleOrRegressive(current, desired) ==
    \/ current \in {"Cancelled", "Rejected"}
    \/ desired # "Cancelled" /\ Rank(desired) < Rank(current)

\* Faulty variants: code 202, a cancellation, counts as a rejection; code 201
\* is not handled.
StatusWrites202Rejects(m, current) ==
    CASE m.kind \in {"Submitted", "Filled", "Cancelled"} ->
            {DesiredStatus(m)} \ {s \in Ledger!Status :
                s = current \/ StaleOrRegressive(current, s)}
      [] m.kind \in {"Error201", "Error202"} ->
            IF current \in Ledger!Terminal THEN {} ELSE {"Rejected"}
      [] OTHER -> {}
StatusWritesWithout201(m, current) ==
    CASE m.kind \in {"Submitted", "Filled", "Cancelled"} ->
            {DesiredStatus(m)} \ {s \in Ledger!Status :
                s = current \/ StaleOrRegressive(current, s)}
      [] m.kind = "Error202" -> IF current \in Ledger!Terminal THEN {} ELSE {"Cancelled"}
      [] OTHER -> {}

\* The status an orderStatus or error callback will write, given what the
\* thread read; none for a duplicate, a stale or a late one.
StatusWrites(m, current) ==
    CASE m.kind \in {"Submitted", "Filled", "Cancelled"} ->
            {DesiredStatus(m)} \ {s \in Ledger!Status :
                s = current \/ StaleOrRegressive(current, s)}
      [] m.kind = "Error201" -> IF current \in Ledger!Terminal THEN {} ELSE {"Rejected"}
      [] m.kind = "Error202" -> IF current \in Ledger!Terminal THEN {} ELSE {"Cancelled"}
      [] OTHER -> {}

\* handle_order_status, _handle_order_rejection and
\* _handle_order_cancellation up to the check inside transition.
ReceiveStatus(m) ==
    /\ up /\ linked /\ net = NetIdle /\ m \in wire
    /\ \E e \in Owner(m.o) : \E s \in StatusWrites(m, StatusOf(e)) :
          /\ s \in Ledger!Allowed(StatusOf(e))
          /\ net' = [step |-> "write", e |-> e, to |-> s, x |-> NoExec]
    /\ UNCHANGED <<durable, main, process, orders, wire, budget>>

\* Faulty variant: the id is recorded and the status left to later callbacks.
ReceiveExecutionIdFirst(m) ==
    /\ up /\ linked /\ net = NetIdle /\ m \in wire
    /\ m.kind = "Exec" /\ <<m.o, m.filled>> \notin execIds
    /\ \E e \in Owner(m.o) :
          net' = [step |-> "record", e |-> e, to |-> "Filled", x |-> <<m.o, m.filled>>]
    /\ UNCHANGED <<durable, main, process, orders, wire, budget>>

\* handle_execution up to the check inside transition: a known exec id
\* changes nothing, the cumulative quantity decides the status.
ReceiveExecution(m) ==
    /\ up /\ linked /\ net = NetIdle /\ m \in wire
    /\ m.kind = "Exec" /\ <<m.o, m.filled>> \notin execIds
    /\ \E e \in Owner(m.o) :
          LET s == IF m.filled = Quantity THEN "Filled" ELSE "PartiallyFilled"
              record == StatusOf(e) \in {"Filled", s}
          IN  /\ StatusOf(e) \notin {"Cancelled", "Rejected"}
              /\ net' = [step |-> IF record THEN "record" ELSE "write",
                         e |-> e, to |-> s, x |-> <<m.o, m.filled>>]
    /\ UNCHANGED <<durable, main, process, orders, wire, budget>>

\* A callback the handlers refuse: an execution for an order the ledger has
\* as cancelled or rejected, or a status the transition table forbids.  The
\* exception leaves the callback and ends the network loop.
Refused(m) ==
    \E e \in Owner(m.o) :
        \/ /\ m.kind = "Exec" /\ <<m.o, m.filled>> \notin execIds
           /\ StatusOf(e) \in {"Cancelled", "Rejected"}
        \/ \E s \in StatusWrites(m, StatusOf(e)) :
              s \notin Ledger!Allowed(StatusOf(e))

CallbackRaises(m) ==
    /\ up /\ linked /\ net = NetIdle /\ m \in wire
    /\ Refused(m)
    /\ linked' = FALSE
    /\ wire' = {}
    /\ UNCHANGED <<durable, main, net, guard, killed, up, orders, budget>>

\* Faulty variant: the UPDATE without its audit row.
WriteStatusUnaudited ==
    /\ up /\ net.step = "write"
    /\ records' = [records EXCEPT ![net.e] = [status |-> net.to, oid |-> @.oid]]
    /\ net' = IF net.x = NoExec THEN NetIdle ELSE [net EXCEPT !.step = "record"]
    /\ UNCHANGED <<history, execIds, main, process, orders, wire, budget>>

\* The write of the transition, with the status the check saw forgotten: the
\* UPDATE has no condition on the current status.
WriteStatus ==
    /\ up /\ net.step = "write"
    /\ Len(history[net.e]) < MaxHistory
    /\ Ledger!Write(net.e, net.to, Ledger!NoOrder)
    /\ net' = IF net.x = NoExec THEN NetIdle ELSE [net EXCEPT !.step = "record"]
    /\ UNCHANGED <<execIds, main, process, orders, wire, budget>>

\* Faulty variant: the id is keyed by the event.
RecordExecutionIdByEvent ==
    /\ up /\ net.step = "record"
    /\ execIds' = execIds \cup {<<net.e, net.x[2]>>}
    /\ net' = NetIdle
    /\ UNCHANGED <<records, history, main, process, orders, wire, budget>>

\* _record_execution_id, a transaction of its own.
RecordExecutionId ==
    /\ up /\ net.step = "record"
    /\ execIds' = execIds \cup {net.x}
    /\ net' = NetIdle
    /\ UNCHANGED <<records, history, main, process, orders, wire, budget>>

\* A critical IB error activates the kill switch, which nothing resets.
CriticalError ==
    /\ up /\ linked /\ net = NetIdle /\ ~ killed
    /\ killed' = TRUE
    /\ UNCHANGED <<durable, main, net, guard, up, linked, orders, wire, budget>>

-----------------------------------------------------------------------------
(* External: IB, the connection and the process.                           *)

Send(ms) == wire' = IF linked THEN wire \cup ms ELSE wire

Msg(kind, o, n) == [kind |-> kind, o |-> o, filled |-> n]

BrokerAccepts(o) ==
    /\ orders[o].state = "Working"
    /\ Msg("Submitted", o, 0) \notin wire
    /\ linked /\ Send({Msg("Submitted", o, 0)})
    /\ UNCHANGED <<durable, main, net, process, orders, budget>>

BrokerFills(o) ==
    /\ orders[o].state = "Working"
    /\ LET n == orders[o].filled + 1
           done == n = Quantity
       IN  /\ orders' = [orders EXCEPT ![o] = [e |-> @.e, filled |-> n,
                              state |-> IF done THEN "Filled" ELSE "Working"]]
           /\ Send({Msg("Exec", o, n),
                    Msg(IF done THEN "Filled" ELSE "Submitted", o, n)})
    /\ UNCHANGED <<durable, main, net, process, budget>>

BrokerCancels(o) ==
    /\ orders[o].state = "Working"
    /\ orders' = [orders EXCEPT ![o].state = "Cancelled"]
    /\ Send({Msg("Cancelled", o, orders[o].filled), Msg("Error202", o, 0)})
    /\ UNCHANGED <<durable, main, net, process, budget>>

BrokerRejects(o) ==
    /\ orders[o].state = "Working" /\ orders[o].filled = 0
    /\ orders' = [orders EXCEPT ![o].state = "Rejected"]
    /\ Send({Msg("Error201", o, 0)})
    /\ UNCHANGED <<durable, main, net, process, budget>>

Disconnect ==
    /\ up /\ linked /\ drops < MaxDrops
    /\ drops' = drops + 1
    /\ linked' = FALSE
    /\ wire' = {}
    /\ UNCHANGED <<durable, main, net, guard, killed, up, orders, crashes>>

\* On a new connection IB reports the working orders of the client again; the
\* executions of the gap are never asked for.
Reconnect ==
    /\ up /\ ~ linked /\ net = NetIdle
    /\ main.step \in {"idle", "waiting"}
    /\ linked' = TRUE
    /\ wire' = {Msg("Submitted", o, orders[o].filled) :
                    o \in {w \in OrderId : orders[w].state = "Working"}}
    /\ UNCHANGED <<durable, main, net, guard, killed, up, orders, budget>>

Crash ==
    /\ up /\ crashes < MaxCrashes
    /\ crashes' = crashes + 1
    /\ up' = FALSE /\ linked' = FALSE /\ killed' = FALSE
    /\ guard' = {} /\ wire' = {}
    /\ main' = MainIdle /\ net' = NetIdle
    /\ UNCHANGED <<durable, orders, drops>>

Restart ==
    /\ ~ up
    /\ up' = TRUE
    /\ UNCHANGED <<durable, main, net, guard, killed, linked, orders, wire, budget>>

-----------------------------------------------------------------------------
Main ==
    \/ \E e \in EventId : ReserveExecution(e)
    \/ \E e \in EventId, o \in OrderId : BeginSubmit(e, o)
    \/ CheckSubmission \/ WriteSubmission \/ PlaceOrder \/ StopWaiting

Network ==
    \/ \E m \in wire : ReceiveStatus(m) \/ ReceiveExecution(m) \/ CallbackRaises(m)
    \/ WriteStatus \/ RecordExecutionId \/ CriticalError

Broker == \E o \in OrderId :
    BrokerAccepts(o) \/ BrokerFills(o) \/ BrokerCancels(o) \/ BrokerRejects(o)

Next ==
    \/ Main \/ Network \/ Broker
    \/ Disconnect \/ Reconnect \/ Crash \/ Restart

Spec == Init /\ [][Next]_vars

-----------------------------------------------------------------------------
\* BTS never creates a second broker order for an event, across crashes,
\* restarts that submit a surviving reservation, and resubmissions.
OneOrderPerEvent ==
    \A o, p \in OrderId :
        orders[o].e # NoEvent /\ orders[o].e = orders[p].e => o = p

\* Every order IB holds is in the ledger, past the reservation and under
\* its id: an order is never placed that a restart would not know about.
SubmittedBeforeBroker ==
    \A o \in OrderId : orders[o].e # NoEvent =>
        /\ records[orders[o].e].oid = o
        /\ StatusOf(orders[o].e) \notin {Ledger!Unknown, "Reserved"}

\* The ledger never runs ahead of IB or contradicts it: a final status is
\* IB's final status, and a fill in the ledger is a fill at IB, whatever
\* callbacks were lost, repeated or overtaken.
LedgerFollowsBroker ==
    \A e \in EventId :
        LET b == IF records[e].oid \in OrderId THEN orders[records[e].oid] ELSE NoIBOrder
        IN  /\ StatusOf(e) = "Filled" => b.state = "Filled" /\ b.filled = Quantity
            /\ StatusOf(e) = "Cancelled" => b.state = "Cancelled"
            /\ StatusOf(e) = "Rejected" => b.state \in {"None", "Rejected"}
            /\ StatusOf(e) = "PartiallyFilled" => b.filled > 0
            /\ StatusOf(e) \notin {Ledger!Unknown, "Reserved", "Submitted", "Rejected"}
                  => b.e = e

\* An execution id is recorded only after the ledger shows the fill it
\* stands for, so that a crash in between repeats the callback and does not
\* lose it.
ExecIdsAreBacked ==
    \A x \in execIds : \E e \in Owner(x[1]) :
        /\ orders[x[1]].filled >= x[2]
        /\ \E i \in 1 .. Len(history[e]) :
              history[e][i] \in IF x[2] = Quantity THEN {"Filled"}
                                ELSE {"PartiallyFilled", "Filled"}

\* Although a transition checks and writes in separate connections, the
\* two threads together implement the ledger whose transitions are atomic.
ImplementsLedger == Ledger!Spec

-----------------------------------------------------------------------------
\* Liveness: both threads keep running, IB delivers what it sent and brings
\* every order to an end.  Nothing is assumed of the order of delivery, of the
\* main thread's wait, or of crashes, lost connections and restarts.
Deliver == \E m \in wire : ReceiveStatus(m) \/ ReceiveExecution(m)

FairSpec ==
    /\ Spec
    /\ WF_vars(CheckSubmission) /\ WF_vars(WriteSubmission) /\ WF_vars(PlaceOrder)
    /\ WF_vars(Deliver) /\ WF_vars(WriteStatus) /\ WF_vars(RecordExecutionId)
    /\ \A o \in OrderId :
          WF_vars(BrokerFills(o) \/ BrokerCancels(o) \/ BrokerRejects(o))

\* A submitted order reaches a terminal status in the ledger, as long as no
\* crash and no lost connection takes callbacks with it: those are not asked
\* for again.
Interrupted == crashes + drops > 0

SubmissionsResolve ==
    \A e \in EventId :
        StatusOf(e) = "Submitted" ~> StatusOf(e) \in Ledger!Terminal \/ Interrupted

=============================================================================
