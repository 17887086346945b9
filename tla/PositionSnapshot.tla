-------------------------- MODULE PositionSnapshot --------------------------
(***************************************************************************)
(* How the runner learns the MBT position at IB: refresh_position_snapshot *)
(* on the main thread, the callbacks position and positionEnd on the IB    *)
(* network thread (app/ib_api_position_app.py, app/ib_position_transport   *)
(* .py), and the snapshot both write (app/ib_broker_client.py).            *)
(*                                                                         *)
(* reqPositions is a subscription: IB answers with the rows and an end     *)
(* mark, then sends a row at every change until it is cancelled.  Neither  *)
(* rows nor end marks say which request they belong to.  Requests and      *)
(* callbacks travel in order.  Each method of IBBrokerClient is one step;  *)
(* the accesses to position_request_active around them are steps of their  *)
(* own.  IB and the socket are external.                                   *)
(***************************************************************************)
EXTENDS Integers, Sequences

CONSTANTS
    MaxRefreshes,  \* bound: calls of refresh_position_snapshot
    MaxChanges,    \* bound: changes of the position
    MaxTimeouts,   \* bound: refreshes that give up
    MaxDrops       \* bound: connections lost by other causes than a callback

ASSUME BoundsAssumption ==
    /\ MaxRefreshes \in Nat
    /\ MaxChanges \in Nat
    /\ MaxTimeouts \in Nat
    /\ MaxDrops \in Nat

VARIABLES
    main,        \* the main thread inside refresh_position_snapshot
    net,         \* the network thread: idle, or inside positionEnd
    active,      \* _position_request_active
    inProgress, complete,  \* the snapshot's flags
    total,       \* the sum of its rows, all get_mbt_position reads of them
    linked,      \* the connection is ready
    toIB, wire,  \* external: requests and callbacks on the way
    subscribed,  \* external: IB sends position updates
    pos,         \* external: the position
    since, held, \* history: positions since the refresh began, and ever
    refreshes, changes, timeouts, drops

account  == <<pos, since, held>>
snapshot == <<inProgress, complete, total>>
external == <<linked, toIB, wire, subscribed, account>>
budget   == <<refreshes, changes, timeouts, drops>>
vars     == <<main, net, active, snapshot, external, budget>>

\* Short, flat or long: a contract in either direction.
Position == -1 .. 1
Row(p) == [kind |-> "row", quantity |-> p]
End    == [kind |-> "end"]
Callback == [kind : {"row"}, quantity : Position] \cup {End}

FlagsOK ==
    /\ active \in BOOLEAN /\ linked \in BOOLEAN /\ subscribed \in BOOLEAN
    /\ inProgress \in BOOLEAN /\ complete \in BOOLEAN

\* A completed snapshot is no longer in progress.
NotBoth == ~ (inProgress /\ complete)

TypeOK ==
    /\ main \in {"idle", "cancelling", "ready", "begun", "active", "waiting", "read"}
    /\ net \in {"idle", "finished", "cancelling"}
    /\ FlagsOK /\ NotBoth
    /\ total \in Int
    /\ toIB \in Seq({"req", "cancel"})
    /\ wire \in Seq(Callback)
    /\ pos \in Position
    /\ since \subseteq Position /\ held \subseteq Position
    /\ refreshes \in 0 .. MaxRefreshes
    /\ changes \in 0 .. MaxChanges
    /\ timeouts \in 0 .. MaxTimeouts
    /\ drops \in 0 .. MaxDrops

Init ==
    /\ main = "idle" /\ net = "idle" /\ active = FALSE
    /\ inProgress = FALSE /\ complete = FALSE /\ total = 0
    /\ linked = TRUE /\ toIB = <<>> /\ wire = <<>> /\ subscribed = FALSE
    /\ pos \in Position /\ since = {} /\ held = {pos}
    /\ refreshes = 0 /\ changes = 0 /\ timeouts = 0 /\ drops = 0

-----------------------------------------------------------------------------
(* The main thread.                                                        *)

Send(m) == toIB' = IF linked THEN Append(toIB, m) ELSE toIB

\* A subscription that is still active is cancelled first.
Refresh ==
    /\ main \in {"idle", "read"}
    /\ refreshes < MaxRefreshes
    /\ refreshes' = refreshes + 1
    /\ IF active THEN main' = "cancelling" /\ Send("cancel")
       ELSE main' = "ready" /\ toIB' = toIB
    /\ since' = {pos}
    /\ UNCHANGED <<net, active, snapshot, linked, wire, subscribed, pos, held, changes,
                   timeouts, drops>>

Cancelled ==
    /\ main = "cancelling"
    /\ main' = "ready"
    /\ active' = FALSE
    /\ UNCHANGED <<net, snapshot, external, budget>>

\* Without a connection the request is refused.
RefreshRaises ==
    /\ main = "ready" /\ ~ linked
    /\ main' = "idle"
    /\ UNCHANGED <<net, active, snapshot, external, budget>>

\* Faulty variant: the snapshot before still counts as complete.
BeginSnapshotComplete ==
    /\ main = "ready" /\ linked /\ ~ active
    /\ main' = "begun"
    /\ inProgress' = TRUE /\ total' = 0
    /\ UNCHANGED <<net, active, complete, external, budget>>

BeginSnapshot ==
    /\ main = "ready" /\ linked /\ ~ active
    /\ main' = "begun"
    /\ inProgress' = TRUE /\ complete' = FALSE /\ total' = 0
    /\ UNCHANGED <<net, active, external, budget>>

SetActive ==
    /\ main = "begun"
    /\ main' = "active"
    /\ active' = TRUE
    /\ UNCHANGED <<net, snapshot, external, budget>>

RequestPositions ==
    /\ main = "active"
    /\ main' = "waiting"
    /\ Send("req")
    /\ UNCHANGED <<net, active, snapshot, linked, wire, subscribed, account, budget>>

\* wait_until returns, and the caller reads the rows, or it gives up.
Read ==
    /\ main = "waiting" /\ complete
    /\ main' = "read"
    /\ UNCHANGED <<net, active, snapshot, external, budget>>

TimesOut ==
    /\ main = "waiting" /\ ~ complete
    /\ timeouts < MaxTimeouts
    /\ timeouts' = timeouts + 1
    /\ main' = "idle"
    /\ UNCHANGED <<net, active, snapshot, external, refreshes, changes, drops>>

\* recover_ib_connection, between two refreshes.
Reconnect ==
    /\ main \in {"idle", "read"} /\ net = "idle" /\ ~ linked
    /\ linked' = TRUE
    /\ UNCHANGED <<main, net, active, snapshot, toIB, wire, subscribed, account, budget>>

-----------------------------------------------------------------------------
(* The network thread.                                                     *)

Deliver(kind) ==
    /\ net = "idle" /\ linked
    /\ wire # <<>> /\ Head(wire).kind = kind

\* connectionClosed, which an exception in a callback leads to as well.
CloseConnection ==
    /\ active' = FALSE
    /\ linked' = FALSE /\ toIB' = <<>> /\ wire' = <<>> /\ subscribed' = FALSE

\* Faulty variant: rows are taken at any time.
ReceivePositionAnytime ==
    /\ Deliver("row")
    /\ total' = total + Head(wire).quantity
    /\ wire' = Tail(wire)
    /\ UNCHANGED <<main, net, active, inProgress, complete, linked, toIB, subscribed,
                   account, budget>>

ReceivePosition ==
    /\ Deliver("row") /\ inProgress
    /\ total' = total + Head(wire).quantity
    /\ wire' = Tail(wire)
    /\ UNCHANGED <<main, net, active, inProgress, complete, linked, toIB, subscribed,
                   account, budget>>

FinishSnapshot ==
    /\ Deliver("end") /\ inProgress
    /\ inProgress' = FALSE /\ complete' = TRUE
    /\ wire' = Tail(wire)
    /\ net' = "finished"
    /\ UNCHANGED <<main, active, total, linked, toIB, subscribed, account, budget>>

\* A row or an end mark outside a snapshot raises, which ends the network loop.
CallbackRaises ==
    /\ Deliver("row") \/ Deliver("end")
    /\ ~ inProgress
    /\ CloseConnection
    /\ UNCHANGED <<main, net, snapshot, account, budget>>

\* positionEnd then cancels whatever subscription is active.
PositionEndCancels ==
    /\ net = "finished"
    /\ IF active THEN net' = "cancelling" /\ Send("cancel")
       ELSE net' = "idle" /\ toIB' = toIB
    /\ UNCHANGED <<main, active, snapshot, linked, wire, subscribed, account, budget>>

PositionEndReturns ==
    /\ net = "cancelling"
    /\ net' = "idle"
    /\ active' = FALSE
    /\ UNCHANGED <<main, snapshot, external, budget>>

-----------------------------------------------------------------------------
(* External: IB and the socket.                                            *)

Rows == IF pos = 0 THEN <<>> ELSE <<Row(pos)>>

IBAnswers ==
    /\ toIB # <<>> /\ Head(toIB) = "req"
    /\ toIB' = Tail(toIB)
    /\ wire' = wire \o Append(Rows, End)
    /\ subscribed' = TRUE
    /\ UNCHANGED <<main, net, active, snapshot, linked, account, budget>>

IBCancels ==
    /\ toIB # <<>> /\ Head(toIB) = "cancel"
    /\ toIB' = Tail(toIB)
    /\ subscribed' = FALSE
    /\ UNCHANGED <<main, net, active, snapshot, linked, wire, account, budget>>

\* A request cancelled at once may be left without an answer.
IBSkips ==
    /\ Len(toIB) >= 2 /\ toIB[1] = "req" /\ toIB[2] = "cancel"
    /\ toIB' = Tail(Tail(toIB))
    /\ subscribed' = FALSE
    /\ UNCHANGED <<main, net, active, snapshot, linked, wire, account, budget>>

PositionChanges ==
    /\ changes < MaxChanges
    /\ changes' = changes + 1
    /\ pos' \in {pos - 1, pos + 1} \cap Position
    /\ since' = since \cup {pos'} /\ held' = held \cup {pos'}
    /\ wire' = IF subscribed THEN Append(wire, Row(pos')) ELSE wire
    /\ UNCHANGED <<main, net, active, snapshot, linked, toIB, subscribed, refreshes,
                   timeouts, drops>>

Disconnect ==
    /\ linked /\ net = "idle"
    /\ drops < MaxDrops
    /\ drops' = drops + 1
    /\ CloseConnection
    /\ UNCHANGED <<main, net, snapshot, account, refreshes, changes, timeouts>>

Next ==
    \/ Refresh \/ Cancelled \/ RefreshRaises \/ BeginSnapshot \/ SetActive
    \/ RequestPositions \/ Read \/ TimesOut \/ Reconnect
    \/ ReceivePosition \/ FinishSnapshot \/ CallbackRaises
    \/ PositionEndCancels \/ PositionEndReturns
    \/ IBAnswers \/ IBCancels \/ IBSkips \/ PositionChanges \/ Disconnect

Spec == Init /\ [][Next]_vars

-----------------------------------------------------------------------------
\* When the runner reads that it is flat, it was flat at some time since it
\* asked: neither an old snapshot, nor an answer cut short, nor a lost
\* connection looks like a flat account.  Two cases are excepted, and lost:
\* after a refresh that timed out, the late end mark of its request completes
\* the next one; and a late row of a short position and a row of a long one,
\* in one snapshot, cancel out.
FlatIsReal ==
    main = "read" /\ total = 0 /\ timeouts = 0 /\ ~ ({-1, 1} \subseteq held) => 0 \in since

\* The rows of a completed snapshot do not change under the runner, although
\* the subscription may go on sending updates while it reads.
StableWhenComplete == [][complete /\ complete' => total' = total]_vars

=============================================================================
