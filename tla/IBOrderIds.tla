----------------------------- MODULE IBOrderIds -----------------------------
(***************************************************************************)
(* Broker order ids: the allocator of app/ib_order_id_allocator.py, the    *)
(* two network-thread callbacks that feed it (nextValidId and openOrder in *)
(* app/ib_api_position_app.py), and the main thread of the runner, which   *)
(* waits for the handshake, raises the allocator above every durable id,   *)
(* and allocates.                                                          *)
(*                                                                         *)
(* nextValidId makes two calls: it first records the handshake as ready    *)
(* and then initializes the allocator.  The main thread polls the first,   *)
(* so it can run between the two.  It gives up on a network thread whose   *)
(* handshake times out without joining it, and joins one of a lost         *)
(* connection only for a time: the old thread may still be inside          *)
(* nextValidId when the next connection is up, and finishes it then.       *)
(* A process whose start fails, or that crashes, keeps only the ledger.    *)
(* IB's own id sequence is external; an operator may reset it ("Reset API  *)
(* order ID sequence"), at most MaxResets times.                           *)
(***************************************************************************)
EXTENDS Integers

CONSTANTS
    MaxOrderId,   \* bound: the largest order id
    MaxCrashes,   \* bound: crashes of BTS
    MaxDrops,     \* bound: lost or abandoned IB connections
    MaxResets     \* bound: resets of IB's id sequence

ASSUME BoundsAssumption ==
    /\ MaxOrderId \in Nat
    /\ MaxCrashes \in Nat
    /\ MaxDrops \in Nat
    /\ MaxResets \in Nat

OrderId == 0 .. MaxOrderId
NoId    == -1

Higher(a, b) == IF a >= b THEN a ELSE b

VARIABLES
    next,        \* _next_order_id; NoId until initialized
    allocated,   \* _highest_allocated_order_id
    observed,    \* _highest_observed_order_id
    apiReady,    \* IBApiReady.ready
    main,        \* what the main thread does next
    order,       \* the id the main thread holds
    started,     \* the process got past its start
    net,         \* the network thread: before, inside or past nextValidId
    offered,     \* the id that callback carries
    stale,       \* an abandoned network thread still inside nextValidId
    staleId,     \* the id that one carries (bound: one such thread at a time)
    durable,     \* the highest order id in the execution ledger
    unresolved,  \* some execution in the ledger is not terminal
    placed,      \* external: IB received the latest submission
    ibNext,      \* external: IB's next id for this client
    floored,     \* history: the durable floor reached the allocator
    crashes, drops, resets

allocator == <<next, allocated, observed>>
ledger    == <<durable, unresolved, placed>>
budget    == <<crashes, drops, resets>>
network   == <<net, offered, stale, staleId>>
vars == <<allocator, ledger, apiReady, main, order, started, network, ibNext,
          floored, budget>>

MainStep == {"down", "lost", "handshake", "floor", "refresh", "ready",
             "allocated", "marked", "waiting"}

FlagsOK ==
    /\ apiReady \in BOOLEAN
    /\ unresolved \in BOOLEAN
    /\ placed \in BOOLEAN
    /\ floored \in BOOLEAN
    /\ started \in BOOLEAN

TypeOK ==
    /\ next \in 0 .. MaxOrderId + 1 \cup {NoId}
    /\ offered \in 0 .. MaxOrderId + 1 \cup {NoId}
    /\ allocated \in OrderId \cup {NoId}
    /\ observed \in OrderId \cup {NoId}
    /\ order \in OrderId \cup {NoId}
    /\ durable \in OrderId \cup {NoId}
    /\ FlagsOK
    /\ main \in MainStep
    /\ net \in {"closed", "greeting", "initializing", "idle"}
    /\ stale \in {"none", "entered", "recorded"}
    /\ staleId \in 0 .. MaxOrderId + 1 \cup {NoId}
    /\ ibNext \in 0 .. MaxOrderId + 1
    /\ crashes \in 0 .. MaxCrashes
    /\ drops \in 0 .. MaxDrops
    /\ resets \in 0 .. MaxResets

Init ==
    /\ next = NoId /\ allocated = NoId /\ observed = NoId
    /\ apiReady = FALSE /\ floored = FALSE /\ started = FALSE
    /\ unresolved = FALSE /\ placed = FALSE
    /\ main = "down" /\ order = NoId
    /\ net = "closed" /\ offered = NoId /\ stale = "none" /\ staleId = NoId
    /\ durable = NoId /\ ibNext = 0
    /\ crashes = 0 /\ drops = 0 /\ resets = 0

-----------------------------------------------------------------------------
\* EClient.isConnected and IBConnectionManager.ready.
Linked == net # "closed"
Ready  == Linked /\ apiReady

\* IBConnectionManager.connect: stale readiness is cleared before the socket
\* opens.
Connect ==
    /\ apiReady' = FALSE
    /\ main' = "handshake"
    /\ net' = "greeting" /\ offered' = NoId
    /\ UNCHANGED <<allocator, order, started, stale, staleId, ledger, ibNext,
                   floored, budget>>

\* A fresh process connects only when every durable execution is terminal
\* (require_execution_state_clear).
Start == main = "down" /\ ~ unresolved /\ Connect

\* recover_ib_connection, with as many attempts as the network lets fail.
Reconnect == main = "lost" /\ Connect

\* nextValidId, first call: the handshake is complete.
RecordNextValidId ==
    /\ net = "greeting"
    /\ apiReady' = TRUE
    /\ net' = "initializing"
    /\ offered' = ibNext
    /\ UNCHANGED <<allocator, main, order, started, stale, staleId, ledger, ibNext,
                   floored, budget>>

\* Faulty variant: the offered id replaces the allocator's own.
AdvancedFresh(id) == id

\* initialize never moves the allocator back.
Advanced(id) == Higher(Higher(id, next), Higher(observed, allocated) + 1)

\* nextValidId, second call.
Initialize ==
    /\ net = "initializing"
    /\ next' = Advanced(offered)
    /\ net' = "idle"
    /\ offered' = NoId
    /\ UNCHANGED <<allocated, observed, apiReady, main, order, started, stale, staleId,
                   ledger, ibNext, floored, budget>>

\* The two calls of an abandoned thread.
StaleRecords ==
    /\ stale = "entered"
    /\ apiReady' = TRUE
    /\ stale' = "recorded"
    /\ UNCHANGED <<allocator, main, order, started, net, offered, staleId, ledger, ibNext,
                   floored, budget>>

StaleInitializes ==
    /\ stale = "recorded"
    /\ next' = Advanced(staleId)
    /\ stale' = "none" /\ staleId' = NoId
    /\ UNCHANGED <<allocated, observed, apiReady, main, order, started, net, offered,
                   ledger, ibNext, floored, budget>>

\* openOrder, orderStatus and execDetails: observe_order_id, for any order IB
\* knows under this client, ours or not.
ObserveOrderId(o) ==
    /\ net = "idle"
    /\ o < ibNext
    /\ observed' = Higher(observed, o)
    /\ next' = IF next # NoId /\ o >= next THEN o + 1 ELSE next
    /\ UNCHANGED <<allocated, apiReady, main, order, started, network, ledger, ibNext, floored, budget>>

\* _wait_until_ready returns once the handshake is ready, whosever it is.
HandshakeReady ==
    /\ main = "handshake" /\ Ready
    /\ main' = "floor"
    /\ UNCHANGED <<allocator, apiReady, order, started, network, ledger, ibNext, floored, budget>>

\* Faulty variants: the floor is the highest durable id itself, or one too many.
ApplyFloorAt(above) ==
    /\ main = "floor"
    /\ next' = IF durable = NoId \/ next = NoId THEN next
               ELSE Higher(next, durable + above)
    /\ floored' = (floored \/ next # NoId)
    /\ main' = "refresh"
    /\ UNCHANGED <<allocated, observed, apiReady, order, started, network, ledger, ibNext, budget>>
ApplyFloorShort == ApplyFloorAt(0)
ApplyFloorLong  == ApplyFloorAt(2)

\* apply_durable_order_id_floor: ensure_minimum_next_id does nothing while the
\* allocator is not initialized.
ApplyFloor ==
    /\ main = "floor"
    /\ next' = IF durable = NoId \/ next = NoId THEN next
               ELSE Higher(next, durable + 1)
    /\ floored' = (floored \/ next # NoId)
    /\ main' = "refresh"
    /\ UNCHANGED <<allocated, observed, apiReady, order, started, network, ledger, ibNext, budget>>

\* refresh_position_snapshot: the answer is delivered by the network thread of
\* this connection, hence after its nextValidId has returned.
PositionsRefreshed ==
    /\ main = "refresh" /\ net = "idle" /\ apiReady
    /\ main' = "ready" /\ started' = TRUE
    /\ UNCHANGED <<allocator, apiReady, order, network, ledger, ibNext, floored, budget>>

\* Faulty variant: the id stays available.
AllocateAgain ==
    /\ main = "ready" /\ apiReady /\ ~ unresolved
    /\ next \in OrderId
    /\ order' = next
    /\ allocated' = next
    /\ main' = "allocated"
    /\ UNCHANGED <<next, observed, apiReady, started, network, ledger, ibNext, floored, budget>>

\* allocate, which the runner calls only while no execution is unresolved.
Allocate ==
    /\ main = "ready" /\ apiReady /\ ~ unresolved
    /\ next \in OrderId
    /\ order' = next
    /\ allocated' = next
    /\ next' = next + 1
    /\ main' = "allocated"
    /\ UNCHANGED <<observed, apiReady, started, network, ledger, ibNext, floored, budget>>

\* mark_submitted writes the id into the ledger before IB is called.
MarkSubmitted ==
    /\ main = "allocated"
    /\ durable' = Higher(durable, order)
    /\ unresolved' = TRUE
    /\ placed' = FALSE
    /\ main' = "marked"
    /\ UNCHANGED <<allocator, apiReady, order, started, network, ibNext, floored, budget>>

\* The process and everything in its memory is gone.
EndProcess ==
    /\ next' = NoId /\ allocated' = NoId /\ observed' = NoId
    /\ apiReady' = FALSE /\ floored' = FALSE /\ started' = FALSE
    /\ main' = "down" /\ order' = NoId
    /\ net' = "closed" /\ offered' = NoId /\ stale' = "none" /\ staleId' = NoId

\* placeOrder: IB's sequence moves above the id.
PlaceOrder ==
    /\ main = "marked" /\ Linked
    /\ ibNext' = Higher(ibNext, order + 1)
    /\ placed' = TRUE
    /\ main' = "waiting" /\ order' = NoId
    /\ UNCHANGED <<allocator, apiReady, started, network, durable, unresolved, floored, budget>>

\* Without a connection it reports error 504, which activates the kill switch,
\* and that ends the process.
PlaceOrderFails ==
    /\ main = "marked" /\ ~ Linked
    /\ EndProcess
    /\ UNCHANGED <<ledger, ibNext, budget>>

\* A broker callback brings the placed order to a terminal state.
Resolve ==
    /\ unresolved /\ placed /\ net = "idle"
    /\ unresolved' = FALSE
    /\ main' = IF main = "waiting" THEN "ready" ELSE main
    /\ UNCHANGED <<allocator, apiReady, order, started, network, durable, placed, ibNext,
                   floored, budget>>

\* What disconnect and _cleanup_failed_connection leave of the network thread:
\* nothing, or the nextValidId it is in, which they wait for in vain or not at
\* all.
Abandon ==
    /\ net' = "closed" /\ offered' = NoId
    /\ \/ net # "initializing" /\ UNCHANGED <<stale, staleId>>
       \/ stale = "none" /\ net = "greeting" /\ stale' = "entered" /\ staleId' = ibNext
       \/ stale = "none" /\ net = "initializing" /\ stale' = "recorded" /\ staleId' = offered

\* connectionClosed resets readiness and keeps the allocator, so that a
\* reconnect cannot make an old id reusable.  Whatever the main thread was
\* doing fails, except a submission already on its way to placeOrder.
Disconnect ==
    /\ drops < MaxDrops
    /\ Linked /\ started
    /\ drops' = drops + 1
    /\ apiReady' = FALSE
    /\ Abandon
    /\ IF main \in {"allocated", "marked"} THEN UNCHANGED <<main, order>>
       ELSE main' = "lost" /\ order' = NoId
    /\ UNCHANGED <<allocator, started, ledger, ibNext, floored, crashes, resets>>

\* The handshake times out: disconnected, reset and the next attempt.
HandshakeTimesOut ==
    /\ drops < MaxDrops
    /\ main = "handshake" /\ ~ Ready /\ started
    /\ drops' = drops + 1
    /\ apiReady' = FALSE
    /\ Abandon
    /\ main' = "lost"
    /\ UNCHANGED <<allocator, order, started, ledger, ibNext, floored, crashes, resets>>

\* A connection that fails during the start ends the process.
StartFails ==
    /\ drops < MaxDrops
    /\ Linked /\ ~ started
    /\ drops' = drops + 1
    /\ EndProcess
    /\ UNCHANGED <<ledger, ibNext, crashes, resets>>

Crash ==
    /\ crashes < MaxCrashes
    /\ main # "down"
    /\ crashes' = crashes + 1
    /\ EndProcess
    /\ UNCHANGED <<ledger, ibNext, drops, resets>>

\* External: the operator resets IB's id sequence.
ResetIBSequence ==
    /\ resets < MaxResets
    /\ net = "closed"
    /\ resets' = resets + 1
    /\ ibNext' = 0
    /\ UNCHANGED <<allocator, apiReady, main, order, started, network, ledger, floored,
                   crashes, drops>>

Next ==
    \/ Start \/ Reconnect \/ RecordNextValidId \/ Initialize
    \/ StaleRecords \/ StaleInitializes
    \/ \E o \in OrderId : ObserveOrderId(o)
    \/ HandshakeReady \/ ApplyFloor \/ PositionsRefreshed
    \/ Allocate \/ MarkSubmitted \/ PlaceOrder \/ PlaceOrderFails \/ Resolve
    \/ Disconnect \/ HandshakeTimesOut \/ StartFails \/ Crash \/ ResetIBSequence

Spec == Init /\ [][Next]_vars

-----------------------------------------------------------------------------
\* "Keep future IB order IDs above all durable BTS broker IDs": an id about to
\* be written to the ledger is above every id already there, so a broker
\* callback finds one record and not two.
OrderIdsUnique ==
    main = "allocated" => durable < order

\* While IB's sequence is never reset, that holds even if the floor came too
\* early to reach the allocator.
UniqueUnlessReset == resets = 0 => OrderIdsUnique

\* Once the floor reached an initialized allocator, it protects every later
\* allocation of the process, whatever IB offers on a reconnect.
FloorHolds == floored => durable < next

\* The floored form of OrderIdsUnique: it holds even after a reset.
FlooredIdsUnique == floored => OrderIdsUnique

\* Within a process the allocator never hands out an id twice or moves back:
\* reconnects, smaller nextValidId values and foreign orders only raise it.
AllocatorMonotone ==
    [][/\ allocated' # NoId => allocated <= allocated'
       /\ next' # NoId => next <= next'
       /\ main' = "allocated" /\ main # "allocated" => allocated < order']_vars

\* No allocation before the allocator was initialized: allocate would raise.
\* The handshake race cannot get that far, because the position refresh waits
\* for the network thread.
AllocatesInitialized == main = "ready" => next # NoId

=============================================================================
