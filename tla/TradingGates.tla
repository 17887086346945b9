---------------------------- MODULE TradingGates ----------------------------
(***************************************************************************)
(* What stands between a trade request and an order: the settings and the  *)
(* pause of TradingControls, the kill switch, the daily loss guard, the    *)
(* risk manager and the trading readiness, in the order in which the       *)
(* runner asks them on the live entry and the live exit path.              *)
(*                                                                         *)
(* The runner's thread takes one step after another; ibapi's network       *)
(* thread activates the kill switch and reports on orders in between.  In  *)
(* the runner nobody pauses, changes the settings, resets the kill switch  *)
(* or reports profit and loss while it trades: those operations are the    *)
(* interface the gates offer to a console, and may be called at any time.  *)
(* Which events are traded, and the books they are traded for, are         *)
(* PaperTrader's; the account is traded by this process alone.             *)
(***************************************************************************)
EXTENDS Integers

CONSTANTS
    Quantity,      \* execution_config.quantity: contracts of an order, and both limits
    Sizes,         \* quantities a console may set
    MaxDailyLoss,
    Pnl            \* profits and losses that may be reported

ASSUME GatesAssumption ==
    /\ Quantity \in Nat \ {0} /\ Sizes \subseteq Nat \ {0}
    /\ MaxDailyLoss \in Nat \ {0} /\ Pnl \subseteq Int

Opening == {"BUY_TO_OPEN", "SELL_TO_OPEN"}
Closing == {"BUY_TO_CLOSE", "SELL_TO_CLOSE"}
Intent  == Opening \cup Closing
Action  == {"BUY", "SELL"}
Gate    == {"pause", "kill", "loss"}

VARIABLES
    paused,      \* TradingControls
    quantity,
    killed,      \* KillSwitch.active
    realized,    \* DailyLossGuard
    unrealized,
    tripped,
    worst,       \* history: the worst total since the guard was new or reset
    main,        \* the runner's thread: where it is, and the request it carries
    execution,   \* status of the latest execution record
    linked,      \* the IB connection is ready
    working,     \* external: contracts at IB still to be bought and sold
    answer,      \* external: the terminal status on its way to BTS
    position,    \* external: contracts held
    late,        \* history: orders placed since a gate closed that it should stop
    barred       \* history: gates that should stop the request, closed since before it

controls  == <<paused, quantity>>
lossGuard == <<realized, unrealized, tripped, worst>>
broker    == <<working, answer, position>>
past      == <<late, barred>>
gatesVars == <<controls, killed, lossGuard, main, execution, linked, broker, past>>

Step == {"down", "idle", "read", "reserved", "prepared", "judged", "ready", "waiting"}

GatesTypeOK ==
    /\ paused \in BOOLEAN /\ quantity \in Sizes \cup {Quantity}
    /\ killed \in BOOLEAN /\ tripped \in BOOLEAN /\ linked \in BOOLEAN
    /\ realized \in Int /\ unrealized \in Int /\ worst \in Int
    /\ main \in [step : Step, intent : Intent, n : Nat, seen : Int]
    /\ execution \in {"None", "Reserved", "Submitted", "Filled", "Cancelled"}
    /\ working \in [Action -> Nat]
    /\ answer \in {"None", "Filled", "Cancelled"}
    /\ position \in Int
    /\ late \in [Gate -> Nat] /\ barred \subseteq Gate

Idle == [step |-> "idle", intent |-> "BUY_TO_OPEN", n |-> 0, seen |-> 0]
Down == [Idle EXCEPT !.step = "down"]

\* The gates of a new process: TradingControls starts paused, and the runner
\* resumes it at once; the kill switch and the loss guard are not durable.
NewGates ==
    /\ paused' = FALSE /\ quantity' = Quantity
    /\ killed' = FALSE /\ tripped' = FALSE
    /\ realized' = 0 /\ unrealized' = 0 /\ worst' = 0
    /\ late' = [g \in Gate |-> 0] /\ barred' = {}

GatesInit ==
    /\ paused = TRUE /\ quantity = Quantity
    /\ killed = FALSE /\ tripped = FALSE
    /\ realized = 0 /\ unrealized = 0 /\ worst = 0
    /\ main = Down /\ execution = "None" /\ linked = FALSE
    /\ working = [a \in Action |-> 0] /\ answer = "None" /\ position = 0
    /\ late = [g \in Gate |-> 0] /\ barred = {}

Running == main.step # "down"

-----------------------------------------------------------------------------
(* The gates.                                                              *)

Closed(g) ==
    \/ g = "pause" /\ paused
    \/ g = "kill" /\ killed
    \/ g = "loss" /\ worst <= - MaxDailyLoss

\* The gates that should stop a request with intent i.
Stops(g, i) == Closed(g) /\ (g = "loss" => i \in Opening)

Begun(i)  == barred' = {g \in Gate : Stops(g, i)} /\ UNCHANGED late
Reopen(g) == late' = [late EXCEPT ![g] = 0] /\ barred' = barred \ {g}

Pause ==
    /\ Running
    /\ paused' = TRUE
    /\ UNCHANGED <<quantity, killed, lossGuard, main, execution, linked, broker, past>>

Resume ==
    /\ Running
    /\ paused' = FALSE
    /\ Reopen("pause")
    /\ UNCHANGED <<quantity, killed, lossGuard, main, execution, linked, broker>>

\* update: requests prepared before keep their quantity.
UpdateSettings(q) ==
    /\ Running
    /\ quantity' = q
    /\ UNCHANGED <<paused, killed, lossGuard, main, execution, linked, broker, past>>

\* activate, by the error handler on the network thread.
Activate ==
    /\ Running
    /\ killed' = TRUE
    /\ UNCHANGED <<controls, lossGuard, main, execution, linked, broker, past>>

ResetKillSwitch ==
    /\ Running
    /\ killed' = FALSE
    /\ Reopen("kill")
    /\ UNCHANGED <<controls, lossGuard, main, execution, linked, broker>>

\* Faulty variant: a loss made good opens the gate again.
EvaluateLimitNow == tripped' = (realized' + unrealized' <= - MaxDailyLoss)

\* _evaluate_limit: tripped for good once the total reaches the limit.
EvaluateLimit == tripped' = (tripped \/ realized' + unrealized' <= - MaxDailyLoss)

\* update_realized_pnl, update_unrealized_pnl and update_pnl: a part that is
\* not given keeps its value, and the total of the new pair is judged.
UpdatePnl(r, u) ==
    /\ Running
    /\ realized' = r /\ unrealized' = u
    /\ EvaluateLimit
    /\ worst' = IF r + u < worst THEN r + u ELSE worst
    /\ UNCHANGED <<controls, killed, main, execution, linked, broker, past>>

ResetDay ==
    /\ Running
    /\ realized' = 0 /\ unrealized' = 0 /\ tripped' = FALSE /\ worst' = 0
    /\ Reopen("loss")
    /\ UNCHANGED <<controls, killed, main, execution, linked, broker>>

-----------------------------------------------------------------------------
(* The runner's thread.                                                    *)

Unresolved == execution \in {"Reserved", "Submitted"}

\* What ends the process ends its gates with it; the order stays with IB.
Halt == main' = Down

\* Flat, or one contract position on either side.
Whole == {0, Quantity, - Quantity}

\* Starting needs a clear execution state, and a position the lifecycle can
\* agree with.
Start ==
    /\ ~ Running /\ ~ Unresolved
    /\ position \in Whole
    /\ NewGates
    /\ main' = Idle /\ linked' = TRUE
    /\ UNCHANGED <<execution, broker>>

\* Faulty variant: an entry does not ask for a clear execution state.
BeginEntryUnresolved(i) ==
    /\ main.step = "idle" /\ linked /\ position = 0
    /\ main' = [step |-> "read", intent |-> i, n |-> 0, seen |-> 0]
    /\ Begun(i)
    /\ UNCHANGED <<controls, killed, lossGuard, execution, linked, broker>>

\* A live entry: the position is refreshed, and must be flat, before the
\* event is consumed; on a position the entry is skipped.
BeginEntry(i) ==
    /\ main.step = "idle" /\ linked /\ position = 0
    /\ ~ Unresolved
    /\ main' = [step |-> "read", intent |-> i, n |-> 0, seen |-> 0]
    /\ Begun(i)
    /\ UNCHANGED <<controls, killed, lossGuard, execution, linked, broker>>

\* prepare_event: dropped while paused; the request takes the quantity set.
PrepareEntry ==
    /\ main.step = "read"
    /\ main' = IF paused THEN Idle ELSE [main EXCEPT !.step = "prepared", !.n = quantity]
    /\ UNCHANGED <<controls, killed, lossGuard, execution, linked, broker, past>>

\* A live exit is prepared and reserved first ...
PrepareExit(i) ==
    /\ main.step = "idle" /\ ~ Unresolved
    /\ ~ paused
    /\ execution' = "Reserved"
    /\ main' = [step |-> "reserved", intent |-> i, n |-> quantity, seen |-> 0]
    /\ Begun(i)
    /\ UNCHANGED <<controls, killed, lossGuard, linked, broker>>

\* ... and the position is refreshed after.
ReadPosition ==
    /\ main.step = "reserved" /\ linked
    /\ main' = [main EXCEPT !.step = "prepared", !.seen = position]
    /\ UNCHANGED <<controls, killed, lossGuard, execution, linked, broker, past>>

\* Without IB the reservation is left pending.
PostponeExit ==
    /\ main.step = "reserved" /\ ~ linked
    /\ main' = Idle
    /\ UNCHANGED <<controls, killed, lossGuard, execution, linked, broker, past>>

\* expected_ib_action and IBOrderFactory._action_for_intent.
ActionFor(i) == IF i \in {"BUY_TO_OPEN", "BUY_TO_CLOSE"} THEN "BUY" ELSE "SELL"

\* _position_delta.
Delta(i, n) == IF ActionFor(i) = "BUY" THEN n ELSE - n

ExpectedPosition(r) == IF r.intent \in Closing THEN 0 ELSE Delta(r.intent, r.n)

\* validate_trade_request_against_position.
Validated(r) ==
    /\ r.n = Quantity
    /\ r.seen = IF r.intent \in Opening THEN 0 ELSE - Delta(r.intent, Quantity)

\* Risk-reducing, and not across flat: the pause, the kill switch, the loss
\* guard and the quantity limit are not asked.
CloseApproved(r) ==
    IF r.intent = "SELL_TO_CLOSE" THEN r.seen > 0 /\ r.seen - r.n >= 0
                                  ELSE r.seen < 0 /\ r.seen + r.n <= 0

OpenApproved(r) ==
    LET projected == r.seen + Delta(r.intent, r.n)
    IN  /\ ~ killed /\ ~ tripped /\ ~ paused
        /\ r.n <= Quantity
        /\ projected <= Quantity /\ projected >= - Quantity

\* RiskManager.evaluate, and the runner's comparison of its projection.
RiskApproved(r) ==
    /\ IF r.intent \in Closing THEN CloseApproved(r) ELSE OpenApproved(r)
    /\ r.seen + Delta(r.intent, r.n) = ExpectedPosition(r)

\* A refusal by position or risk is a RuntimeError.
Judge ==
    /\ main.step = "prepared"
    /\ IF Validated(main) /\ RiskApproved(main)
       THEN main' = [main EXCEPT !.step = "judged"]
       ELSE Halt
    /\ UNCHANGED <<controls, killed, lossGuard, execution, linked, broker, past>>

\* Faulty variant: the kill switch is left to the risk manager.
ReadyUnlessPaused == ~ paused /\ linked

\* IBTradingReadiness.evaluate; reconciliation and clear executions are
\* passed as TRUE, the snapshot and the order ids follow the connection.
ReadyToTrade == ~ paused /\ ~ killed /\ linked

RequireReady ==
    /\ main.step = "judged"
    /\ IF ReadyToTrade THEN main' = [main EXCEPT !.step = "ready"] ELSE Halt
    /\ UNCHANGED <<controls, killed, lossGuard, execution, linked, broker, past>>

\* IBOrderFactory.create: the quantity is the request's, not the setting.
Order(r) == [action |-> ActionFor(r.intent), n |-> r.n]

\* submit and submit_reserved: the ledger first, then placeOrder, which
\* without a connection reports a critical error instead.
PlaceOrder ==
    /\ main.step = "ready"
    /\ main' = [main EXCEPT !.step = "waiting"]
    /\ execution' = "Submitted"
    /\ \/ /\ linked
          /\ LET o == Order(main) IN working' = [working EXCEPT ![o.action] = @ + o.n]
          /\ answer' = "None"
          /\ late' = [g \in Gate |-> IF Stops(g, main.intent) THEN late[g] + 1 ELSE late[g]]
          /\ UNCHANGED <<killed, position, barred>>
       \/ /\ ~ linked
          /\ killed' = TRUE
          /\ UNCHANGED <<broker, past>>
    /\ UNCHANGED <<controls, lossGuard, linked>>

\* The wait ends: the order is filled, and the position is as expected; or
\* the kill switch, another outcome or a wrong position ends the process.
Settle ==
    /\ main.step = "waiting" /\ (killed \/ ~ Unresolved)
    /\ main' = IF ~ killed /\ execution = "Filled" /\ position = ExpectedPosition(main)
               THEN Idle ELSE Down
    /\ UNCHANGED <<controls, killed, lossGuard, execution, linked, broker, past>>

\* TimeoutError leaves the wait and is taken for a lost Eagle connection: the
\* process goes on, with the order still working.
WaitTimesOut ==
    /\ main.step = "waiting" /\ ~ killed /\ Unresolved
    /\ main' = Idle
    /\ UNCHANGED <<controls, killed, lossGuard, execution, linked, broker, past>>

\* The event meets an unresolved execution, a refresh fails, or the process
\* dies between any two steps.
Stop ==
    /\ Running
    /\ Halt
    /\ UNCHANGED <<controls, killed, lossGuard, execution, linked, broker, past>>

-----------------------------------------------------------------------------
(* IB and the connection.                                                  *)

Outstanding == working["BUY"] + working["SELL"]

\* A terminal status reaches only a live process, over a live connection.
Heard == linked /\ Running

BrokerFills(a) ==
    /\ working[a] > 0
    /\ working' = [working EXCEPT ![a] = @ - 1]
    /\ position' = IF a = "BUY" THEN position + 1 ELSE position - 1
    /\ answer' = IF Outstanding = 1 /\ Heard THEN "Filled" ELSE answer
    /\ UNCHANGED <<controls, killed, lossGuard, main, execution, linked, past>>

BrokerCancels ==
    /\ Outstanding > 0
    /\ working' = [a \in Action |-> 0]
    /\ answer' = IF Heard THEN "Cancelled" ELSE answer
    /\ UNCHANGED <<controls, killed, lossGuard, main, execution, linked, position, past>>

\* The status callback resolves the record.
Resolve ==
    /\ Heard
    /\ answer # "None" /\ execution = "Submitted"
    /\ execution' = answer
    /\ answer' = "None"
    /\ UNCHANGED <<controls, killed, lossGuard, main, linked, working, position, past>>

\* connectionClosed: what was on its way is lost.
DropIB ==
    /\ linked
    /\ linked' = FALSE /\ answer' = "None"
    /\ UNCHANGED <<controls, killed, lossGuard, main, execution, working, position, past>>

\* recover_ib_connection requires a clear execution state, but for the exit
\* just reserved.
ReconnectIB ==
    /\ ~ linked
    /\ \/ main.step = "idle" /\ ~ Unresolved
       \/ main.step = "reserved"
    /\ linked' = TRUE
    /\ UNCHANGED <<controls, killed, lossGuard, main, execution, broker, past>>

-----------------------------------------------------------------------------
GatesNext ==
    \/ Pause \/ Resume \/ Activate \/ ResetKillSwitch \/ ResetDay
    \/ \E q \in Sizes : UpdateSettings(q)
    \/ \E r, u \in Pnl \cup {0} : UpdatePnl(r, u)
    \/ Start \/ Stop
    \/ \E i \in Opening : BeginEntry(i)
    \/ \E i \in Closing : PrepareExit(i)
    \/ PrepareEntry \/ ReadPosition \/ PostponeExit
    \/ Judge \/ RequireReady \/ PlaceOrder \/ Settle \/ WaitTimesOut
    \/ \E a \in Action : BrokerFills(a)
    \/ BrokerCancels \/ Resolve \/ DropIB \/ ReconnectIB

GatesSpec == GatesInit /\ [][GatesNext]_gatesVars

-----------------------------------------------------------------------------
\* The gates are asked before the order, not with it, each at a step of its
\* own: once trading is paused, the kill switch is active, or the day's total
\* has been at the loss limit, at most one more order that the gate should
\* stop reaches IB, until somebody reopens the gate.
AtMostOneLate == \A g \in Gate : late[g] <= 1

\* And that order was under way: none that was begun behind a closed gate
\* reaches IB before the gate is reopened, not even an exit, which the risk
\* manager lets pass, nor an entry after the loss is made good.
NoneBegunClosed ==
    [][(\E a \in Action : working'[a] > working[a]) => barred = {}]_gatesVars

\* However orders are cut short, time out, or are resolved without a callback,
\* the account never holds more than the configured quantity on either side:
\* no order is placed on top of one that may still fill.  And a filled order
\* leaves a whole position, one that a new process accepts (Start), whatever
\* quantity was set when its request was prepared.
PositionBounded ==
    /\ position \in - Quantity .. Quantity
    /\ execution = "Filled" => position \in Whole

=============================================================================
