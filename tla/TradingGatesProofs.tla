------------------------- MODULE TradingGatesProofs -------------------------
(***************************************************************************)
(* What the trading gates guarantee for every quantity, every loss limit   *)
(* and every profit and loss reported.                                     *)
(***************************************************************************)
EXTENDS TradingGates, TLAPS

-----------------------------------------------------------------------------
(* The account.                                                            *)

Carrying == {"read", "reserved", "prepared", "judged", "ready"}

\* Why the position stays bounded: what IB may still do is counted in, an
\* order that may still fill has an unresolved record, so no request is begun
\* while there is one, and the position a request was judged on is still the
\* position when its order is placed.  That order is for the whole quantity:
\* once it is filled, so is the position.
AccountInv ==
    /\ position + working["BUY"] <= Quantity
    /\ position - working["SELL"] >= - Quantity
    /\ Outstanding > 0 => execution = "Submitted"
    /\ answer # "None" => Outstanding = 0
    /\ main.step \in Carrying => Outstanding = 0
    /\ main.step \in Carrying \ {"reserved"} => main.seen = position
    /\ main.step \in {"judged", "ready"} => Validated(main)
    /\ Outstanding > 0 => position + working["BUY"] - working["SELL"] \in Whole
    /\ answer = "Filled" \/ execution = "Filled" => position \in Whole

IInv == GatesTypeOK /\ AccountInv

LEMMA InitIInv == GatesInit => IInv
<1> SUFFICES ASSUME GatesInit PROVE GatesTypeOK /\ AccountInv
  BY DEF IInv
<1>1. main \in [step : Step, intent : Intent, n : Nat, seen : Int] /\ main.step = "down"
  BY DEF GatesInit, Down, Idle, Step, Intent, Opening
<1>2. late \in [Gate -> Nat] /\ barred \subseteq Gate
  BY DEF GatesInit
<1>3. working \in [Action -> Nat] /\ Outstanding = 0
  BY DEF GatesInit, Outstanding, Action
<1>4. GatesTypeOK
  <2>1. /\ paused \in BOOLEAN /\ killed \in BOOLEAN /\ tripped \in BOOLEAN
        /\ linked \in BOOLEAN
    BY DEF GatesInit
  <2>2. realized \in Int /\ unrealized \in Int /\ worst \in Int /\ position \in Int
    BY DEF GatesInit
  <2> QED
    BY <1>1, <1>2, <1>3, <2>1, <2>2 DEF GatesInit, GatesTypeOK
<1>5. AccountInv
  BY <1>1, <1>3, GatesAssumption DEF GatesInit, AccountInv, Carrying, Action
<1> QED
  BY <1>4, <1>5

\* Every step keeps the types.
LEMMA TypeStep == GatesTypeOK /\ GatesNext => GatesTypeOK'
<1> SUFFICES ASSUME GatesTypeOK, GatesNext PROVE GatesTypeOK'
  OBVIOUS
<1> USE GatesAssumption DEF GatesTypeOK, Opening, Closing, Intent, Action, Step,
    controls, lossGuard, broker, past, Idle, Down, Halt
<1>g. {"pause", "kill", "loss"} \subseteq Gate
  BY DEF Gate
<1>1. ASSUME Pause \/ Resume \/ Activate \/ ResetKillSwitch \/ ResetDay PROVE GatesTypeOK'
  <2>1. CASE Pause
    BY <2>1 DEF Pause
  <2>2. CASE Resume
    <3>1. late' \in [Gate -> Nat] /\ barred' \subseteq Gate
      BY <1>g, <2>2 DEF Resume, Reopen
    <3>2. paused' \in BOOLEAN
      BY <2>2 DEF Resume
    <3>3. UNCHANGED <<quantity, killed, lossGuard, main, execution, linked, broker>>
      BY <2>2 DEF Resume
    <3> QED
      BY <3>1, <3>2, <3>3
  <2>3. CASE Activate
    BY <2>3 DEF Activate
  <2>4. CASE ResetKillSwitch
    <3>1. late' \in [Gate -> Nat] /\ barred' \subseteq Gate
      BY <1>g, <2>4 DEF ResetKillSwitch, Reopen
    <3>2. killed' \in BOOLEAN
      BY <2>4 DEF ResetKillSwitch
    <3>3. UNCHANGED <<controls, lossGuard, main, execution, linked, broker>>
      BY <2>4 DEF ResetKillSwitch
    <3> QED
      BY <3>1, <3>2, <3>3
  <2>5. CASE ResetDay
    <3>1. late' \in [Gate -> Nat] /\ barred' \subseteq Gate
      BY <1>g, <2>5 DEF ResetDay, Reopen
    <3>2. tripped' \in BOOLEAN /\ realized' = 0 /\ unrealized' = 0 /\ worst' = 0
      BY <2>5 DEF ResetDay
    <3>3. UNCHANGED <<controls, killed, main, execution, linked, broker>>
      BY <2>5 DEF ResetDay
    <3> QED
      BY <3>1, <3>2, <3>3
  <2> QED
    BY <1>1, <2>1, <2>2, <2>3, <2>4, <2>5
<1>2. ASSUME NEW q \in Sizes, UpdateSettings(q) PROVE GatesTypeOK'
  BY <1>2 DEF UpdateSettings
<1>3. ASSUME NEW r \in Pnl \cup {0}, NEW u \in Pnl \cup {0}, UpdatePnl(r, u)
      PROVE  GatesTypeOK'
  <2>1. r \in Int /\ u \in Int
    OBVIOUS
  <2>2. tripped' \in BOOLEAN
    BY <1>3 DEF UpdatePnl, EvaluateLimit
  <2>3. worst' \in Int
    BY <1>3, <2>1 DEF UpdatePnl
  <2> QED
    BY <1>3, <2>1, <2>2, <2>3 DEF UpdatePnl
<1>4. ASSUME Start \/ Stop PROVE GatesTypeOK'
  <2>1. CASE Start
    <3>1. late' \in [Gate -> Nat] /\ barred' \subseteq Gate
      BY <2>1 DEF Start, NewGates
    <3>2. main' \in [step : Step, intent : Intent, n : Nat, seen : Int]
      BY <2>1 DEF Start
    <3>3. paused' \in BOOLEAN /\ killed' \in BOOLEAN /\ tripped' \in BOOLEAN /\ linked' \in BOOLEAN
      BY <2>1 DEF Start, NewGates
    <3> QED
      BY <2>1, <3>1, <3>2, <3>3 DEF Start, NewGates
  <2>2. CASE Stop
    BY <2>2 DEF Stop
  <2> QED
    BY <1>4, <2>1, <2>2
<1>5. ASSUME NEW i \in Opening, BeginEntry(i) PROVE GatesTypeOK'
  <2>1. late' \in [Gate -> Nat] /\ barred' \subseteq Gate
    BY <1>5 DEF BeginEntry, Begun
  <2> QED
    BY <1>5, <2>1 DEF BeginEntry
<1>6. ASSUME NEW i \in Closing, PrepareExit(i) PROVE GatesTypeOK'
  <2>1. late' \in [Gate -> Nat] /\ barred' \subseteq Gate
    BY <1>6 DEF PrepareExit, Begun
  <2> QED
    BY <1>6, <2>1 DEF PrepareExit
<1>7. ASSUME PrepareEntry \/ ReadPosition \/ PostponeExit PROVE GatesTypeOK'
  <2>1. CASE PrepareEntry
    <3>1. CASE paused
      BY <2>1, <3>1 DEF PrepareEntry
    <3>2. CASE ~ paused
      <4>1. main' = [main EXCEPT !.step = "prepared", !.n = quantity]
        BY <2>1, <3>2 DEF PrepareEntry
      <4>2. main' \in [step : Step, intent : Intent, n : Nat, seen : Int]
        BY <4>1
      <4> QED
        BY <2>1, <4>2 DEF PrepareEntry
    <3> QED
      BY <3>1, <3>2
  <2>2. CASE ReadPosition
    BY <2>2 DEF ReadPosition
  <2>3. CASE PostponeExit
    BY <2>3 DEF PostponeExit
  <2> QED
    BY <1>7, <2>1, <2>2, <2>3
<1>8. ASSUME Judge \/ RequireReady \/ Settle \/ WaitTimesOut PROVE GatesTypeOK'
  <2>1. CASE Judge
    BY <2>1 DEF Judge
  <2>2. CASE RequireReady
    BY <2>2 DEF RequireReady
  <2>3. CASE Settle
    BY <2>3 DEF Settle
  <2>4. CASE WaitTimesOut
    BY <2>4 DEF WaitTimesOut
  <2> QED
    BY <1>8, <2>1, <2>2, <2>3, <2>4
<1>9. CASE PlaceOrder
  <2>1. late' \in [Gate -> Nat] /\ barred' \subseteq Gate
    BY <1>9 DEF PlaceOrder
  <2>2. working' \in [Action -> Nat]
    BY <1>9 DEF PlaceOrder, Order, ActionFor
  <2>3. main' \in [step : Step, intent : Intent, n : Nat, seen : Int]
    BY <1>9 DEF PlaceOrder
  <2>4. killed' \in BOOLEAN
    BY <1>9 DEF PlaceOrder
  <2> QED
    BY <1>9, <2>1, <2>2, <2>3, <2>4 DEF PlaceOrder
<1>10. ASSUME NEW a \in Action, BrokerFills(a) PROVE GatesTypeOK'
  BY <1>10 DEF BrokerFills
<1>11. ASSUME BrokerCancels \/ Resolve \/ DropIB \/ ReconnectIB PROVE GatesTypeOK'
  <2>1. CASE BrokerCancels
    <3>1. working' \in [Action -> Nat] /\ answer' \in {"None", "Filled", "Cancelled"}
      BY <2>1 DEF BrokerCancels
    <3>2. UNCHANGED <<controls, killed, lossGuard, main, execution, linked, position, past>>
      BY <2>1 DEF BrokerCancels
    <3> QED
      BY <3>1, <3>2
  <2>2. CASE Resolve
    BY <2>2 DEF Resolve
  <2>3. CASE DropIB
    <3>1. linked' \in BOOLEAN /\ answer' \in {"None", "Filled", "Cancelled"}
      BY <2>3 DEF DropIB
    <3>2. UNCHANGED <<controls, killed, lossGuard, main, execution, working, position, past>>
      BY <2>3 DEF DropIB
    <3> QED
      BY <3>1, <3>2
  <2>4. CASE ReconnectIB
    BY <2>4 DEF ReconnectIB
  <2> QED
    BY <1>11, <2>1, <2>2, <2>3, <2>4
<1> QED
  BY <1>1, <1>2, <1>3, <1>4, <1>5, <1>6, <1>7, <1>8, <1>9, <1>10, <1>11 DEF GatesNext

\* Every step keeps the account invariant.
LEMMA AccountStep == IInv /\ GatesNext => AccountInv'
<1> SUFFICES ASSUME IInv, GatesNext PROVE AccountInv'
  OBVIOUS
<1>0. GatesTypeOK'
  BY TypeStep DEF IInv
<1> USE GatesAssumption DEF IInv, GatesTypeOK, AccountInv, Outstanding, Carrying,
    Validated, Whole, Opening, Closing, Intent, Action, Step,
    controls, lossGuard, broker, past, Reopen, Begun, Idle, Down, Halt, Unresolved
<1>1. CASE Pause \/ Resume \/ Activate \/ ResetKillSwitch \/ ResetDay
  BY <1>1 DEF Pause, Resume, Activate, ResetKillSwitch, ResetDay
<1>2. ASSUME NEW q \in Sizes, UpdateSettings(q) PROVE AccountInv'
  BY <1>2 DEF UpdateSettings
<1>3. ASSUME NEW r \in Pnl \cup {0}, NEW u \in Pnl \cup {0}, UpdatePnl(r, u)
      PROVE  AccountInv'
  BY <1>3 DEF UpdatePnl
<1>4. CASE Start \/ Stop
  BY <1>4 DEF Start, Stop
<1>5. ASSUME NEW i \in Opening, BeginEntry(i) PROVE AccountInv'
  BY <1>5 DEF BeginEntry
<1>6. ASSUME NEW i \in Closing, PrepareExit(i) PROVE AccountInv'
  BY <1>6 DEF PrepareExit
<1>7. ASSUME PrepareEntry \/ ReadPosition \/ PostponeExit PROVE AccountInv'
  <2>1. CASE PrepareEntry
    <3>1. main.step = "read" /\ main'.step \in {"idle", "prepared"}
      BY <2>1 DEF PrepareEntry
    <3>2. main'.step = "prepared" => main'.seen = main.seen
      BY <2>1 DEF PrepareEntry
    <3> QED
      BY <2>1, <3>1, <3>2 DEF PrepareEntry
  <2>2. CASE ReadPosition
    BY <2>2 DEF ReadPosition
  <2>3. CASE PostponeExit
    BY <2>3 DEF PostponeExit
  <2> QED
    BY <1>7, <2>1, <2>2, <2>3
<1>8. ASSUME Judge \/ RequireReady \/ Settle \/ WaitTimesOut PROVE AccountInv'
  <2>1. CASE Judge
    <3>1. CASE Validated(main) /\ RiskApproved(main)
      <4>1. main.step = "prepared" /\ main' = [main EXCEPT !.step = "judged"]
        BY <2>1, <3>1 DEF Judge
      <4>2. Validated(main)'
        BY <3>1, <4>1 DEF Delta, ActionFor
      <4> QED
        BY <2>1, <4>1, <4>2 DEF Judge
    <3>2. CASE ~ (Validated(main) /\ RiskApproved(main))
      BY <2>1, <3>2 DEF Judge
    <3> QED
      BY <3>1, <3>2
  <2>2. CASE RequireReady
    <3>1. CASE ReadyToTrade
      <4>1. main.step = "judged" /\ main' = [main EXCEPT !.step = "ready"]
        BY <2>2, <3>1 DEF RequireReady
      <4>2. Validated(main)'
        BY <4>1 DEF Delta, ActionFor
      <4> QED
        BY <2>2, <4>1, <4>2 DEF RequireReady
    <3>2. CASE ~ ReadyToTrade
      BY <2>2, <3>2 DEF RequireReady
    <3> QED
      BY <3>1, <3>2
  <2>3. CASE Settle
    <3>1. main'.step \in {"idle", "down"}
      BY <2>3 DEF Settle
    <3> QED
      BY <2>3, <3>1 DEF Settle
  <2>4. CASE WaitTimesOut
    BY <2>4 DEF WaitTimesOut
  <2> QED
    BY <1>8, <2>1, <2>2, <2>3, <2>4
<1>9. CASE PlaceOrder
  <2>1. /\ main.step = "ready" /\ main'.step = "waiting"
        /\ execution' = "Submitted" /\ position' = position
    BY <1>9 DEF PlaceOrder
  <2>2. working["BUY"] = 0 /\ working["SELL"] = 0 /\ main.seen = position
    BY <2>1
  <2>3. main.n = Quantity /\ main.intent \in Intent
    BY <2>1
  <2>4. CASE ~ linked
    BY <1>9, <2>1, <2>4 DEF PlaceOrder
  <2>5. CASE linked
    <3>1. working' = [working EXCEPT ![ActionFor(main.intent)] = @ + main.n]
      BY <1>9, <2>5 DEF PlaceOrder, Order
    <3>2. answer' = "None"
      BY <1>9, <2>5 DEF PlaceOrder
    <3>3. CASE main.intent \in {"BUY_TO_OPEN", "BUY_TO_CLOSE"}
      <4>1. working'["BUY"] = Quantity /\ working'["SELL"] = 0
        BY <2>2, <2>3, <3>1, <3>3 DEF ActionFor
      <4>2. position \in {0, - Quantity}
        BY <2>1, <2>2, <3>3 DEF Delta, ActionFor
      <4> QED
        BY <2>1, <3>2, <4>1, <4>2
    <3>4. CASE main.intent \in {"SELL_TO_OPEN", "SELL_TO_CLOSE"}
      <4>1. working'["SELL"] = Quantity /\ working'["BUY"] = 0
        BY <2>2, <2>3, <3>1, <3>4 DEF ActionFor
      <4>2. position \in {0, Quantity}
        BY <2>1, <2>2, <3>4 DEF Delta, ActionFor
      <4> QED
        BY <2>1, <3>2, <4>1, <4>2
    <3> QED
      BY <2>3, <3>3, <3>4
  <2> QED
    BY <2>4, <2>5
<1>10. ASSUME NEW a \in Action, BrokerFills(a) PROVE AccountInv'
  BY <1>10 DEF BrokerFills
<1>11. CASE BrokerCancels \/ Resolve \/ DropIB \/ ReconnectIB
  <2>1. CASE BrokerCancels
    BY <2>1 DEF BrokerCancels
  <2>2. CASE Resolve
    BY <2>2 DEF Resolve
  <2>3. CASE DropIB
    BY <2>3 DEF DropIB
  <2>4. CASE ReconnectIB
    BY <2>4 DEF ReconnectIB
  <2> QED
    BY <1>11, <2>1, <2>2, <2>3, <2>4
<1> QED
  BY <1>1, <1>2, <1>3, <1>4, <1>5, <1>6, <1>7, <1>8, <1>9, <1>10, <1>11 DEF GatesNext

LEMMA StepIInv == IInv /\ [GatesNext]_gatesVars => IInv'
<1>1. IInv /\ GatesNext => IInv'
  BY TypeStep, AccountStep DEF IInv
<1>2. IInv /\ UNCHANGED gatesVars => IInv'
  BY DEF IInv, GatesTypeOK, AccountInv, Outstanding, Validated, Whole, gatesVars, controls,
     lossGuard, broker, past
<1> QED
  BY <1>1, <1>2

\* Type correctness of the gates, the thread and the account.
THEOREM SpecGatesTypeOK == GatesSpec => []GatesTypeOK
<1>1. IInv => GatesTypeOK
  BY DEF IInv
<1> QED
  BY <1>1, InitIInv, StepIInv, PTL DEF GatesSpec

\* For every quantity, however orders end or do not, the account stays within
\* it on both sides, and a filled order leaves a whole position.
THEOREM SpecPositionBounded == GatesSpec => []PositionBounded
<1>1. IInv => PositionBounded
  BY GatesAssumption DEF IInv, AccountInv, GatesTypeOK, PositionBounded, Action, Whole
<1> QED
  BY <1>1, InitIInv, StepIInv, PTL DEF GatesSpec

-----------------------------------------------------------------------------
(* The gates.                                                              *)

\* The request in hand is past the last check of gate g.
Cleared(g) ==
    IF g = "loss" THEN main.step \in {"judged", "ready"} /\ main.intent \in Opening
                  ELSE main.step = "ready"

\* Why one order at most is late: an order counts against a gate only while
\* the gate is closed, and no request can pass the check of a closed gate, so
\* the request that was past it is the only one left to place.  The guard has
\* tripped exactly if the worst total reached the limit.
LossInv  == tripped <=> worst <= - MaxDailyLoss
LateInv  == \A g \in Gate : late[g] = 0 \/ (late[g] = 1 /\ Closed(g) /\ ~ Cleared(g))
BeginInv == /\ \A g \in barred : Closed(g) /\ ~ Cleared(g)
            /\ main.step \in Carrying /\ "loss" \in barred => main.intent \in Opening
GateInv  == LossInv /\ LateInv /\ BeginInv

\* A step that reopens nothing and passes no check.
LEMMA KeepGates ==
    ASSUME GatesTypeOK, LateInv, BeginInv, UNCHANGED past,
           \A g \in Gate : Closed(g) => Closed(g)',
           \A g \in Gate : Cleared(g)' => Cleared(g) \/ ~ Closed(g),
           main'.step \in Carrying => main.step \in Carrying /\ main'.intent = main.intent
    PROVE  LateInv' /\ BeginInv'
BY DEF GatesTypeOK, LateInv, BeginInv, past

\* A gate that is reopened has no orders counted against it.
LEMMA ReopenGate ==
    ASSUME GatesTypeOK, LateInv, BeginInv, NEW h \in Gate, Reopen(h), UNCHANGED main,
           \A g \in Gate \ {h} : Closed(g) => Closed(g)'
    PROVE  LateInv' /\ BeginInv'
<1>1. \A g \in Gate : Cleared(g)' = Cleared(g)
  BY DEF Cleared
<1>2. LateInv'
  <2> SUFFICES ASSUME NEW g \in Gate
               PROVE  late'[g] = 0 \/ (late'[g] = 1 /\ Closed(g)' /\ ~ Cleared(g)')
    BY DEF LateInv
  <2>1. CASE g = h
    <3>1. late'[g] = 0
      BY <2>1 DEF GatesTypeOK, Reopen
    <3> QED
      BY <3>1
  <2>2. CASE g # h
    <3>1. late'[g] = late[g]
      BY <2>2 DEF GatesTypeOK, Reopen
    <3> QED
      BY <1>1, <2>2, <3>1 DEF LateInv
  <2> QED
    BY <2>1, <2>2
<1>3. BeginInv'
  BY <1>1 DEF GatesTypeOK, BeginInv, Reopen
<1> QED
  BY <1>2, <1>3

\* A request begins behind the gates that are closed.
LEMMA BeginRequest ==
    ASSUME GatesTypeOK, LateInv, NEW i \in Intent, Begun(i),
           \A g \in Gate : Closed(g)' = Closed(g),
           main'.step \in {"read", "reserved"}, main'.intent = i
    PROVE  LateInv' /\ BeginInv'
<1>1. \A g \in Gate : ~ Cleared(g)'
  BY DEF Cleared
<1>2. LateInv'
  BY <1>1 DEF LateInv, Begun
<1>3. BeginInv'
  BY <1>1 DEF BeginInv, Begun, Stops
<1> QED
  BY <1>2, <1>3

\* When an order is placed, every gate that stops it is past its check.
LEMMA ReadyIsCleared ==
    ASSUME main.step = "ready", NEW g \in Gate, Stops(g, main.intent)
    PROVE  Cleared(g)
BY DEF Stops, Cleared

\* No request that began behind a closed gate is ready.
LEMMA ReadyIsNotBarred ==
    ASSUME GatesTypeOK, BeginInv, main.step = "ready"
    PROVE  barred = {}
<1>1. ASSUME NEW g \in barred PROVE FALSE
  <2>1. g = "loss" => main.intent \in Opening
    BY <1>1 DEF BeginInv, Carrying
  <2>2. ~ Cleared(g)
    BY <1>1 DEF BeginInv
  <2> QED
    BY <2>1, <2>2 DEF Cleared
<1> QED
  BY <1>1

LEMMA InitGateInv == GatesInit => GateInv
<1> SUFFICES ASSUME GatesInit PROVE GateInv
  OBVIOUS
<1>1. main.step = "down"
  BY DEF GatesInit, Down, Idle
<1>2. LossInv
  BY GatesAssumption DEF GatesInit, LossInv
<1>3. LateInv
  <2>1. \A g \in Gate : late[g] = 0
    BY DEF GatesInit
  <2> QED
    BY <2>1 DEF LateInv
<1>4. BeginInv
  BY <1>1 DEF GatesInit, BeginInv, Carrying
<1> QED
  BY <1>2, <1>3, <1>4 DEF GateInv

\* The loss gate, by itself: only a report, a reset and a new process move it.
LEMMA LossStep == GatesTypeOK /\ LossInv /\ GatesNext => LossInv'
<1> SUFFICES ASSUME GatesTypeOK, LossInv, GatesNext PROVE LossInv'
  OBVIOUS
<1> USE GatesAssumption DEF LossInv
<1>1. ASSUME UNCHANGED lossGuard PROVE LossInv'
  BY <1>1 DEF lossGuard
<1>2. ASSUME NEW r \in Pnl \cup {0}, NEW u \in Pnl \cup {0}, UpdatePnl(r, u)
      PROVE  LossInv'
  <2>1. r \in Int /\ u \in Int /\ worst \in Int /\ MaxDailyLoss \in Int
    BY DEF GatesTypeOK
  <2>2. worst' = IF r + u < worst THEN r + u ELSE worst
    BY <1>2 DEF UpdatePnl
  <2>3. worst' <= - MaxDailyLoss <=> worst <= - MaxDailyLoss \/ r + u <= - MaxDailyLoss
    BY <2>1, <2>2
  <2>4. tripped' = (tripped \/ r + u <= - MaxDailyLoss)
    BY <1>2 DEF UpdatePnl, EvaluateLimit
  <2> QED
    BY <2>3, <2>4
<1>3. ASSUME ResetDay \/ Start PROVE LossInv'
  <2>1. tripped' = FALSE /\ worst' = 0
    BY <1>3 DEF ResetDay, Start, NewGates
  <2> QED
    BY <2>1
<1>4. CASE \/ Pause \/ Resume \/ Activate \/ ResetKillSwitch \/ Stop
           \/ \E q \in Sizes : UpdateSettings(q)
  BY <1>1, <1>4 DEF Pause, Resume, Activate, ResetKillSwitch, Stop, UpdateSettings
<1>5. CASE (\E i \in Opening : BeginEntry(i)) \/ (\E i \in Closing : PrepareExit(i))
  BY <1>1, <1>5 DEF BeginEntry, PrepareExit
<1>6. CASE PrepareEntry \/ ReadPosition \/ PostponeExit \/ Judge \/ RequireReady
           \/ PlaceOrder \/ Settle \/ WaitTimesOut
  BY <1>1, <1>6 DEF PrepareEntry, ReadPosition, PostponeExit, Judge, RequireReady,
     PlaceOrder, Settle, WaitTimesOut
<1>7. CASE \/ \E a \in Action : BrokerFills(a)
           \/ BrokerCancels \/ Resolve \/ DropIB \/ ReconnectIB
  BY <1>1, <1>7 DEF BrokerFills, BrokerCancels, Resolve, DropIB, ReconnectIB
<1> QED
  BY <1>2, <1>3, <1>4, <1>5, <1>6, <1>7 DEF GatesNext

LEMMA ClosedIs ==
    /\ Closed("pause") <=> paused
    /\ Closed("kill") <=> killed
    /\ Closed("loss") <=> worst <= - MaxDailyLoss
BY DEF Closed

\* A gate whose variables do not change stays as it is.
LEMMA SameGates ==
    ASSUME UNCHANGED <<paused, killed, worst>>
    PROVE  \A g \in Gate : Closed(g)' = Closed(g)
BY DEF Closed

\* A step that leaves the gates and their histories alone, and either leaves
\* the request where it was or ends it.
LEMMA IdleStep ==
    ASSUME GatesTypeOK, LateInv, BeginInv, UNCHANGED past,
           UNCHANGED <<paused, killed, worst>>,
           main' = main \/ main'.step \in {"down", "idle", "waiting"}
    PROVE  LateInv' /\ BeginInv'
<1>1. \A g \in Gate : Closed(g)' = Closed(g)
  BY SameGates
<1>2. \A g \in Gate : Cleared(g)' => Cleared(g)
  BY DEF Cleared
<1>3. main'.step \in Carrying => main.step \in Carrying /\ main'.intent = main.intent
  BY DEF Carrying
<1> QED
  BY <1>1, <1>2, <1>3, KeepGates

\* Every step keeps the counts and the request behind its gates.
LEMMA GateStep == GatesTypeOK /\ GateInv /\ GatesNext => LateInv' /\ BeginInv'
<1> SUFFICES ASSUME GatesTypeOK, GateInv, GatesNext PROVE LateInv' /\ BeginInv'
  OBVIOUS
<1>0. LossInv /\ LateInv /\ BeginInv
  BY DEF GateInv
<1>g. {"pause", "kill", "loss"} = Gate
  BY DEF Gate
<1>1. ASSUME Pause \/ Activate PROVE LateInv' /\ BeginInv'
  <2>1. \A g \in Gate : Closed(g) => Closed(g)'
    BY <1>1 DEF Pause, Activate, Closed, controls, lossGuard
  <2>2. UNCHANGED <<main, past>>
    BY <1>1 DEF Pause, Activate
  <2>3. \A g \in Gate : Cleared(g)' = Cleared(g)
    BY <2>2 DEF Cleared
  <2> QED
    BY <1>0, <2>1, <2>2, <2>3, KeepGates
<1>2. ASSUME NEW q \in Sizes, UpdateSettings(q) PROVE LateInv' /\ BeginInv'
  BY <1>0, <1>2, IdleStep DEF UpdateSettings, lossGuard
<1>3. ASSUME NEW r \in Pnl \cup {0}, NEW u \in Pnl \cup {0}, UpdatePnl(r, u)
      PROVE  LateInv' /\ BeginInv'
  <2>1. worst' <= worst /\ worst' \in Int /\ worst \in Int
    BY <1>3, GatesAssumption DEF UpdatePnl, GatesTypeOK
  <2>2. worst <= - MaxDailyLoss => worst' <= - MaxDailyLoss
    BY <2>1, GatesAssumption
  <2>3. UNCHANGED <<paused, killed, main, past>>
    BY <1>3 DEF UpdatePnl, controls
  <2>4. \A g \in Gate : Closed(g) => Closed(g)'
    BY <2>2, <2>3 DEF Closed
  <2>5. \A g \in Gate : Cleared(g)' = Cleared(g)
    BY <2>3 DEF Cleared
  <2> QED
    BY <1>0, <2>3, <2>4, <2>5, KeepGates
<1>4. ASSUME Resume \/ ResetKillSwitch \/ ResetDay PROVE LateInv' /\ BeginInv'
  <2>1. CASE Resume
    <3>1. \A g \in Gate \ {"pause"} : Closed(g) => Closed(g)'
      BY <2>1 DEF Resume, Closed, lossGuard
    <3>2. Reopen("pause") /\ UNCHANGED main
      BY <2>1 DEF Resume
    <3> QED
      BY <1>0, <1>g, <3>1, <3>2, ReopenGate
  <2>2. CASE ResetKillSwitch
    <3>1. \A g \in Gate \ {"kill"} : Closed(g) => Closed(g)'
      BY <2>2 DEF ResetKillSwitch, Closed, lossGuard, controls
    <3>2. Reopen("kill") /\ UNCHANGED main
      BY <2>2 DEF ResetKillSwitch
    <3> QED
      BY <1>0, <1>g, <3>1, <3>2, ReopenGate
  <2>3. CASE ResetDay
    <3>1. \A g \in Gate \ {"loss"} : Closed(g) => Closed(g)'
      BY <2>3 DEF ResetDay, Closed, controls
    <3>2. Reopen("loss") /\ UNCHANGED main
      BY <2>3 DEF ResetDay
    <3> QED
      BY <1>0, <1>g, <3>1, <3>2, ReopenGate
  <2> QED
    BY <1>4, <2>1, <2>2, <2>3
<1>5. ASSUME Start PROVE LateInv' /\ BeginInv'
  <2>1. late' = [g \in Gate |-> 0] /\ barred' = {}
    BY <1>5 DEF Start, NewGates
  <2>2. \A g \in Gate : late'[g] = 0
    BY <2>1
  <2>3. BeginInv'
    BY <2>1 DEF BeginInv
  <2> QED
    BY <2>2, <2>3 DEF LateInv
<1>6. ASSUME Stop \/ PostponeExit \/ Settle \/ WaitTimesOut PROVE LateInv' /\ BeginInv'
  <2>1. main'.step \in {"down", "idle"}
    BY <1>6 DEF Stop, PostponeExit, Settle, WaitTimesOut, Halt, Down, Idle
  <2>2. UNCHANGED past /\ UNCHANGED <<paused, killed, worst>>
    BY <1>6 DEF Stop, PostponeExit, Settle, WaitTimesOut, controls, lossGuard
  <2> QED
    BY <1>0, <2>1, <2>2, IdleStep
<1>7. ASSUME NEW i \in Intent, BeginEntry(i) \/ PrepareExit(i)
      PROVE  LateInv' /\ BeginInv'
  <2>1. Begun(i) /\ main'.step \in {"read", "reserved"} /\ main'.intent = i
    BY <1>7 DEF BeginEntry, PrepareExit
  <2>2. UNCHANGED <<paused, killed, worst>>
    BY <1>7 DEF BeginEntry, PrepareExit, controls, lossGuard
  <2> QED
    BY <1>0, <2>1, <2>2, SameGates, BeginRequest
<1>8. ASSUME PrepareEntry \/ ReadPosition PROVE LateInv' /\ BeginInv'
  <2>1. UNCHANGED past /\ UNCHANGED <<paused, killed, worst>>
    BY <1>8 DEF PrepareEntry, ReadPosition, controls, lossGuard
  <2>2. \/ main'.step = "idle"
        \/ /\ main.step \in {"read", "reserved"} /\ main'.step = "prepared"
           /\ main'.intent = main.intent
    <3>1. CASE PrepareEntry /\ paused
      BY <3>1 DEF PrepareEntry, Idle
    <3>2. CASE PrepareEntry /\ ~ paused
      BY <3>2 DEF PrepareEntry, GatesTypeOK
    <3>3. CASE ReadPosition
      BY <3>3 DEF ReadPosition, GatesTypeOK
    <3> QED
      BY <1>8, <3>1, <3>2, <3>3
  <2>3. \A g \in Gate : ~ Cleared(g)'
    BY <2>2 DEF Cleared
  <2>4. main'.step \in Carrying => main.step \in Carrying /\ main'.intent = main.intent
    BY <2>2 DEF Carrying
  <2> QED
    BY <1>0, <2>1, <2>3, <2>4, SameGates, KeepGates
<1>9. ASSUME Judge PROVE LateInv' /\ BeginInv'
  <2>1. UNCHANGED past /\ UNCHANGED <<paused, killed, worst>>
    BY <1>9 DEF Judge, controls, lossGuard
  <2>2. CASE Validated(main) /\ RiskApproved(main)
    <3>1. main.step = "prepared" /\ main'.step = "judged" /\ main'.intent = main.intent
      BY <1>9, <2>2 DEF Judge, GatesTypeOK
    <3>2. main.intent \in Opening => ~ tripped
      BY <2>2 DEF RiskApproved, OpenApproved, Opening, Closing
    <3>3. main.intent \in Opening => ~ Closed("loss")
      BY <1>0, <3>2, ClosedIs DEF LossInv
    <3>4. \A g \in Gate : Cleared(g)' => ~ Closed(g)
      BY <3>1, <3>3 DEF Cleared
    <3>5. main'.step \in Carrying => main.step \in Carrying /\ main'.intent = main.intent
      BY <3>1 DEF Carrying
    <3> QED
      BY <1>0, <2>1, <3>4, <3>5, SameGates, KeepGates
  <2>3. CASE ~ (Validated(main) /\ RiskApproved(main))
    <3>1. main'.step = "down"
      BY <1>9, <2>3 DEF Judge, Halt, Down, Idle
    <3> QED
      BY <1>0, <2>1, <3>1, IdleStep
  <2> QED
    BY <2>2, <2>3
<1>10. ASSUME RequireReady PROVE LateInv' /\ BeginInv'
  <2>1. UNCHANGED past /\ UNCHANGED <<paused, killed, worst>>
    BY <1>10 DEF RequireReady, controls, lossGuard
  <2>2. CASE ReadyToTrade
    <3>1. main.step = "judged" /\ main'.step = "ready" /\ main'.intent = main.intent
      BY <1>10, <2>2 DEF RequireReady, GatesTypeOK
    <3>2. ~ Closed("pause") /\ ~ Closed("kill")
      BY <2>2, ClosedIs DEF ReadyToTrade
    <3>3. \A g \in Gate : Cleared(g)' => Cleared(g) \/ ~ Closed(g)
      BY <1>g, <3>1, <3>2 DEF Cleared
    <3>4. main'.step \in Carrying => main.step \in Carrying /\ main'.intent = main.intent
      BY <3>1 DEF Carrying
    <3> QED
      BY <1>0, <2>1, <3>3, <3>4, SameGates, KeepGates
  <2>3. CASE ~ ReadyToTrade
    <3>1. main'.step = "down"
      BY <1>10, <2>3 DEF RequireReady, Halt, Down, Idle
    <3> QED
      BY <1>0, <2>1, <3>1, IdleStep
  <2> QED
    BY <2>2, <2>3
<1>11. ASSUME PlaceOrder PROVE LateInv' /\ BeginInv'
  <2>1. main.step = "ready" /\ main'.step = "waiting"
    BY <1>11 DEF PlaceOrder, GatesTypeOK
  <2>2. \A g \in Gate : Closed(g) => Closed(g)'
    BY <1>11 DEF PlaceOrder, controls, lossGuard, Closed
  <2>3. \A g \in Gate : ~ Cleared(g)'
    BY <2>1 DEF Cleared
  <2>4. barred = {} /\ barred' = barred
    BY <1>0, <1>11, <2>1, ReadyIsNotBarred DEF PlaceOrder, past
  <2>5. BeginInv'
    BY <2>4 DEF BeginInv
  <2>6. ASSUME NEW g \in Gate
        PROVE  late'[g] = 0 \/ (late'[g] = 1 /\ Closed(g)' /\ ~ Cleared(g)')
    <3>1. late'[g] = late[g] \/ (Stops(g, main.intent) /\ late'[g] = late[g] + 1)
      BY <1>11 DEF PlaceOrder, past
    <3>2. CASE late'[g] = late[g]
      BY <1>0, <2>2, <2>3, <3>2 DEF LateInv
    <3>3. CASE Stops(g, main.intent) /\ late'[g] = late[g] + 1
      <4>1. Cleared(g)
        BY <2>1, <3>3, ReadyIsCleared
      <4>2. late[g] = 0
        BY <1>0, <4>1 DEF LateInv
      <4>3. Closed(g)'
        BY <2>2, <3>3 DEF Stops
      <4> QED
        BY <2>3, <3>3, <4>2, <4>3
    <3> QED
      BY <3>1, <3>2, <3>3
  <2>7. LateInv'
    BY <2>6 DEF LateInv
  <2> QED
    BY <2>5, <2>7
<1>12. ASSUME NEW a \in Action, BrokerFills(a) PROVE LateInv' /\ BeginInv'
  BY <1>0, <1>12, IdleStep DEF BrokerFills, controls, lossGuard
<1>13. ASSUME BrokerCancels \/ Resolve \/ DropIB \/ ReconnectIB
       PROVE  LateInv' /\ BeginInv'
  <2>1. UNCHANGED <<main, past>> /\ UNCHANGED <<paused, killed, worst>>
    BY <1>13 DEF BrokerCancels, Resolve, DropIB, ReconnectIB, controls, lossGuard
  <2> QED
    BY <1>0, <2>1, IdleStep
<1> QED
  BY <1>1, <1>2, <1>3, <1>4, <1>5, <1>6, <1>7, <1>8, <1>9, <1>10, <1>11, <1>12, <1>13
  DEF GatesNext, Intent

LEMMA StepGateInv == GatesTypeOK /\ GateInv /\ [GatesNext]_gatesVars => GateInv'
<1>1. GatesTypeOK /\ GateInv /\ GatesNext => GateInv'
  BY LossStep, GateStep DEF GateInv
<1>2. GatesTypeOK /\ GateInv /\ UNCHANGED gatesVars => GateInv'
  BY IdleStep DEF GateInv, LossInv, gatesVars, controls, lossGuard
<1> QED
  BY <1>1, <1>2

\* For every history of closings, reopenings and orders: after a gate closes,
\* one more order at most that it should stop reaches IB.
THEOREM SpecAtMostOneLate == GatesSpec => []AtMostOneLate
<1>1. GatesTypeOK /\ GateInv => AtMostOneLate
  BY DEF GateInv, LateInv, AtMostOneLate
<1> QED
  BY <1>1, InitGateInv, StepGateInv, SpecGatesTypeOK, PTL DEF GatesSpec

\* For every such history: no order begun behind a closed gate reaches IB
\* before the gate is reopened.
THEOREM SpecNoneBegunClosed == GatesSpec => NoneBegunClosed
<1>1. GatesTypeOK /\ GateInv /\ [GatesNext]_gatesVars
        => [(\E a \in Action : working'[a] > working[a]) => barred = {}]_gatesVars
  <2> SUFFICES ASSUME GatesTypeOK, GateInv, GatesNext,
                      NEW a \in Action, working'[a] > working[a]
               PROVE  barred = {}
    OBVIOUS
  <2>1. CASE PlaceOrder
    BY <2>1, ReadyIsNotBarred DEF PlaceOrder, GateInv
  <2>2. ASSUME UNCHANGED working PROVE FALSE
    BY <2>2 DEF GatesTypeOK
  <2>3. ASSUME NEW b \in Action, BrokerFills(b) PROVE FALSE
    BY <2>3 DEF BrokerFills, GatesTypeOK
  <2>4. ASSUME BrokerCancels PROVE FALSE
    BY <2>4 DEF BrokerCancels, GatesTypeOK
  <2>5. CASE \/ Pause \/ Resume \/ Activate \/ ResetKillSwitch \/ ResetDay \/ Start \/ Stop
             \/ (\E q \in Sizes : UpdateSettings(q))
             \/ (\E r, u \in Pnl \cup {0} : UpdatePnl(r, u))
    BY <2>2, <2>5 DEF Pause, Resume, Activate, ResetKillSwitch, ResetDay, Start, Stop,
       UpdateSettings, UpdatePnl, broker
  <2>6. CASE \/ (\E i \in Opening : BeginEntry(i)) \/ (\E i \in Closing : PrepareExit(i))
             \/ PrepareEntry \/ ReadPosition \/ PostponeExit \/ Judge \/ RequireReady
             \/ Settle \/ WaitTimesOut \/ Resolve \/ DropIB \/ ReconnectIB
    BY <2>2, <2>6 DEF BeginEntry, PrepareExit, PrepareEntry, ReadPosition, PostponeExit,
       Judge, RequireReady, Settle, WaitTimesOut, Resolve, DropIB, ReconnectIB, broker
  <2> QED
    BY <2>1, <2>3, <2>4, <2>5, <2>6 DEF GatesNext
<1> QED
  BY <1>1, InitGateInv, StepGateInv, SpecGatesTypeOK, PTL DEF GatesSpec, NoneBegunClosed

=============================================================================
