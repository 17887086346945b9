----------------------------- MODULE PaperTrader -----------------------------
(***************************************************************************)
(* The continuous paper trader, scripts/run_real_eagle_ib_paper_trader.py, *)
(* armed: one Eagle session after another, the durable stores that survive *)
(* them (event store, signal lifecycle, execution ledger), and IB.         *)
(*                                                                         *)
(* run_continuous handles one Eagle message at a time.  A handler is cut   *)
(* into one action per durable commit or broker call, so that a crash, a   *)
(* lost IB connection or a fill can fall between any two of them.  Eagle,  *)
(* IB's matching and the two connections are external.  An exception other *)
(* than a connection error ends the process: it halts, and the operator    *)
(* may start it again.                                                     *)
(***************************************************************************)
EXTENDS Integers, Sequences, FiniteSets

CONSTANTS
    Signal,            \* Eagle signal ids
    Bitcoin,           \* those on BTCUSDT
    Short,             \* those that sell first
    Updated,           \* those that get one fund.update
    MaxSeq,            \* bound: lifecycle frames Eagle publishes
    GlobalHeartbeats,  \* a heartbeat may overtake the replay (see Heartbeats)
    MaxCrashes,        \* bound: crashes of BTS
    MaxEagleDrops,     \* bound: lost Eagle connections
    MaxIBDrops,        \* bound: lost IB connections
    MaxFlattens        \* bound: positions closed outside BTS

ASSUME SignalAssumption == Bitcoin \subseteq Signal /\ Short \subseteq Signal
                           /\ Updated \subseteq Signal
ASSUME BoundsAssumption == MaxSeq \in Nat /\ MaxCrashes \in Nat
                           /\ MaxEagleDrops \in Nat /\ MaxIBDrops \in Nat
                           /\ MaxFlattens \in Nat
ASSUME HeartbeatAssumption == GlobalHeartbeats \in BOOLEAN

Event == [kind : {"entry", "update", "exit"}, sig : Signal]
Ev(k, s) == [kind |-> k, sig |-> s]
NoEvent == [kind |-> "none"]

VARIABLES
    log,        \* external: the lifecycle frames Eagle published, by seq
    processed, cursor,  \* durable: the event store
    accepted,   \* history: what the event store accepted
    life,       \* durable: the signal lifecycle
    ledger,     \* durable: the execution ledger, status by event
    task,       \* the main thread: what it does next, for which event
    session,    \* the Eagle session and its gates
    missed,     \* missed_eagle_signal_ids
    ib,         \* the IB connection is ready
    pos,        \* external: the MBT position at IB
    working,    \* external: orders working at IB
    answers,    \* external: final order callbacks IB has sent
    halted,     \* history: where the process last ended by an exception
    everMissed, \* history: signals ever classified as missed
    replayed,   \* history: events consumed during a replay
    crashes, eagleDrops, ibDrops, flattens

Store == INSTANCE EventStore
    WITH processed <- processed, cursor <- cursor, accepted <- accepted

store   == <<processed, cursor, accepted>>
broker  == <<pos, working, answers>>
past    == <<halted, everMissed, replayed>>
budget  == <<crashes, eagleDrops, ibDrops, flattens>>
vars == <<log, store, life, ledger, task, session, missed, ib, broker, past, budget>>

Task(step, e) == [step |-> step, ev |-> e]
Listening == Task("listening", NoEvent)
Step == {"down", "connecting", "listening", "replayEntry", "replayExit",
         "consumedExit", "reservedExit", "consumedEntry", "committedEntry",
         "reservedEntry", "marked", "waiting", "settling"}

\* sent: frames Eagle has sent on this connection; left: replay frames still
\* expected; heartbeat: post_replay_heartbeat_seen; gap:
\* possible_pending_gap_exit; again: eagle_session_is_reconnect; proof: the
\* exit behind reserved_exit_pending_replay.
NoSession == [sent |-> 0, left |-> 0, heartbeat |-> FALSE, gap |-> FALSE,
              again |-> FALSE, proof |-> NoEvent]

Unknown  == "Unknown"
Terminal == {"Filled", "Rejected"}
Status   == {Unknown, "Reserved", "Submitted"} \cup Terminal

TypeOK ==
    /\ log \in Seq(Event) /\ Len(log) <= MaxSeq
    /\ Store!StoreTypeOK
    /\ life \in [Signal -> {"New", "LongOpen", "ShortOpen", "Closed"}]
    /\ ledger \in [Event -> Status]
    /\ task \in [step : Step, ev : Event \cup {NoEvent}]
    /\ session \in [sent : 0 .. MaxSeq, left : 0 .. MaxSeq, heartbeat : BOOLEAN,
                    gap : BOOLEAN, again : BOOLEAN, proof : Event \cup {NoEvent}]
    /\ missed \subseteq Bitcoin /\ everMissed \subseteq Bitcoin
    /\ ib \in BOOLEAN
    /\ pos \in -1 .. 1
    /\ working \subseteq Event /\ replayed \subseteq Event
    /\ answers \subseteq Event \X Terminal
    /\ halted \in [at : {"nowhere", "hello", "heartbeat", "recovery", "replay",
                         "event", "order"},
                   ev : Event \cup {NoEvent}]
    /\ crashes \in 0 .. MaxCrashes
    /\ eagleDrops \in 0 .. MaxEagleDrops
    /\ ibDrops \in 0 .. MaxIBDrops
    /\ flattens \in 0 .. MaxFlattens

Init ==
    /\ log = <<>>
    /\ Store!StoreInit
    /\ life = [s \in Signal |-> "New"]
    /\ ledger = [e \in Event |-> Unknown]
    /\ task = Task("down", NoEvent)
    /\ session = NoSession
    /\ missed = {} /\ ib = FALSE
    /\ pos = 0 /\ working = {} /\ answers = {}
    /\ halted = [at |-> "nowhere", ev |-> NoEvent]
    /\ everMissed = {} /\ replayed = {}
    /\ crashes = 0 /\ eagleDrops = 0 /\ ibDrops = 0 /\ flattens = 0

-----------------------------------------------------------------------------
(* Reads of the durable state and of the broker.                           *)

\* The signal lifecycle guard: the next state of a signal for an intent, or
\* none; and the intent the adapter reads from an event.
NextState(state, intent) ==
    CASE state = "New" /\ intent = "BuyToOpen" -> {"LongOpen"}
      [] state = "New" /\ intent = "SellToOpen" -> {"ShortOpen"}
      [] state = "LongOpen" /\ intent = "SellToClose" -> {"Closed"}
      [] state = "ShortOpen" /\ intent = "BuyToClose" -> {"Closed"}
      [] OTHER -> {}

Intent(e) ==
    CASE e.kind = "entry" -> IF e.sig \in Short THEN "SellToOpen" ELSE "BuyToOpen"
      [] OTHER -> IF life[e.sig] = "LongOpen" THEN "SellToClose" ELSE "BuyToClose"

Opens == {s \in Signal : life[s] \in {"LongOpen", "ShortOpen"}}
Side(s) == IF life[s] = "LongOpen" THEN 1 ELSE -1

\* commit_request: an invalid transition leaves the lifecycle as it is.
Commit(e) ==
    IF NextState(life[e.sig], Intent(e)) = {} THEN life' = life
    ELSE \E n \in NextState(life[e.sig], Intent(e)) : life' = [life EXCEPT ![e.sig] = n]

\* load_durable_open_signals agrees with a fresh snapshot of the position.
OwnsExactly(s) == Opens = {s} /\ pos = Side(s)
Reconciled == (pos = 0 /\ Opens = {}) \/ \E s \in Signal : OwnsExactly(s)

ExecutionClear == \A e \in Event : ledger[e] \in {Unknown} \cup Terminal
Reserved == {e \in Event : ledger[e] = "Reserved"}
\* find_reserved_exit raises on a reserved opening and on two exits.
ReservedAmbiguous == Cardinality(Reserved) > 1 \/ \E e \in Reserved : e.kind = "entry"

\* IB is ready, or recover_ib_connection reaches TWS and revalidates;
\* otherwise it raises, or reports a connection error if TWS is away.
IBUsable == ib \/ (ExecutionClear /\ Reconciled)
IBUsableFor(e) == ib \/ (Reserved = {e} /\ Reconciled)

-----------------------------------------------------------------------------
(* How the process ends, and how a session ends.                           *)

StopProcess ==
    /\ task' = Task("down", NoEvent)
    /\ session' = NoSession
    /\ missed' = {}
    /\ ib' = FALSE
    /\ answers' = {}
    /\ UNCHANGED <<log, store, life, ledger, pos, working>>

Halt(at, e) ==
    /\ StopProcess
    /\ halted' = [at |-> at, ev |-> e]
    /\ UNCHANGED <<everMissed, replayed, budget>>

\* The handler of ConnectionError, OSError and TimeoutError, whatever raised
\* it: every gate of the session is closed and a new client connects.
LoseSession ==
    /\ task' = Task("connecting", NoEvent)
    /\ session' = [NoSession EXCEPT !.again = TRUE, !.proof = session.proof]
    /\ missed' = {}
    /\ UNCHANGED <<log, store, life, ledger, ib, broker, past>>

-----------------------------------------------------------------------------
(* Start, hello and heartbeats.                                            *)

\* The checks before the main loop.  A surviving reservation is let through
\* only if its exit was not consumed yet and closes the one open signal; with
\* the recovery argument the process raises in every case.
Start ==
    /\ task.step = "down"
    /\ ~ ReservedAmbiguous
    /\ Reserved = {} => ExecutionClear
    /\ \A e \in Reserved : e \notin processed /\ Opens = {e.sig}
    /\ Reconciled
    /\ ib' = TRUE
    /\ task' = Task("connecting", NoEvent)
    /\ session' = [NoSession EXCEPT !.proof =
            IF Reserved = {} THEN NoEvent ELSE CHOOSE e \in Reserved : TRUE]
    /\ UNCHANGED <<log, store, life, ledger, missed, broker, past, budget>>

Published == {log[i] : i \in 1 .. Len(log)}
EagleOpen == {s \in Bitcoin : Ev("entry", s) \in Published /\ Ev("exit", s) \notin Published}

\* get_missed_eagle_signal_ids.
MissedAtHello == IF pos = 0 /\ Opens = {} THEN EagleOpen ELSE {}
PossibleGapExit == session.again /\ EagleOpen = {} /\ \E s \in Signal : OwnsExactly(s)
\* require_eagle_hello_reconciled.
HelloReconciled ==
    \/ pos = 0 /\ Opens = {} /\ EagleOpen = {}
    \/ \E s \in Signal : EagleOpen = {s} /\ OwnsExactly(s)

HelloAccepted ==
    /\ IBUsable /\ Reconciled
    /\ MissedAtHello # {} \/ PossibleGapExit \/ HelloReconciled

\* Faulty variant: an empty cursor table is passed on as it is.
SinceUnchecked == cursor

\* build_eagle_client asks for what follows the durable cursor.
Since == IF cursor = Store!NoSeq THEN 0 ELSE cursor

Hello ==
    /\ task.step = "connecting"
    /\ HelloAccepted
    /\ session' = [sent |-> Since, left |-> Len(log) - Since, heartbeat |-> FALSE,
                   gap |-> MissedAtHello = {} /\ PossibleGapExit,
                   again |-> FALSE, proof |-> session.proof]
    /\ ib' = TRUE
    /\ missed' = MissedAtHello
    /\ everMissed' = everMissed \cup MissedAtHello
    /\ task' = Listening
    /\ UNCHANGED <<log, store, life, ledger, broker, halted, replayed, budget>>

HelloRaises ==
    /\ task.step = "connecting"
    /\ ~ HelloAccepted
    /\ Halt("hello", NoEvent)

\* Eagle is away, the connection is lost while BTS listens, or TWS is away
\* when the hello arrives.
EagleDrops ==
    /\ task.step \in {"connecting", "listening"}
    /\ eagleDrops < MaxEagleDrops
    /\ eagleDrops' = eagleDrops + 1
    /\ LoseSession
    /\ UNCHANGED <<crashes, ibDrops, flattens>>

HelloWithoutIB ==
    /\ task.step = "connecting" /\ ~ ib
    /\ LoseSession
    /\ UNCHANGED budget

\* The seq of a heartbeat.  In stream order it is that of the last frame
\* sent; with GlobalHeartbeats one may overtake the replay and carry Eagle's
\* latest number.
Heartbeats == {session.sent} \cup
    IF GlobalHeartbeats /\ session.left > 0 THEN {Len(log)} ELSE {}

ReplayComplete == session.left = 0

\* Faulty variant: an unexplained gap is forgotten once the replay is over.
HeartbeatAcceptedOverGap ==
    ~ ReservedAmbiguous /\ (ReplayComplete => Reserved = {}) /\ IBUsable

HeartbeatAccepted ==
    /\ ~ ReservedAmbiguous
    /\ ReplayComplete => Reserved = {} /\ ~ session.gap
    /\ IBUsable

Heartbeat(h) ==
    /\ task = Listening
    /\ HeartbeatAccepted
    /\ IF h > cursor THEN Store!MarkSeqProcessed(h) ELSE UNCHANGED store
    /\ session' = [session EXCEPT !.heartbeat = ReplayComplete]
    /\ ib' = TRUE
    /\ UNCHANGED <<log, life, ledger, task, missed, broker, past, budget>>

\* The IB recovery of a heartbeat fails with a connection error: the rest of
\* the handler is skipped.
HeartbeatWithoutIB ==
    /\ task = Listening /\ ~ ib
    /\ ~ ReservedAmbiguous
    /\ ~ (ReplayComplete /\ Reserved # {} /\ session.proof # NoEvent)
    /\ session' = [session EXCEPT !.heartbeat = ReplayComplete]
    /\ UNCHANGED <<log, store, life, ledger, task, missed, ib, broker, past, budget>>

\* A reserved exit that waits for IB is taken up by recover_reserved_exit_obligation,
\* whose first call, execution_ledger.get_trade_request, does not exist.
RecoveryReached(e) ==
    /\ task = Listening /\ ReplayComplete
    /\ ~ ReservedAmbiguous /\ session.proof = NoEvent
    /\ e \in Reserved /\ IBUsableFor(e)

RecoveryRaises == \E e \in Event : RecoveryReached(e) /\ Halt("recovery", e)

HeartbeatRaises ==
    /\ task = Listening
    /\ ~ HeartbeatAccepted
    /\ ~ \E e \in Event : RecoveryReached(e)
    /\ Halt("heartbeat", NoEvent)

-----------------------------------------------------------------------------
(* Replayed frames: counted and consumed.  No order is sent during a       *)
(* replay; an exit may leave an obligation for the heartbeat after it.     *)

Frame    == log[session.sent + 1]
Eligible == Store!Eligibility(Frame, session.sent + 1) = "ACCEPTED"

\* Faulty variant: missed trades are not told apart.
IsMissedNever == FALSE

IsMissed == Frame.sig \in missed

ReplayFrame == task = Listening /\ session.left > 0
LiveFrame   == task = Listening /\ session.left = 0 /\ session.sent < Len(log)

CountReplayFrame == session' = [session EXCEPT !.sent = @ + 1, !.left = @ - 1]
TakeLiveFrame    == session' = [session EXCEPT !.sent = @ + 1]

Consume == IF Eligible THEN Store!CheckAndMarkEventWithSeq(Frame, session.sent + 1)
           ELSE UNCHANGED store

\* A request for a position snapshot fails: RuntimeError when the connection
\* is known to be lost, TimeoutError when it goes while BTS waits.
RefreshFails(at, e) ==
    /\ ~ ib
    /\ Halt(at, e) \/ (LoseSession /\ UNCHANGED budget)

\* Faulty variant: every frame of a missed trade is counted and not consumed.
ReplayIgnoredMissed ==
    /\ ReplayFrame
    /\ ~ Eligible \/ IsMissed
    /\ CountReplayFrame
    /\ UNCHANGED <<log, store, life, ledger, task, missed, ib, broker, past, budget>>

\* A duplicate, and the exit of a missed trade, are counted and nothing else.
ReplayIgnored ==
    /\ ReplayFrame
    /\ ~ Eligible \/ (IsMissed /\ Frame.kind = "exit")
    /\ CountReplayFrame
    /\ UNCHANGED <<log, store, life, ledger, task, missed, ib, broker, past, budget>>

\* Entries and updates are consumed first.
ReplayConsumed ==
    /\ ReplayFrame /\ Eligible /\ Frame.kind # "exit"
    /\ Consume
    /\ CountReplayFrame
    /\ replayed' = replayed \cup {Frame}
    /\ task' = IF Frame.kind = "entry" /\ Frame.sig \in Bitcoin /\ ~ IsMissed
               THEN Task("replayEntry", Frame) ELSE Listening
    /\ UNCHANGED <<log, life, ledger, missed, ib, broker, halted, everMissed, budget>>

\* coordinator.process_event: the lifecycle is rebuilt, nothing is executed.
CommitReplayedEntry ==
    /\ task.step = "replayEntry"
    /\ Commit(task.ev)
    /\ task' = Listening
    /\ UNCHANGED <<log, store, ledger, session, missed, ib, broker, past, budget>>

\* What a replayed exit may prove, from a fresh position.  An earlier process
\* closed the lifecycle already ...
ClosedBefore(e) == life[e.sig] = "Closed" /\ ledger[e] = Unknown /\ pos = 0 /\ Opens = {}
\* Faulty variant: the position is not asked for.
FlatAtBrokerUnchecked(e) == Opens = {e.sig} /\ ledger[e] \in {Unknown, "Reserved"}

\* ... the broker is flat and only the lifecycle is open ...
FlatAtBroker(e) == pos = 0 /\ Opens = {e.sig} /\ ledger[e] \in {Unknown, "Reserved"}
\* ... or the exposure remains and the exit becomes an obligation.
StillExposed(e) == OwnsExactly(e.sig) /\ ledger[e] = Unknown
ExitProved(e) ==
    /\ session.proof \in {NoEvent, e}
    /\ ClosedBefore(e) \/ FlatAtBroker(e) \/ StillExposed(e)

ReplayedExit == ReplayFrame /\ Eligible /\ Frame.kind = "exit" /\ ~ IsMissed

\* Faulty variant: the exit is consumed with nothing reserved.
RecoverReplayedExitUnreserved ==
    /\ ReplayedExit /\ ib /\ ExitProved(Frame)
    /\ IF FlatAtBroker(Frame) THEN Commit(Frame) ELSE life' = life
    /\ CountReplayFrame
    /\ task' = Task("replayExit", Frame)
    /\ UNCHANGED <<log, store, ledger, missed, ib, broker, past, budget>>

\* The recovery state is durable before the exit is consumed.
RecoverReplayedExit ==
    /\ ReplayedExit /\ ib /\ ExitProved(Frame)
    /\ \/ ClosedBefore(Frame) /\ UNCHANGED <<life, ledger>>
       \/ FlatAtBroker(Frame) /\ Commit(Frame) /\ UNCHANGED ledger
       \/ /\ StillExposed(Frame)
          /\ ledger' = [ledger EXCEPT ![Frame] = "Reserved"]
          /\ UNCHANGED life
    /\ CountReplayFrame
    /\ task' = Task("replayExit", Frame)
    /\ UNCHANGED <<log, store, missed, ib, broker, past, budget>>

\* Faulty variant: the recovered exit goes on to the broker at once.
ConsumeReplayedExitAndGo ==
    /\ task.step = "replayExit"
    /\ Store!CheckAndMarkEventWithSeq(task.ev, session.sent)
    /\ replayed' = replayed \cup {task.ev}
    /\ session' = [session EXCEPT !.proof = NoEvent, !.gap = FALSE]
    /\ task' = [task EXCEPT !.step = "reservedExit"]
    /\ UNCHANGED <<log, life, ledger, missed, ib, broker, halted, everMissed, budget>>

ConsumeReplayedExit ==
    /\ task.step = "replayExit"
    /\ Store!CheckAndMarkEventWithSeq(task.ev, session.sent)
    /\ replayed' = replayed \cup {task.ev}
    /\ session' = [session EXCEPT !.proof = NoEvent, !.gap = FALSE]
    /\ task' = Listening
    /\ UNCHANGED <<log, life, ledger, missed, ib, broker, halted, everMissed, budget>>

\* Any other replayed exit ends the process, that of a signal BTS never had
\* included; so does a reservation it would have to take up again.
ReplayedExitRaises ==
    /\ ReplayedExit
    /\ (~ ExitProved(Frame) /\ Halt("replay", Frame)) \/ RefreshFails("event", Frame)

-----------------------------------------------------------------------------
(* Live frames.                                                            *)

Authorized == session.heartbeat
OpenExit  == Frame.kind = "exit" /\ Frame.sig \in Opens

LiveUnauthorized ==
    /\ LiveFrame /\ ~ Authorized /\ Frame.kind # "update"
    /\ Halt("event", Frame)

\* Updates, missed trades, other instruments and exits of no open signal are
\* consumed without effect.
LiveIgnored ==
    /\ LiveFrame
    /\ Authorized \/ Frame.kind = "update"
    /\ \/ Frame.kind = "update" \/ IsMissed
       \/ Frame.kind = "entry" /\ Frame.sig \notin Bitcoin
       \/ Frame.kind = "exit" /\ ~ OpenExit
    /\ Consume
    /\ TakeLiveFrame
    /\ missed' = IF Frame.kind = "exit" THEN missed \ {Frame.sig} ELSE missed
    /\ UNCHANGED <<log, life, ledger, task, ib, broker, past, budget>>

LiveExit == LiveFrame /\ Authorized /\ ~ IsMissed /\ OpenExit
LiveEntry == LiveFrame /\ Authorized /\ ~ IsMissed
             /\ Frame.kind = "entry" /\ Frame.sig \in Bitcoin

\* Faulty variant: without IB the exit is dropped like an entry.
ConsumeExitIfConnected ==
    /\ LiveExit /\ ExecutionClear
    /\ Consume
    /\ TakeLiveFrame
    /\ task' = IF Eligible /\ ib THEN Task("consumedExit", Frame) ELSE Listening
    /\ UNCHANGED <<log, life, ledger, missed, ib, broker, past, budget>>

\* An owned exit is consumed, then reserved, before the broker is consulted.
ConsumeExit ==
    /\ LiveExit /\ ExecutionClear
    /\ Consume
    /\ TakeLiveFrame
    /\ task' = IF Eligible THEN Task("consumedExit", Frame) ELSE Listening
    /\ UNCHANGED <<log, life, ledger, missed, ib, broker, past, budget>>

LiveExitRaises == LiveExit /\ ~ ExecutionClear /\ Halt("event", Frame)

ReserveExit ==
    /\ task.step = "consumedExit"
    /\ ledger' = [ledger EXCEPT ![task.ev] = "Reserved"]
    /\ task' = [task EXCEPT !.step = "reservedExit"]
    /\ UNCHANGED <<log, store, life, session, missed, ib, broker, past, budget>>

\* Faulty variant: the lifecycle alone says what there is to close.
SubmitExitUnchecked ==
    /\ task.step = "reservedExit"
    /\ ib /\ Opens = {task.ev.sig}
    /\ ledger' = [ledger EXCEPT ![task.ev] = "Submitted"]
    /\ task' = [task EXCEPT !.step = "marked"]
    /\ UNCHANGED <<log, store, life, session, missed, ib, broker, past, budget>>

\* Position, lifecycle and readiness are checked against a fresh snapshot and
\* the order is marked submitted.
SubmitExit ==
    /\ task.step = "reservedExit"
    /\ IBUsableFor(task.ev) /\ OwnsExactly(task.ev.sig)
    /\ ib' = TRUE
    /\ ledger' = [ledger EXCEPT ![task.ev] = "Submitted"]
    /\ task' = [task EXCEPT !.step = "marked"]
    /\ UNCHANGED <<log, store, life, session, missed, broker, past, budget>>

\* TWS stays away: the exit waits, reserved, for a heartbeat.
PostponeExit ==
    /\ task.step = "reservedExit" /\ ~ ib
    /\ task' = Listening
    /\ UNCHANGED <<log, store, life, ledger, session, missed, ib, broker, past, budget>>

\* An entry BTS cannot ask IB about is consumed as missed.
MissEntry ==
    /\ LiveEntry /\ ~ ib
    /\ Consume
    /\ TakeLiveFrame
    /\ missed' = IF Eligible THEN missed \cup {Frame.sig} ELSE missed
    /\ everMissed' = IF Eligible THEN everMissed \cup {Frame.sig} ELSE everMissed
    /\ UNCHANGED <<log, life, ledger, task, ib, broker, halted, replayed, budget>>

\* A second entry is skipped; one from flat is consumed and goes on.
EntryAccepted == IBUsable /\ Reconciled /\ ExecutionClear
ConsumeEntry ==
    /\ LiveEntry /\ EntryAccepted
    /\ Consume
    /\ TakeLiveFrame
    /\ ib' = TRUE
    /\ task' = IF Eligible /\ pos = 0 /\ Opens = {}
               THEN Task("consumedEntry", Frame) ELSE Listening
    /\ UNCHANGED <<log, life, ledger, missed, broker, past, budget>>

LiveEntryRaises ==
    /\ LiveEntry
    /\ (~ EntryAccepted /\ Halt("event", Frame)) \/ RefreshFails("event", Frame)

\* Readiness passes, and the lifecycle is committed before the order exists.
CommitEntry ==
    /\ task.step = "consumedEntry" /\ ib
    /\ Commit(task.ev)
    /\ task' = IF life'[task.ev.sig] # life[task.ev.sig]
               THEN [task EXCEPT !.step = "committedEntry"] ELSE Listening
    /\ UNCHANGED <<log, store, ledger, session, missed, ib, broker, past, budget>>

ReserveEntry ==
    /\ task.step = "committedEntry"
    /\ ledger' = [ledger EXCEPT ![task.ev] = "Reserved"]
    /\ task' = [task EXCEPT !.step = "reservedEntry"]
    /\ UNCHANGED <<log, store, life, session, missed, ib, broker, past, budget>>

SubmitEntry ==
    /\ task.step = "reservedEntry"
    /\ ledger' = [ledger EXCEPT ![task.ev] = "Submitted"]
    /\ task' = [task EXCEPT !.step = "marked"]
    /\ UNCHANGED <<log, store, life, session, missed, ib, broker, past, budget>>

PlaceOrder ==
    /\ task.step = "marked" /\ ib
    /\ working' = working \cup {task.ev}
    /\ task' = [task EXCEPT !.step = "waiting"]
    /\ UNCHANGED <<log, store, life, ledger, session, missed, ib, pos, answers, past, budget>>

\* The close of the lifecycle follows the fill of an exit.
OrderFilled ==
    /\ task.step = "waiting" /\ ledger[task.ev] = "Filled"
    /\ IF task.ev.kind = "exit" THEN Commit(task.ev) ELSE life' = life
    /\ task' = [task EXCEPT !.step = "settling"]
    /\ UNCHANGED <<log, store, ledger, session, missed, ib, broker, past, budget>>

Settle ==
    /\ task.step = "settling" /\ ib /\ Reconciled
    /\ task' = Listening
    /\ UNCHANGED <<log, store, life, ledger, session, missed, ib, broker, past, budget>>

\* TimeoutError leaves the wait and is taken for a lost Eagle connection.
WaitTimesOut ==
    /\ task.step = "waiting" /\ ledger[task.ev] = "Submitted"
    /\ LoseSession
    /\ UNCHANGED budget

\* Risk or readiness refuses, the position does not match, the kill switch is
\* active (a critical IB error, such as an order without a connection), the
\* order is not filled, or the books do not balance afterwards.
OrderRaises ==
    /\ \/ task.step \in {"reservedExit", "consumedEntry", "waiting"}
       \/ task.step = "marked" /\ ~ ib
       \/ task.step = "settling" /\ ~ Reconciled
    /\ Halt("order", task.ev)

SettleFails == task.step \in {"reservedExit", "settling"} /\ RefreshFails("order", task.ev)

-----------------------------------------------------------------------------
(* External: Eagle, IB, the connections and the process.                   *)

EaglePublishes(e) ==
    /\ Len(log) < MaxSeq /\ e \notin Published
    /\ e.kind # "entry" => Ev("entry", e.sig) \in Published /\ Ev("exit", e.sig) \notin Published
    /\ e.kind = "update" => e.sig \in Updated
    /\ log' = Append(log, e)
    /\ UNCHANGED <<store, life, ledger, task, session, missed, ib, broker, past, budget>>

Bought(e) == IF (e.kind = "entry") = (e.sig \in Short) THEN -1 ELSE 1

\* IB ends an order.  The callback reaches only a connected client, and what
\* was missed is never asked for.
BrokerEnds(e, status) ==
    /\ e \in working
    /\ working' = working \ {e}
    /\ pos' = IF status = "Filled" THEN pos + Bought(e) ELSE pos
    /\ answers' = IF ib THEN answers \cup {<<e, status>>} ELSE answers
    /\ UNCHANGED <<log, store, life, ledger, task, session, missed, ib, past, budget>>

\* The network thread writes the answer to the ledger, whatever the main
\* thread does meanwhile (module IBExecution has the details).
Answer(e, status) ==
    /\ <<e, status>> \in answers
    /\ ledger' = [ledger EXCEPT ![e] = IF @ = "Submitted" THEN status ELSE @]
    /\ answers' = answers \ {<<e, status>>}
    /\ UNCHANGED <<log, store, life, task, session, missed, ib, pos, working, past, budget>>

IBDrops ==
    /\ ib /\ ibDrops < MaxIBDrops
    /\ ibDrops' = ibDrops + 1
    /\ ib' = FALSE /\ answers' = {}
    /\ UNCHANGED <<log, store, life, ledger, task, session, missed, pos, working, past,
                   crashes, eagleDrops, flattens>>

\* The position is closed outside BTS: by the operator, or by IB.  Assumed not
\* to happen under a working order, or between the snapshot an order is
\* approved on and its placement, which IB offers no way to make atomic.
Flatten ==
    /\ pos # 0 /\ working = {} /\ task.step # "marked"
    /\ flattens < MaxFlattens
    /\ flattens' = flattens + 1
    /\ pos' = 0
    /\ UNCHANGED <<log, store, life, ledger, task, session, missed, ib, working, answers,
                   past, crashes, eagleDrops, ibDrops>>

Crash ==
    /\ task.step # "down" /\ crashes < MaxCrashes
    /\ crashes' = crashes + 1
    /\ StopProcess
    /\ UNCHANGED <<past, eagleDrops, ibDrops, flattens>>

-----------------------------------------------------------------------------
Sessions ==
    \/ Start \/ Hello \/ HelloRaises \/ HelloWithoutIB
    \/ \E h \in Heartbeats : Heartbeat(h)
    \/ HeartbeatWithoutIB \/ RecoveryRaises \/ HeartbeatRaises

Replay ==
    \/ ReplayIgnored \/ ReplayConsumed \/ CommitReplayedEntry
    \/ RecoverReplayedExit \/ ConsumeReplayedExit \/ ReplayedExitRaises

Live ==
    \/ LiveUnauthorized \/ LiveIgnored \/ LiveExitRaises \/ LiveEntryRaises
    \/ ConsumeExit \/ ReserveExit \/ SubmitExit \/ PostponeExit
    \/ MissEntry \/ ConsumeEntry \/ CommitEntry \/ ReserveEntry \/ SubmitEntry
    \/ PlaceOrder \/ OrderFilled \/ Settle \/ WaitTimesOut \/ OrderRaises \/ SettleFails

External ==
    \/ \E e \in Event : EaglePublishes(e)
    \/ \E e \in Event, status \in Terminal : BrokerEnds(e, status) \/ Answer(e, status)
    \/ EagleDrops \/ IBDrops \/ Flatten \/ Crash

MainThread == Sessions \/ Replay \/ Live

Next == MainThread \/ External

Spec == Init /\ [][Next]_vars

-----------------------------------------------------------------------------
\* Exposure is always owned: while IB holds a position, the durable lifecycle
\* has a signal open on that side, whatever crashed or timed out on the way.
ExposureIsOwned == pos # 0 => \E s \in Opens : Side(s) = pos

\* When an order reaches IB, the position is still the one it was approved
\* for: an entry opens from flat, an exit closes exactly what its signal owns.
OrdersMatchPosition ==
    [][\A e \in working' \ working :
          IF e.kind = "entry" THEN pos = 0 /\ Opens = {e.sig} ELSE OwnsExactly(e.sig)]_vars

\* A trade BTS declared missed is never traded later, by a replay, after a
\* reconnect or by another process: neither its entry nor its exit is executed.
MissedNeverTraded ==
    \A e \in Event : e.sig \in everMissed => ledger[e] = Unknown /\ e \notin working

\* The replay comes first: no order reaches IB before the replay is drained and
\* the heartbeat that follows it was seen in this session, that of a recovered
\* exit included (post_replay_heartbeat_seen).  A replayed entry is history and
\* is never ordered.
OrdersFollowReplay ==
    [][\A e \in working' \ working :
          session.heartbeat /\ session.left = 0 /\ (e \in replayed => e.kind = "exit")]_vars

\* Resuming after the durable cursor loses nothing: every frame up to it was
\* consumed.
NothingSkipped ==
    \A i \in 1 .. Len(log) : i <= cursor => log[i] \in processed

\* A replayed exit is consumed only after its obligation is durable: while
\* IB still holds the position of its signal, it is in the ledger.
ReplayedExitIsReserved ==
    \A e \in replayed : e.kind = "exit" /\ OwnsExactly(e.sig) => ledger[e] # Unknown

\* The same for every exit as long as the process does not die between
\* the consumption of a live exit and its reservation.
ConsumedExitIsReserved ==
    \A e \in processed :
        e.kind = "exit" /\ OwnsExactly(e.sig) /\ task # Task("consumedExit", e)
            => ledger[e] # Unknown

\* "Their eventual exits will be consumed with NO broker order", and
\* "Unknown/non-BTC exit ignored": the replayed exit of a missed trade, or of
\* another instrument, does not end the process.
UnownedExitsConsumed ==
    ~ (halted.at = "replay" /\ (halted.ev.sig \in everMissed \/ halted.ev.sig \notin Bitcoin))

\* A reserved exit that lost IB is retried on a later heartbeat: taking it up
\* does not end the process.
ReservedExitRetried == halted.at # "recovery"

-----------------------------------------------------------------------------
\* Liveness: Eagle and the connections keep delivering, so that the main
\* thread always takes a next step it can take, and IB ends every order it
\* works.  A retry that finds IB away changes nothing (HelloWithoutIB,
\* HeartbeatWithoutIB) and is no step for WF: TWS is assumed to come back, so
\* that Hello or Heartbeat is taken at last.  Nothing is assumed of crashes,
\* drops and their order.
FairSpec ==
    /\ Spec
    /\ WF_vars(MainThread)
    /\ \A e \in Event : WF_vars(\E status \in Terminal : BrokerEnds(e, status))
    /\ \A e \in Event : WF_vars(\E status \in Terminal : Answer(e, status))

\* Eagle's exit of the signal BTS owns is followed: the position is closed, or
\* the process stops for the operator.  It never sits in a loop of
\* reconnections with the exit unanswered.
ExitIsFollowed ==
    \A s \in Bitcoin :
        Ev("exit", s) \in Published /\ OwnsExactly(s) ~> pos = 0 \/ task.step = "down"

=============================================================================
