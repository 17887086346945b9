--------------------------- MODULE PaperTraderProofs --------------------------
(***************************************************************************)
(* What holds of the continuous paper trader for every set of signals, for *)
(* every stream Eagle publishes of them and every number of crashes, lost  *)
(* connections and positions closed by hand.                               *)
(***************************************************************************)
EXTENDS PaperTrader, SequenceTheorems, TLAPS

-----------------------------------------------------------------------------
(* The inductive invariant, in named parts.                                *)

Away == {"down", "connecting"}                   \* no session is open
OfEvent == Step \ (Away \cup {"listening"})      \* an event is under way
LiveStep == OfEvent \ {"replayEntry", "replayExit"}
EntryStep == {"consumedEntry", "committedEntry", "reservedEntry"}
ExitStep == {"replayExit", "consumedExit", "reservedExit"}
Approved == {"committedEntry", "reservedEntry"}
Unsent == {"Unknown", "Reserved"}
Entry(s) == Ev("entry", s)
Exit(s)  == Ev("exit", s)

\* Eagle's stream: no frame comes twice, and an exit comes after its entry.
LogInv ==
    /\ \A i, j \in 1 .. Len(log) : log[i] = log[j] => i = j
    /\ \A j \in 1 .. Len(log) : log[j].kind = "exit" =>
           \E i \in 1 .. Len(log) : i < j /\ log[i] = Entry(log[j].sig)

\* Where the session stands in the stream, and which frame is under way.
WindowInv ==
    /\ session.sent + session.left <= Len(log)
    /\ cursor <= Len(log)
    /\ task.step \in Away => session.sent = 0 /\ session.left = 0
    /\ task.step \in OfEvent =>
           session.sent \in 1 .. Len(log) /\ task.ev = log[session.sent]
    /\ task.step \notin OfEvent => task.ev = NoEvent
    /\ task.step \in EntryStep \cup {"replayEntry"} => task.ev.kind = "entry"
    /\ task.step \in ExitStep => task.ev.kind = "exit"
    /\ task.step \in LiveStep => task.ev.kind # "update"

\* What was consumed lies at or below the cursor.  A live event under way is
\* consumed, and not by a replay.
StoreInv ==
    /\ \A e \in processed : \E i \in 1 .. Len(log) : i <= cursor /\ log[i] = e
    /\ replayed \subseteq processed
    /\ task.step \in LiveStep \cup {"replayEntry"} => task.ev \in processed
    /\ task.step \in LiveStep => task.ev \notin replayed

\* The frames behind the session's position are consumed, but for the exit
\* that is being recovered, and no exit of a missed trade is in the replay.
GapInv ==
    /\ \A i \in 1 .. Len(log) :
           i <= cursor \/ (i <= session.sent /\ (task.step = "replayExit" => i # session.sent))
               => log[i] \in processed
    /\ \A i \in 1 .. Len(log) :
           session.sent < i /\ i <= session.sent + session.left /\ log[i].sig \in missed
             => log[i].kind # "exit"

\* The lifecycle and the ledger against what was consumed.
BooksInv ==
    /\ \A s \in Signal :
           /\ life[s] = "LongOpen" => s \notin Short
           /\ life[s] = "ShortOpen" => s \in Short
           /\ life[s] # "New" => Entry(s) \in processed
           /\ life[s] = "Closed" => Exit(s) \in Published
    /\ \A e \in Event :
           /\ ledger[e] # Unknown => life[e.sig] # "New"
           /\ ledger[e] \notin Unsent => e \in processed
    /\ task.step \in EntryStep \cup ExitStep => ledger[task.ev] \in Unsent
    /\ task.step \in {"consumedExit", "committedEntry"} => task.ev.sig \in Opens
    /\ task.step \in {"reservedExit", "reservedEntry"} => ledger[task.ev] = "Reserved"

\* At most one order works.  It was approved for the position IB still holds,
\* and while an entry works no session is open.
BrokerInv ==
    /\ \A e, f \in working : e = f
    /\ \A e \in working :
           /\ e.kind # "update" /\ ledger[e] = "Submitted" /\ e.sig \in Opens
           /\ \A status \in Terminal : <<e, status>> \notin answers
           /\ e.kind = "exit" => pos = Side(e.sig)
           /\ e.kind = "entry" =>
                  /\ pos = 0 /\ Exit(e.sig) \notin processed
                  /\ task.step \in Away \/ task = Task("waiting", e)
    /\ \A e \in Event, a, b \in Terminal :
           <<e, a>> \in answers => ledger[e] = "Submitted" /\ (<<e, b>> \in answers => a = b)

\* What a step of the main thread has established and nobody can undo.
ApprovalInv ==
    /\ task.step = "consumedEntry" => pos = 0 /\ Opens = {}
    /\ task.step \in Approved => pos = 0 /\ Opens = {task.ev.sig}
    /\ task.step \in EntryStep => working = {} /\ Exit(task.ev.sig) \notin processed
    /\ task.step = "marked" =>
           /\ working = {} /\ ledger[task.ev] = "Submitted"
           /\ \A status \in Terminal : <<task.ev, status>> \notin answers
           /\ task.ev.kind = "exit" => OwnsExactly(task.ev.sig)
           /\ task.ev.kind = "entry" =>
                  /\ pos = 0 /\ Opens = {task.ev.sig}
                  /\ Exit(task.ev.sig) \notin processed
    /\ task.step = "waiting" =>
           /\ working \subseteq {task.ev}
           /\ task.ev.kind = "exit"
              /\ (ledger[task.ev] = "Filled" \/ <<task.ev, "Filled">> \in answers) => pos = 0

\* The owner of the exposure had its entry sent by BTS.
OwnerInv ==
    pos # 0 => \E s \in Opens : Side(s) = pos /\ ledger[Entry(s)] # Unknown

\* Up to where the session's frames are history.
Reached == IF task.step \in Away THEN Len(log) ELSE session.sent + session.left
Past(e) == \E i \in 1 .. Len(log) : i <= Reached /\ log[i] = e

\* The entry of a missed trade is history for every session, and so is its
\* exit unless the session knows that the trade was missed.
MissedInv ==
    /\ missed \subseteq everMissed
    /\ \A e \in Event : e.sig \in everMissed => ledger[e] = Unknown
    /\ \A s \in everMissed :
           /\ Past(Entry(s))
           /\ task.step \notin Away => s \in missed \/ Past(Exit(s))
    /\ task.step \in LiveStep => task.ev.sig \notin everMissed

\* A consumed exit of the signal that owns the exposure is in the ledger.
ExitInv ==
    /\ ReplayedExitIsReserved
    /\ task.step = "replayExit" /\ OwnsExactly(task.ev.sig) => ledger[task.ev] # Unknown
    /\ crashes = 0 => ConsumedExitIsReserved

IInv ==
    /\ TypeOK /\ LogInv /\ WindowInv /\ StoreInv
    /\ ~ GlobalHeartbeats => GapInv
    /\ BooksInv /\ BrokerInv /\ ApprovalInv /\ OwnerInv /\ MissedInv /\ ExitInv

-----------------------------------------------------------------------------
(* Facts about the operators.                                              *)

LEMMA LogType ==
    ASSUME TypeOK
    PROVE  /\ Len(log) \in Nat /\ Len(log) <= MaxSeq
           /\ \A i \in 1 .. Len(log) : log[i] \in Event
BY ElementOfSeq, LenProperties DEF TypeOK

LEMMA StoreType ==
    ASSUME TypeOK
    PROVE  /\ processed \subseteq Event
           /\ cursor \in Int /\ cursor >= -1 /\ cursor <= MaxSeq
           /\ accepted \subseteq Event \X (0 .. MaxSeq)
BY BoundsAssumption DEF TypeOK, Store!StoreTypeOK, Store!SeqNo, Store!NoSeq

LEMMA TaskType ==
    ASSUME TypeOK
    PROVE  /\ task.step \in Step /\ task.ev \in Event \cup {NoEvent}
           /\ task = Task(task.step, task.ev)
BY DEF TypeOK, Task

LEMMA EventIsNotNoEvent == NoEvent \notin Event
<1>1. ASSUME NoEvent \in Event PROVE FALSE
  <2>1. NoEvent.kind \in {"entry", "update", "exit"}
    BY <1>1 DEF Event
  <2> QED
    BY <2>1 DEF NoEvent
<1> QED
  BY <1>1

LEMMA EventFacts ==
    /\ \A e \in Event : e.kind \in {"entry", "update", "exit"} /\ e.sig \in Signal
    /\ \A e \in Event : e.kind = "entry" => e = Entry(e.sig)
    /\ \A e \in Event : e.kind = "exit" => e = Exit(e.sig)
    /\ \A s \in Signal : /\ Entry(s) \in Event /\ Entry(s).kind = "entry" /\ Entry(s).sig = s
                         /\ Exit(s) \in Event /\ Exit(s).kind = "exit" /\ Exit(s).sig = s
BY DEF Event, Entry, Exit, Ev

\* The frame a session takes next.
LEMMA FrameFacts ==
    ASSUME TypeOK, WindowInv, task = Listening, session.sent < Len(log)
    PROVE  /\ session.sent + 1 \in 1 .. Len(log)
           /\ Frame = log[session.sent + 1] /\ Frame \in Event
<1>1. session.sent \in Nat
  BY BoundsAssumption DEF TypeOK
<1> QED
  BY <1>1, LogType DEF Frame

LEMMA TakenFrame ==
    ASSUME TypeOK, WindowInv, ReplayFrame \/ LiveFrame
    PROVE  /\ task = Listening /\ task.step = "listening"
           /\ session.sent \in Nat /\ session.left \in Nat
           /\ session.sent < Len(log)
           /\ session.sent + 1 \in 1 .. Len(log)
           /\ Frame = log[session.sent + 1] /\ Frame \in Event
<1>1. session.sent \in Nat /\ session.left \in Nat
  BY BoundsAssumption DEF TypeOK
<1>2. session.sent < Len(log)
  BY <1>1, LogType DEF WindowInv, ReplayFrame, LiveFrame
<1>3. task = Listening /\ task.step = "listening"
  BY DEF ReplayFrame, LiveFrame, Listening, Task
<1> QED
  BY <1>1, <1>2, <1>3, FrameFacts

\* check_and_mark_event_with_seq on an eligible frame.
LEMMA EligibleFacts ==
    ASSUME TypeOK, session.sent + 1 \in Nat
    PROVE  Eligible <=> Frame \notin processed /\ cursor < session.sent + 1
BY StoreType DEF Eligible, Store!Eligibility

LEMMA ConsumeFacts ==
    ASSUME TypeOK, session.sent + 1 \in Nat, Consume
    PROVE  \/ /\ Eligible /\ Frame \notin processed /\ cursor < session.sent + 1
              /\ processed' = processed \cup {Frame} /\ cursor' = session.sent + 1
              /\ accepted' = accepted \cup {<<Frame, session.sent + 1>>}
           \/ /\ ~ Eligible /\ (Frame \in processed \/ session.sent + 1 <= cursor)
              /\ UNCHANGED store
BY EligibleFacts, StoreType DEF Consume, Store!CheckAndMarkEventWithSeq

\* The lifecycle guard, for the two kinds of events it decides.
LEMMA CommitFacts ==
    ASSUME TypeOK, NEW e \in Event, e.kind \in {"entry", "exit"}, Commit(e)
    PROVE  \/ /\ life' = life
              /\ e.kind = "entry" => life[e.sig] # "New"
              /\ e.kind = "exit" => e.sig \notin Opens
           \/ /\ e.kind = "entry" /\ life[e.sig] = "New"
              /\ life' = [life EXCEPT ![e.sig] = IF e.sig \in Short THEN "ShortOpen"
                                                 ELSE "LongOpen"]
           \/ /\ e.kind = "exit" /\ e.sig \in Opens
              /\ life' = [life EXCEPT ![e.sig] = "Closed"]
<1>0. e.sig \in Signal /\ life[e.sig] \in {"New", "LongOpen", "ShortOpen", "Closed"}
  BY EventFacts DEF TypeOK
<1>1. CASE e.kind = "entry"
  <2>1. Intent(e) = IF e.sig \in Short THEN "SellToOpen" ELSE "BuyToOpen"
    BY <1>1 DEF Intent
  <2>2. CASE life[e.sig] = "New"
    <3>1. NextState(life[e.sig], Intent(e))
            = {IF e.sig \in Short THEN "ShortOpen" ELSE "LongOpen"}
      BY <2>1, <2>2 DEF NextState
    <3> QED
      BY <1>1, <2>2, <3>1 DEF Commit
  <2>3. CASE life[e.sig] # "New"
    <3>1. NextState(life[e.sig], Intent(e)) = {}
      BY <1>0, <2>1, <2>3 DEF NextState
    <3> QED
      BY <1>1, <2>3, <3>1 DEF Commit
  <2> QED
    BY <2>2, <2>3
<1>2. CASE e.kind = "exit"
  <2>1. Intent(e) = IF life[e.sig] = "LongOpen" THEN "SellToClose" ELSE "BuyToClose"
    BY <1>2 DEF Intent
  <2>2. CASE life[e.sig] \in {"LongOpen", "ShortOpen"}
    <3>1. NextState(life[e.sig], Intent(e)) = {"Closed"}
      BY <2>1, <2>2 DEF NextState
    <3> QED
      BY <1>0, <1>2, <2>2, <3>1 DEF Commit, Opens
  <2>3. CASE life[e.sig] \notin {"LongOpen", "ShortOpen"}
    <3>1. NextState(life[e.sig], Intent(e)) = {}
      BY <1>0, <2>1, <2>3 DEF NextState
    <3> QED
      BY <1>0, <1>2, <2>3, <3>1 DEF Commit, Opens
  <2> QED
    BY <2>2, <2>3
<1> QED
  BY <1>1, <1>2

\* What a signal owns: one side, never nothing.
LEMMA SideFacts == \A s \in Signal : Side(s) \in {-1, 1}
BY DEF Side

LEMMA OwnsFacts ==
    ASSUME NEW s \in Signal, OwnsExactly(s)
    PROVE  s \in Opens /\ pos = Side(s) /\ pos # 0
BY SideFacts DEF OwnsExactly

-----------------------------------------------------------------------------
(* The steps that leave an event, by an exception, a crash or a lost       *)
(* connection, do the same to everything but the budgets and the flags.    *)

Leaves ==
    /\ task' \in {Task("down", NoEvent), Task("connecting", NoEvent)}
    /\ session' \in [sent : {0}, left : {0}, heartbeat : {FALSE}, gap : {FALSE},
                     again : BOOLEAN, proof : Event \cup {NoEvent}]
    /\ missed' = {}
    /\ ib' \in BOOLEAN /\ answers' \in {answers, {}}
    /\ UNCHANGED <<log, store, life, ledger, pos, working, everMissed, replayed>>
    /\ task.step = "consumedExit" => crashes' # 0
    /\ crashes' = 0 => crashes = 0

LEMMA HaltLeaves ==
    ASSUME TypeOK, NEW at, NEW e, Halt(at, e), task.step # "consumedExit"
    PROVE  Leaves
BY DEF Halt, StopProcess, Leaves, NoSession, budget

LEMMA LoseSessionLeaves ==
    ASSUME TypeOK, LoseSession, task.step # "consumedExit", crashes' = crashes
    PROVE  Leaves
BY DEF LoseSession, Leaves, NoSession, TypeOK, broker, past

LEMMA RefreshFailsLeaves ==
    ASSUME TypeOK, NEW at, NEW e, RefreshFails(at, e), task.step # "consumedExit"
    PROVE  Leaves
<1>1. CASE Halt(at, e)
  BY <1>1, HaltLeaves
<1>2. CASE LoseSession /\ UNCHANGED budget
  BY <1>2, LoseSessionLeaves DEF budget
<1> QED
  BY <1>1, <1>2 DEF RefreshFails

\* Every way to end the process or the session.
Ending ==
    \/ HelloRaises \/ HelloWithoutIB \/ RecoveryRaises \/ HeartbeatRaises
    \/ ReplayedExitRaises \/ LiveUnauthorized \/ LiveExitRaises \/ LiveEntryRaises
    \/ WaitTimesOut \/ OrderRaises \/ SettleFails \/ EagleDrops \/ Crash

LEMMA EndingLeaves == TypeOK /\ Ending => Leaves
<1> SUFFICES ASSUME TypeOK, Ending PROVE Leaves
  OBVIOUS
<1>0. task = Listening => task.step = "listening"
  BY DEF Listening, Task
<1>1. CASE HelloRaises
  BY <1>1, HaltLeaves DEF HelloRaises
<1>2. CASE HelloWithoutIB
  BY <1>2, LoseSessionLeaves DEF HelloWithoutIB, budget
<1>3. CASE RecoveryRaises
  BY <1>0, <1>3, HaltLeaves DEF RecoveryRaises, RecoveryReached
<1>4. CASE HeartbeatRaises
  BY <1>0, <1>4, HaltLeaves DEF HeartbeatRaises
<1>5. CASE ReplayedExitRaises
  BY <1>0, <1>5, HaltLeaves, RefreshFailsLeaves DEF ReplayedExitRaises, ReplayedExit, ReplayFrame
<1>6. CASE LiveUnauthorized
  BY <1>0, <1>6, HaltLeaves DEF LiveUnauthorized, LiveFrame
<1>7. CASE LiveExitRaises
  BY <1>0, <1>7, HaltLeaves DEF LiveExitRaises, LiveExit, LiveFrame
<1>8. CASE LiveEntryRaises
  BY <1>0, <1>8, HaltLeaves, RefreshFailsLeaves DEF LiveEntryRaises, LiveEntry, LiveFrame
<1>9. CASE WaitTimesOut
  BY <1>9, LoseSessionLeaves DEF WaitTimesOut, budget
<1>10. CASE OrderRaises
  BY <1>10, HaltLeaves DEF OrderRaises
<1>11. CASE SettleFails
  BY <1>11, RefreshFailsLeaves DEF SettleFails
<1>12. CASE EagleDrops
  BY <1>12, LoseSessionLeaves DEF EagleDrops
<1>13. CASE Crash
  <2>1. crashes' # 0
    BY <1>13, BoundsAssumption DEF Crash, TypeOK
  <2>2. StopProcess /\ UNCHANGED past
    BY <1>13 DEF Crash
  <2> QED
    BY <2>1, <2>2 DEF StopProcess, Leaves, past, NoSession
<1> QED
  BY <1>1, <1>2, <1>3, <1>4, <1>5, <1>6, <1>7, <1>8, <1>9, <1>10, <1>11, <1>12, <1>13
     DEF Ending

\* The steps of Next, with those that leave an event taken together.
LEMMA NextCases ==
    Next => \/ Ending
            \/ Start \/ Hello \/ (\E h \in Heartbeats : Heartbeat(h)) \/ HeartbeatWithoutIB
            \/ ReplayIgnored \/ ReplayConsumed \/ CommitReplayedEntry
            \/ RecoverReplayedExit \/ ConsumeReplayedExit
            \/ LiveIgnored \/ ConsumeExit \/ ReserveExit \/ SubmitExit \/ PostponeExit
            \/ MissEntry \/ ConsumeEntry \/ CommitEntry \/ ReserveEntry \/ SubmitEntry
            \/ PlaceOrder \/ OrderFilled \/ Settle
            \/ (\E e \in Event : EaglePublishes(e))
            \/ (\E e \in Event, status \in Terminal : BrokerEnds(e, status))
            \/ (\E e \in Event, status \in Terminal : Answer(e, status))
            \/ IBDrops \/ Flatten
BY DEF Next, MainThread, External, Sessions, Replay, Live, Ending

-----------------------------------------------------------------------------
(* The durable stores, the task and the session keep their types.          *)

\* The parts of TypeOK that the main thread decides ...
BookTypes ==
    /\ Store!StoreTypeOK
    /\ life \in [Signal -> {"New", "LongOpen", "ShortOpen", "Closed"}]
    /\ ledger \in [Event -> Status]
    /\ missed \subseteq Bitcoin /\ everMissed \subseteq Bitcoin
    /\ replayed \subseteq Event
TaskTypes ==
    /\ task \in [step : Step, ev : Event \cup {NoEvent}]
    /\ session \in [sent : 0 .. MaxSeq, left : 0 .. MaxSeq, heartbeat : BOOLEAN,
                    gap : BOOLEAN, again : BOOLEAN, proof : Event \cup {NoEvent}]
\* ... and those that Eagle, IB and the operator decide.
OutsideTypes ==
    /\ log \in Seq(Event) /\ Len(log) <= MaxSeq
    /\ ib \in BOOLEAN
    /\ pos \in -1 .. 1
    /\ working \subseteq Event
    /\ answers \subseteq Event \X Terminal
PastTypes ==
    /\ halted \in [at : {"nowhere", "hello", "heartbeat", "recovery", "replay",
                         "event", "order"},
                   ev : Event \cup {NoEvent}]
    /\ crashes \in 0 .. MaxCrashes
    /\ eagleDrops \in 0 .. MaxEagleDrops
    /\ ibDrops \in 0 .. MaxIBDrops
    /\ flattens \in 0 .. MaxFlattens

LEMMA TypeParts == TypeOK <=> BookTypes /\ TaskTypes /\ OutsideTypes /\ PastTypes
BY DEF TypeOK, BookTypes, TaskTypes, OutsideTypes, PastTypes

LEMMA StoreTypeStep ==
    ASSUME TypeOK, WindowInv, Next
    PROVE  Store!StoreTypeOK'
<1> USE DEF Store!StoreTypeOK, Store!SeqNo, Store!NoSeq, store
<1>0. Store!StoreTypeOK /\ MaxSeq \in Nat
  BY BoundsAssumption DEF TypeOK
<1>1. ASSUME UNCHANGED store PROVE Store!StoreTypeOK'
  BY <1>0, <1>1
<1>2. ASSUME ReplayFrame \/ LiveFrame, Consume PROVE Store!StoreTypeOK'
  <2>1. session.sent + 1 \in 0 .. MaxSeq /\ Frame \in Event
    BY <1>2, TakenFrame, LogType, <1>0
  <2> QED
    BY <1>0, <1>2, <2>1, ConsumeFacts
<1>3. CASE Ending
  BY <1>1, <1>3, EndingLeaves DEF Leaves
<1>4. CASE Start \/ Hello \/ HeartbeatWithoutIB \/ ReplayIgnored \/ CommitReplayedEntry
           \/ RecoverReplayedExit \/ ReserveExit \/ SubmitExit \/ PostponeExit
  BY <1>1, <1>4 DEF Start, Hello, HeartbeatWithoutIB, ReplayIgnored, CommitReplayedEntry,
     RecoverReplayedExit, ReserveExit, SubmitExit, PostponeExit
<1>5. CASE CommitEntry \/ ReserveEntry \/ SubmitEntry \/ PlaceOrder \/ OrderFilled \/ Settle
           \/ IBDrops \/ Flatten
  BY <1>1, <1>5 DEF CommitEntry, ReserveEntry, SubmitEntry, PlaceOrder, OrderFilled, Settle,
     IBDrops, Flatten
<1>6. ASSUME NEW e \in Event, EaglePublishes(e) PROVE Store!StoreTypeOK'
  BY <1>1, <1>6 DEF EaglePublishes
<1>7. ASSUME NEW e \in Event, NEW status \in Terminal, BrokerEnds(e, status) \/ Answer(e, status)
      PROVE  Store!StoreTypeOK'
  BY <1>1, <1>7 DEF BrokerEnds, Answer
<1>8. ASSUME NEW h \in Heartbeats, Heartbeat(h) PROVE Store!StoreTypeOK'
  <2>1. h \in 0 .. MaxSeq
    <3>1. session.sent \in 0 .. MaxSeq
      BY DEF TypeOK
    <3>2. Len(log) \in 0 .. MaxSeq
      BY LogType, <1>0
    <3> QED
      BY <3>1, <3>2 DEF Heartbeats
  <2> QED
    BY <1>0, <1>8, <2>1 DEF Heartbeat, Store!MarkSeqProcessed
<1>9. CASE ReplayConsumed \/ LiveIgnored \/ ConsumeExit \/ MissEntry \/ ConsumeEntry
  BY <1>2, <1>9 DEF ReplayConsumed, LiveIgnored, ConsumeExit, LiveExit, MissEntry,
     ConsumeEntry, LiveEntry
<1>10. CASE ConsumeReplayedExit
  <2>1. task.ev \in Event /\ session.sent \in 0 .. MaxSeq
    BY <1>10, LogType, EventFacts DEF ConsumeReplayedExit, WindowInv, OfEvent, Away, Step, TypeOK
  <2> QED
    BY <1>0, <1>10, <2>1 DEF ConsumeReplayedExit, Store!CheckAndMarkEventWithSeq
<1> QED
  BY <1>3, <1>4, <1>5, <1>6, <1>7, <1>8, <1>9, <1>10, NextCases

LEMMA BookTypeStep ==
    ASSUME TypeOK, WindowInv, Next
    PROVE  BookTypes'
<1> DEFINE Books == <<life, ledger, missed, everMissed, replayed>>
<1>s. Store!StoreTypeOK'
  BY StoreTypeStep
<1>0. BookTypes
  BY TypeParts
<1>1. ASSUME UNCHANGED Books PROVE BookTypes'
  BY <1>s, <1>0, <1>1 DEF BookTypes
<1>2. ASSUME NEW e \in Event, e.kind \in {"entry", "exit"}, Commit(e)
      PROVE  life' \in [Signal -> {"New", "LongOpen", "ShortOpen", "Closed"}]
  BY <1>2, <1>0, CommitFacts DEF BookTypes
<1>3. ASSUME NEW e \in Event, NEW st \in Status, ledger' = [ledger EXCEPT ![e] = st]
      PROVE  ledger' \in [Event -> Status]
  BY <1>0, <1>3 DEF BookTypes
<1>4. task.step \in OfEvent => task.ev \in Event
  BY LogType DEF WindowInv
<1>5. Status = {"Unknown", "Reserved", "Submitted", "Filled", "Rejected"}
  BY DEF Status, Terminal, Unknown
<1>6. CASE Ending
  BY <1>6, <1>s, <1>0, EndingLeaves DEF Leaves, BookTypes
<1>7. CASE Start \/ HeartbeatWithoutIB \/ ReplayIgnored \/ ConsumeExit \/ PostponeExit
           \/ ConsumeEntry \/ PlaceOrder \/ Settle \/ IBDrops \/ Flatten
  BY <1>1, <1>7 DEF Start, HeartbeatWithoutIB, ReplayIgnored, ConsumeExit, PostponeExit,
     ConsumeEntry, PlaceOrder, Settle, IBDrops, Flatten, past
<1>8. CASE Hello
  <2>1. MissedAtHello \subseteq Bitcoin
    BY DEF MissedAtHello, EagleOpen
  <2> QED
    BY <1>8, <1>s, <1>0, <2>1 DEF Hello, BookTypes
<1>9. ASSUME NEW h, Heartbeat(h) PROVE BookTypes'
  BY <1>1, <1>9 DEF Heartbeat, past
<1>10. CASE ReplayConsumed
  <2>1. Frame \in Event
    BY <1>10, TakenFrame DEF ReplayConsumed
  <2> QED
    BY <1>10, <1>s, <1>0, <2>1 DEF ReplayConsumed, BookTypes
<1>11. CASE ConsumeReplayedExit
  BY <1>11, <1>s, <1>0, <1>4 DEF ConsumeReplayedExit, BookTypes, OfEvent, Step, Away
<1>12. CASE CommitReplayedEntry \/ CommitEntry
  <2>1. task.ev \in Event /\ task.ev.kind = "entry" /\ Commit(task.ev)
    BY <1>4, <1>12 DEF WindowInv, CommitReplayedEntry, CommitEntry, OfEvent, Step, Away, EntryStep
  <2> QED
    BY <1>12, <1>s, <1>0, <1>2, <2>1 DEF CommitReplayedEntry, CommitEntry, BookTypes, past
<1>13. CASE RecoverReplayedExit
  <2>1. Frame \in Event /\ Frame.kind = "exit"
    BY <1>13, TakenFrame DEF RecoverReplayedExit, ReplayedExit
  <2>2. life' \in [Signal -> {"New", "LongOpen", "ShortOpen", "Closed"}]
    BY <1>13, <1>0, <1>2, <2>1 DEF RecoverReplayedExit, BookTypes
  <2>3. ledger' \in [Event -> Status]
    BY <1>13, <1>0, <1>3, <1>5, <2>1 DEF RecoverReplayedExit, BookTypes
  <2> QED
    BY <1>13, <1>s, <1>0, <2>2, <2>3 DEF RecoverReplayedExit, BookTypes, past
<1>14. CASE LiveIgnored
  BY <1>14, <1>s, <1>0 DEF LiveIgnored, BookTypes, past
<1>15. CASE ReserveExit \/ SubmitExit \/ ReserveEntry \/ SubmitEntry
  <2>1. task.ev \in Event
    BY <1>4, <1>15 DEF ReserveExit, SubmitExit, ReserveEntry, SubmitEntry, OfEvent, Step, Away
  <2>2. ledger' \in [Event -> Status]
    BY <1>15, <1>3, <1>5, <2>1 DEF ReserveExit, SubmitExit, ReserveEntry, SubmitEntry
  <2> QED
    BY <1>15, <1>s, <1>0, <2>2 DEF ReserveExit, SubmitExit, ReserveEntry, SubmitEntry,
       BookTypes, past
<1>16. CASE MissEntry
  <2>1. Frame.sig \in Bitcoin
    BY <1>16 DEF MissEntry, LiveEntry
  <2> QED
    BY <1>16, <1>s, <1>0, <2>1 DEF MissEntry, BookTypes
<1>17. CASE OrderFilled
  <2>1. task.ev \in Event /\ task.ev.kind \in {"entry", "update", "exit"}
    BY <1>4, <1>17, EventFacts DEF OrderFilled, OfEvent, Step, Away
  <2>2. life' \in [Signal -> {"New", "LongOpen", "ShortOpen", "Closed"}]
    BY <1>17, <1>0, <1>2, <2>1 DEF OrderFilled, BookTypes
  <2> QED
    BY <1>17, <1>s, <1>0, <2>2 DEF OrderFilled, BookTypes, past
<1>18. ASSUME NEW e \in Event, EaglePublishes(e) PROVE BookTypes'
  BY <1>1, <1>18 DEF EaglePublishes, past
<1>19. ASSUME NEW e \in Event, NEW status \in Terminal, BrokerEnds(e, status)
       PROVE  BookTypes'
  BY <1>1, <1>19 DEF BrokerEnds, past
<1>20. ASSUME NEW e \in Event, NEW status \in Terminal, Answer(e, status) PROVE BookTypes'
  <2>1. ledger' \in [Event -> Status]
    BY <1>20, <1>0, <1>3 DEF Answer, Status, BookTypes
  <2> QED
    BY <1>20, <1>s, <1>0, <2>1 DEF Answer, BookTypes, past
<1> QED
  BY <1>6, <1>7, <1>8, <1>9, <1>10, <1>11, <1>12, <1>13, <1>14, <1>15, <1>16, <1>17, <1>18,
     <1>19, <1>20, NextCases

LEMMA TaskTypeStep ==
    ASSUME TypeOK, WindowInv, Next
    PROVE  TaskTypes'
<1> USE DEF TaskTypes
<1>0. TaskTypes /\ MaxSeq \in Nat
  BY TypeParts, BoundsAssumption
<1>1. ASSUME UNCHANGED <<task, session>> PROVE TaskTypes'
  BY <1>0, <1>1
<1>2. ASSUME NEW step \in Step, NEW e \in Event \cup {NoEvent}, task' = Task(step, e)
      PROVE  task' \in [step : Step, ev : Event \cup {NoEvent}]
  BY <1>2 DEF Task
<1>3. ASSUME NEW step \in Step, task' = [task EXCEPT !.step = step]
      PROVE  task' \in [step : Step, ev : Event \cup {NoEvent}]
  BY <1>0, <1>3
<1>4. ASSUME task' = Listening PROVE task' \in [step : Step, ev : Event \cup {NoEvent}]
  BY <1>2, <1>4 DEF Listening, Step
<1>5. ASSUME ReplayFrame, CountReplayFrame
      PROVE  session' \in [sent : 0 .. MaxSeq, left : 0 .. MaxSeq, heartbeat : BOOLEAN,
                           gap : BOOLEAN, again : BOOLEAN, proof : Event \cup {NoEvent}]
  <2>1. session.left - 1 \in 0 .. MaxSeq /\ session.sent + 1 \in 0 .. MaxSeq
    BY <1>0, <1>5, TakenFrame, LogType DEF ReplayFrame
  <2> QED
    BY <1>0, <1>5, <2>1 DEF CountReplayFrame
<1>6. ASSUME LiveFrame, TakeLiveFrame
      PROVE  session' \in [sent : 0 .. MaxSeq, left : 0 .. MaxSeq, heartbeat : BOOLEAN,
                           gap : BOOLEAN, again : BOOLEAN, proof : Event \cup {NoEvent}]
  <2>1. session.sent + 1 \in 0 .. MaxSeq
    BY <1>0, <1>6, TakenFrame, LogType
  <2> QED
    BY <1>0, <1>6, <2>1 DEF TakeLiveFrame
<1>7. Step = {"down", "connecting", "listening", "replayEntry", "replayExit",
              "consumedExit", "reservedExit", "consumedEntry", "committedEntry",
              "reservedEntry", "marked", "waiting", "settling"}
  BY DEF Step
<1>8. CASE Ending
  <2>1. Leaves
    BY <1>8, EndingLeaves
  <2>2. task' \in [step : Step, ev : Event \cup {NoEvent}]
    BY <1>2, <1>7, <2>1 DEF Leaves
  <2>3. session' \in [sent : 0 .. MaxSeq, left : 0 .. MaxSeq, heartbeat : BOOLEAN,
                      gap : BOOLEAN, again : BOOLEAN, proof : Event \cup {NoEvent}]
    <3>1. 0 \in 0 .. MaxSeq
      BY <1>0
    <3> QED
      BY <2>1, <3>1 DEF Leaves
  <2> QED
    BY <2>2, <2>3
<1>9. CASE Start
  <2>1. \A e \in Reserved : e \in Event
    BY DEF Reserved
  <2>2. PICK p \in Event \cup {NoEvent} : session' = [NoSession EXCEPT !.proof = p]
    BY <1>9, <2>1 DEF Start
  <2>3. session' \in [sent : 0 .. MaxSeq, left : 0 .. MaxSeq, heartbeat : BOOLEAN,
                      gap : BOOLEAN, again : BOOLEAN, proof : Event \cup {NoEvent}]
    <3>1. session' = [sent |-> 0, left |-> 0, heartbeat |-> FALSE, gap |-> FALSE,
                      again |-> FALSE, proof |-> p]
      BY <2>2 DEF NoSession
    <3>2. 0 \in 0 .. MaxSeq
      BY <1>0
    <3> QED
      BY <3>1, <3>2
  <2> QED
    BY <1>2, <1>7, <1>9, <2>3 DEF Start
<1>10. CASE Hello
  <2>1. Since \in 0 .. MaxSeq
    BY <1>0, StoreType DEF Since, Store!NoSeq
  <2>2. Len(log) - Since \in 0 .. MaxSeq
    BY <1>0, <2>1, StoreType, LogType DEF Since, Store!NoSeq, WindowInv
  <2>3. (MissedAtHello = {} /\ PossibleGapExit) \in BOOLEAN
    OBVIOUS
  <2>4. session' \in [sent : 0 .. MaxSeq, left : 0 .. MaxSeq, heartbeat : BOOLEAN,
                      gap : BOOLEAN, again : BOOLEAN, proof : Event \cup {NoEvent}]
    BY <1>0, <1>10, <2>1, <2>2, <2>3 DEF Hello
  <2> QED
    BY <1>4, <1>10, <2>4 DEF Hello
<1>11. CASE (\E h \in Heartbeats : Heartbeat(h)) \/ HeartbeatWithoutIB
  <2>1. ReplayComplete \in BOOLEAN
    BY DEF ReplayComplete
  <2> QED
    BY <1>0, <1>11, <2>1 DEF Heartbeat, HeartbeatWithoutIB
<1>12. CASE ReplayIgnored
  BY <1>0, <1>5, <1>12 DEF ReplayIgnored
<1>13. CASE ReplayConsumed
  <2>1. Frame \in Event
    BY <1>13, TakenFrame DEF ReplayConsumed
  <2>2. task' \in [step : Step, ev : Event \cup {NoEvent}]
    BY <1>2, <1>4, <1>7, <1>13, <2>1 DEF ReplayConsumed
  <2> QED
    BY <1>5, <1>13, <2>2 DEF ReplayConsumed
<1>14. CASE RecoverReplayedExit
  <2>1. Frame \in Event /\ ReplayFrame
    BY <1>14, TakenFrame DEF RecoverReplayedExit, ReplayedExit
  <2>2. task' \in [step : Step, ev : Event \cup {NoEvent}]
    BY <1>2, <1>7, <1>14, <2>1 DEF RecoverReplayedExit
  <2> QED
    BY <1>5, <1>14, <2>1, <2>2 DEF RecoverReplayedExit
<1>15. CASE ConsumeReplayedExit
  <2>1. session' \in [sent : 0 .. MaxSeq, left : 0 .. MaxSeq, heartbeat : BOOLEAN,
                      gap : BOOLEAN, again : BOOLEAN, proof : Event \cup {NoEvent}]
    BY <1>0, <1>15 DEF ConsumeReplayedExit
  <2> QED
    BY <1>4, <1>15, <2>1 DEF ConsumeReplayedExit
<1>16. CASE LiveIgnored \/ MissEntry
  BY <1>0, <1>6, <1>16 DEF LiveIgnored, MissEntry, LiveEntry
<1>17. CASE ConsumeExit \/ ConsumeEntry
  <2>1. Frame \in Event /\ LiveFrame /\ TakeLiveFrame
    BY <1>17, TakenFrame DEF ConsumeExit, LiveExit, ConsumeEntry, LiveEntry
  <2>2. task' \in [step : Step, ev : Event \cup {NoEvent}]
    BY <1>2, <1>4, <1>7, <1>17, <2>1 DEF ConsumeExit, ConsumeEntry
  <2> QED
    BY <1>6, <2>1, <2>2
<1>18. CASE CommitReplayedEntry \/ ReserveExit \/ SubmitExit \/ PostponeExit \/ CommitEntry
            \/ ReserveEntry \/ SubmitEntry \/ PlaceOrder \/ OrderFilled \/ Settle
  <2>1. session' = session
    BY <1>18 DEF CommitReplayedEntry, ReserveExit, SubmitExit, PostponeExit, CommitEntry,
       ReserveEntry, SubmitEntry, PlaceOrder, OrderFilled, Settle
  <2>2. \/ task' = Listening
        \/ \E step \in Step : task' = [task EXCEPT !.step = step]
    BY <1>7, <1>18 DEF CommitReplayedEntry, ReserveExit, SubmitExit, PostponeExit, CommitEntry,
       ReserveEntry, SubmitEntry, PlaceOrder, OrderFilled, Settle
  <2> QED
    BY <1>0, <1>3, <1>4, <2>1, <2>2
<1>19. ASSUME NEW e \in Event, EaglePublishes(e) PROVE TaskTypes'
  BY <1>1, <1>19 DEF EaglePublishes
<1>20. ASSUME NEW e \in Event, NEW status \in Terminal, BrokerEnds(e, status) \/ Answer(e, status)
       PROVE  TaskTypes'
  BY <1>1, <1>20 DEF BrokerEnds, Answer
<1>21. CASE IBDrops \/ Flatten
  BY <1>1, <1>21 DEF IBDrops, Flatten
<1> QED
  BY <1>8, <1>9, <1>10, <1>11, <1>12, <1>13, <1>14, <1>15, <1>16, <1>17, <1>18, <1>19, <1>20,
     <1>21, NextCases

-----------------------------------------------------------------------------
(* Eagle's stream and the session's place in it.                           *)

LEMMA LogInvStep ==
    ASSUME TypeOK, LogInv, Next
    PROVE  LogInv' /\ log' \in Seq(Event) /\ Len(log') <= MaxSeq
<1>0. log \in Seq(Event) /\ Len(log) \in Nat /\ Len(log) <= MaxSeq /\ MaxSeq \in Nat
  BY LogType, BoundsAssumption DEF TypeOK
<1>1. ASSUME UNCHANGED log
      PROVE  LogInv' /\ log' \in Seq(Event) /\ Len(log') <= MaxSeq
  BY <1>0, <1>1 DEF LogInv
<1>2. CASE Ending
  BY <1>1, <1>2, EndingLeaves DEF Leaves
<1>3. CASE Start \/ Hello \/ (\E h \in Heartbeats : Heartbeat(h)) \/ HeartbeatWithoutIB
           \/ ReplayIgnored \/ ReplayConsumed \/ CommitReplayedEntry
           \/ RecoverReplayedExit \/ ConsumeReplayedExit
  BY <1>1, <1>3 DEF Start, Hello, Heartbeat, HeartbeatWithoutIB, ReplayIgnored,
     ReplayConsumed, CommitReplayedEntry, RecoverReplayedExit, ConsumeReplayedExit
<1>4. CASE LiveIgnored \/ ConsumeExit \/ ReserveExit \/ SubmitExit \/ PostponeExit
           \/ MissEntry \/ ConsumeEntry \/ CommitEntry \/ ReserveEntry \/ SubmitEntry
  BY <1>1, <1>4 DEF LiveIgnored, ConsumeExit, ReserveExit, SubmitExit, PostponeExit,
     MissEntry, ConsumeEntry, CommitEntry, ReserveEntry, SubmitEntry
<1>5. CASE PlaceOrder \/ OrderFilled \/ Settle \/ IBDrops \/ Flatten
  BY <1>1, <1>5 DEF PlaceOrder, OrderFilled, Settle, IBDrops, Flatten
<1>6. ASSUME NEW e \in Event, NEW status \in Terminal, BrokerEnds(e, status) \/ Answer(e, status)
      PROVE  LogInv' /\ log' \in Seq(Event) /\ Len(log') <= MaxSeq
  BY <1>1, <1>6 DEF BrokerEnds, Answer
<1>7. ASSUME NEW e \in Event, EaglePublishes(e)
      PROVE  LogInv' /\ log' \in Seq(Event) /\ Len(log') <= MaxSeq
  <2>1. /\ log' \in Seq(Event)
        /\ Len(log') = Len(log) + 1 /\ Len(log') <= MaxSeq
        /\ \A i \in 1 .. Len(log) : log'[i] = log[i]
        /\ log'[Len(log) + 1] = e
    BY <1>0, <1>7, AppendProperties DEF EaglePublishes
  <2>2. \A i \in 1 .. Len(log) : log[i] # e
    BY <1>7 DEF EaglePublishes, Published
  <2>3. \A i, j \in 1 .. Len(log') : log'[i] = log'[j] => i = j
    BY <1>0, <2>1, <2>2 DEF LogInv
  <2>4. e.kind = "exit" => \E i \in 1 .. Len(log) : log[i] = Entry(e.sig)
    BY <1>7 DEF EaglePublishes, Published, Entry
  <2>5. \A j \in 1 .. Len(log') : log'[j].kind = "exit" =>
            \E i \in 1 .. Len(log') : i < j /\ log'[i] = Entry(log'[j].sig)
    <3> SUFFICES ASSUME NEW j \in 1 .. Len(log'), log'[j].kind = "exit"
                 PROVE  \E i \in 1 .. Len(log') : i < j /\ log'[i] = Entry(log'[j].sig)
      OBVIOUS
    <3>1. CASE j = Len(log) + 1
      BY <1>0, <2>1, <2>4, <3>1
    <3>2. CASE j # Len(log) + 1
      BY <1>0, <2>1, <3>2 DEF LogInv
    <3> QED
      BY <3>1, <3>2
  <2> QED
    BY <2>1, <2>3, <2>5 DEF LogInv
<1> QED
  BY <1>2, <1>3, <1>4, <1>5, <1>6, <1>7, NextCases

\* What a publication does to the log, for the lemmas that follow.
LEMMA PublishFacts ==
    ASSUME TypeOK, NEW e \in Event, EaglePublishes(e)
    PROVE  /\ Len(log') = Len(log) + 1
           /\ \A i \in 1 .. Len(log) : i \in 1 .. Len(log') /\ log'[i] = log[i]
           /\ log'[Len(log) + 1] = e
           /\ Published \subseteq Published'
<1>1. /\ Len(log') = Len(log) + 1 /\ Len(log) \in Nat
      /\ \A i \in 1 .. Len(log) : log'[i] = log[i]
      /\ log'[Len(log) + 1] = e
  BY AppendProperties, LogType DEF EaglePublishes, TypeOK
<1>2. \A i \in 1 .. Len(log) : i \in 1 .. Len(log') /\ log'[i] = log[i]
  BY <1>1
<1> QED
  BY <1>1, <1>2 DEF Published

LEMMA WindowInvStep ==
    ASSUME TypeOK, LogInv, WindowInv, Next
    PROVE  WindowInv'
<1>0. /\ session.sent \in Nat /\ session.left \in Nat /\ cursor \in Int
      /\ Len(log) \in Nat /\ session.sent + session.left <= Len(log) /\ cursor <= Len(log)
  BY LogType, StoreType, BoundsAssumption DEF TypeOK, WindowInv
<1>n. NoEvent \notin Event
  BY EventIsNotNoEvent
<1> USE DEF Away, OfEvent, LiveStep, EntryStep, ExitStep
<1>s. Step = {"down", "connecting", "listening", "replayEntry", "replayExit",
              "consumedExit", "reservedExit", "consumedEntry", "committedEntry",
              "reservedEntry", "marked", "waiting", "settling"}
  BY DEF Step
\* A step that takes no frame and stays with its event, or drops it.
<1>1. ASSUME UNCHANGED <<log, session>>, cursor' = cursor,
             task.step \in OfEvent,
             \/ task' = Listening
             \/ /\ task' = [task EXCEPT !.step = task'.step]
                /\ task'.step \in LiveStep
                /\ task'.step \in EntryStep => task.ev.kind = "entry"
                /\ task'.step \in ExitStep => task.ev.kind = "exit"
                /\ task.ev.kind # "update"
      PROVE  WindowInv'
  <2>1. CASE task' = Listening
    BY <1>0, <1>1, <1>s, <2>1 DEF WindowInv, Listening, Task
  <2>2. CASE task' # Listening
    <3>1. task'.ev = task.ev /\ task'.step \in OfEvent
      BY <1>1, <2>2 DEF TypeOK
    <3> QED
      BY <1>0, <1>1, <1>s, <2>2, <3>1 DEF WindowInv
  <2> QED
    BY <2>1, <2>2
<1>2. ASSUME UNCHANGED <<log, task>>, cursor' = cursor,
             session'.sent = session.sent, session'.left = session.left
      PROVE  WindowInv'
  BY <1>0, <1>2 DEF WindowInv
<1>3. CASE Ending
  BY <1>0, <1>3, <1>s, EndingLeaves DEF Leaves, WindowInv, store, Task
<1>4. CASE Start
  <2>1. session'.sent = 0 /\ session'.left = 0
    BY <1>4 DEF Start, NoSession
  <2> QED
    BY <1>0, <1>4, <1>s, <2>1 DEF Start, WindowInv, store, Task
<1>5. CASE Hello
  <2>1. session'.sent = Since /\ session'.left = Len(log) - Since /\ Since \in Int
    BY <1>0, <1>5 DEF Hello, Since
  <2> QED
    BY <1>0, <1>5, <1>s, <2>1 DEF Hello, WindowInv, store, Listening, Task
<1>6. ASSUME NEW h \in Heartbeats, Heartbeat(h) PROVE WindowInv'
  <2>1. h <= Len(log)
    BY <1>0 DEF Heartbeats
  <2>2. cursor' \in {cursor, h}
    BY <1>6 DEF Heartbeat, Store!MarkSeqProcessed, store
  <2> QED
    BY <1>0, <1>6, <2>1, <2>2 DEF Heartbeat, WindowInv, TypeOK
<1>7. CASE HeartbeatWithoutIB
  BY <1>2, <1>7 DEF HeartbeatWithoutIB, store, TypeOK
<1>8. ASSUME ReplayFrame, CountReplayFrame
      PROVE  /\ session'.sent = session.sent + 1
             /\ session'.sent + session'.left = session.sent + session.left
  BY <1>0, <1>8 DEF CountReplayFrame, TypeOK
<1>9. ASSUME LiveFrame, TakeLiveFrame
      PROVE  session'.sent = session.sent + 1 /\ session'.left = 0
  BY <1>0, <1>9 DEF TakeLiveFrame, TypeOK, LiveFrame
<1>10. CASE ReplayIgnored
  BY <1>0, <1>8, <1>10, <1>s, TakenFrame DEF ReplayIgnored, WindowInv, store
<1>11. CASE ReplayConsumed
  <2>1. cursor' \in {cursor, session.sent + 1}
    BY <1>0, <1>11, ConsumeFacts DEF ReplayConsumed, store
  <2>2. \/ task' = Task("replayEntry", Frame) /\ Frame.kind = "entry"
        \/ task' = Listening
    BY <1>11 DEF ReplayConsumed
  <2> QED
    BY <1>0, <1>8, <1>11, <1>s, <2>1, <2>2, TakenFrame DEF ReplayConsumed, WindowInv, Listening, Task
<1>12. CASE RecoverReplayedExit
  <2>1. Frame.kind = "exit" /\ ReplayFrame
    BY <1>12 DEF RecoverReplayedExit, ReplayedExit
  <2> QED
    BY <1>0, <1>8, <1>12, <1>s, <2>1, TakenFrame DEF RecoverReplayedExit, WindowInv, store, Task
<1>13. CASE ConsumeReplayedExit
  <2>1. session'.sent = session.sent /\ session'.left = session.left
    BY <1>13 DEF ConsumeReplayedExit, TypeOK
  <2>2. cursor' = session.sent /\ task' = Listening /\ log' = log
    BY <1>13 DEF ConsumeReplayedExit, Store!CheckAndMarkEventWithSeq
  <2> QED
    BY <1>0, <1>s, <2>1, <2>2 DEF WindowInv, Listening, Task
<1>14. CASE LiveIgnored \/ MissEntry
  <2>1. LiveFrame /\ TakeLiveFrame /\ Consume /\ log' = log /\ task' = task
    BY <1>14 DEF LiveIgnored, MissEntry, LiveEntry
  <2>2. cursor' \in {cursor, session.sent + 1}
    BY <1>0, <2>1, ConsumeFacts DEF store
  <2> QED
    BY <1>0, <1>9, <1>s, <2>1, <2>2, TakenFrame DEF WindowInv
<1>15. CASE ConsumeExit \/ ConsumeEntry
  <2>1. LiveFrame /\ TakeLiveFrame /\ Consume /\ log' = log
    BY <1>15 DEF ConsumeExit, LiveExit, ConsumeEntry, LiveEntry
  <2>2. cursor' \in {cursor, session.sent + 1}
    BY <1>0, <2>1, ConsumeFacts DEF store
  <2>3. \/ task' = Listening
        \/ task' = Task("consumedExit", Frame) /\ Frame.kind = "exit"
        \/ task' = Task("consumedEntry", Frame) /\ Frame.kind = "entry"
    BY <1>15 DEF ConsumeExit, LiveExit, OpenExit, ConsumeEntry, LiveEntry
  <2> QED
    BY <1>0, <1>9, <1>s, <2>1, <2>2, <2>3, TakenFrame DEF WindowInv, Listening, Task
<1>16. CASE CommitReplayedEntry \/ PostponeExit \/ Settle
  <2>1. task' = Listening /\ UNCHANGED <<log, session>> /\ cursor' = cursor /\ task.step \in OfEvent
    BY <1>16, <1>s DEF CommitReplayedEntry, PostponeExit, Settle, store
  <2> QED
    BY <1>1, <2>1
<1>17. CASE ReserveExit \/ SubmitExit \/ ReserveEntry \/ SubmitEntry
  <2>1. UNCHANGED <<log, session>> /\ cursor' = cursor /\ task.step \in OfEvent
    BY <1>17, <1>s DEF ReserveExit, SubmitExit, ReserveEntry, SubmitEntry, store
  <2> QED
    BY <1>1, <1>17, <1>s, <2>1
       DEF ReserveExit, SubmitExit, ReserveEntry, SubmitEntry, WindowInv, TypeOK
<1>18. CASE CommitEntry \/ PlaceOrder \/ OrderFilled
  <2>1. UNCHANGED <<log, session>> /\ cursor' = cursor /\ task.step \in OfEvent
    BY <1>18, <1>s DEF CommitEntry, PlaceOrder, OrderFilled, store
  <2> QED
    BY <1>1, <1>18, <1>s, <2>1 DEF CommitEntry, PlaceOrder, OrderFilled, WindowInv, TypeOK
<1>19. ASSUME NEW e \in Event, EaglePublishes(e) PROVE WindowInv'
  BY <1>0, <1>19, PublishFacts DEF EaglePublishes, WindowInv, store
<1>20. ASSUME NEW e \in Event, NEW status \in Terminal, BrokerEnds(e, status) \/ Answer(e, status)
       PROVE  WindowInv'
  BY <1>2, <1>20 DEF BrokerEnds, Answer, store
<1>21. CASE IBDrops \/ Flatten
  BY <1>2, <1>21 DEF IBDrops, Flatten, store
<1> QED
  BY <1>3, <1>4, <1>5, <1>6, <1>7, <1>10, <1>11, <1>12, <1>13, <1>14, <1>15, <1>16, <1>17,
     <1>18, <1>19, <1>20, <1>21, NextCases

-----------------------------------------------------------------------------
(* What was consumed, and what was not.                                    *)

\* A live frame is consumed before anything is done about it.
LEMMA TakenLive ==
    ASSUME TypeOK, WindowInv, StoreInv, LiveFrame, TakeLiveFrame, Consume
    PROVE  /\ processed' \in {processed, processed \cup {Frame}}
           /\ Eligible => Frame \in processed' /\ Frame \notin processed
           /\ Eligible => cursor' = session.sent + 1 /\ cursor < session.sent + 1
           /\ ~ Eligible => processed' = processed /\ cursor' = cursor
           /\ Frame \notin processed => Frame \notin replayed
           /\ session'.sent = session.sent + 1 /\ session'.left = 0
<1>1. session.sent + 1 \in Nat
  BY TakenFrame
<1>2. session'.sent = session.sent + 1 /\ session'.left = 0
  BY DEF TakeLiveFrame, LiveFrame, TypeOK
<1> QED
  BY <1>1, <1>2, ConsumeFacts DEF store, StoreInv

LEMMA StoreInvStep ==
    ASSUME TypeOK, LogInv, WindowInv, StoreInv, Next
    PROVE  StoreInv'
<1> USE DEF Away, OfEvent, LiveStep
<1>s. Step = {"down", "connecting", "listening", "replayEntry", "replayExit",
              "consumedExit", "reservedExit", "consumedEntry", "committedEntry",
              "reservedEntry", "marked", "waiting", "settling"}
  BY DEF Step
<1>l. Listening.step = "listening"
  BY DEF Listening, Task
\* A step that consumes nothing and stays with its event, or drops it.
<1>1. ASSUME UNCHANGED <<log, processed, cursor, replayed>>,
             \/ task'.step \in {"down", "connecting", "listening", "replayExit"}
             \/ task' = task
             \/ /\ task'.ev = task.ev
                /\ task.step \in LiveStep
      PROVE  StoreInv'
  BY <1>1, <1>s DEF StoreInv
<1>2. CASE Ending
  <2>1. task'.step \in {"down", "connecting"} /\ UNCHANGED <<log, processed, cursor, replayed>>
    BY <1>2, EndingLeaves DEF Leaves, Task, store
  <2> QED
    BY <1>1, <2>1
<1>3. CASE Start \/ Hello \/ HeartbeatWithoutIB \/ ReplayIgnored \/ CommitReplayedEntry
           \/ RecoverReplayedExit \/ PostponeExit \/ Settle \/ IBDrops \/ Flatten
  BY <1>1, <1>l, <1>3 DEF Start, Hello, HeartbeatWithoutIB, ReplayIgnored, CommitReplayedEntry,
     RecoverReplayedExit, PostponeExit, Settle, IBDrops, Flatten, Task, store, past
<1>4. CASE ReserveExit \/ SubmitExit \/ ReserveEntry \/ SubmitEntry
  BY <1>1, <1>s, <1>4 DEF ReserveExit, SubmitExit, ReserveEntry, SubmitEntry, store, past, TypeOK
<1>5. CASE CommitEntry \/ PlaceOrder \/ OrderFilled
  BY <1>1, <1>s, <1>l, <1>5 DEF CommitEntry, PlaceOrder, OrderFilled, store, past, TypeOK
<1>6. ASSUME NEW h \in Heartbeats, Heartbeat(h) PROVE StoreInv'
  <2>1. /\ cursor' = cursor \/ (cursor' = h /\ h > cursor)
        /\ processed' = processed /\ UNCHANGED <<log, task, replayed>>
    BY <1>6 DEF Heartbeat, Store!MarkSeqProcessed, store, past
  <2>2. h \in Int /\ cursor \in Int /\ Len(log) \in Nat
    BY StoreType, LogType, BoundsAssumption DEF Heartbeats, TypeOK
  <2> QED
    BY <2>1, <2>2 DEF StoreInv
<1>7. CASE ReplayConsumed
  <2>1. /\ session.sent + 1 \in 1 .. Len(log) /\ Frame = log[session.sent + 1]
        /\ cursor \in Int /\ Len(log) \in Nat
    BY <1>7, TakenFrame, StoreType, LogType DEF ReplayConsumed
  <2>2. /\ processed' = processed \cup {Frame} /\ cursor' = session.sent + 1
        /\ cursor < session.sent + 1 /\ log' = log
    BY <1>7, <2>1, ConsumeFacts DEF ReplayConsumed
  <2>3. \/ task' = Task("replayEntry", Frame) \/ task' = Listening
    BY <1>7 DEF ReplayConsumed
  <2>4. replayed' = replayed \cup {Frame}
    BY <1>7 DEF ReplayConsumed
  <2>5. \A e \in processed' : \E i \in 1 .. Len(log') : i <= cursor' /\ log'[i] = e
    BY <2>1, <2>2 DEF StoreInv
  <2>6. replayed' \subseteq processed'
    BY <2>2, <2>4 DEF StoreInv
  <2>7. task'.step \notin LiveStep /\ (task'.step = "replayEntry" => task'.ev \in processed')
    BY <2>2, <2>3, <1>l, <1>s DEF Task
  <2> QED
    BY <2>5, <2>6, <2>7 DEF StoreInv
<1>8. CASE ConsumeReplayedExit
  <2>1. session.sent \in 1 .. Len(log) /\ task.ev = log[session.sent]
        /\ cursor \in Int /\ Len(log) \in Nat
    BY <1>8, <1>s, StoreType, LogType DEF ConsumeReplayedExit, WindowInv
  <2>2. Store!Eligibility(task.ev, session.sent) = "ACCEPTED"
    BY <1>8 DEF ConsumeReplayedExit, Store!CheckAndMarkEventWithSeq
  <2>3. cursor < session.sent
    BY <2>1, <2>2 DEF Store!Eligibility
  <2>4. /\ processed' = processed \cup {task.ev} /\ cursor' = session.sent
        /\ replayed' = replayed \cup {task.ev} /\ log' = log /\ task' = Listening
    BY <1>8 DEF ConsumeReplayedExit, Store!CheckAndMarkEventWithSeq
  <2>5. \A e \in processed' : \E i \in 1 .. Len(log') : i <= cursor' /\ log'[i] = e
    BY <2>1, <2>3, <2>4 DEF StoreInv
  <2> QED
    BY <2>4, <2>5, <1>l DEF StoreInv
<1>9. CASE LiveIgnored \/ ConsumeExit \/ MissEntry \/ ConsumeEntry
  <2>1. LiveFrame /\ TakeLiveFrame /\ Consume /\ log' = log /\ replayed' = replayed
    BY <1>9 DEF LiveIgnored, ConsumeExit, LiveExit, MissEntry, ConsumeEntry, LiveEntry, past
  <2>2. \/ task' = Listening
        \/ task'.ev = Frame /\ Eligible
        \/ task' = task
    BY <1>9 DEF LiveIgnored, ConsumeExit, MissEntry, ConsumeEntry, Task
  <2>3. /\ session.sent + 1 \in 1 .. Len(log) /\ Frame = log[session.sent + 1]
        /\ cursor \in Int /\ Len(log) \in Nat /\ task = Listening
    BY <2>1, TakenFrame, StoreType, LogType
  <2>4. \A e \in processed' : \E i \in 1 .. Len(log') : i <= cursor' /\ log'[i] = e
    <3>1. CASE Eligible
      BY <3>1, <2>1, <2>3, TakenLive DEF StoreInv
    <3>2. CASE ~ Eligible
      BY <3>2, <2>1, <2>3, TakenLive DEF StoreInv
    <3> QED
      BY <3>1, <3>2
  <2>5. replayed' \subseteq processed'
    BY <2>1, TakenLive DEF StoreInv
  <2> QED
    BY <2>1, <2>2, <2>3, <2>4, <2>5, <1>l, TakenLive DEF StoreInv
<1>10. ASSUME NEW e \in Event, EaglePublishes(e) PROVE StoreInv'
  BY <1>10, PublishFacts DEF EaglePublishes, StoreInv, store, past
<1>11. ASSUME NEW e \in Event, NEW status \in Terminal, BrokerEnds(e, status) \/ Answer(e, status)
       PROVE  StoreInv'
  BY <1>1, <1>11 DEF BrokerEnds, Answer, store, past
<1> QED
  BY <1>2, <1>3, <1>4, <1>5, <1>6, <1>7, <1>8, <1>9, <1>10, <1>11, NextCases

\* No step leaves a gap, as long as heartbeats keep to the order of the stream.
LEMMA GapInvStep ==
    ASSUME TypeOK, LogInv, WindowInv, StoreInv, GapInv, ~ GlobalHeartbeats, Next
    PROVE  GapInv'
<1>0. /\ session.sent \in Nat /\ session.left \in Nat /\ cursor \in Int
      /\ Len(log) \in Nat /\ session.sent + session.left <= Len(log) /\ cursor <= Len(log)
  BY LogType, StoreType, BoundsAssumption DEF TypeOK, WindowInv
<1>l. Listening.step = "listening" /\ Listening.ev = NoEvent
  BY DEF Listening, Task
\* A step that consumes nothing and takes no frame.
<1>1. ASSUME UNCHANGED <<log, processed, cursor>>,
             session'.sent = session.sent, session'.left = session.left,
             missed' \subseteq missed,
             task.step = "replayExit" => task'.step = "replayExit"
      PROVE  GapInv'
  BY <1>0, <1>1 DEF GapInv
\* A step that starts the session over.
<1>2. ASSUME UNCHANGED <<log, processed, cursor>>, session'.sent = 0, session'.left = 0
      PROVE  GapInv'
  BY <1>0, <1>2 DEF GapInv
<1>3. CASE Ending
  BY <1>2, <1>3, EndingLeaves DEF Leaves, store
<1>4. CASE Start
  BY <1>2, <1>4 DEF Start, NoSession, store
<1>5. CASE Hello
  <2>1. /\ session'.sent = Since /\ session'.left = Len(log) - Since
        /\ missed' = MissedAtHello /\ UNCHANGED <<log, processed, cursor>>
    BY <1>5 DEF Hello, store
  <2>2. \A i \in 1 .. Len(log) : log[i].sig \in missed' => log[i].kind # "exit"
    <3> SUFFICES ASSUME NEW i \in 1 .. Len(log), log[i].sig \in missed', log[i].kind = "exit"
                 PROVE  FALSE
      OBVIOUS
    <3>1. log[i] \in Event
      BY LogType
    <3>2. log[i] = Ev("exit", log[i].sig)
      BY <3>1, EventFacts DEF Exit
    <3>3. log[i].sig \in EagleOpen
      BY <2>1 DEF MissedAtHello
    <3>4. Ev("exit", log[i].sig) \notin Published
      BY <3>3 DEF EagleOpen
    <3> QED
      BY <3>2, <3>4 DEF Published
  <2>3. \A i \in 1 .. Len(log) : i <= Since => i <= cursor
    BY <1>0 DEF Since
  <2> QED
    BY <1>0, <2>1, <2>2, <2>3 DEF GapInv
<1>6. ASSUME NEW h \in Heartbeats, Heartbeat(h) PROVE GapInv'
  <2>1. h = session.sent
    BY DEF Heartbeats
  <2>2. /\ cursor' \in {cursor, h}
        /\ processed' = processed /\ UNCHANGED <<log, task, missed>>
        /\ session'.sent = session.sent /\ session'.left = session.left
    BY <1>6 DEF Heartbeat, Store!MarkSeqProcessed, store, TypeOK
  <2>3. task.step # "replayExit"
    BY <1>6, <1>l DEF Heartbeat
  <2> QED
    BY <1>0, <2>1, <2>2, <2>3 DEF GapInv
<1>7. CASE HeartbeatWithoutIB \/ IBDrops \/ Flatten
  BY <1>1, <1>7 DEF HeartbeatWithoutIB, IBDrops, Flatten, store, TypeOK
<1>8. ASSUME ReplayFrame, CountReplayFrame
      PROVE  /\ session'.sent = session.sent + 1
             /\ session'.sent + session'.left = session.sent + session.left
             /\ session.sent + 1 <= session.sent + session.left
  BY <1>0, <1>8 DEF CountReplayFrame, TypeOK, ReplayFrame
<1>9. CASE ReplayIgnored
  <2>1. /\ session.sent + 1 \in 1 .. Len(log) /\ Frame = log[session.sent + 1]
        /\ task.step = "listening" /\ ReplayFrame /\ CountReplayFrame
    BY <1>9, TakenFrame DEF ReplayIgnored
  <2>2. UNCHANGED <<log, processed, cursor, missed, task>>
    BY <1>9 DEF ReplayIgnored, store
  <2>3. ~ Eligible
    BY <1>0, <1>8, <1>9, <2>1 DEF ReplayIgnored, IsMissed, GapInv
  <2>4. Frame \in processed \/ session.sent + 1 <= cursor
    BY <1>0, <2>1, <2>3, EligibleFacts
  <2>5. Frame \in processed
    BY <2>1, <2>4 DEF GapInv
  <2>6. /\ session'.sent = session.sent + 1
        /\ session'.sent + session'.left = session.sent + session.left
        /\ task.step = "listening" /\ task'.step = "listening"
    BY <1>8, <2>1, <2>2
  <2>7. ASSUME NEW i \in 1 .. Len(log), i <= cursor \/ i <= session.sent + 1
        PROVE  log[i] \in processed
    <3>1. CASE i <= cursor \/ i <= session.sent
      BY <2>1, <3>1 DEF GapInv
    <3>2. CASE i = session.sent + 1
      BY <2>1, <2>5, <3>2
    <3> QED
      BY <1>0, <2>7, <3>1, <3>2
  <2>8. \A i \in 1 .. Len(log) :
            session.sent + 1 < i /\ i <= session.sent + session.left /\ log[i].sig \in missed
              => log[i].kind # "exit"
    BY <1>0 DEF GapInv
  <2> QED
    BY <2>2, <2>6, <2>7, <2>8 DEF GapInv
<1>10. CASE ReplayConsumed
  <2>1. /\ session.sent + 1 \in 1 .. Len(log) /\ Frame = log[session.sent + 1]
        /\ task.step = "listening" /\ ReplayFrame /\ CountReplayFrame
    BY <1>10, TakenFrame DEF ReplayConsumed
  <2>2. /\ processed' = processed \cup {Frame} /\ cursor' = session.sent + 1
        /\ UNCHANGED <<log, missed>>
    BY <1>0, <1>10, <2>1, ConsumeFacts DEF ReplayConsumed
  <2>3. task'.step # "replayExit"
    BY <1>10, <1>l DEF ReplayConsumed, Task
  <2> QED
    BY <1>0, <1>8, <2>1, <2>2, <2>3 DEF GapInv
<1>11. CASE CommitReplayedEntry
  BY <1>1, <1>11 DEF CommitReplayedEntry, store
<1>12. CASE RecoverReplayedExit
  <2>1. /\ task.step = "listening" /\ ReplayFrame /\ CountReplayFrame
    BY <1>12, TakenFrame DEF RecoverReplayedExit, ReplayedExit
  <2>2. UNCHANGED <<log, processed, cursor, missed>> /\ task'.step = "replayExit"
    BY <1>12 DEF RecoverReplayedExit, store, Task
  <2> QED
    BY <1>0, <1>8, <2>1, <2>2 DEF GapInv
<1>13. CASE ConsumeReplayedExit
  <2>1. /\ session.sent \in 1 .. Len(log) /\ task.ev = log[session.sent]
    BY <1>13 DEF ConsumeReplayedExit, WindowInv, OfEvent, Step, Away
  <2>2. /\ processed' = processed \cup {task.ev} /\ cursor' = session.sent
        /\ UNCHANGED <<log, missed>> /\ task' = Listening
        /\ session'.sent = session.sent /\ session'.left = session.left
    BY <1>13 DEF ConsumeReplayedExit, Store!CheckAndMarkEventWithSeq, TypeOK
  <2> QED
    BY <1>0, <1>13, <2>1, <2>2 DEF GapInv, ConsumeReplayedExit
<1>14. CASE LiveIgnored \/ ConsumeExit \/ MissEntry \/ ConsumeEntry
  <2>1. LiveFrame /\ TakeLiveFrame /\ Consume /\ log' = log /\ task'.step # "replayExit"
    BY <1>14, <1>l, TakenFrame DEF LiveIgnored, ConsumeExit, LiveExit, MissEntry, ConsumeEntry,
       LiveEntry, Task
  <2>2. /\ session.sent + 1 \in 1 .. Len(log) /\ Frame = log[session.sent + 1]
        /\ task.step = "listening"
    BY <2>1, TakenFrame
  <2>3. /\ session'.sent = session.sent + 1 /\ session'.left = 0
        /\ processed \subseteq processed'
        /\ cursor' \in {cursor, session.sent + 1}
    BY <2>1, TakenLive
  <2>4. Frame \in processed'
    <3>1. CASE Eligible
      BY <3>1, <2>1, TakenLive
    <3>2. CASE ~ Eligible
      <4>1. Frame \in processed \/ session.sent + 1 <= cursor
        BY <1>0, <3>2, EligibleFacts
      <4> QED
        BY <2>2, <2>3, <4>1 DEF GapInv
    <3> QED
      BY <3>1, <3>2
  <2> QED
    BY <1>0, <2>1, <2>2, <2>3, <2>4 DEF GapInv
<1>15. CASE ReserveExit \/ SubmitExit \/ PostponeExit \/ CommitEntry \/ ReserveEntry
            \/ SubmitEntry \/ PlaceOrder \/ OrderFilled \/ Settle
  <2>1. UNCHANGED <<log, processed, cursor, session, missed>> /\ task.step # "replayExit"
    BY <1>15 DEF ReserveExit, SubmitExit, PostponeExit, CommitEntry, ReserveEntry, SubmitEntry,
       PlaceOrder, OrderFilled, Settle, store
  <2> QED
    BY <1>1, <2>1
<1>16. ASSUME NEW e \in Event, EaglePublishes(e) PROVE GapInv'
  <2>1. UNCHANGED <<processed, cursor, session, missed, task>>
    BY <1>16 DEF EaglePublishes, store
  <2>2. /\ Len(log') = Len(log) + 1
        /\ \A i \in 1 .. Len(log) : log'[i] = log[i]
    BY <1>16, PublishFacts
  <2>3. \A i \in 1 .. Len(log') :
            i <= cursor \/ i <= session.sent + session.left
              => i \in 1 .. Len(log) /\ log'[i] = log[i]
    BY <1>0, <2>2
  <2>4. \A i \in 1 .. Len(log') :
            i <= cursor \/ (i <= session.sent /\ (task.step = "replayExit" => i # session.sent))
               => log'[i] \in processed
    BY <1>0, <2>3 DEF GapInv
  <2>5. \A i \in 1 .. Len(log') :
            session.sent < i /\ i <= session.sent + session.left /\ log'[i].sig \in missed
              => log'[i].kind # "exit"
    BY <2>3 DEF GapInv
  <2> QED
    BY <2>1, <2>4, <2>5 DEF GapInv
<1>17. ASSUME NEW e \in Event, NEW status \in Terminal, BrokerEnds(e, status) \/ Answer(e, status)
       PROVE  GapInv'
  BY <1>1, <1>17 DEF BrokerEnds, Answer, store
<1> QED
  BY <1>3, <1>4, <1>5, <1>6, <1>7, <1>9, <1>10, <1>11, <1>12, <1>13, <1>14, <1>15, <1>16,
     <1>17, NextCases

-----------------------------------------------------------------------------
(* The lifecycle and the ledger.                                           *)

\* What each step of the store and of the log keeps.
LEMMA HistoryGrows ==
    ASSUME TypeOK, WindowInv, Next
    PROVE  processed \subseteq processed' /\ Published \subseteq Published'
<1>1. ASSUME UNCHANGED <<log, store>> PROVE processed' = processed /\ Published' = Published
  BY <1>1 DEF store, Published
<1>2. CASE Ending
  BY <1>1, <1>2, EndingLeaves DEF Leaves
<1>3. CASE Start \/ Hello \/ HeartbeatWithoutIB \/ ReplayIgnored \/ CommitReplayedEntry
           \/ RecoverReplayedExit \/ ReserveExit \/ SubmitExit \/ PostponeExit
  BY <1>1, <1>3 DEF Start, Hello, HeartbeatWithoutIB, ReplayIgnored, CommitReplayedEntry,
     RecoverReplayedExit, ReserveExit, SubmitExit, PostponeExit
<1>4. CASE CommitEntry \/ ReserveEntry \/ SubmitEntry \/ PlaceOrder \/ OrderFilled \/ Settle
           \/ IBDrops \/ Flatten
  BY <1>1, <1>4 DEF CommitEntry, ReserveEntry, SubmitEntry, PlaceOrder, OrderFilled, Settle,
     IBDrops, Flatten
<1>5. ASSUME NEW h \in Heartbeats, Heartbeat(h)
      PROVE  processed' = processed /\ Published' = Published
  BY <1>5 DEF Heartbeat, Store!MarkSeqProcessed, store, Published
<1>6. CASE ReplayConsumed \/ LiveIgnored \/ ConsumeExit \/ MissEntry \/ ConsumeEntry
  <2>1. (ReplayFrame \/ LiveFrame) /\ Consume /\ log' = log
    BY <1>6 DEF ReplayConsumed, LiveIgnored, ConsumeExit, LiveExit, MissEntry, ConsumeEntry,
       LiveEntry
  <2>2. session.sent + 1 \in Nat
    BY <2>1, TakenFrame
  <2> QED
    BY <2>1, <2>2, ConsumeFacts DEF store, Published
<1>7. CASE ConsumeReplayedExit
  BY <1>7 DEF ConsumeReplayedExit, Store!CheckAndMarkEventWithSeq, Published
<1>8. ASSUME NEW e \in Event, EaglePublishes(e)
      PROVE  processed \subseteq processed' /\ Published \subseteq Published'
  BY <1>8, PublishFacts DEF EaglePublishes, store
<1>9. ASSUME NEW e \in Event, NEW status \in Terminal, BrokerEnds(e, status) \/ Answer(e, status)
      PROVE  processed' = processed /\ Published' = Published
  BY <1>1, <1>9 DEF BrokerEnds, Answer
<1> QED
  BY <1>2, <1>3, <1>4, <1>5, <1>6, <1>7, <1>8, <1>9, NextCases

LEMMA EventUnderWay ==
    ASSUME TypeOK, WindowInv, task.step \in OfEvent
    PROVE  /\ task.ev \in Event /\ task.ev \in Published
           /\ task.ev.sig \in Signal /\ task.ev.kind \in {"entry", "update", "exit"}
BY LogType, EventFacts DEF WindowInv, Published

LEMMA BooksInvStep ==
    ASSUME TypeOK, LogInv, WindowInv, StoreInv, BooksInv, Next
    PROVE  BooksInv'
<1> USE DEF Away, OfEvent, LiveStep, EntryStep, ExitStep, Unsent, Unknown
<1>s. Step = {"down", "connecting", "listening", "replayEntry", "replayExit",
              "consumedExit", "reservedExit", "consumedEntry", "committedEntry",
              "reservedEntry", "marked", "waiting", "settling"}
  BY DEF Step
<1>l. Listening.step = "listening"
  BY DEF Listening, Task
<1>h. processed \subseteq processed' /\ Published \subseteq Published'
  BY HistoryGrows
<1>t. /\ life \in [Signal -> {"New", "LongOpen", "ShortOpen", "Closed"}]
      /\ ledger \in [Event -> Status]
  BY DEF TypeOK
<1>e. task.step \in OfEvent => task.ev \in Event /\ task.ev.sig \in Signal
  BY EventUnderWay
\* A step that touches neither book and ends its event, or has none.
<1>1. ASSUME UNCHANGED <<life, ledger>>,
             \/ task' = task
             \/ task'.step \in {"down", "connecting", "listening", "replayEntry",
                                "marked", "waiting", "settling"}
      PROVE  BooksInv'
  BY <1>1, <1>s, <1>h DEF BooksInv, Opens
<1>2. CASE Ending
  <2>1. task'.step \in {"down", "connecting"} /\ UNCHANGED <<life, ledger>>
    BY <1>2, EndingLeaves DEF Leaves, Task
  <2> QED
    BY <1>1, <2>1
<1>3. CASE Start \/ Hello \/ (\E h \in Heartbeats : Heartbeat(h)) \/ HeartbeatWithoutIB
           \/ ReplayIgnored \/ ReplayConsumed \/ LiveIgnored \/ PostponeExit \/ MissEntry
  BY <1>1, <1>l, <1>3 DEF Start, Hello, Heartbeat, HeartbeatWithoutIB, ReplayIgnored,
     ReplayConsumed, LiveIgnored, PostponeExit, MissEntry, Task
<1>4. CASE PlaceOrder \/ Settle \/ IBDrops \/ Flatten \/ ConsumeReplayedExit
  BY <1>1, <1>l, <1>4, <1>t DEF PlaceOrder, Settle, IBDrops, Flatten, ConsumeReplayedExit, TypeOK
<1>5. ASSUME NEW e \in Event, EaglePublishes(e) PROVE BooksInv'
  BY <1>1, <1>5 DEF EaglePublishes
<1>6. ASSUME NEW e \in Event, NEW status \in Terminal, BrokerEnds(e, status) PROVE BooksInv'
  BY <1>1, <1>6 DEF BrokerEnds
<1>7. ASSUME NEW e \in Event, NEW status \in Terminal, Answer(e, status) PROVE BooksInv'
  <2>1. /\ ledger' = [ledger EXCEPT ![e] = IF @ = "Submitted" THEN status ELSE @]
        /\ UNCHANGED <<life, task>> /\ status \in {"Filled", "Rejected"}
    BY <1>7 DEF Answer, Terminal
  <2>2. \A f \in Event : \/ ledger'[f] = ledger[f]
                         \/ ledger[f] = "Submitted" /\ ledger'[f] \in {"Filled", "Rejected"}
    BY <1>t, <2>1
  <2>3. task.step \in EntryStep \cup ExitStep => ledger'[task.ev] = ledger[task.ev]
    BY <1>e, <1>s, <2>2 DEF BooksInv
  <2> QED
    BY <1>e, <1>s, <1>h, <2>1, <2>2, <2>3 DEF BooksInv, Opens
\* An entry is committed.
<1>8. ASSUME NEW e \in Event, e.kind = "entry", Commit(e), e \in processed,
             ledger' = ledger,
             task'.step \in {"listening", "committedEntry"},
             task'.step = "committedEntry" => /\ task'.ev = task.ev /\ task.ev = e
                                              /\ task.step \in EntryStep
                                              /\ life'[e.sig] # life[e.sig]
      PROVE  BooksInv'
  <2>1. \/ life' = life
        \/ /\ life[e.sig] = "New"
           /\ life' = [life EXCEPT ![e.sig] = IF e.sig \in Short THEN "ShortOpen"
                                              ELSE "LongOpen"]
    BY <1>8, CommitFacts
  <2>2. e = Entry(e.sig) /\ e.sig \in Signal
    BY <1>8, EventFacts
  <2>3. \A s \in Signal :
           /\ life'[s] = "LongOpen" => s \notin Short
           /\ life'[s] = "ShortOpen" => s \in Short
           /\ life'[s] # "New" => Entry(s) \in processed'
           /\ life'[s] = "Closed" => Exit(s) \in Published'
           /\ life[s] # "New" => life'[s] # "New"
    BY <1>8, <1>t, <1>h, <2>1, <2>2 DEF BooksInv
  <2>4. \A f \in Event : f.sig \in Signal
    BY EventFacts
  <2>5. task'.step = "committedEntry" => task'.ev.sig \in Opens'
    BY <1>8, <1>t, <2>1, <2>2 DEF Opens
  <2> QED
    BY <1>8, <1>s, <1>h, <2>3, <2>4, <2>5 DEF BooksInv
<1>9. CASE CommitReplayedEntry
  <2>1. task.ev \in Event /\ task.ev.kind = "entry" /\ task.ev \in processed
    BY <1>9, <1>e, <1>s DEF CommitReplayedEntry, WindowInv, StoreInv
  <2> QED
    BY <1>8, <1>9, <1>l, <2>1 DEF CommitReplayedEntry
<1>10. CASE CommitEntry
  <2>1. task.ev \in Event /\ task.ev.kind = "entry" /\ task.ev \in processed
    BY <1>10, <1>e, <1>s DEF CommitEntry, WindowInv, StoreInv
  <2>2. \/ task' = Listening
        \/ task'.step = "committedEntry" /\ task'.ev = task.ev
    BY <1>10 DEF CommitEntry, TypeOK
  <2> QED
    BY <1>8, <1>10, <1>l, <2>1, <2>2 DEF CommitEntry
\* An exit is committed, its signal was open.
<1>11. ASSUME NEW e \in Event, e.kind = "exit", Commit(e), e \in Published,
              ledger' = ledger,
              \/ task'.step \in {"settling"}
              \/ task'.step = "replayExit" /\ ledger[task'.ev] \in Unsent
       PROVE  BooksInv'
  <2>1. \/ life' = life
        \/ /\ e.sig \in Opens
           /\ life' = [life EXCEPT ![e.sig] = "Closed"]
    BY <1>11, CommitFacts
  <2>2. e = Exit(e.sig) /\ e.sig \in Signal
    BY <1>11, EventFacts
  <2>3. \A s \in Signal :
           /\ life'[s] = "LongOpen" => s \notin Short
           /\ life'[s] = "ShortOpen" => s \in Short
           /\ life'[s] # "New" => Entry(s) \in processed'
           /\ life'[s] = "Closed" => Exit(s) \in Published'
           /\ life[s] # "New" => life'[s] # "New"
    BY <1>11, <1>t, <1>h, <2>1, <2>2 DEF BooksInv, Opens
  <2>4. \A f \in Event : f.sig \in Signal
    BY EventFacts
  <2> QED
    BY <1>11, <1>s, <1>h, <2>3, <2>4 DEF BooksInv
<1>12. CASE OrderFilled
  <2>1. task.ev \in Event /\ task.ev \in Published /\ task'.step = "settling" /\ ledger' = ledger
    BY <1>12, EventUnderWay, <1>s DEF OrderFilled, TypeOK
  <2>2. CASE task.ev.kind = "exit"
    BY <1>11, <1>12, <2>1, <2>2 DEF OrderFilled
  <2>3. CASE task.ev.kind # "exit"
    BY <1>1, <1>12, <2>1, <2>3 DEF OrderFilled
  <2> QED
    BY <2>2, <2>3
<1>13. CASE RecoverReplayedExit
  <2>1. /\ Frame \in Event /\ Frame.kind = "exit" /\ Frame \in Published
        /\ task'.step = "replayExit" /\ task'.ev = Frame /\ Frame.sig \in Signal
    BY <1>13, TakenFrame, EventFacts DEF RecoverReplayedExit, ReplayedExit, Published, Task
  <2>2. CASE FlatAtBroker(Frame) /\ Commit(Frame) /\ UNCHANGED ledger
    BY <1>11, <2>1, <2>2 DEF FlatAtBroker
  <2>3. CASE ClosedBefore(Frame) /\ UNCHANGED <<life, ledger>>
    BY <1>h, <1>s, <2>1, <2>3 DEF ClosedBefore, BooksInv
  <2>4. CASE /\ StillExposed(Frame)
             /\ ledger' = [ledger EXCEPT ![Frame] = "Reserved"]
             /\ UNCHANGED life
    <3>1. Frame.sig \in Opens
      BY <2>4 DEF StillExposed, OwnsExactly
    <3>2. life[Frame.sig] # "New"
      BY <3>1 DEF Opens
    <3>3. \A f \in Event : ledger'[f] = IF f = Frame THEN "Reserved" ELSE ledger[f]
      BY <1>t, <2>1, <2>4
    <3> QED
      BY <1>h, <1>s, <2>1, <2>4, <3>2, <3>3 DEF BooksInv
  <2> QED
    BY <1>13, <2>2, <2>3, <2>4 DEF RecoverReplayedExit
<1>14. CASE ConsumeExit
  <2>1. /\ Frame \in Event /\ UNCHANGED <<life, ledger>> /\ Frame.sig \in Opens
        /\ session.sent + 1 \in Nat
    BY <1>14, TakenFrame DEF ConsumeExit, LiveExit, OpenExit
  <2>2. CASE Eligible
    <3>1. task'.step = "consumedExit" /\ task'.ev = Frame
      BY <1>14, <2>2 DEF ConsumeExit, Task
    <3>2. ledger[Frame] \in Unsent
      BY <2>1, <2>2, EligibleFacts DEF BooksInv
    <3> QED
      BY <1>s, <1>h, <2>1, <3>1, <3>2 DEF BooksInv, Opens
  <2>3. CASE ~ Eligible
    BY <1>1, <1>l, <1>14, <2>3 DEF ConsumeExit
  <2> QED
    BY <2>2, <2>3
<1>15. CASE ConsumeEntry
  <2>1. /\ Frame \in Event /\ UNCHANGED <<life, ledger>>
        /\ session.sent + 1 \in Nat
    BY <1>15, TakenFrame DEF ConsumeEntry, LiveEntry
  <2>2. CASE Eligible /\ pos = 0 /\ Opens = {}
    <3>1. task'.step = "consumedEntry" /\ task'.ev = Frame
      BY <1>15, <2>2 DEF ConsumeEntry, Task
    <3>2. ledger[Frame] \in Unsent
      BY <2>1, <2>2, EligibleFacts DEF BooksInv
    <3> QED
      BY <1>s, <1>h, <2>1, <3>1, <3>2 DEF BooksInv
  <2>3. CASE ~ (Eligible /\ pos = 0 /\ Opens = {})
    BY <1>1, <1>l, <1>15, <2>3 DEF ConsumeEntry
  <2> QED
    BY <2>2, <2>3
\* The status of the event under way is written.
<1>16. ASSUME NEW st, ledger' = [ledger EXCEPT ![task.ev] = st], life' = life,
              task.step \in OfEvent, task'.ev = task.ev,
              \/ st = "Reserved" /\ task'.step \in {"reservedExit", "reservedEntry"}
              \/ task'.step = "marked",
              task.ev \in processed,
              life[task.ev.sig] # "New"
       PROVE  BooksInv'
  <2>1. task.ev \in Event
    BY <1>e, <1>16
  <2>2. \A f \in Event : ledger'[f] = IF f = task.ev THEN st ELSE ledger[f]
    BY <1>t, <1>16
  <2> QED
    BY <1>16, <1>s, <1>h, <2>1, <2>2 DEF BooksInv
<1>17. CASE ReserveExit \/ SubmitExit
  <2>1. /\ UNCHANGED life /\ task.step \in OfEvent /\ task.ev \in processed
        /\ task'.ev = task.ev
    BY <1>17, <1>s DEF ReserveExit, SubmitExit, StoreInv, TypeOK
  <2>2. task.ev.sig \in Opens
    BY <1>17 DEF ReserveExit, SubmitExit, OwnsExactly, BooksInv
  <2>3. life[task.ev.sig] # "New"
    BY <2>2 DEF Opens
  <2>4. \/ /\ ledger' = [ledger EXCEPT ![task.ev] = "Reserved"]
           /\ task'.step = "reservedExit"
        \/ /\ ledger' = [ledger EXCEPT ![task.ev] = "Submitted"]
           /\ task'.step = "marked"
    BY <1>17 DEF ReserveExit, SubmitExit, TypeOK
  <2> QED
    BY <1>16, <2>1, <2>3, <2>4
<1>18. CASE ReserveEntry \/ SubmitEntry
  <2>1. /\ UNCHANGED life /\ task.step \in OfEvent /\ task.ev \in processed
        /\ task'.ev = task.ev
    BY <1>18, <1>s DEF ReserveEntry, SubmitEntry, StoreInv, TypeOK
  <2>2. life[task.ev.sig] # "New"
    BY <1>18, <1>e, <1>s DEF ReserveEntry, SubmitEntry, BooksInv, Opens
  <2>4. \/ /\ ledger' = [ledger EXCEPT ![task.ev] = "Reserved"]
           /\ task'.step = "reservedEntry"
        \/ /\ ledger' = [ledger EXCEPT ![task.ev] = "Submitted"]
           /\ task'.step = "marked"
    BY <1>18 DEF ReserveEntry, SubmitEntry, TypeOK
  <2> QED
    BY <1>16, <2>1, <2>2, <2>4
<1> QED
  BY <1>2, <1>3, <1>4, <1>5, <1>6, <1>7, <1>9, <1>10, <1>12, <1>13, <1>14, <1>15, <1>17,
     <1>18, NextCases

-----------------------------------------------------------------------------
(* Orders, positions and their owner.                                      *)

\* The sign of an order against the side its signal owns.
LEMMA BoughtFacts ==
    ASSUME TypeOK, BooksInv, NEW e \in Event, e.kind # "update", e.sig \in Opens
    PROVE  Bought(e) = IF e.kind = "entry" THEN Side(e.sig) ELSE - Side(e.sig)
<1>1. e.sig \in Signal /\ e.kind \in {"entry", "exit"}
  BY EventFacts
<1>2. life[e.sig] = "LongOpen" <=> e.sig \notin Short
  BY <1>1 DEF BooksInv, Opens
<1>3. CASE e.kind = "entry"
  BY <1>2, <1>3 DEF Bought, Side
<1>4. CASE e.kind = "exit"
  BY <1>2, <1>4 DEF Bought, Side
<1> QED
  BY <1>1, <1>3, <1>4

\* No entry works while a session is open, but for the one that is waited for.
LEMMA NoEntryWorks ==
    ASSUME BrokerInv, task.step \notin Away \cup {"waiting"}
    PROVE  \A e \in working : e.kind # "entry"
BY DEF BrokerInv, Task

\* Nor while position and lifecycle agree.
LEMMA NoEntryWorksReconciled ==
    ASSUME TypeOK, BrokerInv, Reconciled
    PROVE  \A e \in working : e.kind # "entry"
BY OwnsFacts DEF BrokerInv, Reconciled

\* A status is never taken back to unknown.
LEMMA LedgerKeeps ==
    ASSUME TypeOK, WindowInv, Next, NEW e \in Event, ledger[e] # Unknown
    PROVE  ledger'[e] # Unknown
<1>t. ledger \in [Event -> Status]
  BY DEF TypeOK
<1> USE DEF Unknown
<1>1. CASE Ending
  BY <1>1, EndingLeaves DEF Leaves
<1>2. CASE Start \/ Hello \/ (\E h \in Heartbeats : Heartbeat(h)) \/ HeartbeatWithoutIB
           \/ ReplayIgnored \/ ReplayConsumed \/ CommitReplayedEntry \/ ConsumeReplayedExit
           \/ LiveIgnored \/ ConsumeExit \/ PostponeExit \/ MissEntry \/ ConsumeEntry
  BY <1>2 DEF Start, Hello, Heartbeat, HeartbeatWithoutIB, ReplayIgnored, ReplayConsumed,
     CommitReplayedEntry, ConsumeReplayedExit, LiveIgnored, ConsumeExit, PostponeExit,
     MissEntry, ConsumeEntry
<1>3. CASE CommitEntry \/ PlaceOrder \/ OrderFilled \/ Settle \/ IBDrops \/ Flatten
           \/ (\E f \in Event : EaglePublishes(f))
           \/ (\E f \in Event, status \in Terminal : BrokerEnds(f, status))
  BY <1>3 DEF CommitEntry, PlaceOrder, OrderFilled, Settle, IBDrops, Flatten, EaglePublishes,
     BrokerEnds
<1>4. CASE RecoverReplayedExit
  BY <1>4, <1>t DEF RecoverReplayedExit
<1>5. CASE ReserveExit \/ SubmitExit \/ ReserveEntry \/ SubmitEntry
  BY <1>5, <1>t DEF ReserveExit, SubmitExit, ReserveEntry, SubmitEntry
<1>6. ASSUME NEW f \in Event, NEW status \in Terminal, Answer(f, status)
      PROVE  ledger'[e] # Unknown
  BY <1>6, <1>t DEF Answer, Terminal
<1> QED
  BY <1>1, <1>2, <1>3, <1>4, <1>5, <1>6, NextCases

LEMMA BrokerInvStep ==
    ASSUME TypeOK, LogInv, WindowInv, StoreInv, BooksInv, BrokerInv, ApprovalInv, Next
    PROVE  BrokerInv'
<1> USE DEF Away, OfEvent
<1>t. /\ life \in [Signal -> {"New", "LongOpen", "ShortOpen", "Closed"}]
      /\ ledger \in [Event -> Status] /\ working \subseteq Event
      /\ answers \subseteq Event \X Terminal
  BY DEF TypeOK
<1>g. \A e \in Event : e.sig \in Signal
  BY EventFacts
<1>e. task.step \in OfEvent => task.ev \in Event /\ task.ev.sig \in Signal
  BY EventUnderWay
<1>s. Step = {"down", "connecting", "listening", "replayEntry", "replayExit",
              "consumedExit", "reservedExit", "consumedEntry", "committedEntry",
              "reservedEntry", "marked", "waiting", "settling"}
  BY DEF Step
\* No entry works: the task and what is consumed do not matter.
<1>1. ASSUME \A e \in working : e.kind # "entry",
             UNCHANGED <<life, ledger, pos, working>>, answers' \subseteq answers
      PROVE  BrokerInv'
  BY <1>1 DEF BrokerInv, Opens, Side
<1>2. ASSUME UNCHANGED <<life, ledger, pos, working, task, processed>>, answers' \subseteq answers
      PROVE  BrokerInv'
  BY <1>2 DEF BrokerInv, Opens, Side
<1>3. CASE Ending
  <2>1. /\ UNCHANGED <<life, ledger, pos, working, processed>> /\ answers' \subseteq answers
        /\ task'.step \in Away
    BY <1>3, EndingLeaves DEF Leaves, Task, store
  <2> QED
    BY <2>1 DEF BrokerInv, Opens, Side
<1>4. CASE Start \/ Hello
  <2>1. Reconciled
    BY <1>4 DEF Start, Hello, HelloAccepted
  <2> QED
    BY <1>1, <1>4, <2>1, NoEntryWorksReconciled DEF Start, Hello, broker
<1>5. CASE (\E h \in Heartbeats : Heartbeat(h)) \/ HeartbeatWithoutIB \/ ReplayIgnored
           \/ ReplayConsumed \/ LiveIgnored \/ ConsumeExit \/ MissEntry \/ ConsumeEntry
  <2>1. task.step = "listening"
    BY <1>5, TakenFrame DEF Heartbeat, HeartbeatWithoutIB, ReplayIgnored, ReplayConsumed,
       LiveIgnored, ConsumeExit, LiveExit, MissEntry, ConsumeEntry, LiveEntry, Listening, Task
  <2>2. UNCHANGED <<life, ledger, pos, working, answers>>
    BY <1>5 DEF Heartbeat, HeartbeatWithoutIB, ReplayIgnored, ReplayConsumed,
       LiveIgnored, ConsumeExit, MissEntry, ConsumeEntry, broker
  <2> QED
    BY <1>1, <2>1, <2>2, NoEntryWorks
<1>6. CASE ConsumeReplayedExit \/ PostponeExit \/ Settle
  <2>1. task.step \notin Away \cup {"waiting"} /\ UNCHANGED <<life, ledger, pos, working, answers>>
    BY <1>6 DEF ConsumeReplayedExit, PostponeExit, Settle, broker
  <2> QED
    BY <1>1, <2>1, NoEntryWorks
<1>7. CASE CommitReplayedEntry \/ CommitEntry
  <2>1. /\ task.step \notin Away \cup {"waiting"} /\ UNCHANGED <<ledger, pos, working, answers>>
        /\ task.ev \in Event /\ task.ev.kind = "entry" /\ Commit(task.ev)
    BY <1>7, <1>e, <1>s DEF CommitReplayedEntry, CommitEntry, broker, WindowInv, EntryStep
  <2>2. \A s \in Opens : s \in Signal /\ life'[s] = life[s]
    BY <2>1, <1>t, <1>g, CommitFacts DEF Opens
  <2>3. \A s \in Opens : s \in Opens' /\ Side(s)' = Side(s)
    BY <2>2 DEF Opens, Side
  <2>4. \A e \in working : e.kind # "entry"
    BY <2>1, NoEntryWorks
  <2> QED
    BY <2>1, <2>3, <2>4 DEF BrokerInv
<1>8. CASE RecoverReplayedExit
  <2>1. /\ Frame \in Event /\ task.step = "listening" /\ UNCHANGED <<pos, working, answers>>
        /\ Frame.sig \in Signal /\ Frame.kind = "exit"
    BY <1>8, <1>g, TakenFrame DEF RecoverReplayedExit, ReplayedExit, broker
  <2>2. \A e \in working : e.kind # "entry"
    BY <2>1, NoEntryWorks
  <2>3. CASE ClosedBefore(Frame) /\ UNCHANGED <<life, ledger>>
    BY <1>1, <2>1, <2>2, <2>3
  <2>4. CASE FlatAtBroker(Frame) /\ Commit(Frame) /\ UNCHANGED ledger
    <3>1. working = {}
      BY <2>2, <2>4, <1>t, <1>g, SideFacts, EventFacts DEF BrokerInv, FlatAtBroker
    <3> QED
      BY <2>1, <2>4, <3>1 DEF BrokerInv
  <2>5. CASE /\ StillExposed(Frame)
             /\ ledger' = [ledger EXCEPT ![Frame] = "Reserved"]
             /\ UNCHANGED life
    <3>1. \A f \in Event : ledger[f] = "Submitted" => ledger'[f] = "Submitted"
      BY <1>t, <2>1, <2>5 DEF StillExposed, Unknown
    <3> QED
      BY <1>t, <2>1, <2>2, <2>5, <3>1 DEF BrokerInv, Opens, Side
  <2> QED
    BY <1>8, <2>3, <2>4, <2>5 DEF RecoverReplayedExit
<1>9. CASE ReserveExit \/ ReserveEntry \/ SubmitExit \/ SubmitEntry
  <2>1. /\ task.step \notin Away \cup {"waiting"} /\ UNCHANGED <<life, pos, working, answers>>
        /\ task.ev \in Event /\ ledger[task.ev] \in Unsent
    BY <1>9, <1>e, <1>s DEF ReserveExit, ReserveEntry, SubmitExit, SubmitEntry, broker,
       BooksInv, EntryStep, ExitStep
  <2>2. \A f \in Event : ledger[f] = "Submitted" => ledger'[f] = "Submitted"
    BY <1>9, <1>t, <2>1 DEF ReserveExit, ReserveEntry, SubmitExit, SubmitEntry, Unsent
  <2>3. \A e \in working : e.kind # "entry"
    BY <2>1, NoEntryWorks
  <2> QED
    BY <1>t, <2>1, <2>2, <2>3 DEF BrokerInv, Opens, Side
<1>10. CASE PlaceOrder
  <2>1. /\ working = {} /\ working' = {task.ev} /\ ledger[task.ev] = "Submitted"
        /\ task.ev \in Event /\ task.ev.kind \in {"entry", "exit"}
        /\ \A status \in Terminal : <<task.ev, status>> \notin answers
        /\ task' = Task("waiting", task.ev)
        /\ UNCHANGED <<life, ledger, pos, answers, processed>>
    BY <1>10, <1>e, <1>s, EventFacts
       DEF PlaceOrder, ApprovalInv, WindowInv, LiveStep, Task, TypeOK, store
  <2>2. task.ev.kind = "exit" => task.ev.sig \in Opens /\ pos = Side(task.ev.sig)
    BY <1>10, <1>e, <1>s, OwnsFacts DEF PlaceOrder, ApprovalInv
  <2>3. task.ev.kind = "entry" =>
           task.ev.sig \in Opens /\ pos = 0 /\ Exit(task.ev.sig) \notin processed
    BY <1>10 DEF PlaceOrder, ApprovalInv
  <2> QED
    BY <2>1, <2>2, <2>3 DEF BrokerInv, Opens, Side
<1>11. CASE OrderFilled
  <2>1. working = {} /\ UNCHANGED <<ledger, pos, working, answers>>
    BY <1>11 DEF OrderFilled, ApprovalInv, BrokerInv, broker
  <2> QED
    BY <2>1 DEF BrokerInv
<1>12. CASE IBDrops
  BY <1>2, <1>12 DEF IBDrops, store
<1>13. ASSUME NEW e \in Event, EaglePublishes(e) PROVE BrokerInv'
  BY <1>2, <1>13 DEF EaglePublishes, store, broker
<1>14. CASE Flatten
  <2>1. working = {} /\ UNCHANGED <<ledger, working, answers>>
    BY <1>14 DEF Flatten
  <2> QED
    BY <2>1 DEF BrokerInv
<1>15. ASSUME NEW e \in Event, NEW status \in Terminal, BrokerEnds(e, status)
       PROVE  BrokerInv'
  <2>1. /\ working' = {} /\ UNCHANGED <<ledger>>
        /\ answers' \in {answers, answers \cup {<<e, status>>}}
        /\ ledger[e] = "Submitted" /\ \A st \in Terminal : <<e, st>> \notin answers
    BY <1>15 DEF BrokerEnds, BrokerInv
  <2> QED
    BY <2>1 DEF BrokerInv
<1>16. ASSUME NEW e \in Event, NEW status \in Terminal, Answer(e, status)
       PROVE  BrokerInv'
  <2>1. /\ \A f \in Event : f # e => ledger'[f] = ledger[f]
        /\ answers' = answers \ {<<e, status>>} /\ <<e, status>> \in answers
        /\ UNCHANGED <<life, pos, working, task, processed>>
    BY <1>16, <1>t DEF Answer, store
  <2>2. e \notin working /\ \A st \in Terminal : <<e, st>> \in answers => st = status
    BY <2>1 DEF BrokerInv
  <2> QED
    BY <1>t, <2>1, <2>2 DEF BrokerInv, Opens, Side
<1> QED
  BY <1>3, <1>4, <1>5, <1>6, <1>7, <1>8, <1>9, <1>10, <1>11, <1>12, <1>13, <1>14, <1>15,
     <1>16, NextCases

\* An exit was not consumed before the entry that is being taken.
LEMMA ExitNotBeforeEntry ==
    ASSUME TypeOK, LogInv, WindowInv, StoreInv, LiveFrame, Eligible, Frame.kind = "entry"
    PROVE  Exit(Frame.sig) \notin processed
<1>0. /\ session.sent + 1 \in 1 .. Len(log) /\ Frame = log[session.sent + 1] /\ Frame \in Event
      /\ Len(log) \in Nat /\ cursor \in Int /\ cursor < session.sent + 1
  BY TakenFrame, LogType, StoreType, EligibleFacts
<1>1. Frame.sig \in Signal /\ Frame = Entry(Frame.sig)
  BY <1>0, EventFacts
<1>2. SUFFICES ASSUME Exit(Frame.sig) \in processed PROVE FALSE
  OBVIOUS
<1>3. PICK i \in 1 .. Len(log) : i <= cursor /\ log[i] = Exit(Frame.sig)
  BY <1>2 DEF StoreInv
<1>4. PICK j \in 1 .. Len(log) : j < i /\ log[j] = Entry(Frame.sig)
  BY <1>1, <1>3, EventFacts DEF LogInv
<1> QED
  BY <1>0, <1>1, <1>3, <1>4 DEF LogInv

LEMMA ApprovalInvStep ==
    ASSUME TypeOK, LogInv, WindowInv, StoreInv, BooksInv, BrokerInv, ApprovalInv, Next
    PROVE  ApprovalInv'
<1> USE DEF Away, OfEvent, EntryStep, Approved
<1>t. /\ life \in [Signal -> {"New", "LongOpen", "ShortOpen", "Closed"}]
      /\ ledger \in [Event -> Status] /\ working \subseteq Event
      /\ answers \subseteq Event \X Terminal
  BY DEF TypeOK
<1>l. Listening.step = "listening"
  BY DEF Listening, Task
<1>e. task.step \in OfEvent => task.ev \in Event /\ task.ev.sig \in Signal
  BY EventUnderWay
<1>s. Step = {"down", "connecting", "listening", "replayEntry", "replayExit",
              "consumedExit", "reservedExit", "consumedEntry", "committedEntry",
              "reservedEntry", "marked", "waiting", "settling"}
  BY DEF Step
\* Steps that approve nothing: the others have no condition here.
<1>1. ASSUME task'.step \in {"down", "connecting", "listening", "replayEntry", "replayExit",
                             "consumedExit", "reservedExit", "settling"}
      PROVE  ApprovalInv'
  BY <1>1 DEF ApprovalInv
<1>2. ASSUME UNCHANGED <<life, ledger, pos, working, task, processed>>, answers' \subseteq answers
      PROVE  ApprovalInv'
  BY <1>2 DEF ApprovalInv, Opens, OwnsExactly, Side
<1>3. CASE Ending
  <2>1. task'.step \in Away
    BY <1>3, EndingLeaves DEF Leaves, Task
  <2> QED
    BY <1>1, <2>1
<1>4. CASE Start \/ Hello \/ ReplayConsumed \/ CommitReplayedEntry \/ RecoverReplayedExit
           \/ ConsumeReplayedExit \/ ConsumeExit \/ ReserveExit \/ PostponeExit \/ OrderFilled
           \/ Settle
  <2>1. task'.step \in {"connecting", "listening", "replayEntry", "replayExit",
                        "consumedExit", "reservedExit", "settling"}
    BY <1>4, <1>l DEF Start, Hello, ReplayConsumed, CommitReplayedEntry, RecoverReplayedExit,
       ConsumeReplayedExit, ConsumeExit, ReserveExit, PostponeExit, OrderFilled, Settle, Task, TypeOK
  <2> QED
    BY <1>1, <2>1
<1>5. CASE (\E h \in Heartbeats : Heartbeat(h)) \/ HeartbeatWithoutIB \/ ReplayIgnored
           \/ LiveIgnored \/ MissEntry
  <2>1. task'.step = "listening"
    BY <1>5, <1>l, TakenFrame DEF Heartbeat, HeartbeatWithoutIB, ReplayIgnored, LiveIgnored,
       MissEntry, LiveEntry
  <2> QED
    BY <1>1, <2>1
<1>6. CASE SubmitExit
  <2>1. /\ task'.step = "marked" /\ task'.ev = task.ev /\ task.ev \in Event
        /\ ledger' = [ledger EXCEPT ![task.ev] = "Submitted"]
        /\ ledger[task.ev] = "Reserved" /\ task.ev.kind = "exit"
        /\ OwnsExactly(task.ev.sig) /\ UNCHANGED <<life, pos, working, answers>>
    BY <1>6, <1>e, <1>s DEF SubmitExit, BooksInv, WindowInv, ExitStep, TypeOK, broker
  <2>2. working = {}
    <3> SUFFICES ASSUME NEW f \in working PROVE FALSE
      OBVIOUS
    <3>1. f.kind # "entry"
      BY <1>6, NoEntryWorks DEF SubmitExit
    <3>2. f \in Event /\ f.kind = "exit" /\ f.sig \in Opens /\ ledger[f] = "Submitted"
      BY <1>t, <3>1, EventFacts DEF BrokerInv
    <3>3. f.sig = task.ev.sig
      BY <2>1, <3>2 DEF OwnsExactly
    <3>4. f = task.ev
      BY <2>1, <3>2, <3>3, EventFacts
    <3> QED
      BY <2>1, <3>2, <3>4
  <2>3. \A status \in Terminal : <<task.ev, status>> \notin answers
    BY <2>1 DEF BrokerInv
  <2> QED
    BY <1>t, <2>1, <2>2, <2>3 DEF ApprovalInv, OwnsExactly, Opens, Side
<1>7. CASE ConsumeEntry
  <2>1. /\ Frame \in Event /\ Frame.kind = "entry" /\ LiveFrame /\ TakeLiveFrame /\ Consume
        /\ ExecutionClear /\ UNCHANGED <<life, ledger, pos, working>>
        /\ Frame = Entry(Frame.sig) /\ Frame.sig \in Signal
    BY <1>7, TakenFrame, EventFacts DEF ConsumeEntry, LiveEntry, EntryAccepted, broker
  <2>2. CASE Eligible /\ pos = 0 /\ Opens = {}
    <3>1. task'.step = "consumedEntry" /\ task'.ev = Frame
      BY <1>7, <2>2 DEF ConsumeEntry, Task
    <3>2. working = {}
      BY <1>t, <2>1 DEF ExecutionClear, BrokerInv, Unknown, Terminal
    <3>3. Exit(Frame.sig) \notin processed'
      <4>1. Exit(Frame.sig) # Frame
        BY <2>1, EventFacts
      <4> QED
        BY <2>1, <2>2, <4>1, ExitNotBeforeEntry, TakenLive
    <3>4. (Exit(task.ev.sig) \notin processed)'
      BY <3>1, <3>3 DEF Exit, Ev
    <3> QED
      BY <2>1, <2>2, <3>1, <3>2, <3>4 DEF ApprovalInv, Opens
  <2>3. CASE ~ (Eligible /\ pos = 0 /\ Opens = {})
    BY <1>1, <1>7, <1>l, <2>3 DEF ConsumeEntry
  <2> QED
    BY <2>2, <2>3
<1>8. CASE CommitEntry
  <2>1. CASE life'[task.ev.sig] # life[task.ev.sig]
    <3>1. /\ task'.step = "committedEntry" /\ task'.ev = task.ev /\ task.ev \in Event
          /\ task.ev.kind = "entry" /\ UNCHANGED <<ledger, pos, working, answers, processed>>
          /\ Commit(task.ev) /\ task.ev.sig \in Signal
      BY <1>8, <1>e, <1>s, <2>1 DEF CommitEntry, WindowInv, TypeOK, broker, store
    <3>2. life' = [life EXCEPT ![task.ev.sig] = IF task.ev.sig \in Short THEN "ShortOpen"
                                                ELSE "LongOpen"]
      BY <2>1, <3>1, CommitFacts
    <3>3. Opens = {} /\ pos = 0 /\ working = {} /\ Exit(task.ev.sig) \notin processed
      BY <1>8 DEF CommitEntry, ApprovalInv
    <3>4. Opens' = {task.ev.sig}
      BY <1>t, <3>1, <3>2, <3>3 DEF Opens
    <3> QED
      BY <3>1, <3>3, <3>4 DEF ApprovalInv
  <2>2. CASE life'[task.ev.sig] = life[task.ev.sig]
    BY <1>1, <1>8, <1>l, <2>2 DEF CommitEntry
  <2> QED
    BY <2>1, <2>2
<1>9. CASE ReserveEntry
  <2>1. /\ task'.step = "reservedEntry" /\ task'.ev = task.ev
        /\ UNCHANGED <<life, pos, working, answers, processed>>
    BY <1>9 DEF ReserveEntry, TypeOK, broker, store
  <2> QED
    BY <1>9, <2>1 DEF ReserveEntry, ApprovalInv, Opens
<1>10. CASE SubmitEntry
  <2>1. /\ task'.step = "marked" /\ task'.ev = task.ev /\ task.ev \in Event
        /\ ledger' = [ledger EXCEPT ![task.ev] = "Submitted"]
        /\ ledger[task.ev] = "Reserved" /\ task.ev.kind = "entry"
        /\ UNCHANGED <<life, pos, working, answers, processed>>
    BY <1>10, <1>e, <1>s DEF SubmitEntry, BooksInv, WindowInv, TypeOK, broker, store
  <2>2. \A status \in Terminal : <<task.ev, status>> \notin answers
    BY <2>1 DEF BrokerInv
  <2> QED
    BY <1>10, <1>t, <2>1, <2>2 DEF SubmitEntry, ApprovalInv, Opens
<1>11. CASE PlaceOrder
  <2>1. /\ task'.step = "waiting" /\ task'.ev = task.ev /\ working' = {task.ev}
        /\ ledger[task.ev] = "Submitted" /\ \A status \in Terminal : <<task.ev, status>> \notin answers
        /\ UNCHANGED <<ledger, answers>>
    BY <1>11 DEF PlaceOrder, ApprovalInv, TypeOK
  <2> QED
    BY <2>1 DEF ApprovalInv, Terminal
<1>12. CASE IBDrops
  BY <1>2, <1>12 DEF IBDrops, store
<1>13. ASSUME NEW e \in Event, EaglePublishes(e) PROVE ApprovalInv'
  BY <1>2, <1>13 DEF EaglePublishes, store, broker
<1>14. CASE Flatten
  <2>1. /\ UNCHANGED <<life, ledger, working, answers, task, processed>>
        /\ pos' = 0 /\ pos # 0 /\ task.step # "marked"
    BY <1>14 DEF Flatten, store
  <2> QED
    BY <2>1 DEF ApprovalInv, Opens
<1>15. ASSUME NEW e \in Event, NEW status \in Terminal, BrokerEnds(e, status)
       PROVE  ApprovalInv'
  <2>1. /\ e \in working /\ UNCHANGED <<life, ledger, task, processed>>
        /\ working' = working \ {e}
        /\ pos' = IF status = "Filled" THEN pos + Bought(e) ELSE pos
        /\ answers' \in {answers, answers \cup {<<e, status>>}}
    BY <1>15 DEF BrokerEnds, store
  <2>2. CASE task.step = "waiting"
    <3>1. task.ev = e
      BY <2>1, <2>2 DEF ApprovalInv
    <3>2. ledger[e] = "Submitted" /\ <<e, "Filled">> \notin answers
      BY <2>1 DEF BrokerInv, Terminal
    <3>3. status = "Filled" /\ e.kind = "exit" => pos' = 0
      <4> SUFFICES ASSUME status = "Filled", e.kind = "exit" PROVE pos' = 0
        OBVIOUS
      <4>1. pos = Side(e.sig) /\ e.sig \in Opens /\ e.sig \in Signal
        BY <2>1, EventFacts DEF BrokerInv
      <4>2. Bought(e) = - Side(e.sig)
        BY <4>1, BoughtFacts
      <4> QED
        BY <2>1, <4>1, <4>2, SideFacts
    <3> QED
      BY <2>1, <2>2, <3>1, <3>2, <3>3 DEF ApprovalInv
  <2>3. CASE task.step # "waiting"
    <3>1. task.step \notin EntryStep \cup {"marked"}
      BY <2>1 DEF ApprovalInv
    <3> QED
      BY <2>1, <2>3, <3>1, <1>s DEF ApprovalInv
  <2> QED
    BY <2>2, <2>3
<1>16. ASSUME NEW e \in Event, NEW status \in Terminal, Answer(e, status)
       PROVE  ApprovalInv'
  <2>1. /\ \A f \in Event : f # e => ledger'[f] = ledger[f]
        /\ ledger'[e] = IF ledger[e] = "Submitted" THEN status ELSE ledger[e]
        /\ answers' \subseteq answers /\ <<e, status>> \in answers
        /\ UNCHANGED <<life, pos, working, task, processed>>
    BY <1>16, <1>t DEF Answer, store
  <2>2. CASE task.step = "marked"
    <3>1. task.ev \in Event /\ task.ev # e
      BY <1>e, <2>1, <2>2, <1>s DEF ApprovalInv
    <3> QED
      BY <2>1, <2>2, <3>1 DEF ApprovalInv, Opens, OwnsExactly, Side
  <2>3. CASE task.step # "marked"
    <3>1. task.step = "waiting" => task.ev \in Event
      BY <1>e, <1>s
    <3> QED
      BY <2>1, <2>3, <3>1 DEF ApprovalInv, Opens
  <2> QED
    BY <2>2, <2>3
<1> QED
  BY <1>3, <1>4, <1>5, <1>6, <1>7, <1>8, <1>9, <1>10, <1>11, <1>12, <1>13, <1>14, <1>15,
     <1>16, NextCases

LEMMA OwnerInvStep ==
    ASSUME TypeOK, WindowInv, StoreInv, BooksInv, BrokerInv, ApprovalInv, OwnerInv, Next
    PROVE  OwnerInv'
<1>t. life \in [Signal -> {"New", "LongOpen", "ShortOpen", "Closed"}]
  BY DEF TypeOK
<1>k. \A e \in Event : ledger[e] # Unknown => ledger'[e] # Unknown
  BY LedgerKeeps
<1>g. \A s \in Signal : Entry(s) \in Event /\ Entry(s)' = Entry(s)
  BY EventFacts DEF Entry, Ev
<1>o. \A s \in Opens : s \in Signal
  BY DEF Opens
<1>1. ASSUME \A s \in Opens : life'[s] = life[s], pos' = pos PROVE OwnerInv'
  <2>1. \A s \in Opens : s \in Opens' /\ Side(s)' = Side(s)
    BY <1>1 DEF Opens, Side
  <2> QED
    BY <1>1, <1>k, <1>g, <1>o, <2>1 DEF OwnerInv, Unknown
<1>2. ASSUME pos' = 0 PROVE OwnerInv'
  BY <1>2 DEF OwnerInv
<1>3. CASE Ending
  BY <1>1, <1>3, EndingLeaves DEF Leaves
<1>4. CASE Start \/ Hello \/ (\E h \in Heartbeats : Heartbeat(h)) \/ HeartbeatWithoutIB
           \/ ReplayIgnored \/ ReplayConsumed \/ ConsumeReplayedExit
           \/ LiveIgnored \/ ConsumeExit \/ ReserveExit \/ SubmitExit
  BY <1>1, <1>4 DEF Start, Hello, Heartbeat, HeartbeatWithoutIB, ReplayIgnored, ReplayConsumed,
     ConsumeReplayedExit, LiveIgnored, ConsumeExit, ReserveExit, SubmitExit, broker
<1>5. CASE PostponeExit \/ MissEntry \/ ConsumeEntry \/ ReserveEntry \/ SubmitEntry
           \/ PlaceOrder \/ Settle \/ IBDrops
           \/ (\E e \in Event : EaglePublishes(e))
           \/ (\E e \in Event, status \in Terminal : Answer(e, status))
  BY <1>1, <1>5 DEF PostponeExit, MissEntry, ConsumeEntry, ReserveEntry, SubmitEntry,
     PlaceOrder, Settle, IBDrops, EaglePublishes, Answer, broker
<1>6. CASE CommitReplayedEntry \/ CommitEntry
  <2>1. /\ task.ev \in Event /\ task.ev.kind = "entry" /\ Commit(task.ev) /\ pos' = pos
        /\ task.ev.sig \in Signal
    BY <1>6, EventUnderWay DEF CommitReplayedEntry, CommitEntry, broker, WindowInv, EntryStep,
       OfEvent, Step, Away
  <2> QED
    BY <1>1, <1>t, <2>1, CommitFacts DEF Opens
<1>7. CASE RecoverReplayedExit
  <2>1. pos' = pos
    BY <1>7 DEF RecoverReplayedExit, broker
  <2>2. pos = 0 \/ life' = life
    BY <1>7 DEF RecoverReplayedExit, FlatAtBroker
  <2> QED
    BY <1>1, <1>2, <2>1, <2>2
<1>8. CASE OrderFilled
  <2>1. pos' = pos
    BY <1>8 DEF OrderFilled, broker
  <2>2. task.ev.kind = "exit" => pos = 0
    BY <1>8 DEF OrderFilled, ApprovalInv
  <2> QED
    BY <1>1, <1>2, <1>8, <2>1, <2>2 DEF OrderFilled
<1>9. CASE Flatten
  BY <1>2, <1>9 DEF Flatten
<1>10. ASSUME NEW e \in Event, NEW status \in Terminal, BrokerEnds(e, status) PROVE OwnerInv'
  <2>1. /\ e \in working /\ UNCHANGED <<life, ledger>>
        /\ pos' = IF status = "Filled" THEN pos + Bought(e) ELSE pos
    BY <1>10 DEF BrokerEnds
  <2>2. /\ e.sig \in Opens /\ e.sig \in Signal /\ ledger[e] # Unknown
        /\ e.kind \in {"entry", "exit"}
        /\ e.kind = "entry" => pos = 0 /\ e = Entry(e.sig)
        /\ e.kind = "exit" => pos = Side(e.sig)
    BY <2>1, EventFacts DEF BrokerInv, Unknown
  <2>3. Bought(e) = IF e.kind = "entry" THEN Side(e.sig) ELSE - Side(e.sig)
    BY <2>2, BoughtFacts
  <2>4. CASE status # "Filled"
    BY <1>1, <2>1, <2>4
  <2>5. CASE status = "Filled" /\ e.kind = "exit"
    BY <1>2, <2>1, <2>2, <2>3, <2>5, SideFacts
  <2>6. CASE status = "Filled" /\ e.kind = "entry"
    <3>1. pos' = Side(e.sig)
      BY <2>1, <2>2, <2>3, <2>6, SideFacts
    <3>2. e.sig \in Opens' /\ Side(e.sig)' = Side(e.sig) /\ Entry(e.sig)' = Entry(e.sig)
      BY <1>g, <2>1, <2>2 DEF Opens, Side
    <3> QED
      BY <2>1, <2>2, <2>6, <3>1, <3>2 DEF OwnerInv, Unknown
  <2> QED
    BY <2>2, <2>4, <2>5, <2>6
<1> QED
  BY <1>3, <1>4, <1>5, <1>6, <1>7, <1>8, <1>9, <1>10, NextCases

-----------------------------------------------------------------------------
(* What Eagle, IB and the operator decide keeps its types.                 *)

LEMMA OutsideTypeStep ==
    ASSUME TypeOK, LogInv, WindowInv, StoreInv, BooksInv, BrokerInv, ApprovalInv, OwnerInv, Next
    PROVE  OutsideTypes'
<1>p. pos' \in -1 .. 1
  <2>1. CASE pos' = 0
    BY <2>1
  <2>2. CASE pos' # 0
    <3>1. PICK s \in Opens' : Side(s)' = pos'
      BY <2>2, OwnerInvStep DEF OwnerInv
    <3> QED
      BY <3>1 DEF Side
  <2> QED
    BY <2>1, <2>2
<1>l. log' \in Seq(Event) /\ Len(log') <= MaxSeq
  BY LogInvStep
<1>0. ib \in BOOLEAN /\ working \subseteq Event /\ answers \subseteq Event \X Terminal
  BY DEF TypeOK
<1> SUFFICES ib' \in BOOLEAN /\ working' \subseteq Event /\ answers' \subseteq Event \X Terminal
  BY <1>p, <1>l DEF OutsideTypes
<1>1. CASE Ending
  BY <1>0, <1>1, EndingLeaves DEF Leaves
<1>2. CASE Start \/ Hello \/ (\E h \in Heartbeats : Heartbeat(h)) \/ HeartbeatWithoutIB
           \/ ReplayIgnored \/ ReplayConsumed \/ CommitReplayedEntry \/ RecoverReplayedExit
           \/ ConsumeReplayedExit \/ LiveIgnored \/ ConsumeExit \/ ReserveExit \/ SubmitExit
  BY <1>0, <1>2 DEF Start, Hello, Heartbeat, HeartbeatWithoutIB, ReplayIgnored, ReplayConsumed,
     CommitReplayedEntry, RecoverReplayedExit, ConsumeReplayedExit, LiveIgnored, ConsumeExit,
     ReserveExit, SubmitExit, broker
<1>3. CASE PostponeExit \/ MissEntry \/ ConsumeEntry \/ CommitEntry \/ ReserveEntry
           \/ SubmitEntry \/ OrderFilled \/ Settle \/ IBDrops \/ Flatten
           \/ (\E e \in Event : EaglePublishes(e))
           \/ (\E e \in Event, status \in Terminal : Answer(e, status))
  BY <1>0, <1>3 DEF PostponeExit, MissEntry, ConsumeEntry, CommitEntry, ReserveEntry,
     SubmitEntry, OrderFilled, Settle, IBDrops, Flatten, EaglePublishes, Answer, broker
<1>4. CASE PlaceOrder
  BY <1>0, <1>4, EventUnderWay DEF PlaceOrder, OfEvent, Away, Step
<1>5. ASSUME NEW e \in Event, NEW status \in Terminal, BrokerEnds(e, status)
      PROVE  ib' \in BOOLEAN /\ working' \subseteq Event /\ answers' \subseteq Event \X Terminal
  BY <1>0, <1>5 DEF BrokerEnds
<1> QED
  BY <1>1, <1>2, <1>3, <1>4, <1>5, NextCases

LEMMA PastTypeStep ==
    ASSUME TypeOK, WindowInv, Next
    PROVE  PastTypes'
<1> USE DEF PastTypes
<1>0. /\ PastTypes /\ MaxCrashes \in Nat /\ MaxEagleDrops \in Nat
      /\ MaxIBDrops \in Nat /\ MaxFlattens \in Nat
  BY TypeParts, BoundsAssumption
<1>e. /\ task.ev \in Event \cup {NoEvent}
      /\ ReplayFrame \/ LiveFrame => Frame \in Event
  BY TaskType, TakenFrame
<1>1. ASSUME UNCHANGED <<halted, budget>> PROVE PastTypes'
  BY <1>0, <1>1 DEF budget
<1>2. ASSUME NEW at \in {"hello", "heartbeat", "recovery", "replay", "event", "order"},
             NEW e \in Event \cup {NoEvent}, Halt(at, e)
      PROVE  PastTypes'
  BY <1>0, <1>2 DEF Halt, budget
<1>3. ASSUME LoseSession, UNCHANGED budget PROVE PastTypes'
  BY <1>1, <1>3 DEF LoseSession, past
<1>4. ASSUME NEW at \in {"hello", "heartbeat", "recovery", "replay", "event", "order"},
             NEW e \in Event \cup {NoEvent}, RefreshFails(at, e)
      PROVE  PastTypes'
  BY <1>2, <1>3, <1>4 DEF RefreshFails
<1>5. CASE HelloRaises \/ RecoveryRaises \/ HeartbeatRaises \/ LiveUnauthorized
           \/ LiveExitRaises \/ OrderRaises
  BY <1>2, <1>5, <1>e DEF HelloRaises, RecoveryRaises, HeartbeatRaises, LiveUnauthorized,
     LiveExitRaises, LiveExit, OrderRaises
<1>6. CASE ReplayedExitRaises \/ LiveEntryRaises \/ SettleFails
  BY <1>2, <1>4, <1>6, <1>e DEF ReplayedExitRaises, ReplayedExit, LiveEntryRaises, LiveEntry,
     SettleFails
<1>7. CASE HelloWithoutIB \/ WaitTimesOut
  BY <1>3, <1>7 DEF HelloWithoutIB, WaitTimesOut
<1>8. CASE EagleDrops
  BY <1>0, <1>8 DEF EagleDrops, LoseSession, past
<1>9. CASE Crash
  BY <1>0, <1>9 DEF Crash, past
<1>10. CASE IBDrops
  BY <1>0, <1>10 DEF IBDrops, past
<1>11. CASE Flatten
  BY <1>0, <1>11 DEF Flatten, past
<1>12. CASE Start \/ Hello \/ (\E h \in Heartbeats : Heartbeat(h)) \/ HeartbeatWithoutIB
            \/ ReplayIgnored \/ ReplayConsumed \/ CommitReplayedEntry \/ RecoverReplayedExit
            \/ ConsumeReplayedExit \/ LiveIgnored \/ ConsumeExit \/ ReserveExit \/ SubmitExit
  BY <1>1, <1>12 DEF Start, Hello, Heartbeat, HeartbeatWithoutIB, ReplayIgnored, ReplayConsumed,
     CommitReplayedEntry, RecoverReplayedExit, ConsumeReplayedExit, LiveIgnored, ConsumeExit,
     ReserveExit, SubmitExit, past
<1>13. CASE PostponeExit \/ MissEntry \/ ConsumeEntry \/ CommitEntry \/ ReserveEntry
            \/ SubmitEntry \/ PlaceOrder \/ OrderFilled \/ Settle
            \/ (\E e \in Event : EaglePublishes(e))
            \/ (\E e \in Event, status \in Terminal : BrokerEnds(e, status) \/ Answer(e, status))
  BY <1>1, <1>13 DEF PostponeExit, MissEntry, ConsumeEntry, CommitEntry, ReserveEntry,
     SubmitEntry, PlaceOrder, OrderFilled, Settle, EaglePublishes, BrokerEnds, Answer, past
<1> QED
  BY <1>5, <1>6, <1>7, <1>8, <1>9, <1>10, <1>11, <1>12, <1>13, NextCases DEF Ending

LEMMA TypeStep ==
    ASSUME TypeOK, LogInv, WindowInv, StoreInv, BooksInv, BrokerInv, ApprovalInv, OwnerInv, Next
    PROVE  TypeOK'
BY BookTypeStep, TaskTypeStep, OutsideTypeStep, PastTypeStep
   DEF TypeOK, BookTypes, TaskTypes, OutsideTypes, PastTypes

-----------------------------------------------------------------------------
(* Missed trades.                                                          *)

LEMMA OwnerIsNotMissed ==
    ASSUME TypeOK, OwnerInv, MissedInv, NEW s \in Signal, OwnsExactly(s)
    PROVE  s \notin everMissed
<1>1. pos # 0 /\ Opens = {s}
  BY OwnsFacts DEF OwnsExactly
<1>2. ledger[Entry(s)] # Unknown
  BY <1>1 DEF OwnerInv
<1> QED
  BY <1>2, EventFacts DEF MissedInv

\* What a session is told to be live is not part of a missed trade, unless the
\* session knows that.
LEMMA LiveIsNotMissed ==
    ASSUME TypeOK, LogInv, WindowInv, MissedInv, LiveFrame, ~ IsMissed,
           Frame.kind \in {"entry", "exit"}
    PROVE  Frame.sig \notin everMissed
<1>0. /\ session.sent + 1 \in 1 .. Len(log) /\ Frame = log[session.sent + 1] /\ Frame \in Event
      /\ session.sent \in Nat /\ task.step = "listening" /\ Len(log) \in Nat
  BY TakenFrame, LogType
<1>1. Reached = session.sent
  BY <1>0 DEF Reached, Away, LiveFrame
<1>2. SUFFICES ASSUME Frame.sig \in everMissed PROVE FALSE
  OBVIOUS
<1>3. Past(Frame)
  <2>1. Past(Entry(Frame.sig)) /\ (Frame.sig \in missed \/ Past(Exit(Frame.sig)))
    BY <1>0, <1>2 DEF MissedInv, Away
  <2> QED
    BY <1>0, <2>1, EventFacts DEF IsMissed
<1> QED
  BY <1>0, <1>1, <1>3 DEF Past, LogInv

\* History grows, and what is history for a session stays so.
LEMMA PastGrows ==
    ASSUME TypeOK, LogInv, WindowInv, Next, NEW e, Past(e)
    PROVE  \E i \in 1 .. Len(log') : i <= Reached' /\ log'[i] = e
<1>0. /\ session.sent \in Nat /\ session.left \in Nat /\ cursor \in Int
      /\ Len(log) \in Nat /\ session.sent + session.left <= Len(log) /\ cursor <= Len(log)
  BY LogType, StoreType, BoundsAssumption DEF TypeOK, WindowInv
<1>l. Listening.step = "listening"
  BY DEF Listening, Task
<1>r. Reached <= Len(log)
  BY <1>0 DEF Reached
<1>1. ASSUME log' = log, Reached <= Reached', Reached' \in Int
      PROVE  \E i \in 1 .. Len(log') : i <= Reached' /\ log'[i] = e
  BY <1>0, <1>1, <1>r DEF Past, Reached
<1>2. ASSUME log' = log, task'.step \in Away PROVE Reached <= Reached' /\ Reached' \in Int
  BY <1>0, <1>2, <1>r DEF Reached
<1>3. ASSUME UNCHANGED session, task.step \notin Away, task'.step \notin Away
      PROVE  Reached <= Reached' /\ Reached' \in Int
  BY <1>0, <1>3 DEF Reached
<1>4. ASSUME UNCHANGED <<log, session, task>> PROVE Reached <= Reached' /\ Reached' \in Int
  BY <1>0, <1>4 DEF Reached
<1>5. CASE Ending
  <2>1. log' = log /\ task'.step \in Away
    BY <1>5, EndingLeaves DEF Leaves, Task, Away
  <2> QED
    BY <1>1, <1>2, <2>1
<1>6. CASE Start
  <2>1. log' = log /\ task'.step \in Away
    BY <1>6 DEF Start, Task, Away
  <2> QED
    BY <1>1, <1>2, <2>1
<1>7. CASE Hello
  <2>1. /\ log' = log /\ task'.step = "listening" /\ task.step = "connecting"
        /\ session'.sent = Since /\ session'.left = Len(log) - Since
    BY <1>7, <1>l DEF Hello
  <2>2. Reached' = Len(log)
    BY <1>0, <2>1 DEF Reached, Away, Since
  <2> QED
    BY <1>0, <1>1, <1>r, <2>1, <2>2
<1>8. CASE (\E h \in Heartbeats : Heartbeat(h)) \/ HeartbeatWithoutIB
  <2>1. /\ UNCHANGED <<log, task>> /\ session'.sent = session.sent /\ session'.left = session.left
    BY <1>8 DEF Heartbeat, HeartbeatWithoutIB, TypeOK
  <2> QED
    BY <1>0, <1>1, <2>1 DEF Reached
<1>9. CASE ReplayIgnored \/ ReplayConsumed \/ RecoverReplayedExit
  <2>1. /\ log' = log /\ task.step = "listening" /\ ReplayFrame /\ CountReplayFrame
    BY <1>9, TakenFrame DEF ReplayIgnored, ReplayConsumed, RecoverReplayedExit, ReplayedExit
  <2>2. task'.step \notin Away
    BY <1>9, <1>l, <2>1 DEF ReplayIgnored, ReplayConsumed, RecoverReplayedExit, Task, Away
  <2>3. session'.sent + session'.left = session.sent + session.left
    BY <1>0, <2>1 DEF CountReplayFrame, TypeOK
  <2> QED
    BY <1>0, <1>1, <2>1, <2>2, <2>3 DEF Reached, Away
<1>10. CASE LiveIgnored \/ ConsumeExit \/ MissEntry \/ ConsumeEntry
  <2>1. /\ log' = log /\ task.step = "listening" /\ LiveFrame /\ TakeLiveFrame
    BY <1>10, TakenFrame DEF LiveIgnored, ConsumeExit, LiveExit, MissEntry, ConsumeEntry, LiveEntry
  <2>2. task'.step \notin Away
    BY <1>10, <1>l, <2>1 DEF LiveIgnored, ConsumeExit, MissEntry, ConsumeEntry, Task, Away
  <2>3. session'.sent + session'.left = session.sent + session.left + 1
    BY <1>0, <2>1 DEF TakeLiveFrame, TypeOK
  <2> QED
    BY <1>0, <1>1, <2>1, <2>2, <2>3 DEF Reached, Away
<1>11. CASE ConsumeReplayedExit
  <2>1. /\ log' = log /\ task.step = "replayExit" /\ task'.step = "listening"
        /\ session'.sent = session.sent /\ session'.left = session.left
    BY <1>11, <1>l DEF ConsumeReplayedExit, TypeOK
  <2> QED
    BY <1>0, <1>1, <2>1 DEF Reached, Away
<1>12. CASE CommitReplayedEntry \/ ReserveExit \/ SubmitExit \/ PostponeExit \/ CommitEntry
            \/ ReserveEntry \/ SubmitEntry \/ PlaceOrder \/ OrderFilled \/ Settle
  <2>1. UNCHANGED <<log, session>> /\ task.step \notin Away /\ task'.step \notin Away
    BY <1>12, <1>l DEF CommitReplayedEntry, ReserveExit, SubmitExit, PostponeExit, CommitEntry,
       ReserveEntry, SubmitEntry, PlaceOrder, OrderFilled, Settle, Away, TypeOK
  <2> QED
    BY <1>1, <1>3, <2>1
<1>13. ASSUME NEW f \in Event, EaglePublishes(f)
       PROVE  \E i \in 1 .. Len(log') : i <= Reached' /\ log'[i] = e
  <2>1. UNCHANGED <<task, session>>
    BY <1>13 DEF EaglePublishes
  <2>2. Reached <= Reached' /\ Reached' \in Int
    BY <1>0, <1>13, <2>1, PublishFacts DEF Reached
  <2> QED
    BY <1>0, <1>13, <1>r, <2>2, PublishFacts DEF Past, Reached
<1>14. CASE \/ \E f \in Event, status \in Terminal : BrokerEnds(f, status) \/ Answer(f, status)
            \/ IBDrops \/ Flatten
  BY <1>1, <1>4, <1>14 DEF BrokerEnds, Answer, IBDrops, Flatten
<1> QED
  BY <1>5, <1>6, <1>7, <1>8, <1>9, <1>10, <1>11, <1>12, <1>13, <1>14, NextCases

LEMMA MissedInvStep ==
    ASSUME TypeOK, LogInv, WindowInv, StoreInv, BooksInv, BrokerInv, OwnerInv, MissedInv, Next
    PROVE  MissedInv'
<1> USE DEF Away
<1>t. /\ life \in [Signal -> {"New", "LongOpen", "ShortOpen", "Closed"}]
      /\ ledger \in [Event -> Status] /\ everMissed \subseteq Bitcoin /\ Bitcoin \subseteq Signal
  BY SignalAssumption DEF TypeOK
<1>l. Listening.step = "listening"
  BY DEF Listening, Task
<1>g. \A s \in Signal : Entry(s)' = Entry(s) /\ Exit(s)' = Exit(s)
  BY DEF Entry, Exit, Ev
<1>e. task.step \in OfEvent => task.ev \in Event /\ task.ev.sig \in Signal
  BY EventUnderWay
<1>s. LiveStep = {"consumedExit", "reservedExit", "consumedEntry", "committedEntry",
                  "reservedEntry", "marked", "waiting", "settling"}
  BY DEF LiveStep, OfEvent, Step
<1>p. \A e \in Event : Past(e) => \E i \in 1 .. Len(log') : i <= Reached' /\ log'[i] = e
  BY PastGrows
<1>q. \A s \in Signal : /\ Past(Entry(s)) => Past(Entry(s))'
                        /\ Past(Exit(s)) => Past(Exit(s))'
  BY <1>g, <1>p, EventFacts DEF Past
\* A step that classifies nothing and forgets nothing but at the end of a session.
<1>1. ASSUME everMissed' = everMissed, missed' \subseteq missed,
             task'.step \notin Away => task.step \notin Away /\ missed' = missed,
             \A e \in Event : e.sig \in everMissed => ledger'[e] = ledger[e],
             task'.step \in LiveStep => \/ task'.ev.sig \notin everMissed
                                        \/ task.step \in LiveStep /\ task'.ev = task.ev
      PROVE  MissedInv'
  <2>1. missed' \subseteq everMissed'
    BY <1>1 DEF MissedInv
  <2>2. \A e \in Event : e.sig \in everMissed' => ledger'[e] = Unknown
    BY <1>1 DEF MissedInv
  <2>3. \A s \in everMissed' : /\ Past(Entry(s))'
                               /\ task'.step \notin Away => s \in missed' \/ Past(Exit(s))'
    BY <1>t, <1>q, <1>1 DEF MissedInv
  <2>4. task'.step \in LiveStep => task'.ev.sig \notin everMissed'
    BY <1>1 DEF MissedInv
  <2> QED
    BY <2>1, <2>2, <2>3, <2>4 DEF MissedInv, Unknown, LiveStep, OfEvent, Step
<1>2. CASE Ending
  <2>1. /\ everMissed' = everMissed /\ missed' = {} /\ ledger' = ledger /\ task'.step \in Away
    BY <1>2, EndingLeaves DEF Leaves, Task
  <2> QED
    BY <1>1, <1>s, <2>1
<1>3. CASE Start
  <2>1. /\ everMissed' = everMissed /\ missed' = missed /\ ledger' = ledger /\ task'.step \in Away
    BY <1>3 DEF Start, Task, past
  <2> QED
    BY <1>1, <1>s, <2>1
<1>4. CASE Hello
  <2>1. /\ everMissed' = everMissed \cup MissedAtHello /\ missed' = MissedAtHello
        /\ UNCHANGED <<log, ledger>> /\ task.step = "connecting" /\ task'.step = "listening"
        /\ session'.sent = Since /\ session'.left = Len(log) - Since
    BY <1>4, <1>l DEF Hello
  <2>2. Reached' = Len(log) /\ Len(log) \in Nat
    BY <2>1, LogType, StoreType DEF Reached, Since
  <2>3. \A e : e \in Published => \E i \in 1 .. Len(log') : i <= Reached' /\ log'[i] = e
    BY <2>1, <2>2 DEF Published
  <2>4. ASSUME NEW s \in MissedAtHello
        PROVE  /\ s \in Signal /\ Past(Entry(s))'
               /\ \A e \in Event : e.sig = s => ledger'[e] = Unknown
    <3>1. s \in Signal /\ s \in EagleOpen /\ Opens = {}
      BY <1>t DEF MissedAtHello, EagleOpen
    <3>2. Entry(s) \in Published /\ Exit(s) \notin Published
      BY <3>1 DEF EagleOpen, Entry, Exit
    <3>3. life[s] = "New"
      BY <1>t, <3>1, <3>2 DEF Opens, BooksInv
    <3>4. \A e \in Event : e.sig = s => ledger'[e] = Unknown
      BY <2>1, <3>3 DEF BooksInv
    <3> QED
      BY <1>g, <2>3, <3>1, <3>2, <3>4 DEF Past
  <2>5. ASSUME NEW s \in everMissed PROVE s \in missed' \/ Past(Exit(s))'
    <3>1. s \in Signal /\ s \in Bitcoin /\ Entry(s) \in Published
      BY <1>t DEF MissedInv, Past, Published
    <3>2. CASE Exit(s) \in Published
      BY <1>g, <2>3, <3>1, <3>2 DEF Past
    <3>3. CASE Exit(s) \notin Published
      <4>1. s \in EagleOpen
        BY <3>1, <3>3 DEF EagleOpen, Entry, Exit
      <4>2. ~ OwnsExactly(s)
        BY <3>1, OwnerIsNotMissed
      <4>3. MissedAtHello # {}
        BY <1>4, <4>1, <4>2 DEF Hello, HelloAccepted, PossibleGapExit, HelloReconciled
      <4> QED
        BY <2>1, <4>1, <4>3 DEF MissedAtHello
    <3> QED
      BY <3>2, <3>3
  <2>6. \A e \in Event : e.sig \in everMissed' => ledger'[e] = Unknown
    BY <2>1, <2>4 DEF MissedInv
  <2>7. \A s \in everMissed' : Past(Entry(s))' /\ (s \in missed' \/ Past(Exit(s))')
    BY <1>t, <1>q, <2>1, <2>4, <2>5 DEF MissedInv
  <2>8. task'.step \notin LiveStep'
    BY <1>s, <2>1 DEF LiveStep, OfEvent
  <2> QED
    BY <2>1, <2>6, <2>7, <2>8 DEF MissedInv, Unknown
<1>5. CASE (\E h \in Heartbeats : Heartbeat(h)) \/ HeartbeatWithoutIB \/ ReplayIgnored
           \/ ReplayConsumed
  <2>1. /\ everMissed' = everMissed /\ missed' = missed /\ ledger' = ledger
        /\ task.step = "listening" /\ task'.step \in {"listening", "replayEntry"}
    BY <1>5, <1>l, TakenFrame DEF Heartbeat, HeartbeatWithoutIB, ReplayIgnored, ReplayConsumed,
       past, Task
  <2> QED
    BY <1>1, <1>s, <2>1
<1>6. CASE RecoverReplayedExit
  <2>1. /\ everMissed' = everMissed /\ missed' = missed
        /\ task.step = "listening" /\ task'.step = "replayExit" /\ Frame \in Event
        /\ Frame.sig \in Signal
    BY <1>6, TakenFrame, EventFacts DEF RecoverReplayedExit, ReplayedExit, past, Task
  <2>2. \/ ledger' = ledger
        \/ /\ OwnsExactly(Frame.sig)
           /\ ledger' = [ledger EXCEPT ![Frame] = "Reserved"]
    BY <1>6 DEF RecoverReplayedExit, StillExposed
  <2>3. \A e \in Event : e.sig \in everMissed => ledger'[e] = ledger[e]
    BY <1>t, <2>1, <2>2, OwnerIsNotMissed
  <2> QED
    BY <1>1, <1>s, <2>1, <2>3
<1>7. CASE CommitReplayedEntry \/ ConsumeReplayedExit \/ PostponeExit \/ Settle
           \/ CommitEntry \/ PlaceOrder \/ OrderFilled
  <2>1. /\ everMissed' = everMissed /\ missed' = missed /\ ledger' = ledger
        /\ task.step \notin Away
        /\ \/ task'.step = "listening"
           \/ task.step \in LiveStep /\ task'.ev = task.ev
    BY <1>7, <1>l, <1>s DEF CommitReplayedEntry, ConsumeReplayedExit, PostponeExit, Settle,
       CommitEntry, PlaceOrder, OrderFilled, past, TypeOK
  <2> QED
    BY <1>1, <1>s, <2>1
<1>8. CASE ReserveExit \/ SubmitExit \/ ReserveEntry \/ SubmitEntry
  <2>0. /\ everMissed' = everMissed /\ missed' = missed /\ task'.ev = task.ev
        /\ task.step \in {"consumedExit", "reservedExit", "committedEntry", "reservedEntry"}
        /\ \E st : ledger' = [ledger EXCEPT ![task.ev] = st]
    <3>1. CASE ReserveExit
      BY <3>1 DEF ReserveExit, past, TypeOK
    <3>2. CASE SubmitExit
      BY <3>2 DEF SubmitExit, past, TypeOK
    <3>3. CASE ReserveEntry
      BY <3>3 DEF ReserveEntry, past, TypeOK
    <3>4. CASE SubmitEntry
      BY <3>4 DEF SubmitEntry, past, TypeOK
    <3> QED
      BY <1>8, <3>1, <3>2, <3>3, <3>4
  <2>1. /\ everMissed' = everMissed /\ missed' = missed
        /\ task.step \in LiveStep /\ task'.ev = task.ev /\ task.ev \in Event
        /\ \E st : ledger' = [ledger EXCEPT ![task.ev] = st]
    BY <1>e, <1>s, <2>0 DEF LiveStep
  <2>2. \A e \in Event : e.sig \in everMissed => ledger'[e] = ledger[e]
    BY <1>t, <2>1 DEF MissedInv
  <2> QED
    BY <1>1, <1>s, <2>1, <2>2
<1>9. CASE LiveIgnored
  <2>1. /\ everMissed' = everMissed /\ ledger' = ledger /\ log' = log
        /\ task.step = "listening" /\ task'.step = "listening"
        /\ missed' = IF Frame.kind = "exit" THEN missed \ {Frame.sig} ELSE missed
        /\ session.sent + 1 \in 1 .. Len(log) /\ Frame = log[session.sent + 1]
        /\ Frame \in Event /\ session'.sent = session.sent + 1 /\ session'.left = 0
    BY <1>9, TakenFrame, TakenLive DEF LiveIgnored, past
  <2>2. Reached' = session.sent + 1
    BY <2>1 DEF Reached
  <2>3. ASSUME NEW s \in everMissed PROVE s \in missed' \/ Past(Exit(s))'
    <3>1. s \in missed \/ Past(Exit(s))
      BY <2>1 DEF MissedInv
    <3>2. CASE s \in missed' \/ Past(Exit(s))
      BY <1>t, <1>q, <3>2
    <3>3. CASE s \in missed /\ s \notin missed'
      <4>1. Frame = Exit(s) /\ s \in Signal
        BY <1>t, <2>1, <3>3, EventFacts
      <4>2. session.sent + 1 <= Reached' /\ log'[session.sent + 1] = Exit(s)
        BY <2>1, <2>2, <4>1
      <4>3. \E i \in 1 .. Len(log') : i <= Reached' /\ log'[i] = Exit(s)
        BY <2>1, <4>2
      <4> QED
        BY <1>g, <4>1, <4>3 DEF Past
    <3> QED
      BY <3>1, <3>2, <3>3
  <2>4. \A s \in everMissed : Past(Entry(s))'
    BY <1>t, <1>q DEF MissedInv
  <2>5. task'.step \notin LiveStep'
    BY <1>s, <2>1 DEF LiveStep, OfEvent
  <2>6. missed' \subseteq everMissed'
    BY <2>1 DEF MissedInv
  <2> QED
    BY <2>1, <2>3, <2>4, <2>5, <2>6 DEF MissedInv, Unknown
<1>10. CASE ConsumeExit \/ ConsumeEntry
  <2>1. /\ everMissed' = everMissed /\ ledger' = ledger /\ missed' = missed
        /\ task.step = "listening" /\ Frame.kind \in {"entry", "exit"} /\ LiveFrame /\ ~ IsMissed
        /\ task' = Listening \/ task'.ev = Frame
        /\ task'.step \notin Away
    BY <1>10, <1>l, TakenFrame DEF ConsumeExit, LiveExit, OpenExit, ConsumeEntry, LiveEntry, past, Task
  <2>2. Frame.sig \notin everMissed
    BY <2>1, LiveIsNotMissed
  <2> QED
    BY <1>1, <1>l, <1>s, <2>1, <2>2
<1>11. CASE MissEntry
  <2>1. /\ ledger' = ledger /\ log' = log /\ task.step = "listening" /\ task'.step = "listening"
        /\ session.sent + 1 \in 1 .. Len(log) /\ Frame = log[session.sent + 1]
        /\ Frame \in Event /\ session'.sent = session.sent + 1 /\ session'.left = 0
        /\ Frame = Entry(Frame.sig) /\ Frame.sig \in Signal
    BY <1>11, TakenFrame, TakenLive, EventFacts DEF MissEntry, LiveEntry
  <2>2. Reached' = session.sent + 1
    BY <2>1 DEF Reached
  <2>3. CASE ~ Eligible
    BY <1>1, <1>11, <1>s, <2>1, <2>3 DEF MissEntry
  <2>4. CASE Eligible
    <3>1. missed' = missed \cup {Frame.sig} /\ everMissed' = everMissed \cup {Frame.sig}
      BY <1>11, <2>4 DEF MissEntry
    <3>2. Frame \notin processed
      BY <2>1, <2>4, EligibleFacts
    <3>3. life[Frame.sig] = "New"
      BY <2>1, <3>2 DEF BooksInv
    <3>4. \A e \in Event : e.sig \in everMissed' => ledger'[e] = Unknown
      BY <2>1, <3>1, <3>3 DEF MissedInv, BooksInv
    <3>5. \E i \in 1 .. Len(log') : i <= Reached' /\ log'[i] = Entry(Frame.sig)
      BY <2>1, <2>2
    <3>6. \A s \in everMissed : Past(Entry(s))' /\ (s \in missed' \/ Past(Exit(s))')
      BY <1>t, <1>q, <2>1, <3>1 DEF MissedInv
    <3>7. \A s \in everMissed' : Past(Entry(s))' /\ (s \in missed' \/ Past(Exit(s))')
      <4> SUFFICES ASSUME NEW s \in everMissed'
                   PROVE  Past(Entry(s))' /\ (s \in missed' \/ Past(Exit(s))')
        OBVIOUS
      <4>1. CASE s \in everMissed
        BY <3>6, <4>1
      <4>2. CASE s = Frame.sig
        <5>1. Past(Entry(s))'
          BY <1>g, <2>1, <3>5, <4>2 DEF Past
        <5> QED
          BY <3>1, <4>2, <5>1
      <4> QED
        BY <3>1, <4>1, <4>2
    <3>8. task'.step \notin LiveStep'
      BY <1>s, <2>1 DEF LiveStep, OfEvent
    <3>9. missed' \subseteq everMissed'
      BY <3>1 DEF MissedInv
    <3> QED
      BY <3>4, <3>7, <3>8, <3>9 DEF MissedInv, Unknown
  <2> QED
    BY <2>3, <2>4
<1>12. CASE IBDrops \/ Flatten \/ (\E e \in Event : EaglePublishes(e))
            \/ (\E e \in Event, status \in Terminal : BrokerEnds(e, status))
  <2>1. UNCHANGED <<everMissed, missed, ledger, task>>
    BY <1>12 DEF IBDrops, Flatten, EaglePublishes, BrokerEnds, past
  <2> QED
    BY <1>1, <2>1
<1>13. ASSUME NEW e \in Event, NEW status \in Terminal, Answer(e, status)
       PROVE  MissedInv'
  <2>1. /\ UNCHANGED <<everMissed, missed, task>>
        /\ \A f \in Event : f # e => ledger'[f] = ledger[f]
    BY <1>13, <1>t DEF Answer, past
  <2>2. e.sig \notin everMissed
    BY <1>13 DEF Answer, BrokerInv, MissedInv, Unknown
  <2> QED
    BY <1>1, <2>1, <2>2
<1> QED
  BY <1>2, <1>3, <1>4, <1>5, <1>6, <1>7, <1>8, <1>9, <1>10, <1>11, <1>12, <1>13, NextCases

-----------------------------------------------------------------------------
(* Consumed exits.                                                         *)

\* A signal comes to own the exposure by the fill of its entry alone, and its
\* exit is not consumed by then.
LEMMA OwnsGained ==
    ASSUME TypeOK, WindowInv, StoreInv, BooksInv, BrokerInv, ApprovalInv, OwnerInv, Next,
           NEW s \in Signal, OwnsExactly(s)'
    PROVE  OwnsExactly(s) \/ (Exit(s) \notin processed' /\ task'.step # "replayExit")
<1>t. life \in [Signal -> {"New", "LongOpen", "ShortOpen", "Closed"}]
  BY DEF TypeOK
<1>p. pos' # 0 /\ Opens' = {s} /\ pos' = Side(s)' /\ s \in Opens'
  BY DEF OwnsExactly, Side
<1>1. ASSUME life' = life, pos' = pos PROVE OwnsExactly(s)
  BY <1>1 DEF OwnsExactly, Opens, Side
<1>2. CASE Ending
  BY <1>1, <1>2, EndingLeaves DEF Leaves
<1>3. CASE Start \/ Hello \/ (\E h \in Heartbeats : Heartbeat(h)) \/ HeartbeatWithoutIB
           \/ ReplayIgnored \/ ReplayConsumed \/ ConsumeReplayedExit
           \/ LiveIgnored \/ ConsumeExit \/ ReserveExit \/ SubmitExit
  BY <1>1, <1>3 DEF Start, Hello, Heartbeat, HeartbeatWithoutIB, ReplayIgnored, ReplayConsumed,
     ConsumeReplayedExit, LiveIgnored, ConsumeExit, ReserveExit, SubmitExit, broker
<1>4. CASE PostponeExit \/ MissEntry \/ ConsumeEntry \/ ReserveEntry \/ SubmitEntry
           \/ PlaceOrder \/ Settle \/ IBDrops
           \/ (\E e \in Event : EaglePublishes(e))
           \/ (\E e \in Event, status \in Terminal : Answer(e, status))
  BY <1>1, <1>4 DEF PostponeExit, MissEntry, ConsumeEntry, ReserveEntry, SubmitEntry,
     PlaceOrder, Settle, IBDrops, EaglePublishes, Answer, broker
<1>5. CASE CommitReplayedEntry \/ CommitEntry
  <2>1. /\ task.ev \in Event /\ task.ev.kind = "entry" /\ Commit(task.ev) /\ pos' = pos
        /\ task.ev.sig \in Signal
    BY <1>5, EventUnderWay DEF CommitReplayedEntry, CommitEntry, broker, WindowInv, EntryStep,
       OfEvent, Step, Away
  <2>2. PICK o \in Opens : ledger[Entry(o)] # Unknown
    BY <1>p, <2>1 DEF OwnerInv
  <2>3. \/ life' = life
        \/ /\ life[task.ev.sig] = "New"
           /\ life' = [life EXCEPT ![task.ev.sig] = IF task.ev.sig \in Short THEN "ShortOpen"
                                                    ELSE "LongOpen"]
    BY <2>1, CommitFacts
  <2>4. ASSUME life' # life PROVE FALSE
    <3>1. o \in Opens' /\ task.ev.sig \in Opens' /\ o # task.ev.sig
      BY <1>t, <2>1, <2>2, <2>3, <2>4 DEF Opens
    <3> QED
      BY <1>p, <3>1
  <2> QED
    BY <1>1, <2>1, <2>4
<1>6. CASE RecoverReplayedExit
  <2>1. pos' = pos
    BY <1>6 DEF RecoverReplayedExit, broker
  <2>2. pos = 0 \/ life' = life
    BY <1>6 DEF RecoverReplayedExit, FlatAtBroker
  <2> QED
    BY <1>1, <1>p, <2>1, <2>2
<1>7. CASE OrderFilled
  <2>1. pos' = pos
    BY <1>7 DEF OrderFilled, broker
  <2>2. task.ev.kind = "exit" => pos = 0
    BY <1>7 DEF OrderFilled, ApprovalInv
  <2> QED
    BY <1>1, <1>7, <1>p, <2>1, <2>2 DEF OrderFilled
<1>8. CASE Flatten
  BY <1>8, <1>p DEF Flatten
<1>9. ASSUME NEW e \in Event, NEW status \in Terminal, BrokerEnds(e, status)
      PROVE  OwnsExactly(s) \/ (Exit(s) \notin processed' /\ task'.step # "replayExit")
  <2>1. /\ e \in working /\ UNCHANGED <<life, processed, task>>
        /\ pos' = IF status = "Filled" THEN pos + Bought(e) ELSE pos
    BY <1>9 DEF BrokerEnds, store
  <2>2. e.sig \in Opens /\ e.sig \in Signal /\ e.kind \in {"entry", "exit"}
    BY <2>1, EventFacts DEF BrokerInv
  <2>3. Bought(e) = IF e.kind = "entry" THEN Side(e.sig) ELSE - Side(e.sig)
    BY <2>2, BoughtFacts
  <2>4. CASE status # "Filled"
    BY <1>1, <2>1, <2>4
  <2>5. CASE status = "Filled" /\ e.kind = "exit"
    <3>1. pos = Side(e.sig)
      BY <2>1, <2>5 DEF BrokerInv
    <3> QED
      BY <1>p, <2>1, <2>2, <2>3, <2>5, <3>1, SideFacts
  <2>6. CASE status = "Filled" /\ e.kind = "entry"
    <3>1. e.sig = s
      BY <1>p, <2>1, <2>2 DEF Opens
    <3>2. Exit(s) \notin processed /\ (task.step \in Away \/ task.step = "waiting")
      BY <2>1, <2>6, <3>1 DEF BrokerInv, Task
    <3> QED
      BY <2>1, <3>2 DEF Away
  <2> QED
    BY <2>2, <2>4, <2>5, <2>6
<1> QED
  BY <1>2, <1>3, <1>4, <1>5, <1>6, <1>7, <1>8, <1>9, NextCases

LEMMA ExitInvStep ==
    ASSUME TypeOK, LogInv, WindowInv, StoreInv, BooksInv, BrokerInv, ApprovalInv, OwnerInv,
           MissedInv, ExitInv, Next, StoreInv'
    PROVE  ExitInv'
<1> USE DEF ReplayedExitIsReserved, ConsumedExitIsReserved
<1>l. Listening.step = "listening"
  BY DEF Listening, Task
<1>t. ledger \in [Event -> Status] /\ replayed \subseteq Event /\ processed \subseteq Event
  BY StoreType DEF TypeOK
<1>e. task.step \in OfEvent => task.ev \in Event /\ task.ev.sig \in Signal
  BY EventUnderWay
<1>o. Step = {"down", "connecting", "listening", "replayEntry", "replayExit",
              "consumedExit", "reservedExit", "consumedEntry", "committedEntry",
              "reservedEntry", "marked", "waiting", "settling"}
  BY DEF Step
<1>k. \A e \in Event : ledger[e] # Unknown => ledger'[e] # Unknown
  BY LedgerKeeps
<1>r. replayed' \subseteq processed' /\ processed' \subseteq Event /\ replayed \subseteq processed
  BY StoreTypeStep DEF StoreInv, Store!StoreTypeOK
\* Who owns the exposure of a consumed exit after the step did so before.
<1>w. \A e \in Event : e.kind = "exit" /\ OwnsExactly(e.sig)'
          /\ (e \in processed' \/ task'.step = "replayExit") => OwnsExactly(e.sig)
  BY OwnsGained, EventFacts
<1>m. \A e \in Event : OwnsExactly(e.sig) => e.sig \notin everMissed /\ e.sig \in Opens
  BY OwnerIsNotMissed, OwnsFacts, EventFacts
\* The three parts, for a step that consumes nothing.
<1>1. ASSUME replayed' = replayed
      PROVE  ReplayedExitIsReserved'
  <2>1. ASSUME NEW e \in replayed', e.kind = "exit", OwnsExactly(e.sig)'
        PROVE  ledger'[e] # Unknown
    <3>1. e \in Event /\ OwnsExactly(e.sig)
      BY <1>1, <1>r, <1>t, <1>w, <2>1
    <3> QED
      BY <1>1, <1>k, <2>1, <3>1 DEF ExitInv
  <2> QED
    BY <1>1, <2>1 DEF Unknown
<1>2. ASSUME processed' = processed,
             crashes' = 0 => crashes = 0 /\ (task' = task \/ task.step # "consumedExit")
      PROVE  (crashes = 0 => ConsumedExitIsReserved)'
  <2>1. ASSUME crashes' = 0, NEW e \in processed', e.kind = "exit", OwnsExactly(e.sig)',
               task' # Task("consumedExit", e)
        PROVE  ledger'[e] # Unknown
    <3>1. e \in Event /\ e \in processed /\ OwnsExactly(e.sig)
      BY <1>2, <1>r, <1>w, <2>1
    <3>2. task # Task("consumedExit", e)
      BY <1>2, <2>1 DEF Task
    <3> QED
      BY <1>2, <1>k, <2>1, <3>1, <3>2 DEF ExitInv
  <2> QED
    BY <2>1 DEF Task, Unknown
<1>3. ASSUME task' = task \/ task'.step # "replayExit"
      PROVE  (task.step = "replayExit" /\ OwnsExactly(task.ev.sig) => ledger[task.ev] # Unknown)'
  <2> SUFFICES ASSUME task'.step = "replayExit", OwnsExactly(task.ev.sig)'
               PROVE  ledger'[task'.ev] # Unknown
    BY DEF Unknown
  <2>1. task' = task /\ task.step = "replayExit"
    BY <1>3
  <2>2. PICK e \in Event : e = task.ev /\ e.kind = "exit"
    BY <1>e, <2>1 DEF WindowInv, ExitStep, OfEvent, Away, Step
  <2>3. OwnsExactly(e.sig)'
    BY <2>1, <2>2 DEF OwnsExactly, Opens, Side
  <2>4. OwnsExactly(e.sig)
    BY <1>w, <2>1, <2>2, <2>3
  <2> QED
    BY <1>k, <2>1, <2>2, <2>4 DEF ExitInv
<1>4. ASSUME UNCHANGED <<replayed, processed>>,
             crashes' = 0 => crashes = 0 /\ (task' = task \/ task.step # "consumedExit"),
             task' = task \/ task'.step # "replayExit"
      PROVE  ExitInv'
  BY <1>1, <1>2, <1>3, <1>4 DEF ExitInv
<1>5. ASSUME ledger' = ledger, UNCHANGED <<replayed, processed, crashes>>,
             task' = task \/ (task.step # "consumedExit" /\ task'.step # "replayExit")
      PROVE  ExitInv'
  BY <1>4, <1>5
<1>6. CASE Ending
  <2>1. task'.step # "replayExit"
    BY <1>6, EndingLeaves DEF Leaves, Task
  <2>2. crashes' = 0 => crashes = 0 /\ task.step # "consumedExit"
    BY <1>6, EndingLeaves DEF Leaves
  <2>3. UNCHANGED <<replayed, processed>>
    BY <1>6, EndingLeaves DEF Leaves, store
  <2> QED
    BY <1>4, <2>1, <2>2, <2>3
<1>7. CASE Start \/ Hello \/ (\E h \in Heartbeats : Heartbeat(h)) \/ HeartbeatWithoutIB
           \/ ReplayIgnored \/ CommitReplayedEntry \/ PostponeExit \/ CommitEntry
           \/ PlaceOrder \/ OrderFilled \/ Settle
  <2>1. ledger' = ledger /\ UNCHANGED <<replayed, processed, crashes>>
    BY <1>7 DEF Start, Hello, Heartbeat, HeartbeatWithoutIB, ReplayIgnored, CommitReplayedEntry,
       PostponeExit, CommitEntry, PlaceOrder, OrderFilled, Settle, store, past, budget,
       Store!MarkSeqProcessed
  <2>2. task' = task \/ (task.step # "consumedExit" /\ task'.step # "replayExit")
    BY <1>7, <1>l DEF Start, Hello, Heartbeat, HeartbeatWithoutIB, ReplayIgnored,
       CommitReplayedEntry, PostponeExit, CommitEntry, PlaceOrder, OrderFilled, Settle, Task,
       TypeOK
  <2> QED
    BY <1>5, <2>1, <2>2
<1>8. CASE IBDrops \/ Flatten \/ (\E e \in Event : EaglePublishes(e))
           \/ (\E e \in Event, status \in Terminal : BrokerEnds(e, status))
  <2>1. UNCHANGED <<ledger, replayed, processed, crashes, task>>
    BY <1>8 DEF IBDrops, Flatten, EaglePublishes, BrokerEnds, store, past, budget
  <2> QED
    BY <1>5, <2>1
<1>9. ASSUME NEW f \in Event, NEW status \in Terminal, Answer(f, status)
      PROVE  ExitInv'
  <2>1. UNCHANGED <<replayed, processed, crashes, task>>
    BY <1>9 DEF Answer, store, past, budget
  <2> QED
    BY <1>4, <2>1
<1>10. CASE SubmitExit \/ ReserveEntry \/ SubmitEntry
  <2>1. /\ UNCHANGED <<replayed, processed, crashes>>
        /\ task.step # "consumedExit" /\ task'.step # "replayExit"
    BY <1>10 DEF SubmitExit, ReserveEntry, SubmitEntry, store, past, budget, TypeOK
  <2> QED
    BY <1>4, <2>1
<1>11. CASE ReserveExit
  <2>1. /\ UNCHANGED <<replayed, processed, crashes>>
        /\ ledger' = [ledger EXCEPT ![task.ev] = "Reserved"]
        /\ task.step = "consumedExit" /\ task'.step = "reservedExit"
        /\ task = Task("consumedExit", task.ev)
    BY <1>11, TaskType DEF ReserveExit, store, past, budget, TypeOK
  <2>2. ASSUME crashes' = 0, NEW e \in processed', e.kind = "exit", OwnsExactly(e.sig)'
        PROVE  ledger'[e] # Unknown
    <3>1. e \in Event /\ e \in processed /\ OwnsExactly(e.sig)
      BY <1>r, <1>w, <2>1, <2>2
    <3>2. CASE e = task.ev
      BY <1>t, <2>1, <3>1, <3>2 DEF Unknown
    <3>3. CASE e # task.ev
      <4>1. task # Task("consumedExit", e)
        BY <2>1, <3>3 DEF Task
      <4>2. ledger[e] # Unknown
        BY <2>1, <2>2, <3>1, <4>1 DEF ExitInv
      <4> QED
        BY <1>k, <3>1, <4>2
    <3> QED
      BY <3>2, <3>3
  <2>3. (crashes = 0 => ConsumedExitIsReserved)'
    BY <2>2 DEF Unknown
  <2> QED
    BY <1>1, <1>3, <2>1, <2>3 DEF ExitInv
<1>12. CASE RecoverReplayedExit
  <2>1. /\ UNCHANGED <<replayed, processed, crashes>>
        /\ task.step = "listening" /\ task' = Task("replayExit", Frame)
        /\ Frame \in Event /\ Frame.kind = "exit"
        /\ ledger' \in {ledger, [ledger EXCEPT ![Frame] = "Reserved"]}
        /\ pos' = pos
        /\ pos = 0 \/ ledger' = [ledger EXCEPT ![Frame] = "Reserved"]
    BY <1>12, TakenFrame DEF RecoverReplayedExit, ReplayedExit, ClosedBefore, FlatAtBroker,
       store, past, budget, broker
  <2>2. (task.step = "replayExit" /\ OwnsExactly(task.ev.sig) => ledger[task.ev] # Unknown)'
    <3> SUFFICES ASSUME OwnsExactly(task.ev.sig)'
                 PROVE  ledger'[task'.ev] # Unknown
      BY DEF Unknown
    <3>1. pos # 0 /\ task'.ev = Frame
      BY <2>1 DEF OwnsExactly, Side, Task
    <3> QED
      BY <1>t, <2>1, <3>1 DEF Unknown
  <2> QED
    BY <1>1, <1>2, <2>1, <2>2 DEF ExitInv
\* A step that consumes one event, which is not an exit, or is no owned one,
\* or goes on to its reservation, or was recovered.
<1>13. ASSUME UNCHANGED <<ledger, crashes>>, task.step # "consumedExit", task'.step # "replayExit",
              NEW f \in Event, processed' \subseteq processed \cup {f},
              replayed' \subseteq replayed \cup {f},
              f \in replayed' /\ f.kind = "exit" /\ OwnsExactly(f.sig) => ledger[f] # Unknown,
              \/ f.kind # "exit" \/ ~ OwnsExactly(f.sig) \/ task' = Task("consumedExit", f)
              \/ f \notin processed' \ processed \/ ledger[f] # Unknown
       PROVE  ExitInv'
  <2>1. ASSUME NEW e \in replayed', e.kind = "exit", OwnsExactly(e.sig)'
        PROVE  ledger'[e] # Unknown
    BY <1>13, <1>r, <1>w, <2>1 DEF ExitInv
  <2>2. ASSUME crashes' = 0, NEW e \in processed', e.kind = "exit", OwnsExactly(e.sig)',
               task' # Task("consumedExit", e)
        PROVE  ledger'[e] # Unknown
    <3>1. e \in Event /\ OwnsExactly(e.sig)
      BY <1>r, <1>w, <2>2
    <3>2. CASE e \in processed
      <4>1. task # Task("consumedExit", e)
        BY <1>13 DEF Task
      <4> QED
        BY <1>13, <2>2, <3>1, <3>2, <4>1 DEF ExitInv
    <3>3. CASE e \notin processed
      BY <1>13, <2>2, <3>1, <3>3
    <3> QED
      BY <3>2, <3>3
  <2> QED
    BY <1>3, <1>13, <2>1, <2>2 DEF ExitInv, Task, Unknown
<1>14. CASE ReplayConsumed
  <2>1. /\ UNCHANGED <<ledger, crashes>> /\ task.step = "listening"
        /\ Frame \in Event /\ Frame.kind # "exit" /\ Frame \notin processed
        /\ processed' \subseteq processed \cup {Frame} /\ replayed' = replayed \cup {Frame}
        /\ task'.step # "replayExit"
    <3>1. ReplayFrame /\ Consume /\ Eligible /\ session.sent + 1 \in Nat
      BY <1>14, TakenFrame DEF ReplayConsumed
    <3> QED
      BY <1>14, <1>l, <3>1, TakenFrame, EligibleFacts, ConsumeFacts DEF ReplayConsumed, budget, Task
  <2>2. PICK f \in Event : f = Frame
    BY <2>1
  <2> QED
    BY <1>13, <2>1, <2>2
<1>15. CASE ConsumeReplayedExit
  <2>1. /\ UNCHANGED <<ledger, crashes>> /\ task.step = "replayExit" /\ task' = Listening
        /\ processed' = processed \cup {task.ev} /\ replayed' = replayed \cup {task.ev}
    BY <1>15 DEF ConsumeReplayedExit, Store!CheckAndMarkEventWithSeq, budget
  <2>2. task.ev \in Event
    BY <1>e, <2>1 DEF OfEvent, Away, Step
  <2>3. OwnsExactly(task.ev.sig) => ledger[task.ev] # Unknown
    BY <2>1 DEF ExitInv
  <2>4. PICK f \in Event : f = task.ev
    BY <2>2
  <2> QED
    BY <1>13, <1>l, <2>1, <2>2, <2>3, <2>4
<1>16. CASE LiveIgnored \/ ConsumeExit \/ MissEntry \/ ConsumeEntry
  <2>1. /\ LiveFrame /\ Consume /\ TakeLiveFrame
        /\ UNCHANGED <<ledger, crashes, replayed>>
    BY <1>16 DEF LiveIgnored, ConsumeExit, LiveExit, MissEntry, ConsumeEntry, LiveEntry, past,
       budget
  <2>2. /\ task.step = "listening" /\ Frame \in Event
        /\ processed' \in {processed, processed \cup {Frame}}
        /\ ~ Eligible => processed' = processed
        /\ Frame \notin processed => Frame \notin replayed
    BY <2>1, TakenFrame, TakenLive
  <2>3. PICK f \in Event : f = Frame
    BY <2>2
  <2>4. task'.step # "replayExit"
    BY <1>16, <1>l, <2>2 DEF LiveIgnored, ConsumeExit, MissEntry, ConsumeEntry, Task
  <2>5. \/ Frame.kind # "exit" \/ ~ OwnsExactly(Frame.sig) \/ task' = Task("consumedExit", Frame)
        \/ Frame \notin processed' \ processed
    <3>1. CASE LiveIgnored
      <4>1. OwnsExactly(Frame.sig) => Frame.sig \notin missed /\ Frame.sig \in Opens
        BY <1>m, <2>2 DEF MissedInv
      <4> QED
        BY <3>1, <4>1 DEF LiveIgnored, OpenExit, IsMissed
    <3>2. CASE ConsumeExit
      BY <2>2, <3>2 DEF ConsumeExit
    <3>3. CASE MissEntry \/ ConsumeEntry
      BY <3>3 DEF MissEntry, ConsumeEntry, LiveEntry
    <3> QED
      BY <1>16, <3>1, <3>2, <3>3
  <2>6. \A e \in replayed : e.kind = "exit" /\ OwnsExactly(e.sig) => ledger[e] # Unknown
    BY DEF ExitInv
  <2> QED
    BY <1>13, <2>1, <2>2, <2>3, <2>4, <2>5, <2>6
<1> QED
  BY <1>6, <1>7, <1>8, <1>9, <1>10, <1>11, <1>12, <1>14, <1>15, <1>16, NextCases

-----------------------------------------------------------------------------
(* The inductive invariant.                                                *)

LEMMA InitIInv == Init => IInv
<1> SUFFICES ASSUME Init PROVE IInv
  OBVIOUS
<1> USE DEF Init, NoSession, Task, store, Away, OfEvent, Unknown
<1>0. Len(log) = 0 /\ log \in Seq(Event)
  OBVIOUS
<1>1. TypeOK
  <2>1. Store!StoreTypeOK
    BY DEF Store!StoreInit, Store!StoreTypeOK, Store!SeqNo, Store!NoSeq
  <2>2. task \in [step : Step, ev : Event \cup {NoEvent}] /\ 0 \in 0 .. MaxSeq /\ 0 \in -1 .. 1
    BY BoundsAssumption DEF Step
  <2>3. ledger \in [Event -> Status]
    BY DEF Status
  <2>4. Len(log) <= MaxSeq /\ 0 \in 0 .. MaxCrashes /\ 0 \in 0 .. MaxEagleDrops
        /\ 0 \in 0 .. MaxIBDrops /\ 0 \in 0 .. MaxFlattens
    BY <1>0, BoundsAssumption
  <2> QED
    BY <1>0, <2>1, <2>2, <2>3, <2>4 DEF TypeOK
<1>2. LogInv
  BY <1>0 DEF LogInv
<1>3. WindowInv
  BY <1>0 DEF WindowInv, Store!StoreInit, Store!NoSeq, LiveStep, EntryStep, ExitStep
<1>4. StoreInv
  BY <1>0 DEF StoreInv, Store!StoreInit, LiveStep
<1>5. GapInv
  BY <1>0 DEF GapInv
<1>6. BooksInv
  BY EventFacts DEF BooksInv, Unsent, EntryStep, ExitStep
<1>7. BrokerInv
  BY DEF BrokerInv
<1>8. ApprovalInv
  BY DEF ApprovalInv, Approved, EntryStep
<1>9. OwnerInv /\ MissedInv
  BY DEF OwnerInv, MissedInv, LiveStep
<1>10. ExitInv
  BY DEF ExitInv, ReplayedExitIsReserved, ConsumedExitIsReserved,
     Store!StoreInit
<1> QED
  BY <1>1, <1>2, <1>3, <1>4, <1>5, <1>6, <1>7, <1>8, <1>9, <1>10 DEF IInv

LEMMA StutterIInv == IInv /\ UNCHANGED vars => IInv'
<1> SUFFICES ASSUME IInv, UNCHANGED vars PROVE IInv'
  OBVIOUS
<1> USE DEF vars, store, broker, past, budget, IInv
<1>0. Opens' = Opens /\ Published' = Published /\ Reached' = Reached
      /\ (\A s \in Signal : Side(s)' = Side(s) /\ OwnsExactly(s)' = OwnsExactly(s))
  BY DEF Opens, Published, Reached, Side, OwnsExactly
<1>1. TypeOK'
  BY DEF TypeOK, Store!StoreTypeOK, Store!SeqNo, Store!NoSeq
<1>2. LogInv' /\ WindowInv' /\ StoreInv'
  BY DEF LogInv, WindowInv, StoreInv
<1>3. GapInv => GapInv'
  BY DEF GapInv
<1>4. BooksInv'
  BY <1>0 DEF BooksInv
<1>5. BrokerInv'
  BY EventFacts DEF BrokerInv, TypeOK, Opens, Side, Task
<1>6. ApprovalInv'
  BY DEF ApprovalInv, Opens, OwnsExactly, Side
<1>7. OwnerInv'
  BY DEF OwnerInv, Opens, Side
<1>8. MissedInv'
  BY DEF MissedInv, Past, Reached
<1>9. ExitInv'
  BY DEF ExitInv, ReplayedExitIsReserved, ConsumedExitIsReserved,
     OwnsExactly, Opens, Side, Task
<1> QED
  BY <1>1, <1>2, <1>3, <1>4, <1>5, <1>6, <1>7, <1>8, <1>9

LEMMA StepIInv == IInv /\ [Next]_vars => IInv'
<1>1. ASSUME IInv, Next PROVE IInv'
  <2>1. TypeOK'
    BY <1>1, TypeStep DEF IInv
  <2>2. LogInv' /\ WindowInv'
    BY <1>1, LogInvStep, WindowInvStep DEF IInv
  <2>3. StoreInv'
    BY <1>1, StoreInvStep DEF IInv
  <2>4. ~ GlobalHeartbeats => GapInv'
    BY <1>1, GapInvStep DEF IInv
  <2>5. BooksInv' /\ BrokerInv' /\ ApprovalInv'
    BY <1>1, BooksInvStep, BrokerInvStep, ApprovalInvStep DEF IInv
  <2>6. OwnerInv' /\ MissedInv'
    BY <1>1, OwnerInvStep, MissedInvStep DEF IInv
  <2>7. ExitInv'
    BY <1>1, <2>3, ExitInvStep DEF IInv
  <2> QED
    BY <2>1, <2>2, <2>3, <2>4, <2>5, <2>6, <2>7 DEF IInv
<1> QED
  BY <1>1, StutterIInv

\* The inductive invariant holds of the paper trader.
THEOREM SpecIInv == Spec => []IInv
BY InitIInv, StepIInv, PTL DEF Spec

-----------------------------------------------------------------------------
(* What follows from it.                                                   *)

\* Every variable keeps its type, the budgets of the environment included.
THEOREM SpecTypeOK == Spec => []TypeOK
<1>1. IInv => TypeOK
  BY DEF IInv
<1> QED
  BY <1>1, SpecIInv, PTL

\* While IB holds a position, the durable lifecycle has a signal open on that
\* side, whatever crashed, timed out or was lost on the way: the lifecycle is
\* committed before an entry is sent, and closed only when the position is flat.
THEOREM SpecExposureIsOwned == Spec => []ExposureIsOwned
<1>1. IInv => ExposureIsOwned
  BY DEF IInv, OwnerInv, ExposureIsOwned
<1> QED
  BY <1>1, SpecIInv, PTL

\* Only placeOrder brings an order to IB.
LEMMA OnlyPlaceOrderPlaces ==
    ASSUME TypeOK, Next, NEW e \in working' \ working
    PROVE  PlaceOrder /\ task.step = "marked" /\ e = task.ev
<1>1. CASE PlaceOrder
  BY <1>1 DEF PlaceOrder
<1>2. ASSUME ~ PlaceOrder PROVE FALSE
  <2>1. CASE Ending
    BY <2>1, EndingLeaves DEF Leaves
  <2>2. CASE Start \/ Hello \/ (\E h \in Heartbeats : Heartbeat(h)) \/ HeartbeatWithoutIB
             \/ ReplayIgnored \/ ReplayConsumed \/ CommitReplayedEntry
             \/ RecoverReplayedExit \/ ConsumeReplayedExit \/ LiveIgnored \/ ConsumeExit
    BY <2>2 DEF Start, Hello, Heartbeat, HeartbeatWithoutIB, ReplayIgnored,
       ReplayConsumed, CommitReplayedEntry, RecoverReplayedExit, ConsumeReplayedExit,
       LiveIgnored, ConsumeExit, broker
  <2>3. CASE ReserveExit \/ SubmitExit \/ PostponeExit \/ MissEntry \/ ConsumeEntry
             \/ CommitEntry \/ ReserveEntry \/ SubmitEntry \/ OrderFilled \/ Settle
             \/ IBDrops \/ Flatten
    BY <2>3 DEF ReserveExit, SubmitExit, PostponeExit, MissEntry, ConsumeEntry,
       CommitEntry, ReserveEntry, SubmitEntry, OrderFilled, Settle, IBDrops, Flatten, broker
  <2>4. CASE \/ \E f \in Event : EaglePublishes(f)
             \/ \E f \in Event, status \in Terminal : BrokerEnds(f, status) \/ Answer(f, status)
    BY <2>4 DEF EaglePublishes, BrokerEnds, Answer, broker
  <2> QED
    BY <1>2, <2>1, <2>2, <2>3, <2>4, NextCases
<1> QED
  BY <1>1, <1>2

\* placeOrder is reached only with the position the order was approved for: no
\* other order, fill or reconnection comes between the check and the call.
THEOREM SpecOrdersMatchPosition == Spec => OrdersMatchPosition
<1>1. ASSUME IInv, Next, NEW e \in working' \ working
      PROVE  IF e.kind = "entry" THEN pos = 0 /\ Opens = {e.sig} ELSE OwnsExactly(e.sig)
  <2>0. TypeOK /\ WindowInv /\ ApprovalInv
    BY <1>1 DEF IInv
  <2>1. task.step = "marked" /\ e = task.ev
    BY <1>1, <2>0, OnlyPlaceOrderPlaces
  <2>2. task.ev.kind \in {"entry", "exit"}
    BY <2>0, <2>1, EventUnderWay DEF WindowInv, LiveStep, OfEvent, Away, Step
  <2> QED
    BY <2>0, <2>1, <2>2 DEF ApprovalInv
<1>2. IInv /\ [Next]_vars =>
        [\A e \in working' \ working :
           IF e.kind = "entry" THEN pos = 0 /\ Opens = {e.sig} ELSE OwnsExactly(e.sig)]_vars
  BY <1>1
<1> QED
  BY <1>2, SpecIInv, PTL DEF Spec, OrdersMatchPosition

\* A trade that was declared missed is never traded: not by the replay of a
\* later session, which does not know it was missed, nor by another process.
THEOREM SpecMissedNeverTraded == Spec => []MissedNeverTraded
<1>1. IInv => MissedNeverTraded
  <2> SUFFICES ASSUME IInv, NEW e \in Event, e.sig \in everMissed
               PROVE  ledger[e] = Unknown /\ e \notin working
    BY DEF MissedNeverTraded
  <2>1. ledger[e] = Unknown
    BY DEF IInv, MissedInv
  <2> QED
    BY <2>1 DEF IInv, BrokerInv, Unknown
<1> QED
  BY <1>1, SpecIInv, PTL

\* A session is authorized only once its replay is drained, and no event is on
\* its way to an order in a session that is not.
AuthorizedInv ==
    /\ session.heartbeat => session.left = 0
    /\ task.step \in LiveStep => session.heartbeat

LEMMA SpecAuthorized == Spec => []AuthorizedInv
<1> USE DEF AuthorizedInv
<1>o. LiveStep = {"consumedExit", "reservedExit", "consumedEntry", "committedEntry",
                  "reservedEntry", "marked", "waiting", "settling"}
  BY DEF LiveStep, OfEvent, Away, Step
<1>l. Listening.step = "listening" /\ Listening.step \notin LiveStep
  BY <1>o DEF Listening, Task
<1>1. Init => AuthorizedInv
  BY <1>o DEF Init, NoSession, Task
<1>2. ASSUME TypeOK, AuthorizedInv, Next PROVE AuthorizedInv'
  <2>t. session \in [sent : 0 .. MaxSeq, left : 0 .. MaxSeq, heartbeat : BOOLEAN,
                     gap : BOOLEAN, again : BOOLEAN, proof : Event \cup {NoEvent}]
    BY <1>2 DEF TypeOK
  <2>1. CASE Ending
    BY <1>2, <1>o, <2>1, EndingLeaves DEF Leaves, NoSession, Task
  <2>2. CASE Start \/ Hello
    BY <1>l, <1>o, <2>2 DEF Start, Hello, NoSession, Task
  <2>3. CASE (\E h \in Heartbeats : Heartbeat(h)) \/ HeartbeatWithoutIB
    BY <1>l, <2>3, <2>t DEF Heartbeat, HeartbeatWithoutIB, ReplayComplete
  <2>4. CASE ReplayIgnored \/ ReplayConsumed \/ RecoverReplayedExit
    <3>1. /\ ReplayFrame /\ session.heartbeat = FALSE
          /\ session' = [session EXCEPT !.sent = @ + 1, !.left = @ - 1]
      BY <1>2, <2>4, <2>t DEF ReplayIgnored, ReplayConsumed, RecoverReplayedExit, ReplayedExit,
         ReplayFrame, CountReplayFrame
    <3>2. task'.step \notin LiveStep
      BY <1>l, <1>o, <2>4, <3>1 DEF ReplayIgnored, ReplayConsumed, RecoverReplayedExit,
         ReplayFrame, Task
    <3> QED
      BY <2>t, <3>1, <3>2
  <2>5. CASE CommitReplayedEntry \/ ConsumeReplayedExit
    BY <1>2, <1>l, <2>5, <2>t DEF CommitReplayedEntry, ConsumeReplayedExit
  <2>6. CASE LiveIgnored \/ MissEntry
    BY <1>2, <1>l, <2>6, <2>t DEF LiveIgnored, MissEntry, LiveEntry, LiveFrame, TakeLiveFrame
  <2>7. CASE ConsumeExit \/ ConsumeEntry
    BY <1>2, <2>7, <2>t DEF ConsumeExit, ConsumeEntry, LiveExit, LiveEntry, Authorized,
       TakeLiveFrame
  <2>8. CASE ReserveExit \/ SubmitExit \/ PostponeExit \/ CommitEntry \/ ReserveEntry
             \/ SubmitEntry \/ PlaceOrder \/ OrderFilled \/ Settle
    <3>1. session' = session /\ (task'.step \in LiveStep => task.step \in LiveStep)
      BY <1>l, <1>o, <2>8 DEF ReserveExit, SubmitExit, PostponeExit, CommitEntry,
         ReserveEntry, SubmitEntry, PlaceOrder, OrderFilled, Settle
    <3> QED
      BY <1>2, <3>1
  <2>9. CASE \/ IBDrops \/ Flatten \/ \E e \in Event : EaglePublishes(e)
             \/ \E e \in Event, status \in Terminal : BrokerEnds(e, status) \/ Answer(e, status)
    BY <1>2, <2>9 DEF IBDrops, Flatten, EaglePublishes, BrokerEnds, Answer
  <2> QED
    BY <1>2, <2>1, <2>2, <2>3, <2>4, <2>5, <2>6, <2>7, <2>8, <2>9, NextCases
<1>3. TypeOK /\ AuthorizedInv /\ [Next]_vars => AuthorizedInv'
  BY <1>2 DEF vars
<1> QED
  BY <1>1, <1>3, SpecTypeOK, PTL DEF Spec

\* The replay comes first: an order reaches IB only in a session whose replay is
\* drained and whose heartbeat after it was seen, and a replayed entry never
\* does, however many sessions and processes come after it.
THEOREM SpecOrdersFollowReplay == Spec => OrdersFollowReplay
<1>1. ASSUME IInv, AuthorizedInv, Next, NEW e \in working' \ working
      PROVE  session.heartbeat /\ session.left = 0 /\ (e \in replayed => e.kind = "exit")
  <2>1. TypeOK /\ StoreInv
    BY <1>1 DEF IInv
  <2>2. task.step = "marked" /\ e = task.ev
    BY <1>1, <2>1, OnlyPlaceOrderPlaces
  <2>3. task.step \in LiveStep
    BY <2>2 DEF LiveStep, OfEvent, Away, Step
  <2> QED
    BY <1>1, <2>1, <2>2, <2>3 DEF AuthorizedInv, StoreInv
<1>2. IInv /\ AuthorizedInv /\ [Next]_vars =>
        [\A e \in working' \ working :
           session.heartbeat /\ session.left = 0 /\ (e \in replayed => e.kind = "exit")]_vars
  BY <1>1
<1> QED
  BY <1>2, SpecIInv, SpecAuthorized, PTL DEF Spec, OrdersFollowReplay

\* A replayed exit whose position IB still holds is in the ledger by the time
\* it is consumed, so that a crash right after does not lose the obligation.
THEOREM SpecReplayedExitIsReserved == Spec => []ReplayedExitIsReserved
<1>1. IInv => ReplayedExitIsReserved
  BY DEF IInv, ExitInv
<1> QED
  BY <1>1, SpecIInv, PTL

\* For a live exit this needs a process that never dies, for it is consumed
\* first and reserved second.
THEOREM SpecConsumedExitIsReserved == Spec => [](crashes = 0 => ConsumedExitIsReserved)
<1>1. IInv => (crashes = 0 => ConsumedExitIsReserved)
  BY DEF IInv, ExitInv
<1> QED
  BY <1>1, SpecIInv, PTL

\* With heartbeats in stream order nothing at or below the durable cursor was
\* left unconsumed, so that resuming after the cursor loses nothing.
THEOREM SpecNothingSkipped == Spec => [](~ GlobalHeartbeats => NothingSkipped)
<1>1. IInv => (~ GlobalHeartbeats => NothingSkipped)
  BY DEF IInv, GapInv, NothingSkipped
<1> QED
  BY <1>1, SpecIInv, PTL

-----------------------------------------------------------------------------
(* The paper trader uses the event store as the store promises.            *)

\* A live or replayed frame is consumed by one call of the store, or by none.
LEMMA ConsumeIsAStoreStep ==
    ASSUME TypeOK, WindowInv, ReplayFrame \/ LiveFrame, Consume
    PROVE  [Store!StoreNext]_store
<1>1. session.sent + 1 \in 0 .. MaxSeq /\ Frame \in Event
  BY TakenFrame, LogType, BoundsAssumption
<1>2. CASE Eligible
  BY <1>1, <1>2 DEF Consume, Store!StoreNext, Store!SeqNo
<1>3. CASE ~ Eligible
  BY <1>3 DEF Consume
<1> QED
  BY <1>2, <1>3

LEMMA StepStore == TypeOK /\ WindowInv /\ [Next]_vars => [Store!StoreNext]_store
<1> SUFFICES ASSUME TypeOK, WindowInv, [Next]_vars PROVE [Store!StoreNext]_store
  OBVIOUS
<1>0. session.sent \in 0 .. MaxSeq /\ Len(log) \in 0 .. MaxSeq
  BY LogType, BoundsAssumption DEF TypeOK
<1>1. CASE UNCHANGED vars
  BY <1>1 DEF vars
<1>2. CASE Ending
  BY <1>2, EndingLeaves DEF Leaves
<1>3. CASE Start \/ Hello \/ HeartbeatWithoutIB \/ ReplayIgnored \/ CommitReplayedEntry
           \/ RecoverReplayedExit \/ ReserveExit \/ SubmitExit \/ PostponeExit
  BY <1>3 DEF Start, Hello, HeartbeatWithoutIB, ReplayIgnored, CommitReplayedEntry,
     RecoverReplayedExit, ReserveExit, SubmitExit, PostponeExit
<1>4. CASE CommitEntry \/ ReserveEntry \/ SubmitEntry \/ PlaceOrder \/ OrderFilled \/ Settle
           \/ IBDrops \/ Flatten
  BY <1>4 DEF CommitEntry, ReserveEntry, SubmitEntry, PlaceOrder, OrderFilled, Settle,
     IBDrops, Flatten
<1>5. CASE \/ \E e \in Event : EaglePublishes(e)
           \/ \E e \in Event, status \in Terminal : BrokerEnds(e, status) \/ Answer(e, status)
  BY <1>5 DEF EaglePublishes, BrokerEnds, Answer
<1>6. ASSUME NEW h \in Heartbeats, Heartbeat(h) PROVE [Store!StoreNext]_store
  <2>1. h \in 0 .. MaxSeq
    BY <1>0, <1>6 DEF Heartbeats
  <2> QED
    BY <1>6, <2>1 DEF Heartbeat, Store!StoreNext, Store!SeqNo
<1>7. CASE ReplayConsumed \/ LiveIgnored \/ ConsumeExit \/ MissEntry \/ ConsumeEntry
  <2>1. (ReplayFrame \/ LiveFrame) /\ Consume
    BY <1>7 DEF ReplayConsumed, LiveIgnored, ConsumeExit, LiveExit, MissEntry, ConsumeEntry,
       LiveEntry
  <2> QED
    BY <2>1, ConsumeIsAStoreStep
<1>8. CASE ConsumeReplayedExit
  <2>1. task.ev \in Event
    BY <1>8, EventUnderWay DEF ConsumeReplayedExit, OfEvent, Away, Step
  <2> QED
    BY <1>0, <1>8, <2>1 DEF ConsumeReplayedExit, Store!StoreNext, Store!SeqNo
<1> QED
  BY <1>1, <1>2, <1>3, <1>4, <1>5, <1>6, <1>7, <1>8, NextCases

\* Every behaviour of the paper trader is, on its three variables, one of the
\* event store: the trader never marks an id or moves the cursor but by the
\* store's own transactions and on their conditions.
THEOREM SpecImplementsStore == Spec => Store!StoreSpec
<1>1. Init => Store!StoreInit
  BY DEF Init
<1>2. IInv /\ [Next]_vars => [Store!StoreNext]_(Store!storeVars)
  BY StepStore DEF IInv, store, Store!storeVars
<1> QED
  BY <1>1, <1>2, SpecIInv, PTL DEF Spec, Store!StoreSpec

StoreProofs == INSTANCE EventStoreProofs

LEMMA SpecStoreProofs == Spec => StoreProofs!StoreSpec
<1>1. Store!StoreInit => StoreProofs!StoreInit
  BY DEF Store!StoreInit, StoreProofs!StoreInit, Store!NoSeq, StoreProofs!NoSeq
<1>2. [Store!StoreNext]_(Store!storeVars) => [StoreProofs!StoreNext]_(StoreProofs!storeVars)
  BY DEF Store!StoreNext, StoreProofs!StoreNext, Store!SeqNo, StoreProofs!SeqNo,
     Store!NoSeq, StoreProofs!NoSeq, Store!storeVars, StoreProofs!storeVars,
     Store!CheckAndMarkEventWithSeq, StoreProofs!CheckAndMarkEventWithSeq,
     Store!Eligibility, StoreProofs!Eligibility,
     Store!MarkSeqProcessed, StoreProofs!MarkSeqProcessed,
     Store!MarkEventProcessed, StoreProofs!MarkEventProcessed,
     Store!CheckAndMarkSeq, StoreProofs!CheckAndMarkSeq
<1> QED
  BY <1>1, <1>2, SpecImplementsStore, PTL DEF Store!StoreSpec, StoreProofs!StoreSpec

\* So what is proved of the store holds in the trader: whatever mix of replays,
\* live frames, heartbeats and restarts, an event is accepted at most once.
THEOREM SpecAcceptedOnce == Spec => []Store!AcceptedOnce
<1>1. StoreProofs!StoreSpec => []StoreProofs!AcceptedOnce
  BY StoreProofs!SpecAcceptedOnce, BoundsAssumption
<1>2. StoreProofs!AcceptedOnce => Store!AcceptedOnce
  BY DEF Store!AcceptedOnce, StoreProofs!AcceptedOnce
<1> QED
  BY <1>1, <1>2, SpecStoreProofs, PTL

\* And in the order of Eagle's stream, across sessions and processes.
THEOREM SpecAcceptedInOrder == Spec => Store!AcceptedInOrder
<1>1. StoreProofs!StoreSpec => StoreProofs!AcceptedInOrder
  BY StoreProofs!SpecAcceptedInOrder, BoundsAssumption
<1>2. [\A p \in accepted' \ accepted, q \in accepted : q[2] < p[2]]_(StoreProofs!storeVars)
        => [\A p \in accepted' \ accepted, q \in accepted : q[2] < p[2]]_(Store!storeVars)
  BY DEF Store!storeVars, StoreProofs!storeVars
<1> QED
  BY <1>1, <1>2, SpecStoreProofs, PTL DEF Store!AcceptedInOrder, StoreProofs!AcceptedInOrder

-----------------------------------------------------------------------------
(* The paper trader uses the execution ledger as the ledger promises.      *)

\* The event that is about to be reserved has no record yet.
UnreservedInv ==
    task.step \in {"consumedExit", "consumedEntry", "committedEntry"}
        => ledger[task.ev] = Unknown

\* One status changes, along the path from a reservation to its end.
Moves(e) ==
    \/ /\ ledger[e] = Unknown /\ e.kind # "update"
       /\ ledger' = [ledger EXCEPT ![e] = "Reserved"]
    \/ ledger[e] = "Reserved" /\ ledger' = [ledger EXCEPT ![e] = "Submitted"]
    \/ \E status \in Terminal :
          ledger[e] = "Submitted" /\ ledger' = [ledger EXCEPT ![e] = status]

LEMMA LedgerMoves ==
    ASSUME TypeOK, WindowInv, BooksInv, UnreservedInv, Next
    PROVE  UNCHANGED ledger \/ \E e \in Event : Moves(e)
<1>e. task.step \in OfEvent => task.ev \in Event
  BY EventUnderWay
<1>1. CASE Ending
  BY <1>1, EndingLeaves DEF Leaves
<1>2. CASE Start \/ Hello \/ (\E h \in Heartbeats : Heartbeat(h)) \/ HeartbeatWithoutIB
           \/ ReplayIgnored \/ ReplayConsumed \/ CommitReplayedEntry \/ ConsumeReplayedExit
           \/ LiveIgnored \/ ConsumeExit \/ PostponeExit \/ MissEntry \/ ConsumeEntry
  BY <1>2 DEF Start, Hello, Heartbeat, HeartbeatWithoutIB, ReplayIgnored, ReplayConsumed,
     CommitReplayedEntry, ConsumeReplayedExit, LiveIgnored, ConsumeExit, PostponeExit,
     MissEntry, ConsumeEntry
<1>3. CASE CommitEntry \/ PlaceOrder \/ OrderFilled \/ Settle \/ IBDrops \/ Flatten
           \/ (\E f \in Event : EaglePublishes(f))
           \/ (\E f \in Event, status \in Terminal : BrokerEnds(f, status))
  BY <1>3 DEF CommitEntry, PlaceOrder, OrderFilled, Settle, IBDrops, Flatten, EaglePublishes,
     BrokerEnds
<1>4. CASE RecoverReplayedExit
  <2>1. Frame \in Event
    BY <1>4, TakenFrame DEF RecoverReplayedExit, ReplayedExit
  <2>2. CASE UNCHANGED ledger
    BY <2>2
  <2>3. CASE StillExposed(Frame) /\ ledger' = [ledger EXCEPT ![Frame] = "Reserved"]
    BY <1>4, <2>1, <2>3 DEF StillExposed, Moves, RecoverReplayedExit, ReplayedExit
  <2> QED
    BY <1>4, <2>2, <2>3 DEF RecoverReplayedExit
<1>5. CASE ReserveExit \/ ReserveEntry
  <2>1. /\ ledger' = [ledger EXCEPT ![task.ev] = "Reserved"]
        /\ task.step \in {"consumedExit", "committedEntry"}
    BY <1>5 DEF ReserveExit, ReserveEntry
  <2>2. ledger[task.ev] = Unknown /\ task.ev \in Event
    BY <1>e, <2>1 DEF UnreservedInv, OfEvent, Away, Step
  <2>3. task.ev.kind # "update"
    BY <2>1 DEF WindowInv, EntryStep, ExitStep
  <2> QED
    BY <2>1, <2>2, <2>3 DEF Moves
<1>6. CASE SubmitExit \/ SubmitEntry
  <2>1. /\ ledger' = [ledger EXCEPT ![task.ev] = "Submitted"]
        /\ task.step \in {"reservedExit", "reservedEntry"}
    BY <1>6 DEF SubmitExit, SubmitEntry
  <2>2. ledger[task.ev] = "Reserved" /\ task.ev \in Event
    BY <1>e, <2>1 DEF BooksInv, OfEvent, Away, Step
  <2> QED
    BY <2>1, <2>2 DEF Moves
<1>7. ASSUME NEW f \in Event, NEW status \in Terminal, Answer(f, status)
      PROVE  UNCHANGED ledger \/ Moves(f)
  <2>1. ledger' = [ledger EXCEPT ![f] = IF ledger[f] = "Submitted" THEN status ELSE ledger[f]]
    BY <1>7 DEF Answer
  <2>2. CASE ledger[f] = "Submitted"
    BY <2>1, <2>2 DEF Moves
  <2>3. CASE ledger[f] # "Submitted"
    BY <2>1, <2>3 DEF TypeOK
  <2> QED
    BY <2>2, <2>3
<1> QED
  BY <1>1, <1>2, <1>3, <1>4, <1>5, <1>6, <1>7, NextCases

\* An event is consumed for an order only while no execution is unresolved,
\* and one that was not consumed before is at most reserved.
LEMMA UnreservedInvStep ==
    ASSUME TypeOK, WindowInv, BooksInv, UnreservedInv, Next
    PROVE  UnreservedInv'
<1> USE DEF UnreservedInv
<1>s. Listening.step = "listening"
  BY DEF Listening, Task
<1>e. task.step \in OfEvent => task.ev \in Event
  BY EventUnderWay
\* A frame that is consumed has no record.
<1>f. ASSUME ReplayFrame \/ LiveFrame, Eligible, ExecutionClear
      PROVE  ledger[Frame] = Unknown
  <2>1. Frame \in Event /\ session.sent + 1 \in Nat
    BY <1>f, TakenFrame
  <2>2. Frame \notin processed
    BY <1>f, <2>1, EligibleFacts
  <2> QED
    BY <1>f, <2>1, <2>2 DEF BooksInv, ExecutionClear, Terminal, Unsent, Unknown
<1>1. ASSUME task'.step \notin {"consumedExit", "consumedEntry", "committedEntry"}
      PROVE  UnreservedInv'
  BY <1>1
<1>2. CASE Ending
  <2>1. task'.step \in {"down", "connecting"}
    BY <1>2, EndingLeaves DEF Leaves, Task
  <2> QED
    BY <1>1, <2>1
<1>3. CASE Start \/ Hello \/ (\E h \in Heartbeats : Heartbeat(h)) \/ HeartbeatWithoutIB
           \/ ReplayIgnored \/ LiveIgnored \/ MissEntry
  <2>1. /\ ledger' = ledger
        /\ task' = task \/ task'.step \in {"connecting", "listening"}
    BY <1>s, <1>3 DEF Start, Hello, Heartbeat, HeartbeatWithoutIB, ReplayIgnored, LiveIgnored,
       MissEntry, Task
  <2> QED
    BY <2>1
<1>4. CASE ReplayConsumed \/ CommitReplayedEntry \/ RecoverReplayedExit
           \/ ConsumeReplayedExit \/ PostponeExit \/ Settle
  <2>1. task'.step \in {"listening", "replayEntry", "replayExit"}
    BY <1>s, <1>4 DEF ReplayConsumed, CommitReplayedEntry, RecoverReplayedExit,
       ConsumeReplayedExit, PostponeExit, Settle, Task
  <2> QED
    BY <1>1, <2>1
<1>5. CASE ReserveExit \/ SubmitExit \/ ReserveEntry \/ SubmitEntry \/ PlaceOrder \/ OrderFilled
  <2>1. task'.step \in {"reservedExit", "reservedEntry", "marked", "waiting", "settling"}
    BY <1>5 DEF ReserveExit, SubmitExit, ReserveEntry, SubmitEntry, PlaceOrder, OrderFilled,
       TypeOK
  <2> QED
    BY <1>1, <2>1
<1>6. CASE ConsumeExit
  <2>1. LiveFrame /\ ExecutionClear /\ ledger' = ledger
    BY <1>6 DEF ConsumeExit, LiveExit
  <2>2. task' = IF Eligible THEN Task("consumedExit", Frame) ELSE Listening
    BY <1>6 DEF ConsumeExit
  <2> QED
    BY <1>f, <1>s, <2>1, <2>2 DEF Task
<1>7. CASE ConsumeEntry
  <2>1. LiveFrame /\ ExecutionClear /\ ledger' = ledger
    BY <1>7 DEF ConsumeEntry, LiveEntry, EntryAccepted
  <2>2. task' = IF Eligible /\ pos = 0 /\ Opens = {} THEN Task("consumedEntry", Frame)
                ELSE Listening
    BY <1>7 DEF ConsumeEntry
  <2> QED
    BY <1>f, <1>s, <2>1, <2>2 DEF Task
<1>8. CASE CommitEntry
  <2>1. /\ task.step = "consumedEntry" /\ ledger' = ledger
        /\ task' = Listening \/ (task'.step = "committedEntry" /\ task'.ev = task.ev)
    BY <1>8 DEF CommitEntry, TypeOK
  <2> QED
    BY <1>s, <2>1
<1>9. CASE IBDrops \/ Flatten \/ (\E f \in Event : EaglePublishes(f))
           \/ (\E f \in Event, status \in Terminal : BrokerEnds(f, status))
  BY <1>9 DEF IBDrops, Flatten, EaglePublishes, BrokerEnds
<1>10. ASSUME NEW f \in Event, NEW status \in Terminal, Answer(f, status)
       PROVE  UnreservedInv'
  <2>1. /\ ledger' = [ledger EXCEPT ![f] = IF ledger[f] = "Submitted" THEN status ELSE ledger[f]]
        /\ task' = task
    BY <1>10 DEF Answer
  <2>2. \A g \in Event : ledger[g] = Unknown => ledger'[g] = Unknown
    BY <2>1 DEF TypeOK, Unknown
  <2> QED
    BY <1>e, <2>1, <2>2 DEF OfEvent, Away, Step
<1> QED
  BY <1>2, <1>3, <1>4, <1>5, <1>6, <1>7, <1>8, <1>9, <1>10, NextCases

LEMMA SpecUnreserved == Spec => []UnreservedInv
<1>1. Init => UnreservedInv
  BY DEF Init, UnreservedInv, Task
<1>2. IInv /\ UnreservedInv /\ [Next]_vars => UnreservedInv'
  <2>1. ASSUME UnreservedInv, UNCHANGED vars PROVE UnreservedInv'
    BY <2>1 DEF UnreservedInv, vars
  <2> QED
    BY <2>1, UnreservedInvStep DEF IInv
<1> QED
  BY <1>1, <1>2, SpecIInv, PTL DEF Spec

\* The audit history behind a status.
Path(s) ==
    CASE s = Unknown     -> <<>>
      [] s = "Reserved"  -> <<"Reserved">>
      [] s = "Submitted" -> <<"Reserved", "Submitted">>
      [] OTHER           -> <<"Reserved", "Submitted", s>>

\* The ledger's record of an event if id says under which order id it was, or
\* would be, submitted.
RecordOf(id, e) ==
    [status |-> ledger[e], oid |-> IF ledger[e] \in Unsent THEN -1 ELSE id[e]]

Ledger(id) == INSTANCE ExecutionLedger
    WITH EventId <- Event, OrderId <- Nat, MaxHistory <- 3,
         records <- [e \in Event |-> RecordOf(id, e)],
         history <- [e \in Event |-> Path(ledger[e])]

LEMMA PathFacts ==
    /\ Path(Unknown) = <<>>
    /\ Path("Reserved") = Append(Path(Unknown), "Reserved")
    /\ Path("Submitted") = Append(Path("Reserved"), "Submitted")
    /\ \A s \in Terminal : Path(s) = Append(Path("Submitted"), s)
    /\ Len(Path("Reserved")) = 1 /\ Len(Path("Submitted")) = 2
<1>1. Path(Unknown) = <<>> /\ Path("Reserved") = <<"Reserved">>
  BY DEF Path, Unknown
<1>2. Path("Submitted") = <<"Reserved", "Submitted">>
  BY DEF Path, Unknown
<1>3. \A s \in Terminal : Path(s) = <<"Reserved", "Submitted", s>>
  BY DEF Path, Unknown, Terminal
<1>4. \A s \in Terminal : <<"Reserved", "Submitted", s>> = Append(<<"Reserved", "Submitted">>, s)
  OBVIOUS
<1>5. Path("Reserved") = Append(Path(Unknown), "Reserved") /\ Len(Path("Reserved")) = 1
  BY <1>1
<1>6. Path("Submitted") = Append(Path("Reserved"), "Submitted") /\ Len(Path("Submitted")) = 2
  <2>1. \A s \in {"Submitted"} : <<"Reserved", s>> = Append(<<"Reserved">>, s)
    OBVIOUS
  <2> QED
    BY <1>1, <1>2, <2>1
<1> QED
  BY <1>1, <1>2, <1>3, <1>4, <1>5, <1>6

\* A move is one operation of the ledger.
LEMMA MoveIsALedgerStep ==
    ASSUME TypeOK, NEW id \in [Event -> Nat], NEW e \in Event, Moves(e)
    PROVE  Ledger(id)!Next
<1> DEFINE rec == [f \in Event |-> RecordOf(id, f)]
           his == [f \in Event |-> Path(ledger[f])]
<1>t. ledger \in [Event -> Status]
  BY DEF TypeOK
<1>w. ASSUME NEW s \in Status, NEW o \in Nat \cup {-1}, ledger' = [ledger EXCEPT ![e] = s],
             [status |-> s, oid |-> IF s \in Unsent THEN -1 ELSE id[e]]
               = [status |-> s, oid |-> IF o = -1 THEN rec[e].oid ELSE o],
             Path(s) = Append(Path(ledger[e]), s)
      PROVE  Ledger(id)!Write(e, s, o)
  <2>1. \A f \in Event : ledger'[f] = IF f = e THEN s ELSE ledger[f]
    BY <1>t, <1>w
  <2>2. rec' = [rec EXCEPT ![e] = [status |-> s, oid |-> IF o = -1 THEN @.oid ELSE o]]
    BY <1>w, <2>1 DEF RecordOf
  <2>3. his' = [his EXCEPT ![e] = Append(@, s)]
    <3>1. \A f \in Event : Path(ledger[f])' = Path(ledger'[f])
      BY DEF Path
    <3>2. \A f \in Event :
             Path(ledger[f])' = IF f = e THEN Append(Path(ledger[e]), s) ELSE Path(ledger[f])
      <4>1. ASSUME NEW f \in Event, f = e
            PROVE  Path(ledger'[f]) = Append(Path(ledger[e]), s)
        <5>1. ledger'[f] = s
          BY <2>1, <4>1
        <5> QED
          BY <1>w, <5>1
      <4>2. ASSUME NEW f \in Event, f # e
            PROVE  Path(ledger'[f]) = Path(ledger[f])
        BY <2>1, <4>2
      <4> QED
        BY <3>1, <4>1, <4>2
    <3> QED
      BY <3>2
  <2> QED
    BY <2>2, <2>3 DEF Ledger!Write, Ledger!NoOrder
<1>1. CASE ledger[e] = Unknown /\ ledger' = [ledger EXCEPT ![e] = "Reserved"]
  <2>1. Ledger(id)!Write(e, "Reserved", -1)
    BY <1>w, <1>1, PathFacts DEF RecordOf, Unsent, Unknown, Status
  <2>2. Ledger(id)!Reserve(e)
    BY <1>1, <2>1 DEF Ledger!Reserve, RecordOf, Ledger!Unknown, Unknown, Ledger!NoOrder
  <2> QED
    BY <2>2 DEF Ledger!Next
<1>2. CASE ledger[e] = "Reserved" /\ ledger' = [ledger EXCEPT ![e] = "Submitted"]
  <2>1. Ledger(id)!Write(e, "Submitted", id[e])
    BY <1>w, <1>2, PathFacts DEF RecordOf, Unsent, Unknown, Status
  <2>2. Ledger(id)!MarkSubmitted(e, id[e])
    BY <1>2, <2>1, PathFacts DEF Ledger!MarkSubmitted, Ledger!Transition, RecordOf,
       Ledger!Allowed
  <2> QED
    BY <2>2 DEF Ledger!Next
<1>3. ASSUME NEW s \in Terminal, ledger[e] = "Submitted", ledger' = [ledger EXCEPT ![e] = s]
      PROVE  Ledger(id)!Next
  <2>1. Ledger(id)!Write(e, s, -1)
    BY <1>w, <1>3, PathFacts DEF RecordOf, Unsent, Unknown, Status, Terminal
  <2>2. Ledger(id)!Mark(e, s)
    BY <1>3, <2>1, PathFacts DEF Ledger!Mark, Ledger!Transition, RecordOf,
       Ledger!Allowed, Ledger!NoOrder, Terminal, Ledger!Terminal
  <2>3. s \in Ledger(id)!Status
    BY DEF Terminal, Ledger!Status
  <2> QED
    BY <2>2, <2>3 DEF Ledger!Next
<1> QED
  BY <1>1, <1>2, <1>3 DEF Moves

\* The trader uses the execution ledger (reserve_execution, mark_submitted,
\* mark_execution) only as the ledger promises: whatever order ids its orders
\* get, its ledger with the audit history a status stands for is the ledger of
\* module ExecutionLedger, which checks that promise on its own.
THEOREM SpecImplementsLedger ==
    ASSUME NEW id \in [Event -> Nat]
    PROVE  Spec => Ledger(id)!Spec
<1>1. Init => Ledger(id)!Init
  BY PathFacts DEF Init, Ledger!Init, RecordOf, Ledger!Unknown, Unknown, Ledger!NoOrder, Unsent
<1>2. IInv /\ UnreservedInv /\ [Next]_vars => [Ledger(id)!Next]_(Ledger(id)!vars)
  <2>1. ASSUME UNCHANGED ledger PROVE UNCHANGED Ledger(id)!vars
    BY <2>1 DEF Ledger!vars, RecordOf
  <2>2. ASSUME IInv, UnreservedInv, Next PROVE UNCHANGED ledger \/ Ledger(id)!Next
    BY <2>2, LedgerMoves, MoveIsALedgerStep DEF IInv
  <2> QED
    BY <2>1, <2>2 DEF vars
<1> QED
  BY <1>1, <1>2, SpecIInv, SpecUnreserved, PTL DEF Spec, Ledger!Spec

-----------------------------------------------------------------------------
(* What the ledger is for: no order is sent twice.                         *)

\* The order of an event has been placed, or its process died in the attempt.
Gone(e) == ledger[e] \notin Unsent /\ task # Task("marked", e)

\* An order is placed for an event that is not gone, which then is for good.
PlacedOnce ==
    [][\A e \in Event :
          /\ e \in working' \ working => ~ Gone(e) /\ Gone(e)'
          /\ Gone(e) => Gone(e)']_vars

\* Only an event that is reserved is marked.
LEMMA OnlyReservedMarked ==
    ASSUME TypeOK, WindowInv, BooksInv, Next, NEW e \in Event, task' = Task("marked", e)
    PROVE  task = task' \/ ledger[e] = "Reserved"
<1>s. task'.step = "marked" /\ task'.ev = e /\ Listening.step = "listening"
  BY DEF Task, Listening
<1>1. CASE Ending
  BY <1>1, <1>s, EndingLeaves DEF Leaves, Task
<1>2. CASE Start \/ Hello \/ (\E h \in Heartbeats : Heartbeat(h)) \/ HeartbeatWithoutIB
           \/ ReplayIgnored \/ ReplayConsumed \/ CommitReplayedEntry
           \/ RecoverReplayedExit \/ ConsumeReplayedExit \/ LiveIgnored \/ ConsumeExit
  BY <1>2, <1>s DEF Start, Hello, Heartbeat, HeartbeatWithoutIB, ReplayIgnored,
     ReplayConsumed, CommitReplayedEntry, RecoverReplayedExit, ConsumeReplayedExit,
     LiveIgnored, ConsumeExit, Task
<1>3. CASE ReserveExit \/ PostponeExit \/ MissEntry \/ ConsumeEntry \/ CommitEntry
           \/ ReserveEntry \/ PlaceOrder \/ OrderFilled \/ Settle \/ IBDrops \/ Flatten
  BY <1>3, <1>s DEF ReserveExit, PostponeExit, MissEntry, ConsumeEntry, CommitEntry,
     ReserveEntry, PlaceOrder, OrderFilled, Settle, IBDrops, Flatten, Task, TypeOK
<1>4. CASE \/ \E f \in Event : EaglePublishes(f)
           \/ \E f \in Event, status \in Terminal : BrokerEnds(f, status) \/ Answer(f, status)
  BY <1>4 DEF EaglePublishes, BrokerEnds, Answer
<1>5. CASE SubmitExit \/ SubmitEntry
  <2>1. task.step \in {"reservedExit", "reservedEntry"} /\ task'.ev = task.ev
    BY <1>5 DEF SubmitExit, SubmitEntry, TypeOK
  <2> QED
    BY <1>s, <2>1 DEF BooksInv
<1> QED
  BY <1>1, <1>2, <1>3, <1>4, <1>5, NextCases

\* No order is placed twice for one event, however many sessions, replays,
\* crashes and processes come between: before an order is placed its event is
\* marked submitted for the first time, afterwards it never is again.
THEOREM SpecPlacedOnce == Spec => PlacedOnce
<1>1. ASSUME IInv, UnreservedInv, Next, NEW e \in Event
      PROVE  /\ e \in working' \ working => ~ Gone(e) /\ Gone(e)'
             /\ Gone(e) => Gone(e)'
  <2>0. /\ TypeOK /\ WindowInv /\ BooksInv /\ ApprovalInv
        /\ ledger \in [Event -> Status]
    BY <1>1 DEF IInv, TypeOK
  <2>1. ASSUME e \in working' \ working PROVE ~ Gone(e) /\ Gone(e)'
    <3>1. PlaceOrder /\ task.step = "marked" /\ e = task.ev
      BY <1>1, <2>0, <2>1, OnlyPlaceOrderPlaces
    <3>2. task = Task("marked", e) /\ ledger[e] = "Submitted"
      BY <2>0, <3>1, TaskType DEF ApprovalInv
    <3>3. ledger' = ledger /\ task'.step = "waiting"
      BY <2>0, <3>1 DEF PlaceOrder, TypeOK
    <3> QED
      BY <3>2, <3>3 DEF Gone, Unsent, Task
  <2>2. ASSUME Gone(e) PROVE Gone(e)'
    <3>1. ledger'[e] \notin Unsent
      <4>1. ASSUME NEW f \in Event, Moves(f) PROVE ledger'[e] \notin Unsent
        BY <2>0, <2>2, <4>1 DEF Gone, Moves, Unsent, Terminal, Unknown
      <4>2. ASSUME ledger' = ledger PROVE ledger'[e] \notin Unsent
        BY <2>2, <4>2 DEF Gone
      <4> QED
        BY <1>1, <2>0, <4>1, <4>2, LedgerMoves
    <3>2. task' # Task("marked", e)
      BY <1>1, <2>0, <2>2, OnlyReservedMarked DEF Gone, Unsent
    <3> QED
      BY <3>1, <3>2 DEF Gone
  <2> QED
    BY <2>1, <2>2
<1>2. IInv /\ UnreservedInv /\ [Next]_vars =>
        [\A e \in Event : /\ e \in working' \ working => ~ Gone(e) /\ Gone(e)'
                          /\ Gone(e) => Gone(e)']_vars
  BY <1>1
<1> QED
  BY <1>2, SpecIInv, SpecUnreserved, PTL DEF Spec, PlacedOnce

\* What the ledger says of an event is never taken back.
RecordsAreFinal ==
    [][\A e \in Event :
          /\ ledger[e] \in Terminal => ledger'[e] = ledger[e]
          /\ ledger[e] # Unknown => ledger'[e] # Unknown]_vars

\* The network thread writes an answer into the ledger whatever the main thread
\* does meanwhile, yet a final status is never overwritten and a reservation
\* never forgotten, by a late answer, a replay or another process.
THEOREM SpecRecordsAreFinal == Spec => RecordsAreFinal
<1>1. ASSUME IInv, UnreservedInv, Next, NEW e \in Event
      PROVE  /\ ledger[e] \in Terminal => ledger'[e] = ledger[e]
             /\ ledger[e] # Unknown => ledger'[e] # Unknown
  <2>0. TypeOK /\ WindowInv /\ BooksInv /\ ledger \in [Event -> Status]
    BY <1>1 DEF IInv, TypeOK
  <2>1. ASSUME NEW f \in Event, Moves(f)
        PROVE  /\ ledger[e] \in Terminal => ledger'[e] = ledger[e]
               /\ ledger[e] # Unknown => ledger'[e] # Unknown
    BY <2>0, <2>1 DEF Moves, Terminal, Unknown
  <2> QED
    BY <1>1, <2>0, <2>1, LedgerMoves
<1>2. IInv /\ UnreservedInv /\ [Next]_vars =>
        [\A e \in Event : /\ ledger[e] \in Terminal => ledger'[e] = ledger[e]
                          /\ ledger[e] # Unknown => ledger'[e] # Unknown]_vars
  BY <1>1
<1> QED
  BY <1>2, SpecIInv, SpecUnreserved, PTL DEF Spec, RecordsAreFinal

-----------------------------------------------------------------------------
(* The lifecycle of a signal follows the position.                         *)

\* A signal leaves the open ones only by its close, from flat, and for good.
LifecycleFollows ==
    [][\A s \in Signal :
          /\ s \in Opens /\ s \notin Opens' => pos = 0 /\ life'[s] = "Closed"
          /\ life[s] # "New" => life'[s] # "New"
          /\ life[s] = "Closed" => life'[s] = "Closed"]_vars

\* How the lifecycle of a signal can change in a step.
LEMMA LifecycleStep ==
    ASSUME IInv, Next, NEW s \in Signal
    PROVE  \/ life'[s] = life[s]
           \/ /\ life[s] = "New" /\ task.ev.sig = s
              /\ task.step \in {"replayEntry", "consumedEntry"}
           \/ s \in Opens /\ pos = 0 /\ life'[s] = "Closed"
<1>0. /\ TypeOK /\ WindowInv /\ BooksInv /\ ApprovalInv
      /\ life \in [Signal -> {"New", "LongOpen", "ShortOpen", "Closed"}]
  BY DEF IInv, TypeOK
<1>1. CASE life' = life
  BY <1>1
<1>2. CASE CommitReplayedEntry \/ CommitEntry
  <2>1. task.ev \in Event /\ task.ev.kind = "entry" /\ Commit(task.ev)
    BY <1>0, <1>2, EventUnderWay DEF CommitReplayedEntry, CommitEntry, WindowInv, EntryStep,
       OfEvent, Step, Away
  <2>2. \/ life' = life
        \/ /\ life[task.ev.sig] = "New" /\ task.ev.sig \in Signal
           /\ \E st \in {"LongOpen", "ShortOpen"} : life' = [life EXCEPT ![task.ev.sig] = st]
    BY <1>0, <2>1, CommitFacts, EventFacts
  <2>3. task.step \in {"replayEntry", "consumedEntry"}
    BY <1>2 DEF CommitReplayedEntry, CommitEntry
  <2> QED
    BY <1>0, <2>2, <2>3
<1>3. ASSUME NEW e \in Event, e.kind = "exit", Commit(e), pos = 0
      PROVE  life'[s] = life[s] \/ (s \in Opens /\ life'[s] = "Closed")
  <2>1. \/ life' = life
        \/ e.sig \in Opens /\ e.sig \in Signal /\ life' = [life EXCEPT ![e.sig] = "Closed"]
    BY <1>0, <1>3, CommitFacts, EventFacts
  <2> QED
    BY <1>0, <2>1
<1>4. CASE RecoverReplayedExit
  <2>1. Frame \in Event /\ Frame.kind = "exit"
    BY <1>0, <1>4, TakenFrame DEF RecoverReplayedExit, ReplayedExit
  <2>2. life' = life \/ (pos = 0 /\ Commit(Frame))
    BY <1>4 DEF RecoverReplayedExit, FlatAtBroker
  <2> QED
    BY <1>3, <2>1, <2>2
<1>5. CASE OrderFilled
  <2>1. task.ev \in Event /\ task.step = "waiting" /\ ledger[task.ev] = "Filled"
    BY <1>0, <1>5, EventUnderWay DEF OrderFilled, OfEvent, Step, Away
  <2>2. life' = life \/ (task.ev.kind = "exit" /\ Commit(task.ev))
    BY <1>5 DEF OrderFilled
  <2>3. task.ev.kind = "exit" => pos = 0
    BY <1>0, <2>1 DEF ApprovalInv
  <2> QED
    BY <1>3, <2>1, <2>2, <2>3
<1>6. CASE Ending
  BY <1>0, <1>1, <1>6, EndingLeaves DEF Leaves
<1>7. CASE Start \/ Hello \/ (\E h \in Heartbeats : Heartbeat(h)) \/ HeartbeatWithoutIB
           \/ ReplayIgnored \/ ReplayConsumed \/ ConsumeReplayedExit \/ LiveIgnored
           \/ ConsumeExit \/ ReserveExit \/ SubmitExit \/ PostponeExit
  BY <1>1, <1>7 DEF Start, Hello, Heartbeat, HeartbeatWithoutIB, ReplayIgnored, ReplayConsumed,
     ConsumeReplayedExit, LiveIgnored, ConsumeExit, ReserveExit, SubmitExit, PostponeExit
<1>8. CASE MissEntry \/ ConsumeEntry \/ ReserveEntry \/ SubmitEntry \/ PlaceOrder \/ Settle
           \/ IBDrops \/ Flatten \/ (\E e \in Event : EaglePublishes(e))
           \/ (\E e \in Event, status \in Terminal : BrokerEnds(e, status) \/ Answer(e, status))
  BY <1>1, <1>8 DEF MissEntry, ConsumeEntry, ReserveEntry, SubmitEntry, PlaceOrder, Settle,
     IBDrops, Flatten, EaglePublishes, BrokerEnds, Answer
<1> QED
  BY <1>2, <1>4, <1>5, <1>6, <1>7, <1>8, NextCases

\* A signal is given up only with a flat position, it is then closed, and a
\* closed one is never opened again: a replay, a late fill or another process
\* never drops the owner of an exposure from the durable lifecycle.
THEOREM SpecLifecycleFollows == Spec => LifecycleFollows
<1>1. ASSUME IInv, Next, NEW s \in Signal
      PROVE  /\ s \in Opens /\ s \notin Opens' => pos = 0 /\ life'[s] = "Closed"
             /\ life[s] # "New" => life'[s] # "New"
             /\ life[s] = "Closed" => life'[s] = "Closed"
  BY <1>1, LifecycleStep DEF Opens
<1>2. IInv /\ [Next]_vars =>
        [\A s \in Signal :
            /\ s \in Opens /\ s \notin Opens' => pos = 0 /\ life'[s] = "Closed"
            /\ life[s] # "New" => life'[s] # "New"
            /\ life[s] = "Closed" => life'[s] = "Closed"]_vars
  BY <1>1
<1> QED
  BY <1>2, SpecIInv, PTL DEF Spec, LifecycleFollows

-----------------------------------------------------------------------------
(* What a process finds when it starts.                                    *)

\* A process that is down hears nothing of IB.
DownInv == task.step = "down" => answers = {} /\ ib = FALSE

LEMMA SpecDown == Spec => []DownInv
<1>1. Init => DownInv
  BY DEF Init, DownInv
<1>2. IInv /\ DownInv /\ [Next]_vars => DownInv'
  <2> SUFFICES ASSUME IInv, DownInv, [Next]_vars, task'.step = "down"
               PROVE  answers' = {} /\ ib' = FALSE
    BY DEF DownInv
  <2>0. TypeOK /\ WindowInv
    BY DEF IInv
  <2>1. CASE UNCHANGED vars
    BY <2>1 DEF vars, broker, DownInv
  <2>2. CASE \/ \E e \in Event : EaglePublishes(e)
             \/ \E e \in Event, status \in Terminal : BrokerEnds(e, status) \/ Answer(e, status)
             \/ IBDrops \/ Flatten
    BY <2>2 DEF EaglePublishes, BrokerEnds, Answer, IBDrops, Flatten, broker, DownInv
  <2>3. ASSUME StopProcess PROVE answers' = {} /\ ib' = FALSE
    BY <2>3 DEF StopProcess
  <2>4. ASSUME LoseSession PROVE FALSE
    BY <2>4 DEF LoseSession, Task
  <2>5. CASE HelloRaises \/ RecoveryRaises \/ HeartbeatRaises \/ LiveUnauthorized
             \/ LiveExitRaises \/ OrderRaises \/ Crash
    BY <2>3, <2>5 DEF HelloRaises, RecoveryRaises, HeartbeatRaises, LiveUnauthorized,
       LiveExitRaises, OrderRaises, Crash, Halt
  <2>6. CASE ReplayedExitRaises \/ LiveEntryRaises \/ SettleFails
    BY <2>3, <2>4, <2>6 DEF ReplayedExitRaises, LiveEntryRaises, SettleFails, RefreshFails, Halt
  <2>7. CASE HelloWithoutIB \/ WaitTimesOut \/ EagleDrops
    BY <2>4, <2>7 DEF HelloWithoutIB, WaitTimesOut, EagleDrops
  <2>8. CASE Start \/ Hello \/ (\E h \in Heartbeats : Heartbeat(h)) \/ HeartbeatWithoutIB
             \/ ReplayIgnored \/ ReplayConsumed \/ CommitReplayedEntry
             \/ RecoverReplayedExit \/ ConsumeReplayedExit \/ LiveIgnored \/ ConsumeExit
             \/ PostponeExit \/ MissEntry \/ ConsumeEntry \/ Settle
    BY <2>0, <2>8, TakenFrame DEF Start, Hello, Heartbeat, HeartbeatWithoutIB, ReplayIgnored,
       ReplayConsumed, CommitReplayedEntry, RecoverReplayedExit, ReplayedExit,
       ConsumeReplayedExit, LiveIgnored, ConsumeExit, LiveExit, PostponeExit, MissEntry,
       ConsumeEntry, LiveEntry, Settle, Task, Listening
  <2>9. CASE ReserveExit \/ SubmitExit \/ CommitEntry \/ ReserveEntry \/ SubmitEntry
             \/ PlaceOrder \/ OrderFilled
    BY <2>0, <2>9 DEF ReserveExit, SubmitExit, CommitEntry, ReserveEntry, SubmitEntry,
       PlaceOrder, OrderFilled, Task, Listening, TypeOK
  <2> QED
    BY <2>1, <2>2, <2>5, <2>6, <2>7, <2>8, <2>9, NextCases DEF Ending
<1> QED
  BY <1>1, <1>2, SpecIInv, PTL DEF Spec

\* Nothing is reserved for an update.
OrdersInv == \A e \in Event : ledger[e] # Unknown => e.kind # "update"

LEMMA SpecOrders == Spec => []OrdersInv
<1>1. Init => OrdersInv
  BY DEF Init, OrdersInv
<1>2. IInv /\ UnreservedInv /\ OrdersInv /\ [Next]_vars => OrdersInv'
  <2> SUFFICES ASSUME IInv, UnreservedInv, OrdersInv, [Next]_vars, NEW e \in Event,
                      ledger'[e] # Unknown
               PROVE  e.kind # "update"
    BY DEF OrdersInv, Unknown
  <2>0. ledger \in [Event -> Status]
    BY DEF IInv, TypeOK
  <2>1. CASE ledger' = ledger
    BY <2>1 DEF OrdersInv
  <2>2. ASSUME NEW f \in Event, Moves(f) PROVE e.kind # "update"
    BY <2>0, <2>2 DEF Moves, OrdersInv, Unknown, Terminal
  <2> QED
    BY <2>1, <2>2, LedgerMoves DEF IInv, vars
<1> QED
  BY <1>1, <1>2, SpecIInv, SpecUnreserved, PTL DEF Spec

\* A start goes through only with nothing left to hear of.
StartFindsNothing == [][Start => working = {} /\ answers = {}]_vars

\* BTS never asks IB for its open orders, and need not: the checks of a start
\* on the ledger and the position let it pass only when no order works at IB
\* and no answer to one is under way.
THEOREM SpecStartFindsNothing == Spec => StartFindsNothing
<1>1. ASSUME IInv, DownInv, OrdersInv, Start PROVE working = {} /\ answers = {}
  <2>0. TypeOK /\ BrokerInv /\ working \subseteq Event
    BY <1>1 DEF IInv, TypeOK
  <2>1. answers = {}
    BY <1>1 DEF DownInv, Start
  <2>2. ASSUME NEW e \in working PROVE FALSE
    <3>1. e \in Event /\ ledger[e] = "Submitted" /\ e.sig \in Opens /\ e.sig \in Signal
      BY <2>0, EventFacts DEF BrokerInv
    <3>2. Reserved # {}
      BY <1>1, <3>1 DEF Start, ExecutionClear, Terminal, Unknown
    <3>3. PICK r \in Event : ledger[r] = "Reserved" /\ Opens = {r.sig} /\ r \notin processed
      BY <1>1, <3>2 DEF Start, Reserved
    <3>4. r.kind # "entry"
      BY <1>1, <3>3 DEF Start, ReservedAmbiguous, Reserved
    <3>5. e.sig = r.sig /\ Opens = {e.sig}
      BY <3>1, <3>3
    <3>6. r.kind = "exit" /\ e.kind \in {"entry", "exit"} /\ r # e
      BY <1>1, <2>0, <3>1, <3>3, <3>4, EventFacts DEF OrdersInv, Unknown, BrokerInv
    <3>7. e.kind = "entry"
      BY <3>1, <3>3, <3>5, <3>6, EventFacts
    <3>8. pos = 0
      BY <2>0, <3>7 DEF BrokerInv
    <3> QED
      BY <1>1, <3>5, <3>8, OwnsFacts DEF Start, Reconciled
  <2> QED
    BY <2>1, <2>2
<1>2. IInv /\ DownInv /\ OrdersInv /\ [Next]_vars => [Start => working = {} /\ answers = {}]_vars
  BY <1>1
<1> QED
  BY <1>2, SpecIInv, SpecDown, SpecOrders, PTL DEF Spec, StartFindsNothing

-----------------------------------------------------------------------------
(* An exit lost between its consumption and its reservation.               *)

\* What a replayed exit has proved stays true until it is consumed.
RecoveryInv == task.step = "replayExit" => pos = 0 \/ OwnsExactly(task.ev.sig)

\* A crash may leave a consumed exit unreserved.  No later session forgets it:
\* while one is open, possible_pending_gap_exit is set.
ConsumedExitIsTracked ==
    task.step \notin Away /\ ~ session.gap => ConsumedExitIsReserved

LEMMA RecoveryInvStep ==
    ASSUME TypeOK, WindowInv, BooksInv, BrokerInv, RecoveryInv, Next
    PROVE  RecoveryInv'
<1>l. Listening.step = "listening"
  BY DEF Listening, Task
<1>1. ASSUME task' = task, UNCHANGED <<life, pos>> PROVE RecoveryInv'
  BY <1>1 DEF RecoveryInv, OwnsExactly, Opens, Side
<1>2. ASSUME task'.step # "replayExit" PROVE RecoveryInv'
  BY <1>2 DEF RecoveryInv
<1>3. CASE Ending
  BY <1>2, <1>3, EndingLeaves DEF Leaves, Task
<1>4. CASE Start \/ Hello \/ ReplayConsumed \/ CommitReplayedEntry \/ ConsumeReplayedExit
           \/ ConsumeExit \/ PostponeExit \/ ConsumeEntry \/ Settle
  BY <1>2, <1>4, <1>l DEF Start, Hello, ReplayConsumed, CommitReplayedEntry,
     ConsumeReplayedExit, ConsumeExit, PostponeExit, ConsumeEntry, Settle, Task
<1>5. CASE ReserveExit \/ SubmitExit \/ CommitEntry \/ ReserveEntry \/ SubmitEntry
           \/ PlaceOrder \/ OrderFilled
  BY <1>2, <1>5, <1>l DEF ReserveExit, SubmitExit, CommitEntry, ReserveEntry, SubmitEntry,
     PlaceOrder, OrderFilled, TypeOK
<1>6. CASE (\E h \in Heartbeats : Heartbeat(h)) \/ HeartbeatWithoutIB \/ ReplayIgnored
           \/ LiveIgnored \/ MissEntry \/ IBDrops
           \/ (\E e \in Event : EaglePublishes(e))
           \/ (\E e \in Event, status \in Terminal : Answer(e, status))
  BY <1>1, <1>6 DEF Heartbeat, HeartbeatWithoutIB, ReplayIgnored, LiveIgnored, MissEntry,
     IBDrops, EaglePublishes, Answer, broker
<1>7. CASE Flatten
  BY <1>7 DEF Flatten, RecoveryInv
<1>8. CASE RecoverReplayedExit
  <2>1. /\ task'.ev = Frame /\ pos' = pos
        /\ pos = 0 \/ (OwnsExactly(Frame.sig) /\ life' = life)
    BY <1>8 DEF RecoverReplayedExit, ClosedBefore, FlatAtBroker, StillExposed, broker, Task
  <2> QED
    BY <2>1 DEF RecoveryInv, OwnsExactly, Opens, Side
<1>9. ASSUME NEW e \in Event, NEW status \in Terminal, BrokerEnds(e, status)
      PROVE  RecoveryInv'
  <2>1. /\ e \in working /\ UNCHANGED <<life, task>>
        /\ pos' = IF status = "Filled" THEN pos + Bought(e) ELSE pos
    BY <1>9 DEF BrokerEnds
  <2>2. CASE task.step = "replayExit"
    <3>1. e.kind = "exit" /\ e.sig \in Opens /\ e.sig \in Signal /\ pos = Side(e.sig)
      BY <2>1, <2>2, NoEntryWorks, EventFacts DEF BrokerInv, Away
    <3>2. Bought(e) = - Side(e.sig)
      BY <3>1, BoughtFacts
    <3>3. pos' = pos \/ pos' = 0
      BY <2>1, <3>1, <3>2, SideFacts
    <3> QED
      BY <2>1, <3>3 DEF RecoveryInv, OwnsExactly, Opens, Side
  <2> QED
    BY <1>2, <2>1, <2>2
<1> QED
  BY <1>3, <1>4, <1>5, <1>6, <1>7, <1>8, <1>9, NextCases

LEMMA TrackedStep ==
    ASSUME IInv, RecoveryInv, ConsumedExitIsTracked, Next
    PROVE  ConsumedExitIsTracked'
<1>0. /\ TypeOK /\ LogInv /\ WindowInv /\ StoreInv /\ BooksInv /\ BrokerInv /\ ApprovalInv
      /\ OwnerInv /\ MissedInv /\ ExitInv
  BY DEF IInv
<1> USE DEF ConsumedExitIsReserved
<1>l. Listening.step = "listening"
  BY DEF Listening, Task
<1>t. processed' \subseteq Event
  BY <1>0, StoreTypeStep DEF Store!StoreTypeOK
<1>k. \A e \in Event : ledger[e] # Unknown => ledger'[e] # Unknown
  BY <1>0, LedgerKeeps
\* Who owns the exposure of a consumed exit after the step did so before.
<1>w. \A e \in Event : e.kind = "exit" /\ OwnsExactly(e.sig)' /\ e \in processed'
          => OwnsExactly(e.sig)
  BY <1>0, OwnsGained, EventFacts
<1>m. \A e \in Event : OwnsExactly(e.sig) => e.sig \notin everMissed /\ e.sig \in Opens
  BY <1>0, OwnerIsNotMissed, OwnsFacts, EventFacts
<1> SUFFICES ASSUME task'.step \notin Away, ~ session'.gap,
                    NEW e \in processed', e.kind = "exit", OwnsExactly(e.sig)',
                    task' # Task("consumedExit", e)
             PROVE  ledger'[e] # Unknown
  BY DEF ConsumedExitIsTracked, Unknown, Task, Away
<1>e. e \in Event /\ OwnsExactly(e.sig) /\ pos # 0 /\ Opens = {e.sig} /\ e = Exit(e.sig)
      /\ e.sig \in Signal
  BY <1>t, <1>w, OwnsFacts, EventFacts DEF OwnsExactly
\* An exit consumed before a step within the session.
<1>1. ASSUME task.step \notin Away, e \in processed, ~ session.gap, task # Task("consumedExit", e)
      PROVE  ledger'[e] # Unknown
  BY <1>1, <1>e, <1>k DEF ConsumedExitIsTracked
<1>2. CASE Ending
  BY <1>0, <1>2, EndingLeaves DEF Leaves, Away, Task
<1>3. CASE Start
  BY <1>3 DEF Start, Away, Task
<1>4. CASE Hello
  <2>1. MissedAtHello = {} /\ ~ PossibleGapExit
    BY <1>4, <1>e DEF MissedAtHello, Hello
  <2>2. PICK s \in Signal : EagleOpen = {s} /\ OwnsExactly(s)
    BY <1>4, <1>e, <2>1 DEF Hello, HelloAccepted, HelloReconciled
  <2>3. e \notin Published
    BY <1>e, <2>2 DEF OwnsExactly, EagleOpen, Exit
  <2>4. e \in processed
    BY <1>4 DEF Hello, store
  <2> QED
    BY <1>0, <2>3, <2>4 DEF StoreInv, Published
<1>5. ASSUME UNCHANGED <<processed, task>>, session'.gap = session.gap
      PROVE  ledger'[e] # Unknown
  BY <1>1, <1>5
<1>6. CASE (\E h \in Heartbeats : Heartbeat(h)) \/ HeartbeatWithoutIB \/ ReplayIgnored
           \/ IBDrops \/ Flatten \/ (\E f \in Event : EaglePublishes(f))
           \/ (\E f \in Event, status \in Terminal : BrokerEnds(f, status) \/ Answer(f, status))
  BY <1>0, <1>5, <1>6 DEF Heartbeat, HeartbeatWithoutIB, ReplayIgnored, IBDrops, Flatten,
     EaglePublishes, BrokerEnds, Answer, store, Store!MarkSeqProcessed, CountReplayFrame, TypeOK
<1>7. CASE CommitReplayedEntry \/ SubmitExit \/ PostponeExit \/ CommitEntry \/ ReserveEntry
           \/ SubmitEntry \/ PlaceOrder \/ OrderFilled \/ Settle \/ RecoverReplayedExit
  <2>1. /\ processed' = processed /\ session'.gap = session.gap
        /\ task.step \notin Away /\ task.step # "consumedExit"
    BY <1>0, <1>7, TakenFrame DEF CommitReplayedEntry, SubmitExit, PostponeExit, CommitEntry,
       ReserveEntry, SubmitEntry, PlaceOrder, OrderFilled, Settle, RecoverReplayedExit,
       ReplayedExit, store, Away, CountReplayFrame, TypeOK
  <2> QED
    BY <1>1, <2>1 DEF Task
<1>8. CASE ReserveExit
  <2>1. /\ processed' = processed /\ session' = session /\ task.step = "consumedExit"
        /\ ledger' = [ledger EXCEPT ![task.ev] = "Reserved"]
    BY <1>8 DEF ReserveExit, store
  <2>2. CASE e = task.ev
    BY <1>0, <1>e, <2>1, <2>2 DEF TypeOK, Unknown
  <2>3. CASE e # task.ev
    BY <1>1, <2>1, <2>3 DEF Task, Away
  <2> QED
    BY <2>2, <2>3
<1>9. CASE ConsumeReplayedExit
  <2>1. /\ task.step = "replayExit" /\ ledger' = ledger
        /\ task.ev \in Event /\ task.ev.kind = "exit"
    BY <1>0, <1>9, EventUnderWay DEF ConsumeReplayedExit, WindowInv, ExitStep, OfEvent, Step, Away
  <2>2. OwnsExactly(task.ev.sig)
    BY <1>e, <2>1 DEF RecoveryInv
  <2>3. e = task.ev
    BY <1>e, <2>1, <2>2, EventFacts DEF OwnsExactly
  <2> QED
    BY <1>0, <2>1, <2>2, <2>3 DEF ExitInv, Unknown
<1>10. CASE ReplayConsumed
  <2>1. /\ task.step = "listening" /\ Frame.kind # "exit"
        /\ session'.gap = session.gap /\ processed' \subseteq processed \cup {Frame}
    <3>1. ReplayFrame /\ Consume /\ CountReplayFrame
      BY <1>10 DEF ReplayConsumed
    <3> QED
      BY <1>0, <1>10, <3>1, TakenFrame, ConsumeFacts DEF ReplayConsumed, CountReplayFrame, TypeOK,
         store
  <2> QED
    BY <1>1, <2>1 DEF Away, Task
<1>11. CASE LiveIgnored \/ ConsumeExit \/ MissEntry \/ ConsumeEntry
  <2>1. LiveFrame /\ Consume /\ TakeLiveFrame
    BY <1>11 DEF LiveIgnored, ConsumeExit, LiveExit, MissEntry, ConsumeEntry, LiveEntry
  <2>2. /\ task.step = "listening" /\ Frame \in Event /\ session'.gap = session.gap
        /\ processed' \subseteq processed \cup {Frame}
        /\ ~ Eligible => processed' = processed
    BY <1>0, <2>1, TakenFrame, TakenLive DEF TakeLiveFrame, TypeOK
  <2>3. ASSUME e \notin processed PROVE FALSE
    <3>1. e = Frame /\ Eligible
      BY <2>2, <2>3
    <3>2. CASE LiveIgnored
      BY <1>0, <1>e, <1>m, <3>1, <3>2 DEF LiveIgnored, OpenExit, IsMissed, MissedInv
    <3>3. CASE ConsumeExit
      BY <3>1, <3>3 DEF ConsumeExit
    <3>4. CASE MissEntry \/ ConsumeEntry
      BY <3>1, <3>4 DEF MissEntry, ConsumeEntry, LiveEntry
    <3> QED
      BY <1>11, <3>2, <3>3, <3>4
  <2> QED
    BY <1>1, <2>2, <2>3 DEF Away, Task
<1> QED
  BY <1>2, <1>3, <1>4, <1>6, <1>7, <1>8, <1>9, <1>10, <1>11, NextCases

LEMMA SpecRecovery == Spec => []RecoveryInv
<1>1. Init => RecoveryInv
  BY DEF Init, RecoveryInv, Task
<1>2. IInv /\ RecoveryInv /\ [Next]_vars => RecoveryInv'
  <2>1. ASSUME RecoveryInv, UNCHANGED vars PROVE RecoveryInv'
    BY <2>1 DEF RecoveryInv, OwnsExactly, Opens, Side, vars, broker
  <2> QED
    BY <2>1, RecoveryInvStep DEF IInv
<1> QED
  BY <1>1, <1>2, SpecIInv, PTL DEF Spec

\* A process may die between the consumption of a live exit and its
\* reservation, and Eagle never sends that exit again.  Every session that is
\* opened afterwards, while IB still holds the position, has the gap flag set
\* until the exit is recovered.
THEOREM SpecConsumedExitIsTracked == Spec => []ConsumedExitIsTracked
<1>1. Init => ConsumedExitIsTracked
  BY DEF Init, ConsumedExitIsTracked, Task, Away
<1>2. IInv /\ RecoveryInv /\ ConsumedExitIsTracked /\ [Next]_vars => ConsumedExitIsTracked'
  <2>1. ASSUME ConsumedExitIsTracked, UNCHANGED vars PROVE ConsumedExitIsTracked'
    BY <2>1 DEF ConsumedExitIsTracked, ConsumedExitIsReserved, OwnsExactly, Opens, Side, vars,
       broker, store, Unknown
  <2> QED
    BY <2>1, TrackedStep
<1> QED
  BY <1>1, <1>2, SpecIInv, SpecRecovery, PTL DEF Spec

\* While a session is open, the exit of the signal that owns the exposure is
\* still to come in the stream, or in the ledger, or on its way there, or the
\* gap flag says that it may have been lost.
ExitIsTracked ==
    \A s \in Signal : OwnsExactly(s) /\ task.step \notin Away =>
        \/ \A i \in 1 .. session.sent : log[i] # Exit(s)
        \/ ledger[Exit(s)] # Unknown
        \/ task = Task("consumedExit", Exit(s))
        \/ session.gap

\* With heartbeats in stream order no session loses sight of the exit of the
\* exposure, whatever crashed or was lost before: the safety half of the
\* liveness property ExitIsFollowed.
THEOREM SpecExitIsTracked == Spec => [](~ GlobalHeartbeats => ExitIsTracked)
<1>1. IInv /\ ConsumedExitIsTracked => (~ GlobalHeartbeats => ExitIsTracked)
  <2> SUFFICES ASSUME IInv, ConsumedExitIsTracked, ~ GlobalHeartbeats, task.step \notin Away,
                      ~ session.gap,
                      NEW s \in Signal, OwnsExactly(s), task # Task("consumedExit", Exit(s)),
                      NEW i \in 1 .. session.sent, log[i] = Exit(s)
               PROVE  ledger[Exit(s)] # Unknown
    BY DEF ExitIsTracked
  <2>0. /\ TypeOK /\ WindowInv /\ GapInv /\ ExitInv /\ processed \subseteq Event
        /\ session.sent \in Nat /\ session.left \in Nat /\ Len(log) \in Nat
        /\ session.sent + session.left <= Len(log)
    BY BoundsAssumption, LogType, StoreType DEF IInv, TypeOK, WindowInv
  <2>1. i \in 1 .. Len(log) /\ i <= session.sent
    BY <2>0
  <2>2. CASE Exit(s) \in processed
    BY <2>2, EventFacts DEF ConsumedExitIsTracked, ConsumedExitIsReserved
  <2>3. CASE Exit(s) \notin processed
    <3>1. task.step = "replayExit" /\ i = session.sent
      BY <2>0, <2>1, <2>3 DEF GapInv
    <3>2. task.ev = Exit(s)
      BY <2>0, <3>1 DEF WindowInv, OfEvent, Step, Away
    <3> QED
      BY <2>0, <3>1, <3>2, EventFacts DEF ExitInv
  <2> QED
    BY <2>2, <2>3
<1> QED
  BY <1>1, SpecIInv, SpecConsumedExitIsTracked, PTL

-----------------------------------------------------------------------------
(* What a session does while an exit may have been lost.                   *)

\* BTS takes up no trade on another instrument.
BitcoinInv ==
    /\ \A s \in Signal : life[s] # "New" => s \in Bitcoin
    /\ task.step \in EntryStep \cup {"replayEntry"} => task.ev.sig \in Bitcoin

\* Under the gap flag the owner of the exposure is open until its exit comes in
\* the replay, and no exit of an open signal is still to come from Eagle.
SuspectInv ==
    session.gap =>
        /\ task.step \notin Away \cup LiveStep
        /\ task.step = "replayExit" \/ Opens # {}
        /\ \A s \in Opens : Past(Exit(s))
        /\ session.left > 0 \/ task.step = "replayEntry" =>
               \A s \in Bitcoin : Past(Entry(s)) => Past(Exit(s))

LEMMA BitcoinInvStep ==
    ASSUME IInv, BitcoinInv, Next
    PROVE  BitcoinInv'
<1>0. TypeOK /\ WindowInv
  BY DEF IInv
<1>l. Listening.step = "listening"
  BY DEF Listening, Task
<1>1. \A s \in Signal : life'[s] # "New" => s \in Bitcoin
  <2> SUFFICES ASSUME NEW s \in Signal, life'[s] # "New" PROVE s \in Bitcoin
    OBVIOUS
  <2> QED
    BY LifecycleStep DEF BitcoinInv, EntryStep, Opens
<1> SUFFICES ASSUME task'.step \in EntryStep \cup {"replayEntry"} PROVE task'.ev.sig \in Bitcoin
  BY <1>1 DEF BitcoinInv
<1>2. CASE task' = task
  BY <1>2 DEF BitcoinInv
<1>3. CASE Ending
  BY <1>3, EndingLeaves, <1>0 DEF Leaves, Task, EntryStep
<1>4. CASE Start \/ Hello \/ CommitReplayedEntry \/ RecoverReplayedExit \/ ConsumeReplayedExit
           \/ ConsumeExit \/ PostponeExit \/ Settle
  BY <1>l, <1>4 DEF Start, Hello, CommitReplayedEntry, RecoverReplayedExit,
     ConsumeReplayedExit, ConsumeExit, PostponeExit, Settle, Task, EntryStep
<1>5. CASE (\E h \in Heartbeats : Heartbeat(h)) \/ HeartbeatWithoutIB \/ ReplayIgnored
           \/ LiveIgnored \/ MissEntry \/ IBDrops \/ Flatten
           \/ (\E e \in Event : EaglePublishes(e))
           \/ (\E e \in Event, status \in Terminal : BrokerEnds(e, status) \/ Answer(e, status))
  BY <1>2, <1>5 DEF Heartbeat, HeartbeatWithoutIB, ReplayIgnored, LiveIgnored, MissEntry,
     IBDrops, Flatten, EaglePublishes, BrokerEnds, Answer
<1>6. CASE ReplayConsumed
  BY <1>l, <1>6 DEF ReplayConsumed, Task, EntryStep
<1>7. CASE ConsumeEntry
  BY <1>l, <1>7 DEF ConsumeEntry, LiveEntry, Task, EntryStep
<1>8. CASE CommitEntry \/ ReserveEntry
  BY <1>0, <1>l, <1>8 DEF CommitEntry, ReserveEntry, EntryStep, BitcoinInv, TypeOK
<1>9. CASE ReserveExit \/ SubmitExit \/ SubmitEntry \/ PlaceOrder \/ OrderFilled
  BY <1>0, <1>9 DEF ReserveExit, SubmitExit, SubmitEntry, PlaceOrder, OrderFilled, EntryStep,
     TypeOK
<1> QED
  BY <1>3, <1>4, <1>5, <1>6, <1>7, <1>8, <1>9, NextCases

LEMMA SuspectInvStep ==
    ASSUME IInv, BitcoinInv, SuspectInv, Next
    PROVE  SuspectInv'
<1>0. /\ TypeOK /\ LogInv /\ WindowInv /\ StoreInv /\ BooksInv
      /\ session.sent \in Nat /\ session.left \in Nat /\ cursor \in Int
      /\ Len(log) \in Nat /\ session.sent + session.left <= Len(log) /\ cursor <= Len(log)
  BY LogType, StoreType, BoundsAssumption DEF IInv, TypeOK, WindowInv
<1>l. Listening.step = "listening"
  BY DEF Listening, Task
<1> SUFFICES ASSUME session'.gap PROVE SuspectInv'
  BY DEF SuspectInv
<1>g. \A e : Past(e) => Past(e)'
  BY <1>0, PastGrows DEF Past
\* A step that neither moves the end of the replay nor touches the lifecycle.
<1>1. ASSUME session.gap, life' = life, log' = log,
             session'.sent + session'.left = session.sent + session.left,
             task'.step \notin Away \cup LiveStep,
             session'.left > 0 \/ task'.step = "replayEntry"
               => session.left > 0 \/ task.step = "replayEntry",
             task.step = "replayExit" => task'.step = "replayExit"
      PROVE  SuspectInv'
  <2>1. \A e : Past(e)' => Past(e)
    BY <1>1 DEF Past, Reached, SuspectInv
  <2> QED
    BY <1>1, <1>g, <2>1 DEF SuspectInv, Opens
<1>2. CASE Ending
  BY <1>0, <1>2, EndingLeaves DEF Leaves
<1>3. CASE Start
  BY <1>3 DEF Start, NoSession
<1>4. CASE Hello
  <2>1. /\ log' = log /\ life' = life /\ task' = Listening
        /\ session'.sent = Since /\ session'.left = Len(log) - Since
        /\ EagleOpen = {} /\ \E s \in Signal : OwnsExactly(s)
    BY <1>4 DEF Hello, PossibleGapExit
  <2>2. Reached' = Len(log)
    BY <1>0, <1>l, <2>1 DEF Reached, Away, Since
  <2>3. \A e : Past(e)' <=> e \in Published
    BY <1>0, <2>1, <2>2 DEF Past, Published
  <2>4. \A s \in Bitcoin : Entry(s) \in Published => Exit(s) \in Published
    BY <2>1 DEF EagleOpen, Entry, Exit
  <2>5. \A s \in Opens : s \in Bitcoin /\ Entry(s) \in Published
    <3> SUFFICES ASSUME NEW s \in Opens PROVE s \in Bitcoin /\ Entry(s) \in Published
      OBVIOUS
    <3>1. s \in Signal /\ life[s] # "New"
      BY DEF Opens
    <3>2. Entry(s) \in processed
      BY <1>0, <3>1 DEF BooksInv
    <3> QED
      BY <1>0, <3>1, <3>2 DEF BitcoinInv, StoreInv, Published
  <2>6. Opens # {} /\ Opens' = Opens
    BY <2>1, OwnsFacts DEF Opens
  <2> QED
    BY <1>l, <2>1, <2>3, <2>4, <2>5, <2>6 DEF SuspectInv, Away, LiveStep, OfEvent
<1>5. CASE (\E h \in Heartbeats : Heartbeat(h)) \/ HeartbeatWithoutIB \/ IBDrops \/ Flatten
           \/ (\E e \in Event, status \in Terminal : BrokerEnds(e, status) \/ Answer(e, status))
  <2>1. /\ session.gap /\ UNCHANGED <<life, log, task>>
        /\ session'.sent = session.sent /\ session'.left = session.left
    BY <1>0, <1>5 DEF Heartbeat, HeartbeatWithoutIB, IBDrops, Flatten, BrokerEnds, Answer, TypeOK
  <2> QED
    BY <1>1, <2>1 DEF SuspectInv
<1>6. CASE ReplayIgnored \/ ReplayConsumed
  <2>1. /\ ReplayFrame /\ CountReplayFrame /\ UNCHANGED <<life, log>>
        /\ task' = task \/ task'.step \in {"listening", "replayEntry"}
    BY <1>l, <1>6 DEF ReplayIgnored, ReplayConsumed, Task
  <2>2. /\ session.gap /\ session.left > 0 /\ task.step = "listening"
        /\ session'.sent + session'.left = session.sent + session.left
    BY <1>0, <2>1, TakenFrame DEF CountReplayFrame, ReplayFrame, TypeOK
  <2> QED
    BY <1>1, <2>1, <2>2 DEF Away, LiveStep, OfEvent
<1>7. CASE RecoverReplayedExit
  <2>1. /\ ReplayFrame /\ CountReplayFrame /\ log' = log /\ task'.step = "replayExit"
        /\ Frame \in Event /\ Frame.kind = "exit" /\ (life' = life \/ Commit(Frame))
    BY <1>0, <1>7, TakenFrame DEF RecoverReplayedExit, ReplayedExit, Task
  <2>2. /\ session.gap /\ session.left > 0 /\ task.step = "listening"
        /\ session'.sent + session'.left = session.sent + session.left
    BY <1>0, <2>1, TakenFrame DEF CountReplayFrame, ReplayFrame, TypeOK
  <2>3. Opens' \subseteq Opens
    <3>1. life' = life \/ life' = [life EXCEPT ![Frame.sig] = "Closed"]
      BY <1>0, <2>1, CommitFacts
    <3> QED
      BY <1>0, <3>1 DEF Opens, TypeOK
  <2>4. \A e : Past(e)' => Past(e)
    BY <2>1, <2>2 DEF Past, Reached, Away
  <2> QED
    BY <1>g, <2>1, <2>2, <2>3, <2>4 DEF SuspectInv, Away, LiveStep, OfEvent
<1>8. CASE CommitReplayedEntry
  <2>1. /\ task.step = "replayEntry" /\ task' = Listening /\ UNCHANGED <<log, session>>
        /\ task.ev \in Event /\ task.ev.kind = "entry" /\ Commit(task.ev)
    BY <1>0, <1>8, EventUnderWay DEF CommitReplayedEntry, WindowInv, OfEvent, Step, Away
  <2>2. Opens \subseteq Opens' /\ Opens' \subseteq Opens \cup {task.ev.sig}
    <3>1. \/ life' = life
          \/ /\ life[task.ev.sig] = "New"
             /\ \E st \in {"LongOpen", "ShortOpen"} : life' = [life EXCEPT ![task.ev.sig] = st]
      BY <1>0, <2>1, CommitFacts
    <3> QED
      BY <1>0, <3>1 DEF Opens, TypeOK
  <2>3. session.gap /\ \A e : Past(e)' => Past(e)
    BY <1>l, <2>1 DEF Past, Reached, Away
  <2>4. task.ev.sig \in Bitcoin /\ task.ev = Entry(task.ev.sig)
    BY <2>1, EventFacts DEF BitcoinInv
  <2>5. Past(task.ev)
    BY <1>0, <2>1 DEF WindowInv, OfEvent, Step, Away, Past, Reached
  <2>6. Past(Exit(task.ev.sig))
    BY <2>1, <2>3, <2>4, <2>5 DEF SuspectInv
  <2> QED
    BY <1>g, <1>l, <2>1, <2>2, <2>3, <2>6 DEF SuspectInv, Away, LiveStep, OfEvent
<1>9. CASE ConsumeReplayedExit
  BY <1>0, <1>9 DEF ConsumeReplayedExit, TypeOK
<1>10. CASE LiveIgnored \/ ConsumeExit \/ MissEntry \/ ConsumeEntry
  <2>1. /\ LiveFrame /\ TakeLiveFrame /\ UNCHANGED <<life, log>>
    BY <1>10 DEF LiveIgnored, ConsumeExit, LiveExit, MissEntry, ConsumeEntry, LiveEntry
  <2>2. /\ session.gap /\ session.left = 0 /\ session'.left = 0 /\ task.step = "listening"
        /\ session.sent + 1 \in 1 .. Len(log) /\ Frame = log[session.sent + 1] /\ Frame \in Event
        /\ Opens' = Opens
    BY <1>0, <2>1, TakenFrame DEF TakeLiveFrame, LiveFrame, TypeOK, Opens
  <2>3. Opens # {} /\ \A s \in Opens : Past(Exit(s))
    BY <2>2 DEF SuspectInv
  <2>4. ASSUME ConsumeExit PROVE FALSE
    <3>1. Frame = Exit(Frame.sig) /\ Frame.sig \in Opens
      BY <2>2, <2>4, EventFacts DEF ConsumeExit, LiveExit, OpenExit
    <3>2. PICK i \in 1 .. Len(log) : i <= Reached /\ log[i] = Frame
      BY <2>3, <3>1 DEF Past
    <3>3. i <= session.sent
      BY <1>0, <2>2, <3>2 DEF Reached, Away
    <3>4. i = session.sent + 1
      BY <1>0, <2>2, <3>2 DEF LogInv
    <3> QED
      BY <1>0, <3>3, <3>4
  <2>5. task'.step = "listening"
    BY <1>l, <1>10, <2>2, <2>3, <2>4 DEF LiveIgnored, MissEntry, ConsumeEntry
  <2> QED
    BY <1>g, <2>2, <2>3, <2>5 DEF SuspectInv, Away, LiveStep, OfEvent
<1>11. CASE ReserveExit \/ SubmitExit \/ PostponeExit \/ CommitEntry \/ ReserveEntry
            \/ SubmitEntry \/ PlaceOrder \/ OrderFilled \/ Settle
  <2>1. session.gap /\ task.step \in LiveStep
    BY <1>11 DEF ReserveExit, SubmitExit, PostponeExit, CommitEntry, ReserveEntry, SubmitEntry,
       PlaceOrder, OrderFilled, Settle, LiveStep, OfEvent, Step, Away
  <2> QED
    BY <2>1 DEF SuspectInv
<1>12. ASSUME NEW f \in Event, EaglePublishes(f) PROVE SuspectInv'
  <2>1. UNCHANGED <<task, session, life>> /\ session.gap
    BY <1>12 DEF EaglePublishes
  <2>2. \A e : Past(e)' => Past(e)
    <3>1. task.step \notin Away
      BY <2>1 DEF SuspectInv
    <3>2. Reached' = Reached /\ Reached \in Int /\ Reached <= Len(log)
      BY <1>0, <2>1, <3>1 DEF Reached
    <3>3. Len(log') = Len(log) + 1 /\ \A i \in 1 .. Len(log) : log'[i] = log[i]
      BY <1>0, <1>12, PublishFacts
    <3> QED
      BY <1>0, <3>2, <3>3 DEF Past
  <2> QED
    BY <1>g, <2>1, <2>2 DEF SuspectInv, Opens
<1> QED
  BY <1>2, <1>3, <1>4, <1>5, <1>6, <1>7, <1>8, <1>9, <1>10, <1>11, <1>12, NextCases

\* No event is on its way to IB while an exit may have been lost.
NoTradeOverGap == session.gap => task.step \notin LiveStep

\* While possible_pending_gap_exit is set BTS opens and closes nothing, even if
\* a heartbeat that could not reach IB has given the session its permission
\* without the check of the flag.
THEOREM SpecNoTradeOverGap == Spec => []NoTradeOverGap
<1>1. Init => BitcoinInv /\ SuspectInv
  BY DEF Init, BitcoinInv, SuspectInv, Task, EntryStep, NoSession
<1>2. IInv /\ BitcoinInv /\ SuspectInv /\ [Next]_vars => BitcoinInv' /\ SuspectInv'
  <2>1. ASSUME BitcoinInv, SuspectInv, UNCHANGED vars PROVE BitcoinInv' /\ SuspectInv'
    BY <2>1 DEF BitcoinInv, SuspectInv, Past, Reached, Opens, vars
  <2> QED
    BY <2>1, BitcoinInvStep, SuspectInvStep
<1>3. SuspectInv => NoTradeOverGap
  BY DEF SuspectInv, NoTradeOverGap
<1> QED
  BY <1>1, <1>2, <1>3, SpecIInv, PTL DEF Spec

=============================================================================
