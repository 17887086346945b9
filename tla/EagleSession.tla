---------------------------- MODULE EagleSession ----------------------------
(***************************************************************************)
(* One Eagle session after another, as scripts/run_local_eagle_client.py   *)
(* wires them: the listener and its handlers, the replay tracker, the      *)
(* reconciliation of the hello, the heartbeat watchdog and the resume      *)
(* gate, over the durable event store.                                     *)
(*                                                                         *)
(* Handlers run to their end on one asyncio loop, so each is one action;   *)
(* the watchdog, the listener and the main task interleave between them.   *)
(* A session ends with its process: everything but the store is created    *)
(* anew by the next one.  Eagle and the socket are external: Eagle sends   *)
(* a hello, then the frames after the requested number, then live frames,  *)
(* may fall silent, and the socket may close at any moment.                *)
(***************************************************************************)
EXTENDS EventStore, FiniteSets, Sequences

CONSTANTS
    Timeout,      \* heartbeat timeout, in ticks; also the initial grace
    Interval,     \* the watchdog's check interval, in ticks
    MaxSessions   \* bound: sessions

ASSUME EventAssumption == Event = SeqNo    \* an id per number
ASSUME TimesAssumption == Timeout \in Nat /\ Interval \in Nat \ {0}
ASSUME MaxSessionsAssumption == MaxSessions \in Nat

VARIABLES
    open,       \* the process runs and listens
    tracker,    \* ReplayTracker
    matched,    \* ReconciliationManager.last_result.status
    age,        \* ConnectionHealth: ticks since the last heartbeat
    paused,     \* TradingControls.is_paused
    resumed,    \* ready_resume_attempted
    watch,      \* HeartbeatWatchdog: on, ticks since it started and to its next check
    approved,   \* history: decisions of the coordinator, with the hello they follow
    stream,     \* external: the frames Eagle numbered 1, 2, ...
    wire,       \* external: frames sent on this connection, not yet received
    sessions

client   == <<tracker, matched, resumed>>
sessionVars == <<storeVars, client, open, age, paused, watch, approved, stream,
                 wire, sessions>>

NoBeat == -1              \* last_heartbeat_at is None
Kind   == {"event", "heartbeat"}
Oldest == Timeout + Interval + 1    \* bound: no greater age is told apart

Tracker == [hello : BOOLEAN, expected : Nat, done : Nat, last : SeqNo]
Watch   == [on : BOOLEAN, since : 0 .. Oldest, nap : 0 .. Interval]
Frame   == [type : Kind \cup {"hello"}, seq : SeqNo, count : Nat, flat : BOOLEAN]

SessionTypeOK ==
    /\ StoreTypeOK
    /\ open \in BOOLEAN /\ paused \in BOOLEAN /\ resumed \in BOOLEAN
    /\ tracker \in Tracker
    /\ matched \in {"NotChecked", "Matched", "Mismatched"}
    /\ age \in 0 .. Oldest \cup {NoBeat}
    /\ watch \in Watch
    /\ \A a \in approved : a \in [seq : SeqNo, last : SeqNo]
    /\ stream \in Seq(Kind) /\ Len(stream) <= MaxSeq
    /\ wire \in Seq(Frame)
    /\ sessions \in 0 .. MaxSessions

NewTracker == [hello |-> FALSE, expected |-> 0, done |-> 0, last |-> 0]
NewWatch   == [on |-> TRUE, since |-> 0, nap |-> Interval]

SessionInit ==
    /\ StoreInit
    /\ open = FALSE /\ paused = TRUE /\ resumed = FALSE
    /\ tracker = NewTracker /\ matched = "NotChecked"
    /\ age = NoBeat /\ watch = NewWatch
    /\ approved = {} /\ stream = <<>> /\ wire = <<>> /\ sessions = 0

-----------------------------------------------------------------------------
(* Eagle.                                                                  *)

FrameOf(s) == [type |-> stream[s], seq |-> s, count |-> 0, flat |-> TRUE]

\* Faulty variant: the number BTS expects next.
SinceNext == cursor + 1

\* since_seq of the new client, from the durable cursor; without one Eagle
\* replays everything.
Since == IF cursor = NoSeq THEN 0 ELSE cursor

\* replay_count: the lifecycle frames of the replay.
ReplayCount(s) == Cardinality({i \in s + 1 .. Len(stream) : stream[i] = "event"})

\* The hello, with Eagle's open positions, and the replay.
Greeting(s, flat) ==
    <<[type |-> "hello", seq |-> Len(stream), count |-> ReplayCount(s), flat |-> flat]>>
       \o [i \in 1 .. Len(stream) - s |-> FrameOf(s + i)]

\* The process starts and its client connects.
Connect ==
    /\ ~ open /\ sessions < MaxSessions
    /\ sessions' = sessions + 1
    /\ open' = TRUE
    /\ paused' = TRUE /\ resumed' = FALSE
    /\ tracker' = NewTracker /\ matched' = "NotChecked"
    /\ age' = NoBeat /\ watch' = NewWatch
    /\ \E flat \in BOOLEAN : wire' = Greeting(Since, flat)
    /\ UNCHANGED <<storeVars, approved, stream>>

Publish(k) ==
    /\ Len(stream) < MaxSeq
    /\ stream' = Append(stream, k)
    /\ wire' = IF open
               THEN Append(wire, [type |-> k, seq |-> Len(stream) + 1,
                                  count |-> 0, flat |-> TRUE])
               ELSE wire
    /\ UNCHANGED <<storeVars, client, open, age, paused, watch, approved, sessions>>

\* A heartbeat that takes no number of its own; one in flight at a time.
Beat ==
    /\ open /\ wire = <<>>
    /\ wire' = <<[type |-> "heartbeat", seq |-> Len(stream), count |-> 0,
                  flat |-> TRUE]>>
    /\ UNCHANGED <<storeVars, client, open, age, paused, watch, approved, stream,
                   sessions>>

-----------------------------------------------------------------------------
(* The listener.                                                           *)

\* ReplayTracker.replay_complete.
Complete(t) == t.hello /\ t.done >= t.expected

\* ConnectionHealth.is_healthy.
Healthy(a) == a # NoBeat /\ a <= Timeout

\* Faulty variant: the hello is taken for the whole replay.
ReadyAfterHello(t, m, a) == t.hello /\ m = "Matched" /\ Healthy(a)

\* ReconnectReadiness.evaluate.
Ready(t, m, a) == Complete(t) /\ m = "Matched" /\ Healthy(a)

\* ResumeManager.request_resume: a refused request pauses.
RequestResume(ready) == paused' = ~ ready

\* Whatever the head of the wire is, it is taken off.
Received(type) ==
    /\ open /\ wire # <<>> /\ Head(wire).type = type
    /\ wire' = Tail(wire)

\* process_hello: the tracker starts over.
ProcessHello(m) == [hello |-> TRUE, expected |-> m.count, done |-> 0, last |-> m.seq]

\* reconcile: Eagle's open positions against the broker's, of which the fake
\* broker has none.
Reconcile(m) == IF m.flat THEN "Matched" ELSE "Mismatched"

\* fund.hello: tracked and reconciled, and a first request to resume is made
\* before any heartbeat.
Hello ==
    /\ Received("hello")
    /\ tracker' = ProcessHello(Head(wire))
    /\ matched' = Reconcile(Head(wire))
    /\ RequestResume(Ready(tracker', matched', age))
    /\ UNCHANGED <<storeVars, open, age, resumed, watch, approved, stream, sessions>>

\* fund.heartbeat: the cursor follows, the age starts over, and the second
\* request to resume is made the first time everything is ready.
Heartbeat ==
    /\ Received("heartbeat")
    /\ \/ MarkSeqProcessed(Head(wire).seq)
       \/ Head(wire).seq <= cursor /\ UNCHANGED storeVars
    /\ age' = 0
    /\ IF Ready(tracker, matched, 0) /\ ~ resumed
       THEN RequestResume(TRUE) /\ resumed' = TRUE
       ELSE UNCHANGED <<paused, resumed>>
    /\ UNCHANGED <<open, tracker, matched, watch, approved, stream, sessions>>

\* Faulty variant: the replay is done with the frame that carries the number
\* of announced frames.
CountByNumber(s) ==
    [tracker EXCEPT !.done = IF Complete(tracker) THEN @ ELSE s]

\* record_lifecycle_event: nothing is counted beyond the announced replay.
Count(s) == [tracker EXCEPT !.done = IF Complete(tracker) THEN @ ELSE @ + 1]

\* fund.entry and fund.exit: counted, then consumed by the store, and decided
\* by the coordinator if accepted, which approves nothing while paused.
Lifecycle ==
    /\ Received("event")
    /\ tracker.hello
    /\ LET s == Head(wire).seq
       IN  /\ tracker' = Count(s)
           /\ \/ /\ CheckAndMarkEventWithSeq(s, s)
                 /\ approved' = IF paused THEN approved
                                ELSE approved \cup {[seq |-> s, last |-> tracker.last]}
              \/ /\ Eligibility(s, s) # "ACCEPTED"
                 /\ UNCHANGED <<storeVars, approved>>
    /\ UNCHANGED <<open, matched, age, paused, resumed, watch, stream, sessions>>

\* The socket closes, with the frames in flight; listen returns or raises,
\* and the process ends.
Close ==
    /\ open
    /\ open' = FALSE
    /\ wire' = <<>>
    /\ UNCHANGED <<storeVars, client, age, paused, watch, approved, stream, sessions>>

-----------------------------------------------------------------------------
(* The watchdog and the main task.                                         *)

\* Time passes while nothing is due on the loop.  The clock is the listener's
\* as well as the watchdog's.
Tick ==
    /\ open /\ watch.on /\ watch.nap > 0
    /\ watch' = [watch EXCEPT !.nap = @ - 1,
                              !.since = IF @ < Oldest THEN @ + 1 ELSE @]
    /\ age' = IF age = NoBeat THEN age ELSE IF age < Oldest THEN age + 1 ELSE age
    /\ UNCHANGED <<storeVars, client, open, paused, approved, stream, wire, sessions>>

\* Faulty variants: no limit on the wait for the first heartbeat; only that
\* wait is limited.
StaleAfterFirst == age # NoBeat /\ ~ Healthy(age)
StaleAtStart == age = NoBeat /\ watch.since > Timeout

\* monitor: too long without a first heartbeat, or check raises.
Stale == IF age = NoBeat THEN watch.since > Timeout ELSE ~ Healthy(age)

Check ==
    /\ open /\ watch.on /\ watch.nap = 0
    /\ ~ Stale
    /\ watch' = [watch EXCEPT !.nap = Interval]
    /\ UNCHANGED <<storeVars, client, open, age, paused, approved, stream, wire, sessions>>

\* on_timeout pauses trading and the monitor returns ...
HeartbeatTimeout ==
    /\ open /\ watch.on /\ watch.nap = 0
    /\ Stale
    /\ paused' = TRUE
    /\ watch' = [watch EXCEPT !.on = FALSE]
    /\ UNCHANGED <<storeVars, client, open, age, approved, stream, wire, sessions>>

\* ... and the main task, which wakes after whatever the loop had ready,
\* pauses again and cancels the listener.
StopListener ==
    /\ open /\ ~ watch.on
    /\ paused' = TRUE
    /\ open' = FALSE
    /\ wire' = <<>>
    /\ UNCHANGED <<storeVars, client, age, watch, approved, stream, sessions>>

-----------------------------------------------------------------------------
Listen == Hello \/ Heartbeat \/ Lifecycle

Watchdog == Tick \/ Check \/ HeartbeatTimeout \/ StopListener

SessionNext ==
    \/ Connect \/ Beat \/ Close \/ \E k \in Kind : Publish(k)
    \/ Hello \/ Heartbeat \/ Lifecycle
    \/ Tick \/ Check \/ HeartbeatTimeout \/ StopListener

SessionSpec == SessionInit /\ [][SessionNext]_sessionVars

\* The loop keeps running: the listener takes what has arrived, time passes,
\* and a due watchdog or main task gets its turn.  The socket may close at any
\* time, and Eagle may fall silent, but not within the replay it announced:
\* Connect puts all of it on the wire.
SessionFairSpec ==
    SessionSpec /\ WF_sessionVars(Listen) /\ WF_sessionVars(Watchdog)

-----------------------------------------------------------------------------
\* The replay is complete only when every lifecycle frame Eagle had at the
\* hello is consumed: "interrupted replay was incorrectly marked complete" is
\* what scripts/test_eagle_automatic_reconnect.py calls a safety violation.
CompleteMeansDrained ==
    open /\ Complete(tracker) =>
        \A s \in 1 .. tracker.last : stream[s] = "event" => s \in processed

\* However often a connection drops inside a replay, no lifecycle frame at or
\* below the cursor is unconsumed: the next session asks for all that is left.
NothingMissed ==
    \A s \in 1 .. Len(stream) :
        stream[s] = "event" /\ s <= cursor => s \in processed

\* No replayed frame becomes a trade: what the coordinator approves is newer
\* than the hello of its session.
ReplayNeverApproved == \A a \in approved : a.seq > a.last

\* Trading is open only while Eagle's last heartbeat is at most one timeout
\* and one check interval old, whatever the order of heartbeat and watchdog.
FreshWhileTrading ==
    open /\ ~ paused => age # NoBeat /\ age <= Timeout + Interval

\* No session hangs: one whose positions agree becomes ready, or it ends.
ReadyOrOver ==
    matched = "Matched" /\ open ~> Ready(tracker, matched, age) \/ ~ open

=============================================================================
