------------------------- MODULE EagleSessionProofs -------------------------
(* Theorems about EagleSession.                                             *)
EXTENDS EagleSession, EventStoreProofs, FiniteSetTheorems, SequenceTheorems, TLAPS

\* What is open to trading, and how old the last heartbeat can be before the
\* watchdog looks again.
FreshInv ==
    open /\ ~ paused =>
        /\ age # NoBeat /\ age <= Timeout + Interval
        /\ watch.on => age + watch.nap <= Timeout + Interval

OnWire(s) == \E i \in 1 .. Len(wire) : wire[i].type = "event" /\ wire[i].seq = s

\* The wire: the hello alone comes first, frames are those of the stream, and
\* no frame overtakes an event with a smaller number.
WireInv ==
    /\ ~ open => wire = <<>>
    /\ open /\ ~ tracker.hello => wire # <<>> /\ wire[1].type = "hello"
    /\ \A i \in 1 .. Len(wire) :
        /\ wire[i].seq <= Len(stream)
        /\ wire[i].type = "hello" => i = 1 /\ ~ tracker.hello
        /\ wire[i].type = "event" => wire[i].seq >= 1 /\ stream[wire[i].seq] = "event"
    /\ \A i, j \in 1 .. Len(wire) :
        i < j /\ wire[i].type # "hello" /\ wire[j].type = "event" => wire[i].seq < wire[j].seq

\* An event that is not on the wire of an open session is consumed.
WaitInv ==
    /\ cursor <= Len(stream)
    /\ open => \A s \in 1 .. Len(stream) :
                    stream[s] = "event" => s \in processed \/ OnWire(s)

\* The announced replay: as many frames on the wire as are still to be counted.
CountInv ==
    /\ tracker.last <= Len(stream)
    /\ open /\ ~ tracker.hello =>
        Cardinality({s \in 1 .. wire[1].seq : OnWire(s)}) = wire[1].count
    /\ open /\ tracker.hello =>
        /\ tracker.done <= tracker.expected
        /\ Cardinality({s \in 1 .. tracker.last : OnWire(s)}) = tracker.expected - tracker.done

\* Trading opens only after the replay.
OpenInv == open /\ ~ paused => Complete(tracker)

SessionInv ==
    /\ FreshInv /\ WireInv /\ WaitInv /\ CountInv /\ OpenInv
    /\ NothingMissed /\ ReplayNeverApproved

-----------------------------------------------------------------------------
(* Type correctness.                                                       *)

LEMMA Constants ==
    /\ Timeout \in Nat /\ Interval \in Nat \ {0} /\ MaxSessions \in Nat /\ MaxSeq \in Nat
    /\ Event = 0 .. MaxSeq /\ SeqNo = 0 .. MaxSeq /\ NoSeq = -1 /\ NoBeat = -1
    /\ Oldest = Timeout + Interval + 1 /\ Oldest \in Nat
BY TimesAssumption, MaxSessionsAssumption, MaxSeqAssumption, EventAssumption
   DEF Oldest, SeqNo, NoSeq, NoBeat

\* Taking the head off the wire.
LEMMA Taken ==
    ASSUME wire \in Seq(Frame), NEW type, Received(type)
    PROVE  /\ open /\ Len(wire) \in Nat /\ Len(wire) >= 1 /\ wire # <<>>
           /\ Head(wire) = wire[1] /\ wire[1] \in Frame /\ wire[1].type = type
           /\ wire' \in Seq(Frame) /\ Len(wire') = Len(wire) - 1
           /\ \A i \in 1 .. Len(wire') : wire'[i] = wire[i + 1]
<1>1. open /\ wire # <<>> /\ Head(wire).type = type /\ wire' = Tail(wire)
  BY DEF Received
<1>2. Len(wire) \in Nat /\ Len(wire) >= 1
  BY <1>1, EmptySeq, LenProperties
<1>3. Head(wire) = wire[1]
  BY <1>1
<1>4. Head(wire) \in Frame
  BY <1>1, HeadTailProperties
<1> QED
  BY <1>1, <1>2, <1>3, <1>4, HeadTailProperties

\* The replay that follows the hello of a new connection.
LEMMA Replayed ==
    ASSUME stream \in Seq(Kind), Len(stream) <= MaxSeq, NEW s \in 0 .. Len(stream),
           NEW h \in Frame, NEW w,
           w = <<h>> \o [i \in 1 .. Len(stream) - s |-> FrameOf(s + i)]
    PROVE  /\ w \in Seq(Frame) /\ Len(w) = Len(stream) - s + 1
           /\ w[1] = h
           /\ \A i \in 2 .. Len(w) : w[i] = FrameOf(s + i - 1)
<1> DEFINE r == [i \in 1 .. Len(stream) - s |-> FrameOf(s + i)]
<1>1. Len(stream) \in Nat
  BY LenProperties
<1>2. \A i \in 1 .. Len(stream) : FrameOf(i) \in Frame
  BY <1>1, Constants, ElementOfSeq DEF FrameOf, Frame, Kind
<1>3. r \in Seq(Frame) /\ Len(r) = Len(stream) - s
  BY <1>1, <1>2, Constants
<1>4. <<h>> \in Seq(Frame) /\ Len(<<h>>) = 1 /\ <<h>>[1] = h
  OBVIOUS
<1>5. w = <<h>> \o r
  OBVIOUS
<1>6. /\ w \in Seq(Frame) /\ Len(w) = 1 + (Len(stream) - s)
      /\ \A i \in 1 .. 1 + (Len(stream) - s) : w[i] = IF i <= 1 THEN <<h>>[i] ELSE r[i - 1]
  BY <1>3, <1>4, <1>5, ConcatProperties
<1>7. w[1] = h
  BY <1>1, <1>4, <1>6
<1>8. ASSUME NEW i \in 2 .. Len(w) PROVE w[i] = FrameOf(s + i - 1)
  <2>1. w[i] = r[i - 1] /\ i - 1 \in 1 .. Len(stream) - s
    BY <1>1, <1>6
  <2>2. r[i - 1] = FrameOf(s + (i - 1))
    BY <2>1
  <2>3. s + (i - 1) = s + i - 1
    BY <1>1, <1>6
  <2> QED
    BY <2>1, <2>2, <2>3
<1> QED
  BY <1>1, <1>6, <1>7, <1>8

LEMMA Announced ==
    ASSUME stream \in Seq(Kind), NEW s \in 0 .. Len(stream)
    PROVE  ReplayCount(s) \in Nat
<1>1. Len(stream) \in Nat
  BY LenProperties
<1>2. IsFiniteSet(s + 1 .. Len(stream))
  BY <1>1, FS_Interval
<1>3. IsFiniteSet({i \in s + 1 .. Len(stream) : stream[i] = "event"})
  BY <1>2, FS_Subset
<1> QED
  BY <1>3, FS_CardinalityType DEF ReplayCount

\* A frame at the end of the wire.
LEMMA Sent ==
    ASSUME wire \in Seq(Frame), NEW f \in Frame, NEW w, w = Append(wire, f)
    PROVE  /\ w \in Seq(Frame) /\ Len(w) = Len(wire) + 1 /\ Len(wire) \in Nat
           /\ w # <<>> /\ w[Len(w)] = f
           /\ \A i \in 1 .. Len(wire) : w[i] = wire[i]
BY AppendProperties, LenProperties

\* The hello and the replay of a new session.
LEMMA NewSession ==
    ASSUME SessionTypeOK, SessionInv, Connect
    PROVE  \E flat \in BOOLEAN, h \in Frame :
              /\ Since \in 0 .. Len(stream)
              /\ \A s \in 1 .. Since : s <= cursor
              /\ h = [type |-> "hello", seq |-> Len(stream), count |-> ReplayCount(Since),
                      flat |-> flat]
              /\ wire' = <<h>> \o [i \in 1 .. Len(stream) - Since |-> FrameOf(Since + i)]
<1>1. PICK flat \in BOOLEAN :
        wire' = <<[type |-> "hello", seq |-> Len(stream), count |-> ReplayCount(Since),
                   flat |-> flat]>> \o [i \in 1 .. Len(stream) - Since |-> FrameOf(Since + i)]
  BY DEF Connect, Greeting
<1>2. Len(stream) \in SeqNo
  BY Constants, LenProperties DEF SessionTypeOK
<1>3. Since \in 0 .. Len(stream) /\ \A s \in 1 .. Since : s <= cursor
  BY <1>2, Constants DEF Since, SessionTypeOK, StoreTypeOK, SessionInv, WaitInv
<1>4. ReplayCount(Since) \in Nat
  BY <1>3, Announced DEF SessionTypeOK
<1>5. [type |-> "hello", seq |-> Len(stream), count |-> ReplayCount(Since), flat |-> flat]
        \in Frame
  BY <1>2, <1>4 DEF Frame
<1> QED
  BY <1>1, <1>3, <1>5

LEMMA TypeStep == SessionTypeOK /\ SessionInv /\ SessionNext => SessionTypeOK'
<1> SUFFICES ASSUME SessionTypeOK, SessionInv, SessionNext PROVE SessionTypeOK'
  OBVIOUS
<1>0. wire \in Seq(Frame) /\ stream \in Seq(Kind) /\ Len(stream) <= MaxSeq
  BY DEF SessionTypeOK
<1>1. CASE Connect
  <2>1. PICK flat \in BOOLEAN, h \in Frame :
          /\ Since \in 0 .. Len(stream)
          /\ wire' = <<h>> \o [i \in 1 .. Len(stream) - Since |-> FrameOf(Since + i)]
    BY <1>1, NewSession
  <2>2. wire' \in Seq(Frame)
    BY <1>0, <2>1, Replayed
  <2>3. NewTracker \in Tracker /\ NewWatch \in Watch
    BY Constants DEF NewTracker, NewWatch, Tracker, Watch
  <2>4. sessions' \in 0 .. MaxSessions
    BY <1>1, Constants DEF Connect, SessionTypeOK
  <2> QED
    BY <1>1, <2>2, <2>3, <2>4 DEF Connect, SessionTypeOK, StoreTypeOK, storeVars
<1>2. ASSUME NEW k \in Kind, Publish(k) PROVE SessionTypeOK'
  <2>1. stream' = Append(stream, k) /\ Len(stream) < MaxSeq
    BY <1>2 DEF Publish
  <2>2. stream' \in Seq(Kind) /\ Len(stream') = Len(stream) + 1 /\ Len(stream) \in Nat
    BY <1>0, <2>1, AppendProperties, LenProperties
  <2>3. [type |-> k, seq |-> Len(stream) + 1, count |-> 0, flat |-> TRUE] \in Frame
    BY <2>1, <2>2, Constants DEF Frame
  <2>4. wire' \in Seq(Frame)
    BY <1>0, <1>2, <2>3, Sent DEF Publish
  <2>5. Len(stream') <= MaxSeq
    BY <2>1, <2>2, Constants
  <2> QED
    BY <1>2, <2>2, <2>4, <2>5
       DEF Publish, SessionTypeOK, StoreTypeOK, storeVars, client
<1>3. CASE Beat
  <2>1. [type |-> "heartbeat", seq |-> Len(stream), count |-> 0, flat |-> TRUE] \in Frame
    BY <1>0, Constants, LenProperties DEF Frame, Kind
  <2>2. wire' \in Seq(Frame)
    BY <1>3, <2>1 DEF Beat
  <2> QED
    BY <1>3, <2>2 DEF Beat, SessionTypeOK, StoreTypeOK, storeVars, client
<1>4. CASE Close \/ StopListener
  <2>1. wire' = <<>> /\ open' = FALSE /\ (paused' = paused \/ paused' = TRUE)
    BY <1>4 DEF Close, StopListener
  <2>2. wire' \in Seq(Frame)
    BY <2>1
  <2> QED
    BY <1>4, <2>1, <2>2
       DEF Close, StopListener, SessionTypeOK, StoreTypeOK, storeVars, client
<1>5. CASE Hello
  <2>1. Received("hello")
    BY <1>5 DEF Hello
  <2>2. wire' \in Seq(Frame) /\ Head(wire) \in Frame
    BY <1>0, <2>1, Taken
  <2>3. tracker' = [hello |-> TRUE, expected |-> Head(wire).count, done |-> 0,
                    last |-> Head(wire).seq]
    BY <1>5 DEF Hello, ProcessHello
  <2>4. tracker' \in Tracker
    BY <2>2, <2>3 DEF Tracker, Frame
  <2>5. paused' \in BOOLEAN /\ matched' \in {"NotChecked", "Matched", "Mismatched"}
    BY <1>5 DEF Hello, RequestResume, Reconcile
  <2> QED
    BY <1>5, <2>2, <2>4, <2>5 DEF Hello, SessionTypeOK, StoreTypeOK, storeVars
<1>6. CASE Heartbeat
  <2>1. Received("heartbeat")
    BY <1>6 DEF Heartbeat
  <2>2. wire' \in Seq(Frame) /\ Head(wire) \in Frame
    BY <1>0, <2>1, Taken
  <2>3. Head(wire).seq \in SeqNo
    BY <2>2 DEF Frame
  <2>4. StoreTypeOK'
    BY <1>6, <2>3, Constants
       DEF Heartbeat, MarkSeqProcessed, SessionTypeOK, StoreTypeOK, storeVars
  <2>5. paused' \in BOOLEAN /\ resumed' \in BOOLEAN
    BY <1>6 DEF Heartbeat, RequestResume, SessionTypeOK
  <2>6. age' \in 0 .. Oldest \cup {NoBeat}
    BY <1>6, Constants DEF Heartbeat
  <2> QED
    BY <1>6, <2>2, <2>4, <2>5, <2>6 DEF Heartbeat, SessionTypeOK
<1>7. CASE Lifecycle
  <2>1. Received("event")
    BY <1>7 DEF Lifecycle
  <2>2. wire' \in Seq(Frame) /\ Head(wire) \in Frame
    BY <1>0, <2>1, Taken
  <2>3. Head(wire).seq \in SeqNo
    BY <2>2 DEF Frame
  <2>4. tracker' = Count(Head(wire).seq)
    BY <1>7 DEF Lifecycle
  <2>5. tracker' \in Tracker
    BY <2>4 DEF Count, SessionTypeOK, Tracker
  <2>6. StoreTypeOK'
    <3>1. CASE CheckAndMarkEventWithSeq(Head(wire).seq, Head(wire).seq)
      <4>1. /\ processed' = processed \cup {Head(wire).seq} /\ cursor' = Head(wire).seq
            /\ accepted' = accepted \cup {<<Head(wire).seq, Head(wire).seq>>}
        BY <3>1 DEF CheckAndMarkEventWithSeq
      <4>2. processed' \subseteq Event /\ cursor' \in SeqNo \cup {NoSeq}
        BY <2>3, <4>1, Constants DEF SessionTypeOK, StoreTypeOK
      <4>3. <<Head(wire).seq, Head(wire).seq>> \in Event \X SeqNo
        BY <2>3, Constants
      <4>4. accepted' \subseteq Event \X SeqNo
        BY <4>1, <4>3 DEF SessionTypeOK, StoreTypeOK
      <4> QED
        BY <4>2, <4>4 DEF StoreTypeOK
    <3>2. CASE UNCHANGED storeVars
      BY <3>2 DEF SessionTypeOK, StoreTypeOK, storeVars
    <3> QED
      BY <1>7, <3>1, <3>2 DEF Lifecycle, storeVars
  <2>7. \A a \in approved' : a \in [seq : SeqNo, last : SeqNo]
    <3>1. [seq |-> Head(wire).seq, last |-> tracker.last] \in [seq : SeqNo, last : SeqNo]
      BY <2>3 DEF SessionTypeOK, Tracker
    <3>2. approved' \subseteq approved \cup {[seq |-> Head(wire).seq, last |-> tracker.last]}
      BY <1>7 DEF Lifecycle
    <3> QED
      BY <3>1, <3>2 DEF SessionTypeOK
  <2> QED
    BY <1>7, <2>2, <2>5, <2>6, <2>7 DEF Lifecycle, SessionTypeOK
<1>8. CASE Tick \/ Check \/ HeartbeatTimeout
  <2>1. watch' \in Watch
    <3>0. watch.on \in BOOLEAN /\ watch.since \in 0 .. Oldest /\ watch.nap \in 0 .. Interval
      BY DEF SessionTypeOK, Watch
    <3>1. CASE Tick
      <4> DEFINE n == IF watch.since < Oldest THEN watch.since + 1 ELSE watch.since
      <4>0. /\ watch \in [on : BOOLEAN, since : 0 .. Oldest, nap : 0 .. Interval]
            /\ watch' = [watch EXCEPT !.nap = @ - 1,
                                      !.since = IF @ < Oldest THEN @ + 1 ELSE @]
        BY <3>1 DEF Tick, SessionTypeOK, Watch
      <4>1. watch' = [on |-> watch.on, since |-> n, nap |-> watch.nap - 1]
        BY <4>0
      <4>2. n \in 0 .. Oldest
        BY <3>0, Constants
      <4>3. watch.nap - 1 \in 0 .. Interval
        BY <3>0, <3>1, Constants DEF Tick
      <4> QED
        BY <3>0, <4>1, <4>2, <4>3 DEF Watch
    <3>2. CASE Check
      <4>1. watch' = [watch EXCEPT !.nap = Interval] /\ Interval \in 0 .. Interval
        BY <3>2, Constants DEF Check
      <4> QED
        BY <4>1 DEF SessionTypeOK, Watch
    <3>3. CASE HeartbeatTimeout
      BY <3>3 DEF HeartbeatTimeout, SessionTypeOK, Watch
    <3> QED
      BY <1>8, <3>1, <3>2, <3>3
  <2>2. age' \in 0 .. Oldest \cup {NoBeat}
    BY <1>8, Constants DEF Tick, Check, HeartbeatTimeout, SessionTypeOK
  <2>3. paused' \in BOOLEAN
    BY <1>8 DEF Tick, Check, HeartbeatTimeout, SessionTypeOK
  <2> QED
    BY <1>8, <2>1, <2>2, <2>3
       DEF Tick, Check, HeartbeatTimeout, SessionTypeOK, StoreTypeOK, storeVars, client
<1> QED
  BY <1>1, <1>2, <1>3, <1>4, <1>5, <1>6, <1>7, <1>8 DEF SessionNext

-----------------------------------------------------------------------------
(* The watchdog.                                                           *)

LEMMA FreshStep == SessionTypeOK /\ FreshInv /\ SessionNext => FreshInv'
<1> SUFFICES ASSUME SessionTypeOK, FreshInv, SessionNext, open', ~ paused'
             PROVE  /\ age' # NoBeat /\ age' <= Timeout + Interval
                    /\ watch'.on => age' + watch'.nap <= Timeout + Interval
  BY DEF FreshInv
<1>0. /\ watch.on \in BOOLEAN /\ watch.nap \in 0 .. Interval
      /\ age \in Int /\ age <= Oldest
  BY Constants DEF SessionTypeOK, Watch
<1>1. CASE Connect \/ Close \/ StopListener \/ HeartbeatTimeout
  BY <1>1 DEF Connect, Close, StopListener, HeartbeatTimeout
<1>2. CASE (\E k \in Kind : Publish(k)) \/ Beat \/ Lifecycle
  <2>1. UNCHANGED <<open, paused, age, watch>>
    BY <1>2 DEF Publish, Beat, Lifecycle
  <2> QED
    BY <2>1 DEF FreshInv
<1>3. CASE Hello
  <2>1. Healthy(age) /\ UNCHANGED <<age, watch>>
    BY <1>3 DEF Hello, RequestResume, Ready
  <2>2. age # NoBeat /\ age <= Timeout
    BY <2>1 DEF Healthy
  <2> QED
    BY <1>0, <2>1, <2>2, Constants
<1>4. CASE Heartbeat
  <2>1. age' = 0 /\ watch' = watch
    BY <1>4 DEF Heartbeat
  <2> QED
    BY <1>0, <2>1, Constants
<1>5. CASE Tick
  <2>1. open /\ ~ paused /\ watch.on /\ watch.nap > 0
    BY <1>5 DEF Tick
  <2>2. age # NoBeat /\ age + watch.nap <= Timeout + Interval
    BY <2>1 DEF FreshInv
  <2>3. age' = IF age < Oldest THEN age + 1 ELSE age
    BY <1>5, <2>2 DEF Tick
  <2>4. watch'.nap = watch.nap - 1
    BY <1>5 DEF Tick, SessionTypeOK, Watch
  <2>5. age >= 0
    BY <2>2, Constants DEF SessionTypeOK
  <2> QED
    BY <1>0, <2>1, <2>2, <2>3, <2>4, <2>5, Constants
<1>6. CASE Check
  <2>1. open /\ ~ paused /\ ~ Stale /\ age' = age
    BY <1>6 DEF Check
  <2>2. watch'.nap = Interval
    BY <1>6 DEF Check, SessionTypeOK, Watch
  <2>3. age # NoBeat
    BY <2>1 DEF FreshInv
  <2>4. age <= Timeout
    BY <2>1, <2>3 DEF Stale, Healthy
  <2> QED
    BY <1>0, <2>1, <2>2, <2>3, <2>4, Constants
<1> QED
  BY <1>1, <1>2, <1>3, <1>4, <1>5, <1>6 DEF SessionNext

-----------------------------------------------------------------------------
(* The wire.                                                               *)

\* What holds of the wire holds of what is left of it.
LEMMA TakenInv ==
    ASSUME SessionTypeOK, WireInv, NEW type, Received(type), UNCHANGED <<open, stream>>,
           tracker'.hello
    PROVE  WireInv'
<1>1. /\ open /\ \A i \in 1 .. Len(wire') : wire'[i] = wire[i + 1]
      /\ Len(wire') = Len(wire) - 1 /\ Len(wire) \in Nat
  BY Taken DEF SessionTypeOK
<1>2. ASSUME NEW i \in 1 .. Len(wire')
      PROVE  /\ wire'[i].seq <= Len(stream')
             /\ wire'[i].type # "hello"
             /\ wire'[i].type = "event" => wire'[i].seq >= 1 /\ stream'[wire'[i].seq] = "event"
  <2>1. i + 1 \in 1 .. Len(wire) /\ i + 1 # 1 /\ wire'[i] = wire[i + 1]
    BY <1>1
  <2> QED
    BY <2>1 DEF WireInv
<1>3. ASSUME NEW i \in 1 .. Len(wire'), NEW j \in 1 .. Len(wire'), i < j,
             wire'[i].type # "hello", wire'[j].type = "event"
      PROVE  wire'[i].seq < wire'[j].seq
  <2>1. /\ i + 1 \in 1 .. Len(wire) /\ j + 1 \in 1 .. Len(wire) /\ i + 1 < j + 1
        /\ wire'[i] = wire[i + 1] /\ wire'[j] = wire[j + 1]
    BY <1>1, <1>3
  <2> QED
    BY <1>3, <2>1 DEF WireInv
<1>4. open'
  BY <1>1
<1> QED
  BY <1>2, <1>3, <1>4 DEF WireInv

LEMMA WireStep == SessionTypeOK /\ SessionInv /\ SessionNext => WireInv'
<1> SUFFICES ASSUME SessionTypeOK, SessionInv, SessionNext PROVE WireInv'
  OBVIOUS
<1>0. WireInv /\ wire \in Seq(Frame) /\ stream \in Seq(Kind) /\ Len(stream) <= MaxSeq
  BY DEF SessionTypeOK, SessionInv
<1>len. Len(stream) \in Nat /\ Len(wire) \in Nat
  BY <1>0, LenProperties
<1>1. CASE Connect
  <2>1. PICK flat \in BOOLEAN, h \in Frame :
          /\ Since \in 0 .. Len(stream)
          /\ h = [type |-> "hello", seq |-> Len(stream), count |-> ReplayCount(Since),
                  flat |-> flat]
          /\ wire' = <<h>> \o [i \in 1 .. Len(stream) - Since |-> FrameOf(Since + i)]
    BY <1>1, NewSession
  <2>2. /\ wire' \in Seq(Frame) /\ Len(wire') = Len(stream) - Since + 1
        /\ wire'[1] = h
        /\ \A i \in 2 .. Len(wire') : wire'[i] = FrameOf(Since + i - 1)
    <3>1. Since \in 0 .. Len(stream)
      BY <2>1
    <3>2. wire' = <<h>> \o [i \in 1 .. Len(stream) - Since |-> FrameOf(Since + i)]
      BY <2>1
    <3>3. wire' \in Seq(Frame) /\ Len(wire') = Len(stream) - Since + 1
      BY <1>0, <3>1, <3>2, Replayed
    <3>4. wire'[1] = h
      BY <1>0, <3>1, <3>2, Replayed
    <3>5. \A i \in 2 .. Len(wire') : wire'[i] = FrameOf(Since + i - 1)
      BY <1>0, <3>1, <3>2, Replayed
    <3> QED
      BY <3>3, <3>4, <3>5
  <2>3. open' /\ ~ tracker'.hello /\ stream' = stream
    BY <1>1 DEF Connect, NewTracker
  <2>4. wire'[1].type = "hello" /\ wire'[1].seq = Len(stream) /\ wire' # <<>>
    BY <1>len, <2>1, <2>2, EmptySeq
  <2>5. ASSUME NEW i \in 2 .. Len(wire')
        PROVE  /\ wire'[i].seq = Since + i - 1 /\ wire'[i].seq <= Len(stream)
               /\ wire'[i].seq >= 1 /\ wire'[i].type = stream[wire'[i].seq]
               /\ wire'[i].type # "hello"
    <3>0. wire'[i] = FrameOf(Since + i - 1)
      BY <2>2
    <3>1. wire'[i].seq = Since + i - 1 /\ wire'[i].type = stream[Since + i - 1]
      BY <3>0 DEF FrameOf
    <3>2. Since + i - 1 \in 1 .. Len(stream)
      BY <1>len, <2>1, <2>2
    <3>3. stream[Since + i - 1] \in Kind
      BY <1>0, <3>2, ElementOfSeq
    <3> QED
      BY <1>len, <3>1, <3>2, <3>3 DEF Kind
  <2>6. \A i \in 1 .. Len(wire') :
          /\ wire'[i].seq <= Len(stream')
          /\ wire'[i].type = "hello" => i = 1 /\ ~ tracker'.hello
          /\ wire'[i].type = "event" => wire'[i].seq >= 1 /\ stream'[wire'[i].seq] = "event"
    <3>1. SUFFICES ASSUME NEW i \in 1 .. Len(wire')
                   PROVE  /\ wire'[i].seq <= Len(stream')
                          /\ wire'[i].type = "hello" => i = 1 /\ ~ tracker'.hello
                          /\ wire'[i].type = "event" =>
                                wire'[i].seq >= 1 /\ stream'[wire'[i].seq] = "event"
      OBVIOUS
    <3>2. CASE i = 1
      BY <1>len, <2>3, <2>4, <3>2
    <3>3. CASE i # 1
      <4>1. i \in 2 .. Len(wire')
        BY <1>len, <2>1, <2>2, <3>3
      <4> QED
        BY <2>3, <2>5, <4>1
    <3> QED
      BY <3>2, <3>3
  <2>7. \A i, j \in 1 .. Len(wire') :
          i < j /\ wire'[i].type # "hello" /\ wire'[j].type = "event"
            => wire'[i].seq < wire'[j].seq
    <3>1. SUFFICES ASSUME NEW i \in 1 .. Len(wire'), NEW j \in 1 .. Len(wire'), i < j,
                          wire'[i].type # "hello"
                   PROVE  wire'[i].seq < wire'[j].seq
      OBVIOUS
    <3>2. i # 1
      BY <2>4, <3>1
    <3>3. i \in 2 .. Len(wire') /\ j \in 2 .. Len(wire')
      BY <1>len, <2>1, <2>2, <3>1, <3>2
    <3>4. wire'[i].seq = Since + i - 1 /\ wire'[j].seq = Since + j - 1
      BY <2>5, <3>3
    <3> QED
      BY <2>1, <3>1, <3>3, <3>4, <1>len, <2>2
  <2> QED
    BY <2>3, <2>4, <2>6, <2>7 DEF WireInv
<1>2. ASSUME NEW k \in Kind, Publish(k) PROVE WireInv'
  <2> DEFINE f == [type |-> k, seq |-> Len(stream) + 1, count |-> 0, flat |-> TRUE]
  <2>1. /\ stream' = Append(stream, k) /\ Len(stream) < MaxSeq /\ UNCHANGED <<open, tracker>>
        /\ wire' = IF open THEN Append(wire, f) ELSE wire
    BY <1>2 DEF Publish, client
  <2>2. /\ Len(stream') = Len(stream) + 1 /\ stream'[Len(stream) + 1] = k
        /\ \A s \in 1 .. Len(stream) : stream'[s] = stream[s]
    BY <1>0, <2>1, AppendProperties
  <2>3. f \in Frame
    BY <1>len, <2>1, Constants DEF Frame
  <2>4. CASE ~ open
    <3>1. wire' = <<>> /\ ~ open'
      BY <1>0, <2>1, <2>4 DEF WireInv
    <3> QED
      BY <3>1 DEF WireInv
  <2>5. CASE open
    <3>1. /\ Len(wire') = Len(wire) + 1 /\ wire' # <<>> /\ wire'[Len(wire) + 1] = f
          /\ \A i \in 1 .. Len(wire) : wire'[i] = wire[i]
      BY <1>0, <2>1, <2>3, <2>5, Sent
    <3>2. ~ tracker'.hello => wire'[1].type = "hello"
      <4>1. ~ tracker.hello => Len(wire) >= 1 /\ wire[1].type = "hello"
        BY <1>0, <1>len, <2>5, EmptySeq DEF WireInv
      <4> QED
        BY <1>len, <2>1, <3>1, <4>1
    <3>3. f.seq = Len(stream) + 1 /\ f.type = k /\ f.type # "hello"
      BY DEF Kind
    <3>4. ASSUME NEW i \in 1 .. Len(wire')
          PROVE  /\ wire'[i].seq <= Len(stream')
                 /\ wire'[i].type = "hello" => i = 1 /\ ~ tracker'.hello
                 /\ wire'[i].type = "event" =>
                        wire'[i].seq >= 1 /\ stream'[wire'[i].seq] = "event"
      <4>1. CASE i = Len(wire) + 1
        BY <1>len, <2>2, <3>1, <3>3, <4>1
      <4>2. CASE i # Len(wire) + 1
        <5>1. i \in 1 .. Len(wire) /\ wire'[i] = wire[i]
          BY <1>len, <3>1, <4>2
        <5>2. /\ wire[i].seq <= Len(stream)
              /\ wire[i].type = "hello" => i = 1 /\ ~ tracker.hello
              /\ wire[i].type = "event" =>
                    wire[i].seq >= 1 /\ stream[wire[i].seq] = "event"
          BY <1>0, <5>1 DEF WireInv
        <5>3. wire[i].seq \in Int
          <6>1. wire[i] \in Frame
            BY <1>0, <5>1, ElementOfSeq
          <6> QED
            BY <6>1, Constants DEF Frame
        <5> QED
          BY <1>len, <2>1, <2>2, <5>1, <5>2, <5>3
      <4> QED
        BY <4>1, <4>2
    <3>5. ASSUME NEW i \in 1 .. Len(wire'), NEW j \in 1 .. Len(wire'), i < j,
                 wire'[i].type # "hello", wire'[j].type = "event"
          PROVE  wire'[i].seq < wire'[j].seq
      <4>1. i \in 1 .. Len(wire) /\ wire'[i] = wire[i]
        BY <1>len, <3>1, <3>5
      <4>2. wire[i].seq \in Int /\ wire[i].seq <= Len(stream)
        <5>1. wire[i] \in Frame
          BY <1>0, <4>1, ElementOfSeq
        <5>2. wire[i].seq \in Int
          BY <5>1, Constants DEF Frame
        <5> QED
          BY <1>0, <4>1, <5>2 DEF WireInv
      <4>3. CASE j = Len(wire) + 1
        BY <1>len, <3>1, <3>3, <4>1, <4>2, <4>3
      <4>4. CASE j # Len(wire) + 1
        <5>1. j \in 1 .. Len(wire) /\ wire'[j] = wire[j]
          BY <1>len, <3>1, <4>4
        <5> QED
          BY <1>0, <3>5, <4>1, <5>1 DEF WireInv
      <4> QED
        BY <4>3, <4>4
    <3> QED
      BY <2>1, <2>5, <3>1, <3>2, <3>4, <3>5 DEF WireInv
  <2> QED
    BY <2>4, <2>5
<1>3. CASE Beat
  <2>1. /\ open /\ wire = <<>> /\ UNCHANGED <<open, tracker, stream>>
        /\ wire' = <<[type |-> "heartbeat", seq |-> Len(stream), count |-> 0,
                      flat |-> TRUE]>>
    BY <1>3 DEF Beat, client
  <2>2. tracker.hello
    BY <1>0, <2>1 DEF WireInv
  <2>3. Len(wire') = 1 /\ wire'[1].seq = Len(stream) /\ wire'[1].type = "heartbeat"
    BY <2>1
  <2>4. \A i \in 1 .. Len(wire') : i = 1
    BY <2>3
  <2> QED
    BY <1>len, <2>1, <2>2, <2>3, <2>4 DEF WireInv
<1>4. CASE Close \/ StopListener
  BY <1>4 DEF Close, StopListener, WireInv
<1>5. CASE Hello
  <2>1. Received("hello") /\ UNCHANGED <<open, stream>>
    BY <1>5 DEF Hello
  <2>2. tracker'.hello
    BY <1>5 DEF Hello, ProcessHello
  <2> QED
    BY <1>0, <2>1, <2>2, TakenInv
<1>6. CASE Heartbeat \/ Lifecycle
  <2>1. PICK type \in Kind : Received(type) /\ UNCHANGED <<open, stream>>
    BY <1>6 DEF Heartbeat, Lifecycle, Kind
  <2>2. wire[1].type # "hello" /\ open
    BY <1>0, <2>1, Taken DEF Kind
  <2>3. tracker.hello
    BY <1>0, <2>2 DEF WireInv
  <2>4. tracker'.hello = tracker.hello
    BY <1>6 DEF Heartbeat, Lifecycle, Count, SessionTypeOK, Tracker
  <2> QED
    BY <1>0, <2>1, <2>3, <2>4, TakenInv
<1>7. CASE Tick \/ Check \/ HeartbeatTimeout
  BY <1>0, <1>7 DEF Tick, Check, HeartbeatTimeout, client, WireInv
<1> QED
  BY <1>1, <1>2, <1>3, <1>4, <1>5, <1>6, <1>7 DEF SessionNext

-----------------------------------------------------------------------------
(* What is consumed.                                                       *)

LEMMA Frames ==
    ASSUME SessionTypeOK, NEW i \in 1 .. Len(wire)
    PROVE  wire[i].seq \in 0 .. MaxSeq
<1>1. wire[i] \in Frame
  BY ElementOfSeq DEF SessionTypeOK
<1> QED
  BY <1>1, Constants DEF Frame

\* The events on the wire, before and after its head is taken.
LEMMA Shift ==
    ASSUME SessionTypeOK, WireInv, NEW type, Received(type)
    PROVE  /\ \A s : OnWire(s)' => OnWire(s)
           /\ \A s : OnWire(s) => OnWire(s)' \/ (type = "event" /\ s = wire[1].seq)
           /\ type = "event" => OnWire(wire[1].seq)
           /\ type # "hello" => \A s : OnWire(s)' => wire[1].seq < s
<1>1. /\ Len(wire) \in Nat /\ Len(wire) >= 1 /\ wire[1].type = type
      /\ Len(wire') = Len(wire) - 1 /\ \A i \in 1 .. Len(wire') : wire'[i] = wire[i + 1]
  BY Taken DEF SessionTypeOK
<1>2. ASSUME NEW s, OnWire(s)'
      PROVE  OnWire(s) /\ (type # "hello" => wire[1].seq < s)
  <2>1. PICK i \in 1 .. Len(wire') : wire'[i].type = "event" /\ wire'[i].seq = s
    BY <1>2 DEF OnWire
  <2>2. /\ i + 1 \in 1 .. Len(wire) /\ 1 \in 1 .. Len(wire) /\ 1 < i + 1
        /\ wire[i + 1].type = "event" /\ wire[i + 1].seq = s
    BY <1>1, <2>1
  <2>3. type # "hello" => wire[1].seq < wire[i + 1].seq
    BY <1>1, <2>2 DEF WireInv
  <2> QED
    BY <2>2, <2>3 DEF OnWire
<1>3. ASSUME NEW s, OnWire(s) PROVE OnWire(s)' \/ (type = "event" /\ s = wire[1].seq)
  <2>1. PICK i \in 1 .. Len(wire) : wire[i].type = "event" /\ wire[i].seq = s
    BY <1>3 DEF OnWire
  <2>2. CASE i = 1
    BY <1>1, <2>1, <2>2
  <2>3. CASE i # 1
    <3>1. i - 1 \in 1 .. Len(wire') /\ wire'[i - 1] = wire[(i - 1) + 1] /\ (i - 1) + 1 = i
      BY <1>1, <2>3
    <3>2. wire'[i - 1].type = "event" /\ wire'[i - 1].seq = s
      BY <2>1, <3>1
    <3> QED
      BY <3>1, <3>2 DEF OnWire
  <2> QED
    BY <2>2, <2>3
<1>4. type = "event" => OnWire(wire[1].seq)
  BY <1>1 DEF OnWire
<1> QED
  BY <1>2, <1>3, <1>4

\* The events on the wire of a new session: those after the requested number.
LEMMA Requested ==
    ASSUME SessionTypeOK, SessionInv, Connect
    PROVE  /\ wire'[1].seq = Len(stream) /\ wire'[1].count = ReplayCount(Since)
           /\ Since \in 0 .. Len(stream) /\ \A s \in 1 .. Since : s <= cursor
           /\ \A s \in 1 .. Len(stream) :
                OnWire(s)' <=> s \in Since + 1 .. Len(stream) /\ stream[s] = "event"
<1>0. stream \in Seq(Kind) /\ Len(stream) <= MaxSeq /\ Len(stream) \in Nat
  BY LenProperties DEF SessionTypeOK
<1>1. PICK flat \in BOOLEAN, h \in Frame :
        /\ Since \in 0 .. Len(stream) /\ \A s \in 1 .. Since : s <= cursor
        /\ h = [type |-> "hello", seq |-> Len(stream), count |-> ReplayCount(Since),
                flat |-> flat]
        /\ wire' = <<h>> \o [i \in 1 .. Len(stream) - Since |-> FrameOf(Since + i)]
  BY NewSession
<1>2. Since \in 0 .. Len(stream)
  BY <1>1
<1>3. wire' = <<h>> \o [i \in 1 .. Len(stream) - Since |-> FrameOf(Since + i)]
  BY <1>1
<1>4. Len(wire') = Len(stream) - Since + 1 /\ wire'[1] = h
  BY <1>0, <1>2, <1>3, Replayed
<1>5. \A i \in 2 .. Len(wire') : wire'[i] = FrameOf(Since + i - 1)
  BY <1>0, <1>2, <1>3, Replayed
<1>6. wire'[1].seq = Len(stream) /\ wire'[1].count = ReplayCount(Since)
      /\ wire'[1].type = "hello"
  BY <1>1, <1>4
<1>7. ASSUME NEW s \in 1 .. Len(stream), OnWire(s)'
      PROVE  s \in Since + 1 .. Len(stream) /\ stream[s] = "event"
  <2>1. PICK i \in 1 .. Len(wire') : wire'[i].type = "event" /\ wire'[i].seq = s
    BY <1>7 DEF OnWire
  <2>2. i \in 2 .. Len(wire')
    BY <1>0, <1>2, <1>4, <1>6, <2>1
  <2>3. wire'[i] = FrameOf(Since + i - 1)
    BY <1>5, <2>2
  <2>4. s = Since + i - 1 /\ stream[s] = "event"
    BY <2>1, <2>3 DEF FrameOf
  <2> QED
    BY <1>0, <1>2, <1>4, <2>2, <2>4
<1>8. ASSUME NEW s \in Since + 1 .. Len(stream), stream[s] = "event" PROVE OnWire(s)'
  <2> DEFINE i == s - Since + 1
  <2>1. i \in 2 .. Len(wire') /\ i \in 1 .. Len(wire') /\ Since + i - 1 = s
    BY <1>0, <1>2, <1>4
  <2>2. wire'[i] = FrameOf(s)
    <3> HIDE DEF i
    <3> QED
      BY <1>5, <2>1
  <2>3. wire'[i].type = "event" /\ wire'[i].seq = s
    BY <1>8, <2>2 DEF FrameOf
  <2> HIDE DEF i
  <2> QED
    BY <2>1, <2>3 DEF OnWire
<1> QED
  BY <1>1, <1>6, <1>7, <1>8

\* A frame at the end of the wire of an open session.
LEMMA Added ==
    ASSUME SessionTypeOK, SessionInv, NEW k \in Kind, Publish(k), open
    PROVE  /\ \A s \in 1 .. Len(stream) : OnWire(s)' <=> OnWire(s)
           /\ \A s : s = Len(stream) + 1 /\ k = "event" => OnWire(s)'
           /\ wire # <<>> => wire'[1] = wire[1]
<1> DEFINE f == [type |-> k, seq |-> Len(stream) + 1, count |-> 0, flat |-> TRUE]
<1>0. Len(stream) \in Nat /\ Len(stream) < MaxSeq /\ wire' = Append(wire, f)
      /\ wire \in Seq(Frame)
  BY LenProperties DEF SessionTypeOK, Publish
<1>1. f \in Frame /\ f.seq = Len(stream) + 1 /\ f.type = k
  BY <1>0, Constants DEF Frame
<1>2. /\ Len(wire') = Len(wire) + 1 /\ Len(wire) \in Nat
      /\ wire'[Len(wire) + 1] = f /\ \A i \in 1 .. Len(wire) : wire'[i] = wire[i]
  BY <1>0, <1>1, Sent
<1>3. ASSUME NEW s \in 1 .. Len(stream), OnWire(s)' PROVE OnWire(s)
  <2>1. PICK i \in 1 .. Len(wire') : wire'[i].type = "event" /\ wire'[i].seq = s
    BY <1>3 DEF OnWire
  <2>2. i # Len(wire) + 1
    BY <1>0, <1>1, <1>2, <2>1
  <2>3. i \in 1 .. Len(wire) /\ wire'[i] = wire[i]
    BY <1>2, <2>2
  <2> QED
    BY <2>1, <2>3 DEF OnWire
<1>4. ASSUME NEW s \in 1 .. Len(stream), OnWire(s) PROVE OnWire(s)'
  <2>1. PICK i \in 1 .. Len(wire) : wire[i].type = "event" /\ wire[i].seq = s
    BY <1>4 DEF OnWire
  <2>2. i \in 1 .. Len(wire') /\ wire'[i] = wire[i]
    BY <1>2
  <2> QED
    BY <2>1, <2>2 DEF OnWire
<1>5. ASSUME NEW s, s = Len(stream) + 1, k = "event" PROVE OnWire(s)'
  BY <1>1, <1>2, <1>5 DEF OnWire
<1>6. wire # <<>> => wire'[1] = wire[1]
  BY <1>0, <1>2, EmptySeq
<1> QED
  BY <1>3, <1>4, <1>5, <1>6

LEMMA WaitStep == SessionTypeOK /\ SessionInv /\ SessionNext => WaitInv' /\ NothingMissed'
<1> SUFFICES ASSUME SessionTypeOK, SessionInv, SessionNext
             PROVE  WaitInv' /\ NothingMissed'
  OBVIOUS
<1>0. /\ WireInv /\ WaitInv /\ NothingMissed
      /\ stream \in Seq(Kind) /\ Len(stream) \in Nat /\ Len(stream) <= MaxSeq
      /\ cursor \in Int
  BY Constants, LenProperties DEF SessionTypeOK, StoreTypeOK, SessionInv
<1>1. CASE Connect
  <2>1. /\ UNCHANGED <<storeVars, stream>> /\ Since \in 0 .. Len(stream)
        /\ \A s \in 1 .. Since : s <= cursor
        /\ \A s \in 1 .. Len(stream) :
              OnWire(s)' <=> s \in Since + 1 .. Len(stream) /\ stream[s] = "event"
    BY <1>1, Requested DEF Connect
  <2>2. NothingMissed' /\ cursor' <= Len(stream')
    BY <1>0, <2>1 DEF NothingMissed, WaitInv, storeVars
  <2>3. ASSUME NEW s \in 1 .. Len(stream), stream[s] = "event"
        PROVE  s \in processed \/ OnWire(s)'
    <3>1. CASE s \in 1 .. Since
      BY <1>0, <2>1, <2>3, <3>1 DEF NothingMissed
    <3>2. CASE s \notin 1 .. Since
      <4>1. s \in Since + 1 .. Len(stream)
        BY <1>0, <2>1, <3>2
      <4> QED
        BY <2>1, <2>3, <4>1
    <3> QED
      BY <3>1, <3>2
  <2> QED
    BY <2>1, <2>2, <2>3 DEF WaitInv, storeVars
<1>2. ASSUME NEW k \in Kind, Publish(k) PROVE WaitInv' /\ NothingMissed'
  <2>1. /\ stream' = Append(stream, k) /\ UNCHANGED <<storeVars, open>>
    BY <1>2 DEF Publish
  <2>2. /\ Len(stream') = Len(stream) + 1 /\ stream'[Len(stream) + 1] = k
        /\ \A s \in 1 .. Len(stream) : stream'[s] = stream[s]
    BY <1>0, <2>1, AppendProperties
  <2>3. cursor' = cursor /\ processed' = processed /\ cursor <= Len(stream)
    BY <1>0, <2>1 DEF WaitInv, storeVars
  <2>4. ASSUME NEW s \in 1 .. Len(stream'), stream'[s] = "event", s <= cursor'
        PROVE  s \in processed'
    <3>1. s \in 1 .. Len(stream) /\ stream[s] = "event"
      BY <1>0, <2>2, <2>3, <2>4
    <3> QED
      BY <1>0, <2>3, <2>4, <3>1 DEF NothingMissed
  <2>5. ASSUME open', NEW s \in 1 .. Len(stream'), stream'[s] = "event"
        PROVE  s \in processed' \/ OnWire(s)'
    <3>1. open
      BY <2>1, <2>5
    <3>2. CASE s = Len(stream) + 1
      BY <1>2, <2>2, <2>5, <3>1, <3>2, Added
    <3>3. CASE s # Len(stream) + 1
      <4>1. s \in 1 .. Len(stream) /\ stream[s] = "event"
        BY <1>0, <2>2, <2>5, <3>3
      <4>2. s \in processed \/ OnWire(s)
        BY <1>0, <3>1, <4>1 DEF WaitInv
      <4> QED
        BY <1>2, <2>3, <3>1, <4>1, <4>2, Added
    <3> QED
      BY <3>2, <3>3
  <2>6. cursor' <= Len(stream')
    BY <1>0, <2>2, <2>3
  <2> QED
    BY <2>4, <2>5, <2>6 DEF WaitInv, NothingMissed
<1>3. CASE Beat
  <2>1. open /\ wire = <<>> /\ UNCHANGED <<storeVars, stream>>
    BY <1>3 DEF Beat
  <2>2. \A s : ~ OnWire(s)
    BY <2>1 DEF OnWire
  <2>3. \A s \in 1 .. Len(stream) : stream[s] = "event" => s \in processed
    BY <1>0, <2>1, <2>2 DEF WaitInv
  <2> QED
    BY <1>0, <2>1, <2>3 DEF WaitInv, NothingMissed, storeVars
<1>4. CASE Close \/ StopListener
  <2>1. ~ open' /\ UNCHANGED <<storeVars, stream>>
    BY <1>4 DEF Close, StopListener
  <2> QED
    BY <1>0, <2>1 DEF WaitInv, NothingMissed, storeVars
<1>5. CASE Hello
  <2>1. Received("hello") /\ UNCHANGED <<storeVars, stream, open>>
    BY <1>5 DEF Hello
  <2>2. \A s : OnWire(s) => OnWire(s)'
    BY <1>0, <2>1, Shift
  <2> QED
    BY <1>0, <2>1, <2>2 DEF WaitInv, NothingMissed, storeVars
<1>6. CASE Heartbeat
  <2> DEFINE h == wire[1].seq
  <2>1. Received("heartbeat") /\ UNCHANGED <<stream, open>>
    BY <1>6 DEF Heartbeat
  <2>2. open /\ Head(wire) = wire[1] /\ 1 \in 1 .. Len(wire)
    BY <1>0, <2>1, Taken DEF SessionTypeOK
  <2>3. processed' = processed /\ (cursor' = h \/ cursor' = cursor)
    BY <1>6, <2>2 DEF Heartbeat, MarkSeqProcessed, storeVars
  <2>4. h <= Len(stream) /\ h \in Int
    BY <1>0, <2>2, Frames, Constants DEF WireInv
  <2> HIDE DEF h
  <2>5. \A s : OnWire(s) => OnWire(s)' /\ h < s
    BY <1>0, <2>1, Shift DEF h
  <2>6. ASSUME NEW s \in 1 .. Len(stream), stream[s] = "event", s <= cursor'
        PROVE  s \in processed
    <3>1. CASE cursor' = cursor
      BY <1>0, <2>6, <3>1 DEF NothingMissed
    <3>2. CASE cursor' = h
      <4>1. ~ OnWire(s)
        BY <2>4, <2>5, <2>6, <3>2
      <4> QED
        BY <1>0, <2>2, <2>6, <4>1 DEF WaitInv
    <3> QED
      BY <2>3, <3>1, <3>2
  <2>7. NothingMissed'
    BY <2>1, <2>3, <2>6 DEF NothingMissed
  <2>8. cursor' <= Len(stream)
    BY <1>0, <2>3, <2>4 DEF WaitInv
  <2> QED
    BY <1>0, <2>1, <2>2, <2>3, <2>5, <2>7, <2>8 DEF WaitInv
<1>7. CASE Lifecycle
  <2> DEFINE h == wire[1].seq
  <2>1. Received("event") /\ UNCHANGED <<stream, open>>
    BY <1>7 DEF Lifecycle
  <2>2. open /\ Head(wire) = wire[1] /\ 1 \in 1 .. Len(wire) /\ wire[1].type = "event"
    BY <1>0, <2>1, Taken DEF SessionTypeOK
  <2>3. h \in 1 .. Len(stream) /\ stream[h] = "event"
    BY <1>0, <2>2, Frames, Constants DEF WireInv
  <2>4. \/ processed' = processed \cup {h} /\ cursor' = h
        \/ Eligibility(h, h) # "ACCEPTED" /\ processed' = processed /\ cursor' = cursor
    BY <1>7, <2>2 DEF Lifecycle, CheckAndMarkEventWithSeq, storeVars
  <2> HIDE DEF h
  <2>5. h \in processed'
    <3>1. CASE h \in processed
      BY <2>4, <3>1
    <3>2. CASE h \notin processed /\ h <= cursor
      BY <1>0, <2>3, <3>2 DEF NothingMissed
    <3>3. CASE h \notin processed /\ ~ h <= cursor
      BY <2>4, <3>3 DEF Eligibility
    <3> QED
      BY <3>1, <3>2, <3>3
  <2>6. \A s : OnWire(s) => (OnWire(s)' /\ h < s) \/ s = h
    BY <1>0, <2>1, Shift DEF h
  <2>7. ASSUME NEW s \in 1 .. Len(stream), stream[s] = "event", s <= cursor'
        PROVE  s \in processed'
    <3>1. CASE cursor' = cursor
      BY <1>0, <2>4, <2>7, <3>1 DEF NothingMissed
    <3>2. CASE cursor' = h
      <4>1. s = h \/ ~ OnWire(s)
        BY <2>3, <2>6, <2>7, <3>2
      <4>2. s = h \/ s \in processed
        BY <1>0, <2>2, <2>7, <4>1 DEF WaitInv
      <4> QED
        BY <2>4, <2>5, <4>2
    <3> QED
      BY <2>4, <3>1, <3>2
  <2>8. NothingMissed'
    BY <2>1, <2>7 DEF NothingMissed
  <2>9. cursor' <= Len(stream)
    BY <1>0, <2>3, <2>4 DEF WaitInv
  <2>10. \A s \in 1 .. Len(stream) :
            stream[s] = "event" => s \in processed' \/ OnWire(s)'
    BY <1>0, <2>2, <2>4, <2>5, <2>6 DEF WaitInv
  <2> QED
    BY <2>1, <2>8, <2>9, <2>10 DEF WaitInv
<1>8. CASE Tick \/ Check \/ HeartbeatTimeout
  <2>1. UNCHANGED <<storeVars, stream, open, wire>>
    BY <1>8 DEF Tick, Check, HeartbeatTimeout
  <2> QED
    BY <1>0, <2>1 DEF WaitInv, NothingMissed, OnWire, storeVars
<1> QED
  BY <1>1, <1>2, <1>3, <1>4, <1>5, <1>6, <1>7, <1>8 DEF SessionNext

-----------------------------------------------------------------------------
(* The announced replay.                                                   *)

LEMMA Pending ==
    ASSUME NEW n \in Nat
    PROVE  LET P == {s \in 1 .. n : OnWire(s)}
           IN  IsFiniteSet(P) /\ Cardinality(P) \in Nat /\ (Cardinality(P) = 0 <=> P = {})
<1>1. IsFiniteSet(1 .. n)
  BY FS_Interval
<1>2. IsFiniteSet({s \in 1 .. n : OnWire(s)})
  BY <1>1, FS_Subset
<1> QED
  BY <1>2, FS_CardinalityType, FS_EmptySet

\* Of a complete replay nothing is on the wire.
LEMMA Drained ==
    ASSUME SessionTypeOK, CountInv, open, Complete(tracker)
    PROVE  \A s \in 1 .. tracker.last : ~ OnWire(s)
<1>1. tracker.hello /\ tracker.done >= tracker.expected
  BY DEF Complete
<1>2. tracker.done \in Nat /\ tracker.expected \in Nat /\ tracker.last \in Nat
  BY Constants DEF SessionTypeOK, Tracker
<1>3. Cardinality({s \in 1 .. tracker.last : OnWire(s)}) = 0
  BY <1>1, <1>2 DEF CountInv
<1> QED
  BY <1>2, <1>3, Pending

LEMMA CountStep == SessionTypeOK /\ SessionInv /\ SessionNext => CountInv'
<1> SUFFICES ASSUME SessionTypeOK, SessionInv, SessionNext PROVE CountInv'
  OBVIOUS
<1>0. /\ WireInv /\ CountInv
      /\ stream \in Seq(Kind) /\ Len(stream) \in Nat /\ Len(stream) <= MaxSeq
      /\ tracker.done \in Nat /\ tracker.expected \in Nat /\ tracker.last \in Nat
      /\ tracker.hello \in BOOLEAN
  BY Constants, LenProperties DEF SessionTypeOK, Tracker, SessionInv
<1>1. CASE Connect
  <2>1. /\ wire'[1].seq = Len(stream) /\ wire'[1].count = ReplayCount(Since)
        /\ Since \in 0 .. Len(stream)
        /\ \A s \in 1 .. Len(stream) :
              OnWire(s)' <=> s \in Since + 1 .. Len(stream) /\ stream[s] = "event"
    BY <1>1, Requested
  <2>2. {s \in 1 .. Len(stream) : OnWire(s)'}
          = {s \in Since + 1 .. Len(stream) : stream[s] = "event"}
    <3>1. \A s \in Since + 1 .. Len(stream) : s \in 1 .. Len(stream)
      BY <1>0, <2>1
    <3> QED
      BY <2>1, <3>1
  <2>3. tracker' = NewTracker /\ stream' = stream
    BY <1>1 DEF Connect
  <2>4. ~ tracker'.hello /\ tracker'.last <= Len(stream')
    BY <1>0, <2>3 DEF NewTracker
  <2>5. Cardinality({s \in 1 .. wire'[1].seq : OnWire(s)'}) = wire'[1].count
    BY <2>1, <2>2 DEF ReplayCount
  <2> QED
    BY <2>4, <2>5 DEF CountInv
<1>2. ASSUME NEW k \in Kind, Publish(k) PROVE CountInv'
  <2>1. UNCHANGED <<open, tracker>> /\ Len(stream') = Len(stream) + 1
    BY <1>0, <1>2, AppendProperties DEF Publish, client
  <2>2. tracker'.last <= Len(stream')
    BY <1>0, <2>1 DEF CountInv
  <2>3. ASSUME open, NEW n \in 0 .. Len(stream)
        PROVE  {s \in 1 .. n : OnWire(s)'} = {s \in 1 .. n : OnWire(s)}
    <3>1. \A s \in 1 .. n : s \in 1 .. Len(stream)
      BY <1>0
    <3> QED
      BY <1>2, <2>3, <3>1, Added
  <2>4. ASSUME open, ~ tracker.hello
        PROVE  Cardinality({s \in 1 .. wire'[1].seq : OnWire(s)'}) = wire'[1].count
    <3>1. wire # <<>> /\ wire \in Seq(Frame)
      BY <1>0, <2>4 DEF WireInv, SessionTypeOK
    <3>2. 1 \in 1 .. Len(wire)
      BY <3>1, EmptySeq
    <3>3. wire[1].seq \in 0 .. Len(stream)
      BY <1>0, <3>2, Frames, Constants DEF WireInv
    <3>4. wire'[1] = wire[1]
      BY <1>2, <2>4, <3>1, Added
    <3> QED
      BY <1>0, <2>3, <2>4, <3>3, <3>4 DEF CountInv
  <2>5. ASSUME open, tracker.hello
        PROVE  Cardinality({s \in 1 .. tracker.last : OnWire(s)'})
                 = tracker.expected - tracker.done
    <3>1. tracker.last \in 0 .. Len(stream)
      BY <1>0 DEF CountInv
    <3> QED
      BY <1>0, <2>3, <2>5, <3>1 DEF CountInv
  <2> QED
    BY <1>0, <2>1, <2>2, <2>4, <2>5 DEF CountInv
<1>3. CASE Beat
  <2>1. open /\ wire = <<>> /\ UNCHANGED <<open, tracker, stream>>
        /\ wire' = <<[type |-> "heartbeat", seq |-> Len(stream), count |-> 0, flat |-> TRUE]>>
    BY <1>3 DEF Beat, client
  <2>2. tracker.hello
    BY <1>0, <2>1 DEF WireInv
  <2>3. \A s : ~ OnWire(s)
    BY <2>1 DEF OnWire
  <2>4. \A s : ~ OnWire(s)'
    BY <2>1 DEF OnWire
  <2>5. {s \in 1 .. tracker.last : OnWire(s)'} = {s \in 1 .. tracker.last : OnWire(s)}
    BY <2>3, <2>4
  <2> QED
    BY <1>0, <2>1, <2>2, <2>5 DEF CountInv
<1>4. CASE Close \/ StopListener
  BY <1>0, <1>4 DEF Close, StopListener, client, CountInv
<1>5. CASE Hello
  <2> DEFINE h == wire[1]
  <2>1. Received("hello") /\ UNCHANGED <<stream, open>>
    BY <1>5 DEF Hello
  <2>2. open /\ Head(wire) = h /\ 1 \in 1 .. Len(wire) /\ h.type = "hello"
    BY <1>0, <2>1, Taken DEF SessionTypeOK
  <2>3. tracker' = [hello |-> TRUE, expected |-> h.count, done |-> 0, last |-> h.seq]
    BY <1>5, <2>2 DEF Hello, ProcessHello
  <2>4. ~ tracker.hello /\ h.seq <= Len(stream)
    BY <1>0, <2>2 DEF WireInv
  <2>5. h.count \in Nat
    BY <2>1, Taken DEF SessionTypeOK, Frame
  <2>6. \A s : OnWire(s)' <=> OnWire(s)
    BY <1>0, <2>1, Shift
  <2>7. {s \in 1 .. h.seq : OnWire(s)'} = {s \in 1 .. h.seq : OnWire(s)}
    BY <2>6
  <2>8. Cardinality({s \in 1 .. h.seq : OnWire(s)'}) = h.count
    BY <1>0, <2>2, <2>4, <2>7 DEF CountInv
  <2>9. /\ tracker'.hello /\ tracker'.done = 0 /\ tracker'.expected = h.count
        /\ tracker'.last = h.seq
    BY <2>3
  <2> HIDE DEF h
  <2> QED
    BY <2>1, <2>4, <2>5, <2>8, <2>9 DEF CountInv
<1>6. CASE Heartbeat
  <2>1. Received("heartbeat") /\ UNCHANGED <<stream, open, tracker>>
    BY <1>6 DEF Heartbeat
  <2>2. tracker.hello
    BY <1>0, <2>1, Taken DEF WireInv, SessionTypeOK
  <2>3. \A s : OnWire(s)' <=> OnWire(s)
    BY <1>0, <2>1, Shift
  <2>4. {s \in 1 .. tracker.last : OnWire(s)'} = {s \in 1 .. tracker.last : OnWire(s)}
    BY <2>3
  <2> QED
    BY <1>0, <2>1, <2>2, <2>4 DEF CountInv
<1>7. CASE Lifecycle
  <2> DEFINE h == wire[1].seq
             P == {s \in 1 .. tracker.last : OnWire(s)}
             Q == {s \in 1 .. tracker.last : OnWire(s)'}
  <2>1. Received("event") /\ UNCHANGED <<stream, open>> /\ tracker.hello
    BY <1>7 DEF Lifecycle
  <2>2. open /\ Head(wire) = wire[1] /\ 1 \in 1 .. Len(wire) /\ wire[1].type = "event"
    BY <1>0, <2>1, Taken DEF SessionTypeOK
  <2>3. h \in 1 .. Len(stream) /\ OnWire(h)
    BY <1>0, <2>2, Frames, Constants DEF WireInv, OnWire
  <2>4. tracker' = Count(h)
    BY <1>7, <2>2 DEF Lifecycle
  <2> HIDE DEF h
  <2>5. \A s : OnWire(s) => (OnWire(s)' /\ h < s) \/ s = h
    BY <1>0, <2>1, Shift DEF h
  <2>6. \A s : OnWire(s)' => OnWire(s) /\ h < s
    BY <1>0, <2>1, Shift DEF h
  <2>7. Cardinality(P) = tracker.expected - tracker.done /\ tracker.done <= tracker.expected
    BY <1>0, <2>1, <2>2 DEF CountInv
  <2>8. IsFiniteSet(P) /\ (Cardinality(P) = 0 <=> P = {})
    BY <1>0, Pending
  <2>9. CASE Complete(tracker)
    <3>1. tracker' = tracker
      BY <2>4, <2>9 DEF Count, SessionTypeOK, Tracker
    <3>2. P = {}
      BY <1>0, <2>7, <2>8, <2>9 DEF Complete
    <3>3. Q = P
      BY <2>6, <3>2
    <3>4. Cardinality(Q) = tracker.expected - tracker.done
      BY <2>7, <3>3
    <3> QED
      BY <1>0, <2>1, <2>7, <3>1, <3>4 DEF CountInv
  <2>10. CASE ~ Complete(tracker)
    <3>1. /\ tracker'.done = tracker.done + 1 /\ tracker'.expected = tracker.expected
          /\ tracker'.last = tracker.last /\ tracker'.hello
      BY <2>1, <2>4, <2>10 DEF Count, SessionTypeOK, Tracker
    <3>2. P # {}
      <4>1. tracker.done < tracker.expected
        BY <1>0, <2>1, <2>10 DEF Complete
      <4> HIDE DEF P
      <4> QED
        BY <1>0, <2>7, <2>8, <4>1
    <3>3. h \in P
      <4>1. PICK s \in P : TRUE
        BY <3>2
      <4>2. s \in 1 .. tracker.last /\ (h < s \/ h = s)
        BY <2>5, <4>1
      <4> QED
        BY <1>0, <2>3, <4>2
    <3>4. Q = P \ {h}
      BY <2>3, <2>5, <2>6
    <3>5. Cardinality(Q) = Cardinality(P) - 1
      <4> HIDE DEF P, Q
      <4> QED
        BY <2>8, <3>3, <3>4, FS_RemoveElement
    <3>6. tracker.done + 1 <= tracker.expected
      BY <1>0, <2>1, <2>10 DEF Complete
    <3>7. Cardinality(Q) = tracker'.expected - tracker'.done
      BY <1>0, <2>7, <3>1, <3>5
    <3>8. Cardinality({s \in 1 .. tracker'.last : OnWire(s)'}) = tracker'.expected - tracker'.done
      BY <3>1, <3>7
    <3> QED
      BY <1>0, <2>1, <3>1, <3>6, <3>8 DEF CountInv
  <2> QED
    BY <2>9, <2>10
<1>8. CASE Tick \/ Check \/ HeartbeatTimeout
  <2>1. UNCHANGED <<stream, open, wire, tracker>>
    BY <1>8 DEF Tick, Check, HeartbeatTimeout, client
  <2> QED
    BY <1>0, <2>1 DEF CountInv, OnWire
<1> QED
  BY <1>1, <1>2, <1>3, <1>4, <1>5, <1>6, <1>7, <1>8 DEF SessionNext

LEMMA OpenStep == SessionTypeOK /\ SessionInv /\ SessionNext => OpenInv'
<1> SUFFICES ASSUME SessionTypeOK, SessionInv, SessionNext, open', ~ paused'
             PROVE  Complete(tracker)'
  BY DEF OpenInv
<1>0. OpenInv
  BY DEF SessionInv
<1>1. CASE Connect \/ Close \/ StopListener \/ HeartbeatTimeout
  BY <1>1 DEF Connect, Close, StopListener, HeartbeatTimeout
<1>2. CASE (\E k \in Kind : Publish(k)) \/ Beat \/ Tick \/ Check
  <2>1. UNCHANGED <<open, paused, tracker>>
    BY <1>2 DEF Publish, Beat, Tick, Check, client
  <2> QED
    BY <1>0, <2>1 DEF OpenInv, Complete
<1>3. CASE Hello
  BY <1>3 DEF Hello, RequestResume, Ready, Complete
<1>4. CASE Heartbeat
  BY <1>0, <1>4 DEF Heartbeat, Ready, Complete, OpenInv
<1>5. CASE Lifecycle
  <2>1. UNCHANGED <<open, paused>> /\ tracker' = Count(Head(wire).seq)
    BY <1>5 DEF Lifecycle
  <2>2. Complete(tracker)
    BY <1>0, <2>1 DEF OpenInv
  <2>3. tracker' = tracker
    BY <2>1, <2>2 DEF Count, SessionTypeOK, Tracker
  <2> QED
    BY <2>2, <2>3 DEF Complete
<1> QED
  BY <1>1, <1>2, <1>3, <1>4, <1>5 DEF SessionNext

LEMMA ApprovedStep == SessionTypeOK /\ SessionInv /\ SessionNext => ReplayNeverApproved'
<1> SUFFICES ASSUME SessionTypeOK, SessionInv, SessionNext PROVE ReplayNeverApproved'
  OBVIOUS
<1>0. ReplayNeverApproved /\ OpenInv /\ CountInv /\ WireInv
  BY DEF SessionInv
<1>1. CASE Lifecycle /\ ~ paused
  <2> DEFINE h == wire[1].seq
  <2>1. Received("event")
    BY <1>1 DEF Lifecycle
  <2>2. open /\ Head(wire) = wire[1] /\ 1 \in 1 .. Len(wire) /\ wire[1].type = "event"
    BY <2>1, Taken DEF SessionTypeOK
  <2>3. approved' = approved \/ approved' = approved \cup {[seq |-> h, last |-> tracker.last]}
    BY <1>1, <2>2 DEF Lifecycle
  <2>4. h \in Int /\ h >= 1 /\ OnWire(h)
    BY <1>0, <2>2, Frames, Constants DEF WireInv, OnWire
  <2>5. tracker.last \in Nat
    BY Constants DEF SessionTypeOK, Tracker
  <2>6. ~ h \in 1 .. tracker.last
    BY <1>0, <1>1, <2>2, <2>4, Drained DEF OpenInv
  <2> HIDE DEF h
  <2>7. h > tracker.last
    BY <2>4, <2>5, <2>6
  <2> QED
    BY <1>0, <2>3, <2>7 DEF ReplayNeverApproved
<1>2. CASE ~ (Lifecycle /\ ~ paused)
  <2>1. approved' = approved
    BY <1>2 DEF SessionNext, Connect, Publish, Beat, Hello, Heartbeat, Lifecycle, Close,
                Tick, Check, HeartbeatTimeout, StopListener
  <2> QED
    BY <1>0, <2>1 DEF ReplayNeverApproved
<1> QED
  BY <1>1, <1>2

-----------------------------------------------------------------------------
LEMMA SessionInitInv == SessionInit => SessionTypeOK /\ SessionInv
<1> SUFFICES ASSUME SessionInit PROVE SessionTypeOK /\ SessionInv
  OBVIOUS
<1>1. SessionTypeOK
  <2>1. NewTracker \in Tracker /\ NewWatch \in Watch
    BY Constants DEF NewTracker, NewWatch, Tracker, Watch
  <2>2. StoreTypeOK
    BY DEF SessionInit, StoreInit, StoreTypeOK
  <2>3. <<>> \in Seq(Kind) /\ <<>> \in Seq(Frame) /\ Len(<<>>) = 0
    BY EmptySeq
  <2> QED
    <3>1. open \in BOOLEAN /\ paused \in BOOLEAN /\ resumed \in BOOLEAN
          /\ matched \in {"NotChecked", "Matched", "Mismatched"}
          /\ tracker \in Tracker /\ watch \in Watch
      BY <2>1 DEF SessionInit
    <3>2. age \in 0 .. Oldest \cup {NoBeat} /\ sessions \in 0 .. MaxSessions
      BY Constants DEF SessionInit
    <3>3. \A a \in approved : a \in [seq : SeqNo, last : SeqNo]
      BY DEF SessionInit
    <3>4. stream \in Seq(Kind) /\ Len(stream) <= MaxSeq /\ wire \in Seq(Frame)
      BY <2>3, Constants DEF SessionInit
    <3> QED
      BY <2>2, <3>1, <3>2, <3>3, <3>4 DEF SessionTypeOK
<1>2. wire = <<>> /\ stream = <<>> /\ ~ open /\ approved = {} /\ cursor = -1
      /\ tracker = NewTracker
  BY Constants DEF SessionInit, StoreInit
<1>3. Len(stream) = 0 /\ Len(wire) = 0 /\ tracker.last = 0
  BY <1>2 DEF NewTracker
<1>4. FreshInv /\ OpenInv /\ ReplayNeverApproved /\ NothingMissed
  BY <1>2, <1>3 DEF FreshInv, OpenInv, ReplayNeverApproved, NothingMissed
<1>5. WireInv /\ WaitInv /\ CountInv
  BY <1>2, <1>3 DEF WireInv, WaitInv, CountInv
<1> QED
  BY <1>1, <1>4, <1>5 DEF SessionInv

\* What every reachable state satisfies.
LEMMA SpecSessionInv == SessionSpec => [](SessionTypeOK /\ SessionInv)
<1>1. SessionTypeOK /\ SessionInv /\ SessionNext => SessionInv'
  BY FreshStep, WireStep, WaitStep, CountStep, OpenStep, ApprovedStep DEF SessionInv
<1>2. SessionTypeOK /\ SessionInv /\ UNCHANGED sessionVars => SessionTypeOK' /\ SessionInv'
  <2> SUFFICES ASSUME SessionTypeOK, SessionInv, UNCHANGED sessionVars
               PROVE  SessionTypeOK' /\ SessionInv'
    OBVIOUS
  <2>1. UNCHANGED <<processed, cursor, accepted, tracker, matched, resumed, open, age,
                    paused, watch, approved, stream, wire, sessions>>
    BY DEF sessionVars, storeVars, client
  <2>2. SessionTypeOK'
    BY <2>1 DEF SessionTypeOK, StoreTypeOK
  <2>3. FreshInv' /\ WireInv' /\ WaitInv' /\ CountInv'
    BY <2>1 DEF SessionInv, FreshInv, WireInv, WaitInv, CountInv, OnWire
  <2>4. OpenInv' /\ NothingMissed' /\ ReplayNeverApproved'
    BY <2>1 DEF SessionInv, OpenInv, NothingMissed, ReplayNeverApproved, Complete
  <2> QED
    BY <2>2, <2>3, <2>4 DEF SessionInv
<1> QED
  BY SessionInitInv, TypeStep, <1>1, <1>2, PTL DEF SessionSpec

\* Every variable keeps its type.
THEOREM SpecSessionTypeOK == SessionSpec => []SessionTypeOK
BY SpecSessionInv, PTL

\* Trading is open only on a recent heartbeat, for every timeout and interval.
THEOREM SpecFreshWhileTrading == SessionSpec => []FreshWhileTrading
<1>1. SessionInv => FreshWhileTrading
  BY DEF SessionInv, FreshInv, FreshWhileTrading
<1> QED
  BY <1>1, SpecSessionInv, PTL

\* No lifecycle frame at or below the cursor is lost, wherever a replay breaks.
THEOREM SpecNothingMissed == SessionSpec => []NothingMissed
<1>1. SessionInv => NothingMissed
  BY DEF SessionInv
<1> QED
  BY <1>1, SpecSessionInv, PTL

\* A complete replay has been consumed to its last frame.
THEOREM SpecCompleteMeansDrained == SessionSpec => []CompleteMeansDrained
<1>1. SessionTypeOK /\ SessionInv => CompleteMeansDrained
  <2> SUFFICES ASSUME SessionTypeOK, SessionInv, open, Complete(tracker),
                      NEW s \in 1 .. tracker.last, stream[s] = "event"
               PROVE  s \in processed
    BY DEF CompleteMeansDrained
  <2>1. ~ OnWire(s)
    BY Drained DEF SessionInv
  <2>2. Len(stream) \in Nat /\ tracker.last \in Nat
    BY Constants, LenProperties DEF SessionTypeOK, Tracker
  <2>3. s \in 1 .. Len(stream)
    BY <2>2 DEF SessionInv, CountInv
  <2> QED
    BY <2>1, <2>3 DEF SessionInv, WaitInv
<1> QED
  BY <1>1, SpecSessionInv, PTL

\* No frame of a replay is approved as a trade.
THEOREM SpecReplayNeverApproved == SessionSpec => []ReplayNeverApproved
<1>1. SessionInv => ReplayNeverApproved
  BY DEF SessionInv
<1> QED
  BY <1>1, SpecSessionInv, PTL

-----------------------------------------------------------------------------
(* The handlers implement the event store.                                 *)

\* A heartbeat that moves the cursor and a lifecycle frame that is accepted
\* are store steps, with the number the frame carries; nothing else writes.
LEMMA StepStore == SessionTypeOK /\ [SessionNext]_sessionVars => [StoreNext]_storeVars
<1> SUFFICES ASSUME SessionTypeOK, [SessionNext]_sessionVars PROVE [StoreNext]_storeVars
  OBVIOUS
<1>1. ASSUME NEW type, Received(type)
      PROVE  Head(wire).seq \in SeqNo
  BY <1>1, Taken DEF SessionTypeOK, Frame
<1>2. CASE Heartbeat
  BY <1>1, <1>2 DEF Heartbeat, StoreNext
<1>3. CASE Lifecycle
  <2>1. Head(wire).seq \in Event /\ Head(wire).seq \in SeqNo
    BY <1>1, <1>3, EventAssumption DEF Lifecycle
  <2>2. CASE CheckAndMarkEventWithSeq(Head(wire).seq, Head(wire).seq)
    BY <2>1, <2>2 DEF StoreNext
  <2>3. CASE UNCHANGED storeVars
    BY <2>3
  <2> QED
    BY <1>3, <2>2, <2>3 DEF Lifecycle
<1>4. CASE UNCHANGED storeVars
  BY <1>4
<1> QED
  BY <1>2, <1>3, <1>4 DEF SessionNext, sessionVars, Connect, Publish, Beat, Hello, Close, Tick,
     Check, HeartbeatTimeout, StopListener

\* Session after session, with every process that ends and every replay that
\* breaks off, the local client's handlers use the durable store only as its
\* methods allow: they implement the event store.
THEOREM SpecSessionImplementsStore == SessionSpec => StoreSpec
<1>1. SessionInit => StoreInit
  BY DEF SessionInit
<1> QED
  BY <1>1, StepStore, SpecSessionTypeOK, PTL DEF SessionSpec, StoreSpec

\* So no frame is accepted twice, over all replays of all sessions.
THEOREM SpecSessionAcceptedOnce == SessionSpec => []AcceptedOnce
BY SpecSessionImplementsStore, SpecAcceptedOnce

\* And what the coordinator sees comes in Eagle's order, over all sessions.
THEOREM SpecSessionAcceptedInOrder == SessionSpec => AcceptedInOrder
BY SpecSessionImplementsStore, SpecAcceptedInOrder

=============================================================================
