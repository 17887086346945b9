----------------------- MODULE PositionSnapshotProofs -----------------------
(***************************************************************************)
(* Type correctness of the position snapshot, the stability of what the    *)
(* runner reads and that a flat account it reads is real, for every number *)
(* of refreshes, changes, timeouts and lost connections.                   *)
(***************************************************************************)
EXTENDS PositionSnapshot, SequenceTheorems, TLAPS

LEMMA CallbackFacts ==
    /\ End \in Callback
    /\ \A p \in Position : Row(p) \in Callback
    /\ \A c \in Callback : c.kind = "row" => c.quantity \in Position
BY DEF Callback, End, Row, Position

\* The answer to a request: the rows, then the end mark.
LEMMA AnswerIsCallbacks ==
    ASSUME pos \in Position
    PROVE  Append(Rows, End) \in Seq(Callback)
<1>1. Rows \in Seq(Callback)
  BY CallbackFacts DEF Rows
<1> QED
  BY <1>1, CallbackFacts, AppendProperties

\* The flags, apart from the arithmetic of the rest.
LEMMA StepFlags == FlagsOK /\ [Next]_vars => FlagsOK'
BY ZenonT(60) DEF FlagsOK, Next, vars, snapshot, external, account, budget, Refresh, Cancelled,
   RefreshRaises, BeginSnapshot, SetActive, RequestPositions, Read, TimesOut, Reconnect,
   ReceivePosition, FinishSnapshot, CallbackRaises, CloseConnection, PositionEndCancels,
   PositionEndReturns, IBAnswers, IBCancels, IBSkips, PositionChanges, Disconnect

LEMMA StepNotBoth == NotBoth /\ [Next]_vars => NotBoth'
BY DEF NotBoth, Next, vars, snapshot, external, account, budget, Refresh, Cancelled, RefreshRaises,
   BeginSnapshot, SetActive, RequestPositions, Read, TimesOut, Reconnect, ReceivePosition,
   FinishSnapshot, CallbackRaises, PositionEndCancels, PositionEndReturns, IBAnswers,
   IBCancels, IBSkips, PositionChanges, Disconnect

LEMMA InitTypeOK == Init => TypeOK
<1>1. Init => FlagsOK /\ NotBoth
  BY DEF Init, FlagsOK, NotBoth
<1>2. Init => since \subseteq Position /\ total \in Int /\ held \subseteq Position
                  /\ toIB \in Seq({"req", "cancel"}) /\ wire \in Seq(Callback)
  BY DEF Init
<1> QED
  BY <1>1, <1>2, BoundsAssumption DEF Init, TypeOK

LEMMA StepTypeOK == TypeOK /\ [Next]_vars => TypeOK'
<1> SUFFICES ASSUME TypeOK, [Next]_vars PROVE TypeOK'
  OBVIOUS
<1>0. FlagsOK' /\ NotBoth'
  BY StepFlags, StepNotBoth DEF TypeOK
<1> USE <1>0, BoundsAssumption DEF TypeOK, snapshot, external, account, budget
<1>1. ASSUME NEW m \in {"req", "cancel"}, Send(m)
      PROVE  toIB' \in Seq({"req", "cancel"})
  BY <1>1 DEF Send
<1>2. CASE Refresh
  BY <1>2, <1>1 DEF Refresh
<1>3. CASE Cancelled
  BY <1>3 DEF Cancelled
<1>4. CASE RefreshRaises
  BY <1>4 DEF RefreshRaises
<1>5. CASE BeginSnapshot
  BY <1>5 DEF BeginSnapshot
<1>6. CASE SetActive
  BY <1>6 DEF SetActive
<1>7. CASE RequestPositions
  BY <1>7, <1>1 DEF RequestPositions
<1>8. CASE Read
  BY <1>8 DEF Read
<1>9. CASE TimesOut
  BY <1>9 DEF TimesOut
<1>10. CASE Reconnect
  BY <1>10 DEF Reconnect
<1>11. CASE ReceivePosition
  <2>1. Head(wire) \in Callback /\ Tail(wire) \in Seq(Callback)
    BY <1>11 DEF ReceivePosition, Deliver
  <2>2. Head(wire).quantity \in Position
    BY <1>11, <2>1, CallbackFacts DEF ReceivePosition, Deliver
  <2> QED
    BY <1>11, <2>1, <2>2 DEF ReceivePosition, Position
<1>12. CASE FinishSnapshot
  BY <1>12 DEF FinishSnapshot, Deliver
<1>13. CASE CallbackRaises
  BY <1>13 DEF CallbackRaises, CloseConnection
<1>14. CASE PositionEndCancels
  BY <1>14, <1>1 DEF PositionEndCancels
<1>15. CASE PositionEndReturns
  BY <1>15 DEF PositionEndReturns
<1>16. CASE IBAnswers
  <2>1. wire' \in Seq(Callback)
    BY <1>16, AnswerIsCallbacks, ConcatProperties DEF IBAnswers
  <2> QED
    BY <1>16, <2>1 DEF IBAnswers
<1>17. CASE IBCancels
  BY <1>17 DEF IBCancels
<1>18. CASE IBSkips
  <2>1. Tail(toIB) \in Seq({"req", "cancel"}) /\ Len(Tail(toIB)) = Len(toIB) - 1
    BY <1>18 DEF IBSkips
  <2>2. Tail(toIB) # <<>>
    <3>1. Len(toIB) >= 2
      BY <1>18 DEF IBSkips
    <3>2. Len(Tail(toIB)) # 0
      BY <2>1, <3>1
    <3>3. Len(<<>>) = 0
      BY EmptySeq
    <3> QED
      BY <3>2, <3>3, Zenon
  <2>3. Tail(Tail(toIB)) \in Seq({"req", "cancel"})
    BY <2>1, <2>2, HeadTailProperties
  <2> QED
    BY <1>18, <2>3 DEF IBSkips
<1>19. CASE PositionChanges
  <2>1. pos' \in Position
    BY <1>19 DEF PositionChanges
  <2>2. wire' \in Seq(Callback)
    BY <1>19, <2>1, CallbackFacts DEF PositionChanges
  <2> QED
    BY <1>19, <2>1, <2>2 DEF PositionChanges
<1>20. CASE Disconnect
  BY <1>20 DEF Disconnect, CloseConnection
<1>21. CASE UNCHANGED vars
  BY <1>21 DEF vars
<1> QED
  BY <1>2, <1>3, <1>4, <1>5, <1>6, <1>7, <1>8, <1>9, <1>10, <1>11, <1>12, <1>13,
     <1>14, <1>15, <1>16, <1>17, <1>18, <1>19, <1>20, <1>21 DEF Next

\* For every bound: type correctness of the snapshot and of its protocol.
THEOREM SpecTypeOK == Spec => []TypeOK
<1> QED
  BY InitTypeOK, StepTypeOK, PTL DEF Spec

\* For every bound: the rows of a completed snapshot stay as they are until
\* the next refresh begins, whatever updates IB goes on sending.
THEOREM SpecStableWhenComplete == Spec => StableWhenComplete
<1>1. NotBoth /\ [Next]_vars => [complete /\ complete' => total' = total]_vars
  BY DEF NotBoth, Next, vars, snapshot, external, account, budget, Refresh, Cancelled, RefreshRaises,
     BeginSnapshot, SetActive, RequestPositions, Read, TimesOut, Reconnect, ReceivePosition,
     FinishSnapshot, CallbackRaises, PositionEndCancels, PositionEndReturns, IBAnswers,
     IBCancels, IBSkips, PositionChanges, Disconnect
<1>2. TypeOK => NotBoth
  BY DEF TypeOK
<1> QED
  BY <1>1, <1>2, SpecTypeOK, PTL DEF Spec, StableWhenComplete

-----------------------------------------------------------------------------
(* FlatIsReal.  While no refresh has timed out, at most one request or its *)
(* end mark is under way, and only while the runner waits for it: so the   *)
(* end mark which completes a snapshot comes behind the rows of the answer *)
(* to this refresh.                                                        *)

IsReq(i) == toIB[i] = "req"
IsRow(i) == wire[i].kind = "row"
IsEnd(i) == wire[i].kind = "end"

NoReq == \A i \in 1 .. Len(toIB) : ~ IsReq(i)
NoEnd == \A i \in 1 .. Len(wire) : ~ IsEnd(i)
OneReq == \A i, j \in 1 .. Len(toIB) : IsReq(i) /\ IsReq(j) => i = j
OneEnd == \A i, j \in 1 .. Len(wire) : IsEnd(i) /\ IsEnd(j) => i = j

\* Every row tells of a position that was held.
RowsHeld == \A i \in 1 .. Len(wire) : IsRow(i) => wire[i].quantity \in held

\* Rows of one sign add up to a sum of that sign.
SumHeld ==
    /\ -1 \notin held => total >= 0
    /\ 1 \notin held => total <= 0

HeldInv == pos \in held /\ RowsHeld /\ SumHeld

SinceInv == main # "idle" => pos \in since

Waiting == main = "waiting" /\ inProgress

\* Each answer under way is the one the runner waits for.
AskedInv ==
    /\ main \in {"begun", "active"} => inProgress
    /\ main = "read" => complete
    /\ OneReq /\ OneEnd
    /\ NoReq \/ NoEnd
    /\ ~ Waiting => NoReq /\ NoEnd

OneSided == ~ ({-1, 1} \subseteq held)

RowBefore(j) == \E i \in 1 .. Len(wire) : i < j /\ IsRow(i) /\ wire[i].quantity # 0

\* If the account was never flat since the refresh began, a row says so
\* before the end mark, and the sum after it.
AnswerInv ==
    OneSided /\ 0 \notin since =>
        /\ Waiting => \A j \in 1 .. Len(wire) : IsEnd(j) => total # 0 \/ RowBefore(j)
        /\ main \in {"waiting", "read"} /\ complete => total # 0

FlatInv == HeldInv /\ SinceInv /\ (timeouts = 0 => AskedInv /\ AnswerInv)

\* What is on the way after a step was already there, d places further back,
\* or is a new row of the present position.
ReqsMove(d) ==
    \A i \in 1 .. Len(toIB') : IsReq(i)' => i + d \in 1 .. Len(toIB) /\ IsReq(i + d)
WireMoves(d) ==
    \A i \in 1 .. Len(wire') :
        \/ i + d \in 1 .. Len(wire) /\ wire'[i] = wire[i + d]
        \/ wire'[i] = Row(pos')

LEMMA TailMoves ==
    ASSUME NEW S, NEW s \in Seq(S), s # <<>>
    PROVE  /\ Tail(s) \in Seq(S) /\ Len(Tail(s)) = Len(s) - 1 /\ Len(s) \in Nat
           /\ \A i \in 1 .. Len(Tail(s)) : i + 1 \in 1 .. Len(s) /\ Tail(s)[i] = s[i + 1]
           /\ 1 \in 1 .. Len(s) /\ Head(s) = s[1]
<1>1. Tail(s) \in Seq(S) /\ Len(Tail(s)) = Len(s) - 1 /\ Len(s) \in Nat
  BY HeadTailProperties
<1>2. \A i \in 1 .. Len(Tail(s)) : Tail(s)[i] = s[i + 1]
  BY HeadTailProperties
<1>3. Len(s) # 0
  BY EmptySeq
<1> QED
  BY <1>1, <1>2, <1>3

LEMMA SendMoves ==
    ASSUME TypeOK, Send("cancel")
    PROVE  ReqsMove(0)
<1>1. Len(toIB) \in Nat
  BY DEF TypeOK
<1>2. CASE ~ linked
  BY <1>1, <1>2 DEF Send, ReqsMove, IsReq
<1>3. CASE linked
  <2>1. toIB' = Append(toIB, "cancel")
    BY <1>3 DEF Send
  <2>2. /\ Len(toIB') = Len(toIB) + 1
        /\ toIB'[Len(toIB) + 1] = "cancel"
        /\ \A i \in 1 .. Len(toIB) : toIB'[i] = toIB[i]
    BY <2>1, AppendProperties DEF TypeOK
  <2> QED
    BY <1>1, <2>2 DEF ReqsMove, IsReq
<1> QED
  BY <1>2, <1>3

\* Only RequestPositions puts a request on the way.
LEMMA StepReqs ==
    ASSUME TypeOK, [Next]_vars, ~ RequestPositions
    PROVE  \E d \in Nat : ReqsMove(d)
<1> USE DEF TypeOK
<1>1. CASE toIB' = toIB
  <2>1. ReqsMove(0)
    BY <1>1 DEF ReqsMove, IsReq
  <2> QED
    BY <2>1
<1>2. CASE Send("cancel")
  BY <1>2, SendMoves
<1>3. CASE toIB' = <<>>
  <2>1. ReqsMove(0)
    BY <1>3, EmptySeq DEF ReqsMove, IsReq
  <2> QED
    BY <2>1
<1>4. CASE toIB # <<>> /\ toIB' = Tail(toIB)
  <2>1. ReqsMove(1)
    BY <1>4, TailMoves DEF ReqsMove, IsReq
  <2> QED
    BY <2>1
<1>5. CASE IBSkips
  <2>1. toIB # <<>> /\ toIB' = Tail(Tail(toIB)) /\ Len(toIB) >= 2
    BY <1>5, EmptySeq DEF IBSkips
  <2>2. /\ Tail(toIB) \in Seq({"req", "cancel"}) /\ Len(Tail(toIB)) = Len(toIB) - 1
        /\ \A i \in 1 .. Len(Tail(toIB)) : i + 1 \in 1 .. Len(toIB) /\ Tail(toIB)[i] = toIB[i + 1]
        /\ Len(toIB) \in Nat
    BY <2>1, TailMoves
  <2>3. Tail(toIB) # <<>>
    <3>1. Len(Tail(toIB)) # 0
      BY <2>1, <2>2
    <3>2. Len(<<>>) = 0
      BY EmptySeq
    <3> QED
      BY <3>1, <3>2, Zenon
  <2>4. /\ Len(toIB') = Len(Tail(toIB)) - 1
        /\ \A i \in 1 .. Len(toIB') :
              i + 1 \in 1 .. Len(Tail(toIB)) /\ toIB'[i] = Tail(toIB)[i + 1]
    BY <2>1, <2>2, <2>3, TailMoves
  <2>5. ReqsMove(2)
    BY <2>2, <2>4 DEF ReqsMove, IsReq
  <2> QED
    BY <2>5
<1> QED
  BY <1>1, <1>2, <1>3, <1>4, <1>5 DEF Next, vars, snapshot, external, account, budget, Refresh,
     Cancelled, RefreshRaises, BeginSnapshot, SetActive, Read, TimesOut, Reconnect,
     ReceivePosition, FinishSnapshot, CallbackRaises, CloseConnection, PositionEndCancels,
     PositionEndReturns, IBAnswers, IBCancels, PositionChanges, Disconnect

\* Only IBAnswers puts an end mark on the way.
LEMMA StepWire ==
    ASSUME TypeOK, [Next]_vars, ~ IBAnswers
    PROVE  \E d \in Nat : WireMoves(d)
<1> USE DEF TypeOK
<1>1. CASE wire' = wire
  <2>1. WireMoves(0)
    BY <1>1 DEF WireMoves
  <2> QED
    BY <2>1
<1>2. CASE wire' = <<>>
  <2>1. WireMoves(0)
    BY <1>2, EmptySeq DEF WireMoves
  <2> QED
    BY <2>1
<1>3. CASE wire # <<>> /\ wire' = Tail(wire)
  <2>1. WireMoves(1)
    BY <1>3, TailMoves DEF WireMoves
  <2> QED
    BY <2>1
<1>4. CASE wire' = Append(wire, Row(pos')) /\ pos' \in Position
  <2>1. WireMoves(0)
    BY <1>4, CallbackFacts, AppendProperties DEF WireMoves
  <2> QED
    BY <2>1
<1> QED
  BY <1>1, <1>2, <1>3, <1>4 DEF Next, vars, snapshot, external, account, budget, Refresh,
     Cancelled, RefreshRaises, BeginSnapshot, SetActive, RequestPositions, Read, TimesOut,
     Reconnect, ReceivePosition, FinishSnapshot, CallbackRaises, CloseConnection, Deliver,
     PositionEndCancels, PositionEndReturns, IBCancels, IBSkips, PositionChanges, Disconnect

\* The answer: a row of the position unless it is flat, then the end mark.
LEMMA AnswerMoves ==
    ASSUME TypeOK, IBAnswers
    PROVE  /\ Len(wire) \in Nat
           /\ pos = 0 => Len(wire') = Len(wire) + 1
           /\ pos # 0 => Len(wire') = Len(wire) + 2 /\ wire'[Len(wire) + 1] = Row(pos)
           /\ wire'[Len(wire')] = End
           /\ \A i \in 1 .. Len(wire) : wire'[i] = wire[i]
<1> USE DEF TypeOK
<1>1. Rows \in Seq(Callback) /\ Append(Rows, End) \in Seq(Callback)
  BY CallbackFacts, AnswerIsCallbacks DEF Rows
<1>2. /\ pos = 0 => Len(Append(Rows, End)) = 1 /\ Append(Rows, End)[1] = End
      /\ pos # 0 => /\ Len(Append(Rows, End)) = 2 /\ Append(Rows, End)[1] = Row(pos)
                    /\ Append(Rows, End)[2] = End
  BY DEF Rows
<1>3. wire' = wire \o Append(Rows, End)
  BY DEF IBAnswers
<1>4. /\ Len(wire') = Len(wire) + Len(Append(Rows, End))
      /\ \A i \in 1 .. Len(wire') :
            wire'[i] = IF i <= Len(wire) THEN wire[i] ELSE Append(Rows, End)[i - Len(wire)]
  BY <1>1, <1>3, ConcatProperties
<1>5. Len(wire) \in Nat
  OBVIOUS
<1>6. Len(wire') \in Nat /\ Len(wire') >= Len(wire)
      /\ \A i \in 1 .. Len(wire) : wire'[i] = wire[i]
  BY <1>2, <1>4, <1>5
<1> HIDE DEF TypeOK
<1>7. CASE pos = 0
  <2>1. Len(wire') = Len(wire) + 1
    BY <1>2, <1>4, <1>7
  <2>2. wire'[Len(wire) + 1] = End
    BY <1>2, <1>4, <1>5, <1>7, <2>1
  <2> QED
    BY <1>5, <1>6, <1>7, <2>1, <2>2
<1>8. CASE pos # 0
  <2>1. Len(wire') = Len(wire) + 2
    BY <1>2, <1>4, <1>8
  <2>2. wire'[Len(wire) + 1] = Row(pos)
    BY <1>2, <1>4, <1>5, <1>8, <2>1
  <2>3. wire'[Len(wire) + 2] = End
    BY <1>2, <1>4, <1>5, <1>8, <2>1
  <2> QED
    BY <1>5, <1>6, <1>8, <2>1, <2>2, <2>3
<1> QED
  BY <1>7, <1>8

LEMMA KindFacts ==
    /\ End.kind = "end"
    /\ \A p \in Position : Row(p).kind = "row" /\ Row(p).quantity = p
BY DEF End, Row


LEMMA InitFlatInv == Init => FlatInv
<1> SUFFICES ASSUME Init PROVE FlatInv
  OBVIOUS
<1>1. Len(toIB) = 0 /\ Len(wire) = 0
  BY EmptySeq DEF Init
<1> QED
  BY <1>1 DEF Init, FlatInv, HeldInv, RowsHeld, SumHeld, SinceInv, AskedInv, AnswerInv, Waiting,
     NoReq, NoEnd, OneReq, OneEnd

\* What was held stays held.
LEMMA StepHistory ==
    ASSUME TypeOK, [Next]_vars
    PROVE  held \subseteq held' /\ (pos' # pos => PositionChanges)
<1> QED
  BY DEF Next, vars, snapshot, external, account, budget, Refresh, Cancelled, RefreshRaises,
     BeginSnapshot, SetActive, RequestPositions, Read, TimesOut, Reconnect, ReceivePosition,
     FinishSnapshot, CallbackRaises, CloseConnection, PositionEndCancels, PositionEndReturns,
     IBAnswers, IBCancels, IBSkips, PositionChanges, Disconnect

\* The sum changes with a new snapshot or with a row.
LEMMA StepTotal ==
    ASSUME TypeOK, [Next]_vars
    PROVE  \/ total' = total
           \/ total' = 0 /\ BeginSnapshot
           \/ ReceivePosition
<1> QED
  BY DEF Next, vars, snapshot, external, account, budget, Refresh, Cancelled, RefreshRaises,
     BeginSnapshot, SetActive, RequestPositions, Read, TimesOut, Reconnect, ReceivePosition,
     FinishSnapshot, CallbackRaises, CloseConnection, PositionEndCancels, PositionEndReturns,
     IBAnswers, IBCancels, IBSkips, PositionChanges, Disconnect

\* The row a callback takes, and what it does to the sum.
LEMMA RowTaken ==
    ASSUME TypeOK, HeldInv, ReceivePosition
    PROVE  /\ wire # <<>> /\ wire' = Tail(wire)
           /\ IsRow(1) /\ wire[1].quantity \in held
           /\ total' = total + wire[1].quantity
<1>1. wire # <<>> /\ wire' = Tail(wire) /\ Head(wire).kind = "row"
      /\ total' = total + Head(wire).quantity
  BY DEF ReceivePosition, Deliver
<1>2. Head(wire) = wire[1] /\ 1 \in 1 .. Len(wire)
  BY <1>1, TailMoves DEF TypeOK
<1> QED
  BY <1>1, <1>2 DEF HeldInv, RowsHeld, IsRow

LEMMA StepHeldInv == TypeOK /\ HeldInv /\ [Next]_vars => HeldInv'
<1> SUFFICES ASSUME TypeOK, HeldInv, [Next]_vars PROVE HeldInv'
  OBVIOUS
<1>0. held \subseteq held' /\ held \subseteq Position /\ pos \in Position /\ total \in Int
      /\ TypeOK'
  BY StepHistory, StepTypeOK DEF TypeOK
<1>1. pos' \in held'
  <2>1. CASE pos' = pos
    BY <1>0, <2>1 DEF HeldInv
  <2>2. CASE PositionChanges
    BY <2>2 DEF PositionChanges
  <2> QED
    BY <2>1, <2>2, StepHistory
<1>2. RowsHeld'
  <2>1. CASE IBAnswers
    <3>1. \A i \in 1 .. Len(wire') : IsRow(i)' =>
              \/ i \in 1 .. Len(wire) /\ wire'[i] = wire[i]
              \/ wire'[i] = Row(pos)
      BY <2>1, AnswerMoves, KindFacts DEF IsRow
    <3> QED
      BY <1>0, <3>1, KindFacts DEF HeldInv, RowsHeld, IsRow
  <2>2. CASE ~ IBAnswers
    <3>1. PICK d \in Nat : WireMoves(d)
      BY <2>2, StepWire
    <3>2. pos' \in Position
      BY <1>0 DEF TypeOK
    <3> QED
      BY <1>0, <1>1, <3>1, <3>2, KindFacts DEF WireMoves, HeldInv, RowsHeld, IsRow
  <2> QED
    BY <2>1, <2>2
<1>3. SumHeld'
  <2>1. CASE total' = total
    BY <1>0, <2>1 DEF HeldInv, SumHeld
  <2>2. CASE total' = 0
    BY <2>2 DEF SumHeld
  <2>3. CASE ReceivePosition
    <3>1. wire[1].quantity \in held /\ total' = total + wire[1].quantity
      BY <2>3, RowTaken
    <3>2. wire[1].quantity \in {-1, 0, 1}
      <4>1. \A q \in Position : q \in {-1, 0, 1}
        BY DEF Position
      <4> QED
        BY <1>0, <3>1, <4>1
    <3>3. -1 \notin held' => wire[1].quantity >= 0 /\ total >= 0
      BY <1>0, <3>1, <3>2 DEF HeldInv, SumHeld
    <3>4. 1 \notin held' => wire[1].quantity <= 0 /\ total <= 0
      BY <1>0, <3>1, <3>2 DEF HeldInv, SumHeld
    <3> QED
      BY <1>0, <3>1, <3>2, <3>3, <3>4 DEF SumHeld
  <2> QED
    BY <2>1, <2>2, <2>3, StepTotal
<1> QED
  BY <1>1, <1>2, <1>3 DEF HeldInv

LEMMA StepSinceInv == TypeOK /\ SinceInv /\ [Next]_vars => SinceInv'
BY DEF SinceInv, Next, vars, snapshot, external, account, budget, Refresh, Cancelled, RefreshRaises,
   BeginSnapshot, SetActive, RequestPositions, Read, TimesOut, Reconnect, ReceivePosition,
   FinishSnapshot, CallbackRaises, CloseConnection, PositionEndCancels, PositionEndReturns,
   IBAnswers, IBCancels, IBSkips, PositionChanges, Disconnect

\* The first end mark completes the snapshot.
LEMMA EndTaken ==
    ASSUME TypeOK, FinishSnapshot
    PROVE  1 \in 1 .. Len(wire) /\ IsEnd(1) /\ wire # <<>> /\ wire' = Tail(wire)
<1>1. wire # <<>> /\ wire' = Tail(wire) /\ Head(wire).kind = "end"
  BY DEF FinishSnapshot, Deliver
<1> QED
  BY <1>1, TailMoves DEF TypeOK, IsEnd

LEMMA StepAskedInv ==
    ASSUME TypeOK, HeldInv, AskedInv, [Next]_vars, ~ TimesOut
    PROVE  AskedInv'
<1>0. TypeOK'
  BY StepTypeOK
<1>1. NoEnd => ~ FinishSnapshot
  BY EndTaken DEF NoEnd
<1>2. /\ main' \in {"begun", "active"} => inProgress'
      /\ main' = "read" => complete'
  BY <1>1 DEF AskedInv, Waiting, TypeOK, NotBoth, Next, vars, snapshot, external, account, budget, Refresh,
     Cancelled, RefreshRaises, BeginSnapshot, SetActive, RequestPositions, Read, TimesOut,
     Reconnect, ReceivePosition, FinishSnapshot, CallbackRaises, PositionEndCancels,
     PositionEndReturns, IBAnswers, IBCancels, IBSkips, PositionChanges, Disconnect
\* A runner that waits goes on waiting, until the end mark arrives.
<1>3. Waiting /\ ~ Waiting' => FinishSnapshot
  BY DEF Waiting, TypeOK, NotBoth, Next, vars, snapshot, external, account, budget, Refresh,
     Cancelled, RefreshRaises, BeginSnapshot, SetActive, RequestPositions, Read, TimesOut,
     Reconnect, ReceivePosition, FinishSnapshot, CallbackRaises, PositionEndCancels,
     PositionEndReturns, IBAnswers, IBCancels, IBSkips, PositionChanges, Disconnect
<1>4. /\ ~ RequestPositions => (OneReq => OneReq') /\ (NoReq => NoReq')
  <2> SUFFICES ASSUME ~ RequestPositions PROVE (OneReq => OneReq') /\ (NoReq => NoReq')
    OBVIOUS
  <2>1. PICK d \in Nat : ReqsMove(d)
    BY StepReqs
  <2> QED
    BY <2>1 DEF ReqsMove, OneReq, NoReq
<1>5. ~ IBAnswers => (OneEnd => OneEnd') /\ (NoEnd => NoEnd')
  <2> SUFFICES ASSUME ~ IBAnswers PROVE (OneEnd => OneEnd') /\ (NoEnd => NoEnd')
    OBVIOUS
  <2>1. PICK d \in Nat : WireMoves(d)
    BY StepWire
  <2>2. \A i \in 1 .. Len(wire') : IsEnd(i)' => i + d \in 1 .. Len(wire) /\ IsEnd(i + d)
    BY <1>0, <2>1, KindFacts DEF WireMoves, IsEnd, TypeOK
  <2> QED
    BY <2>2 DEF OneEnd, NoEnd
<1>6. CASE RequestPositions
  <2>1. NoReq /\ NoEnd /\ wire' = wire /\ Waiting' /\ Send("req")
    BY <1>6 DEF RequestPositions, AskedInv, Waiting, snapshot
  <2>2. OneEnd' /\ NoEnd'
    BY <2>1 DEF OneEnd, NoEnd, IsEnd
  <2>3. OneReq'
    <3>1. CASE linked
      <4>1. toIB' = Append(toIB, "req") /\ toIB \in Seq({"req", "cancel"}) /\ Len(toIB) \in Nat
        BY <2>1, <3>1 DEF Send, TypeOK
      <4>2. /\ Len(toIB') = Len(toIB) + 1
            /\ \A i \in 1 .. Len(toIB) : toIB'[i] = toIB[i]
        BY <4>1, AppendProperties
      <4>3. \A i \in 1 .. Len(toIB') : IsReq(i)' => i = Len(toIB) + 1
        BY <2>1, <4>1, <4>2 DEF NoReq, IsReq
      <4> QED
        BY <4>3 DEF OneReq
    <3>2. CASE ~ linked
      BY <2>1, <3>2 DEF Send, OneReq, NoReq, IsReq
    <3> QED
      BY <3>1, <3>2
  <2> QED
    BY <1>2, <2>1, <2>2, <2>3 DEF AskedInv
<1>7. CASE IBAnswers
  <2>1. /\ toIB # <<>> /\ toIB' = Tail(toIB) /\ Head(toIB) = "req"
        /\ main' = main /\ inProgress' = inProgress
    BY <1>7 DEF IBAnswers, snapshot
  <2>2. /\ 1 \in 1 .. Len(toIB) /\ IsReq(1)
        /\ \A i \in 1 .. Len(toIB') : i + 1 \in 1 .. Len(toIB) /\ toIB'[i] = toIB[i + 1]
    BY <2>1, TailMoves DEF TypeOK, IsReq
  <2>3. NoEnd /\ Waiting /\ OneReq
    BY <2>2 DEF AskedInv, NoReq
  <2>4. NoReq'
    BY <2>2, <2>3 DEF NoReq, OneReq, IsReq
  <2>5. \A i \in 1 .. Len(wire') : IsEnd(i)' => i = Len(wire')
    <3>1. pos \in Position
      BY DEF TypeOK
    <3> QED
      BY <1>7, <2>3, <3>1, AnswerMoves, KindFacts DEF NoEnd, IsEnd
  <2>6. OneEnd' /\ Waiting'
    BY <2>1, <2>3, <2>5 DEF OneEnd, Waiting
  <2> QED
    BY <1>2, <2>4, <2>6 DEF AskedInv, NoReq, OneReq
<1>8. CASE FinishSnapshot
  <2>1. 1 \in 1 .. Len(wire) /\ IsEnd(1) /\ wire # <<>> /\ wire' = Tail(wire)
    BY <1>8, EndTaken
  <2>2. OneEnd /\ NoReq
    BY <2>1 DEF AskedInv, NoEnd
  <2>3. NoEnd'
    <3>1. \A i \in 1 .. Len(wire') : i + 1 \in 1 .. Len(wire) /\ wire'[i] = wire[i + 1]
      BY <2>1, TailMoves DEF TypeOK
    <3> QED
      BY <2>1, <2>2, <3>1 DEF NoEnd, OneEnd, IsEnd
  <2>4. NoReq'
    <3>1. toIB' = toIB
      BY <1>8 DEF FinishSnapshot
    <3> QED
      BY <2>2, <3>1 DEF NoReq, IsReq
  <2> QED
    BY <1>2, <2>3, <2>4 DEF AskedInv, NoReq, NoEnd, OneReq, OneEnd
<1>9. CASE ~ RequestPositions /\ ~ IBAnswers /\ ~ FinishSnapshot
  BY <1>2, <1>3, <1>4, <1>5, <1>9 DEF AskedInv
<1> QED
  BY <1>6, <1>7, <1>8, <1>9

\* While the sum is not zero, rows of the same sign keep it so; while it is,
\* the first row that is not zero ends that.
LEMMA RowAdds ==
    ASSUME TypeOK, HeldInv, ReceivePosition, OneSided
    PROVE  /\ total # 0 => total' # 0
           /\ wire[1].quantity # 0 => total' # 0
           /\ wire[1].quantity = 0 => total' = total
<1>1. wire[1].quantity \in held /\ total' = total + wire[1].quantity
  BY RowTaken
<1>2. wire[1].quantity \in {-1, 0, 1} /\ total \in Int
  <2>1. \A q \in Position : q \in {-1, 0, 1}
    BY DEF Position
  <2> QED
    BY <1>1, <2>1 DEF TypeOK
<1>3. -1 \notin held \/ 1 \notin held
  BY DEF OneSided
<1>4. CASE -1 \notin held
  <2>1. total >= 0 /\ wire[1].quantity \in {0, 1}
    BY <1>1, <1>2, <1>4 DEF HeldInv, SumHeld
  <2> QED
    BY <1>1, <1>2, <2>1
<1>5. CASE 1 \notin held
  <2>1. total <= 0 /\ wire[1].quantity \in {-1, 0}
    BY <1>1, <1>2, <1>5 DEF HeldInv, SumHeld
  <2> QED
    BY <1>1, <1>2, <2>1
<1> QED
  BY <1>3, <1>4, <1>5

\* Only a new refresh begins a history of its own.
LEMMA StepSince ==
    ASSUME TypeOK, [Next]_vars
    PROVE  Refresh \/ since \subseteq since'
<1> QED
  BY DEF Next, vars, snapshot, external, account, budget, Cancelled, RefreshRaises,
     BeginSnapshot, SetActive, RequestPositions, Read, TimesOut, Reconnect, ReceivePosition,
     FinishSnapshot, CallbackRaises, CloseConnection, PositionEndCancels, PositionEndReturns,
     IBAnswers, IBCancels, IBSkips, PositionChanges, Disconnect

\* The connection closes, or the wire grows, or its first callback is taken.
LEMMA WireChanges ==
    ASSUME TypeOK, [Next]_vars
    PROVE  \/ wire' = wire
           \/ wire' = <<>>
           \/ wire' = Append(wire, Row(pos')) /\ pos' \in Position
           \/ ReceivePosition
           \/ FinishSnapshot
           \/ IBAnswers
<1> QED
  BY DEF Next, vars, snapshot, external, account, budget, Refresh, Cancelled, RefreshRaises,
     BeginSnapshot, SetActive, RequestPositions, Read, TimesOut, Reconnect,
     CallbackRaises, CloseConnection, PositionEndCancels, PositionEndReturns,
     IBCancels, IBSkips, PositionChanges, Disconnect, TypeOK

LEMMA StepAnswerInv ==
    ASSUME TypeOK, HeldInv, SinceInv, AskedInv, AnswerInv, [Next]_vars, ~ TimesOut
    PROVE  AnswerInv'
<1>0. TypeOK'
  BY StepTypeOK
<1> SUFFICES ASSUME OneSided', (0 \notin since)'
             PROVE  /\ Waiting' => \A j \in 1 .. Len(wire') :
                          IsEnd(j)' => total' # 0 \/ RowBefore(j)'
                    /\ main' \in {"waiting", "read"} /\ complete' => total' # 0
  BY DEF AnswerInv
<1>1. OneSided
  BY StepHistory DEF OneSided
<1>2. CASE Refresh
  BY <1>2 DEF Refresh, Waiting
<1>3. CASE RequestPositions
  <2>1. NoEnd /\ wire' = wire /\ inProgress' = inProgress /\ complete' = complete /\ inProgress
    BY <1>3 DEF RequestPositions, AskedInv, Waiting, snapshot
  <2>2. NoEnd'
    BY <2>1 DEF NoEnd, IsEnd
  <2> QED
    BY <2>1, <2>2 DEF NoEnd, TypeOK, NotBoth
<1>4. CASE ReceivePosition
  <2>1. /\ main' = main /\ inProgress' = inProgress /\ complete' = complete
        /\ since' = since /\ inProgress
    BY <1>4 DEF ReceivePosition, account
  <2>2. /\ wire # <<>> /\ wire' = Tail(wire)
        /\ \A i \in 1 .. Len(wire') : i + 1 \in 1 .. Len(wire) /\ wire'[i] = wire[i + 1]
        /\ \A i \in 2 .. Len(wire) : i - 1 \in 1 .. Len(wire')
        /\ IsRow(1)
    <3>1. wire # <<>> /\ wire' = Tail(wire) /\ IsRow(1)
      BY <1>4, RowTaken
    <3>2. wire \in Seq(Callback)
      BY DEF TypeOK
    <3>3. /\ Len(wire') = Len(wire) - 1 /\ Len(wire) \in Nat
          /\ \A i \in 1 .. Len(wire') : i + 1 \in 1 .. Len(wire) /\ wire'[i] = wire[i + 1]
      BY <3>1, <3>2, TailMoves, Zenon
    <3>4. \A i \in 2 .. Len(wire) : i - 1 \in 1 .. Len(wire')
      BY <3>3
    <3> QED
      BY <3>1, <3>3, <3>4
  <2>3. ASSUME Waiting, NEW j \in 1 .. Len(wire'), IsEnd(j)', total' = 0
        PROVE  RowBefore(j)'
    <3>1. total = 0 /\ wire[1].quantity = 0
      BY <1>1, <1>4, <2>3, RowAdds
    <3>2. IsEnd(j + 1) /\ j + 1 \in 1 .. Len(wire)
      BY <2>2, <2>3 DEF IsEnd
    <3>3. PICK i \in 1 .. Len(wire) : i < j + 1 /\ IsRow(i) /\ wire[i].quantity # 0
      BY <1>1, <2>1, <2>3, <3>1, <3>2 DEF AnswerInv, RowBefore
    <3>4. i # 1
      BY <3>1, <3>3
    <3>5. i - 1 \in 1 .. Len(wire') /\ wire'[i - 1] = wire[i] /\ i - 1 < j
      <4>1. i - 1 \in 1 .. Len(wire') /\ (i - 1) + 1 = i
        BY <2>2, <3>3, <3>4
      <4> QED
        BY <2>2, <3>3, <4>1
    <3> QED
      BY <3>3, <3>5 DEF RowBefore, IsRow
  <2> QED
    BY <2>1, <2>3 DEF Waiting, TypeOK, NotBoth
<1>5. CASE FinishSnapshot
  <2>1. /\ inProgress /\ ~ inProgress' /\ main' = main /\ total' = total /\ since' = since
    BY <1>5 DEF FinishSnapshot, account
  <2>2. 1 \in 1 .. Len(wire) /\ IsEnd(1)
    BY <1>5, EndTaken
  <2>3. Waiting
    BY <2>2 DEF AskedInv, NoEnd
  <2>4. ~ RowBefore(1)
    BY DEF RowBefore
  <2>5. total # 0
    BY <1>1, <2>1, <2>2, <2>3, <2>4 DEF AnswerInv
  <2> QED
    BY <2>1, <2>5 DEF Waiting
<1>6. CASE IBAnswers
  <2>1. /\ main' = main /\ inProgress' = inProgress /\ complete' = complete /\ total' = total
        /\ since' = since /\ pos' = pos
    BY <1>6 DEF IBAnswers, snapshot, account
  <2>2. Waiting
    <3>1. 1 \in 1 .. Len(toIB) /\ IsReq(1)
      BY <1>6, TailMoves DEF IBAnswers, TypeOK, IsReq
    <3> QED
      BY <3>1 DEF AskedInv, NoReq
  <2>3. pos # 0 /\ pos \in Position
    BY <2>1, <2>2 DEF SinceInv, Waiting, TypeOK
  <2>4. NoEnd
    <3>1. 1 \in 1 .. Len(toIB) /\ IsReq(1)
      BY <1>6, TailMoves DEF IBAnswers, TypeOK, IsReq
    <3> QED
      BY <3>1 DEF AskedInv, NoReq
  <2>5. /\ Len(wire) \in Nat /\ Len(wire') = Len(wire) + 2
        /\ wire'[Len(wire) + 1] = Row(pos)
        /\ \A i \in 1 .. Len(wire) : wire'[i] = wire[i]
    BY <1>6, <2>3, AnswerMoves
  <2>6. ASSUME NEW j \in 1 .. Len(wire'), IsEnd(j)' PROVE RowBefore(j)'
    <3>1. j > Len(wire) + 1
      <4>1. j \notin 1 .. Len(wire)
        BY <2>4, <2>5, <2>6 DEF NoEnd, IsEnd
      <4>2. j # Len(wire) + 1
        BY <2>3, <2>5, <2>6, KindFacts DEF IsEnd
      <4> QED
        BY <2>5, <4>1, <4>2
    <3>2. Len(wire) + 1 \in 1 .. Len(wire')
      BY <2>5
    <3>3. wire'[Len(wire) + 1].kind = "row" /\ wire'[Len(wire) + 1].quantity # 0
      BY <2>3, <2>5, KindFacts
    <3> QED
      BY <2>5, <3>1, <3>2, <3>3 DEF RowBefore, IsRow
  <2>7. main' \in {"waiting", "read"} /\ complete' => total' # 0
    BY <1>1, <2>1 DEF AnswerInv
  <2> QED
    BY <2>6, <2>7
<1>7. CASE ~ (Refresh \/ RequestPositions \/ ReceivePosition \/ FinishSnapshot \/ IBAnswers)
  <2>1. 0 \notin since
    BY <1>7, StepSince
  <2>2. /\ Waiting' => Waiting /\ total' = total
        /\ main' \in {"waiting", "read"} /\ complete' =>
              main \in {"waiting", "read"} /\ complete /\ total' = total
    BY <1>7 DEF Waiting, Next, vars, snapshot, external, account, budget,
       Cancelled, RefreshRaises, BeginSnapshot, SetActive, Read, TimesOut,
       Reconnect, CallbackRaises, PositionEndCancels,
       PositionEndReturns, IBCancels, IBSkips, PositionChanges, Disconnect
  <2>3. ASSUME Waiting, Waiting', NEW j \in 1 .. Len(wire'), IsEnd(j)', total' = 0
        PROVE  RowBefore(j)'
    <3>1. CASE wire' = wire
      BY <1>1, <2>1, <2>2, <2>3, <3>1 DEF AnswerInv, IsEnd, IsRow, RowBefore
    <3>2. CASE wire' = <<>>
      BY <2>3, <3>2, EmptySeq
    <3>3. CASE wire' = Append(wire, Row(pos')) /\ pos' \in Position
      <4>1. /\ Len(wire) \in Nat /\ Len(wire') = Len(wire) + 1
            /\ wire'[Len(wire) + 1] = Row(pos')
            /\ \A i \in 1 .. Len(wire) : wire'[i] = wire[i]
        BY <3>3, CallbackFacts, AppendProperties DEF TypeOK
      <4>2. j \in 1 .. Len(wire) /\ IsEnd(j)
        <5>1. j # Len(wire) + 1
          BY <2>3, <3>3, <4>1, KindFacts DEF IsEnd
        <5>2. j \in 1 .. Len(wire)
          BY <4>1, <5>1
        <5> QED
          BY <2>3, <4>1, <5>2 DEF IsEnd
      <4>3. PICK i \in 1 .. Len(wire) : i < j /\ IsRow(i) /\ wire[i].quantity # 0
        BY <1>1, <2>1, <2>2, <2>3, <4>2 DEF AnswerInv, RowBefore
      <4>4. i \in 1 .. Len(wire') /\ wire'[i] = wire[i]
        BY <4>1
      <4> QED
        BY <4>3, <4>4 DEF RowBefore, IsRow
    <3> QED
      BY <1>7, <3>1, <3>2, <3>3, WireChanges
  <2>4. main' \in {"waiting", "read"} /\ complete' => total' # 0
    BY <1>1, <2>1, <2>2 DEF AnswerInv
  <2> QED
    BY <2>2, <2>3, <2>4
<1> QED
  BY <1>2, <1>3, <1>4, <1>5, <1>6, <1>7

\* A refresh that timed out is never forgotten.
LEMMA StepTimeouts ==
    ASSUME TypeOK, [Next]_vars, timeouts' = 0
    PROVE  timeouts = 0 /\ ~ TimesOut
<1> QED
  BY DEF TypeOK, Next, vars, snapshot, external, account, budget, Refresh, Cancelled, RefreshRaises,
     BeginSnapshot, SetActive, RequestPositions, Read, TimesOut, Reconnect, ReceivePosition,
     FinishSnapshot, CallbackRaises, CloseConnection, PositionEndCancels, PositionEndReturns,
     IBAnswers, IBCancels, IBSkips, PositionChanges, Disconnect

LEMMA SpecFlatInv == Spec => []FlatInv
<1>1. TypeOK /\ FlatInv /\ [Next]_vars => FlatInv'
  <2> SUFFICES ASSUME TypeOK, FlatInv, [Next]_vars PROVE FlatInv'
    OBVIOUS
  <2>1. HeldInv' /\ SinceInv'
    BY StepHeldInv, StepSinceInv DEF FlatInv
  <2>2. ASSUME timeouts' = 0 PROVE AskedInv' /\ AnswerInv'
    <3>1. timeouts = 0 /\ ~ TimesOut
      BY <2>2, StepTimeouts
    <3> QED
      BY <3>1, StepAskedInv, StepAnswerInv DEF FlatInv
  <2> QED
    BY <2>1, <2>2 DEF FlatInv
<1> QED
  BY <1>1, InitFlatInv, SpecTypeOK, PTL DEF Spec

\* For every bound: as long as no refresh has timed out, a flat account that
\* the runner reads was flat at some time since it asked, whatever was lost
\* with a connection and whatever updates were still on their way, unless it
\* was both long and short in its life.
THEOREM SpecFlatIsReal == Spec => []FlatIsReal
<1>1. FlatInv => FlatIsReal
  BY DEF FlatInv, FlatIsReal, AskedInv, AnswerInv, OneSided
<1> QED
  BY <1>1, SpecFlatInv, PTL

=============================================================================
