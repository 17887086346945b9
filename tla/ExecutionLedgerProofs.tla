----------------------- MODULE ExecutionLedgerProofs ------------------------
(***************************************************************************)
(* What the execution ledger guarantees for every set of events and order  *)
(* ids.                                                                    *)
(***************************************************************************)
EXTENDS ExecutionLedger, TLAPS

LEMMA NoOrderIsNoId == NoOrder \notin OrderId
BY OrderIdAssumption DEF NoOrder

\* Nothing leads out of a terminal status or back to an earlier one that has
\* no row, and only a reservation precedes a submission.
LEMMA AllowedFacts ==
    /\ \A s \in Status : Allowed(s) \subseteq Status \ {"Reserved"}
    /\ \A s \in Terminal : Allowed(s) = {}
    /\ Allowed(Unknown) = {}
    /\ \A s \in Status : "Submitted" \in Allowed(s) => s = "Reserved"
    /\ Allowed("Reserved") = {"Submitted", "Rejected"}
BY DEF Allowed, Status, Terminal, Unknown

\* The one change every operation makes: the record of one event, and one
\* entry appended to its history.
LEMMA StepIsWrite ==
    ASSUME TypeOK, Next
    PROVE  \E e \in EventId, s \in Status, o \in OrderId \cup {NoOrder} :
              /\ Write(e, s, o)
              /\ \/ records[e].status = Unknown /\ s = "Reserved" /\ o = NoOrder
                 \/ /\ s \in Allowed(records[e].status)
                    /\ s = "Submitted" <=> o # NoOrder
<1>1. CASE \E e \in EventId : Reserve(e)
  BY <1>1 DEF Reserve, Status
<1>2. CASE \E e \in EventId, o \in OrderId : MarkSubmitted(e, o)
  BY <1>2, NoOrderIsNoId DEF MarkSubmitted, Transition, Status
<1>3. CASE \E e \in EventId, s \in Status : Mark(e, s)
  BY <1>3 DEF Mark, Transition
<1> QED
  BY <1>1, <1>2, <1>3 DEF Next

IInv == TypeOK /\ HistoryExplainsRecord /\ BrokerStateHasOrderId

LEMMA InitIInv == Init => IInv
<1> SUFFICES ASSUME Init PROVE IInv
  OBVIOUS
<1>1. TypeOK
  BY DEF Init, TypeOK, Record
<1>2. HistoryExplainsRecord
  <2>1. ASSUME NEW e \in EventId
        PROVE  /\ records[e].status = Unknown /\ history[e] = <<>>
               /\ 1 .. Len(history[e]) - 1 = {}
    BY DEF Init
  <2> QED
    BY <2>1 DEF HistoryExplainsRecord
<1>3. BrokerStateHasOrderId
  BY DEF Init, BrokerStateHasOrderId, Unknown
<1> QED
  BY <1>1, <1>2, <1>3 DEF IInv

\* The effect of a write, field by field, with the history as a longer
\* sequence that keeps its old entries.
LEMMA WriteEffect ==
    ASSUME TypeOK, NEW e \in EventId, NEW s \in Status,
           NEW o \in OrderId \cup {NoOrder}, Write(e, s, o)
    PROVE  /\ records' \in [EventId -> Record]
           /\ history' \in [EventId -> Seq(Status)]
           /\ records'[e].status = s
           /\ records'[e].oid = IF o = NoOrder THEN records[e].oid ELSE o
           /\ Len(history'[e]) = Len(history[e]) + 1
           /\ history'[e] # <<>>
           /\ history'[e][Len(history[e]) + 1] = s
           /\ \A i \in 1 .. Len(history[e]) : history'[e][i] = history[e][i]
           /\ \A f \in EventId \ {e} : /\ records'[f] = records[f]
                                       /\ history'[f] = history[f]
<1>1. records' = [records EXCEPT ![e] =
            [status |-> s, oid |-> IF o = NoOrder THEN records[e].oid ELSE o]]
  BY DEF Write, TypeOK
<1>2. history' = [history EXCEPT ![e] = Append(history[e], s)]
  BY DEF Write, TypeOK
<1>3. history[e] \in Seq(Status)
  BY DEF TypeOK
<1>4. /\ Append(history[e], s) \in Seq(Status)
      /\ Len(Append(history[e], s)) = Len(history[e]) + 1
      /\ Append(history[e], s)[Len(history[e]) + 1] = s
      /\ \A i \in 1 .. Len(history[e]) :
            Append(history[e], s)[i] = history[e][i]
      /\ Append(history[e], s) # <<>>
  BY <1>3
<1>5. records[e] \in Record
  BY DEF TypeOK
<1>6. records' \in [EventId -> Record]
  BY <1>1, <1>5 DEF TypeOK, Record
<1>7. /\ records'[e].status = s
      /\ records'[e].oid = IF o = NoOrder THEN records[e].oid ELSE o
      /\ \A f \in EventId \ {e} : records'[f] = records[f]
  BY <1>1 DEF TypeOK
<1>8. /\ history' \in [EventId -> Seq(Status)]
      /\ history'[e] = Append(history[e], s)
      /\ \A f \in EventId \ {e} : history'[f] = history[f]
  BY <1>2, <1>4 DEF TypeOK
<1> QED
  BY <1>4, <1>6, <1>7, <1>8

LEMMA StepIInv == IInv /\ [Next]_vars => IInv'
<1>1. ASSUME IInv, UNCHANGED vars PROVE IInv'
  BY <1>1 DEF IInv, vars, TypeOK, HistoryExplainsRecord, BrokerStateHasOrderId
<1>2. ASSUME IInv, Next PROVE IInv'
  <2>1. PICK e \in EventId, s \in Status, o \in OrderId \cup {NoOrder} :
              /\ Write(e, s, o)
              /\ \/ records[e].status = Unknown /\ s = "Reserved" /\ o = NoOrder
                 \/ /\ s \in Allowed(records[e].status)
                    /\ s = "Submitted" <=> o # NoOrder
    BY <1>2, StepIsWrite DEF IInv
  <2>2. TypeOK /\ HistoryExplainsRecord /\ BrokerStateHasOrderId
    BY <1>2 DEF IInv
  <2>3. /\ records' \in [EventId -> Record]
        /\ history' \in [EventId -> Seq(Status)]
        /\ records'[e].status = s
        /\ records'[e].oid = IF o = NoOrder THEN records[e].oid ELSE o
        /\ Len(history'[e]) = Len(history[e]) + 1
        /\ history'[e] # <<>>
        /\ history'[e][Len(history[e]) + 1] = s
        /\ \A i \in 1 .. Len(history[e]) : history'[e][i] = history[e][i]
        /\ \A f \in EventId \ {e} : /\ records'[f] = records[f]
                                    /\ history'[f] = history[f]
    BY <2>1, <2>2, WriteEffect
  <2>4. TypeOK'
    BY <2>3 DEF TypeOK
  <2>5. history[e] \in Seq(Status) /\ records[e] \in Record
    BY <2>2 DEF TypeOK
  <2>6. HistoryExplainsRecord'
    <3>1. s # Unknown
      BY DEF Status, Unknown
    <3>2. history'[e][1] = "Reserved"
      <4>1. CASE history[e] = <<>>
        <5>1. records[e].status = Unknown
          BY <4>1, <2>2 DEF HistoryExplainsRecord
        <5>2. s = "Reserved"
          BY <5>1, <2>1, AllowedFacts
        <5> QED
          BY <4>1, <5>2, <2>3
      <4>2. CASE history[e] # <<>>
        <5>1. 1 \in 1 .. Len(history[e])
          BY <4>2, <2>5
        <5> QED
          BY <5>1, <4>2, <2>2, <2>3 DEF HistoryExplainsRecord
      <4> QED
        BY <4>1, <4>2
    <3>3. ASSUME NEW i \in 1 .. Len(history'[e]) - 1
          PROVE  history'[e][i + 1] \in Allowed(history'[e][i])
      <4>1. CASE i < Len(history[e])
        <5>1. /\ i \in 1 .. Len(history[e]) - 1
              /\ i \in 1 .. Len(history[e])
              /\ i + 1 \in 1 .. Len(history[e])
          BY <4>1, <2>3, <2>5
        <5> QED
          BY <5>1, <2>2, <2>3 DEF HistoryExplainsRecord
      <4>2. CASE i = Len(history[e])
        <5>1. i \in 1 .. Len(history[e]) /\ history[e] # <<>>
          BY <4>2, <2>5
        <5>2. /\ history'[e][i] = records[e].status
              /\ records[e].status # Unknown
          BY <5>1, <4>2, <2>2, <2>3 DEF HistoryExplainsRecord
        <5>3. history'[e][i + 1] = s
          BY <4>2, <2>3
        <5> QED
          BY <5>2, <5>3, <2>1
      <4> QED
        BY <4>1, <4>2, <2>3, <2>5
    <3>4. history'[e][Len(history'[e])] = records'[e].status
      BY <2>3
    <3> SUFFICES ASSUME NEW f \in EventId
                 PROVE  /\ records'[f].status = Unknown <=> history'[f] = <<>>
                        /\ history'[f] # <<>> =>
                              /\ history'[f][1] = "Reserved"
                              /\ history'[f][Len(history'[f])] = records'[f].status
                        /\ \A i \in 1 .. Len(history'[f]) - 1 :
                              history'[f][i + 1] \in Allowed(history'[f][i])
      BY DEF HistoryExplainsRecord
    <3>5. CASE f = e
      BY <2>3, <3>1, <3>2, <3>3, <3>4, <3>5
    <3>6. CASE f # e
      BY <2>2, <2>3, <3>6 DEF HistoryExplainsRecord
    <3> QED
      BY <3>5, <3>6
  <2>7. BrokerStateHasOrderId'
    <3>1. CASE s = "Submitted"
      <4>1. s \in Allowed(records[e].status) /\ o # NoOrder
        BY <3>1, <2>1
      <4> QED
        BY <4>1, <3>1, <2>2, <2>3 DEF BrokerStateHasOrderId, Unknown
    <3>2. CASE s # "Submitted"
      <4>1. records'[e].oid = records[e].oid
        BY <3>2, <2>1, <2>3
      <4>2. CASE s = "Reserved"
        <5>1. records[e].status = Unknown
          BY <4>2, <2>1, AllowedFacts, <2>5 DEF Record
        <5> QED
          BY <5>1, <4>1, <4>2, <2>2, <2>3 DEF BrokerStateHasOrderId
      <4>3. CASE s = "Rejected"
        BY <4>1, <4>3, <2>2, <2>3 DEF BrokerStateHasOrderId, Unknown
      <4>4. CASE s \notin {"Reserved", "Rejected"}
        <5>1. s \in Allowed(records[e].status)
          BY <4>4, <2>1
        <5>2. records[e].status \in
                 {"Submitted", "Acknowledged", "PartiallyFilled"}
          BY <5>1, <4>4, <3>2, <2>5, AllowedFacts
             DEF Record, Status, Terminal
        <5>3. records[e].oid # NoOrder
          BY <5>2, <2>2 DEF BrokerStateHasOrderId
        <5> QED
          BY <5>3, <4>1, <4>4, <2>2, <2>3
             DEF BrokerStateHasOrderId, Status, Unknown
      <4> QED
        BY <4>2, <4>3, <4>4
    <3> QED
      BY <3>1, <3>2
  <2> QED
    BY <2>4, <2>6, <2>7 DEF IInv
<1> QED
  BY <1>1, <1>2

\* The records and histories keep their types, for every set of events.
THEOREM SpecTypeOK == Spec => []TypeOK
<1>1. IInv => TypeOK
  BY DEF IInv
<1> QED
  BY <1>1, InitIInv, StepIInv, PTL DEF Spec

\* The audit history always explains the current record.
THEOREM SpecHistoryExplainsRecord == Spec => []HistoryExplainsRecord
<1>1. IInv => HistoryExplainsRecord
  BY DEF IInv
<1> QED
  BY <1>1, InitIInv, StepIInv, PTL DEF Spec

\* Every record in a state the broker caused carries its order id.
THEOREM SpecBrokerStateHasOrderId == Spec => []BrokerStateHasOrderId
<1>1. IInv => BrokerStateHasOrderId
  BY DEF IInv
<1> QED
  BY <1>1, InitIInv, StepIInv, PTL DEF Spec

\* Terminal records are final and a recorded order id never changes.
THEOREM SpecRecordsAreFinal == Spec => RecordsAreFinal
<1> DEFINE Final ==
      \A e \in EventId :
          /\ records[e].status \in Terminal => records'[e] = records[e]
          /\ records[e].status # Unknown => records'[e].status # Unknown
          /\ records[e].oid # NoOrder => records'[e].oid = records[e].oid
<1>1. IInv /\ [Next]_vars => [Final]_vars
  <2> SUFFICES ASSUME IInv, Next PROVE Final
    OBVIOUS
  <2>1. PICK e \in EventId, s \in Status, o \in OrderId \cup {NoOrder} :
              /\ Write(e, s, o)
              /\ \/ records[e].status = Unknown /\ s = "Reserved" /\ o = NoOrder
                 \/ /\ s \in Allowed(records[e].status)
                    /\ s = "Submitted" <=> o # NoOrder
    BY StepIsWrite DEF IInv
  <2>2. TypeOK /\ BrokerStateHasOrderId /\ records[e] \in Record
    BY DEF IInv, TypeOK
  <2>3. /\ records'[e].status = s
        /\ records'[e].oid = IF o = NoOrder THEN records[e].oid ELSE o
        /\ \A f \in EventId \ {e} : records'[f] = records[f]
    BY <2>1, <2>2, WriteEffect
  <2>4. records[e].status \notin Terminal
    BY <2>1, AllowedFacts DEF Terminal, Unknown
  <2>5. s # Unknown
    BY DEF Status, Unknown
  <2>6. records[e].oid # NoOrder => o = NoOrder
    <3>1. CASE s = "Submitted"
      BY <3>1, <2>1, <2>2, AllowedFacts DEF BrokerStateHasOrderId, Record
    <3>2. CASE s # "Submitted"
      BY <3>2, <2>1
    <3> QED
      BY <3>1, <3>2
  <2> QED
    BY <2>3, <2>4, <2>5, <2>6
<1> QED
  BY <1>1, InitIInv, StepIInv, PTL DEF Spec, RecordsAreFinal

=============================================================================
